----------------------------- MODULE ConsoleProofs -----------------------------
(***************************************************************************)
(* That print_char stays near the screen, for a screen of any size, any    *)
(* texts and any number of keys, as long as fewer keys arrive between two  *)
(* of its accesses than the screen has lines.                              *)
(***************************************************************************)
EXTENDS Console, TLAPS

\* A line of the screen, or the one above the first to which scroll moves.
OnScreen(y) == y < Rows \/ y = Width - 1

\* A line on which a newline has just left the cursor.
NearScreen(y) == y < Rows + FontRows \/ y = Width - 1

\* print_char has seen a column left, or has moved to the first, and the
\* handler can take that one only to the edge.
HasColumn ==
    \/ at \in {"down", "store_line", "test", "scroll", "store_scroll", "draw",
               "argument", "load_column", "store_column"}
    \/ at = "top" /\ task # "disp_str"

Numbers ==
    /\ cursor_x \in Nat /\ cursor_y \in Nat /\ register \in Nat /\ burst \in Nat
    /\ drawn \in Nat \X Nat

CursorOK ==
    /\ cursor_x <= Columns + 1
    /\ HasColumn => cursor_x <= Columns
    /\ NearScreen(cursor_y)
    /\ at \notin {"test", "top", "disp_test"} => OnScreen(cursor_y)

\* scroll begins on line 0, and only keys have moved the cursor since.
ScrollOK ==
    /\ burst <= MaxBurst
    /\ at = "scroll" => cursor_y <= burst
    /\ at = "store_scroll" => register < Rows

RegisterOK ==
    /\ at \in {"store_line", "argument", "disp_store"} => OnScreen(register)
    /\ at = "store_column" => register <= Columns
    /\ at \in {"disp_store", "disp_test"} => task = "disp_str"

DrawnOK == drawn[1] <= Columns /\ NearScreen(drawn[2])

\* print_char prints a character of out; nothing is printed between two calls.
PrintingOK ==
    /\ at \in {"next", "left", "down", "store_line", "test", "top", "scroll",
               "store_scroll", "draw", "argument", "load_column", "store_column",
               "disp_store", "disp_test"}
    /\ HasColumn \/ at = "left" => out # <<>>
    /\ task = "idle" => at = "next" /\ out = <<>>

IInv == PrintingOK /\ Numbers /\ CursorOK /\ ScrollOK /\ RegisterOK /\ DrawnOK

-----------------------------------------------------------------------------
LEMMA ModSmall == \A w \in Nat \ {0} : \A a \in 0 .. w - 1 : a % w = a
OBVIOUS

LEMMA ModOnce == \A w \in Nat \ {0} : \A a \in w .. 2 * w - 1 : a % w = a - w
OBVIOUS

\* The unsigned arithmetic of cursor_y, near the screen.
LEMMA LineBelow ==
    ASSUME Screen, NEW y \in Nat, NearScreen(y)
    PROVE  Below(y) \in Nat /\ Below(y) = IF y = Width - 1 THEN 0 ELSE y + 1
<1>1. CASE y = Width - 1
    BY <1>1, ModOnce DEF Below, Screen
<1>2. CASE y < Rows + FontRows
    BY <1>2, ModSmall DEF Below, Screen
<1> QED BY <1>1, <1>2 DEF NearScreen

LEMMA LineUp ==
    ASSUME Screen, NEW y \in Nat, y < Rows
    PROVE  Up(y) \in Nat /\ Up(y) = IF y = 0 THEN Width - 1 ELSE y - 1
<1>1. CASE y = 0
    BY <1>1, ModSmall DEF Up, Screen
<1>2. CASE y # 0
    BY <1>2, ModOnce DEF Up, Screen
<1> QED BY <1>1, <1>2

LEMMA LineDisp ==
    ASSUME Screen, NEW y \in Nat, OnScreen(y)
    PROVE  (y + FontRows) % Width \in Nat /\ NearScreen((y + FontRows) % Width)
<1>1. CASE y = Width - 1
    <2>1. y + FontRows \in Width .. 2 * Width - 1 /\ y + FontRows - Width = FontRows - 1
        BY <1>1 DEF Screen
    <2>2. \A a \in Width .. 2 * Width - 1 : a % Width = a - Width
        BY ModOnce DEF Screen
    <2>3. (y + FontRows) % Width = FontRows - 1
        BY <2>1, <2>2 DEF Screen
    <2> QED BY <2>3 DEF Screen, NearScreen
<1>2. CASE y < Rows
    <2>1. (y + FontRows) % Width = y + FontRows
        BY <1>2, ModSmall DEF Screen
    <2> QED BY <1>2, <2>1 DEF Screen, NearScreen
<1> QED BY <1>1, <1>2 DEF OnScreen

LEMMA Scrolls ==
    ASSUME Screen, NEW y \in Nat, NearScreen(y)
    PROVE  /\ Scrolled(y) \in Nat /\ OnScreen(Scrolled(y))
           /\ y < Rows - 1 => Scrolled(y) = y + 1
<1>1. Below(y) = IF y = Width - 1 THEN 0 ELSE y + 1
    BY LineBelow
<1>2. Up(0) = Width - 1
    BY LineUp DEF Screen
<1> QED BY <1>1, <1>2 DEF Scrolled, OnScreen, NearScreen, Screen

-----------------------------------------------------------------------------
LEMMA InitIInv == ASSUME Screen, Init PROVE IInv
BY DEF Screen, Init, IInv, PrintingOK, Numbers, CursorOK, ScrollOK, RegisterOK, DrawnOK, HasColumn, OnScreen,
       NearScreen

\* What the keyboard's handler does to the cursor, wherever it interrupts.
LEMMA EchoMoves ==
    ASSUME Screen, Numbers, CursorOK, DrawnOK, NEW c, Echo(c)
    PROVE  /\ cursor_x' \in Nat /\ cursor_x' <= Columns
           /\ cursor_y' = cursor_y \/ cursor_y' = Scrolled(cursor_y)
           /\ drawn' \in Nat \X Nat /\ DrawnOK'
<1> DEFINE s == Scrolled(cursor_y)
<1>0. s \in Nat /\ OnScreen(s)
    BY Scrolls DEF Numbers, CursorOK
<1> HIDE DEF s
<1>1. CASE c = "newline"
    BY <1>1 DEF Screen, Echo, Numbers, DrawnOK, NearScreen
<1>2. CASE c # "newline" /\ cursor_x + 1 > Columns
    <2>1. cursor_x' = 1 /\ cursor_y' = s /\ drawn' = <<0, s>>
        BY <1>2 DEF Echo, s
    <2> QED BY <1>0, <2>1 DEF Screen, DrawnOK, OnScreen, NearScreen, s
<1>3. CASE c # "newline" /\ ~(cursor_x + 1 > Columns)
    <2>1. cursor_x' = cursor_x + 1 /\ cursor_y' = cursor_y /\ drawn' = <<cursor_x, cursor_y>>
        BY <1>3 DEF Echo
    <2> QED BY <1>3, <2>1 DEF Screen, Numbers, CursorOK, DrawnOK, NearScreen
<1> QED BY <1>1, <1>2, <1>3

LEMMA KeyStep == ASSUME Screen, IInv, keyboard_interrupt_handler PROVE IInv'
<1>1. UNCHANGED kernel /\ burst < MaxBurst /\ burst' = burst + 1
    BY Zenon DEF keyboard_interrupt_handler
<1>2. UNCHANGED <<at, out, register, task>>
    BY <1>1 DEF kernel
<1>3. PrintingOK /\ Numbers /\ CursorOK /\ ScrollOK /\ RegisterOK /\ DrawnOK
    BY DEF IInv
<1>4. CASE UNCHANGED cursor
    BY <1>1, <1>2, <1>3, <1>4
    DEF Screen, cursor, IInv, PrintingOK, Numbers, CursorOK, ScrollOK, RegisterOK, DrawnOK, HasColumn,
        OnScreen, NearScreen
<1>5. ASSUME NEW c, Echo(c) PROVE IInv'
    <2> DEFINE s == Scrolled(cursor_y)
    <2>1. /\ cursor_x' \in Nat /\ cursor_x' <= Columns
          /\ drawn' \in Nat \X Nat /\ DrawnOK'
          /\ cursor_y' = cursor_y \/ cursor_y' = s
        BY <1>3, <1>5, EchoMoves
    <2>2. /\ s \in Nat /\ OnScreen(s)
          /\ cursor_y < Rows - 1 => s = cursor_y + 1
        BY <1>3, Scrolls DEF Numbers, CursorOK
    <2> HIDE DEF s
    <2>3. Numbers'
        BY <1>1, <1>2, <1>3, <2>1, <2>2 DEF Numbers
    <2>4. CursorOK'
        BY <1>2, <1>3, <2>1, <2>2 DEF Screen, Numbers, CursorOK, HasColumn, OnScreen, NearScreen
    <2>5. ScrollOK'
        BY <1>1, <1>2, <1>3, <2>1, <2>2 DEF Screen, Numbers, ScrollOK
    <2>6. RegisterOK'
        BY <1>2, <1>3 DEF RegisterOK, OnScreen
    <2>7. PrintingOK'
        BY <1>2, <1>3 DEF PrintingOK, HasColumn
    <2> QED BY <2>1, <2>3, <2>4, <2>5, <2>6, <2>7 DEF IInv
<1>6. UNCHANGED cursor \/ \E c : Echo(c)
    BY Zenon DEF keyboard_interrupt_handler, cursor
<1> QED BY <1>4, <1>5, <1>6

-----------------------------------------------------------------------------
\* The kernel's steps.  In each, the handler's part of the invariant is that
\* burst begins anew.
LEMMA LinesOfPrintChar ==
    ASSUME Screen, IInv, burst' = 0,
           StartChar \/ MoveLeft \/ LoadLine \/ StoreLine \/ TestLine \/ MoveTop
    PROVE  IInv'
<1> USE DEF Screen, IInv, PrintingOK, Numbers, CursorOK, ScrollOK, RegisterOK, DrawnOK, HasColumn,
            OnScreen, NearScreen
<1>1. CASE StartChar
    BY <1>1 DEF StartChar, MovesDown, cursor
<1>2. CASE MoveLeft
    BY <1>2 DEF MoveLeft
<1>3. CASE LoadLine
    BY <1>3 DEF LoadLine, cursor
<1>4. CASE StoreLine
    <2>1. Below(register) \in Nat /\ Below(register) <= Rows
        BY <1>4, LineBelow DEF StoreLine
    <2> QED BY <1>4, <2>1 DEF StoreLine
<1>5. CASE TestLine
    BY <1>5 DEF TestLine, Continue, Finish, cursor
<1>6. CASE MoveTop
    BY <1>6 DEF MoveTop
<1> QED BY <1>1, <1>2, <1>3, <1>4, <1>5, <1>6

LEMMA RestOfPrintChar ==
    ASSUME Screen, IInv, burst' = 0,
           \/ LoadScroll \/ StoreScroll \/ LoadArgument \/ Draw \/ LoadColumn \/ StoreColumn
    PROVE  IInv'
<1> USE DEF Screen, IInv, PrintingOK, Numbers, CursorOK, ScrollOK, RegisterOK, DrawnOK, HasColumn,
            OnScreen, NearScreen
<1>1. CASE LoadScroll
    BY <1>1 DEF LoadScroll, cursor
<1>2. CASE StoreScroll
    <2>1. Up(register) \in Nat /\ OnScreen(Up(register))
        BY <1>2, LineUp DEF StoreScroll
    <2> QED BY <1>2, <2>1 DEF StoreScroll, Continue, Finish
<1>3. CASE LoadArgument
    BY <1>3 DEF LoadArgument, cursor
<1>4. CASE Draw
    BY <1>4 DEF Draw
<1>5. CASE LoadColumn
    BY <1>5 DEF LoadColumn, cursor
<1>6. CASE StoreColumn
    BY <1>6 DEF StoreColumn, Finish
<1> QED BY <1>1, <1>2, <1>3, <1>4, <1>5, <1>6

LEMMA DispStep ==
    ASSUME Screen, IInv, burst' = 0, DispGlyph \/ DispNewline
    PROVE  IInv'
<1> USE DEF Screen, IInv, PrintingOK, Numbers, CursorOK, ScrollOK, RegisterOK, DrawnOK, HasColumn,
            OnScreen, NearScreen
<1>1. CASE DispGlyph
    BY <1>1 DEF DispGlyph, cursor
<1>2. CASE DispLoad
    BY <1>2 DEF DispLoad, cursor
<1>3. CASE DispStore
    <2>1. (register + FontRows) % Width \in Nat /\ NearScreen((register + FontRows) % Width)
        BY <1>3, LineDisp DEF DispStore
    <2> QED BY <1>3, <2>1 DEF DispStore
<1>4. CASE DispTest
    BY <1>4 DEF DispTest, cursor
<1> QED BY <1>1, <1>2, <1>3, <1>4 DEF DispNewline

\* The functions that print go on when print_char has returned.
LEMMA BetweenCharacters ==
    ASSUME IInv, out = <<>>, task # "disp_str"
    PROVE  at = "next"
BY DEF IInv, PrintingOK, RegisterOK, HasColumn

\* The steps that leave the cursor alone: a call, a return, the next directive,
\* kernel_readline between two characters.
LEMMA CallerStep ==
    ASSUME Screen, IInv, burst' = 0, UNCHANGED <<cursor, at, register>>, at = "next",
           task' = "idle" => out' = <<>>
    PROVE  IInv'
BY DEF Screen, IInv, PrintingOK, Numbers, CursorOK, ScrollOK, RegisterOK, DrawnOK,
       HasColumn, OnScreen, NearScreen, cursor

LEMMA CallsStep == ASSUME Screen, IInv, Calls PROVE IInv'
<1>1. /\ UNCHANGED <<cursor, at, register>> /\ burst' = 0 /\ task = "idle"
      /\ task' \in {"print_numstr", "terminal_write", "disp_str", "readline"}
    BY DEF Calls, print_numstr, terminal_write, disp_str, kernel_readline, Call, Busy
<1>2. at = "next"
    BY <1>1 DEF IInv, PrintingOK
<1> QED BY <1>1, <1>2, CallerStep

LEMMA KernelStep == ASSUME Screen, IInv, Kernel PROVE IInv'
<1>1. burst' = 0
    BY DEF Kernel
<1>2. CASE PrintChar
    BY <1>1, <1>2, LinesOfPrintChar, RestOfPrintChar DEF PrintChar
<1>3. CASE DispGlyph \/ DispNewline
    BY <1>1, <1>3, DispStep
<1>4. CASE NextDirective
    <2>1. at = "next"
        BY <1>4, BetweenCharacters DEF NextDirective
    <2> QED BY <1>1, <1>4, <2>1, CallerStep DEF NextDirective
<1>5. CASE Return
    BY <1>1, <1>5, CallerStep DEF Return
<1>6. CASE Readline
    <2>1. at = "next"
        BY <1>6, BetweenCharacters DEF Readline, ReadKey, ReadBackspace, EndLine, Polling
    <2>2. UNCHANGED <<cursor, at, register>> /\ task' # "idle"
        BY <1>6 DEF Readline, ReadKey, ReadBackspace, EndLine, Polling
    <2> QED BY <1>1, <2>1, <2>2, CallerStep
<1> QED BY <1>2, <1>3, <1>4, <1>5, <1>6 DEF Kernel

LEMMA StutterStep == ASSUME IInv, UNCHANGED vars PROVE IInv'
BY DEF vars, cursor, kernel, IInv, PrintingOK, Numbers, CursorOK, ScrollOK, RegisterOK,
       DrawnOK, HasColumn, OnScreen, NearScreen

\* However the keyboard's interrupts fall between the accesses of print_char,
\* scroll and disp_str, the glyphs stay within a line and a newline of the
\* screen, on a screen of any size: provided that fewer keys arrive between
\* two accesses than it has lines, for scroll would take the cursor two lines
\* back otherwise, and below zero.
THEOREM ConsoleGlyphsNearScreen == Spec => []GlyphsNearScreen
<1>1. Init => IInv
    BY InitIInv, ScreenAssumption
<1>2. IInv /\ [Next]_vars => IInv'
    BY CallsStep, KernelStep, KeyStep, StutterStep, ScreenAssumption DEF Next
<1>3. IInv => GlyphsNearScreen
  <2> SUFFICES ASSUME IInv PROVE GlyphsNearScreen
    OBVIOUS
  <2>1. NearScreen(cursor_y) /\ cursor_y \in Nat /\ NearScreen(drawn[2]) /\ drawn[2] \in Nat
    BY DEF IInv, Numbers, CursorOK, DrawnOK
  <2>2. \A y \in Nat : NearScreen(y) => Below(y) <= Rows + FontRows
    BY LineBelow, ScreenAssumption DEF Screen, NearScreen
  <2> QED BY <2>1, <2>2 DEF IInv, CursorOK, DrawnOK, GlyphsNearScreen
<1> QED BY <1>1, <1>2, <1>3, PTL DEF Spec
=============================================================================
