------------------------------- MODULE Console -------------------------------
(***************************************************************************)
(* The text console of the boot core: print_char and scroll                *)
(* (display/framebuffer.c) with their callers print_numstr, disp_str and   *)
(* terminal_write, the keyboard's interrupt handler and kernel_readline    *)
(* (hardware/ps2/devices/keyboard.c).                                      *)
(*                                                                         *)
(* The kernel prints with interrupts enabled, and the keyboard's handler   *)
(* echoes each key through the same cursor: it can run between any two     *)
(* accesses of print_char (the build does not optimise: += is a load and a *)
(* store), while nothing runs during the handler.  Positions are counted   *)
(* in characters of 8 by 8 pixels; a format is the sequence of its         *)
(* directives.  Colours and the shapes of glyphs are left out.             *)
(***************************************************************************)
EXTENDS Integers, Sequences

CONSTANTS
    Columns, Rows,  \* the screen, in characters
    Width,          \* the modulus of the unsigned cursor_y, in characters
    FontRows,       \* the height of the font of disp_str, in characters
    Formats,        \* what the kernel prints: sequences of directives
    LineSize,       \* the size argument of kernel_readline
    MaxKeys,        \* bound: scan codes that arrive
    MaxBurst,       \* bound: those that arrive between two accesses
    MaxCalls        \* bound: calls of the kernel

\* The screen; cursor_y does not wrap but below 0; and the bound on the keys
\* that arrive at once.
Screen ==
    /\ Columns \in Nat /\ Columns > 0
    /\ Rows \in Nat /\ Rows > 0
    /\ FontRows \in Nat /\ FontRows > 0
    /\ Width \in Nat /\ Width > Rows + FontRows + 1
    /\ MaxBurst \in Nat /\ MaxBurst < Rows

ASSUME ScreenAssumption == Screen

VARIABLES
    cursor_x, cursor_y,
    drawn,          \* where print_char drew the last glyph
    temp_key, shift, caps_lock, ctrl,
    keys,           \* scan codes received
    burst,          \* those since the kernel's last access
    task,           \* the function the kernel is in
    format,         \* the directives it has still to interpret
    out,            \* the characters of the current one still to print
    at,             \* the next statement of print_char
    register,       \* the value between the load and the store of a +=
    filled,         \* kernel_readline: its i
    calls           \* calls of the kernel so far

keyboard == <<temp_key, shift, caps_lock, ctrl, keys>>
cursor == <<cursor_x, cursor_y, drawn>>
kernel == <<task, format, out, at, register, filled, calls>>
vars == <<cursor, keyboard, burst, kernel>>

Init ==
    /\ cursor_x = 0 /\ cursor_y = 0 /\ drawn = <<0, 0>>
    /\ temp_key = "nul" /\ keys = 0 /\ burst = 0
    /\ shift = FALSE /\ caps_lock = FALSE /\ ctrl = FALSE
    /\ task = "idle" /\ format = <<>> /\ out = <<>> /\ at = "next"
    /\ register = 0 /\ filled = 0 /\ calls = 0

Up(y) == (y + Width - 1) % Width
Below(y) == (y + 1) % Width

-----------------------------------------------------------------------------
(* print_char, run by the kernel one access at a time.                     *)

MovesDown == Head(out) = "newline" \/ cursor_x + 1 > Columns

\* The character is printed: the next one.
Finish == out' = Tail(out) /\ at' = "next"

\* Where print_char goes on when the cursor is on its new line.
Continue ==
    IF Head(out) = "newline" THEN Finish ELSE at' = "draw" /\ UNCHANGED out

StartChar ==
    /\ at = "next" /\ out # <<>>
    /\ at' = IF MovesDown THEN "left" ELSE "draw"
    /\ UNCHANGED <<cursor, keyboard, task, format, out, register, filled, calls>>

MoveLeft ==
    /\ at = "left" /\ cursor_x' = 0 /\ at' = "down"
    /\ UNCHANGED <<cursor_y, drawn, keyboard, task, format, out, register, filled, calls>>

LoadLine ==
    /\ at = "down" /\ register' = cursor_y /\ at' = "store_line"
    /\ UNCHANGED <<cursor, keyboard, task, format, out, filled, calls>>

StoreLine ==
    /\ at = "store_line" /\ cursor_y' = Below(register) /\ at' = "test"
    /\ UNCHANGED <<cursor_x, drawn, keyboard, task, format, out, register, filled, calls>>

\* Mutant: the line behind the last one is not recognised.
TestLineLate ==
    /\ at = "test"
    /\ IF cursor_y > Rows THEN at' = "top" /\ UNCHANGED out ELSE Continue
    /\ UNCHANGED <<cursor, keyboard, task, format, register, filled, calls>>

\* cursor_y is read again: the handler may have moved it.
TestLine ==
    /\ at = "test"
    /\ IF cursor_y >= Rows THEN at' = "top" /\ UNCHANGED out ELSE Continue
    /\ UNCHANGED <<cursor, keyboard, task, format, register, filled, calls>>

MoveTop ==
    /\ at = "top" /\ cursor_y' = 0
    /\ at' = IF task = "disp_str" THEN "next" ELSE "scroll"
    /\ UNCHANGED <<cursor_x, drawn, keyboard, task, format, out, register, filled, calls>>

\* scroll moves the cursor up from the line print_char has just set to 0.
LoadScroll ==
    /\ at = "scroll" /\ register' = cursor_y /\ at' = "store_scroll"
    /\ UNCHANGED <<cursor, keyboard, task, format, out, filled, calls>>

StoreScroll ==
    /\ at = "store_scroll" /\ cursor_y' = Up(register) /\ Continue
    /\ UNCHANGED <<cursor_x, drawn, keyboard, task, format, register, filled, calls>>

\* The arguments of draw_char are loaded one after the other, the last first.
LoadArgument ==
    /\ at = "draw" /\ register' = cursor_y /\ at' = "argument"
    /\ UNCHANGED <<cursor, keyboard, task, format, out, filled, calls>>

Draw ==
    /\ at = "argument" /\ drawn' = <<cursor_x, register>> /\ at' = "load_column"
    /\ UNCHANGED <<cursor_x, cursor_y, keyboard, task, format, out, register, filled, calls>>

LoadColumn ==
    /\ at = "load_column" /\ register' = cursor_x /\ at' = "store_column"
    /\ UNCHANGED <<cursor, keyboard, task, format, out, filled, calls>>

StoreColumn ==
    /\ at = "store_column" /\ cursor_x' = register + 1 /\ Finish
    /\ UNCHANGED <<cursor_y, drawn, keyboard, task, format, register, filled, calls>>

PrintChar ==
    \/ StartChar \/ MoveLeft \/ LoadLine \/ StoreLine \/ TestLine \/ MoveTop
    \/ LoadScroll \/ StoreScroll \/ LoadArgument \/ Draw
    \/ LoadColumn \/ StoreColumn

-----------------------------------------------------------------------------
(* The functions that print.                                               *)

\* The characters of a directive: numbers of two digits or a sign and two,
\* addresses of three, strings that are formats again.
Expand(directive) ==
    CASE directive \in {"char", "newline", "%c"} ->
            <<IF directive = "newline" THEN "newline" ELSE "x">>
      [] directive \in {"%d", "%lu"} -> <<"x", "x">>
      [] directive \in {"%ld", "%lf", "%p"} -> <<"x", "x", "x">>
      [] directive = "%s" -> <<"x", "newline">>

Busy == task # "idle"

Call(function, f) ==
    /\ ~Busy /\ calls < MaxCalls
    /\ task' = function /\ format' = f /\ calls' = calls + 1
    /\ UNCHANGED <<cursor, keyboard, out, at, register, filled>>

print_numstr == \E f \in Formats : Call("print_numstr", f)
terminal_write == \E f \in Formats : Call("terminal_write", f)

\* disp_str knows no directive but %d.
disp_str ==
    \E f \in Formats :
        (\A i \in DOMAIN f : f[i] \in {"char", "newline", "%d"}) /\ Call("disp_str", f)

\* Mutant: the directive is not skipped.
RepeatDirective ==
    /\ task \in {"print_numstr", "terminal_write"} /\ out = <<>> /\ format # <<>>
    /\ out' = Expand(Head(format))
    /\ UNCHANGED <<cursor, keyboard, task, format, at, register, filled, calls>>

NextDirective ==
    /\ task \in {"print_numstr", "terminal_write"} /\ out = <<>> /\ format # <<>>
    /\ out' = Expand(Head(format)) /\ format' = Tail(format)
    /\ UNCHANGED <<cursor, keyboard, task, at, register, filled, calls>>

\* disp_str draws every string from the left edge and leaves cursor_x alone;
\* filled stands for its kx.
DispGlyph ==
    /\ task = "disp_str" /\ at = "next" /\ format # <<>> /\ Head(format) # "newline"
    /\ filled' = filled + Len(Expand(Head(format))) /\ format' = Tail(format)
    /\ UNCHANGED <<cursor, keyboard, task, out, at, register, calls>>

\* Its newline is a tall one, and the screen does not scroll.
DispLoad ==
    /\ task = "disp_str" /\ at = "next" /\ format # <<>> /\ Head(format) = "newline"
    /\ register' = cursor_y /\ filled' = 0
    /\ format' = Tail(format) /\ at' = "disp_store"
    /\ UNCHANGED <<cursor, keyboard, task, out, calls>>

DispStore ==
    /\ at = "disp_store" /\ cursor_y' = (register + FontRows) % Width /\ at' = "disp_test"
    /\ UNCHANGED <<cursor_x, drawn, keyboard, task, format, out, register, filled, calls>>

DispTest ==
    /\ at = "disp_test" /\ at' = IF cursor_y >= Rows THEN "top" ELSE "next"
    /\ UNCHANGED <<cursor, keyboard, task, format, out, register, filled, calls>>

DispNewline == DispLoad \/ DispStore \/ DispTest

Return ==
    /\ Busy /\ task # "readline" /\ at = "next" /\ format = <<>> /\ out = <<>>
    /\ task' = "idle" /\ filled' = 0
    /\ UNCHANGED <<cursor, keyboard, format, out, at, register, calls>>

-----------------------------------------------------------------------------
(* kernel_readline: it polls the last key and does not consume it.         *)

kernel_readline ==
    /\ ~Busy /\ calls < MaxCalls
    /\ task' = "readline" /\ calls' = calls + 1
    /\ UNCHANGED <<cursor, keyboard, format, out, at, register, filled>>

Polling == task = "readline" /\ out = <<>>
Full == filled >= LineSize - 1
Printable == {"a", "A"}

ReadKey ==
    /\ Polling /\ ~Full /\ temp_key \in Printable
    /\ filled' = filled + 1 /\ out' = <<"x">>
    /\ UNCHANGED <<cursor, keyboard, task, format, at, register, calls>>

\* A backspace prints three glyphs: print_char does not move the cursor back.
ReadBackspace ==
    /\ Polling /\ ~Full /\ temp_key = "backspace" /\ filled > 0
    /\ filled' = filled - 1 /\ out' = <<"x", "x", "x">>
    /\ UNCHANGED <<cursor, keyboard, task, format, at, register, calls>>

\* The newline is echoed after the loop has been left.
EndLine ==
    /\ Polling /\ (Full \/ temp_key = "newline")
    /\ out' = IF Full THEN <<>> ELSE <<"newline">>
    /\ task' = "print_numstr" /\ filled' = 0
    /\ UNCHANGED <<cursor, keyboard, format, at, register, calls>>

-----------------------------------------------------------------------------
(* keyboard_interrupt_handler.                                             *)

ScanCodes == {"shift", "shift_up", "caps", "caps_up", "ctrl", "other_up",
              "letter", "enter", "backspace", "function_key"}

\* The two translation tables.
Translate(code, shifted) ==
    CASE code = "letter" -> IF shifted THEN "A" ELSE "a"
      [] code = "enter" -> "newline"
      [] code = "backspace" -> "backspace"
      [] OTHER -> "nul"

\* print_char with nothing in between.
Scrolled(y) == IF Below(y) >= Rows THEN Up(0) ELSE Below(y)

Echo(c) ==
    IF c = "newline"
    THEN cursor_x' = 0 /\ cursor_y' = Scrolled(cursor_y) /\ UNCHANGED drawn
    ELSE LET wraps == cursor_x + 1 > Columns
             x == IF wraps THEN 0 ELSE cursor_x
             y == IF wraps THEN Scrolled(cursor_y) ELSE cursor_y
         IN  cursor_x' = x + 1 /\ cursor_y' = y /\ drawn' = <<x, y>>

Modify(code) ==
    /\ shift' = (code = "shift" \/ (shift /\ code # "shift_up"))
    /\ caps_lock' = IF code = "caps" THEN ~caps_lock ELSE caps_lock
    /\ ctrl' = (ctrl \/ code = "ctrl")

Types(code) == code \in {"letter", "enter", "backspace", "function_key"}

\* Bounds: MaxKeys and MaxBurst.
keyboard_interrupt_handler ==
    /\ keys < MaxKeys /\ keys' = keys + 1
    /\ burst < MaxBurst /\ burst' = burst + 1
    /\ \E code \in ScanCodes :
        /\ Modify(code)
        /\ IF Types(code)
           THEN LET c == Translate(code, ~ctrl /\ shift # caps_lock)
                IN  temp_key' = c /\ Echo(c)
           ELSE UNCHANGED <<temp_key, cursor>>
    /\ UNCHANGED kernel

-----------------------------------------------------------------------------
Readline == ReadKey \/ ReadBackspace \/ EndLine

Kernel ==
    /\ PrintChar \/ NextDirective \/ DispGlyph \/ DispNewline \/ Return \/ Readline
    /\ burst' = 0

Calls == (print_numstr \/ terminal_write \/ disp_str \/ kernel_readline) /\ burst' = 0

Next == Calls \/ Kernel \/ keyboard_interrupt_handler

Spec == Init /\ [][Next]_vars

\* The core goes on with what it prints between two interrupts.
FairSpec == Spec /\ WF_vars(Kernel)

-----------------------------------------------------------------------------
\* put_pixel draws one character right of and below the cursor.  However the
\* keyboard's interrupts fall, print_char never draws further out than one
\* column right of the screen, and below it no further than a newline of
\* disp_str has just taken the cursor; the unsigned cursor_y is never further
\* back than the one line scroll takes it (a wild address otherwise).  That
\* needs a screen of more lines than keys arrive between two accesses: Rows
\* keys between MoveTop and LoadScroll would take it one line further.
GlyphsNearScreen ==
    /\ cursor_x <= Columns + 1 /\ Below(cursor_y) <= Rows + FontRows
    /\ drawn[1] <= Columns /\ Below(drawn[2]) <= Rows + FontRows

\* What is called returns: printing always does, and kernel_readline once the
\* last key is Enter or a printable one, which it takes again and again until
\* the line is full.
CallsReturn ==
    /\ \A f \in {"print_numstr", "terminal_write", "disp_str"} : task = f ~> task # f
    /\ task = "readline" /\ temp_key \in Printable \cup {"newline"}
       ~> task # "readline" \/ temp_key \notin Printable \cup {"newline"}
=============================================================================
