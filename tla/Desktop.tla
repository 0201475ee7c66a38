------------------------------- MODULE Desktop -------------------------------
(***************************************************************************)
(* The mouse and the windows: the PS/2 mouse's handler and its set-up      *)
(* (hardware/ps2/devices/mouse.c), create_window, gui_update_mouse and the *)
(* loop of init_gui (gui/gui.c).                                           *)
(*                                                                         *)
(* The mouse's interrupts call gui_update_mouse while init_gui calls it    *)
(* too, with a position of its own and no button pressed, and sets the     *)
(* mouse up again, every second.  The handler is not interrupted; the loop *)
(* is, between any two of its steps.  Lengths are counted in title bars.   *)
(* Left out: what is drawn, the close button, which does nothing, and the  *)
(* keyboard's bytes at the same port.                                      *)
(***************************************************************************)
EXTENDS Integers, Sequences, SequencesExt

CONSTANTS
    ScreenWidth, ScreenHeight,
    Modulus,        \* the modulus of the unsigned coordinates
    MAX_WINDOWS,
    Sizes,          \* the sizes asked of create_window
    Stagger,        \* the offset of a new window to the one before
    Home,           \* the position init_gui gives gui_update_mouse
    Buttons, Moves, \* the bytes of a packet
    Ack             \* the mouse's answer to a command, as a signed byte

VARIABLES
    mouse_x, mouse_y,
    mouse_byte,     \* the bytes of the packet that were read: mouse_cycle many
    buffer,         \* the controller's output: no byte or one
    sent,           \* how many bytes of its packet the mouse has sent
    reporting,      \* the mouse sends packets
    routed,         \* its interrupt reaches the core
    windows, old_left,
    at,             \* where init_gui is
    moving          \* gui_update_mouse of init_gui: the window and its new place

mouse == <<mouse_x, mouse_y, mouse_byte>>
device == <<buffer, sent, reporting>>
gui == <<windows, old_left>>
vars == <<mouse, device, routed, gui, at, moving>>

Init ==
    /\ mouse_x = 0 /\ mouse_y = 0 /\ mouse_byte = <<>>
    /\ buffer = <<>> /\ sent = 0 /\ reporting = FALSE /\ routed = FALSE
    /\ windows = <<>> /\ old_left = FALSE
    /\ at = "create" /\ moving = <<>>

-----------------------------------------------------------------------------
(* gui_update_mouse.                                                       *)

\* Mutant: only the left and upper border stop a window.
ClampLow(p, length, screen) == IF p < 0 THEN 0 ELSE p % Modulus

Covers(w, x, y) == x >= w.x /\ x < w.x + w.width /\ y >= w.y /\ y < w.y + w.height

\* The int of a clamped position, stored in an unsigned field.  A window that
\* is larger than the screen gets a negative one.
Clamp(p, length, screen) ==
    (IF p < 0 THEN 0 ELSE IF p + length > screen THEN screen - length ELSE p) % Modulus

\* The loop from the last window down ends at the first that is dragged or
\* lies under the mouse: 0 when there is none.
Hit(x, y) ==
    SelectLastInSeq(windows, LAMBDA w : w.is_dragging \/ Covers(w, x, y))

Moved(w, x, y) ==
    [w EXCEPT !.x = Clamp(x - w.dx, w.width, ScreenWidth),
              !.y = Clamp(y - w.dy, w.height, ScreenHeight)]

\* A new press in the title bar begins a drag.
Grabbed(w, x, y, left) ==
    IF left /\ ~old_left /\ y < w.y + 1
    THEN [w EXCEPT !.is_dragging = TRUE, !.dx = x - w.x, !.dy = y - w.y] ELSE w

Dropped(ws) == [i \in DOMAIN ws |-> [ws[i] EXCEPT !.is_dragging = FALSE]]

\* A call that nothing interrupts.
Update(x, y, left) ==
    LET i == Hit(x, y)
        after == IF i = 0 THEN windows
                 ELSE [windows EXCEPT ![i] = IF @.is_dragging THEN Moved(@, x, y)
                                             ELSE Grabbed(@, x, y, left)]
    IN  /\ windows' = IF ~left /\ old_left THEN Dropped(after) ELSE after
        /\ old_left' = left

-----------------------------------------------------------------------------
(* The mouse and its handler.                                              *)

\* The next byte of a packet; the controller holds one at a time.
SendByte ==
    /\ reporting /\ buffer = <<>>
    /\ \E b \in IF sent = 0 THEN Buttons ELSE Moves : buffer' = <<b>>
    /\ sent' = (sent + 1) % 3
    /\ UNCHANGED <<mouse, reporting, routed, gui, at, moving>>

OnScreen(p, screen) == IF p < 0 THEN 0 ELSE IF p >= screen THEN screen - 1 ELSE p

process_mouse_packet(packet) ==
    /\ mouse_x' = OnScreen(mouse_x + packet[2], ScreenWidth)
    /\ mouse_y' = OnScreen(mouse_y - packet[3], ScreenHeight)
    /\ Update(mouse_x', mouse_y', packet[1] % 2 = 1)

\* The handler takes whatever byte is there for the next one of a packet.
mouse_handler ==
    /\ routed /\ buffer # <<>>
    /\ LET bytes == mouse_byte \o buffer IN
        IF Len(bytes) < 3
        THEN mouse_byte' = bytes /\ UNCHANGED <<mouse_x, mouse_y, gui>>
        ELSE process_mouse_packet(bytes) /\ mouse_byte' = <<>>
    /\ buffer' = <<>>
    /\ UNCHANGED <<sent, reporting, routed, at, moving>>

-----------------------------------------------------------------------------
(* The program that shows the windows.                                     *)

create_window ==
    /\ at = "create" /\ Len(windows) < MAX_WINDOWS
    /\ \E size \in Sizes :
        windows' = Append(windows,
            [x |-> Stagger * Len(windows), y |-> Stagger * Len(windows),
             width |-> size[1], height |-> size[2],
             is_dragging |-> FALSE, dx |-> 0, dy |-> 0])
    /\ UNCHANGED <<mouse, device, routed, old_left, at, moving>>

init_gui ==
    /\ at = "create" /\ at' = "look"
    /\ UNCHANGED <<mouse, device, routed, gui, moving>>

\* gui_update_mouse(30, 30, 0): the window to move and its new place.
Look ==
    /\ at = "look"
    /\ LET i == Hit(Home, Home) IN
        IF i # 0 /\ windows[i].is_dragging
        THEN moving' = <<i, Moved(windows[i], Home, Home)>> /\ at' = "move"
        ELSE at' = "release" /\ UNCHANGED moving
    /\ UNCHANGED <<mouse, device, routed, gui>>

Move ==
    /\ at = "move" /\ at' = "release" /\ moving' = <<>>
    /\ windows' = [windows EXCEPT ![moving[1]].x = moving[2].x, ![moving[1]].y = moving[2].y]
    /\ UNCHANGED <<mouse, device, routed, old_left>>

Release ==
    /\ at = "release" /\ at' = "save"
    /\ windows' = IF old_left THEN Dropped(windows) ELSE windows
    /\ UNCHANGED <<mouse, device, routed, old_left, moving>>

Save ==
    /\ at = "save" /\ at' = "defaults"
    /\ old_left' = FALSE
    /\ UNCHANGED <<mouse, device, routed, windows, moving>>

\* enable_mouse: the commands F6 (defaults, no reports) and F4 (reports).  The
\* mouse drops the packet it is sending and answers.
MouseWrite ==
    /\ at \in {"defaults", "reports"} /\ buffer = <<>>
    /\ reporting' = (at = "reports") /\ sent' = 0 /\ buffer' = <<Ack>>
    /\ at' = IF at = "defaults" THEN "answer" ELSE "last answer"
    /\ UNCHANGED <<mouse, routed, gui, moving>>

\* mouse_read: the byte that is there, or none after the time-out: once the
\* interrupt is routed the handler may have taken the answer.
MouseRead ==
    /\ at \in {"answer", "last answer"}
    /\ buffer' = <<>>
    /\ at' = IF at = "answer" THEN "reports" ELSE "route"
    /\ UNCHANGED <<mouse, sent, reporting, routed, gui, moving>>

\* The interrupt is routed, and after a second the loop starts again.
Route ==
    /\ at = "route" /\ routed' = TRUE /\ at' = "look"
    /\ UNCHANGED <<mouse, device, gui, moving>>

enable_mouse == MouseWrite \/ MouseRead \/ Route

-----------------------------------------------------------------------------
Next ==
    \/ SendByte \/ mouse_handler
    \/ create_window \/ init_gui \/ Look \/ Move \/ Release \/ Save
    \/ enable_mouse

Spec == Init /\ [][Next]_vars

-----------------------------------------------------------------------------
\* Whatever the mouse does, in step with the packets or not, and whichever of
\* the two callers moves a window that fits on the screen, all of it stays
\* there.
WindowsStayOnScreen ==
    \A i \in DOMAIN windows :
        LET w == windows[i] IN
        w.width <= ScreenWidth /\ w.height <= ScreenHeight
        => w.x + w.width <= ScreenWidth /\ w.y + w.height <= ScreenHeight

\* "Release drag if button is released": a packet without the left button
\* leaves no window dragged.
ReleaseEndsDrag ==
    [][mouse_byte # <<>> /\ mouse_byte' = <<>> /\ mouse_byte[1] % 2 = 0
       => \A i \in DOMAIN windows' : ~windows'[i].is_dragging]_vars
=============================================================================
