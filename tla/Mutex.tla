------------------------------- MODULE Mutex -------------------------------
(***************************************************************************)
(* What the kernel's spinlock promises, with nothing about how it is       *)
(* built: at any time at most one core owns the lock, and a core gets it   *)
(* only when nobody owns it.                                               *)
(***************************************************************************)

CONSTANTS
    Cores,      \* the cores that use the lock
    NoCore      \* "nobody", a value that is not a core

VARIABLE owner

Init == owner = NoCore

Acquire(c) ==
    /\ owner = NoCore
    /\ owner' = c

Release(c) ==
    /\ owner = c
    /\ owner' = NoCore

Next == \E c \in Cores : Acquire(c) \/ Release(c)

Spec == Init /\ [][Next]_owner
=============================================================================
