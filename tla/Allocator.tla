----------------------------- MODULE Allocator -----------------------------
(***************************************************************************)
(* What a caller of a physical memory manager relies on: a block it is     *)
(* given lies in usable memory and holds no address of a block somebody    *)
(* else still has.  A request may fail at any time (NULL); a block is      *)
(* given back at most once.  How free memory is organised does not show.   *)
(***************************************************************************)
EXTENDS MemoryBlocks, Integers

CONSTANT Usable     \* the blocks of memory the firmware reports as free

VARIABLE held       \* the blocks that callers have now

Init == held = {}

Allocate ==
    \E u \in Usable :
        \E address \in u.address .. End(u) - 1 :
            \E size \in 1 .. End(u) - address :
                LET b == [address |-> address, size |-> size]
                IN  /\ \A h \in held : Disjoint(b, h)
                    /\ held' = held \cup {b}

Free == \E b \in held : held' = held \ {b}

Next == Allocate \/ Free

Spec == Init /\ [][Next]_held
=============================================================================
