------------------------------ MODULE Spinlock ------------------------------
(***************************************************************************)
(* hardware/lock/spinlock.c: a test-and-set spinlock on one atomic_flag,   *)
(* used by every core that calls acquire_lock and release_lock.            *)
(*                                                                         *)
(* The model is one action per atomic step of the code: the call, the      *)
(* atomic test-and-set, the pause of the spin loop, the atomic clear.      *)
(***************************************************************************)
EXTENDS Naturals

CONSTANTS
    Cores,      \* the cores of the machine
    NoCore      \* "nobody", used by the refinement mapping only

VARIABLES
    lock,       \* the atomic_flag: 1 when set, 0 when clear
    pc          \* where each core is in the lock's code

vars == <<lock, pc>>

ASSUME NoCoreAssumption == NoCore \notin Cores

Locations == {"outside",    \* in no call, not holding the lock
              "acquiring",  \* at the test-and-set of acquire_lock
              "pausing",    \* in the body of the spin loop
              "inside"}     \* acquire_lock has returned

\* The flag is a bit and every core is at one of the locations.
TypeOK ==
    /\ lock \in {0, 1}
    /\ pc \in [Cores -> Locations]

Init ==
    /\ lock = 0
    /\ pc = [c \in Cores |-> "outside"]

Call(c) ==
    /\ pc[c] = "outside"
    /\ pc' = [pc EXCEPT ![c] = "acquiring"]
    /\ UNCHANGED lock

\* One test-and-set: it always sets the flag, and the loop is left when the
\* flag was clear.
TestAndSet(c) ==
    /\ pc[c] = "acquiring"
    /\ lock' = 1
    /\ pc' = [pc EXCEPT ![c] = IF lock = 1 THEN "pausing" ELSE "inside"]

\* Mutant: the spin loop reads the flag and enters once it is clear, without
\* another test-and-set.
SpinOnRead(c) ==
    /\ pc[c] = "pausing"
    /\ pc' = [pc EXCEPT ![c] = IF lock = 1 THEN "pausing" ELSE "inside"]
    /\ UNCHANGED lock

Pause(c) ==
    /\ pc[c] = "pausing"
    /\ pc' = [pc EXCEPT ![c] = "acquiring"]
    /\ UNCHANGED lock

\* Mutant: the flag is not cleared.
ReturnWithoutClear(c) ==
    /\ pc[c] = "inside"
    /\ pc' = [pc EXCEPT ![c] = "outside"]
    /\ UNCHANGED lock

Release(c) ==
    /\ pc[c] = "inside"
    /\ lock' = 0
    /\ pc' = [pc EXCEPT ![c] = "outside"]

Next == \E c \in Cores : Call(c) \/ TestAndSet(c) \/ Pause(c) \/ Release(c)

Spec == Init /\ [][Next]_vars

\* A core executes its next instruction sooner or later once it is in the
\* lock's code; nothing obliges it to call acquire_lock again.
Fairness == \A c \in Cores :
    WF_vars(TestAndSet(c) \/ Pause(c) \/ Release(c))

FairSpec == Spec /\ Fairness

-----------------------------------------------------------------------------
\* No two cores are between acquire_lock and release_lock at once, whatever
\* the order of their test-and-sets and clears.
MutualExclusion ==
    \A c, d \in Cores : pc[c] = "inside" /\ pc[d] = "inside" => c = d

\* The flag is set exactly while some core is inside: no test-and-set of a
\* spinning core leaves it set with nobody to clear it.
FlagMeansHeld == lock = 1 <=> \E c \in Cores : pc[c] = "inside"

\* While cores spin, some core keeps entering: the loop cannot lose the flag
\* for everybody.  (One given core may starve: the lock has no queue.)
Progress ==
    (\E c \in Cores : pc[c] \in {"acquiring", "pausing"})
        ~> (\E c \in Cores : pc[c] = "inside")

\* The core that owns the lock, as the abstract specification sees it.
owner == IF \E c \in Cores : pc[c] = "inside"
           THEN CHOOSE c \in Cores : pc[c] = "inside"
           ELSE NoCore

Abstract == INSTANCE Mutex

\* The test-and-set loop implements the abstract mutex: every step that puts
\* a core inside starts from a state in which nobody owns the lock.
ImplementsMutex == Abstract!Spec
=============================================================================
