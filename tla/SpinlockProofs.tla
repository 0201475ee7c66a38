--------------------------- MODULE SpinlockProofs ---------------------------
(***************************************************************************)
(* The spinlock's safety for any set of cores: its types, mutual exclusion *)
(* and the fact that it implements the abstract mutex.                     *)
(*                                                                         *)
(* Mutual exclusion alone is not inductive: a core that finds the flag     *)
(* clear enters, so one must know that a clear flag means nobody is inside. *)
(* That is FlagMeansHeld, and the conjunction of the three is inductive.   *)
(***************************************************************************)
EXTENDS Spinlock, TLAPS

IndInv == TypeOK /\ MutualExclusion /\ FlagMeansHeld

\* The initial state has no core inside and the flag clear.
LEMMA InitIndInv == Init => IndInv
BY DEF Init, IndInv, TypeOK, MutualExclusion, FlagMeansHeld, Locations

\* Every step of every core keeps the invariant.
LEMMA NextIndInv == IndInv /\ [Next]_vars => IndInv'
<1> SUFFICES ASSUME IndInv, [Next]_vars PROVE IndInv'
  OBVIOUS
<1> USE DEF IndInv, TypeOK, MutualExclusion, FlagMeansHeld, Locations
<1>1. ASSUME NEW c \in Cores, Call(c) PROVE IndInv'
  BY <1>1 DEF Call
<1>2. ASSUME NEW c \in Cores, TestAndSet(c) PROVE IndInv'
  BY <1>2 DEF TestAndSet
<1>3. ASSUME NEW c \in Cores, Pause(c) PROVE IndInv'
  BY <1>3 DEF Pause
<1>4. ASSUME NEW c \in Cores, Release(c) PROVE IndInv'
  BY <1>4 DEF Release
<1>5. CASE UNCHANGED vars
  BY <1>5 DEF vars
<1>. QED
  BY <1>1, <1>2, <1>3, <1>4, <1>5 DEF Next

\* Every reachable state of the spinlock satisfies the inductive invariant.
LEMMA SpecIndInv == Spec => []IndInv
BY InitIndInv, NextIndInv, PTL DEF Spec

\* The flag stays a bit and every core stays at a location of the code.
THEOREM SpinlockTypeOK == Spec => []TypeOK
<1>1. IndInv => TypeOK
  BY DEF IndInv
<1>. QED
  BY SpecIndInv, <1>1, PTL

\* acquire_lock and release_lock give mutual exclusion for any set of cores.
THEOREM SpinlockMutualExclusion == Spec => []MutualExclusion
<1>1. IndInv => MutualExclusion
  BY DEF IndInv
<1>. QED
  BY SpecIndInv, <1>1, PTL

-----------------------------------------------------------------------------
\* With mutual exclusion the mapped owner is the core inside, if there is one.
LEMMA OwnerIsInside ==
    ASSUME IndInv
    PROVE  /\ \A c \in Cores : pc[c] = "inside" => owner = c
           /\ (\A c \in Cores : pc[c] # "inside") => owner = NoCore
BY DEF IndInv, MutualExclusion, owner

\* The same in the next state.
LEMMA NextOwnerIsInside ==
    ASSUME IndInv'
    PROVE  /\ \A c \in Cores : pc'[c] = "inside" => owner' = c
           /\ (\A c \in Cores : pc'[c] # "inside") => owner' = NoCore
BY DEF IndInv, MutualExclusion, owner

\* A step of the spinlock is a step of the mutex, or changes nothing there.
LEMMA StepRefines ==
    IndInv /\ IndInv' /\ [Next]_vars => [Abstract!Next]_owner
<1> SUFFICES ASSUME IndInv, IndInv', [Next]_vars
             PROVE  [Abstract!Next]_owner
  OBVIOUS
<1> USE OwnerIsInside, NextOwnerIsInside
<1>0. /\ pc \in [Cores -> Locations]
      /\ pc' \in [Cores -> Locations]
      /\ lock \in {0, 1}
      /\ FlagMeansHeld
      /\ MutualExclusion
  BY DEF IndInv, TypeOK
\* A step that moves no core into or out of the critical section stutters.
<1>s. ASSUME \A c \in Cores : pc'[c] = "inside" <=> pc[c] = "inside"
      PROVE  owner' = owner
  <2>1. CASE \E c \in Cores : pc[c] = "inside"
    BY <1>s, <2>1
  <2>2. CASE \A c \in Cores : pc[c] # "inside"
    BY <1>s, <2>2
  <2>. QED
    BY <2>1, <2>2
<1>1. ASSUME NEW c \in Cores, Call(c) PROVE owner' = owner
  BY <1>0, <1>1, <1>s DEF Call
<1>2. ASSUME NEW c \in Cores, TestAndSet(c) PROVE [Abstract!Next]_owner
  <2>1. CASE lock = 1
    <3>1. \A d \in Cores : pc'[d] = "inside" <=> pc[d] = "inside"
      BY <1>0, <1>2, <2>1 DEF TestAndSet
    <3>. QED
      BY <3>1, <1>s
  <2>2. CASE lock = 0
    <3>1. owner = NoCore
      BY <1>0, <2>2 DEF FlagMeansHeld
    <3>2. owner' = c
      BY <1>0, <1>2, <2>2 DEF TestAndSet
    <3>. QED
      BY <3>1, <3>2 DEF Abstract!Next, Abstract!Acquire
  <2>. QED
    BY <1>0, <2>1, <2>2
<1>3. ASSUME NEW c \in Cores, Pause(c) PROVE owner' = owner
  BY <1>0, <1>3, <1>s DEF Pause
<1>4. ASSUME NEW c \in Cores, Release(c) PROVE [Abstract!Next]_owner
  <2>1. owner = c
    BY <1>4 DEF Release
  <2>2. \A d \in Cores : pc'[d] # "inside"
    BY <1>0, <1>4 DEF Release, MutualExclusion
  <2>3. owner' = NoCore
    BY <2>2
  <2>. QED
    BY <2>1, <2>3 DEF Abstract!Next, Abstract!Release
<1>5. CASE UNCHANGED vars
  BY <1>5, <1>s DEF vars
<1>. QED
  BY <1>1, <1>2, <1>3, <1>4, <1>5 DEF Next

\* The spinlock implements the abstract mutex for any set of cores.
THEOREM SpinlockImplementsMutex == Spec => ImplementsMutex
<1>1. Init => Abstract!Init
  BY DEF Init, Abstract!Init, owner
<1>. QED
  BY <1>1, SpecIndInv, StepRefines, PTL
     DEF Spec, ImplementsMutex, Abstract!Spec
=============================================================================
