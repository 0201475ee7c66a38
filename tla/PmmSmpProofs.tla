---------------------------- MODULE PmmSmpProofs ----------------------------
(***************************************************************************)
(* init_blocks on any number of cores, while others already allocate: no   *)
(* map entry is lost, and the spinlock is used as it is meant to be.       *)
(*                                                                         *)
(* EveryPassRecorded is not inductive.  That a core's store to a slot and  *)
(* its increment of the counter act on one slot depends on no other core   *)
(* being between them, which depends on the flag being set while a core is *)
(* in the loop; that the counter moves over the entry just stored depends  *)
(* on nobody having written the slot since, which the allocations do not:  *)
(* they store to the other list.                                           *)
(***************************************************************************)
EXTENDS PmmSmp, FiniteSetTheorems, TLAPS

Locations == {"start", "acquire", "pause", "fill", "count", "release", "scan", "take",
              "load_address", "store_address", "load_size", "store_size", "halted"}

\* The list init_blocks stores the entry of a core in.
Target(c) == ListOf(MemMap[entry[c]])

TypeOK ==
    /\ init_memory_lock \in {0, 1}
    /\ count \in [Lists -> 0 .. NUM_BLOCKS]
    /\ DOMAIN blocks = Lists
    /\ \A l \in Lists : DOMAIN blocks[l] = Slots
    /\ pc \in [Cores -> Locations]
    /\ entry \in [Cores -> 1 .. Len(MemMap) + 1]

\* Where a core is in the map, from where it is in the code.
EntryFollowsPlace ==
    \A c \in Cores :
        /\ pc[c] \in {"start", "acquire", "pause"} => entry[c] = 1
        /\ pc[c] \in {"fill", "count"} => entry[c] <= Len(MemMap)
        /\ pc[c] = "count" => count[Target(c)] \in Slots

\* The lock holds one core, and is set while it does.
OneInside ==
    /\ \A c \in Cores : Locked(c) => init_memory_lock = 1
    /\ \A c, d \in Cores : Locked(c) /\ Locked(d) => c = d

\* Between the two statements of an iteration the slot holds the entry.
SlotFilled ==
    \A c \in Cores :
        pc[c] = "count" /\ ~MemMap[entry[c]].free =>
            blocks["used"][count["used"]] = Region(MemMap[entry[c]])

IInv == TypeOK /\ EntryFollowsPlace /\ OneInside /\ SlotFilled /\ EveryPassRecorded

\* What the two sides of EveryPassRecorded count.
SlotsOf(i) == {k \in Slots : k < count["used"] /\ blocks["used"][k] = Region(MemMap[i])}
PassedBy(i) == {c \in Cores : entry[c] > i}

-----------------------------------------------------------------------------
LEMMA MapHasEntries ==
    /\ Len(MemMap) \in Nat \ {0}
    /\ \A i \in 1 .. Len(MemMap) : MemMap[i] \in MapEntry
    /\ \A i \in 1 .. Len(MemMap) : ListOf(MemMap[i]) \in Lists
BY MemMapAssumption DEF IsMemoryMap, ListOf, Lists

\* Different reserved entries are recorded as different blocks.
LEMMA ReservedDiffer ==
    ASSUME NEW i \in 1 .. Len(MemMap), NEW j \in 1 .. Len(MemMap), i # j,
           ~MemMap[i].free, ~MemMap[j].free
    PROVE  Region(MemMap[i]) # Region(MemMap[j])
<1>1. MemMap[i] \in MapEntry /\ MemMap[j] \in MapEntry
  BY MapHasEntries
<1>2. Disjoint(EntryBlock(MemMap[i]), EntryBlock(MemMap[j]))
  BY MemMapAssumption DEF IsMemoryMap
<1>3. Region(MemMap[i]) = EntryBlock(MemMap[i]) /\ Region(MemMap[j]) = EntryBlock(MemMap[j])
  BY DEF Region
<1>4. SUFFICES ASSUME EntryBlock(MemMap[i]) = EntryBlock(MemMap[j]) PROVE FALSE
  BY <1>3
<1>5. MemMap[i].ptr \in Nat /\ MemMap[i].size \in Nat \ {0}
      /\ MemMap[j].ptr = MemMap[i].ptr /\ MemMap[j].size = MemMap[i].size
  BY <1>1, <1>4 DEF EntryBlock, MapEntry
<1>. QED
  BY <1>2, <1>5 DEF Disjoint, End, EntryBlock

LEMMA InitIInv ==
    ASSUME Init
    PROVE  IInv
<1>1. TypeOK
  BY MapHasEntries, MachineAssumption DEF Init, TypeOK, Locations
<1>2. EntryFollowsPlace /\ OneInside /\ SlotFilled
  BY DEF Init, EntryFollowsPlace, OneInside, SlotFilled, Locked
<1>3. ASSUME NEW i \in 1 .. Len(MemMap)
      PROVE  SlotsOf(i) = {} /\ PassedBy(i) = {}
  BY MachineAssumption DEF Init, SlotsOf, PassedBy, Slots, Lists
<1>. QED
  BY <1>1, <1>2, <1>3 DEF IInv, EveryPassRecorded, SlotsOf, PassedBy

-----------------------------------------------------------------------------
\* A step that leaves both lists' counters, the entries and the used list.
LEMMA QuietStep ==
    ASSUME IInv, UNCHANGED <<count, entry>>, blocks'["used"] = blocks["used"]
    PROVE  EveryPassRecorded'
BY DEF IInv, EveryPassRecorded

\* The steps outside the lock: they move a core on and store to the free list.
LEMMA OutsideStep ==
    ASSUME IInv, NEW c \in Cores, NEW to \in Locations,
           ~Locked(c), pc' = [pc EXCEPT ![c] = to],
           to \notin {"fill", "count", "release"},
           to \in {"start", "acquire", "pause"} => entry[c] = 1,
           UNCHANGED <<init_memory_lock, count, entry>>,
           DOMAIN blocks' = Lists, \A l \in Lists : DOMAIN blocks'[l] = Slots,
           blocks'["used"] = blocks["used"]
    PROVE  IInv'
<1>1. TypeOK'
  BY DEF IInv, TypeOK
<1>2. \A d \in Cores : d # c => pc'[d] = pc[d]
  BY DEF IInv, TypeOK
<1>3. pc'[c] = to
  BY DEF IInv, TypeOK
<1>4. EntryFollowsPlace'
  BY <1>2, <1>3 DEF IInv, EntryFollowsPlace, Target
<1>5. OneInside'
  BY <1>2, <1>3 DEF IInv, OneInside, Locked
<1>6. SlotFilled'
  BY <1>2, <1>3 DEF IInv, SlotFilled
<1>. QED
  BY <1>1, <1>4, <1>5, <1>6, QuietStep DEF IInv

LEMMA AcquireStep ==
    ASSUME IInv, NEW c \in Cores, AcquireLock(c)
    PROVE  IInv'
<1>1. pc[c] = "acquire" /\ UNCHANGED <<count, blocks, entry>> /\ init_memory_lock' = 1
  BY DEF AcquireLock, Goto, locals
<1>2. pc' = [pc EXCEPT ![c] = IF init_memory_lock = 1 THEN "pause" ELSE "fill"]
  BY DEF AcquireLock, Goto
<1>3. TypeOK'
  BY <1>1, <1>2 DEF IInv, TypeOK, Locations
<1>4. /\ \A d \in Cores : d # c => pc'[d] = pc[d]
      /\ pc'[c] = IF init_memory_lock = 1 THEN "pause" ELSE "fill"
  BY <1>2 DEF IInv, TypeOK
<1>5. EntryFollowsPlace'
  BY <1>1, <1>4, MapHasEntries DEF IInv, EntryFollowsPlace, Target
<1>6. OneInside'
  BY <1>1, <1>4 DEF IInv, OneInside, Locked
<1>7. SlotFilled'
  BY <1>1, <1>4 DEF IInv, SlotFilled
<1>. QED
  BY <1>1, <1>3, <1>5, <1>6, <1>7, QuietStep DEF IInv

LEMMA FillStep ==
    ASSUME IInv, NEW c \in Cores, FillSlot(c)
    PROVE  IInv'
<1> DEFINE e == MemMap[entry[c]]
           l == ListOf(e)
<1>1. /\ pc[c] = "fill" /\ pc' = [pc EXCEPT ![c] = "count"]
      /\ count[l] \in Slots
      /\ blocks' = [blocks EXCEPT ![l][count[l]] = Region(e)]
      /\ UNCHANGED <<init_memory_lock, count, entry>>
  BY DEF FillSlot, Goto, locals
<1>2. entry[c] \in 1 .. Len(MemMap) /\ l \in Lists
  BY <1>1, MapHasEntries DEF IInv, TypeOK, EntryFollowsPlace
<1>3. /\ DOMAIN blocks' = Lists
      /\ \A m \in Lists : DOMAIN blocks'[m] = Slots
      /\ l = "used" => blocks'["used"][count["used"]] = Region(e)
      /\ \A k \in Slots : l = "used" /\ k # count["used"]
            => blocks'["used"][k] = blocks["used"][k]
      /\ l # "used" => blocks'["used"] = blocks["used"]
  <2>. HIDE DEF l, e
  <2>. QED
    BY <1>1, <1>2 DEF IInv, TypeOK, Lists
<1>4. TypeOK'
  BY <1>1, <1>3 DEF IInv, TypeOK, Locations
<1>5. /\ \A d \in Cores : d # c => pc'[d] = pc[d]
      /\ pc'[c] = "count"
  BY <1>1 DEF IInv, TypeOK
<1>6. EntryFollowsPlace'
  BY <1>1, <1>2, <1>5 DEF IInv, EntryFollowsPlace, Target
<1>7. OneInside'
  BY <1>1, <1>5 DEF IInv, OneInside, Locked
<1>8. \A d \in Cores : pc[d] # "count"
  BY <1>1 DEF IInv, OneInside, Locked
<1>9. SlotFilled'
  BY <1>1, <1>3, <1>5, <1>8 DEF SlotFilled, ListOf
<1>10. ASSUME NEW i \in 1 .. Len(MemMap)
       PROVE  SlotsOf(i)' = SlotsOf(i) /\ PassedBy(i)' = PassedBy(i)
  <2>1. count["used"] \in 0 .. NUM_BLOCKS
    BY DEF IInv, TypeOK, Lists
  <2>2. \A k \in Slots : k < count["used"] => blocks'["used"][k] = blocks["used"][k]
    BY <1>3, <2>1
  <2>. QED
    BY <1>1, <2>2 DEF SlotsOf, PassedBy
<1>11. EveryPassRecorded'
  BY <1>10 DEF IInv, EveryPassRecorded, SlotsOf, PassedBy
<1>. QED
  BY <1>4, <1>6, <1>7, <1>9, <1>11 DEF IInv

LEMMA CountStep ==
    ASSUME IInv, NEW c \in Cores, CountSlot(c)
    PROVE  IInv'
<1> DEFINE e == MemMap[entry[c]]
           l == ListOf(e)
           to == IF entry[c] = Len(MemMap) THEN "release" ELSE "fill"
<1>1. /\ pc[c] = "count" /\ pc' = [pc EXCEPT ![c] = to]
      /\ count' = [count EXCEPT ![l] = @ + 1]
      /\ entry' = [entry EXCEPT ![c] = @ + 1]
      /\ UNCHANGED <<init_memory_lock, blocks>>
  BY DEF CountSlot, Goto
<1>2. /\ entry[c] \in 1 .. Len(MemMap) /\ l \in Lists /\ count[l] \in Slots
      /\ to \in Locations
  BY <1>1, MapHasEntries DEF IInv, TypeOK, EntryFollowsPlace, Target, Locations
<1>3. /\ \A d \in Cores : d # c => pc'[d] = pc[d] /\ entry'[d] = entry[d]
      /\ pc'[c] = to /\ entry'[c] = entry[c] + 1
      /\ count'[l] = count[l] + 1
      /\ \A m \in Lists : m # l => count'[m] = count[m]
  <2>. HIDE DEF l, e, to
  <2>. QED
    BY <1>1, <1>2 DEF IInv, TypeOK
<1>4. TypeOK'
  <2>. HIDE DEF l, e, to
  <2>1. count' \in [Lists -> 0 .. NUM_BLOCKS]
    BY <1>1, <1>2, MachineAssumption DEF IInv, TypeOK, Slots
  <2>2. entry' \in [Cores -> 1 .. Len(MemMap) + 1]
    BY <1>1, <1>2 DEF IInv, TypeOK
  <2>. QED
    BY <1>1, <1>2, <2>1, <2>2 DEF IInv, TypeOK
<1>5. \A d \in Cores : d # c => ~Locked(d)
  BY <1>1 DEF IInv, OneInside, Locked
<1>6. EntryFollowsPlace'
  <2>1. pc'[c] \in {"fill", "release"} /\ (pc'[c] = "fill" => entry'[c] <= Len(MemMap))
    BY <1>2, <1>3, MapHasEntries
  <2>2. \A d \in Cores : d # c => pc'[d] = pc[d] /\ entry'[d] = entry[d] /\ pc[d] # "count"
    BY <1>3, <1>5 DEF Locked
  <2>. QED
    BY <2>1, <2>2 DEF IInv, EntryFollowsPlace
<1>7. OneInside'
  BY <1>1, <1>3, <1>5 DEF IInv, OneInside, Locked
<1>8. SlotFilled'
  BY <1>3, <1>5 DEF SlotFilled, Locked
<1>9. IsFiniteSet(Slots)
  BY FS_Interval, MachineAssumption DEF Slots
<1>10. ASSUME NEW i \in 1 .. Len(MemMap), ~MemMap[i].free
       PROVE  Cardinality(SlotsOf(i)') = Cardinality(PassedBy(i)')
  <2>1. Cardinality(SlotsOf(i)) = Cardinality(PassedBy(i))
    BY <1>10 DEF IInv, EveryPassRecorded, SlotsOf, PassedBy
  <2>2. IsFiniteSet(SlotsOf(i)) /\ IsFiniteSet(PassedBy(i))
    BY <1>9, FS_Subset, MachineAssumption DEF SlotsOf, PassedBy
  <2>3. CASE i = entry[c]
    <3>1. l = "used" /\ blocks["used"][count["used"]] = Region(MemMap[i])
      BY <1>1, <1>10, <2>3 DEF IInv, SlotFilled, ListOf
    <3>2. count["used"] \in Slots /\ count'["used"] = count["used"] + 1
      BY <1>2, <1>3, <3>1
    <3>3. SlotsOf(i)' = SlotsOf(i) \cup {count["used"]} /\ count["used"] \notin SlotsOf(i)
      BY <1>1, <3>1, <3>2, MachineAssumption DEF SlotsOf, Slots
    <3>4. PassedBy(i)' = PassedBy(i) \cup {c} /\ c \notin PassedBy(i)
      BY <1>2, <1>3, <2>3 DEF PassedBy, IInv, TypeOK
    <3>5. Cardinality(SlotsOf(i)') = Cardinality(SlotsOf(i)) + 1
      BY <2>2, <3>3, FS_AddElement
    <3>6. Cardinality(PassedBy(i)') = Cardinality(PassedBy(i)) + 1
      BY <2>2, <3>4, FS_AddElement
    <3>. QED
      BY <2>1, <3>5, <3>6
  <2>4. CASE i # entry[c]
    <3>1. PassedBy(i)' = PassedBy(i)
      <4>1. entry[c] \in Nat /\ i \in Nat
        BY <1>2
      <4>2. entry'[c] > i <=> entry[c] > i
        BY <1>3, <2>4, <4>1
      <4>3. \A d \in Cores : entry'[d] > i <=> entry[d] > i
        BY <1>3, <4>2
      <4>. QED
        BY <4>3 DEF PassedBy
    <3>2. CASE e.free
      <4>1. l = "free" /\ "used" \in Lists
        BY <3>2 DEF ListOf, Lists
      <4>2. count'["used"] = count["used"]
        BY <1>3, <4>1
      <4>3. SlotsOf(i)' = SlotsOf(i)
        BY <1>1, <4>2 DEF SlotsOf
      <4>. QED
        BY <2>1, <3>1, <4>3
    <3>3. CASE ~e.free
      <4>1. l = "used" /\ blocks["used"][count["used"]] = Region(e)
        BY <1>1, <3>3 DEF IInv, SlotFilled, ListOf
      <4>2. count["used"] \in Slots /\ count'["used"] = count["used"] + 1
        BY <1>2, <1>3, <4>1
      <4>3. Region(e) # Region(MemMap[i])
        BY <1>2, <1>10, <2>4, <3>3, ReservedDiffer
      <4>4. SlotsOf(i)' = SlotsOf(i)
        BY <1>1, <4>1, <4>2, <4>3, MachineAssumption DEF SlotsOf, Slots
      <4>. QED
        BY <2>1, <3>1, <4>4
    <3>. QED
      BY <3>2, <3>3
  <2>. QED
    BY <2>3, <2>4
<1>11. EveryPassRecorded'
  BY <1>10 DEF EveryPassRecorded, SlotsOf, PassedBy
<1>. QED
  BY <1>4, <1>6, <1>7, <1>8, <1>11 DEF IInv

LEMMA ReleaseStep ==
    ASSUME IInv, NEW c \in Cores, ReleaseLock(c)
    PROVE  IInv'
<1>1. /\ pc[c] = "release" /\ pc' = [pc EXCEPT ![c] = "scan"]
      /\ init_memory_lock' = 0 /\ UNCHANGED <<count, blocks, entry>>
  BY DEF ReleaseLock, Goto, locals
<1>2. TypeOK'
  BY <1>1 DEF IInv, TypeOK, Locations
<1>3. /\ \A d \in Cores : d # c => pc'[d] = pc[d]
      /\ pc'[c] = "scan"
  BY <1>1 DEF IInv, TypeOK
<1>4. \A d \in Cores : d # c => ~Locked(d)
  BY <1>1 DEF IInv, OneInside, Locked
<1>5. EntryFollowsPlace'
  BY <1>1, <1>3 DEF IInv, EntryFollowsPlace, Target
<1>6. OneInside' /\ SlotFilled'
  BY <1>3, <1>4 DEF OneInside, SlotFilled, Locked
<1>. QED
  BY <1>1, <1>2, <1>5, <1>6, QuietStep DEF IInv

\* The steps of allocate_memory, which no lock protects.
AllocateStep(c) ==
    \/ OutOfMemory(c) \/ SkipBlock(c) \/ ChooseBlock(c) \/ TakeAddress(c)
    \/ LoadAddress(c) \/ StoreAddress(c) \/ LoadSize(c) \/ StoreSize(c)
    \/ Halt(c)

AllocationPlaces ==
    {"scan", "take", "load_address", "store_address", "load_size", "store_size", "halted"}

LEMMA AllocationStays ==
    ASSUME NEW c \in Cores, AllocateStep(c)
    PROVE  /\ pc[c] \in AllocationPlaces
           /\ \E to \in AllocationPlaces : pc' = [pc EXCEPT ![c] = to]
           /\ UNCHANGED <<init_memory_lock, count, entry>>
BY DEF AllocateStep, OutOfMemory, SkipBlock, ChooseBlock, TakeAddress, LoadAddress,
       StoreAddress, LoadSize, StoreSize, Halt, Goto, AllocationPlaces, locals

LEMMA AllocateKeepsIInv ==
    ASSUME IInv, NEW c \in Cores, AllocateStep(c)
    PROVE  IInv'
<1>1. PICK to \in AllocationPlaces : pc' = [pc EXCEPT ![c] = to]
  BY AllocationStays
<1>2. ~Locked(c) /\ UNCHANGED <<init_memory_lock, count, entry>>
  BY AllocationStays DEF AllocationPlaces, Locked
<1>3. \/ UNCHANGED blocks
      \/ blocks' = [blocks EXCEPT !["free"][slot[c]].address = register[c]]
      \/ blocks' = [blocks EXCEPT !["free"][slot[c]].size = register[c]]
  BY DEF AllocateStep, OutOfMemory, SkipBlock, ChooseBlock, TakeAddress, LoadAddress,
         StoreAddress, LoadSize, StoreSize, Halt
<1>4. /\ DOMAIN blocks' = Lists /\ \A l \in Lists : DOMAIN blocks'[l] = Slots
      /\ blocks'["used"] = blocks["used"]
  BY <1>3 DEF IInv, TypeOK, Lists
<1>. QED
  BY <1>1, <1>2, <1>4, OutsideStep DEF Locations, AllocationPlaces

LEMMA NextIInv ==
    ASSUME IInv, [Next]_vars
    PROVE  IInv'
<1>1. ASSUME NEW c \in Cores, CallInit(c) \/ Pause(c) PROVE IInv'
  <2>1. /\ pc[c] \in {"start", "pause"} /\ pc' = [pc EXCEPT ![c] = "acquire"]
        /\ UNCHANGED <<init_memory_lock, count, blocks, entry>>
    BY <1>1 DEF CallInit, Pause, Goto, locals
  <2>2. entry[c] = 1 /\ ~Locked(c)
    BY <2>1 DEF IInv, EntryFollowsPlace, Locked
  <2>3. DOMAIN blocks = Lists /\ \A l \in Lists : DOMAIN blocks[l] = Slots
    BY DEF IInv, TypeOK
  <2>. QED
    BY <2>1, <2>2, <2>3, OutsideStep DEF Locations
<1>2. ASSUME NEW c \in Cores, Step(c) PROVE IInv'
  BY <1>1, <1>2, AcquireStep, FillStep, CountStep, ReleaseStep, AllocateKeepsIInv
     DEF Step, AllocateStep
<1>3. CASE UNCHANGED vars
  BY <1>3 DEF vars, locals, IInv, TypeOK, EntryFollowsPlace, OneInside, SlotFilled,
              EveryPassRecorded, Target, Locked
<1>. QED
  BY <1>2, <1>3 DEF Next

\* No map entry is lost to another core's init_blocks, or to the allocations
\* of the cores that are past theirs, for any number of cores, any map and any
\* requests: each pass over a reserved region leaves it once in the used list.
THEOREM PmmSmpEveryPassRecorded == Spec => []EveryPassRecorded
<1>1. Init => IInv
  BY InitIInv
<1>2. IInv /\ [Next]_vars => IInv'
  BY NextIInv
<1>3. IInv => EveryPassRecorded
  BY DEF IInv
<1>. QED
  BY <1>1, <1>2, <1>3, PTL DEF Spec

-----------------------------------------------------------------------------
(* The use of the lock.                                                    *)

LEMMA PlacesOfLock ==
    ASSUME NEW c \in Cores
    PROVE  /\ pc[c] = "acquire" => lockPlaces[c] = "acquiring"
           /\ pc[c] = "pause" => lockPlaces[c] = "pausing"
           /\ Locked(c) => lockPlaces[c] = "inside"
           /\ pc[c] \notin {"acquire", "pause"} /\ ~Locked(c) => lockPlaces[c] = "outside"
BY DEF lockPlaces, Locked

\* Only the place of the core that moves on changes.
LEMMA PlaceMoves ==
    ASSUME pc \in [Cores -> Locations], NEW c \in Cores, NEW to \in Locations,
           pc' = [pc EXCEPT ![c] = to]
    PROVE  /\ lockPlaces' = [lockPlaces EXCEPT ![c] = lockPlaces'[c]]
           /\ to = "acquire" => lockPlaces'[c] = "acquiring"
           /\ to = "pause" => lockPlaces'[c] = "pausing"
           /\ to \in {"fill", "count", "release"} => lockPlaces'[c] = "inside"
           /\ to \notin {"acquire", "pause", "fill", "count", "release"} =>
                  lockPlaces'[c] = "outside"
<1>1. pc'[c] = to /\ \A d \in Cores : d # c => pc'[d] = pc[d]
  OBVIOUS
<1>2. \A d \in Cores : d # c => lockPlaces'[d] = lockPlaces[d]
  BY <1>1 DEF lockPlaces, Locked
<1>3. lockPlaces' = [lockPlaces EXCEPT ![c] = lockPlaces'[c]]
  <2>1. /\ lockPlaces = [d \in Cores |-> lockPlaces[d]]
        /\ lockPlaces' = [d \in Cores |-> lockPlaces'[d]]
    BY DEF lockPlaces
  <2>. QED
    BY <1>2, <2>1
<1>4. lockPlaces'[c] = CASE to = "acquire" -> "acquiring"
                         [] to = "pause" -> "pausing"
                         [] to \in {"fill", "count", "release"} -> "inside"
                         [] OTHER -> "outside"
  BY <1>1 DEF lockPlaces, Locked
<1>. QED
  BY <1>3, <1>4

LEMMA StepUsesLock ==
    ASSUME IInv, [Next]_vars
    PROVE  [Lock!Next]_(Lock!vars)
<1>0. pc \in [Cores -> Locations]
  BY DEF IInv, TypeOK
<1>1. ASSUME NEW c \in Cores, CallInit(c) PROVE Lock!Call(c)
  <2>1. pc[c] = "start" /\ pc' = [pc EXCEPT ![c] = "acquire"] /\ UNCHANGED init_memory_lock
    BY <1>1 DEF CallInit, Goto
  <2>2. lockPlaces[c] = "outside"
    BY <2>1, PlacesOfLock DEF Locked
  <2>3. lockPlaces' = [lockPlaces EXCEPT ![c] = "acquiring"]
    BY <1>0, <2>1, PlaceMoves DEF Locations
  <2>. QED
    BY <2>1, <2>2, <2>3 DEF Lock!Call
<1>2. ASSUME NEW c \in Cores, AcquireLock(c) PROVE Lock!TestAndSet(c)
  <2> DEFINE to == IF init_memory_lock = 1 THEN "pause" ELSE "fill"
  <2>1. pc[c] = "acquire" /\ pc' = [pc EXCEPT ![c] = to] /\ init_memory_lock' = 1
    BY <1>2 DEF AcquireLock, Goto
  <2>2. lockPlaces[c] = "acquiring"
    BY <2>1, PlacesOfLock
  <2>3. lockPlaces' = [lockPlaces EXCEPT ![c] =
                          IF init_memory_lock = 1 THEN "pausing" ELSE "inside"]
    BY <1>0, <2>1, PlaceMoves DEF Locations
  <2>. QED
    BY <2>1, <2>2, <2>3 DEF Lock!TestAndSet
<1>3. ASSUME NEW c \in Cores, Pause(c) PROVE Lock!Pause(c)
  <2>1. pc[c] = "pause" /\ pc' = [pc EXCEPT ![c] = "acquire"] /\ UNCHANGED init_memory_lock
    BY <1>3 DEF Pause, Goto
  <2>2. lockPlaces[c] = "pausing"
    BY <2>1, PlacesOfLock
  <2>3. lockPlaces' = [lockPlaces EXCEPT ![c] = "acquiring"]
    BY <1>0, <2>1, PlaceMoves DEF Locations
  <2>. QED
    BY <2>1, <2>2, <2>3 DEF Lock!Pause
<1>4. ASSUME NEW c \in Cores, FillSlot(c) \/ CountSlot(c) PROVE UNCHANGED Lock!vars
  <2>1. PICK to \in {"fill", "count", "release"} : pc' = [pc EXCEPT ![c] = to]
    BY <1>4 DEF FillSlot, CountSlot, Goto
  <2>2. Locked(c) /\ UNCHANGED init_memory_lock
    BY <1>4 DEF FillSlot, CountSlot, Goto, Locked
  <2>3. lockPlaces' = [lockPlaces EXCEPT ![c] = "inside"] /\ lockPlaces[c] = "inside"
    BY <1>0, <2>1, <2>2, PlacesOfLock, PlaceMoves DEF Locations
  <2>4. lockPlaces' = lockPlaces
    BY <2>3 DEF lockPlaces
  <2>. QED
    BY <2>2, <2>4 DEF Lock!vars
<1>5. ASSUME NEW c \in Cores, ReleaseLock(c) PROVE Lock!Release(c)
  <2>1. pc[c] = "release" /\ pc' = [pc EXCEPT ![c] = "scan"] /\ init_memory_lock' = 0
    BY <1>5 DEF ReleaseLock, Goto
  <2>2. lockPlaces[c] = "inside"
    BY <2>1, PlacesOfLock DEF Locked
  <2>3. lockPlaces' = [lockPlaces EXCEPT ![c] = "outside"]
    BY <1>0, <2>1, PlaceMoves DEF Locations
  <2>. QED
    BY <2>1, <2>2, <2>3 DEF Lock!Release
<1>6. ASSUME NEW c \in Cores, AllocateStep(c) PROVE UNCHANGED Lock!vars
  <2>1. PICK to \in AllocationPlaces : pc' = [pc EXCEPT ![c] = to]
    BY <1>6, AllocationStays
  <2>2. pc[c] \in AllocationPlaces /\ UNCHANGED init_memory_lock
    BY <1>6, AllocationStays
  <2>3. lockPlaces' = [lockPlaces EXCEPT ![c] = "outside"] /\ lockPlaces[c] = "outside"
    BY <1>0, <2>1, <2>2, PlacesOfLock, PlaceMoves DEF Locations, AllocationPlaces, Locked
  <2>4. lockPlaces' = lockPlaces
    BY <2>3 DEF lockPlaces
  <2>. QED
    BY <2>2, <2>4 DEF Lock!vars
<1>7. CASE UNCHANGED vars
  BY <1>7 DEF vars, lockPlaces, Lock!vars, Locked
<1>. QED
  BY <1>1, <1>2, <1>3, <1>4, <1>5, <1>6, <1>7 DEF Next, Step, AllocateStep, Lock!Next

\* init_blocks uses the spinlock as the spinlock is meant to be used: its steps
\* are those of module Spinlock, whatever the allocations do meanwhile.
THEOREM PmmSmpUsesSpinlock == Spec => UsesSpinlock
<1>1. Init => IInv
  BY InitIInv
<1>2. IInv /\ [Next]_vars => IInv'
  BY NextIInv
<1>3. Init => Lock!Init
  BY DEF Init, Lock!Init, lockPlaces, Locked
<1>4. IInv /\ [Next]_vars => [Lock!Next]_(Lock!vars)
  BY StepUsesLock
<1>. QED
  BY <1>1, <1>2, <1>3, <1>4, PTL DEF Spec, UsesSpinlock, Lock!Spec
=============================================================================
