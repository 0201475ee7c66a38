----------------------------- MODULE PmmProofs -----------------------------
(***************************************************************************)
(* The physical memory manager.  In a kernel that runs init_blocks once    *)
(* and frees only what it allocated: for every memory map, every size and  *)
(* alignment, no address is handed out twice and none that the firmware    *)
(* reserved, and no byte is lost.  In one that frees reserved regions as   *)
(* well: no byte is made up.  In every kernel: the types, and the          *)
(* alignment of pointers.                                                  *)
(*                                                                         *)
(* The invariants of module Pmm are not inductive: that two carved blocks  *)
(* are disjoint depends on the free slots being disjoint, which depends on *)
(* each of them lying in a region of the map that no other slot comes      *)
(* from; that a free leaves the lists alone depends on the used list       *)
(* holding reserved regions only.  IndInv adds these facts.  The sums of   *)
(* bytes are taken over all slots, and compared with the entries of the    *)
(* map that have been read (BytesExact, BytesBounded).                     *)
(***************************************************************************)
EXTENDS Pmm, FiniteSetTheorems, WellFoundedInduction, TLAPS

\* One call of init_blocks, and no reserved region passed to free_memory.
OneInitOnly == MaxInits = 1 /\ Reclaimable = {}

-----------------------------------------------------------------------------
(* Facts about blocks, and about the memory map.                           *)

\* Parts of blocks that share no address share none either.
LEMMA PartsDisjoint ==
    ASSUME NEW b, NEW c, NEW d, NEW e,
           b.address \in Nat, b.size \in Nat, c.address \in Nat, c.size \in Nat,
           d.address \in Nat, d.size \in Nat, e.address \in Nat, e.size \in Nat,
           Within(b, d), Within(c, e), Disjoint(d, e)
    PROVE  Disjoint(b, c)
BY DEF Within, Disjoint, End

\* A part of a part of a block is a part of it.
LEMMA WithinTransitive ==
    ASSUME NEW b, NEW c, NEW d,
           b.address \in Nat, b.size \in Nat, c.address \in Nat, c.size \in Nat,
           d.address \in Nat, d.size \in Nat,
           Within(b, c), Within(c, d)
    PROVE  Within(b, d)
BY DEF Within, End

\* The usable part of an entry is a block inside it.
LEMMA RegionInEntry ==
    ASSUME NEW i \in 1 .. Len(MemMap)
    PROVE  /\ MemMap[i] \in MapEntry
           /\ EntryBlock(MemMap[i]) \in Block
           /\ EntryBlock(MemMap[i]).size > 0
           /\ EntryBlock(MemMap[i]).address = MemMap[i].ptr
           /\ Region(MemMap[i]) \in Block
           /\ Within(Region(MemMap[i]), EntryBlock(MemMap[i]))
           /\ MemMap[i].free => Region(MemMap[i]).address > 0
           /\ ~MemMap[i].free => Region(MemMap[i]) = EntryBlock(MemMap[i])
<1>1. MemMap[i] \in MapEntry
  BY MemMapAssumption DEF IsMemoryMap
<1>. QED
  BY <1>1 DEF MapEntry, EntryBlock, Region, Block, Within, End

\* Blocks inside two different entries share no address.
LEMMA DifferentEntries ==
    ASSUME NEW i \in 1 .. Len(MemMap), NEW j \in 1 .. Len(MemMap), i # j,
           NEW b, NEW c,
           b.address \in Nat, b.size \in Nat, c.address \in Nat, c.size \in Nat,
           Within(b, Region(MemMap[i])), Within(c, Region(MemMap[j]))
    PROVE  Disjoint(b, c)
<1> DEFINE bi == EntryBlock(MemMap[i])
           bj == EntryBlock(MemMap[j])
           ri == Region(MemMap[i])
           rj == Region(MemMap[j])
<1>1. Disjoint(bi, bj)
  BY MemMapAssumption DEF IsMemoryMap
<1>2. bi \in Block /\ bj \in Block /\ bi.size > 0 /\ bj.size > 0
  BY RegionInEntry
<1>3. ri \in Block /\ rj \in Block /\ Within(ri, bi) /\ Within(rj, bj)
  BY RegionInEntry
<1>4. /\ bi.address \in Nat /\ bi.size \in Nat /\ bj.address \in Nat /\ bj.size \in Nat
      /\ ri.address \in Nat /\ ri.size \in Nat /\ rj.address \in Nat /\ rj.size \in Nat
  BY <1>2, <1>3 DEF Block
<1>. HIDE DEF bi, bj, ri, rj
<1>5. Within(b, ri) /\ Within(c, rj)
  BY DEF ri, rj
<1>6. Within(b, bi) /\ Within(c, bj)
  BY <1>3, <1>4, <1>5, WithinTransitive
<1>. QED
  BY <1>1, <1>4, <1>6, PartsDisjoint

\* A block inside a usable region does not start where a reserved one does.
LEMMA UsableIsNotReserved ==
    ASSUME NEW i \in 1 .. Len(MemMap), NEW j \in 1 .. Len(MemMap),
           MemMap[i].free, ~MemMap[j].free,
           NEW b, b.address \in Nat, b.size \in Nat, b.size > 0,
           Within(b, Region(MemMap[i]))
    PROVE  b.address # EntryBlock(MemMap[j]).address
<1> DEFINE c == EntryBlock(MemMap[j])
<1>1. i # j
  OBVIOUS
<1>2. c \in Block /\ c.size > 0 /\ Region(MemMap[j]) = c
  BY RegionInEntry
<1>3. Within(c, Region(MemMap[j]))
  BY <1>2 DEF Within, End, Block
<1>4. Disjoint(b, c)
  BY <1>1, <1>2, <1>3, DifferentEntries DEF Block
<1>. QED
  BY <1>2, <1>4 DEF Disjoint, End, Block

-----------------------------------------------------------------------------
(* free_memory on an address that was handed out.                          *)

\* find_block does not find a block that was handed out: the used list holds
\* reserved regions only.
LEMMA GrantNotInUsedList ==
    ASSUME IndInv, NEW g \in granted
    PROVE  FindBlock(g.address, used_memory_blocks) = 0
<1> DEFINE a == g.address
           k == CHOOSE n \in Slots : StartsFirst(n, a, used_memory_blocks)
<1>1. g \in Grant /\ g.size > 0
  BY DEF IndInv, TypeOK, GrantsFromMap
<1>2. PICK i \in 1 .. Len(MemMap) :
          Seen(i) /\ MemMap[i].free /\ Within(g, Region(MemMap[i]))
  BY DEF IndInv, GrantsFromMap
<1>3. CASE \E n \in Slots : StartsFirst(n, a, used_memory_blocks)
  <2>1. k \in Slots /\ used_memory_blocks[k].address = a
    BY <1>3 DEF StartsFirst
  <2>2. CASE used_memory_blocks[k] = Empty
    BY <1>3, <2>2 DEF FindBlock, Empty
  <2>3. CASE used_memory_blocks[k] # Empty
    <3>1. PICK j \in 1 .. Len(MemMap) :
             ~MemMap[j].free /\ used_memory_blocks[k] = EntryBlock(MemMap[j])
      BY <2>1, <2>3 DEF IndInv, UsedFromMap
    <3>2. a # EntryBlock(MemMap[j]).address
      BY <1>1, <1>2, <3>1, UsableIsNotReserved DEF Grant
    <3>. QED
      BY <2>1, <3>1, <3>2
  <2>. QED
    BY <2>2, <2>3
<1>4. CASE ~\E n \in Slots : StartsFirst(n, a, used_memory_blocks)
  BY <1>4 DEF FindBlock
<1>. QED
  BY <1>3, <1>4

\* So free_memory leaves both lists as they are.
LEMMA FreeOfGrantDoesNothing ==
    ASSUME IndInv, NEW g \in granted, FreeMemory(g.address)
    PROVE  UNCHANGED <<entry, inits, lists, total_memory, saved>>
BY GrantNotInUsedList DEF FreeMemory, lists

-----------------------------------------------------------------------------
(* Cutting a granted block out of a free slot.                             *)

\* The part of the invariant that speaks of free slots and granted blocks.
ListInv ==
    /\ FreeFromMap
    /\ GrantsFromMap
    /\ FreeSlotsDisjoint
    /\ GrantsDisjoint
    /\ GrantsNotFree

\* A request that fits is cut from its slot: slots stay disjoint parts of the
\* map, and the new block overlaps neither them nor an older block.
LEMMA CarveKeepsListInv ==
    ASSUME IndInv, NEW k \in Slots, NEW size \in Nat \ {0},
           Fits(k, size), Carve(k, size),
           NEW g \in Grant, g.address = free_memory_blocks[k].address,
           g.size = size, granted' = granted \cup {g},
           UNCHANGED <<entry, inits, free_blocks>>
    PROVE  free_memory_blocks' \in [Slots -> Block] /\ ListInv'
<1> DEFINE old(j) == free_memory_blocks[j]
           new(j) == free_memory_blocks'[j]
<1>1. /\ free_memory_blocks \in [Slots -> Block]
      /\ granted \subseteq Grant
      /\ free_blocks \in 0 .. NUM_BLOCKS
      /\ k \in FreeSlots
      /\ old(k).size >= size
  BY DEF IndInv, TypeOK, Fits
<1>2. FreeSlots \subseteq Slots /\ FreeSlots' = FreeSlots
  BY <1>1, SizeAssumption DEF FreeSlots, Slots
<1>3. /\ old(k).address \in Nat /\ old(k).size \in Nat
      /\ free_memory_blocks' = [free_memory_blocks EXCEPT
            ![k] = [address |-> old(k).address + size, size |-> old(k).size - size]]
  BY <1>1 DEF Carve, Block
<1>4. /\ new(k) = [address |-> old(k).address + size, size |-> old(k).size - size]
      /\ \A j \in Slots : j # k => new(j) = old(j)
  BY <1>1, <1>3
<1>5. new(k) \in Block
  BY <1>1, <1>3, <1>4 DEF Block
<1>6. free_memory_blocks' \in [Slots -> Block]
  BY <1>1, <1>3, <1>4, <1>5
<1>7. /\ Within(new(k), old(k))
      /\ Within(g, old(k))
      /\ Disjoint(g, new(k))
      /\ Disjoint(new(k), g)
  BY <1>1, <1>3, <1>4 DEF Within, Disjoint, End
<1>8. \A j \in Slots : /\ old(j).address \in Nat /\ old(j).size \in Nat
                       /\ new(j).address \in Nat /\ new(j).size \in Nat
  BY <1>1, <1>6 DEF Block
<1>9. \A j \in Slots : Within(new(j), old(j))
  <2>1. \A j \in Slots : Within(old(j), old(j))
    BY <1>8 DEF Within, End
  <2>. QED
    BY <1>4, <1>7, <2>1
<1>10. \A h \in granted \cup {g} : h.address \in Nat /\ h.size \in Nat /\ Within(h, h)
  BY <1>1 DEF Grant, Within, End
<1>11. \A i \in 1 .. Len(MemMap) :
          Region(MemMap[i]).address \in Nat /\ Region(MemMap[i]).size \in Nat
  BY RegionInEntry DEF Block
<1>12. \A i : Seen(i)' <=> Seen(i)
  BY DEF Seen
<1>. HIDE DEF old, new
<1>a. FreeFromMap'
  <2>. SUFFICES ASSUME NEW j \in FreeSlots
                PROVE  \E i \in 1 .. Len(MemMap) :
                          Seen(i) /\ MemMap[i].free /\ Within(new(j), Region(MemMap[i]))
    BY <1>2, <1>12 DEF FreeFromMap, new
  <2>1. PICK i \in 1 .. Len(MemMap) :
           Seen(i) /\ MemMap[i].free /\ Within(old(j), Region(MemMap[i]))
    BY DEF IndInv, FreeFromMap, old
  <2>2. Within(new(j), Region(MemMap[i]))
    BY <1>2, <1>8, <1>9, <1>11, <2>1, WithinTransitive
  <2>. QED
    BY <2>1, <2>2
<1>b. FreeSlotsDisjoint'
  <2>. SUFFICES ASSUME NEW i \in FreeSlots, NEW j \in FreeSlots, i # j
                PROVE  Disjoint(new(i), new(j))
    BY <1>2 DEF FreeSlotsDisjoint, new
  <2>1. Disjoint(old(i), old(j))
    BY DEF IndInv, FreeSlotsDisjoint, old
  <2>. QED
    BY <1>2, <1>8, <1>9, <2>1, PartsDisjoint
<1>c. GrantsFromMap'
  <2>1. PICK i \in 1 .. Len(MemMap) :
           Seen(i) /\ MemMap[i].free /\ Within(old(k), Region(MemMap[i]))
    BY <1>1 DEF IndInv, FreeFromMap, old
  <2>2. Within(g, Region(MemMap[i]))
    BY <1>7, <1>8, <1>10, <1>11, <2>1, WithinTransitive
  <2>. QED
    BY <1>12, <2>1, <2>2 DEF IndInv, GrantsFromMap
<1>d. \A h \in granted : Disjoint(h, g) /\ Disjoint(g, h)
  <2>. SUFFICES ASSUME NEW h \in granted PROVE Disjoint(h, g) /\ Disjoint(g, h)
    OBVIOUS
  <2>1. Disjoint(h, old(k)) /\ Disjoint(old(k), h)
    BY <1>1 DEF IndInv, GrantsNotFree, Disjoint, old
  <2>. QED
    BY <1>7, <1>8, <1>10, <2>1, PartsDisjoint
<1>e. GrantsDisjoint'
  BY <1>d DEF IndInv, GrantsDisjoint
<1>f. GrantsNotFree'
  <2>. SUFFICES ASSUME NEW h \in granted \cup {g}, NEW j \in FreeSlots
                PROVE  Disjoint(h, new(j))
    BY <1>2 DEF GrantsNotFree, new
  <2>1. CASE h \in granted
    <3>1. Disjoint(h, old(j))
      BY <2>1 DEF IndInv, GrantsNotFree, old
    <3>. QED
      BY <1>2, <1>8, <1>9, <1>10, <3>1, PartsDisjoint
  <2>2. CASE h = g /\ j = k
    BY <1>7, <2>2
  <2>3. CASE h = g /\ j # k
    <3>1. Disjoint(old(k), old(j))
      BY <1>1, <2>3 DEF IndInv, FreeSlotsDisjoint, old
    <3>. QED
      BY <1>2, <1>7, <1>8, <1>9, <1>10, <2>3, <3>1, PartsDisjoint
  <2>. QED
    BY <2>1, <2>2, <2>3
<1>. QED
  BY <1>6, <1>a, <1>b, <1>c, <1>e, <1>f DEF ListInv

-----------------------------------------------------------------------------
(* Every action keeps the invariant.                                       *)

LEMMA InitIndInv == Init => IndInv
<1> SUFFICES ASSUME Init PROVE IndInv
  OBVIOUS
<1>1. Len(MemMap) \in Nat
  BY MemMapAssumption DEF IsMemoryMap
<1>2. TypeOK
  BY <1>1, SizeAssumption DEF Init, TypeOK, Slots, Block, Empty
<1>. QED
  BY <1>1, <1>2
     DEF Init, IndInv, FreeFromMap, UsedFromMap, GrantsFromMap, FreeSlotsDisjoint,
         GrantsDisjoint, GrantsNotFree, PlainGrants, AlignedBlockFits,
         SavedFromGrants, StoredPointersIntact, FreeSlots, InitsCounted

\* Before the one call of init_blocks both lists are empty and nothing is
\* granted, so its start disturbs nothing.
LEMMA BeginInitStep ==
    ASSUME IndInv, OneInitOnly, BeginInit
    PROVE  IndInv'
<1>1. inits = 0 /\ inits' = 1 /\ entry' = 1
  BY DEF IndInv, TypeOK, BeginInit, OneInitOnly
<1>2. Len(MemMap) \in Nat /\ Len(MemMap) > 0
  BY MemMapAssumption DEF IsMemoryMap
<1>3. FreeSlots = {}
  BY <1>1 DEF IndInv, FreeFromMap, Seen
<1>4. granted = {}
  BY <1>1 DEF IndInv, GrantsFromMap, Seen
<1>5. \A k \in Slots : used_memory_blocks[k] = Empty
  BY <1>1 DEF IndInv, UsedFromMap, Seen
<1>6. saved = {}
  BY <1>4 DEF IndInv, SavedFromGrants
<1>7. UNCHANGED <<lists, total_memory, saved, granted>>
  BY DEF BeginInit
<1>8. TypeOK'
  BY <1>1, <1>2, <1>7 DEF IndInv, TypeOK, lists, OneInitOnly
<1>. QED
  BY <1>1, <1>3, <1>4, <1>5, <1>6, <1>7, <1>8
     DEF IndInv, FreeFromMap, UsedFromMap, GrantsFromMap, FreeSlotsDisjoint,
         GrantsDisjoint, GrantsNotFree, PlainGrants, AlignedBlockFits,
         SavedFromGrants, StoredPointersIntact, FreeSlots, InitsCounted, lists

\* One map entry: a new slot is a region no earlier slot or grant comes from.
LEMMA InitEntryStep ==
    ASSUME IndInv, OneInitOnly, InitEntry
    PROVE  IndInv'
<1> DEFINE e == MemMap[entry]
           r == Region(e)
<1>1. /\ entry \in 1 .. Len(MemMap)
      /\ Len(MemMap) \in Nat
      /\ inits = 1 /\ inits' = 1
      /\ entry' = entry + 1
      /\ saved' = saved
      /\ granted' = granted
      /\ total_memory' = total_memory + e.size
  BY MemMapAssumption
     DEF IndInv, TypeOK, InitsCounted, InitEntry, OneInitOnly, IsMemoryMap
<1>2. /\ r \in Block
      /\ e \in MapEntry
      /\ ~e.free => r = EntryBlock(e)
  BY <1>1, RegionInEntry
<1>3. /\ r.address \in Nat /\ r.size \in Nat
      /\ e.size \in Nat
  BY <1>2 DEF Block, MapEntry
<1>4. Within(r, r)
  BY <1>3 DEF Within, End
<1>n. PICK n \in 1 .. Len(MemMap) : n = entry
  BY <1>1
<1>5. /\ \A i \in 1 .. Len(MemMap) : Seen(i) => Seen(i)' /\ i # entry
      /\ Seen(n)'
  BY <1>1, <1>n DEF Seen
<1>6. /\ free_memory_blocks \in [Slots -> Block]
      /\ used_memory_blocks \in [Slots -> Block]
      /\ free_blocks \in 0 .. NUM_BLOCKS
      /\ used_blocks \in 0 .. NUM_BLOCKS
      /\ granted \subseteq Grant
      /\ NUM_BLOCKS \in Nat
  BY SizeAssumption DEF IndInv, TypeOK
\* The region of the entry overlaps no block that lies in an earlier one.
<1>7. ASSUME NEW i \in 1 .. Len(MemMap), Seen(i), NEW b,
             b.address \in Nat, b.size \in Nat, Within(b, Region(MemMap[i]))
      PROVE  Disjoint(b, r) /\ Disjoint(r, b)
  BY <1>1, <1>3, <1>4, <1>5, <1>7, DifferentEntries
<1>. HIDE DEF e, r
<1>8. /\ InitsCounted' /\ PlainGrants' /\ AlignedBlockFits' /\ SavedFromGrants'
      /\ StoredPointersIntact' /\ GrantsDisjoint'
  BY <1>1
     DEF IndInv, InitsCounted, PlainGrants, AlignedBlockFits, SavedFromGrants,
         StoredPointersIntact, GrantsDisjoint
<1>9. GrantsFromMap'
  BY <1>1, <1>5 DEF IndInv, GrantsFromMap
<1>10. \A g \in granted : Disjoint(g, r) /\ Disjoint(r, g)
  <2>. SUFFICES ASSUME NEW g \in granted PROVE Disjoint(g, r) /\ Disjoint(r, g)
    OBVIOUS
  <2>1. g.address \in Nat /\ g.size \in Nat
    BY <1>6 DEF Grant
  <2>2. PICK i \in 1 .. Len(MemMap) : Seen(i) /\ Within(g, Region(MemMap[i]))
    BY DEF IndInv, GrantsFromMap
  <2>. QED
    BY <1>7, <2>1, <2>2
<1>11. CASE /\ MemMap[entry].free
            /\ free_blocks < NUM_BLOCKS
            /\ free_memory_blocks' = [free_memory_blocks EXCEPT ![free_blocks] = r]
            /\ free_blocks' = free_blocks + 1
            /\ UNCHANGED <<used_blocks, used_memory_blocks>>
  <2>1. /\ free_blocks \in Slots
        /\ FreeSlots' = FreeSlots \cup {free_blocks}
        /\ FreeSlots \subseteq Slots
        /\ free_blocks \notin FreeSlots
    BY <1>6, <1>11 DEF Slots, FreeSlots
  <2>2. /\ free_memory_blocks'[free_blocks] = r
        /\ \A j \in FreeSlots : free_memory_blocks'[j] = free_memory_blocks[j]
    BY <1>6, <1>11, <2>1
  <2>3. free_memory_blocks' \in [Slots -> Block]
    BY <1>2, <1>6, <1>11, <2>1 DEF r
  <2>4. TypeOK'
    BY <1>1, <1>3, <1>6, <1>11, <2>3 DEF IndInv, TypeOK
  <2>5. \A j \in FreeSlots : Disjoint(free_memory_blocks[j], r)
                             /\ Disjoint(r, free_memory_blocks[j])
    <3>. SUFFICES ASSUME NEW j \in FreeSlots
                  PROVE  Disjoint(free_memory_blocks[j], r)
                         /\ Disjoint(r, free_memory_blocks[j])
      OBVIOUS
    <3>1. free_memory_blocks[j].address \in Nat /\ free_memory_blocks[j].size \in Nat
      BY <1>6, <2>1 DEF Block
    <3>2. PICK i \in 1 .. Len(MemMap) :
             Seen(i) /\ Within(free_memory_blocks[j], Region(MemMap[i]))
      BY DEF IndInv, FreeFromMap
    <3>. QED
      BY <1>7, <3>1, <3>2
  <2>6. FreeFromMap'
    <3>1. ASSUME NEW j \in FreeSlots
          PROVE  \E i \in 1 .. Len(MemMap) :
                   Seen(i)' /\ MemMap[i].free
                   /\ Within(free_memory_blocks'[j], Region(MemMap[i]))
      BY <1>5, <2>2 DEF IndInv, FreeFromMap
    <3>2. Within(free_memory_blocks'[free_blocks], Region(MemMap[n]))
      BY <1>4, <1>n, <2>2 DEF r, e
    <3>3. MemMap[n].free
      BY <1>11, <1>n
    <3>. QED
      BY <1>5, <2>1, <3>1, <3>2, <3>3 DEF FreeFromMap
  <2>7. FreeSlotsDisjoint'
    BY <2>1, <2>2, <2>5 DEF IndInv, FreeSlotsDisjoint
  <2>8. GrantsNotFree'
    BY <1>1, <1>10, <2>1, <2>2 DEF IndInv, GrantsNotFree
  <2>9. UsedFromMap'
    BY <1>5, <1>11 DEF IndInv, UsedFromMap
  <2>. QED
    BY <1>8, <1>9, <2>4, <2>6, <2>7, <2>8, <2>9 DEF IndInv
<1>12. CASE /\ ~MemMap[entry].free
            /\ used_blocks < NUM_BLOCKS
            /\ used_memory_blocks' = [used_memory_blocks EXCEPT ![used_blocks] = r]
            /\ used_blocks' = used_blocks + 1
            /\ UNCHANGED <<free_blocks, free_memory_blocks>>
  <2>1. used_blocks \in Slots
    BY <1>6, <1>12 DEF Slots
  <2>2. used_memory_blocks' \in [Slots -> Block]
    BY <1>2, <1>6, <1>12, <2>1 DEF r
  <2>3. TypeOK'
    BY <1>1, <1>3, <1>6, <1>12, <2>2 DEF IndInv, TypeOK
  <2>4. /\ used_memory_blocks'[used_blocks] = r
        /\ \A k \in Slots : k # used_blocks =>
              used_memory_blocks'[k] = used_memory_blocks[k]
    BY <1>6, <1>12, <2>1
  <2>5. r = EntryBlock(MemMap[n]) /\ ~MemMap[n].free
    BY <1>2, <1>12, <1>n DEF e, r
  <2>6. UsedFromMap'
    BY <1>5, <2>4, <2>5 DEF IndInv, UsedFromMap
  <2>7. FreeSlots' = FreeSlots
    BY <1>12 DEF FreeSlots
  <2>8. FreeFromMap'
    BY <1>5, <1>12, <2>7 DEF IndInv, FreeFromMap
  <2>9. FreeSlotsDisjoint' /\ GrantsNotFree'
    BY <1>1, <1>12, <2>7 DEF IndInv, FreeSlotsDisjoint, GrantsNotFree
  <2>. QED
    BY <1>8, <1>9, <2>3, <2>6, <2>8, <2>9 DEF IndInv
<1>. QED
  BY <1>11, <1>12 DEF InitEntry, e, r

\* allocate_memory: a carved block of plain use, or no change.
LEMMA AllocateMemoryStep ==
    ASSUME IndInv, NEW size \in Sizes, AllocateMemory(size)
    PROVE  IndInv'
<1>1. size \in Nat \ {0}
  BY SizeAssumption
<1>2. UNCHANGED <<entry, inits, free_blocks, used_blocks, used_memory_blocks,
                  total_memory, saved>>
  BY DEF AllocateMemory
<1>3. CASE UNCHANGED <<free_memory_blocks, granted>>
  BY <1>2, <1>3
     DEF IndInv, TypeOK, InitsCounted, FreeFromMap, UsedFromMap, GrantsFromMap,
         FreeSlotsDisjoint, GrantsDisjoint, GrantsNotFree, PlainGrants,
         AlignedBlockFits, SavedFromGrants, StoredPointersIntact, Seen, FreeSlots
<1>4. ASSUME NEW k \in Slots, FirstFit(k, size), Carve(k, size),
             HandOut([address |-> free_memory_blocks[k].address, size |-> size,
                      ptr |-> free_memory_blocks[k].address, use |-> size,
                      alignment |-> 0, freed |-> FALSE])
      PROVE  IndInv'
  <2> DEFINE a == free_memory_blocks[k].address
             g == [address |-> a, size |-> size, ptr |-> a, use |-> size,
                   alignment |-> 0, freed |-> FALSE]
  <2>1. a \in Nat
    BY DEF IndInv, TypeOK, Block
  <2>2. /\ g \in Grant /\ g.address = a /\ g.size = size /\ g.ptr = a
        /\ g.use = size /\ ~Aligned(g)
    BY <1>1, <2>1 DEF Grant, Aligned
  <2>3. granted' = granted \cup {g}
    BY <1>4 DEF HandOut
  <2>4. Fits(k, size)
    BY <1>4 DEF FirstFit
  <2>. HIDE DEF g
  <2>5. free_memory_blocks' \in [Slots -> Block] /\ ListInv'
    BY <1>1, <1>2, <1>4, <2>2, <2>3, <2>4, CarveKeepsListInv
  <2>6. TypeOK'
    BY <1>2, <2>2, <2>3, <2>5 DEF IndInv, TypeOK
  <2>7. UsedFromMap' /\ InitsCounted'
    BY <1>2 DEF IndInv, UsedFromMap, InitsCounted, Seen
  <2>8. PlainGrants' /\ AlignedBlockFits' /\ SavedFromGrants'
    BY <1>2, <2>2, <2>3 DEF IndInv, PlainGrants, AlignedBlockFits, SavedFromGrants
  <2>9. StoredPointersIntact'
    BY <1>2, <2>2, <2>3 DEF IndInv, StoredPointersIntact
  <2>. QED
    BY <2>5, <2>6, <2>7, <2>8, <2>9 DEF IndInv, ListInv
<1>. QED
  BY <1>3, <1>4 DEF AllocateMemory

-----------------------------------------------------------------------------
(* aligned_alloc.                                                          *)

\* The aligned address leaves room for a pointer below it and lies in the
\* padding: this is what the alignment - 1 + sizeof(void*) extra bytes buy.
LEMMA AlignedAddressBounds ==
    ASSUME NEW original \in Nat, NEW alignment \in Nat \ {0}
    PROVE  /\ AlignedAddress(original, alignment) \in Nat
           /\ original + PtrSize <= AlignedAddress(original, alignment)
           /\ AlignedAddress(original, alignment) <= original + alignment - 1 + PtrSize
<1> DEFINE top == original + alignment - 1 + PtrSize
           rem == top % alignment
<1>1. top \in Nat /\ PtrSize \in Nat /\ top = original + alignment - 1 + PtrSize
  BY SizeAssumption
<1>2. AlignedAddress(original, alignment) = top - rem
  BY DEF AlignedAddress
<1>. HIDE DEF top
<1>3. rem \in 0 .. alignment - 1
  BY <1>1
<1>. HIDE DEF rem
<1>. QED
  BY <1>1, <1>2, <1>3

\* The words of stored pointers of different aligned blocks do not overlap,
\* and a byte a caller may write overlaps none of them.
LEMMA StoredWordInBlock ==
    ASSUME NEW g \in Grant, Aligned(g), g.address + PtrSize <= g.ptr,
           g.ptr + g.use <= End(g)
    PROVE  /\ g.ptr - PtrSize \in Nat
           /\ Word(g.ptr - PtrSize).address = g.ptr - PtrSize
           /\ Word(g.ptr - PtrSize).size = PtrSize
           /\ Within(Word(g.ptr - PtrSize), g)
<1>1. /\ PtrSize \in Nat /\ g.ptr \in Nat /\ g.address \in Nat
      /\ g.size \in Nat /\ g.use \in Nat
  BY SizeAssumption DEF Grant
<1>. QED
  BY <1>1 DEF Word, Within, End

LEMMA AlignedAllocStep ==
    ASSUME IndInv, NEW alignment \in Alignments, NEW size \in Sizes,
           AlignedAlloc(alignment, size)
    PROVE  IndInv'
<1> DEFINE al == EffectiveAlignment(alignment)
           padded == Padded(al, size)
<1>1. /\ size \in Nat \ {0} /\ PtrSize \in Nat \ {0}
      /\ al \in Nat \ {0}
  BY SizeAssumption DEF EffectiveAlignment
<1>2. padded \in Nat \ {0} /\ padded = size + al - 1 + PtrSize
  BY <1>1 DEF Padded
<1>3. UNCHANGED <<entry, inits, free_blocks, used_blocks, used_memory_blocks,
                  total_memory>>
  BY DEF AlignedAlloc
<1>4. CASE UNCHANGED <<free_memory_blocks, granted, saved>>
  BY <1>3, <1>4
     DEF IndInv, TypeOK, InitsCounted, FreeFromMap, UsedFromMap, GrantsFromMap,
         FreeSlotsDisjoint, GrantsDisjoint, GrantsNotFree, PlainGrants,
         AlignedBlockFits, SavedFromGrants, StoredPointersIntact, Seen, FreeSlots
<1>5. ASSUME NEW k \in Slots, FirstFit(k, padded), Carve(k, padded),
             HandOut([address |-> free_memory_blocks[k].address, size |-> padded,
                      ptr |-> AlignedAddress(free_memory_blocks[k].address, al),
                      use |-> size, alignment |-> al, freed |-> FALSE]),
             Store(AlignedAddress(free_memory_blocks[k].address, al) - PtrSize,
                   free_memory_blocks[k].address)
      PROVE  IndInv'
  <2> DEFINE a == free_memory_blocks[k].address
             p == AlignedAddress(a, al)
             g == [address |-> a, size |-> padded, ptr |-> p, use |-> size,
                   alignment |-> al, freed |-> FALSE]
             w == [at |-> p - PtrSize, value |-> a]
  <2>. HIDE DEF al, padded
  <2>1. a \in Nat
    BY DEF IndInv, TypeOK, Block
  <2>2. /\ p \in Nat
        /\ a + PtrSize <= p
        /\ p <= a + al - 1 + PtrSize
    BY <1>1, <2>1, AlignedAddressBounds
  <2>. HIDE DEF p
  <2>3. /\ g \in Grant /\ g.address = a /\ g.size = padded /\ g.ptr = p
        /\ g.use = size /\ Aligned(g)
    BY <1>1, <1>2, <2>1, <2>2 DEF Grant, Aligned
  <2>4. granted' = granted \cup {g}
    BY <1>5 DEF HandOut, p
  <2>5. /\ saved' = {v \in saved : Disjoint(Word(v.at), Word(p - PtrSize))} \cup {w}
        /\ w \in StoredPointer
    BY <1>1, <1>5, <2>1, <2>2 DEF Store, StoredPointer, p
  <2>6. Fits(k, padded)
    BY <1>5 DEF FirstFit
  <2>7. g.address + PtrSize <= g.ptr /\ g.ptr + g.use <= End(g)
    BY <1>1, <1>2, <2>1, <2>2, <2>3 DEF End
  <2>8. w.value = g.address /\ w = [at |-> g.ptr - PtrSize, value |-> g.address]
    BY <2>3
  <2>. HIDE DEF g, w
  <2>9. free_memory_blocks' \in [Slots -> Block] /\ ListInv'
    BY <1>2, <1>3, <1>5, <2>3, <2>4, <2>6, CarveKeepsListInv
  <2>10. TypeOK'
    BY <1>3, <2>3, <2>4, <2>5, <2>9 DEF IndInv, TypeOK
  <2>11. UsedFromMap' /\ InitsCounted'
    BY <1>3 DEF IndInv, UsedFromMap, InitsCounted, Seen
  <2>12. PlainGrants' /\ AlignedBlockFits'
    BY <2>3, <2>4, <2>7 DEF IndInv, PlainGrants, AlignedBlockFits
  <2>13. SavedFromGrants'
    BY <2>4, <2>5, <2>8 DEF IndInv, SavedFromGrants
  <2>14. StoredPointersIntact'
    <3>. SUFFICES ASSUME NEW h \in granted, Aligned(h), h # g
                  PROVE  [at |-> h.ptr - PtrSize, value |-> h.address] \in saved'
      BY <2>4, <2>5, <2>8 DEF StoredPointersIntact
    <3>1. [at |-> h.ptr - PtrSize, value |-> h.address] \in saved
      BY DEF IndInv, StoredPointersIntact
    <3>2. Disjoint(h, g)
      BY <2>4, <2>9 DEF ListInv, GrantsDisjoint
    <3>3. /\ h \in Grant
          /\ h.address + PtrSize <= h.ptr
          /\ h.ptr + h.use <= End(h)
      BY DEF IndInv, TypeOK, AlignedBlockFits
    <3>4. /\ Within(Word(h.ptr - PtrSize), h)
          /\ Word(h.ptr - PtrSize).address \in Nat
          /\ Word(h.ptr - PtrSize).size \in Nat
      BY <1>1, <3>3, StoredWordInBlock
    <3>5. /\ Within(Word(g.ptr - PtrSize), g)
          /\ Word(g.ptr - PtrSize).address \in Nat
          /\ Word(g.ptr - PtrSize).size \in Nat
      BY <1>1, <2>3, <2>7, StoredWordInBlock
    <3>6. Disjoint(Word(h.ptr - PtrSize), Word(g.ptr - PtrSize))
      BY <2>3, <3>2, <3>3, <3>4, <3>5, PartsDisjoint DEF Grant
    <3>. QED
      BY <2>3, <2>5, <3>1, <3>6
  <2>. QED
    BY <2>9, <2>10, <2>11, <2>12, <2>13, <2>14 DEF IndInv, ListInv
<1>. QED
  BY <1>4, <1>5 DEF AlignedAlloc

-----------------------------------------------------------------------------
(* The callers' own steps.                                                 *)

\* Marking a block as given back changes nothing the invariant speaks of.
LEMMA MarkFreedStep ==
    ASSUME IndInv, NEW g \in granted, MarkFreed(g),
           UNCHANGED <<entry, inits, lists, total_memory, saved>>
    PROVE  IndInv'
<1> DEFINE m == [g EXCEPT !.freed = TRUE]
<1>1. g \in Grant
  BY DEF IndInv, TypeOK
<1>2. /\ m \in Grant /\ m.address = g.address /\ m.size = g.size
      /\ m.ptr = g.ptr /\ m.use = g.use /\ m.alignment = g.alignment
  BY <1>1 DEF Grant
<1>3. granted' = (granted \ {g}) \cup {m}
  BY DEF MarkFreed
<1>. HIDE DEF m
<1>4. Aligned(m) <=> Aligned(g)
  BY <1>2 DEF Aligned
<1>5. /\ End(m) = End(g)
      /\ \A b : (Disjoint(b, m) <=> Disjoint(b, g)) /\ (Disjoint(m, b) <=> Disjoint(g, b))
      /\ \A b : Within(m, b) <=> Within(g, b)
  BY <1>2 DEF Disjoint, Within, End
<1>6. TypeOK' /\ InitsCounted' /\ FreeFromMap' /\ UsedFromMap' /\ FreeSlotsDisjoint'
  BY <1>2, <1>3 DEF IndInv, TypeOK, InitsCounted, FreeFromMap, UsedFromMap,
     FreeSlotsDisjoint, Seen, FreeSlots, lists
<1>7. GrantsFromMap'
  BY <1>2, <1>3, <1>5 DEF IndInv, GrantsFromMap, Seen, lists
<1>8. GrantsDisjoint'
  BY <1>3, <1>5 DEF IndInv, GrantsDisjoint
<1>9. GrantsNotFree'
  BY <1>3, <1>5 DEF IndInv, GrantsNotFree, FreeSlots, lists
<1>10. PlainGrants' /\ AlignedBlockFits' /\ StoredPointersIntact'
  BY <1>2, <1>3, <1>4, <1>5 DEF IndInv, PlainGrants, AlignedBlockFits, StoredPointersIntact
<1>11. SavedFromGrants'
  BY <1>2, <1>3 DEF IndInv, SavedFromGrants
<1>. QED
  BY <1>6, <1>7, <1>8, <1>9, <1>10, <1>11 DEF IndInv

\* free_memory of a block from allocate_memory.
LEMMA FreeGrantStep ==
    ASSUME IndInv, NEW g \in granted, FreeGrant(g)
    PROVE  IndInv'
<1>1. g.ptr = g.address
  BY DEF IndInv, PlainGrants, FreeGrant
<1>2. FreeMemory(g.address) /\ MarkFreed(g)
  BY <1>1 DEF FreeGrant
<1>. QED
  BY <1>2, FreeOfGrantDoesNothing, MarkFreedStep

\* aligned_free: the pointer below the block is intact and names a granted
\* block, so the free does nothing either.
LEMMA AlignedFreeStep ==
    ASSUME IndInv, NEW g \in granted, AlignedFree(g)
    PROVE  IndInv'
<1>1. Aligned(g) /\ MarkFreed(g)
  BY DEF AlignedFree
<1>2. [at |-> g.ptr - PtrSize, value |-> g.address] \in saved
  BY <1>1 DEF IndInv, StoredPointersIntact
<1>3. PICK w \in saved : w.at = g.ptr - PtrSize /\ FreeMemory(w.value)
  BY <1>2 DEF AlignedFree
<1>4. PICK h \in granted : w.value = h.address
  BY DEF IndInv, SavedFromGrants
<1>. QED
  BY <1>1, <1>3, <1>4, FreeOfGrantDoesNothing, MarkFreedStep

\* A caller's write hits no stored pointer: its own lies below the bytes it
\* may use, the others lie in other blocks.
LEMMA ClientWriteStep ==
    ASSUME IndInv, NEW g \in granted, ClientWrite(g)
    PROVE  IndInv'
<1>1. UNCHANGED <<entry, inits, lists, total_memory, granted>>
  BY DEF ClientWrite
<1>2. PICK x \in g.ptr .. g.ptr + g.use - 1 :
         saved' = {w \in saved : Disjoint(Word(w.at), [address |-> x, size |-> 1])}
  BY DEF ClientWrite
<1> DEFINE b == [address |-> x, size |-> 1]
<1>3. /\ g \in Grant
      /\ g.address \in Nat /\ g.size \in Nat /\ g.ptr \in Nat /\ g.use \in Nat
      /\ PtrSize \in Nat
  BY SizeAssumption DEF IndInv, TypeOK, Grant
<1>4. g.address <= g.ptr /\ g.ptr + g.use <= End(g)
  <2>1. CASE Aligned(g)
    BY <1>3, <2>1 DEF IndInv, AlignedBlockFits
  <2>2. CASE ~Aligned(g)
    BY <1>3, <2>2 DEF IndInv, PlainGrants, End
  <2>. QED
    BY <2>1, <2>2
<1>5. b.address \in Nat /\ b.size \in Nat /\ Within(b, g)
  BY <1>3, <1>4 DEF Within, End
<1>6. b.address = x /\ b.size = 1
  OBVIOUS
<1>. HIDE DEF b
<1>7. StoredPointersIntact'
  <2>. SUFFICES ASSUME NEW h \in granted, Aligned(h)
                PROVE  [at |-> h.ptr - PtrSize, value |-> h.address] \in saved'
    BY <1>1 DEF StoredPointersIntact
  <2>1. [at |-> h.ptr - PtrSize, value |-> h.address] \in saved
    BY DEF IndInv, StoredPointersIntact
  <2>2. /\ h \in Grant
        /\ h.address + PtrSize <= h.ptr
        /\ h.ptr + h.use <= End(h)
    BY DEF IndInv, TypeOK, AlignedBlockFits
  <2>3. /\ h.ptr - PtrSize \in Nat
        /\ Word(h.ptr - PtrSize).address = h.ptr - PtrSize
        /\ Word(h.ptr - PtrSize).size = PtrSize
        /\ Within(Word(h.ptr - PtrSize), h)
    BY <2>2, StoredWordInBlock
  <2>4. Disjoint(Word(h.ptr - PtrSize), b)
    <3>1. CASE h = g
      BY <1>3, <1>6, <2>3, <3>1 DEF Disjoint, End
    <3>2. CASE h # g
      <4>1. Disjoint(h, g)
        BY <3>2 DEF IndInv, GrantsDisjoint
      <4>. QED
        BY <1>3, <1>5, <2>2, <2>3, <4>1, PartsDisjoint DEF Grant
    <3>. QED
      BY <3>1, <3>2
  <2>. QED
    BY <1>2, <2>1, <2>4 DEF b
<1>8. TypeOK' /\ SavedFromGrants'
  BY <1>1, <1>2 DEF IndInv, TypeOK, SavedFromGrants, lists
<1>. QED
  BY <1>1, <1>7, <1>8
     DEF IndInv, InitsCounted, FreeFromMap, UsedFromMap, GrantsFromMap,
         FreeSlotsDisjoint, GrantsDisjoint, GrantsNotFree, PlainGrants,
         AlignedBlockFits, Seen, FreeSlots, lists

-----------------------------------------------------------------------------
(* The theorems.                                                           *)

LEMMA NextIndInv ==
    ASSUME OneInitOnly
    PROVE  IndInv /\ [Next]_vars => IndInv'
<1> SUFFICES ASSUME IndInv, [Next]_vars PROVE IndInv'
  OBVIOUS
<1>1. CASE BeginInit
  BY <1>1, BeginInitStep
<1>2. CASE InitEntry
  BY <1>2, InitEntryStep
<1>3. ASSUME NEW size \in Sizes, AllocateMemory(size) PROVE IndInv'
  BY <1>3, AllocateMemoryStep
<1>4. ASSUME NEW alignment \in Alignments, NEW size \in Sizes,
             AlignedAlloc(alignment, size)
      PROVE  IndInv'
  BY <1>4, AlignedAllocStep
<1>5. ASSUME NEW g \in granted, FreeGrant(g) PROVE IndInv'
  BY <1>5, FreeGrantStep
<1>6. ASSUME NEW g \in granted, AlignedFree(g) PROVE IndInv'
  BY <1>6, AlignedFreeStep
<1>7. ASSUME NEW g \in granted, ClientWrite(g) PROVE IndInv'
  BY <1>7, ClientWriteStep
<1>8. ~\E address \in Reclaimable : Reclaim(address)
  BY DEF OneInitOnly
<1>9. CASE UNCHANGED vars
  BY <1>9
     DEF vars, lists, IndInv, TypeOK, InitsCounted, FreeFromMap, UsedFromMap,
         GrantsFromMap, FreeSlotsDisjoint, GrantsDisjoint, GrantsNotFree,
         PlainGrants, AlignedBlockFits, SavedFromGrants, StoredPointersIntact,
         Seen, FreeSlots
<1>. QED
  BY <1>1, <1>2, <1>3, <1>4, <1>5, <1>6, <1>7, <1>8, <1>9 DEF Next

\* Every reachable state of such a kernel satisfies the inductive invariant.
LEMMA SpecIndInv ==
    ASSUME OneInitOnly
    PROVE  Spec => []IndInv
<1>1. Init => IndInv
  BY InitIndInv
<1>2. IndInv /\ [Next]_vars => IndInv'
  BY NextIndInv
<1>. QED
  BY <1>1, <1>2, PTL DEF Spec

\* allocate_memory and aligned_alloc never hand out an address twice, for every
\* memory map, request size and alignment.
THEOREM PmmGrantsDisjoint ==
    ASSUME OneInitOnly
    PROVE  Spec => []GrantsDisjoint
<1>1. IndInv => GrantsDisjoint
  BY DEF IndInv
<1>. QED
  BY <1>1, SpecIndInv, PTL

\* No address handed out is still on the free list, so no later request can get
\* it.
THEOREM PmmGrantsNotFree ==
    ASSUME OneInitOnly
    PROVE  Spec => []GrantsNotFree
<1>1. IndInv => GrantsNotFree
  BY DEF IndInv
<1>. QED
  BY <1>1, SpecIndInv, PTL

\* aligned_alloc's block has room for the bytes asked for and for the pointer
\* below them, whatever the alignment.
THEOREM PmmAlignedBlockFits ==
    ASSUME OneInitOnly
    PROVE  Spec => []AlignedBlockFits
<1>1. IndInv => AlignedBlockFits
  BY DEF IndInv
<1>. QED
  BY <1>1, SpecIndInv, PTL

\* No caller that stays within its block destroys the pointer aligned_free will
\* read for another.
THEOREM PmmStoredPointersIntact ==
    ASSUME OneInitOnly
    PROVE  Spec => []StoredPointersIntact
<1>1. IndInv => StoredPointersIntact
  BY DEF IndInv
<1>. QED
  BY <1>1, SpecIndInv, PTL

\* Only usable memory is handed out, and never address 0.
LEMMA GrantsAreUsable == IndInv => GrantsUsable
<1> SUFFICES ASSUME IndInv, NEW g \in granted
             PROVE  /\ g.ptr # 0
                    /\ \E i \in 1 .. Len(MemMap) :
                          MemMap[i].free /\ Within(g, EntryBlock(MemMap[i]))
  BY DEF GrantsUsable
<1>1. PICK i \in 1 .. Len(MemMap) : MemMap[i].free /\ Within(g, Region(MemMap[i]))
  BY DEF IndInv, GrantsFromMap
<1>2. g \in Grant /\ PtrSize \in Nat
  BY SizeAssumption DEF IndInv, TypeOK
<1>3. g.address \in Nat /\ g.size \in Nat /\ g.ptr \in Nat
  BY <1>2 DEF Grant
<1>4. /\ Region(MemMap[i]) \in Block /\ EntryBlock(MemMap[i]) \in Block
      /\ Within(Region(MemMap[i]), EntryBlock(MemMap[i]))
      /\ Region(MemMap[i]).address > 0
  BY <1>1, RegionInEntry
<1>5. Within(g, EntryBlock(MemMap[i]))
  BY <1>1, <1>3, <1>4, WithinTransitive DEF Block
<1>6. g.address > 0
  BY <1>1, <1>3, <1>4 DEF Within, Block
<1>7. g.address <= g.ptr
  <2>1. CASE Aligned(g)
    BY <1>2, <1>3, <2>1 DEF IndInv, AlignedBlockFits
  <2>2. CASE ~Aligned(g)
    BY <1>3, <2>2 DEF IndInv, PlainGrants
  <2>. QED
    BY <2>1, <2>2
<1>. QED
  BY <1>1, <1>3, <1>5, <1>6, <1>7

LEMMA NextGrantsAreUsable == IndInv' => GrantsUsable'
BY GrantsAreUsable, PTL

\* The manager hands out nothing the firmware reserved, and never NULL as if it
\* were memory.
THEOREM PmmGrantsUsable ==
    ASSUME OneInitOnly
    PROVE  Spec => []GrantsUsable
BY GrantsAreUsable, SpecIndInv, PTL

-----------------------------------------------------------------------------
(* The manager implements the allocator its callers rely on.               *)

AsHeld(g) == [address |-> g.address, size |-> g.size]

\* Handing out one more block is Allocate of the abstract allocator.
LEMMA GrantRefines ==
    ASSUME IndInv, IndInv', NEW g \in Grant, ~g.freed, g \notin granted,
           granted' = granted \cup {g}
    PROVE  Held!Allocate
<1> DEFINE b == AsHeld(g)
<1>1. HeldBlocks' = HeldBlocks \cup {b}
  BY DEF HeldBlocks, AsHeld
<1>2. g.address \in Nat /\ g.size \in Nat /\ b.address = g.address /\ b.size = g.size
  BY DEF Grant, AsHeld
<1>3. g.size > 0
  BY DEF IndInv, GrantsFromMap
<1>4. PICK i \in 1 .. Len(MemMap) : MemMap[i].free /\ Within(g, EntryBlock(MemMap[i]))
  BY NextGrantsAreUsable DEF GrantsUsable
<1>5. \A h \in HeldBlocks : Held!Disjoint(b, h)
  <2>. SUFFICES ASSUME NEW h \in granted PROVE Disjoint(b, AsHeld(h))
    BY DEF HeldBlocks, AsHeld, Held!Disjoint, Held!End, Disjoint, End
  <2>1. Disjoint(g, h)
    BY DEF IndInv, GrantsDisjoint
  <2>2. AsHeld(h).address = h.address /\ AsHeld(h).size = h.size
    BY DEF AsHeld
  <2>. QED
    BY <1>2, <2>1, <2>2 DEF Disjoint, End
<1> DEFINE u == EntryBlock(MemMap[i])
<1>6. /\ u \in UsableBlocks
      /\ u.address \in Nat /\ u.size \in Nat
  BY <1>4, RegionInEntry DEF UsableBlocks, UsableEntries, Block
<1>7. u.address <= g.address /\ g.address + g.size <= u.address + u.size
  BY <1>4 DEF Within, End
<1>. HIDE DEF u
<1>8. /\ g.address \in u.address .. Held!End(u) - 1
      /\ g.size \in 1 .. Held!End(u) - g.address
  BY <1>2, <1>3, <1>6, <1>7 DEF Held!End
<1>. QED
  BY <1>1, <1>5, <1>6, <1>8 DEF Held!Allocate, AsHeld

\* Marking a block as given back is Free of the abstract allocator: no other
\* block held is the same one.
LEMMA FreeRefines ==
    ASSUME IndInv, NEW g \in granted, ~g.freed, MarkFreed(g)
    PROVE  Held!Free
<1> DEFINE m == [g EXCEPT !.freed = TRUE]
           b == AsHeld(g)
<1>1. g \in Grant /\ m.freed
  BY DEF IndInv, TypeOK, Grant
<1>2. granted' = (granted \ {g}) \cup {m}
  BY DEF MarkFreed
<1>. HIDE DEF m
<1>3. b \in HeldBlocks
  BY DEF HeldBlocks, AsHeld
<1>4. \A h \in granted : h # g => AsHeld(h) # b
  <2>. SUFFICES ASSUME NEW h \in granted, h # g, AsHeld(h) = b PROVE FALSE
    OBVIOUS
  <2>1. h.address = g.address /\ h.size = g.size
    BY DEF AsHeld
  <2>2. Disjoint(g, h) /\ g.size > 0
    BY DEF IndInv, GrantsDisjoint, GrantsFromMap
  <2>. QED
    BY <1>1, <2>1, <2>2 DEF Disjoint, End, Grant
<1>5. HeldBlocks' = {AsHeld(h) : h \in {k \in (granted \ {g}) \cup {m} : ~k.freed}}
  BY <1>2 DEF HeldBlocks, AsHeld
<1>6. HeldBlocks' = HeldBlocks \ {b}
  BY <1>1, <1>4, <1>5 DEF HeldBlocks, AsHeld
<1>. QED
  BY <1>3, <1>6 DEF Held!Free

LEMMA StepRefines ==
    ASSUME OneInitOnly
    PROVE  IndInv /\ IndInv' /\ [Next]_vars => [Held!Next]_HeldBlocks
<1> SUFFICES ASSUME IndInv, IndInv', [Next]_vars
             PROVE  Held!Next \/ UNCHANGED HeldBlocks
  OBVIOUS
<1>1. ASSUME UNCHANGED granted PROVE UNCHANGED HeldBlocks
  BY <1>1 DEF HeldBlocks
<1>2. ASSUME NEW g \in Grant, ~g.freed, granted' = granted \cup {g}
      PROVE  Held!Next \/ UNCHANGED HeldBlocks
  <2>1. CASE g \in granted
    BY <1>1, <1>2, <2>1
  <2>2. CASE g \notin granted
    BY <1>2, <2>2, GrantRefines DEF Held!Next
  <2>. QED
    BY <2>1, <2>2
<1>3. ASSUME NEW size \in Sizes, AllocateMemory(size)
      PROVE  Held!Next \/ UNCHANGED HeldBlocks
  <2>1. ASSUME NEW k \in Slots,
               HandOut([address |-> free_memory_blocks[k].address, size |-> size,
                        ptr |-> free_memory_blocks[k].address, use |-> size,
                        alignment |-> 0, freed |-> FALSE])
        PROVE  Held!Next \/ UNCHANGED HeldBlocks
    <3>1. free_memory_blocks[k].address \in Nat /\ size \in Nat
      BY SizeAssumption DEF IndInv, TypeOK, Block
    <3> DEFINE g == [address |-> free_memory_blocks[k].address, size |-> size,
                     ptr |-> free_memory_blocks[k].address, use |-> size,
                     alignment |-> 0, freed |-> FALSE]
    <3>2. g \in Grant /\ ~g.freed
      BY <3>1 DEF Grant
    <3>3. granted' = granted \cup {g}
      BY <2>1 DEF HandOut
    <3>. HIDE DEF g
    <3>. QED
      BY <1>2, <3>2, <3>3
  <2>. QED
    BY <1>1, <1>3, <2>1 DEF AllocateMemory
<1>4. ASSUME NEW alignment \in Alignments, NEW size \in Sizes,
             AlignedAlloc(alignment, size)
      PROVE  Held!Next \/ UNCHANGED HeldBlocks
  <2> DEFINE al == EffectiveAlignment(alignment)
             padded == Padded(al, size)
  <2>1. /\ size \in Nat /\ al \in Nat \ {0} /\ padded \in Nat
    BY SizeAssumption DEF EffectiveAlignment, Padded
  <2>. HIDE DEF al, padded
  <2>2. ASSUME NEW k \in Slots,
               HandOut([address |-> free_memory_blocks[k].address, size |-> padded,
                        ptr |-> AlignedAddress(free_memory_blocks[k].address, al),
                        use |-> size, alignment |-> al, freed |-> FALSE])
        PROVE  Held!Next \/ UNCHANGED HeldBlocks
    <3>1. free_memory_blocks[k].address \in Nat
      BY DEF IndInv, TypeOK, Block
    <3>2. AlignedAddress(free_memory_blocks[k].address, al) \in Nat
      BY <2>1, <3>1, AlignedAddressBounds
    <3> DEFINE g == [address |-> free_memory_blocks[k].address, size |-> padded,
                     ptr |-> AlignedAddress(free_memory_blocks[k].address, al),
                     use |-> size, alignment |-> al, freed |-> FALSE]
    <3>3. g \in Grant /\ ~g.freed
      BY <2>1, <3>1, <3>2 DEF Grant
    <3>4. granted' = granted \cup {g}
      BY <2>2 DEF HandOut
    <3>. HIDE DEF g
    <3>. QED
      BY <1>2, <3>3, <3>4
  <2>. QED
    BY <1>1, <1>4, <2>2 DEF AlignedAlloc, al, padded
<1>5. ASSUME NEW g \in granted, FreeGrant(g) PROVE Held!Next
  BY <1>5, FreeRefines DEF FreeGrant, Held!Next
<1>6. ASSUME NEW g \in granted, AlignedFree(g) PROVE Held!Next
  BY <1>6, FreeRefines DEF AlignedFree, Held!Next
<1>7. ASSUME NEW g \in granted, ClientWrite(g) PROVE UNCHANGED HeldBlocks
  BY <1>1, <1>7 DEF ClientWrite
<1>8. CASE BeginInit \/ InitEntry \/ UNCHANGED vars
  BY <1>1, <1>8 DEF BeginInit, InitEntry, vars
<1>9. ~\E address \in Reclaimable : Reclaim(address)
  BY DEF OneInitOnly
<1>. QED
  BY <1>3, <1>4, <1>5, <1>6, <1>7, <1>8, <1>9 DEF Next

\* The first-fit manager, with its carved slots and padded aligned blocks,
\* implements the abstract allocator for every memory map.
THEOREM PmmImplementsAllocator ==
    ASSUME OneInitOnly
    PROVE  Spec => ImplementsAllocator
<1>1. Init => Held!Init
  BY DEF Init, Held!Init, HeldBlocks
<1>2. IndInv /\ IndInv' /\ [Next]_vars => [Held!Next]_HeldBlocks
  BY StepRefines
<1>. QED
  BY <1>1, <1>2, SpecIndInv, PTL DEF Spec, ImplementsAllocator, Held!Spec

-----------------------------------------------------------------------------
(* What holds of every kernel: however often init_blocks runs and whatever  *)
(* is passed to free_memory.                                                *)

\* A slot changed to a block, if it is one of the slots.
LEMMA SlotChanged ==
    ASSUME NEW blocks \in [Slots -> Block], NEW k, NEW size \in Nat, NEW address \in Nat
    PROVE  /\ [blocks EXCEPT ![k].size = @ + size] \in [Slots -> Block]
           /\ [blocks EXCEPT ![k].address = address] \in [Slots -> Block]
           /\ [blocks EXCEPT ![k] = [address |-> address, size |-> size]] \in [Slots -> Block]
<1>1. CASE k \in Slots
  <2>1. /\ [blocks[k] EXCEPT !.size = blocks[k].size + size] \in Block
        /\ [blocks[k] EXCEPT !.address = address] \in Block
        /\ [address |-> address, size |-> size] \in Block
    BY <1>1 DEF Block
  <2>. QED
    BY <2>1, <1>1
<1>2. CASE k \notin Slots
  BY <1>2
<1>. QED
  BY <1>1, <1>2

\* free_memory leaves blocks in the slots, whatever address it gets.
LEMMA FreeMemoryTypes ==
    ASSUME TypeOK, NEW address \in Nat, FreeMemory(address)
    PROVE  /\ free_blocks' \in 0 .. NUM_BLOCKS /\ free_memory_blocks' \in [Slots -> Block]
           /\ used_memory_blocks' \in [Slots -> Block]
           /\ UNCHANGED <<entry, inits, used_blocks, total_memory, saved>>
<1> DEFINE size == FindBlock(address, used_memory_blocks)
<1>1. size \in Nat
  <2>1. CASE \E k \in Slots : StartsFirst(k, address, used_memory_blocks)
    <3> DEFINE k == CHOOSE j \in Slots : StartsFirst(j, address, used_memory_blocks)
    <3>1. k \in Slots
      BY <2>1
    <3>2. size = used_memory_blocks[k].size
      BY <2>1 DEF FindBlock
    <3>. HIDE DEF k, size
    <3>. QED
      BY <3>1, <3>2 DEF TypeOK, Block
  <2>2. CASE ~\E k \in Slots : StartsFirst(k, address, used_memory_blocks)
    BY <2>2 DEF FindBlock
  <2>. QED
    BY <2>1, <2>2
<1>2. RemoveBlock(address, used_memory_blocks) \in [Slots -> Block]
  BY DEF RemoveBlock, Empty, TypeOK, Block
<1>3. /\ UNCHANGED <<entry, inits, used_blocks, total_memory, saved>>
      /\ \/ UNCHANGED <<free_blocks, free_memory_blocks, used_memory_blocks>>
         \/ /\ \/ MergeInFront(address, size)
               \/ MergeBehind(address, size)
               \/ InsertFreed(address, size)
            /\ used_memory_blocks' = RemoveBlock(address, used_memory_blocks)
  BY DEF FreeMemory
<1>. HIDE DEF size
<1>4. free_memory_blocks \in [Slots -> Block] /\ free_blocks \in 0 .. NUM_BLOCKS
  BY DEF TypeOK
<1>5. CASE MergeInFront(address, size) \/ MergeBehind(address, size)
  <2>1. PICK k : \/ free_memory_blocks' =
                        [free_memory_blocks EXCEPT ![k].size = @ + size]
                 \/ free_memory_blocks' =
                        [free_memory_blocks EXCEPT ![k].address = address]
    BY <1>5 DEF MergeInFront, MergeBehind
  <2>2. /\ [free_memory_blocks EXCEPT ![k].size = @ + size] \in [Slots -> Block]
        /\ [free_memory_blocks EXCEPT ![k].address = address] \in [Slots -> Block]
    BY <1>1, <1>4, SlotChanged
  <2>3. free_memory_blocks' \in [Slots -> Block] /\ free_blocks' = free_blocks
    BY <1>5, <2>1, <2>2 DEF MergeInFront, MergeBehind
  <2>. QED
    BY <2>3, <1>2, <1>3, <1>4 DEF TypeOK
<1>6. CASE InsertFreed(address, size)
  <2>1. free_memory_blocks' \in [Slots -> Block]
    BY <1>1, <1>4, <1>6, SlotChanged DEF InsertFreed
  <2>2. free_blocks' \in 0 .. NUM_BLOCKS
    BY <1>4, <1>6, SizeAssumption DEF InsertFreed, Slots
  <2>. QED
    BY <2>1, <2>2, <1>2, <1>3 DEF TypeOK
<1>. QED
  BY <1>3, <1>5, <1>6 DEF TypeOK

\* Multiples of a number that differ by less than it are the same.
LEMMA ProductAtLeast ==
    ASSUME NEW a \in Nat, NEW d \in Int, d >= 1
    PROVE  a * d >= a
<1> DEFINE rest == a * (d - 1)
<1>1. rest \in Int /\ rest >= 0 /\ a * d = rest + a
  OBVIOUS
<1>. HIDE DEF rest
<1>. QED
  BY <1>1

LEMMA CloseMultiples ==
    ASSUME NEW a \in Nat \ {0}, NEW q \in Int, NEW p \in Int,
           NEW r \in 0 .. a - 1, a * q = a * p + r
    PROVE  r = 0
<1>1. a * (q - p) = r
  <2> DEFINE x == a * q
             y == a * p
             z == a * (q - p)
  <2>1. x \in Int /\ y \in Int /\ z \in Int /\ z = x - y /\ x = y + r
    OBVIOUS
  <2>. HIDE DEF x, y, z
  <2>2. z = r
    BY <2>1
  <2>. QED
    BY <2>2 DEF z
<1>2. CASE q - p >= 1
  <2>1. a * (q - p) >= a
    BY <1>2, ProductAtLeast
  <2>. QED
    BY <1>1, <2>1
<1>3. CASE q - p = 0
  BY <1>1, <1>3
<1>4. CASE p - q >= 1
  <2>1. a * (p - q) >= a
    BY <1>4, ProductAtLeast
  <2>2. a * (p - q) = -(a * (q - p))
    OBVIOUS
  <2>. QED
    BY <1>1, <2>1, <2>2
<1>. QED
  BY <1>2, <1>3, <1>4

LEMMA DivisionOf ==
    ASSUME NEW a \in Nat \ {0}, NEW x \in Nat
    PROVE  /\ x \div a \in Int /\ x % a \in 0 .. a - 1
           /\ x = a * (x \div a) + (x % a)
OBVIOUS

LEMMA MultipleHasNoRemainder ==
    ASSUME NEW a \in Nat \ {0}, NEW q \in Nat
    PROVE  (a * q) % a = 0
<1> DEFINE x == a * q
<1>1. x \in Nat
  OBVIOUS
<1>2. x \div a \in Int /\ x % a \in 0 .. a - 1 /\ x = a * (x \div a) + (x % a)
  <2>. HIDE DEF x
  <2>. QED
    BY <1>1, DivisionOf
<1>3. x % a = 0
  BY <1>2, CloseMultiples
<1>. QED
  BY <1>3

\* The block that aligned_alloc rounds up to is a multiple of the alignment.
LEMMA AlignedAddressIsMultiple ==
    ASSUME NEW original \in Nat, NEW alignment \in Nat \ {0}
    PROVE  AlignedAddress(original, alignment) % alignment = 0
<1> DEFINE top == original + alignment - 1 + PtrSize
           q == top \div alignment
<1>1. top \in Nat
  BY SizeAssumption
<1>2. AlignedAddress(original, alignment) = top - (top % alignment)
  BY DEF AlignedAddress
<1>. HIDE DEF top
<1>3. q \in Nat /\ (top % alignment) + alignment * q = top
  BY <1>1
<1>. HIDE DEF q
<1>4. top - (top % alignment) = alignment * q
  BY <1>1, <1>3
<1>5. (alignment * q) % alignment = 0
  BY <1>3, MultipleHasNoRemainder
<1>. QED
  BY <1>2, <1>4, <1>5

\* Cutting a request from a slot leaves blocks in the slots.
LEMMA CarveTypes ==
    ASSUME TypeOK, NEW k \in Slots, NEW size \in Nat,
           Fits(k, size), Carve(k, size)
    PROVE  /\ free_memory_blocks' \in [Slots -> Block]
           /\ free_memory_blocks[k].address \in Nat
<1>1. free_memory_blocks[k] \in Block /\ free_memory_blocks[k].size >= size
  BY DEF TypeOK, Fits
<1>2. [address |-> free_memory_blocks[k].address + size,
       size |-> free_memory_blocks[k].size - size] \in Block
  BY <1>1 DEF Block
<1>. QED
  BY <1>1, <1>2 DEF TypeOK, Carve, Block

\* What an action does to the blocks handed out: nothing, one more that is
\* placed as aligned_alloc places it, or one given back.
GrantsStep ==
    \/ granted' = granted
    \/ \E g \in Grant :
          /\ granted' = granted \cup {g}
          /\ Aligned(g) => g.ptr % g.alignment = 0
    \/ \E g \in granted : granted' = (granted \ {g}) \cup {[g EXCEPT !.freed = TRUE]}

LEMMA AllocateMemoryTypes ==
    ASSUME TypeOK, NEW size \in Sizes, AllocateMemory(size)
    PROVE  TypeOK' /\ GrantsStep
<1>1. size \in Nat
  BY SizeAssumption
<1>2. UNCHANGED <<entry, inits, free_blocks, used_blocks, used_memory_blocks,
                  total_memory, saved>>
  BY DEF AllocateMemory
<1>3. CASE UNCHANGED <<free_memory_blocks, granted>>
  BY <1>2, <1>3 DEF TypeOK, GrantsStep
<1>4. ASSUME NEW k \in Slots, FirstFit(k, size), Carve(k, size),
             HandOut([address |-> free_memory_blocks[k].address, size |-> size,
                      ptr |-> free_memory_blocks[k].address, use |-> size,
                      alignment |-> 0, freed |-> FALSE])
      PROVE  TypeOK' /\ GrantsStep
  <2> DEFINE a == free_memory_blocks[k].address
             g == [address |-> a, size |-> size, ptr |-> a, use |-> size,
                   alignment |-> 0, freed |-> FALSE]
  <2>1. free_memory_blocks' \in [Slots -> Block] /\ a \in Nat
    BY <1>1, <1>4, CarveTypes DEF FirstFit
  <2>2. g \in Grant /\ ~Aligned(g)
    BY <1>1, <2>1 DEF Grant, Aligned
  <2>3. granted' = granted \cup {g}
    BY <1>4 DEF HandOut
  <2>. HIDE DEF g
  <2>. QED
    BY <1>2, <2>1, <2>2, <2>3 DEF TypeOK, GrantsStep
<1>. QED
  BY <1>3, <1>4 DEF AllocateMemory

LEMMA AlignedAllocTypes ==
    ASSUME TypeOK, NEW alignment \in Alignments, NEW size \in Sizes,
           AlignedAlloc(alignment, size)
    PROVE  TypeOK' /\ GrantsStep
<1> DEFINE al == EffectiveAlignment(alignment)
           padded == Padded(al, size)
<1>1. /\ size \in Nat \ {0} /\ PtrSize \in Nat \ {0}
      /\ al \in Nat \ {0}
  BY SizeAssumption DEF EffectiveAlignment
<1>2. padded \in Nat
  BY <1>1 DEF Padded
<1>3. UNCHANGED <<entry, inits, free_blocks, used_blocks, used_memory_blocks,
                  total_memory>>
  BY DEF AlignedAlloc
<1>4. CASE UNCHANGED <<free_memory_blocks, granted, saved>>
  BY <1>3, <1>4 DEF TypeOK, GrantsStep
<1>5. ASSUME NEW k \in Slots, FirstFit(k, padded), Carve(k, padded),
             HandOut([address |-> free_memory_blocks[k].address, size |-> padded,
                      ptr |-> AlignedAddress(free_memory_blocks[k].address, al),
                      use |-> size, alignment |-> al, freed |-> FALSE]),
             Store(AlignedAddress(free_memory_blocks[k].address, al) - PtrSize,
                   free_memory_blocks[k].address)
      PROVE  TypeOK' /\ GrantsStep
  <2> DEFINE a == free_memory_blocks[k].address
             p == AlignedAddress(a, al)
             g == [address |-> a, size |-> padded, ptr |-> p, use |-> size,
                   alignment |-> al, freed |-> FALSE]
  <2>. HIDE DEF al, padded
  <2>1. free_memory_blocks' \in [Slots -> Block] /\ a \in Nat
    BY <1>2, <1>5, CarveTypes DEF FirstFit
  <2>2. /\ p \in Nat /\ a + PtrSize <= p
        /\ p % al = 0
    BY <1>1, <2>1, AlignedAddressBounds, AlignedAddressIsMultiple
  <2>3. g \in Grant /\ (Aligned(g) => g.ptr % g.alignment = 0)
    <3>. HIDE DEF p
    <3>. QED
      BY <1>1, <1>2, <2>1, <2>2 DEF Grant
  <2>4. granted' = granted \cup {g}
    BY <1>5 DEF HandOut
  <2>5. saved' \subseteq StoredPointer
    <3>1. [at |-> p - PtrSize, value |-> a] \in StoredPointer
      <4>. HIDE DEF p, a
      <4>. QED
        BY <1>1, <2>1, <2>2 DEF StoredPointer
    <3>. QED
      BY <1>5, <3>1 DEF TypeOK, Store
  <2>. HIDE DEF g, p
  <2>6. TypeOK'
    BY <1>3, <2>1, <2>3, <2>4, <2>5 DEF TypeOK
  <2>7. GrantsStep
    BY <2>3, <2>4 DEF GrantsStep
  <2>. QED
    BY <2>6, <2>7
<1>. QED
  BY <1>4, <1>5 DEF AlignedAlloc

\* The caller's part of a free: the block is marked, whatever free_memory did.
LEMMA FreedByCallerTypes ==
    ASSUME TypeOK, NEW g \in granted, NEW address \in Nat,
           FreeMemory(address), MarkFreed(g)
    PROVE  TypeOK' /\ GrantsStep
<1>1. g \in Grant /\ [g EXCEPT !.freed = TRUE] \in Grant
  BY DEF TypeOK, Grant
<1>2. granted' \subseteq Grant /\ GrantsStep
  BY <1>1 DEF TypeOK, MarkFreed, GrantsStep
<1>. QED
  BY <1>2, FreeMemoryTypes DEF TypeOK

\* Every step keeps the types, and changes the blocks handed out in one of
\* the three ways.
LEMMA StepTypes ==
    ASSUME TypeOK, [Next]_vars
    PROVE  TypeOK' /\ GrantsStep
<1>1. CASE BeginInit
  BY <1>1, MemMapAssumption, SizeAssumption
     DEF BeginInit, TypeOK, GrantsStep, lists, IsMemoryMap
<1>2. CASE InitEntry
  <2>1. entry \in 1 .. Len(MemMap)
    BY <1>2 DEF InitEntry, TypeOK
  <2>2. MemMap[entry] \in MapEntry /\ Region(MemMap[entry]) \in Block
    BY <2>1, RegionInEntry
  <2>3. total_memory' \in Nat
    BY <1>2, <2>2 DEF InitEntry, TypeOK, MapEntry
  <2>4. entry' \in 1 .. Len(MemMap) + 1
    BY <1>2, <2>1 DEF InitEntry
  <2>5. /\ free_blocks' \in 0 .. NUM_BLOCKS
        /\ used_blocks' \in 0 .. NUM_BLOCKS
    BY <1>2, SizeAssumption DEF InitEntry, TypeOK
  <2>6. /\ free_memory_blocks' \in [Slots -> Block]
        /\ used_memory_blocks' \in [Slots -> Block]
    BY <1>2, <2>2 DEF InitEntry, TypeOK
  <2>. QED
    BY <1>2, <2>3, <2>4, <2>5, <2>6 DEF InitEntry, TypeOK, GrantsStep
<1>3. ASSUME NEW size \in Sizes, AllocateMemory(size)
      PROVE  TypeOK' /\ GrantsStep
  BY <1>3, AllocateMemoryTypes
<1>4. ASSUME NEW alignment \in Alignments, NEW size \in Sizes,
             AlignedAlloc(alignment, size)
      PROVE  TypeOK' /\ GrantsStep
  BY <1>4, AlignedAllocTypes
<1>5. ASSUME NEW g \in granted, FreeGrant(g)
      PROVE  TypeOK' /\ GrantsStep
  <2>1. g.ptr \in Nat
    BY DEF TypeOK, Grant
  <2>. QED
    BY <1>5, <2>1, FreedByCallerTypes DEF FreeGrant
<1>6. ASSUME NEW g \in granted, AlignedFree(g)
      PROVE  TypeOK' /\ GrantsStep
  <2>1. PICK address : address \in Nat /\ FreeMemory(address)
    <3>1. \A w \in saved : w.value \in Nat
      BY DEF TypeOK, StoredPointer
    <3>2. \A k \in UsedSlots : used_memory_blocks[k].address \in Nat
      BY SizeAssumption DEF TypeOK, Block, UsedSlots, Slots
    <3>. QED
      BY <1>6, <3>1, <3>2 DEF AlignedFree
  <2>. QED
    BY <1>6, <2>1, FreedByCallerTypes DEF AlignedFree
<1>7. ASSUME NEW g \in granted, ClientWrite(g)
      PROVE  TypeOK' /\ GrantsStep
  <2>1. saved' \subseteq saved
    BY <1>7 DEF ClientWrite
  <2>. QED
    BY <1>7, <2>1 DEF ClientWrite, TypeOK, GrantsStep, lists
<1>8. ASSUME NEW address \in Reclaimable, Reclaim(address)
      PROVE  TypeOK' /\ GrantsStep
  <2>1. address \in Nat
    BY SizeAssumption
  <2>. QED
    BY <1>8, <2>1, FreeMemoryTypes DEF Reclaim, TypeOK, GrantsStep
<1>9. CASE UNCHANGED vars
  BY <1>9 DEF vars, TypeOK, GrantsStep
<1>. QED
  BY <1>1, <1>2, <1>3, <1>4, <1>5, <1>6, <1>7, <1>8, <1>9 DEF Next

LEMMA InitTypes ==
    ASSUME Init
    PROVE  TypeOK /\ PointersAligned
BY MemMapAssumption, SizeAssumption
   DEF Init, TypeOK, PointersAligned, IsMemoryMap, Empty, Block, Slots

LEMMA PointersStayAligned ==
    ASSUME TypeOK, PointersAligned, [Next]_vars
    PROVE  PointersAligned'
<1>1. GrantsStep
  BY StepTypes
<1>2. CASE granted' = granted
  BY <1>2 DEF PointersAligned
<1>3. ASSUME NEW g \in Grant, granted' = granted \cup {g},
             Aligned(g) => g.ptr % g.alignment = 0
      PROVE  PointersAligned'
  BY <1>3 DEF PointersAligned
<1>4. ASSUME NEW g \in granted,
             granted' = (granted \ {g}) \cup {[g EXCEPT !.freed = TRUE]}
      PROVE  PointersAligned'
  <2> DEFINE h == [g EXCEPT !.freed = TRUE]
  <2>1. h.ptr = g.ptr /\ h.alignment = g.alignment
    BY DEF TypeOK, Grant
  <2>2. Aligned(h) => h.ptr % h.alignment = 0
    BY <2>1 DEF PointersAligned, Aligned
  <2>3. granted' \subseteq granted \cup {h}
    BY <1>4
  <2>. HIDE DEF h
  <2>4. \A f \in granted' : Aligned(f) => f.ptr % f.alignment = 0
    BY <2>2, <2>3 DEF PointersAligned
  <2>. QED
    BY <2>4 DEF PointersAligned, Aligned
<1>. QED
  BY <1>1, <1>2, <1>3, <1>4 DEF GrantsStep

\* The counters of pmm.c stay within its arrays and every slot holds a block.
THEOREM PmmTypeOK == Spec => []TypeOK
<1>1. Init => TypeOK
  BY InitTypes
<1>2. TypeOK /\ [Next]_vars => TypeOK'
  BY StepTypes
<1>. QED
  BY <1>1, <1>2, PTL DEF Spec

\* Whatever is freed, aligned_alloc only returns pointers that are multiples
\* of the alignment it was asked for.
THEOREM PmmPointersAligned == Spec => []PointersAligned
<1>1. Init => TypeOK /\ PointersAligned
  BY InitTypes
<1>2. TypeOK /\ PointersAligned /\ [Next]_vars => (TypeOK /\ PointersAligned)'
  BY StepTypes, PointersStayAligned
<1>. QED
  BY <1>1, <1>2, PTL DEF Spec

-----------------------------------------------------------------------------
(* Sums over finite sets.                                                  *)

\* What holds of a set whenever it holds of the set without any one element
\* holds of every finite set.
LEMMA SubsetInduction ==
    ASSUME NEW S, IsFiniteSet(S), NEW Good,
           \A T \in SUBSET S : (\A x \in T : T \ {x} \in Good) => T \in Good
    PROVE  \A T \in SUBSET S : T \in Good
<1> DEFINE Bad == {T \in SUBSET S : T \notin Good}
<1>1. SUFFICES ASSUME Bad # {} PROVE FALSE
  OBVIOUS
<1>2. \A T \in SUBSET S : IsFiniteSet(T)
  BY FS_Subset
<1>3. Bad \subseteq FiniteSubsetsOf(S)
  BY <1>2 DEF FiniteSubsetsOf
<1>4. PICK T \in Bad : \A U \in Bad : ~ (<<U, T>> \in StrictSubsetOrdering(S))
  <2>. HIDE DEF Bad
  <2>. QED
    BY <1>1, <1>3, FS_StrictSubsetOrderingWellFounded, WFMin
<1>5. ASSUME NEW x \in T PROVE T \ {x} \in Good
  <2>1. <<T \ {x}, T>> \in StrictSubsetOrdering(S)
    BY DEF StrictSubsetOrdering
  <2>. QED
    BY <1>4, <2>1
<1>. QED
  BY <1>5

\* The sum over a set from the sums g over its subsets.
SumStep(w, g, T) ==
    IF T = {} THEN 0 ELSE w[CHOOSE x \in T : TRUE] + g[T \ {CHOOSE x \in T : TRUE}]

SolvesSum(w, g, S) == g = [T \in SUBSET S |-> SumStep(w, g, T)]

LEMMA SumUnfolds ==
    ASSUME NEW w
    PROVE  Total(w) = (CHOOSE g : SolvesSum(w, g, DOMAIN w))[DOMAIN w]
BY Zenon DEF Total, MapThenSumSet, MapThenFoldSet, SolvesSum, SumStep

LEMMA LeastNumber ==
    ASSUME NEW N \in SUBSET Nat, N # {}
    PROVE  \E i \in N : \A j \in N : i <= j
<1> DEFINE R == OpToRel(<, Nat)
<1>1. IsWellFoundedOn(R, Nat)
  BY NatLessThanWellFounded
<1>. HIDE DEF R
<1>2. PICK i \in N : \A j \in N : ~ (<<j, i>> \in R)
  BY <1>1, WFMin
<1>3. \A j \in N : ~ (j < i)
  BY <1>2 DEF R, OpToRel
<1>. QED
  BY <1>3

\* There are such sums: those over sets of n elements follow from those over
\* smaller ones.
LEMMA SumExists ==
    ASSUME NEW S, IsFiniteSet(S), NEW w
    PROVE  \E g : SolvesSum(w, g, S)
<1> DEFINE D(n) == {T \in SUBSET S : Cardinality(T) <= n}
           Bad == {n \in Nat : ~ \E g : g = [T \in D(n) |-> SumStep(w, g, T)]}
<1>1. \A T \in SUBSET S : Cardinality(T) \in Nat /\ Cardinality(T) <= Cardinality(S)
  BY FS_Subset, FS_CardinalityType
<1>2. Bad = {}
  <2>1. SUFFICES ASSUME Bad # {} PROVE FALSE
    OBVIOUS
  <2>2. PICK n \in Bad : \A j \in Bad : n <= j
    <3>1. Bad \subseteq Nat
      OBVIOUS
    <3>. HIDE DEF Bad
    <3>. QED
      BY <2>1, <3>1, LeastNumber
  <2>3. n # 0
    <3>1. SUFFICES ASSUME n = 0 PROVE FALSE
      OBVIOUS
    <3> DEFINE g == [T \in D(0) |-> 0]
    <3>2. \A T \in D(0) : T = {}
      BY <1>1, FS_EmptySet, FS_Subset
    <3>3. \A T \in D(0) : SumStep(w, g, T) = 0
      BY <3>2 DEF SumStep
    <3>4. g = [T \in D(0) |-> SumStep(w, g, T)]
      BY <3>3
    <3>. QED
      BY <3>1, <3>4
  <2>4. PICK g : g = [T \in D(n - 1) |-> SumStep(w, g, T)]
    <3>1. n \in Nat
      BY <2>2
    <3>2. n - 1 \in Nat /\ ~ (n <= n - 1)
      BY <2>3, <3>1
    <3>3. n - 1 \notin Bad
      <4>. HIDE DEF Bad
      <4>. QED
        BY <2>2, <3>2
    <3>. QED
      BY <3>2, <3>3
  <2> DEFINE f == [T \in D(n) |-> IF T \in D(n - 1) THEN g[T] ELSE SumStep(w, g, T)]
  <2>5. ASSUME NEW T \in D(n) PROVE f[T] = SumStep(w, f, T)
    <3> DEFINE x == CHOOSE y \in T : TRUE
               U == T \ {x}
    <3>1. T # {} => x \in T /\ U \in D(n - 1) /\ U \in D(n)
      <4>1. SUFFICES ASSUME T # {} PROVE x \in T /\ U \in D(n - 1) /\ U \in D(n)
        OBVIOUS
      <4>2. x \in T
        BY <4>1
      <4>3. IsFiniteSet(T)
        BY FS_Subset
      <4>4. Cardinality(U) = Cardinality(T) - 1
        BY <4>2, <4>3, FS_RemoveElement
      <4>5. Cardinality(T) \in Nat /\ Cardinality(T) <= n /\ n \in Nat
        BY <1>1
      <4>6. Cardinality(U) <= n - 1 /\ Cardinality(U) <= n
        BY <4>4, <4>5
      <4>. QED
        BY <4>2, <4>6
    <3>2. T # {} => f[U] = g[U]
      BY <3>1
    <3>3. SumStep(w, f, T) = SumStep(w, g, T)
      BY <3>2 DEF SumStep
    <3>4. T \in D(n - 1) => g[T] = SumStep(w, g, T)
      <4>. HIDE DEF D
      <4>. QED
        BY <2>4
    <3>. QED
      BY <3>3, <3>4
  <2>6. f = [T \in D(n) |-> f[T]]
    OBVIOUS
  <2>7. f = [T \in D(n) |-> SumStep(w, f, T)]
    <3>. HIDE DEF f
    <3>. QED
      BY <2>5, <2>6
  <2>. QED
    BY <2>2, <2>7
<1>3. D(Cardinality(S)) = SUBSET S /\ Cardinality(S) \in Nat
  BY <1>1
<1>4. PICK g : g = [T \in D(Cardinality(S)) |-> SumStep(w, g, T)]
  BY <1>2, <1>3
<1>. QED
  BY <1>3, <1>4 DEF SolvesSum

\* The sums over subsets of one set of numbers.
LEMMA SumFacts ==
    ASSUME NEW S, IsFiniteSet(S), NEW w, \A x \in S : w[x] \in Nat,
           NEW g, SolvesSum(w, g, S)
    PROVE  /\ g[{}] = 0
           /\ \A T \in SUBSET S : g[T] \in Nat
           /\ \A T \in SUBSET S : \A x \in T : g[T] = w[x] + g[T \ {x}]
<1>1. \A T \in SUBSET S : g[T] = SumStep(w, g, T)
  BY DEF SolvesSum
<1>2. g[{}] = 0
  BY <1>1 DEF SumStep
<1>3. \A T \in SUBSET S : T # {} =>
         \E c \in T : g[T] = w[c] + g[T \ {c}]
  BY <1>1 DEF SumStep
<1>4. \A T \in SUBSET S : g[T] \in Nat
  <2> DEFINE Good == {T \in SUBSET S : g[T] \in Nat}
  <2>1. ASSUME NEW T \in SUBSET S, \A x \in T : T \ {x} \in Good PROVE T \in Good
    <3>1. CASE T # {}
      <4>1. PICK c \in T : g[T] = w[c] + g[T \ {c}]
        BY <1>3, <3>1
      <4>2. w[c] \in Nat /\ g[T \ {c}] \in Nat
        BY <2>1
      <4>. QED
        BY <4>1, <4>2
    <3>. QED
      BY <1>2, <3>1
  <2>. HIDE DEF Good
  <2>2. \A T \in SUBSET S : T \in Good
    BY <2>1, SubsetInduction
  <2>. QED
    BY <2>2 DEF Good
<1>5. \A T \in SUBSET S : \A x \in T : g[T] = w[x] + g[T \ {x}]
  <2> DEFINE Good == {T \in SUBSET S : \A x \in T : g[T] = w[x] + g[T \ {x}]}
  <2>1. ASSUME NEW T \in SUBSET S, \A x \in T : T \ {x} \in Good PROVE T \in Good
    <3>1. SUFFICES ASSUME NEW x \in T PROVE g[T] = w[x] + g[T \ {x}]
      OBVIOUS
    <3>2. PICK c \in T : g[T] = w[c] + g[T \ {c}]
      BY <1>3
    <3>3. CASE c # x
      <4>1. g[T \ {c}] = w[x] + g[(T \ {c}) \ {x}]
        BY <2>1, <3>3
      <4>2. g[T \ {x}] = w[c] + g[(T \ {x}) \ {c}]
        BY <2>1, <3>3
      <4>3. (T \ {c}) \ {x} = (T \ {x}) \ {c}
        OBVIOUS
      <4> DEFINE r == g[(T \ {x}) \ {c}]
      <4>4. r \in Nat /\ w[x] \in Nat /\ w[c] \in Nat
        BY <1>4
      <4>5. g[T] = w[c] + (w[x] + r) /\ g[T \ {x}] = w[c] + r
        BY <3>2, <4>1, <4>2, <4>3
      <4>. HIDE DEF r
      <4>. QED
        BY <4>4, <4>5
    <3>. QED
      BY <3>2, <3>3
  <2>. HIDE DEF Good
  <2>2. \A T \in SUBSET S : T \in Good
    BY <2>1, SubsetInduction
  <2>. QED
    BY <2>2 DEF Good
<1>. QED
  BY <1>2, <1>4, <1>5

\* The sum over a set does not depend on the set it is a part of.
LEMMA SumAgrees ==
    ASSUME NEW S, IsFiniteSet(S), NEW w, NEW g, SolvesSum(w, g, S),
           NEW U, IsFiniteSet(U), NEW v, NEW h, SolvesSum(v, h, U),
           \A x \in S : x \in U /\ v[x] = w[x]
    PROVE  g[S] = h[S]
<1> DEFINE Good == {T \in SUBSET S : g[T] = h[T]}
<1>1. ASSUME NEW T \in SUBSET S, \A x \in T : T \ {x} \in Good PROVE T \in Good
  <2>1. g[T] = SumStep(w, g, T) /\ h[T] = SumStep(v, h, T)
    BY DEF SolvesSum
  <2>. QED
    BY <1>1, <2>1 DEF SumStep
<1>. HIDE DEF Good
<1>2. \A T \in SUBSET S : T \in Good
  BY <1>1, SubsetInduction
<1>. QED
  BY <1>2 DEF Good

LEMMA TotalSolves ==
    ASSUME NEW w, IsFiniteSet(DOMAIN w)
    PROVE  \E g : SolvesSum(w, g, DOMAIN w) /\ Total(w) = g[DOMAIN w]
BY SumExists, SumUnfolds

LEMMA TotalType ==
    ASSUME NEW w, IsFiniteSet(DOMAIN w), \A x \in DOMAIN w : w[x] \in Nat
    PROVE  Total(w) \in Nat
BY TotalSolves, SumFacts

LEMMA TotalEmpty ==
    ASSUME NEW w, DOMAIN w = {}
    PROVE  Total(w) = 0
<1>1. IsFiniteSet(DOMAIN w)
  BY FS_EmptySet
<1>. QED
  BY <1>1, TotalSolves, SumFacts

\* One element more.
LEMMA TotalSplits ==
    ASSUME NEW w, IsFiniteSet(DOMAIN w), \A y \in DOMAIN w : w[y] \in Nat,
           NEW x \in DOMAIN w, NEW v, DOMAIN v = DOMAIN w \ {x},
           \A y \in DOMAIN v : v[y] = w[y]
    PROVE  Total(w) = w[x] + Total(v)
<1>1. IsFiniteSet(DOMAIN v)
  BY FS_Subset
<1>2. PICK g : SolvesSum(w, g, DOMAIN w) /\ Total(w) = g[DOMAIN w]
  BY TotalSolves
<1>3. PICK h : SolvesSum(v, h, DOMAIN v) /\ Total(v) = h[DOMAIN v]
  BY <1>1, TotalSolves
<1>4. h[DOMAIN v] = g[DOMAIN v]
  BY <1>1, <1>2, <1>3, SumAgrees
<1>5. g[DOMAIN w] = w[x] + g[DOMAIN w \ {x}]
  BY <1>2, SumFacts
<1>. QED
  BY <1>2, <1>3, <1>4, <1>5

LEMMA WithoutElement ==
    ASSUME NEW w, IsFiniteSet(DOMAIN w), \A y \in DOMAIN w : w[y] \in Nat, NEW x
    PROVE  Total([y \in DOMAIN w \ {x} |-> w[y]]) \in Nat
<1> DEFINE v == [y \in DOMAIN w \ {x} |-> w[y]]
<1>1. IsFiniteSet(DOMAIN v) /\ \A y \in DOMAIN v : v[y] \in Nat
  BY FS_Subset
<1>. HIDE DEF v
<1>2. Total(v) \in Nat
  BY <1>1, TotalType
<1>. QED
  BY <1>2 DEF v

\* One element changed.
LEMMA TotalReplaces ==
    ASSUME NEW w, IsFiniteSet(DOMAIN w), \A y \in DOMAIN w : w[y] \in Nat,
           NEW v, DOMAIN v = DOMAIN w, \A y \in DOMAIN v : v[y] \in Nat,
           NEW x \in DOMAIN w, \A y \in DOMAIN w : y # x => v[y] = w[y]
    PROVE  Total(v) + w[x] = Total(w) + v[x]
<1> DEFINE u == [y \in DOMAIN w \ {x} |-> w[y]]
<1>1. DOMAIN u = DOMAIN w \ {x} /\ \A y \in DOMAIN u : u[y] = w[y] /\ u[y] = v[y]
  OBVIOUS
<1>2. Total(u) \in Nat
  BY WithoutElement
<1>. HIDE DEF u
<1>3. Total(w) = w[x] + Total(u)
  BY <1>1, TotalSplits
<1>4. Total(v) = v[x] + Total(u)
  BY <1>1, TotalSplits
<1>5. w[x] \in Nat /\ v[x] \in Nat
  OBVIOUS
<1>. QED
  BY <1>2, <1>3, <1>4, <1>5

\* The sum over a part; over a part outside which there is nothing.
LEMMA SumGrows ==
    ASSUME NEW S, IsFiniteSet(S), NEW v, \A x \in S : v[x] \in Nat,
           NEW g, SolvesSum(v, g, S), NEW D \in SUBSET S
    PROVE  /\ g[D] <= g[S]
           /\ (\A y \in S \ D : v[y] = 0) => g[D] = g[S]
<1>1. /\ g[{}] = 0
      /\ \A T \in SUBSET S : g[T] \in Nat
      /\ \A T \in SUBSET S : \A x \in T : g[T] = v[x] + g[T \ {x}]
  BY SumFacts
<1> DEFINE Good == {T \in SUBSET S :
                      D \subseteq T => /\ g[D] <= g[T]
                                       /\ (\A y \in S \ D : v[y] = 0) => g[D] = g[T]}
<1>2. ASSUME NEW T \in SUBSET S, \A x \in T : T \ {x} \in Good PROVE T \in Good
  <2>1. CASE T = D
    BY <1>1, <2>1
  <2>2. CASE D \subseteq T /\ T # D
    <3>1. PICK x \in T : x \notin D
      BY <2>2
    <3>2. T \ {x} \in Good /\ D \subseteq T \ {x}
      BY <1>2, <2>2, <3>1
    <3>3. g[D] <= g[T \ {x}] /\ ((\A y \in S \ D : v[y] = 0) => g[D] = g[T \ {x}])
      BY <3>2
    <3>4. g[T] = v[x] + g[T \ {x}] /\ v[x] \in Nat /\ x \in S \ D
      BY <1>1, <3>1
    <3>5. g[D] \in Nat /\ g[T \ {x}] \in Nat
      BY <1>1
    <3>6. g[D] <= g[T]
      BY <3>3, <3>4, <3>5
    <3>7. (\A y \in S \ D : v[y] = 0) => g[D] = g[T]
      BY <3>3, <3>4, <3>5
    <3>. QED
      BY <3>6, <3>7
  <2>3. CASE ~ (D \subseteq T)
    BY <2>3
  <2>. QED
    BY <2>1, <2>2, <2>3
<1>. HIDE DEF Good
<1>3. \A T \in SUBSET S : T \in Good
  BY <1>2, SubsetInduction
<1>4. S \in Good
  BY <1>3
<1>. QED
  BY <1>4 DEF Good

LEMMA TotalGrows ==
    ASSUME NEW v, IsFiniteSet(DOMAIN v), \A y \in DOMAIN v : v[y] \in Nat,
           NEW w, DOMAIN w \subseteq DOMAIN v, \A y \in DOMAIN w : w[y] = v[y]
    PROVE  /\ Total(w) <= Total(v)
           /\ (\A y \in DOMAIN v \ DOMAIN w : v[y] = 0) => Total(w) = Total(v)
<1>1. IsFiniteSet(DOMAIN w)
  BY FS_Subset
<1>2. PICK g : SolvesSum(v, g, DOMAIN v) /\ Total(v) = g[DOMAIN v]
  BY TotalSolves
<1>3. PICK h : SolvesSum(w, h, DOMAIN w) /\ Total(w) = h[DOMAIN w]
  BY <1>1, TotalSolves
<1>4. h[DOMAIN w] = g[DOMAIN w]
  BY <1>1, <1>2, <1>3, SumAgrees
<1>5. /\ g[DOMAIN w] <= g[DOMAIN v]
      /\ (\A y \in DOMAIN v \ DOMAIN w : v[y] = 0) => g[DOMAIN w] = g[DOMAIN v]
  BY <1>2, SumGrows
<1>. QED
  BY <1>2, <1>3, <1>4, <1>5

-----------------------------------------------------------------------------
(* The bytes of slots, of blocks handed out and of entries.                *)

SlotBytes(blocks) == Total([k \in Slots |-> blocks[k].size])
BytesOf(grants) == Total([g \in grants |-> g.size])

LEMMA SlotsFinite == IsFiniteSet(Slots)
BY FS_Interval, SizeAssumption DEF Slots

LEMMA SlotBytesType ==
    ASSUME NEW blocks \in [Slots -> Block]
    PROVE  SlotBytes(blocks) \in Nat
<1> DEFINE w == [k \in Slots |-> blocks[k].size]
<1>1. IsFiniteSet(DOMAIN w) /\ \A k \in DOMAIN w : w[k] \in Nat
  BY SlotsFinite DEF Block
<1>. HIDE DEF w
<1>2. Total(w) \in Nat
  BY <1>1, TotalType
<1>. QED
  BY <1>2 DEF w, SlotBytes

\* One slot changed.
LEMMA SlotBytesChange ==
    ASSUME NEW blocks \in [Slots -> Block], NEW changed \in [Slots -> Block],
           NEW k \in Slots, \A j \in Slots : j # k => changed[j].size = blocks[j].size
    PROVE  SlotBytes(changed) + blocks[k].size = SlotBytes(blocks) + changed[k].size
<1> DEFINE w == [j \in Slots |-> blocks[j].size]
           v == [j \in Slots |-> changed[j].size]
<1>1. /\ IsFiniteSet(DOMAIN w) /\ DOMAIN v = DOMAIN w /\ k \in DOMAIN w
      /\ \A j \in DOMAIN w : w[j] \in Nat
      /\ \A j \in DOMAIN v : v[j] \in Nat
      /\ \A j \in DOMAIN w : j # k => v[j] = w[j]
      /\ w[k] = blocks[k].size /\ v[k] = changed[k].size
  BY SlotsFinite DEF Block
<1>. HIDE DEF w, v
<1>2. Total(v) + w[k] = Total(w) + v[k]
  BY <1>1, TotalReplaces
<1>. QED
  BY <1>1, <1>2 DEF w, v, SlotBytes

\* The free list has the bytes of all slots, if the others are empty.
LEMMA FreeBytesOfSlots ==
    ASSUME TypeOK
    PROVE  /\ FreeBytes <= SlotBytes(free_memory_blocks)
           /\ (\A k \in Slots \ FreeSlots : free_memory_blocks[k].size = 0)
                => FreeBytes = SlotBytes(free_memory_blocks)
<1> DEFINE v == [k \in Slots |-> free_memory_blocks[k].size]
           w == [k \in FreeSlots |-> free_memory_blocks[k].size]
<1>1. FreeSlots \subseteq Slots
  BY SizeAssumption DEF TypeOK, FreeSlots, Slots
<1>2. /\ IsFiniteSet(DOMAIN v) /\ DOMAIN v = Slots /\ DOMAIN w = FreeSlots
      /\ \A k \in DOMAIN v : v[k] \in Nat
      /\ \A k \in DOMAIN w : w[k] = v[k]
      /\ \A k \in Slots \ FreeSlots : v[k] = free_memory_blocks[k].size
  BY <1>1, SlotsFinite DEF TypeOK, Block
<1>. HIDE DEF w, v
<1>3. /\ Total(w) <= Total(v)
      /\ (\A k \in DOMAIN v \ DOMAIN w : v[k] = 0) => Total(w) = Total(v)
  BY <1>1, <1>2, TotalGrows
<1>4. FreeBytes = Total(w) /\ SlotBytes(free_memory_blocks) = Total(v)
  BY DEF w, v, FreeBytes, SlotBytes
<1>. QED
  BY <1>2, <1>3, <1>4

\* One block handed out more.
LEMMA BytesOfAdded ==
    ASSUME NEW grants \in SUBSET Grant, IsFiniteSet(grants), NEW g \in Grant
    PROVE  /\ IsFiniteSet(grants \cup {g}) /\ BytesOf(grants) \in Nat
           /\ g \notin grants => BytesOf(grants \cup {g}) = BytesOf(grants) + g.size
<1> DEFINE w == [h \in grants \cup {g} |-> h.size]
           v == [h \in grants |-> h.size]
<1>1. IsFiniteSet(grants \cup {g})
  BY FS_AddElement
<1>2. /\ IsFiniteSet(DOMAIN w) /\ IsFiniteSet(DOMAIN v) /\ g \in DOMAIN w /\ w[g] = g.size
      /\ \A h \in DOMAIN w : w[h] \in Nat
      /\ \A h \in DOMAIN v : v[h] \in Nat
      /\ \A h \in DOMAIN v : v[h] = w[h]
      /\ g \notin grants => DOMAIN v = DOMAIN w \ {g}
  BY <1>1 DEF Grant
<1>. HIDE DEF w, v
<1>3. Total(v) \in Nat
  BY <1>2, TotalType
<1>4. g \notin grants => Total(w) = w[g] + Total(v)
  BY <1>2, TotalSplits
<1>5. g.size \in Nat
  BY DEF Grant
<1>. QED
  BY <1>1, <1>2, <1>3, <1>4, <1>5 DEF w, v, BytesOf

\* One block given back: its bytes stay counted, unless the block it becomes
\* is there already.
LEMMA BytesOfMarked ==
    ASSUME NEW grants \in SUBSET Grant, IsFiniteSet(grants), NEW g \in grants,
           NEW h \in Grant, h.size = g.size
    PROVE  LET marked == (grants \ {g}) \cup {h}
           IN  /\ IsFiniteSet(marked)
               /\ BytesOf(marked) <= BytesOf(grants)
               /\ h \notin grants \ {g} => BytesOf(marked) = BytesOf(grants)
<1> DEFINE rest == grants \ {g}
<1>1. rest \in SUBSET Grant /\ IsFiniteSet(rest) /\ g \notin rest /\ grants = rest \cup {g}
      /\ g \in Grant
  BY FS_Subset
<1>2. h.size \in Nat
  BY DEF Grant
<1>. HIDE DEF rest
<1>3. BytesOf(grants) = BytesOf(rest) + g.size /\ BytesOf(rest) \in Nat
  BY <1>1, BytesOfAdded
<1>4. /\ IsFiniteSet(rest \cup {h})
      /\ h \notin rest => BytesOf(rest \cup {h}) = BytesOf(rest) + h.size
  BY <1>1, BytesOfAdded
<1>5. h \in rest => rest \cup {h} = rest
  OBVIOUS
<1>6. IsFiniteSet(rest \cup {h}) /\ BytesOf(rest \cup {h}) <= BytesOf(grants)
      /\ (h \notin rest => BytesOf(rest \cup {h}) = BytesOf(grants))
  <2> DEFINE x == BytesOf(rest)
             y == BytesOf(rest \cup {h})
  <2>1. CASE h \in rest
    <3>1. y = x
      BY <1>5, <2>1
    <3>2. x \in Nat /\ BytesOf(grants) = x + h.size
      BY <1>3
    <3>. HIDE DEF x
    <3>3. x <= BytesOf(grants)
      BY <1>2, <3>2
    <3>. QED
      BY <1>4, <2>1, <3>1, <3>3
  <2>2. CASE h \notin rest
    <3>1. y = x + h.size /\ x \in Nat /\ BytesOf(grants) = x + h.size
      BY <1>3, <1>4, <2>2
    <3>. HIDE DEF x
    <3>2. y = BytesOf(grants) /\ y <= BytesOf(grants)
      <4>. HIDE DEF y
      <4>. QED
        BY <1>2, <3>1
    <3>. QED
      BY <1>4, <3>2
  <2>. QED
    BY <2>1, <2>2
<1>. QED
  BY <1>6 DEF rest

LEMMA RegionBytesFacts ==
    ASSUME NEW E \in SUBSET (1 .. Len(MemMap)), NEW F \in SUBSET E
    PROVE  /\ RegionBytes(E) \in Nat /\ RegionBytes(F) \in Nat
           /\ RegionBytes(F) <= RegionBytes(E)
           /\ \A i \in E : F = E \ {i} => RegionBytes(E) = RegionBytes(F) + Region(MemMap[i]).size
<1> DEFINE v == [i \in E |-> Region(MemMap[i]).size]
           w == [i \in F |-> Region(MemMap[i]).size]
<1>1. IsFiniteSet(E) /\ IsFiniteSet(F)
  <2>1. Len(MemMap) \in Nat
    BY MemMapAssumption DEF IsMemoryMap
  <2>2. IsFiniteSet(1 .. Len(MemMap))
    BY <2>1, FS_Interval
  <2>. QED
    BY <2>2, FS_Subset
<1>2. \A i \in E : Region(MemMap[i]).size \in Nat
  BY RegionInEntry DEF Block
<1>3. /\ IsFiniteSet(DOMAIN v) /\ IsFiniteSet(DOMAIN w)
      /\ DOMAIN v = E /\ DOMAIN w = F
      /\ \A i \in DOMAIN v : v[i] \in Nat
      /\ \A i \in DOMAIN w : w[i] \in Nat
      /\ \A i \in DOMAIN w : w[i] = v[i]
      /\ \A i \in E : v[i] = Region(MemMap[i]).size
  BY <1>1, <1>2
<1>. HIDE DEF v, w
<1>4. Total(v) \in Nat /\ Total(w) \in Nat
  BY <1>3, TotalType
<1>5. Total(w) <= Total(v)
  BY <1>3, TotalGrows
<1>6. ASSUME NEW i \in E, F = E \ {i} PROVE Total(v) = v[i] + Total(w)
  <2>1. /\ i \in DOMAIN v /\ DOMAIN w = DOMAIN v \ {i}
        /\ \A j \in DOMAIN w : w[j] = v[j]
    BY <1>3, <1>6
  <2>. QED
    BY <1>3, <2>1, TotalSplits
<1>7. \A i \in E : F = E \ {i} => Total(v) = Total(w) + Region(MemMap[i]).size
  BY <1>2, <1>3, <1>4, <1>6
<1>. QED
  BY <1>4, <1>5, <1>7 DEF v, w, RegionBytes
-----------------------------------------------------------------------------
(* What the actions do to the bytes of the free slots.                     *)

LEMMA FreeSlotsAreSlots ==
    ASSUME TypeOK
    PROVE  FreeSlots \subseteq Slots /\ free_blocks \notin FreeSlots
BY SizeAssumption DEF TypeOK, FreeSlots, Slots

\* The bytes of a request leave the slot it is cut from, and no other.
LEMMA CarveBytes ==
    ASSUME TypeOK, NEW k \in Slots, NEW size \in Nat, Fits(k, size), Carve(k, size)
    PROVE  /\ SlotBytes(free_memory_blocks') + size = SlotBytes(free_memory_blocks)
           /\ \A j \in Slots : j # k => free_memory_blocks'[j] = free_memory_blocks[j]
<1>1. free_memory_blocks \in [Slots -> Block] /\ free_memory_blocks' \in [Slots -> Block]
  BY CarveTypes DEF TypeOK
<1>2. \A j \in Slots : j # k => free_memory_blocks'[j] = free_memory_blocks[j]
  BY <1>1 DEF Carve
<1>3. free_memory_blocks[k].size \in Nat /\ size <= free_memory_blocks[k].size
  BY <1>1 DEF Fits, Block
<1>4. free_memory_blocks'[k].size = free_memory_blocks[k].size - size
  BY <1>1 DEF Carve
<1>5. /\ SlotBytes(free_memory_blocks) \in Nat /\ SlotBytes(free_memory_blocks') \in Nat
      /\ SlotBytes(free_memory_blocks') + free_memory_blocks[k].size
           = SlotBytes(free_memory_blocks) + free_memory_blocks'[k].size
  BY <1>1, <1>2, SlotBytesType, SlotBytesChange
<1>6. SlotBytes(free_memory_blocks') + size = SlotBytes(free_memory_blocks)
  BY <1>3, <1>4, <1>5
<1>. QED
  BY <1>2, <1>6

\* What allocate_memory and aligned_alloc do: nothing, or the bytes of one
\* more block leave a free slot.
AllocationStep ==
    /\ UNCHANGED <<entry, inits, free_blocks, used_blocks, used_memory_blocks>>
    /\ \/ UNCHANGED <<free_memory_blocks, granted>>
       \/ \E g \in Grant, k \in FreeSlots :
             /\ g.size > 0
             /\ granted' = granted \cup {g}
             /\ g.address = free_memory_blocks[k].address
             /\ g.size <= free_memory_blocks[k].size
             /\ SlotBytes(free_memory_blocks') + g.size = SlotBytes(free_memory_blocks)
             /\ \A j \in Slots : j # k => free_memory_blocks'[j] = free_memory_blocks[j]

LEMMA AllocateMemoryBytes ==
    ASSUME TypeOK, NEW size \in Sizes, AllocateMemory(size)
    PROVE  AllocationStep
<1>1. size \in Nat /\ size > 0
  BY SizeAssumption
<1>2. UNCHANGED <<entry, inits, free_blocks, used_blocks, used_memory_blocks>>
  BY DEF AllocateMemory
<1>3. CASE UNCHANGED <<free_memory_blocks, granted>>
  BY <1>2, <1>3 DEF AllocationStep
<1>4. ASSUME NEW k \in Slots, FirstFit(k, size), Carve(k, size),
             HandOut([address |-> free_memory_blocks[k].address, size |-> size,
                      ptr |-> free_memory_blocks[k].address, use |-> size,
                      alignment |-> 0, freed |-> FALSE])
      PROVE  AllocationStep
  <2> DEFINE a == free_memory_blocks[k].address
             g == [address |-> a, size |-> size, ptr |-> a, use |-> size,
                   alignment |-> 0, freed |-> FALSE]
  <2>1. Fits(k, size) /\ k \in FreeSlots /\ size <= free_memory_blocks[k].size
    BY <1>1, <1>4 DEF FirstFit, Fits, TypeOK, Block
  <2>2. a \in Nat
    BY DEF TypeOK, Block
  <2>3. g \in Grant /\ g.address = a /\ g.size = size
    BY <1>1, <2>2 DEF Grant
  <2>4. granted' = granted \cup {g}
    BY <1>4 DEF HandOut
  <2>. HIDE DEF g
  <2>5. /\ SlotBytes(free_memory_blocks') + size = SlotBytes(free_memory_blocks)
        /\ \A j \in Slots : j # k => free_memory_blocks'[j] = free_memory_blocks[j]
    BY <1>1, <1>4, <2>1, CarveBytes
  <2>. QED
    BY <1>1, <1>2, <2>1, <2>3, <2>4, <2>5 DEF AllocationStep
<1>. QED
  BY <1>3, <1>4 DEF AllocateMemory

LEMMA AlignedAllocBytes ==
    ASSUME TypeOK, NEW alignment \in Alignments, NEW size \in Sizes,
           AlignedAlloc(alignment, size)
    PROVE  AllocationStep
<1> DEFINE al == EffectiveAlignment(alignment)
           padded == Padded(al, size)
<1>1. size \in Nat \ {0} /\ PtrSize \in Nat \ {0} /\ al \in Nat \ {0}
  BY SizeAssumption DEF EffectiveAlignment
<1>2. padded \in Nat /\ padded > 0
  BY <1>1 DEF Padded
<1>3. UNCHANGED <<entry, inits, free_blocks, used_blocks, used_memory_blocks>>
  BY DEF AlignedAlloc
<1>4. CASE UNCHANGED <<free_memory_blocks, granted, saved>>
  BY <1>3, <1>4 DEF AllocationStep
<1>5. ASSUME NEW k \in Slots, FirstFit(k, padded), Carve(k, padded),
             HandOut([address |-> free_memory_blocks[k].address, size |-> padded,
                      ptr |-> AlignedAddress(free_memory_blocks[k].address, al),
                      use |-> size, alignment |-> al, freed |-> FALSE])
      PROVE  AllocationStep
  <2> DEFINE a == free_memory_blocks[k].address
             p == AlignedAddress(a, al)
             g == [address |-> a, size |-> padded, ptr |-> p, use |-> size,
                   alignment |-> al, freed |-> FALSE]
  <2>. HIDE DEF al, padded
  <2>1. Fits(k, padded) /\ k \in FreeSlots /\ padded <= free_memory_blocks[k].size
    BY <1>2, <1>5 DEF FirstFit, Fits, TypeOK, Block
  <2>2. a \in Nat
    BY DEF TypeOK, Block
  <2>3. p \in Nat
    BY <1>1, <2>2, AlignedAddressBounds
  <2>4. g \in Grant /\ g.address = a /\ g.size = padded
    <3>. HIDE DEF p, a
    <3>. QED
      BY <1>1, <1>2, <2>2, <2>3 DEF Grant
  <2>5. granted' = granted \cup {g}
    BY <1>5 DEF HandOut
  <2>. HIDE DEF g
  <2>6. /\ SlotBytes(free_memory_blocks') + padded = SlotBytes(free_memory_blocks)
        /\ \A j \in Slots : j # k => free_memory_blocks'[j] = free_memory_blocks[j]
    BY <1>2, <1>5, <2>1, CarveBytes
  <2>. QED
    BY <1>2, <1>3, <2>1, <2>4, <2>5, <2>6 DEF AllocationStep
<1>. QED
  BY <1>4, <1>5 DEF AlignedAlloc

\* A freed block adds its size to one slot at most.
LEMMA FreedBytes ==
    ASSUME NEW blocks \in [Slots -> Block], NEW k, NEW size \in Nat, NEW address \in Nat,
           NEW changed,
           \/ changed = [blocks EXCEPT ![k].size = @ + size]
           \/ changed = [blocks EXCEPT ![k].address = address]
           \/ changed = [blocks EXCEPT ![k] = [address |-> address, size |-> size]]
    PROVE  SlotBytes(changed) <= SlotBytes(blocks) + size
<1>1. changed \in [Slots -> Block] /\ SlotBytes(blocks) \in Nat
  <2>1. /\ [blocks EXCEPT ![k].size = @ + size] \in [Slots -> Block]
        /\ [blocks EXCEPT ![k].address = address] \in [Slots -> Block]
        /\ [blocks EXCEPT ![k] = [address |-> address, size |-> size]] \in [Slots -> Block]
    BY SlotChanged
  <2>2. changed \in [Slots -> Block]
    BY <2>1
  <2>. QED
    BY <2>2, SlotBytesType
<1>2. CASE k \notin Slots
  <2>1. changed = blocks
    BY <1>2
  <2>. QED
    BY <1>1, <2>1
<1>3. CASE k \in Slots
  <2>1. \A j \in Slots : j # k => changed[j].size = blocks[j].size
    BY <1>3
  <2>2. /\ blocks[k].size \in Nat /\ changed[k].size \in Nat
        /\ changed[k].size <= blocks[k].size + size
    <3>1. blocks[k] \in Block /\ changed[k] \in Block
      BY <1>1, <1>3
    <3>2. \/ changed[k] = [blocks[k] EXCEPT !.size = @ + size]
          \/ changed[k] = [blocks[k] EXCEPT !.address = address]
          \/ changed[k] = [address |-> address, size |-> size]
      BY <1>3
    <3>. QED
      BY <3>1, <3>2 DEF Block
  <2>3. /\ SlotBytes(changed) \in Nat
        /\ SlotBytes(changed) + blocks[k].size = SlotBytes(blocks) + changed[k].size
    BY <1>1, <1>3, <2>1, SlotBytesType, SlotBytesChange
  <2>. QED
    BY <1>1, <2>2, <2>3
<1>. QED
  BY <1>2, <1>3

-----------------------------------------------------------------------------
(* The bytes of the map that init_blocks has put on the free list or that  *)
(* free_memory has taken from the used list.                               *)

Available ==
    {i \in 1 .. Len(MemMap) :
        Seen(i) /\ (MemMap[i].free \/ \A k \in Slots :
                       used_memory_blocks[k] # EntryBlock(MemMap[i]))}

\* free_memory puts on the free list at most what it takes from the used one.
LEMMA FreeMemoryBytes ==
    ASSUME TypeOK, UsedFromMap, NEW address \in Nat, FreeMemory(address)
    PROVE  /\ UsedFromMap'
           /\ SlotBytes(free_memory_blocks') + RegionBytes(Available)
                <= SlotBytes(free_memory_blocks) + RegionBytes(Available')
<1> DEFINE size == FindBlock(address, used_memory_blocks)
           E == Available
           F == Available'
<1>1. UNCHANGED <<entry, inits>>
  BY DEF FreeMemory
<1>2. E \in SUBSET (1 .. Len(MemMap)) /\ F \in SUBSET (1 .. Len(MemMap))
  BY DEF Available
<1>3. RegionBytes(E) \in Nat /\ RegionBytes(F) \in Nat
  BY <1>2, RegionBytesFacts
<1>4. SlotBytes(free_memory_blocks) \in Nat
  BY SlotBytesType DEF TypeOK
<1>5. CASE UNCHANGED <<free_blocks, free_memory_blocks, used_memory_blocks>>
  <2>1. F = E
    BY <1>1, <1>5 DEF Available, Seen
  <2>2. UsedFromMap'
    BY <1>1, <1>5 DEF UsedFromMap, Seen
  <2>3. free_memory_blocks' = free_memory_blocks
    BY <1>5
  <2>. HIDE DEF E, F
  <2>4. SlotBytes(free_memory_blocks') + RegionBytes(E)
          <= SlotBytes(free_memory_blocks) + RegionBytes(F)
    BY <1>3, <1>4, <2>1, <2>3
  <2>. QED
    BY <2>2, <2>4 DEF E, F
<1>6. CASE /\ size # 0
           /\ \/ MergeInFront(address, size)
              \/ MergeBehind(address, size)
              \/ InsertFreed(address, size)
           /\ used_memory_blocks' = RemoveBlock(address, used_memory_blocks)
  <2>1. PICK k \in Slots : used_memory_blocks[k].address = address
                           /\ used_memory_blocks[k].size = size
    <3>1. CASE \E n \in Slots : StartsFirst(n, address, used_memory_blocks)
      <4> DEFINE n == CHOOSE m \in Slots : StartsFirst(m, address, used_memory_blocks)
      <4>1. n \in Slots /\ StartsFirst(n, address, used_memory_blocks)
        BY <3>1
      <4>2. size = used_memory_blocks[n].size
        BY <3>1 DEF FindBlock
      <4>. HIDE DEF n, size
      <4>. QED
        BY <4>1, <4>2 DEF StartsFirst
    <3>2. CASE ~\E n \in Slots : StartsFirst(n, address, used_memory_blocks)
      BY <1>6, <3>2 DEF FindBlock
    <3>. QED
      BY <3>1, <3>2
  <2>. HIDE DEF size
  <2>2. used_memory_blocks[k] # Empty
    BY <1>6, <2>1 DEF Empty
  <2>3. PICK i \in 1 .. Len(MemMap) :
           Seen(i) /\ ~MemMap[i].free /\ used_memory_blocks[k] = EntryBlock(MemMap[i])
    BY <2>2 DEF UsedFromMap
  <2>4. \A j \in 1 .. Len(MemMap) : EntryBlock(MemMap[j]) # Empty
    <3>. SUFFICES ASSUME NEW j \in 1 .. Len(MemMap) PROVE EntryBlock(MemMap[j]) # Empty
      OBVIOUS
    <3>1. EntryBlock(MemMap[j]).size > 0
      BY RegionInEntry
    <3>. QED
      BY <3>1 DEF Empty
  <2>5. \A j \in Slots : used_memory_blocks'[j] =
            IF used_memory_blocks[j].address = address THEN Empty
                                                       ELSE used_memory_blocks[j]
    BY <1>6 DEF RemoveBlock
  <2>6. UsedFromMap'
    BY <1>1, <2>5 DEF UsedFromMap, Seen
  <2>7. i \notin E /\ i \in F
    <3>1. EntryBlock(MemMap[i]).address = address
      BY <2>1, <2>3
    <3>2. \A j \in Slots : used_memory_blocks'[j] # EntryBlock(MemMap[i])
      BY <2>4, <2>5, <3>1
    <3>3. Seen(i)'
      BY <1>1, <2>3 DEF Seen
    <3>. QED
      BY <2>3, <3>2, <3>3 DEF Available
  <2>8. E \subseteq F
    <3>. SUFFICES ASSUME NEW j \in E PROVE j \in F
      OBVIOUS
    <3>1. j \in 1 .. Len(MemMap) /\ Seen(j)'
      BY <1>1 DEF Available, Seen
    <3>2. MemMap[j].free \/ \A m \in Slots : used_memory_blocks[m] # EntryBlock(MemMap[j])
      BY DEF Available
    <3>3. MemMap[j].free \/ \A m \in Slots : used_memory_blocks'[m] # EntryBlock(MemMap[j])
      BY <2>4, <2>5, <3>1, <3>2
    <3>. QED
      BY <3>1, <3>3 DEF Available
  <2>9. Region(MemMap[i]).size = size /\ size \in Nat
    <3>1. Region(MemMap[i]) = EntryBlock(MemMap[i]) /\ EntryBlock(MemMap[i]) \in Block
      BY <2>3, RegionInEntry
    <3>. QED
      BY <2>1, <2>3, <3>1 DEF Block
  <2>10. SlotBytes(free_memory_blocks') <= SlotBytes(free_memory_blocks) + size
    <3>1. \E n : \/ free_memory_blocks' = [free_memory_blocks EXCEPT ![n].size = @ + size]
                 \/ free_memory_blocks' = [free_memory_blocks EXCEPT ![n].address = address]
                 \/ free_memory_blocks' =
                       [free_memory_blocks EXCEPT ![n] = [address |-> address, size |-> size]]
      BY <1>6 DEF MergeInFront, MergeBehind, InsertFreed
    <3>2. free_memory_blocks \in [Slots -> Block]
      BY DEF TypeOK
    <3>. QED
      BY <2>9, <3>1, <3>2, FreedBytes
  <2>11. SlotBytes(free_memory_blocks') \in Nat
    BY FreeMemoryTypes, SlotBytesType
  <2>. HIDE DEF E, F
  <2>12. RegionBytes(E) + size <= RegionBytes(F)
    <3>1. E \cup {i} \in SUBSET F /\ E = (E \cup {i}) \ {i}
      BY <2>7, <2>8
    <3>2. RegionBytes(E \cup {i}) = RegionBytes(E) + size
      BY <1>2, <2>9, <3>1, RegionBytesFacts
    <3>3. RegionBytes(E \cup {i}) <= RegionBytes(F)
      BY <1>2, <3>1, RegionBytesFacts
    <3>. QED
      BY <3>2, <3>3
  <2>13. SlotBytes(free_memory_blocks') + RegionBytes(E)
          <= SlotBytes(free_memory_blocks) + RegionBytes(F)
    BY <1>3, <1>4, <2>9, <2>10, <2>11, <2>12
  <2>. QED
    BY <2>6, <2>13 DEF E, F
<1>. QED
  BY <1>5, <1>6 DEF FreeMemory
\* One more entry of the map: its usable bytes reach one slot, beyond the
\* slots in use.
LEMMA InitEntryBytes ==
    ASSUME TypeOK, UsedFromMap, InitsCounted, MaxInits = 1, InitEntry
    PROVE  /\ UsedFromMap' /\ InitsCounted'
           /\ UNCHANGED granted
           /\ \/ /\ MemMap[entry].free
                 /\ free_blocks \in Slots
                 /\ FreeSlots' = FreeSlots \cup {free_blocks}
                 /\ free_memory_blocks' =
                       [free_memory_blocks EXCEPT ![free_blocks] = Region(MemMap[entry])]
                 /\ Available' = Available \cup {entry}
              \/ /\ ~MemMap[entry].free
                 /\ UNCHANGED <<free_blocks, free_memory_blocks>>
                 /\ Available \subseteq Available'
           /\ entry \in 1 .. Len(MemMap) /\ ~Seen(entry)
           /\ \A i \in 1 .. Len(MemMap) : Seen(i)' <=> Seen(i) \/ i = entry
<1>1. /\ entry \in 1 .. Len(MemMap) /\ Len(MemMap) \in Nat
      /\ inits = 1 /\ inits' = 1 /\ entry' = entry + 1 /\ granted' = granted
  BY MemMapAssumption DEF TypeOK, InitsCounted, InitEntry, IsMemoryMap
<1>2. ~Seen(entry) /\ \A i \in 1 .. Len(MemMap) : Seen(i)' <=> Seen(i) \/ i = entry
  BY <1>1 DEF Seen
<1>3. InitsCounted'
  BY <1>1 DEF InitsCounted
<1>4. CASE /\ MemMap[entry].free
           /\ free_blocks < NUM_BLOCKS
           /\ free_memory_blocks' =
                 [free_memory_blocks EXCEPT ![free_blocks] = Region(MemMap[entry])]
           /\ free_blocks' = free_blocks + 1
           /\ UNCHANGED <<used_blocks, used_memory_blocks>>
  <2>1. free_blocks \in Slots /\ FreeSlots' = FreeSlots \cup {free_blocks}
    BY <1>4, SizeAssumption DEF TypeOK, Slots, FreeSlots
  <2>2. UsedFromMap'
    BY <1>2, <1>4 DEF UsedFromMap
  <2>3. Available' = Available \cup {entry}
    BY <1>1, <1>2, <1>4 DEF Available
  <2>. QED
    BY <1>1, <1>2, <1>3, <1>4, <2>1, <2>2, <2>3
<1>5. CASE /\ ~MemMap[entry].free
           /\ used_blocks < NUM_BLOCKS
           /\ used_memory_blocks' =
                 [used_memory_blocks EXCEPT ![used_blocks] = Region(MemMap[entry])]
           /\ used_blocks' = used_blocks + 1
           /\ UNCHANGED <<free_blocks, free_memory_blocks>>
  <2> DEFINE r == EntryBlock(MemMap[entry])
  <2>1. \A k \in Slots : \/ used_memory_blocks'[k] = used_memory_blocks[k]
                         \/ used_memory_blocks'[k] = r
    <3>1. Region(MemMap[entry]) = r
      BY <1>1, <1>5, RegionInEntry
    <3>2. used_memory_blocks \in [Slots -> Block]
      BY DEF TypeOK
    <3>. HIDE DEF r
    <3>. QED
      BY <1>5, <3>1, <3>2
  <2>2. UsedFromMap'
    BY <1>1, <1>2, <1>5, <2>1 DEF UsedFromMap
  <2>3. \A i \in Available : EntryBlock(MemMap[i]) # r
    <3>. SUFFICES ASSUME NEW i \in Available PROVE EntryBlock(MemMap[i]) # r
      OBVIOUS
    <3>1. i \in 1 .. Len(MemMap) /\ i # entry
      BY <1>2 DEF Available
    <3>2. EntryBlock(MemMap[i]) \in Block /\ EntryBlock(MemMap[i]).size > 0
      BY <3>1, RegionInEntry
    <3>3. r \in Block /\ r.size > 0
      BY <1>1, RegionInEntry
    <3>4. Disjoint(EntryBlock(MemMap[i]), r)
      BY <1>1, <3>1, MemMapAssumption DEF IsMemoryMap
    <3>. QED
      BY <3>2, <3>3, <3>4 DEF Disjoint, End, Block
  <2>4. Available \subseteq Available'
    <3>. SUFFICES ASSUME NEW i \in Available PROVE i \in Available'
      OBVIOUS
    <3>1. i \in 1 .. Len(MemMap) /\ Seen(i)'
      BY <1>2 DEF Available
    <3>2. MemMap[i].free \/ \A k \in Slots : used_memory_blocks[k] # EntryBlock(MemMap[i])
      BY DEF Available
    <3>3. MemMap[i].free \/ \A k \in Slots : used_memory_blocks'[k] # EntryBlock(MemMap[i])
      BY <2>1, <2>3, <3>2
    <3>. QED
      BY <3>1, <3>3 DEF Available
  <2>. QED
    BY <1>1, <1>2, <1>3, <1>5, <2>2, <2>4
<1>. QED
  BY <1>4, <1>5 DEF InitEntry

\* The bytes of the slots after it.
LEMMA RegionPutBytes ==
    ASSUME TypeOK, NEW i \in 1 .. Len(MemMap), free_blocks \in Slots,
           free_memory_blocks' =
               [free_memory_blocks EXCEPT ![free_blocks] = Region(MemMap[i])]
    PROVE  /\ SlotBytes(free_memory_blocks') + free_memory_blocks[free_blocks].size
                = SlotBytes(free_memory_blocks) + Region(MemMap[i]).size
           /\ SlotBytes(free_memory_blocks') \in Nat
           /\ free_memory_blocks[free_blocks].size \in Nat
           /\ Region(MemMap[i]).size \in Nat
<1>1. Region(MemMap[i]) \in Block
  BY RegionInEntry
<1>2. /\ free_memory_blocks \in [Slots -> Block] /\ free_memory_blocks' \in [Slots -> Block]
      /\ free_memory_blocks'[free_blocks] = Region(MemMap[i])
      /\ \A j \in Slots : j # free_blocks =>
            free_memory_blocks'[j].size = free_memory_blocks[j].size
  BY <1>1 DEF TypeOK
<1>3. SlotBytes(free_memory_blocks') + free_memory_blocks[free_blocks].size
        = SlotBytes(free_memory_blocks) + free_memory_blocks'[free_blocks].size
  BY <1>2, SlotBytesChange
<1>. QED
  BY <1>1, <1>2, <1>3, SlotBytesType DEF Block

-----------------------------------------------------------------------------
(* However reserved regions are freed, in a kernel that runs init_blocks   *)
(* once.                                                                   *)

BytesBounded ==
    /\ TypeOK
    /\ InitsCounted
    /\ UsedFromMap
    /\ IsFiniteSet(granted)
    /\ SlotBytes(free_memory_blocks) + GrantedBytes <= RegionBytes(Available)

\* The parts of it, as sums of numbers.
LEMMA BoundedParts ==
    ASSUME TypeOK, IsFiniteSet(granted)
    PROVE  /\ GrantedBytes = BytesOf(granted)
           /\ BytesOf(granted) \in Nat
           /\ SlotBytes(free_memory_blocks) \in Nat
           /\ RegionBytes(Available) \in Nat
<1>1. BytesOf(granted) \in Nat
  <2> DEFINE w == [g \in granted |-> g.size]
  <2>1. IsFiniteSet(DOMAIN w) /\ \A g \in DOMAIN w : w[g] \in Nat
    BY DEF TypeOK, Grant
  <2>. HIDE DEF w
  <2>2. Total(w) \in Nat
    BY <2>1, TotalType
  <2>. QED
    BY <2>2 DEF w, BytesOf
<1>2. SlotBytes(free_memory_blocks) \in Nat
  BY SlotBytesType DEF TypeOK
<1>3. RegionBytes(Available) \in Nat
  <2>1. Available \in SUBSET (1 .. Len(MemMap))
    BY DEF Available
  <2>. QED
    BY <2>1, RegionBytesFacts
<1>. QED
  BY <1>1, <1>2, <1>3 DEF GrantedBytes, BytesOf

\* free_memory and the caller's mark.
LEMMA FreedBytesBounded ==
    ASSUME BytesBounded, TypeOK', NEW address \in Nat, FreeMemory(address),
           \/ granted' = granted
           \/ \E g \in granted : MarkFreed(g)
    PROVE  BytesBounded'
<1> DEFINE E == Available
           F == Available'
           x == SlotBytes(free_memory_blocks)
           y == SlotBytes(free_memory_blocks')
           b == BytesOf(granted)
           c == BytesOf(granted')
<1>1. InitsCounted' /\ UsedFromMap' /\ y + RegionBytes(E) <= x + RegionBytes(F)
  BY FreeMemoryBytes DEF BytesBounded, InitsCounted, FreeMemory
<1>2. IsFiniteSet(granted') /\ c <= b
  <2>0. IsFiniteSet(granted) /\ granted \subseteq Grant /\ b \in Nat
    BY BoundedParts DEF BytesBounded, TypeOK
  <2>1. CASE granted' = granted
    <3>1. c = b
      BY <2>1
    <3>. HIDE DEF b, c
    <3>. QED
      BY <2>0, <2>1, <3>1
  <2>2. ASSUME NEW g \in granted, MarkFreed(g) PROVE IsFiniteSet(granted') /\ c <= b
    <3> DEFINE h == [g EXCEPT !.freed = TRUE]
    <3>1. g \in Grant /\ h \in Grant /\ h.size = g.size
      BY <2>0 DEF Grant
    <3>2. granted' = (granted \ {g}) \cup {h}
      BY <2>2 DEF MarkFreed
    <3>. HIDE DEF h
    <3>. QED
      BY <2>0, <3>1, <3>2, BytesOfMarked
  <2>. QED
    BY <2>1, <2>2
<1>3. /\ b \in Nat /\ x \in Nat /\ RegionBytes(E) \in Nat
      /\ x + b <= RegionBytes(E)
  BY BoundedParts DEF BytesBounded
<1>4. /\ c \in Nat /\ y \in Nat /\ RegionBytes(F) \in Nat
  <2>1. (TypeOK /\ IsFiniteSet(granted))'
    BY <1>2
  <2>2. (BytesOf(granted) \in Nat /\ SlotBytes(free_memory_blocks) \in Nat
         /\ RegionBytes(Available) \in Nat)'
    BY <2>1, BoundedParts, PTL
  <2>. QED
    BY <2>2
<1>5. y + c <= RegionBytes(F)
  <2>. HIDE DEF x, y, b, c, E, F
  <2>. QED
    BY <1>1, <1>2, <1>3, <1>4
<1>6. (SlotBytes(free_memory_blocks) + GrantedBytes <= RegionBytes(Available))'
  BY <1>5 DEF GrantedBytes, BytesOf
<1>. QED
  BY <1>1, <1>2, <1>6 DEF BytesBounded
\* One more block handed out.
LEMMA AllocatedBytesBounded ==
    ASSUME BytesBounded, TypeOK', AllocationStep
    PROVE  BytesBounded'
<1> DEFINE E == Available
           F == Available'
           x == SlotBytes(free_memory_blocks)
           y == SlotBytes(free_memory_blocks')
           b == BytesOf(granted)
           c == BytesOf(granted')
<1>1. InitsCounted' /\ UsedFromMap' /\ F = E
  BY DEF AllocationStep, BytesBounded, InitsCounted, UsedFromMap, Available, Seen
<1>2. /\ IsFiniteSet(granted) /\ granted \in SUBSET Grant
      /\ b \in Nat /\ x \in Nat /\ RegionBytes(E) \in Nat
      /\ x + b <= RegionBytes(E)
  BY BoundedParts DEF BytesBounded, TypeOK
<1>3. CASE UNCHANGED <<free_memory_blocks, granted>>
  BY <1>1, <1>3 DEF BytesBounded, GrantedBytes
<1>4. ASSUME NEW g \in Grant, granted' = granted \cup {g},
             SlotBytes(free_memory_blocks') + g.size = SlotBytes(free_memory_blocks)
      PROVE  BytesBounded'
  <2>1. IsFiniteSet(granted') /\ c <= b + g.size /\ g.size \in Nat
    <3>1. /\ IsFiniteSet(granted \cup {g})
          /\ g \notin granted => BytesOf(granted \cup {g}) = b + g.size
      BY <1>2, BytesOfAdded
    <3>2. g \in granted => granted \cup {g} = granted
      OBVIOUS
    <3>3. c = b + g.size \/ c = b
      BY <1>4, <3>1, <3>2
    <3>4. g.size \in Nat
      BY DEF Grant
    <3>. HIDE DEF b, c
    <3>. QED
      BY <1>2, <1>4, <3>1, <3>3, <3>4
  <2>2. c \in Nat /\ y \in Nat
    <3>1. (TypeOK /\ IsFiniteSet(granted))'
      BY <2>1
    <3>2. (BytesOf(granted) \in Nat /\ SlotBytes(free_memory_blocks) \in Nat)'
      BY <3>1, BoundedParts, PTL
    <3>. QED
      BY <3>2
  <2>3. y + c <= RegionBytes(F)
    <3>1. y + g.size = x
      BY <1>4
    <3>. HIDE DEF x, y, b, c, E, F
    <3>. QED
      BY <1>1, <1>2, <2>1, <2>2, <3>1
  <2>4. (SlotBytes(free_memory_blocks) + GrantedBytes <= RegionBytes(Available))'
    BY <2>3 DEF GrantedBytes, BytesOf
  <2>. QED
    BY <1>1, <2>1, <2>4 DEF BytesBounded
<1>. QED
  BY <1>3, <1>4 DEF AllocationStep

LEMMA InitEntryBytesBounded ==
    ASSUME BytesBounded, TypeOK', MaxInits = 1, InitEntry
    PROVE  BytesBounded'
<1> DEFINE E == Available
           F == Available'
           x == SlotBytes(free_memory_blocks)
           y == SlotBytes(free_memory_blocks')
           b == BytesOf(granted)
           r == Region(MemMap[entry]).size
<1>1. UsedFromMap' /\ InitsCounted' /\ granted' = granted
  BY InitEntryBytes DEF BytesBounded
<1>2. entry \in 1 .. Len(MemMap) /\ entry \notin E
  BY InitEntryBytes DEF BytesBounded, Available
<1>3. /\ b \in Nat /\ x \in Nat /\ RegionBytes(E) \in Nat
      /\ x + b <= RegionBytes(E)
  BY BoundedParts DEF BytesBounded
<1>4. E \in SUBSET (1 .. Len(MemMap)) /\ F \in SUBSET (1 .. Len(MemMap))
  BY DEF Available
<1>5. RegionBytes(F) \in Nat
  BY <1>4, RegionBytesFacts
<1>6. ASSUME free_blocks \in Slots,
             free_memory_blocks' =
                 [free_memory_blocks EXCEPT ![free_blocks] = Region(MemMap[entry])],
             F = E \cup {entry}
      PROVE  y + b <= RegionBytes(F)
  <2>1. /\ y + free_memory_blocks[free_blocks].size = x + r
        /\ y \in Nat /\ free_memory_blocks[free_blocks].size \in Nat /\ r \in Nat
    BY <1>2, <1>6, RegionPutBytes DEF BytesBounded
  <2>2. E = F \ {entry} /\ E \in SUBSET F /\ entry \in F
    BY <1>2, <1>6
  <2>. HIDE DEF E, F
  <2>3. RegionBytes(F) = RegionBytes(E) + r
    BY <1>4, <2>2, RegionBytesFacts
  <2>. HIDE DEF x, y, b, r
  <2>. DEFINE s == free_memory_blocks[free_blocks].size
  <2>4. y + s = x + r /\ s \in Nat
    BY <2>1
  <2>. HIDE DEF s
  <2>. QED
    BY <1>3, <1>5, <2>1, <2>3, <2>4
<1>7. ASSUME UNCHANGED free_memory_blocks, E \subseteq F
      PROVE  y + b <= RegionBytes(F)
  <2>1. y = x
    BY <1>7
  <2>2. E \in SUBSET F
    BY <1>7
  <2>. HIDE DEF E, F
  <2>3. RegionBytes(E) <= RegionBytes(F)
    BY <1>4, <2>2, RegionBytesFacts
  <2>. HIDE DEF x, y, b
  <2>. QED
    BY <1>3, <1>5, <2>1, <2>3
<1>8. y + b <= RegionBytes(F)
  BY <1>6, <1>7, InitEntryBytes DEF BytesBounded
<1>9. (SlotBytes(free_memory_blocks) + GrantedBytes <= RegionBytes(Available))'
  BY <1>1, <1>8 DEF GrantedBytes, BytesOf
<1>. QED
  BY <1>1, <1>9 DEF BytesBounded

LEMMA BytesStayBounded ==
    ASSUME BytesBounded, MaxInits = 1, [Next]_vars
    PROVE  BytesBounded'
<1>0. TypeOK'
  BY StepTypes DEF BytesBounded
<1>1. CASE BeginInit
  <2>1. /\ inits = 0 /\ entry' = 1
        /\ UNCHANGED <<lists, total_memory, saved, granted>>
    BY <1>1 DEF BytesBounded, TypeOK, BeginInit
  <2>2. UsedFromMap'
    BY <2>1 DEF BytesBounded, UsedFromMap, Seen, lists
  <2>3. InitsCounted'
    BY <1>1 DEF BytesBounded, TypeOK, BeginInit, InitsCounted
  <2>4. Available' = Available
    <3>1. Available = {}
      BY <2>1 DEF Available, Seen
    <3>2. Available' = {}
      BY <2>1 DEF Available, Seen
    <3>. QED
      BY <3>1, <3>2
  <2>. QED
    BY <1>0, <2>1, <2>2, <2>3, <2>4 DEF BytesBounded, GrantedBytes, lists
<1>2. CASE InitEntry
  BY <1>0, <1>2, InitEntryBytesBounded
<1>3. ASSUME NEW size \in Sizes, AllocateMemory(size)
      PROVE  BytesBounded'
  BY <1>0, <1>3, AllocateMemoryBytes, AllocatedBytesBounded DEF BytesBounded
<1>4. ASSUME NEW alignment \in Alignments, NEW size \in Sizes,
             AlignedAlloc(alignment, size)
      PROVE  BytesBounded'
  BY <1>0, <1>4, AlignedAllocBytes, AllocatedBytesBounded DEF BytesBounded
<1>5. ASSUME NEW g \in granted, FreeGrant(g)
      PROVE  BytesBounded'
  <2>1. g.ptr \in Nat /\ FreeMemory(g.ptr) /\ MarkFreed(g)
    BY <1>5 DEF FreeGrant, BytesBounded, TypeOK, Grant
  <2>. QED
    BY <1>0, <2>1, FreedBytesBounded
<1>6. ASSUME NEW g \in granted, AlignedFree(g)
      PROVE  BytesBounded'
  <2>1. PICK address : address \in Nat /\ FreeMemory(address)
    <3>1. \A w \in saved : w.value \in Nat
      BY DEF BytesBounded, TypeOK, StoredPointer
    <3>2. \A k \in UsedSlots : used_memory_blocks[k].address \in Nat
      BY SizeAssumption DEF BytesBounded, TypeOK, Block, UsedSlots, Slots
    <3>. QED
      BY <1>6, <3>1, <3>2 DEF AlignedFree
  <2>2. MarkFreed(g)
    BY <1>6 DEF AlignedFree
  <2>. QED
    BY <1>0, <2>1, <2>2, FreedBytesBounded
<1>7. CASE UNCHANGED vars \/ \E g \in granted : ClientWrite(g)
  <2>1. UNCHANGED <<entry, inits, lists, total_memory, granted>>
    BY <1>7 DEF vars, lists, ClientWrite
  <2>. QED
    BY <1>0, <2>1 DEF BytesBounded, InitsCounted, UsedFromMap, Available, Seen,
       GrantedBytes, lists
<1>8. ASSUME NEW address \in Reclaimable, Reclaim(address)
      PROVE  BytesBounded'
  <2>1. address \in Nat /\ FreeMemory(address) /\ granted' = granted
    BY <1>8, SizeAssumption DEF Reclaim
  <2>. QED
    BY <1>0, <2>1, FreedBytesBounded
<1>. QED
  BY <1>1, <1>2, <1>3, <1>4, <1>5, <1>6, <1>7, <1>8 DEF Next

LEMMA InitSums ==
    ASSUME Init
    PROVE  /\ SlotBytes(free_memory_blocks) = 0
           /\ BytesOf(granted) = 0
           /\ IsFiniteSet(granted)
           /\ UsedFromMap /\ InitsCounted
           /\ \A i : ~Seen(i)
           /\ RegionBytes({}) = 0
<1>1. IsFiniteSet(granted) /\ BytesOf(granted) = 0
  <2> DEFINE w == [g \in granted |-> g.size]
  <2>1. DOMAIN w = {}
    BY DEF Init
  <2>. HIDE DEF w
  <2>2. Total(w) = 0
    BY <2>1, TotalEmpty
  <2>. QED
    BY <2>2, FS_EmptySet DEF w, BytesOf, Init
<1>2. RegionBytes({}) = 0
  <2> DEFINE w == [i \in {} |-> Region(MemMap[i]).size]
  <2>1. DOMAIN w = {}
    OBVIOUS
  <2>. HIDE DEF w
  <2>2. Total(w) = 0
    BY <2>1, TotalEmpty
  <2>. QED
    BY <2>2 DEF w, RegionBytes
<1>3. SlotBytes(free_memory_blocks) = 0
  <2> DEFINE v == [k \in Slots |-> free_memory_blocks[k].size]
             w == [k \in {} |-> 0]
  <2>1. /\ IsFiniteSet(DOMAIN v) /\ \A k \in DOMAIN v : v[k] = 0
        /\ DOMAIN w = {}
    BY SlotsFinite DEF Init, Empty
  <2>. HIDE DEF v, w
  <2>2. Total(w) = 0 /\ Total(w) = Total(v)
    BY <2>1, TotalEmpty, TotalGrows
  <2>. QED
    BY <2>2 DEF v, SlotBytes
<1>4. UsedFromMap /\ InitsCounted
  BY MemMapAssumption DEF Init, UsedFromMap, InitsCounted, IsMemoryMap
<1>5. \A i : ~Seen(i)
  BY DEF Init, Seen
<1>. QED
  BY <1>1, <1>2, <1>3, <1>4, <1>5

\* Whatever regions the kernel frees, and however often: free list and handed
\* out blocks never have more bytes than the memory they come from.
THEOREM PmmFreeBytesAccounted ==
    ASSUME MaxInits = 1
    PROVE  Spec => []FreeBytesAccounted
<1>1. Init => BytesBounded
  <2> SUFFICES ASSUME Init PROVE BytesBounded
    OBVIOUS
  <2>1. Available = {}
    BY InitSums DEF Available
  <2>. QED
    BY <2>1, InitTypes, InitSums DEF BytesBounded, GrantedBytes, BytesOf
<1>2. BytesBounded /\ [Next]_vars => BytesBounded'
  BY BytesStayBounded
<1>3. BytesBounded => FreeBytesAccounted
  <2> SUFFICES ASSUME BytesBounded, Ready PROVE
        FreeBytes + GrantedBytes <= RegionBytes(UsableEntries \cup ReclaimedEntries)
    BY DEF FreeBytesAccounted
  <2> DEFINE E == Available
             F == UsableEntries \cup ReclaimedEntries
  <2>1. F \in SUBSET (1 .. Len(MemMap)) /\ E \in SUBSET F
    <3>1. UsedSlots \subseteq Slots
      BY SizeAssumption DEF BytesBounded, TypeOK, UsedSlots, Slots
    <3>. QED
      BY <3>1 DEF Available, UsableEntries, ReclaimedEntries
  <2>. HIDE DEF E, F
  <2>2. RegionBytes(E) <= RegionBytes(F) /\ RegionBytes(F) \in Nat
    BY <2>1, RegionBytesFacts
  <2>3. FreeBytes <= SlotBytes(free_memory_blocks) /\ FreeBytes \in Nat
    <3> DEFINE w == [k \in FreeSlots |-> free_memory_blocks[k].size]
    <3>1. IsFiniteSet(DOMAIN w) /\ \A k \in DOMAIN w : w[k] \in Nat
      <4>1. FreeSlots \subseteq Slots
        BY FreeSlotsAreSlots DEF BytesBounded
      <4>2. IsFiniteSet(FreeSlots)
        BY <4>1, SlotsFinite, FS_Subset
      <4>3. \A k \in FreeSlots : free_memory_blocks[k].size \in Nat
        BY <4>1 DEF BytesBounded, TypeOK, Block
      <4>. QED
        BY <4>2, <4>3
    <3>. HIDE DEF w
    <3>2. Total(w) \in Nat
      BY <3>1, TotalType
    <3>. QED
      BY <3>2, FreeBytesOfSlots DEF w, FreeBytes, BytesBounded
  <2>4. /\ GrantedBytes \in Nat /\ SlotBytes(free_memory_blocks) \in Nat
        /\ RegionBytes(E) \in Nat
        /\ SlotBytes(free_memory_blocks) + GrantedBytes <= RegionBytes(E)
    BY BoundedParts DEF BytesBounded, E
  <2>5. FreeBytes + GrantedBytes <= RegionBytes(F)
    BY <2>2, <2>3, <2>4
  <2>. QED
    BY <2>5 DEF F
<1>. QED
  BY <1>1, <1>2, <1>3, PTL DEF Spec
-----------------------------------------------------------------------------
(* In a kernel that frees only what it allocated no byte is lost either.   *)

SeenUsable == {i \in UsableEntries : Seen(i)}

BytesExact ==
    /\ IsFiniteSet(granted)
    /\ \A k \in Slots \ FreeSlots : free_memory_blocks[k].size = 0
    /\ SlotBytes(free_memory_blocks) + GrantedBytes = RegionBytes(SeenUsable)

LEMMA SeenUsableBytes == RegionBytes(SeenUsable) \in Nat
<1>1. SeenUsable \in SUBSET (1 .. Len(MemMap))
  BY DEF SeenUsable, UsableEntries
<1>. QED
  BY <1>1, RegionBytesFacts

\* A block that is cut from a free slot is not one handed out before.
LEMMA AllocatedBytesExact ==
    ASSUME IndInv, BytesExact, IndInv', AllocationStep
    PROVE  BytesExact'
<1> DEFINE x == SlotBytes(free_memory_blocks)
           y == SlotBytes(free_memory_blocks')
           b == BytesOf(granted)
           c == BytesOf(granted')
           R == RegionBytes(SeenUsable)
<1>1. RegionBytes(SeenUsable)' = R /\ FreeSlots' = FreeSlots
  BY DEF AllocationStep, SeenUsable, UsableEntries, Seen, FreeSlots
<1>2. /\ IsFiniteSet(granted) /\ granted \in SUBSET Grant
      /\ b \in Nat /\ x \in Nat /\ R \in Nat
      /\ x + b = R
  BY BoundedParts, SeenUsableBytes DEF BytesExact, IndInv, TypeOK
<1>3. CASE UNCHANGED <<free_memory_blocks, granted>>
  BY <1>1, <1>3 DEF BytesExact, GrantedBytes
<1>4. ASSUME NEW g \in Grant, NEW k \in FreeSlots, g.size > 0,
             granted' = granted \cup {g},
             g.address = free_memory_blocks[k].address,
             g.size <= free_memory_blocks[k].size,
             SlotBytes(free_memory_blocks') + g.size = SlotBytes(free_memory_blocks),
             \A j \in Slots : j # k => free_memory_blocks'[j] = free_memory_blocks[j]
      PROVE  BytesExact'
  <2>1. g \notin granted
    <3>1. SUFFICES ASSUME g \in granted PROVE FALSE
      OBVIOUS
    <3>2. Disjoint(g, free_memory_blocks[k])
      BY <3>1 DEF IndInv, GrantsNotFree
    <3>3. free_memory_blocks[k] \in Block
      BY FreeSlotsAreSlots DEF IndInv, TypeOK
    <3>. QED
      BY <1>4, <3>2, <3>3 DEF Disjoint, End, Block, Grant
  <2>2. IsFiniteSet(granted') /\ c = b + g.size /\ g.size \in Nat
    <3>1. /\ IsFiniteSet(granted \cup {g})
          /\ BytesOf(granted \cup {g}) = b + g.size
      BY <1>2, <2>1, BytesOfAdded
    <3>. QED
      BY <1>4, <3>1 DEF Grant
  <2>3. y \in Nat
    BY SlotBytesType DEF IndInv, TypeOK
  <2>4. y + c = R
    <3>1. y + g.size = x
      BY <1>4
    <3>. HIDE DEF x, y, b, c, R
    <3>. QED
      BY <1>2, <2>2, <2>3, <3>1
  <2>5. (SlotBytes(free_memory_blocks) + GrantedBytes = RegionBytes(SeenUsable))'
    BY <1>1, <2>4 DEF GrantedBytes, BytesOf
  <2>6. \A j \in Slots \ FreeSlots' : free_memory_blocks'[j].size = 0
    BY <1>1, <1>4 DEF BytesExact
  <2>. QED
    BY <2>2, <2>5, <2>6 DEF BytesExact
<1>. QED
  BY <1>3, <1>4 DEF AllocationStep

\* A block that is given back is marked, and that mark makes it no other.
LEMMA FreedBytesExact ==
    ASSUME IndInv, BytesExact, NEW g \in granted, MarkFreed(g),
           UNCHANGED <<entry, inits, lists, total_memory, saved>>
    PROVE  BytesExact'
<1> DEFINE h == [g EXCEPT !.freed = TRUE]
<1>1. granted \in SUBSET Grant /\ IsFiniteSet(granted)
  BY DEF IndInv, TypeOK, BytesExact
<1>2. g \in Grant /\ h \in Grant /\ h.size = g.size /\ h.address = g.address
  BY <1>1 DEF Grant
<1>3. h \notin granted \ {g}
  <2>1. SUFFICES ASSUME h \in granted, h # g PROVE FALSE
    OBVIOUS
  <2>2. Disjoint(g, h) /\ g.size > 0
    BY <2>1 DEF IndInv, GrantsDisjoint, GrantsFromMap
  <2>. QED
    BY <1>2, <2>2 DEF Disjoint, End, Grant
<1>4. granted' = (granted \ {g}) \cup {h}
  BY DEF MarkFreed
<1>. HIDE DEF h
<1>5. IsFiniteSet(granted') /\ BytesOf(granted') = BytesOf(granted)
  BY <1>1, <1>2, <1>3, <1>4, BytesOfMarked
<1>6. GrantedBytes' = GrantedBytes
  BY <1>5 DEF GrantedBytes, BytesOf
<1>. QED
  BY <1>5, <1>6 DEF BytesExact, SeenUsable, Seen, FreeSlots, lists

LEMMA InitEntryBytesExact ==
    ASSUME IndInv, BytesExact, OneInitOnly, InitEntry
    PROVE  BytesExact'
<1> DEFINE E == SeenUsable
           F == SeenUsable'
           x == SlotBytes(free_memory_blocks)
           y == SlotBytes(free_memory_blocks')
           b == BytesOf(granted)
           r == Region(MemMap[entry]).size
<1>0. TypeOK /\ UsedFromMap /\ InitsCounted /\ MaxInits = 1
  BY DEF IndInv, OneInitOnly
<1>1. /\ granted' = granted
      /\ entry \in 1 .. Len(MemMap) /\ ~Seen(entry)
      /\ \A i \in 1 .. Len(MemMap) : Seen(i)' <=> Seen(i) \/ i = entry
  BY <1>0, InitEntryBytes
<1>2. /\ b \in Nat /\ x \in Nat /\ RegionBytes(E) \in Nat
      /\ x + b = RegionBytes(E)
  BY <1>0, BoundedParts, SeenUsableBytes DEF BytesExact
<1>3. E \in SUBSET (1 .. Len(MemMap)) /\ F \in SUBSET (1 .. Len(MemMap))
  BY DEF SeenUsable, UsableEntries
<1>4. ASSUME MemMap[entry].free, free_blocks \in Slots,
             FreeSlots' = FreeSlots \cup {free_blocks},
             free_memory_blocks' =
                 [free_memory_blocks EXCEPT ![free_blocks] = Region(MemMap[entry])]
      PROVE  /\ y + b = RegionBytes(F)
             /\ \A k \in Slots \ FreeSlots' : free_memory_blocks'[k].size = 0
  <2>1. free_memory_blocks[free_blocks].size = 0
    BY <1>0, <1>4, FreeSlotsAreSlots DEF BytesExact
  <2>2. /\ y + free_memory_blocks[free_blocks].size = x + r
        /\ y \in Nat /\ r \in Nat
    BY <1>0, <1>1, <1>4, RegionPutBytes
  <2>3. F = E \cup {entry} /\ entry \notin E
    BY <1>1, <1>4 DEF SeenUsable, UsableEntries
  <2>4. E = F \ {entry} /\ E \in SUBSET F /\ entry \in F
    BY <2>3
  <2>5. \A k \in Slots \ FreeSlots' : free_memory_blocks'[k].size = 0
    BY <1>0, <1>4 DEF BytesExact, TypeOK
  <2>. HIDE DEF E, F
  <2>6. RegionBytes(F) = RegionBytes(E) + r
    BY <1>3, <2>4, RegionBytesFacts
  <2>7. y = x + r
    <3>. HIDE DEF x, y, r
    <3>. QED
      BY <1>2, <2>1, <2>2
  <2>. HIDE DEF x, y, b, r
  <2>8. y + b = RegionBytes(F)
    BY <1>2, <2>2, <2>6, <2>7
  <2>. QED
    BY <2>5, <2>8
<1>5. ASSUME ~MemMap[entry].free, UNCHANGED <<free_blocks, free_memory_blocks>>
      PROVE  /\ y + b = RegionBytes(F)
             /\ \A k \in Slots \ FreeSlots' : free_memory_blocks'[k].size = 0
  <2>1. y = x /\ FreeSlots' = FreeSlots
    BY <1>5 DEF FreeSlots
  <2>2. F = E
    BY <1>1, <1>5 DEF SeenUsable, UsableEntries
  <2>. QED
    BY <1>2, <1>5, <2>1, <2>2 DEF BytesExact
<1>6. /\ y + b = RegionBytes(F)
      /\ \A k \in Slots \ FreeSlots' : free_memory_blocks'[k].size = 0
  BY <1>0, <1>4, <1>5, InitEntryBytes
<1>7. (SlotBytes(free_memory_blocks) + GrantedBytes = RegionBytes(SeenUsable))'
  BY <1>1, <1>6 DEF GrantedBytes, BytesOf
<1>. QED
  BY <1>1, <1>6, <1>7 DEF BytesExact

LEMMA BytesStayExact ==
    ASSUME IndInv, BytesExact, OneInitOnly, [Next]_vars
    PROVE  BytesExact'
<1>0. IndInv' /\ TypeOK
  BY NextIndInv DEF IndInv
<1>1. CASE BeginInit
  <2>1. /\ inits = 0 /\ entry' = 1
        /\ UNCHANGED <<lists, total_memory, saved, granted>>
    BY <1>0, <1>1 DEF TypeOK, BeginInit, OneInitOnly
  <2>2. SeenUsable' = SeenUsable
    <3>1. SeenUsable = {}
      BY <2>1 DEF SeenUsable, UsableEntries, Seen
    <3>2. SeenUsable' = {}
      BY <2>1 DEF SeenUsable, UsableEntries, Seen
    <3>. QED
      BY <3>1, <3>2
  <2>. QED
    BY <2>1, <2>2 DEF BytesExact, GrantedBytes, FreeSlots, lists
<1>2. CASE InitEntry
  BY <1>2, InitEntryBytesExact
<1>3. ASSUME NEW size \in Sizes, AllocateMemory(size)
      PROVE  BytesExact'
  BY <1>0, <1>3, AllocateMemoryBytes, AllocatedBytesExact
<1>4. ASSUME NEW alignment \in Alignments, NEW size \in Sizes,
             AlignedAlloc(alignment, size)
      PROVE  BytesExact'
  BY <1>0, <1>4, AlignedAllocBytes, AllocatedBytesExact
<1>5. ASSUME NEW g \in granted, FreeGrant(g)
      PROVE  BytesExact'
  <2>1. g.ptr = g.address
    BY <1>5 DEF IndInv, PlainGrants, FreeGrant
  <2>2. FreeMemory(g.address) /\ MarkFreed(g)
    BY <1>5, <2>1 DEF FreeGrant
  <2>. QED
    BY <2>2, FreeOfGrantDoesNothing, FreedBytesExact
<1>6. ASSUME NEW g \in granted, AlignedFree(g)
      PROVE  BytesExact'
  <2>1. Aligned(g) /\ MarkFreed(g)
    BY <1>6 DEF AlignedFree
  <2>2. [at |-> g.ptr - PtrSize, value |-> g.address] \in saved
    BY <2>1 DEF IndInv, StoredPointersIntact
  <2>3. PICK w \in saved : w.at = g.ptr - PtrSize /\ FreeMemory(w.value)
    BY <1>6, <2>2 DEF AlignedFree
  <2>4. PICK h \in granted : w.value = h.address
    BY DEF IndInv, SavedFromGrants
  <2>. QED
    BY <2>1, <2>3, <2>4, FreeOfGrantDoesNothing, FreedBytesExact
<1>7. CASE UNCHANGED vars \/ \E g \in granted : ClientWrite(g)
  <2>1. UNCHANGED <<entry, inits, lists, total_memory, granted>>
    BY <1>7 DEF vars, lists, ClientWrite
  <2>. QED
    BY <2>1 DEF BytesExact, SeenUsable, Seen, GrantedBytes, FreeSlots, lists
<1>8. ASSUME NEW address \in Reclaimable, Reclaim(address)
      PROVE  BytesExact'
  BY DEF OneInitOnly
<1>. QED
  BY <1>1, <1>2, <1>3, <1>4, <1>5, <1>6, <1>7, <1>8 DEF Next

\* Free list and handed out blocks have exactly the bytes of the usable
\* memory, whatever is allocated, aligned and freed.
THEOREM PmmBytesConserved ==
    ASSUME OneInitOnly
    PROVE  Spec => []BytesConserved
<1>1. Init => IndInv /\ BytesExact
  <2> SUFFICES ASSUME Init PROVE BytesExact
    BY InitIndInv
  <2>1. SeenUsable = {}
    BY InitSums DEF SeenUsable
  <2>2. \A k \in Slots : free_memory_blocks[k].size = 0
    BY DEF Init, Empty
  <2>. QED
    BY <2>1, <2>2, InitSums DEF BytesExact, GrantedBytes, BytesOf
<1>2. IndInv /\ BytesExact /\ [Next]_vars => (IndInv /\ BytesExact)'
  BY NextIndInv, BytesStayExact
<1>3. IndInv /\ BytesExact => BytesConserved
  <2> SUFFICES ASSUME IndInv, BytesExact, Ready
               PROVE  FreeBytes + GrantedBytes = RegionBytes(UsableEntries)
    BY DEF BytesConserved
  <2>1. inits = 1
    BY DEF IndInv, TypeOK, Ready, OneInitOnly
  <2>2. SeenUsable = UsableEntries
    <3>1. \A i \in 1 .. Len(MemMap) : i < entry
      BY MemMapAssumption DEF IndInv, TypeOK, Ready, IsMemoryMap
    <3>. QED
      BY <2>1, <3>1 DEF SeenUsable, UsableEntries, Seen
  <2>3. FreeBytes = SlotBytes(free_memory_blocks)
    BY FreeBytesOfSlots DEF BytesExact, IndInv
  <2>. QED
    BY <2>2, <2>3 DEF BytesExact
<1>. QED
  BY <1>1, <1>2, <1>3, PTL DEF Spec
=============================================================================
