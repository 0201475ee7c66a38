-------------------------------- MODULE Pmm --------------------------------
(***************************************************************************)
(* memory/pmm.c: the first-fit physical memory manager of the kernel, as   *)
(* one core sees it (module PmmSmp runs it on several).                    *)
(*                                                                         *)
(* The state is that of the code: the arrays free_memory_blocks and        *)
(* used_memory_blocks with their counters, total_memory, and the pointers  *)
(* that aligned_alloc stores in memory just below the blocks it returns.   *)
(* The variable granted is a history of what callers were given; the code  *)
(* keeps no such record.  next_block and start_address are written by the  *)
(* code and read by nothing; they are left out.                            *)
(***************************************************************************)
EXTENDS MemoryBlocks, FiniteSets, FiniteSetsExt

CONSTANTS
    MemMap,         \* the memory map: a sequence of entries
    NUM_BLOCKS,     \* slots in each of the two arrays (12000 in the code)
    PtrSize,        \* sizeof(void*)
    Sizes,          \* the sizes callers ask for
    Alignments,     \* the alignments callers ask for
    Reclaimable,    \* reserved regions the kernel passes to free_memory
    MaxInits,       \* how often init_blocks is called
    MaxGrants       \* bound: how many blocks are handed out

ASSUME MemMapAssumption == IsMemoryMap(MemMap)

ASSUME SizeAssumption ==
    /\ NUM_BLOCKS \in Nat
    /\ PtrSize \in Nat \ {0}
    /\ Sizes \subseteq Nat \ {0}
    /\ Alignments \subseteq Nat
    /\ Reclaimable \subseteq Nat
    /\ MaxInits \in Nat
    /\ MaxGrants \in Nat

VARIABLES
    entry,              \* the map entry init_blocks reads next
    inits,              \* how often init_blocks has been called
    free_blocks, free_memory_blocks,
    used_blocks, used_memory_blocks,
    total_memory,
    saved,              \* pointers stored below aligned blocks, still intact
    granted             \* history: every block handed out

vars == <<entry, inits, free_blocks, free_memory_blocks, used_blocks,
          used_memory_blocks, total_memory, saved, granted>>

lists == <<free_blocks, free_memory_blocks, used_blocks, used_memory_blocks>>

Slots == 0 .. NUM_BLOCKS - 1
FreeSlots == 0 .. free_blocks - 1
UsedSlots == 0 .. used_blocks - 1

\* A block handed out: the addresses taken from the free list, the pointer
\* the caller got, how many bytes the caller may use there, the alignment
\* aligned_alloc gave it (0 for a block of allocate_memory), and whether the
\* caller has given it back.
Grant == [address : Nat, size : Nat, ptr : Nat, use : Nat,
          alignment : Nat, freed : BOOLEAN]

Aligned(g) == g.alignment # 0

\* Between two calls: no init_blocks is running and one has completed.
Ready == entry > Len(MemMap) /\ inits > 0

-----------------------------------------------------------------------------
Init ==
    /\ entry = Len(MemMap) + 1
    /\ inits = 0
    /\ free_blocks = 0
    /\ free_memory_blocks = [k \in Slots |-> Empty]
    /\ used_blocks = 0
    /\ used_memory_blocks = [k \in Slots |-> Empty]
    /\ total_memory = 0
    /\ saved = {}
    /\ granted = {}

\* Entering init_blocks, from physical_memory_init or from print_blocks.
\* Nothing is reset: the counters keep what an earlier call left in them.
BeginInit ==
    /\ entry > Len(MemMap)
    /\ inits < MaxInits
    /\ entry' = 1
    /\ inits' = inits + 1
    /\ UNCHANGED <<lists, total_memory, saved, granted>>

\* One iteration of the loop of init_blocks.
InitEntry ==
    /\ entry <= Len(MemMap)
    /\ total_memory' = total_memory + MemMap[entry].size
    /\ \/ /\ MemMap[entry].free
          /\ free_blocks < NUM_BLOCKS
          /\ free_memory_blocks' =
                [free_memory_blocks EXCEPT ![free_blocks] = Region(MemMap[entry])]
          /\ free_blocks' = free_blocks + 1
          /\ UNCHANGED <<used_blocks, used_memory_blocks>>
       \/ /\ ~MemMap[entry].free
          /\ used_blocks < NUM_BLOCKS
          /\ used_memory_blocks' =
                [used_memory_blocks EXCEPT ![used_blocks] = Region(MemMap[entry])]
          /\ used_blocks' = used_blocks + 1
          /\ UNCHANGED <<free_blocks, free_memory_blocks>>
    /\ entry' = entry + 1
    /\ UNCHANGED <<inits, saved, granted>>

-----------------------------------------------------------------------------
(* allocate_memory and allocate_page.                                      *)

Fits(k, size) == k \in FreeSlots /\ free_memory_blocks[k].size >= size

FirstFit(k, size) ==
    /\ Fits(k, size)
    /\ \A j \in Slots : j < k => ~Fits(j, size)

\* Mutant: only the size of the block is updated.
ShrinkOnly(k, size) ==
    free_memory_blocks' =
        [free_memory_blocks EXCEPT ![k].size = @ - size]

\* Mutant: the block is taken whole, the rest of it is forgotten.
TakeWhole(k, size) ==
    free_memory_blocks' = [free_memory_blocks EXCEPT ![k] = Empty]

\* The request is cut from the low end of the block.
Carve(k, size) ==
    free_memory_blocks' =
        [free_memory_blocks EXCEPT
            ![k] = [address |-> @.address + size, size |-> @.size - size]]

HandOut(g) ==
    /\ Cardinality(granted) < MaxGrants
    /\ granted' = granted \cup {g}

AllocateMemory(size) ==
    /\ Ready
    /\ \/ \E k \in Slots :
            /\ FirstFit(k, size)
            /\ Carve(k, size)
            /\ LET a == free_memory_blocks[k].address
               IN  HandOut([address |-> a, size |-> size, ptr |-> a,
                            use |-> size, alignment |-> 0, freed |-> FALSE])
       \/ /\ \A k \in Slots : ~Fits(k, size)
          /\ UNCHANGED <<free_memory_blocks, granted>>
    /\ UNCHANGED <<entry, inits, free_blocks, used_blocks, used_memory_blocks,
                   total_memory, saved>>

-----------------------------------------------------------------------------
(* aligned_alloc and aligned_free.                                         *)

IsPowerOfTwo(n) == \E k \in 0 .. n : n = 2 ^ k

EffectiveAlignment(alignment) ==
    IF alignment < PtrSize THEN PtrSize ELSE alignment

\* Mutant: no room is reserved for the stored pointer.
PaddedWithoutPointer(alignment, size) == size + alignment - 1

Padded(alignment, size) == size + alignment - 1 + PtrSize

\* Mutant: the block's address is rounded up without leaving room below.
AlignUp(original, alignment) ==
    LET top == original + alignment - 1
    IN  top - (top % alignment)

\* Mutant: the room for the pointer is added after rounding.
SkipPointer(original, alignment) ==
    LET top == original + alignment - 1
    IN  top - (top % alignment) + PtrSize

\* Clearing the low bits of an address, the alignment being a power of two.
AlignedAddress(original, alignment) ==
    LET top == original + alignment - 1 + PtrSize
    IN  top - (top % alignment)

\* A pointer stored in memory at an address, and the addresses it occupies.
StoredPointer == [at : Nat, value : Nat]
Word(at) == [address |-> at, size |-> PtrSize]

Store(at, value) ==
    saved' = {w \in saved : Disjoint(Word(w.at), Word(at))}
                \cup {[at |-> at, value |-> value]}

AlignedAlloc(alignment, size) ==
    LET al == EffectiveAlignment(alignment)
        padded == Padded(al, size)
    IN  /\ Ready
        /\ \/ /\ IsPowerOfTwo(al)
              /\ \E k \in Slots :
                    /\ FirstFit(k, padded)
                    /\ Carve(k, padded)
                    /\ LET original == free_memory_blocks[k].address
                           aligned == AlignedAddress(original, al)
                       IN  /\ HandOut([address |-> original, size |-> padded,
                                       ptr |-> aligned, use |-> size,
                                       alignment |-> al, freed |-> FALSE])
                           /\ Store(aligned - PtrSize, original)
           \/ /\ ~IsPowerOfTwo(al) \/ \A k \in Slots : ~Fits(k, padded)
              /\ UNCHANGED <<free_memory_blocks, granted, saved>>
        /\ UNCHANGED <<entry, inits, free_blocks, used_blocks,
                       used_memory_blocks, total_memory>>

-----------------------------------------------------------------------------
(* free_memory: it looks the address up in the used list, which init_blocks *)
(* alone fills, and returns the block to the free list.                     *)

\* The slot of the first block that starts at the address.
StartsFirst(k, address, blocks) ==
    /\ blocks[k].address = address
    /\ \A j \in Slots : j < k => blocks[j].address # address

\* find_block: the size of the first block at that address, 0 if none is.
FindBlock(address, blocks) ==
    IF \E k \in Slots : StartsFirst(k, address, blocks)
      THEN blocks[CHOOSE k \in Slots : StartsFirst(k, address, blocks)].size
      ELSE 0

\* Mutant: the block stays in the list it is freed from.
KeepBlock(address, blocks) == blocks

RemoveBlock(address, blocks) ==
    [k \in Slots |-> IF blocks[k].address = address THEN Empty ELSE blocks[k]]

\* The neighbour searches: the last slot that matches wins, and one whose
\* address is NULL counts as no neighbour.
InFront(address) ==
    {k \in FreeSlots : End(free_memory_blocks[k]) + 1 = address}
Behind(address, size) ==
    {k \in FreeSlots : address + size + 1 = free_memory_blocks[k].address}
Found(matches) ==
    matches # {} /\ free_memory_blocks[Max(matches)].address # 0

\* The neighbour in front grows by the size of the freed block.
MergeInFront(address, size) ==
    /\ Found(InFront(address))
    /\ free_memory_blocks' =
          [free_memory_blocks EXCEPT ![Max(InFront(address))].size = @ + size]
    /\ UNCHANGED free_blocks

\* The neighbour behind gets the address of the freed block; its size stays.
MergeBehind(address, size) ==
    /\ ~Found(InFront(address))
    /\ Found(Behind(address, size))
    /\ free_memory_blocks' =
          [free_memory_blocks EXCEPT ![Max(Behind(address, size))].address = address]
    /\ UNCHANGED free_blocks

\* No neighbour: the block goes to slot free_blocks + 1 and the counter is
\* incremented, so the slot in use next is the one before it.
InsertFreed(address, size) ==
    /\ ~Found(InFront(address))
    /\ ~Found(Behind(address, size))
    /\ free_blocks + 1 \in Slots
    /\ free_memory_blocks' =
          [free_memory_blocks EXCEPT
              ![free_blocks + 1] = [address |-> address, size |-> size]]
    /\ free_blocks' = free_blocks + 1

FreeMemory(address) ==
    LET size == FindBlock(address, used_memory_blocks)
    IN  /\ \/ /\ size = 0
              /\ UNCHANGED <<free_blocks, free_memory_blocks, used_memory_blocks>>
           \/ /\ size # 0
              /\ \/ MergeInFront(address, size)
                 \/ MergeBehind(address, size)
                 \/ InsertFreed(address, size)
              /\ used_memory_blocks' = RemoveBlock(address, used_memory_blocks)
        /\ UNCHANGED <<entry, inits, used_blocks, total_memory, saved>>

MarkFreed(g) == granted' = (granted \ {g}) \cup {[g EXCEPT !.freed = TRUE]}

\* A caller of allocate_memory gives its block back with free_memory.
FreeGrant(g) ==
    /\ Ready
    /\ ~Aligned(g) /\ ~g.freed
    /\ FreeMemory(g.ptr)
    /\ MarkFreed(g)

\* aligned_free reads the pointer stored below the block.  Where it has been
\* overwritten the word read may be any address.
AlignedFree(g) ==
    /\ Ready
    /\ Aligned(g) /\ ~g.freed
    /\ \/ \E w \in saved : w.at = g.ptr - PtrSize /\ FreeMemory(w.value)
       \/ /\ \A w \in saved : w.at # g.ptr - PtrSize
          /\ \E k \in UsedSlots : FreeMemory(used_memory_blocks[k].address)
    /\ MarkFreed(g)

\* The kernel frees a region the firmware reserved, or frees it again.
Reclaim(address) ==
    /\ Ready
    /\ FreeMemory(address)
    /\ UNCHANGED granted

\* A caller writes a byte of the block it was given, destroying whatever
\* stored pointer it hits.
ClientWrite(g) ==
    /\ ~g.freed
    /\ \E x \in g.ptr .. g.ptr + g.use - 1 :
          saved' = {w \in saved : Disjoint(Word(w.at), [address |-> x, size |-> 1])}
    /\ UNCHANGED <<entry, inits, lists, total_memory, granted>>

-----------------------------------------------------------------------------
Next ==
    \/ BeginInit
    \/ InitEntry
    \/ \E size \in Sizes : AllocateMemory(size)
    \/ \E alignment \in Alignments, size \in Sizes : AlignedAlloc(alignment, size)
    \/ \E g \in granted : FreeGrant(g) \/ AlignedFree(g) \/ ClientWrite(g)
    \/ \E address \in Reclaimable : Reclaim(address)

Spec == Init /\ [][Next]_vars

-----------------------------------------------------------------------------
\* Counters stay within the arrays and every slot holds a block.
TypeOK ==
    /\ entry \in 1 .. Len(MemMap) + 1
    /\ inits \in 0 .. MaxInits
    /\ free_blocks \in 0 .. NUM_BLOCKS
    /\ free_memory_blocks \in [Slots -> Block]
    /\ used_blocks \in 0 .. NUM_BLOCKS
    /\ used_memory_blocks \in [Slots -> Block]
    /\ total_memory \in Nat
    /\ saved \subseteq StoredPointer
    /\ granted \subseteq Grant

\* No address is handed out twice, whatever sequence of plain and aligned
\* requests and of frees came before.
GrantsDisjoint ==
    \A g, h \in granted : g # h => Disjoint(g, h)

\* A block that was handed out shares no address with the free list.
GrantsNotFree ==
    \A g \in granted, k \in FreeSlots : Disjoint(g, free_memory_blocks[k])

\* What is handed out is memory the firmware reported as usable, never NULL.
GrantsUsable ==
    \A g \in granted :
        /\ g.ptr # 0
        /\ \E i \in 1 .. Len(MemMap) :
              MemMap[i].free /\ Within(g, EntryBlock(MemMap[i]))

\* The sum of what a function has for each element of its domain; the bytes on
\* the free list, of the blocks handed out, and of some entries of the map.
Total(w) == MapThenSumSet(LAMBDA x : w[x], DOMAIN w)

FreeBytes == Total([k \in FreeSlots |-> free_memory_blocks[k].size])
GrantedBytes == Total([g \in granted |-> g.size])
RegionBytes(entries) == Total([i \in entries |-> Region(MemMap[i]).size])

UsableEntries == {i \in 1 .. Len(MemMap) : MemMap[i].free}

\* No byte is lost or counted twice between calls: what is on the free list
\* and what was handed out make up the usable memory of the map.
BytesConserved == Ready => FreeBytes + GrantedBytes = RegionBytes(UsableEntries)

\* The bytes a caller of aligned_alloc asked for and the pointer stored below
\* them both lie inside the block taken for them.
AlignedBlockFits ==
    \A g \in granted : Aligned(g) =>
        /\ g.address + PtrSize <= g.ptr
        /\ g.ptr + g.use <= End(g)

\* It is a multiple of the alignment asked for, and of the pointer size.
PointersAligned ==
    \A g \in granted : Aligned(g) => g.ptr % g.alignment = 0

\* Nothing a caller writes into its own block destroys the pointer that
\* aligned_free will read for another block.
StoredPointersIntact ==
    \A g \in granted : Aligned(g) =>
        [at |-> g.ptr - PtrSize, value |-> g.address] \in saved


-----------------------------------------------------------------------------
(* Properties of free_memory on the regions the firmware reserved.         *)

\* The reserved regions that have been freed: no longer in the used list.
ReclaimedEntries ==
    {i \in 1 .. Len(MemMap) :
        ~MemMap[i].free /\ \A k \in UsedSlots :
            used_memory_blocks[k] # EntryBlock(MemMap[i])}

\* However reserved regions are freed, freed twice and merged, and whatever
\* is allocated in between, the free list never claims more bytes than the
\* usable and the reclaimed regions have together.
FreeBytesAccounted ==
    Ready => FreeBytes + GrantedBytes <= RegionBytes(UsableEntries \cup ReclaimedEntries)

\* pmm.c:178-181: free_memory takes the block out of the used list and puts its
\* bytes on the free list, so a freed block can be allocated again.
FreeReturnsBlock ==
    [][\A g \in granted : FreeGrant(g) => FreeBytes' = FreeBytes + g.size]_vars

-----------------------------------------------------------------------------
\* The blocks callers hold, as the abstract allocator sees them.
HeldBlocks ==
    {[address |-> g.address, size |-> g.size] : g \in {h \in granted : ~h.freed}}

UsableBlocks == {EntryBlock(MemMap[i]) : i \in UsableEntries}

Held == INSTANCE Allocator WITH Usable <- UsableBlocks, held <- HeldBlocks

\* The manager is an allocator in the sense of its callers.
ImplementsAllocator == Held!Spec

-----------------------------------------------------------------------------
(* The inductive invariant of a kernel that calls init_blocks once and     *)
(* frees only what it allocated.                                           *)

\* The map entries the one call of init_blocks has processed.
Seen(i) == i \in 1 .. Len(MemMap) /\ i < entry /\ inits = 1

\* A free slot holds part of one usable region.
FreeFromMap ==
    \A k \in FreeSlots :
        \E i \in 1 .. Len(MemMap) :
            Seen(i) /\ MemMap[i].free /\ Within(free_memory_blocks[k], Region(MemMap[i]))

\* A used slot is empty or holds one reserved region.
UsedFromMap ==
    \A k \in Slots :
        \/ used_memory_blocks[k] = Empty
        \/ \E i \in 1 .. Len(MemMap) :
              /\ Seen(i) /\ ~MemMap[i].free
              /\ used_memory_blocks[k] = EntryBlock(MemMap[i])

\* A granted block is a part of one usable region, and not empty.
GrantsFromMap ==
    \A g \in granted :
        /\ g.size > 0
        /\ \E i \in 1 .. Len(MemMap) :
              Seen(i) /\ MemMap[i].free /\ Within(g, Region(MemMap[i]))

FreeSlotsDisjoint ==
    \A j, k \in FreeSlots :
        j # k => Disjoint(free_memory_blocks[j], free_memory_blocks[k])

PlainGrants ==
    \A g \in granted : ~Aligned(g) => g.ptr = g.address /\ g.use = g.size

\* Every intact stored pointer names the block it was stored for.
SavedFromGrants ==
    \A w \in saved : \E g \in granted : w.value = g.address

InitsCounted == entry <= Len(MemMap) => inits > 0

IndInv ==
    /\ TypeOK
    /\ InitsCounted
    /\ FreeFromMap
    /\ UsedFromMap
    /\ GrantsFromMap
    /\ FreeSlotsDisjoint
    /\ GrantsDisjoint
    /\ GrantsNotFree
    /\ PlainGrants
    /\ AlignedBlockFits
    /\ SavedFromGrants
    /\ StoredPointersIntact
=============================================================================
