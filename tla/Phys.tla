-------------------------------- MODULE Phys --------------------------------
(***************************************************************************)
(* memory/phys.c: the page allocator that keeps a bitmap at the start of   *)
(* every free region of the memory map.  The kernel compiles it and, at    *)
(* this commit, calls pmm.c instead.                                       *)
(*                                                                         *)
(* A bitmap is the set of its bits that are 1, the free pages.  The        *)
(* variable held is a history of the runs of pages callers have; the code  *)
(* keeps no such record.                                                   *)
(***************************************************************************)
EXTENDS MemoryBlocks, FiniteSetsExt, Integers

CONSTANTS
    MemMap,         \* the memory map: a sequence of entries
    PAGE_SIZE, BITS_PER_WORD, WordSize,
    Runs            \* how many pages callers ask for

RoundedUp(n, d) == (n + d - 1) \div d

NumPages(e) == e.size \div PAGE_SIZE
Words(e) == RoundedUp(NumPages(e), BITS_PER_WORD)

\* The pages as many as the bitmap would fill, although the bitmap lies in
\* front of page 0.
BitmapPages(e) == RoundedUp(Words(e) * WordSize, PAGE_SIZE)

\* The memory of a region's bitmap and of its pages.
Covered(e) == [address |-> e.ptr, size |-> (Words(e) * WordSize) + (NumPages(e) * PAGE_SIZE)]

ASSUME MemMapAssumption == IsMemoryMap(MemMap)

\* The last page of a region ends as many bytes behind the region as the
\* bitmap in front of page 0 takes, less the part of a page that is left.
\* What lies there is taken not to be usable memory.
ASSUME GapAssumption ==
    \A i, j \in 1 .. Len(MemMap) :
        i # j /\ MemMap[i].free /\ MemMap[j].free => Disjoint(Covered(MemMap[i]), Covered(MemMap[j]))

ASSUME PageAssumption ==
    /\ PAGE_SIZE \in Nat \ {0} /\ BITS_PER_WORD \in Nat \ {0} /\ WordSize \in Nat \ {0}
    /\ Runs \subseteq Nat

VARIABLES
    phys_mblocks,   \* the managers of the regions, free_block_count of them
    held            \* history: the runs of pages callers have

vars == <<phys_mblocks, held>>

-----------------------------------------------------------------------------
(* setup_physical_memory_management.                                       *)

\* Bits behind the last page stay 1.
Manager(e) ==
    [base_address |-> e.ptr + (Words(e) * WordSize),
     num_pages |-> NumPages(e),
     bitmap |-> BitmapPages(e) .. (Words(e) * BITS_PER_WORD) - 1]

\* The array keeps the managers in the order of the map: the index of a manager
\* is here that of its entry.
FreeEntries == {i \in 1 .. Len(MemMap) : MemMap[i].free}

Managers == DOMAIN phys_mblocks

Init == phys_mblocks = << >> /\ held = {}

Setup ==
    /\ Managers = {}
    /\ phys_mblocks' = [i \in FreeEntries |-> Manager(MemMap[i])]
    /\ UNCHANGED held

-----------------------------------------------------------------------------
(* Pages and addresses.                                                    *)

PagesOf(m) == 0 .. m.num_pages - 1

Address(m, page) == m.base_address + (page * PAGE_SIZE)

Manages(m, address) == m.base_address <= address /\ address < Address(m, m.num_pages)

PageIndex(m, address) == (address - m.base_address) \div PAGE_SIZE

\* Pages first .. first + n - 1.
Run(first, n) == first .. first + n - 1

-----------------------------------------------------------------------------
(* Allocation.                                                             *)

\* The pages find_first_free_page and find_contiguous_free_pages look for.
FreeRuns(m, n) == {s \in PagesOf(m) : n > 0 /\ Run(s, n) \subseteq m.bitmap \cap PagesOf(m)}

\* Mutant: a page in use does not end the run.
CountOn(m, n) ==
    LET after[k \in 0 .. m.num_pages] ==
            IF k = 0 THEN [count |-> 0, found |-> -1]
            ELSE IF after[k - 1].found # -1 \/ k - 1 \notin m.bitmap THEN after[k - 1]
            ELSE [count |-> after[k - 1].count + 1,
                  found |-> IF after[k - 1].count + 1 = n THEN k - n ELSE -1]
    IN  after

\* How find_contiguous_free_pages looks for them: it counts free pages, anew
\* after each page in use; the count and the result after the first k pages.
Counted(m, n) ==
    LET after[k \in 0 .. m.num_pages] ==
            IF k = 0 THEN [count |-> 0, found |-> -1]
            ELSE IF after[k - 1].found # -1 THEN after[k - 1]
            ELSE IF k - 1 \notin m.bitmap THEN [count |-> 0, found |-> -1]
            ELSE [count |-> after[k - 1].count + 1,
                  found |-> IF after[k - 1].count + 1 = n THEN k - n ELSE -1]
    IN  after

\* The first page of the run, -1 when there is none.
Scan(m, n) == Counted(m, n)[m.num_pages].found

-----------------------------------------------------------------------------
(* The operations.  Callers free each run once, by any address in its      *)
(* first page, and with the number of pages they asked for.                *)

RunOf(i, s, n) == [manager |-> i, first |-> s, pages |-> n]

\* Managers with a free run; the first of them is used.
Having(n) == {i \in Managers : FreeRuns(phys_mblocks[i], n) # {}}

\* Mutant: the last page of the run stays free.
AllocateMarksFewer(n) ==
    LET i == Min(Having(n))
        s == Min(FreeRuns(phys_mblocks[i], n))
    IN  /\ Having(n) # {}
        /\ phys_mblocks' = [phys_mblocks EXCEPT ![i].bitmap = @ \ Run(s, n - 1)]
        /\ held' = held \cup {RunOf(i, s, n)}

\* bitmap_allocate_page is the case n = 1.  NULL changes nothing.
Allocate(n) ==
    LET i == Min(Having(n))
        s == Min(FreeRuns(phys_mblocks[i], n))
    IN  /\ Having(n) # {}
        /\ phys_mblocks' = [phys_mblocks EXCEPT ![i].bitmap = @ \ Run(s, n)]
        /\ held' = held \cup {RunOf(i, s, n)}

\* The manager whose pages hold the address, all n of them.
Managing(address, n) ==
    {i \in Managers :
        /\ Manages(phys_mblocks[i], address)
        /\ PageIndex(phys_mblocks[i], address) + n <= phys_mblocks[i].num_pages}

\* Mutant: only the page of the address is freed.
ReleaseFirst(address, n) ==
    LET i == Min(Managing(address, n))
        s == PageIndex(phys_mblocks[i], address)
    IN  phys_mblocks' = [phys_mblocks EXCEPT ![i].bitmap = @ \cup {s}]

Release(address, n) ==
    LET i == Min(Managing(address, n))
        s == PageIndex(phys_mblocks[i], address)
    IN  phys_mblocks' = [phys_mblocks EXCEPT ![i].bitmap = @ \cup Run(s, n)]

\* bitmap_free_page is the case of one page: its check of the range is then
\* that of Manages.  An address that no manager has returns false.
Free(address, n) == Managing(address, n) # {} /\ Release(address, n)

bitmap_allocate_page == Allocate(1)
bitmap_allocate_pages == \E n \in Runs : Allocate(n)

FreeRun(r) ==
    \E offset \in {0, PAGE_SIZE - 1} :
        /\ Free(Address(phys_mblocks[r.manager], r.first) + offset, r.pages)
        /\ held' = held \ {r}

bitmap_free_page == \E r \in held : r.pages = 1 /\ FreeRun(r)
bitmap_free_pages == \E r \in held : FreeRun(r)

Next ==
    \/ Setup
    \/ bitmap_allocate_page
    \/ bitmap_allocate_pages
    \/ bitmap_free_page
    \/ bitmap_free_pages

Spec == Init /\ [][Next]_vars

-----------------------------------------------------------------------------
HeldPages(i) == UNION {Run(r.first, r.pages) : r \in {h \in held : h.manager = i}}

\* The pages of a region are the free ones, those callers have and the ones
\* set aside for the bitmap: no sequence of calls of bitmap_allocate_page(s)
\* and bitmap_free_page(s) loses a page or frees one that a caller has.
PagesAccounted ==
    \A i \in Managers :
        LET m == phys_mblocks[i]
        IN  m.bitmap \cap PagesOf(m) =
                Run(BitmapPages(MemMap[i]), m.num_pages - BitmapPages(MemMap[i])) \ HeldPages(i)

\* The scans of find_first_free_page and find_contiguous_free_pages return
\* the first run of free pages of the region if there is one, and -1
\* otherwise, on every bitmap the allocator reaches.
ScanFindsFirstRun ==
    \A i \in Managers : \A n \in Runs \cup {0, 1} :
        LET free == FreeRuns(phys_mblocks[i], n)
        IN  Scan(phys_mblocks[i], n) = IF free = {} THEN -1 ELSE Min(free)

\* The blocks callers have, and the memory the managers cover: the regions
\* and what lies behind them up to the end of the last page.
HeldBlocks ==
    {[address |-> Address(phys_mblocks[r.manager], r.first), size |-> r.pages * PAGE_SIZE] : r \in held}

CoveredBlocks == {Covered(MemMap[i]) : i \in FreeEntries}

Held == INSTANCE Allocator WITH Usable <- CoveredBlocks, held <- HeldBlocks

\* To its callers the page allocator is an allocator: what it hands out
\* overlaps nothing another caller has, in memory the managers cover.
ImplementsAllocator == Held!Spec
=============================================================================
