------------------------------- MODULE Paging -------------------------------
(***************************************************************************)
(* memory/paging.c and its callers: apic_init and ioapic_init map their    *)
(* device, init_user_program_memory (memory/vmm.c) maps a program,         *)
(* new_paging gives a process tables of its own.                           *)
(*                                                                         *)
(* The four levels are there; a table has Entries entries instead of 512   *)
(* and a page Unit addresses instead of 4096, and every number that        *)
(* depends on those (the size of a large page, the bit PAGE_LARGE) scales  *)
(* with them.  Of an entry's bits the model keeps P, PS and the address.   *)
(* The kernel reaches tables through the loader's identity mapping: its    *)
(* own accesses are not translated here.                                   *)
(***************************************************************************)
EXTENDS Naturals, Sequences, FiniteSets, SequencesExt

CONSTANTS
    Entries,        \* entries per table
    Unit,           \* addresses per page
    Pointer,        \* size of the pointer aligned_alloc stores
    Frames,         \* page frames of the machine: 0 .. Frames - 1
    Pages,          \* the pages told apart, a part of the address space
    FirstFree,      \* where the free block of the allocator starts
    EndFree,        \* ... and ends
    LoaderTables,   \* the boot loader's tables: frame |-> table
    LoaderCr3,      \* ... and their root
    LowMemory,      \* what the table-sized frame 0 may hold at boot
    Devices,        \* the pages and frames apic_init and ioapic_init map
    ProgramStart, ProgramPages, StackPage,
    Mappings, LargeMappings, Unmappings,
                    \* what else callers map and unmap
    OtherSizes,     \* sizes that other callers of allocate_memory ask for
    MaxOps          \* bound on the number of calls

VARIABLES
    mem,            \* what each frame holds, read as a table
    next,           \* start of the allocator's free block
    cr3,
    bootboot_paging,\* the loader's root, or NULL before the first new_paging
    tlb,            \* per page, the frames the TLB may hold for it
    given,          \* history: frames given to tables and programs, in order
    orderly,        \* history: no call so far left what paging.c can do
    ops             \* history: calls so far

vars == <<mem, next, cr3, bootboot_paging, tlb, given, orderly, ops>>

NULL == 0
Index == 0 .. Entries - 1
Frame == 0 .. Frames - 1

Entry == [present : BOOLEAN, large : BOOLEAN, frame : Frame]
Zero == [present |-> FALSE, large |-> FALSE, frame |-> 0]
Leaf(f) == [present |-> TRUE, large |-> FALSE, frame |-> f]

\* The pages that an entry stands for at levels 1 .. 4; level 4 is the PML4.
Span == <<1, Entries, Entries * Entries, Entries * Entries * Entries>>

\* The index a page has at a level.
At(page, level) == (page \div Span[level]) % Entries

\* PAGE_LARGE is 2 * 1024 * 1024, bit 21, and not PTE_HUGE, bit 7: the lowest
\* address bit that tells large pages apart.
LargeBit(f) == (f \div Entries) % 2 = 1
WithLargeBit(f) == IF LargeBit(f) THEN f ELSE f + Entries

-----------------------------------------------------------------------------
(* What the processor makes of the tables.                                 *)

Unmapped == Frames

\* The frame a page is in.  The walk looks at one entry per level, in the table
\* that the entry above it names, and ends at the first one that is not present,
\* large or of level 1.
Resolve(m, root, page) ==
    LET entry[level \in 1 .. 4] ==
            m[IF level = 4 THEN root ELSE entry[level + 1].frame][At(page, level)]
        Ends(level) == \/ ~entry[level].present
                       \/ entry[level].large /\ level # 4
                       \/ level = 1
        last == CHOOSE level \in 1 .. 4 :
                    Ends(level) /\ \A above \in level + 1 .. 4 : ~Ends(above)
        e == entry[last]
    IN  IF e.present THEN (e.frame - (e.frame % Span[last])) + (page % Span[last])
        ELSE Unmapped

\* Mutant: large pages are taken for tables.
TranslateSmall(page) ==
    LET pml4e == mem[cr3][At(page, 4)]
        pdpte == mem[pml4e.frame][At(page, 3)]
        pde == mem[pdpte.frame][At(page, 2)]
        pte == mem[pde.frame][At(page, 1)]
    IN  IF pml4e.present /\ pdpte.present /\ pde.present /\ pte.present
          THEN pte.frame ELSE Unmapped

\* translate_virtual_to_physical, as a frame.
Translate(page) ==
    LET pml4e == mem[cr3][At(page, 4)]
        pdpte == mem[pml4e.frame][At(page, 3)]
        pde == mem[pdpte.frame][At(page, 2)]
        pte == mem[pde.frame][At(page, 1)]
    IN  CASE ~pml4e.present -> Unmapped
          [] pml4e.present /\ ~pdpte.present -> Unmapped
          [] pml4e.present /\ pdpte.present /\ pdpte.large ->
                ((pdpte.frame \div Span[3]) * Span[3]) + (page % Span[3])
          [] OTHER ->
                IF ~pde.present THEN Unmapped
                ELSE IF pde.large
                     THEN ((pde.frame \div Span[2]) * Span[2]) + (page % Span[2])
                ELSE IF pte.present THEN pte.frame ELSE Unmapped

-----------------------------------------------------------------------------
(* Calls as functions from a state of memory to the next one.              *)

Now == [mem |-> mem, next |-> next, given |-> given, orderly |-> orderly,
        flushed |-> {}, complete |-> TRUE]

Disorderly(s, bad) == [s EXCEPT !.orderly = @ /\ ~bad]

SetEntry(s, table, i, e) == [s EXCEPT !.mem[table][i] = e]

\* allocate_memory: first fit in the one free block there is.
HasMemory(s, size) == s.next + size <= EndFree
Took(s, size) == IF HasMemory(s, size) THEN [s EXCEPT !.next = @ + size] ELSE s

Empty(table) == \A i \in Index : table[i] = Zero

\* Mutant: room for half a table.
HalfTable(s, table, i) ==
    IF s.mem[table][i].present THEN s
    ELSE IF ~HasMemory(s, Unit \div 2) THEN Disorderly(s, TRUE)
    ELSE LET f == s.next \div Unit
             e == [present |-> TRUE, large |-> (s.next \div 2) % 2 = 1, frame |-> f]
         IN  Disorderly(
                [SetEntry(Took(s, Unit \div 2), table, i, e)
                    EXCEPT !.given = Append(@, f)],
                e.large \/ ~Empty(s.mem[f]))

\* Mutant: a new table whether there is one or not.
CreateAlways(s, table, i) ==
    IF ~HasMemory(s, Unit) THEN Disorderly(s, TRUE)
    ELSE LET f == s.next \div Unit
         IN  [SetEntry(Took(s, Unit), table, i, Leaf(f)) EXCEPT !.given = Append(@, f)]

\* create_or_get_table: the new table is not cleared, and the low bits of its
\* address stay in the entry (bit 0 is P anyway, the next kept one is PS).
CreateTable(s, table, i) ==
    IF s.mem[table][i].present THEN s
    ELSE IF ~HasMemory(s, Unit) THEN Disorderly(s, TRUE)
    ELSE LET f == s.next \div Unit
             e == [present |-> TRUE, large |-> (s.next \div 2) % 2 = 1, frame |-> f]
         IN  Disorderly(
                [SetEntry(Took(s, Unit), table, i, e) EXCEPT !.given = Append(@, f)],
                e.large \/ ~Empty(s.mem[f]))

\* The table it returns, and the state: NULL, which is frame 0, when memory has
\* run out.
GetTable(d, page, level) ==
    LET s == CreateTable(d.s, d.table, At(page, level))
        e == s.mem[d.table][At(page, level)]
    IN  [s |-> Disorderly(s, e.present /\ e.large),
         table |-> IF e.present THEN e.frame ELSE NULL]

Directory(s, page) == GetTable(GetTable([s |-> s, table |-> cr3], page, 4), page, 3)
PageTable(s, page) == GetTable(Directory(s, page), page, 2)

\* map_4kb_page.  It does not invalidate: a page that was mapped to another
\* frame stays in the TLB.
Map4kb(s, page, frame) ==
    LET d == PageTable(s, page)
        old == d.s.mem[d.table][At(page, 1)]
    IN  Disorderly(SetEntry(d.s, d.table, At(page, 1), Leaf(frame)),
                   old.present /\ old.frame # frame)

\* map_2mb_page: PAGE_LARGE lands in the address, PS stays clear.
Map2mb(s, page, frame) ==
    LET d == Directory(s, page)
    IN  Disorderly(SetEntry(d.s, d.table, At(page, 2), Leaf(WithLargeBit(frame))), TRUE)

\* Mutant: the 4 KB case returns before invlpg too.
UnmapUnflushed(s, page) ==
    LET pml4e == s.mem[cr3][At(page, 4)]
        pdpte == s.mem[pml4e.frame][At(page, 3)]
        pde == s.mem[pdpte.frame][At(page, 2)]
    IN  IF ~pml4e.present \/ ~pdpte.present THEN s
        ELSE IF LargeBit(pde.frame)
             THEN Disorderly(SetEntry(s, pdpte.frame, At(page, 2), Zero), TRUE)
        ELSE IF ~pde.present THEN s
        ELSE Disorderly(SetEntry(s, pde.frame, At(page, 1), Zero), pde.large)

\* unmap_page.
Unmap(s, page) ==
    LET pml4e == s.mem[cr3][At(page, 4)]
        pdpte == s.mem[pml4e.frame][At(page, 3)]
        pde == s.mem[pdpte.frame][At(page, 2)]
    IN  IF ~pml4e.present \/ ~pdpte.present THEN s
        ELSE IF LargeBit(pde.frame)
             THEN Disorderly(SetEntry(s, pdpte.frame, At(page, 2), Zero), TRUE)
        ELSE IF ~pde.present THEN s
        ELSE Disorderly([SetEntry(s, pde.frame, At(page, 1), Zero)
                            EXCEPT !.flushed = @ \cup {page}], pde.large)

-----------------------------------------------------------------------------
(* clone_higher_half: the whole hierarchy, table by table, in index order. *)

AlignedSize == Unit + Unit - 1 + Pointer
AlignedFrame(s) == (s.next + Unit - 1 + Pointer) \div Unit

\* A copy of a table in memory of its own; when memory runs out the call gives
\* up and keeps what it took.
CopyTable(s, source) ==
    LET f == AlignedFrame(s)
    IN  IF HasMemory(s, AlignedSize)
          THEN [Took(s, AlignedSize) EXCEPT !.mem[f] = s.mem[source],
                                            !.given = Append(@, f)]
          ELSE [s EXCEPT !.complete = FALSE]

\* The copy of the table that an entry names, which then names the copy.
CopyTarget(s, table, i) ==
    LET named == IF HasMemory(s, AlignedSize)
                   THEN [s EXCEPT !.mem[table][i].frame = AlignedFrame(s)] ELSE s
    IN  CopyTable(named, s.mem[table][i].frame)

\* Clone for every entry of a table that is present, until memory runs out.
ForEachPresent(s, table, Clone(_, _, _)) ==
    LET after[i \in 0 .. Entries] ==
            IF i = 0 THEN s
            ELSE LET t == after[i - 1]
                 IN  IF t.complete /\ t.mem[table][i - 1].present
                       THEN Clone(t, table, i - 1) ELSE t
    IN  after[Entries]

\* Mutant: the page tables themselves are not copied.
SharePageTables(s, table, i) == s

ClonePde(s, table, i) ==
    IF s.mem[table][i].large THEN s ELSE CopyTarget(s, table, i)

ClonePdpte(s, table, i) ==
    Disorderly(ForEachPresent(CopyTarget(s, table, i), AlignedFrame(s), ClonePde),
               s.mem[table][i].large)

ClonePml4e(s, table, i) ==
    ForEachPresent(CopyTarget(s, table, i), AlignedFrame(s), ClonePdpte)

CloneHigherHalf(s, root) ==
    ForEachPresent(CopyTable(s, root), AlignedFrame(s), ClonePml4e)

-----------------------------------------------------------------------------
(* init_user_program_memory (memory/vmm.c).                                *)

\* The pages are mapped for the program and unmapped at their own address.
MapProgram(s, address) ==
    LET first == address \div Unit
        after[i \in 0 .. ProgramPages] ==
            IF i = 0 THEN s
            ELSE Unmap(Map4kb(after[i - 1], ProgramStart + i - 1, first + i - 1),
                       first + i - 1)
    IN  after[ProgramPages]

InitUserProgram(s) ==
    LET program == ProgramPages * Unit
        s1 == Took(s, program)
        s2 == Took(s1, Unit)
        stack == s1.next \div Unit
        s3 == [s2 EXCEPT !.given = @ \o
                  [k \in 1 .. ProgramPages |-> (s.next \div Unit) + k - 1]
                  \o <<stack>>]
    IN  IF HasMemory(s, program) /\ HasMemory(s1, Unit)
          THEN Map4kb(MapProgram(s3, s.next), StackPage, stack)
          ELSE s2

-----------------------------------------------------------------------------
(* The calls.                                                              *)

NoTable == [i \in Index |-> Zero]

Init ==
    /\ \E low \in LowMemory :
          mem = [f \in Frame |->
                    IF f \in DOMAIN LoaderTables THEN LoaderTables[f]
                    ELSE IF f = 0 THEN low ELSE NoTable]
    /\ next = FirstFree
    /\ cr3 = LoaderCr3
    /\ bootboot_paging = NULL
    /\ tlb = [p \in Pages |-> {}]
    /\ given = << >>
    /\ orderly = TRUE
    /\ ops = 0

\* The state s becomes the current one, with root in CR3.  The TLB may keep
\* every translation the tables have had since the page was last invalidated.
Become(s, root) ==
    /\ ops < MaxOps
    /\ ops' = ops + 1
    /\ mem' = s.mem /\ next' = s.next /\ given' = s.given /\ orderly' = s.orderly
    /\ cr3' = root
    /\ tlb' = [p \in Pages |->
                  (IF root # cr3 \/ p \in s.flushed THEN {} ELSE tlb[p])
                  \cup ({Resolve(s.mem, root, p)} \ {Unmapped})]

MapDevice(d) == Become(Map4kb(Now, d.page, d.frame), cr3) /\ UNCHANGED bootboot_paging

CallMap(m) == Become(Map4kb(Now, m.page, m.frame), cr3) /\ UNCHANGED bootboot_paging

CallMapLarge(m) == Become(Map2mb(Now, m.page, m.frame), cr3) /\ UNCHANGED bootboot_paging

CallUnmap(p) == Become(Unmap(Now, p), cr3) /\ UNCHANGED bootboot_paging

InitUserProgramMemory == Become(InitUserProgram(Now), cr3) /\ UNCHANGED bootboot_paging

\* Another caller of allocate_memory.
OtherAllocation(size) ==
    /\ HasMemory(Now, size)
    /\ Become(Took(Now, size), cr3)
    /\ UNCHANGED bootboot_paging

\* Mutant: what clone_higher_half returns goes to CR3 unchecked.
NewPagingUnchecked ==
    LET root == IF bootboot_paging = NULL THEN cr3 ELSE bootboot_paging
    IN  /\ bootboot_paging' = root
        /\ Become(CloneHigherHalf(Now, root), AlignedFrame(Now))

\* The root that is cloned is the first one, whatever CR3 holds now.
NewPaging ==
    LET root == IF bootboot_paging = NULL THEN cr3 ELSE bootboot_paging
        s == CloneHigherHalf(Now, root)
    IN  /\ bootboot_paging' = root
        /\ Become(s, IF s.complete THEN AlignedFrame(Now) ELSE cr3)

Next ==
    \/ \E d \in Devices : MapDevice(d)
    \/ \E m \in Mappings : CallMap(m)
    \/ \E m \in LargeMappings : CallMapLarge(m)
    \/ \E p \in Unmappings : CallUnmap(p)
    \/ InitUserProgramMemory
    \/ \E size \in OtherSizes : OtherAllocation(size)
    \/ NewPaging

Spec == Init /\ [][Next]_vars

-----------------------------------------------------------------------------
Where(p) == Resolve(mem, cr3, p)

\* Although allocate_memory returns addresses inside a page and the entries
\* drop the offset, no two tables and no table and a program share a frame.
FramesGivenOnce ==
    /\ IsInjective(given)
    /\ ToSet(given) \cap DOMAIN LoaderTables = {}

\* translate_virtual_to_physical finds what the processor finds, whatever has
\* become of the tables.
TranslateIsWalk == \A p \in Pages : Translate(p) = Where(p)

\* As long as the calls are orderly, a call that maps or unmaps a page changes
\* where that page is and no other one.
CallsAreLocal ==
    [][orderly' =>
         /\ \A m \in Mappings \cup Devices : CallMap(m) =>
               \A p \in Pages : Where(p)' = IF p = m.page THEN m.frame ELSE Where(p)
         /\ \A u \in Unmappings : CallUnmap(u) =>
               \A p \in Pages : Where(p)' = IF p = u THEN Unmapped ELSE Where(p)
      ]_vars

\* new_paging gives every page the place the loader's tables give it, or, out
\* of memory in the middle of the copy, leaves every page where it was.
NewPagingKeepsPages ==
    [][orderly' /\ NewPaging =>
         \A p \in Pages :
            Where(p)' = IF cr3' = cr3 THEN Where(p) ELSE Resolve(mem, bootboot_paging', p)
      ]_vars

\* A process with tables of its own changes nothing in the loader's, from
\* which the next process starts.
LoaderTablesKept ==
    [][orderly' /\ cr3 # LoaderCr3 =>
         \A p \in Pages : Resolve(mem', LoaderCr3, p) = Resolve(mem, LoaderCr3, p)]_vars

\* The TLB holds no translation that the tables no longer have.
TlbCoherent == orderly => \A p \in Pages : tlb[p] \subseteq {Where(p)}

\* paging.c:236: unmap_page works for 4 KB and for 2 MB pages, so preparing a
\* program leaves the pages of the devices mapped.
DevicesStayMapped ==
    [][\A d \in Devices : Where(d.page) = d.frame => Where(d.page)' = d.frame]_vars
=============================================================================
