------------------------------- MODULE MCMemory -------------------------------
(***************************************************************************)
(* The block manager (Pmm) and paging (Paging) side by side, on the maps   *)
(* of MCPmm and the machine of PcMachine.  They have no state in common    *)
(* (Paging keeps the one free block it allocates from itself).  A          *)
(* behaviour is one of a single system, whichever is active; the other     *)
(* stays in one of its initial states.                                     *)
(***************************************************************************)
EXTENDS MCPmm, PcMachine

CONSTANTS
    Entries, Unit, Pointer, Frames, Pages, FirstFree, EndFree, LoaderTables, LoaderCr3,
    LowMemory, Devices, ProgramStart, ProgramPages, StackPage, Mappings, LargeMappings,
    Unmappings, OtherSizes, MaxOps

VARIABLES
    active,         \* the system that runs: "pmm", "paging"
    mem, next, cr3, bootboot_paging, tlb, given, orderly, ops

Tables == INSTANCE Paging

\* The machine's numbers, its free block, the loader's tables outside of it, and
\* what may be asked for.
ASSUME MachineAssumption ==
    /\ Entries \in Nat \ {0} /\ Unit \in Nat \ {0} /\ Frames \in Nat \ {0}
    /\ Pointer \in Nat
    /\ FirstFree \in Nat /\ EndFree \in Nat
    /\ FirstFree <= EndFree /\ EndFree <= Frames * Unit

ASSUME LoaderAssumption ==
    /\ LoaderCr3 \in Tables!Frame
    /\ DOMAIN LoaderTables \subseteq Tables!Frame
    /\ \A f \in DOMAIN LoaderTables :
          /\ LoaderTables[f] \in [Tables!Index -> Tables!Entry]
          /\ f < FirstFree \div Unit \/ EndFree \div Unit <= f
    /\ LowMemory \subseteq [Tables!Index -> Tables!Entry]

ASSUME CallsAssumption ==
    /\ Pages \subseteq Nat
    /\ Devices \cup Mappings \subseteq [page : Nat, frame : Tables!Frame]
    /\ \A m \in LargeMappings :
          m.page \in Nat /\ m.frame \in Nat /\ Tables!WithLargeBit(m.frame) \in Tables!Frame
    /\ Unmappings \subseteq Nat /\ OtherSizes \subseteq Nat
    /\ ProgramStart \in Nat /\ ProgramPages \in Nat /\ StackPage \in Nat

\* The loader's tables form a tree: each is of one of the four levels and named by
\* one entry of a table of the next level, and large pages are of level 2 only.
ASSUME LoaderTreeAssumption ==
    \E level \in [DOMAIN LoaderTables -> 1 .. 4] :
        LET Names(f, i) == /\ level[f] # 1
                           /\ LoaderTables[f][i].present /\ ~LoaderTables[f][i].large
        IN  /\ LoaderCr3 \in DOMAIN LoaderTables /\ level[LoaderCr3] = 4
            /\ \A f \in DOMAIN LoaderTables, i \in Tables!Index :
                  /\ LoaderTables[f][i].present /\ LoaderTables[f][i].large => level[f] <= 2
                  /\ Names(f, i) => /\ LoaderTables[f][i].frame \in DOMAIN LoaderTables
                                    /\ level[LoaderTables[f][i].frame] = level[f] - 1
            /\ \A f, g \in DOMAIN LoaderTables, i, j \in Tables!Index :
                  Names(f, i) /\ Names(g, j) /\ LoaderTables[f][i].frame = LoaderTables[g][j].frame
                     => f = g /\ i = j

\* Calls name pages of the address space, in which memory has room at its own
\* addresses.
Space == Entries * Tables!Span[4]

ASSUME SpaceAssumption ==
    /\ Frames <= Space
    /\ Pages \cup Unmappings \subseteq 0 .. Space - 1
    /\ \A m \in Devices \cup Mappings : m.page \in 0 .. Space - 1

-----------------------------------------------------------------------------
tableVars == <<mem, next, cr3, bootboot_paging, tlb, given, orderly, ops>>

AllInit ==
    /\ active \in {"pmm", "paging"}
    /\ Init
    /\ Tables!Init /\ (active # "paging" => mem[0] = CHOOSE low \in LowMemory : TRUE)

AllNext ==
    /\ UNCHANGED active
    /\ \/ active = "pmm" /\ Next /\ UNCHANGED tableVars
       \/ active = "paging" /\ Tables!Next /\ UNCHANGED vars

AllSpec == AllInit /\ [][AllNext]_<<active, vars, tableVars>>

-----------------------------------------------------------------------------
(* The properties of Pmm keep their names.  Those of Paging speak of       *)
(* Paging's variables, which stand still when it is not active.            *)

\* A frame is given once, and none that the loader's tables take.
FramesGivenOnce == Tables!FramesGivenOnce

\* translate_virtual_to_physical agrees with the processor on any tables.
TranslateIsWalk == active = "paging" => Tables!TranslateIsWalk

\* The TLB holds nothing the tables no longer have.
TlbCoherent == active = "paging" => Tables!TlbCoherent

\* Mapping and unmapping a page changes no other one.
CallsAreLocal == Tables!CallsAreLocal

\* new_paging keeps every page where it was or where the loader's tables had it.
NewPagingKeepsPages == Tables!NewPagingKeepsPages

\* A process with tables of its own leaves the loader's alone.
LoaderTablesKept == Tables!LoaderTablesKept
=============================================================================
