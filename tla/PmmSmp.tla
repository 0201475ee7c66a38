------------------------------- MODULE PmmSmp -------------------------------
(***************************************************************************)
(* memory/pmm.c as the boot path runs it: every core calls                 *)
(* physical_memory_init, whose loop is under init_memory_lock, and then    *)
(* allocates (init_user_program_memory, map_4kb_page) under no lock.       *)
(*                                                                         *)
(* The kernel is compiled without optimisation, so each statement of       *)
(* allocate_memory is its own loads and stores; one action is one shared   *)
(* access.  The test of free_blocks and of the slot's size are one action: *)
(* free_blocks only grows, so the pair takes effect at the second read.    *)
(***************************************************************************)
EXTENDS MemoryBlocks, FiniteSets

CONSTANTS
    Cores, NoCore,
    MemMap,         \* the memory map
    NUM_BLOCKS,     \* slots in each array
    Requests,       \* the sizes each core asks for after the initialisation
    Width           \* 2^64 in the code: sizes and addresses wrap

ASSUME MemMapAssumption == IsMemoryMap(MemMap)

ASSUME MachineAssumption == IsFiniteSet(Cores) /\ NUM_BLOCKS \in Nat

VARIABLES
    init_memory_lock,
    count,          \* free_blocks and used_blocks
    blocks,         \* free_memory_blocks and used_memory_blocks
    pc,             \* the next statement of each core
    entry,          \* init_blocks: the map entry, one per core
    request,        \* the request a core is serving
    slot,           \* allocate_memory: the loop variable
    address,        \* allocate_memory: the local of that name
    register,       \* the value between the load and the store of a statement
    granted         \* history: what each request returned, NULL left out

locals == <<entry, request, slot, address, register>>
vars == <<init_memory_lock, count, blocks, pc, locals, granted>>

Slots == 0 .. NUM_BLOCKS - 1
Lists == {"free", "used"}
ListOf(e) == IF e.free THEN "free" ELSE "used"

Init ==
    /\ init_memory_lock = 0
    /\ count = [l \in Lists |-> 0]
    /\ blocks = [l \in Lists |-> [k \in Slots |-> Empty]]
    /\ pc = [c \in Cores |-> "start"]
    /\ entry = [c \in Cores |-> 1]
    /\ request = [c \in Cores |-> 1]
    /\ slot = [c \in Cores |-> 0]
    /\ address = [c \in Cores |-> 0]
    /\ register = [c \in Cores |-> 0]
    /\ granted = {}

Goto(c, from, to) == pc[c] = from /\ pc' = [pc EXCEPT ![c] = to]

-----------------------------------------------------------------------------
(* init_blocks.                                                            *)

CallInit(c) ==
    /\ Goto(c, "start", "acquire")
    /\ UNCHANGED <<init_memory_lock, count, blocks, locals, granted>>

\* Mutant: the lock is not looked at.
EnterAnyway(c) ==
    /\ Goto(c, "acquire", "fill")
    /\ init_memory_lock' = 1
    /\ UNCHANGED <<count, blocks, locals, granted>>

AcquireLock(c) ==
    /\ Goto(c, "acquire", IF init_memory_lock = 1 THEN "pause" ELSE "fill")
    /\ init_memory_lock' = 1
    /\ UNCHANGED <<count, blocks, locals, granted>>

Pause(c) ==
    /\ Goto(c, "pause", "acquire")
    /\ UNCHANGED <<init_memory_lock, count, blocks, locals, granted>>

\* The entry is written to the slot the counter names ...
FillSlot(c) ==
    LET e == MemMap[entry[c]]
    IN  /\ Goto(c, "fill", "count")
        /\ count[ListOf(e)] \in Slots
        /\ blocks' = [blocks EXCEPT ![ListOf(e)][count[ListOf(e)]] = Region(e)]
        /\ UNCHANGED <<init_memory_lock, count, locals, granted>>

\* ... and then the counter is incremented.
CountSlot(c) ==
    /\ Goto(c, "count", IF entry[c] = Len(MemMap) THEN "release" ELSE "fill")
    /\ count' = [count EXCEPT ![ListOf(MemMap[entry[c]])] = @ + 1]
    /\ entry' = [entry EXCEPT ![c] = @ + 1]
    /\ UNCHANGED <<init_memory_lock, blocks, request, slot, address, register, granted>>

\* Mutant: the lock is left set.
LeaveLocked(c) ==
    /\ Goto(c, "release", "scan")
    /\ UNCHANGED <<init_memory_lock, count, blocks, locals, granted>>

ReleaseLock(c) ==
    /\ Goto(c, "release", "scan")
    /\ init_memory_lock' = 0
    /\ UNCHANGED <<count, blocks, locals, granted>>

-----------------------------------------------------------------------------
(* allocate_memory, once for each request.                                 *)

Size(c) == Requests[request[c]]
Free(c) == blocks["free"][slot[c]]
Minus(x, y) == (x + Width - y) % Width
Plus(x, y) == (x + y) % Width

\* Past the last block: the request returns NULL.
OutOfMemory(c) ==
    /\ request[c] <= Len(Requests)
    /\ slot[c] >= count["free"]
    /\ Goto(c, "scan", "scan")
    /\ request' = [request EXCEPT ![c] = @ + 1]
    /\ slot' = [slot EXCEPT ![c] = 0]
    /\ UNCHANGED <<init_memory_lock, count, blocks, entry, address, register, granted>>

SkipBlock(c) ==
    /\ request[c] <= Len(Requests)
    /\ slot[c] < count["free"] /\ Free(c).size < Size(c)
    /\ Goto(c, "scan", "scan")
    /\ slot' = [slot EXCEPT ![c] = @ + 1]
    /\ UNCHANGED <<init_memory_lock, count, blocks, entry, request, address,
                   register, granted>>

ChooseBlock(c) ==
    /\ request[c] <= Len(Requests)
    /\ slot[c] < count["free"] /\ Free(c).size >= Size(c)
    /\ Goto(c, "scan", "take")
    /\ UNCHANGED <<init_memory_lock, count, blocks, locals, granted>>

TakeAddress(c) ==
    /\ Goto(c, "take", "load_address")
    /\ address' = [address EXCEPT ![c] = Free(c).address]
    /\ UNCHANGED <<init_memory_lock, count, blocks, entry, request, slot, register,
                   granted>>

LoadAddress(c) ==
    /\ Goto(c, "load_address", "store_address")
    /\ register' = [register EXCEPT ![c] = Plus(Free(c).address, Size(c))]
    /\ UNCHANGED <<init_memory_lock, count, blocks, entry, request, slot, address,
                   granted>>

StoreAddress(c) ==
    /\ Goto(c, "store_address", "load_size")
    /\ blocks' = [blocks EXCEPT !["free"][slot[c]].address = register[c]]
    /\ UNCHANGED <<init_memory_lock, count, locals, granted>>

LoadSize(c) ==
    /\ Goto(c, "load_size", "store_size")
    /\ register' = [register EXCEPT ![c] = Minus(Free(c).size, Size(c))]
    /\ UNCHANGED <<init_memory_lock, count, blocks, entry, request, slot, address,
                   granted>>

\* The last store; the request returns the address read first.
StoreSize(c) ==
    /\ Goto(c, "store_size", "scan")
    /\ blocks' = [blocks EXCEPT !["free"][slot[c]].size = register[c]]
    /\ granted' = granted \cup
          {[core |-> c, request |-> request[c], address |-> address[c],
            size |-> Size(c)]}
    /\ request' = [request EXCEPT ![c] = @ + 1]
    /\ slot' = [slot EXCEPT ![c] = 0]
    /\ UNCHANGED <<init_memory_lock, count, entry, address, register>>

Halt(c) ==
    /\ request[c] > Len(Requests)
    /\ Goto(c, "scan", "halted")
    /\ UNCHANGED <<init_memory_lock, count, blocks, locals, granted>>

Step(c) ==
    \/ CallInit(c) \/ AcquireLock(c) \/ Pause(c) \/ FillSlot(c) \/ CountSlot(c)
    \/ ReleaseLock(c)
    \/ OutOfMemory(c) \/ SkipBlock(c) \/ ChooseBlock(c) \/ TakeAddress(c)
    \/ LoadAddress(c) \/ StoreAddress(c) \/ LoadSize(c) \/ StoreSize(c)
    \/ Halt(c)

Next == \E c \in Cores : Step(c)

Spec == Init /\ [][Next]_vars

\* Every core keeps executing instructions.
FairSpec == Spec /\ \A c \in Cores : WF_vars(Step(c))

-----------------------------------------------------------------------------
\* A core is in the region the lock protects.
Locked(c) == pc[c] \in {"fill", "count", "release"}

\* Where each core is for the spinlock.
lockPlaces ==
    [c \in Cores |-> CASE pc[c] = "acquire" -> "acquiring"
                       [] pc[c] = "pause"   -> "pausing"
                       [] Locked(c)         -> "inside"
                       [] OTHER             -> "outside"]

Lock == INSTANCE Spinlock WITH lock <- init_memory_lock, pc <- lockPlaces

\* init_blocks uses the spinlock as the spinlock is meant to be used, whatever
\* the allocations of the cores that are already past it do.
UsesSpinlock == Lock!Spec

\* No map entry is lost to another core's concurrent init_blocks: a reserved
\* region is in the used list as often as cores have counted it.
EveryPassRecorded ==
    \A i \in 1 .. Len(MemMap) : ~MemMap[i].free =>
        Cardinality({k \in Slots : k < count["used"]
                                   /\ blocks["used"][k] = Region(MemMap[i])})
      = Cardinality({c \in Cores : entry[c] > i})

\* Every core gets through init_blocks and its allocations: the lock is always
\* released, each core takes it once only, and the scans end.
EveryCoreHalts == <>(\A c \in Cores : pc[c] = "halted")

\* kernel.c:28: the code runs on all cores in parallel, so the blocks that
\* their requests return have no address in common.
GrantsDisjoint == \A g, h \in granted : g # h => Disjoint(g, h)
=============================================================================
