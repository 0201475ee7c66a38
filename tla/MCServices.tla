------------------------------ MODULE MCServices ------------------------------
(***************************************************************************)
(* The parts that one core runs by itself, side by side: the page          *)
(* allocator (Phys), free_memory of the block manager (Pmm), the disk      *)
(* driver (Ata), the file system (Fsz), processes and scheduler            *)
(* (Scheduler), the windows (Desktop), the game (Snake) and the C library  *)
(* (CLib).  They have no state in common.  A behaviour is one of a single  *)
(* system, whichever is active; the others stay in an initial state.       *)
(***************************************************************************)
EXTENDS Phys

CONSTANTS
    BlockMap, NUM_BLOCKS, PtrSize, Sizes, Alignments, Reclaimable, MaxInits, MaxGrants,
    DriveKinds, Low, CountLow, Limit, Lbas, Counts,
    Files, Blocks, Byte, Inline, Sector, Lengths, MaxWrites, MaxFaults,
    TableSize, MaxThreads, MaxCreated,
    ScreenWidth, ScreenHeight, Modulus, MAX_WINDOWS, Windows, Stagger, Home,
    Buttons, Moves, Ack,
    WIDTH, HEIGHT, MaxGames,
    MemorySize, Chars, IntBits

\* Pmm: a memory map, and sizes with a meaning.
ASSUME BlocksAssumption ==
    /\ IsMemoryMap(BlockMap) /\ NUM_BLOCKS \in Nat /\ PtrSize \in Nat \ {0}
    /\ Sizes \subseteq Nat \ {0} /\ Alignments \subseteq Nat /\ Reclaimable \subseteq Nat
    /\ MaxInits \in Nat /\ MaxGrants \in Nat

\* Ata: registers of at least one value each; addresses and lengths are numbers.
ASSUME RegisterAssumption ==
    /\ Low \in Nat \ {0} /\ CountLow \in Nat \ {0}
    /\ Lbas \subseteq Nat /\ Counts \subseteq Nat

\* Fsz: finitely many files, and sizes with a meaning; a write of nothing is not
\* modelled.
ASSUME FilesAssumption ==
    /\ IsFiniteSet(Files) /\ Lengths \subseteq Nat \ {0}
    /\ Blocks \in Nat /\ Byte \in Nat \ {0} /\ Inline \in Nat /\ Sector \in Nat \ {0}

\* Scheduler: the process table.
ASSUME TableAssumption == TableSize \in Nat

\* Desktop: coordinates and lengths fit in their type.
ASSUME ScreenAssumption ==
    /\ ScreenWidth \in Nat /\ ScreenHeight \in Nat
    /\ Modulus \in Nat /\ ScreenWidth < Modulus /\ ScreenHeight < Modulus
    /\ Home \in Int /\ Stagger \in Nat /\ MAX_WINDOWS \in Nat
    /\ Buttons \subseteq Int /\ Moves \subseteq Int /\ Ack \in Int

\* Desktop: where create_window puts a window no larger than the screen, the
\* whole window is on the screen.  create_window does not test it, so this is
\* asked of its callers.
ASSUME WindowsAssumption ==
    /\ Windows \subseteq Nat \X Nat
    /\ \A size \in Windows, k \in 0 .. MAX_WINDOWS - 1 :
        size[1] <= ScreenWidth /\ size[2] <= ScreenHeight
        => Stagger * k + size[1] <= ScreenWidth /\ Stagger * k + size[2] <= ScreenHeight

\* Snake: the board has a place.
ASSUME BoardAssumption == WIDTH \in Nat \ {0} /\ HEIGHT \in Nat \ {0}

\* CLib: the values of bytes are numbers, one of them ends a string; an int has
\* at least one bit.
ASSUME CharsAssumption == MemorySize \in Nat /\ Chars \subseteq Nat /\ 0 \in Chars
ASSUME IntAssumption == IntBits \in Nat \ {0}

VARIABLES
    active,
    \* Pmm
    entry, inits, free_blocks, free_memory_blocks, used_blocks,
    used_memory_blocks, total_memory, saved, granted,
    \* Ata
    kinds, present, is_sata, large, selected, cur, prev, command, pos, left,
    busy, drq, err, task, drive, lba, sector_count, at, sector, result, clean,
    got, stored,
    \* Fsz
    marked, inodes, data, device_fd, access, fd, count, inode, block, writes,
    acknowledged, faults, long,
    \* Scheduler
    process_threads, current_thread, interrupts, assigned_process_id,
    next_thread_id, linked, lost, passed,
    \* Desktop
    mouse_x, mouse_y, mouse_byte, buffer, sent, reporting, routed, windows,
    old_left, place, moving,
    \* Snake
    snake, snake_length, food, dir, input, playing, games,
    \* CLib
    memory, number

blockVars == <<entry, inits, free_blocks, free_memory_blocks, used_blocks,
               used_memory_blocks, total_memory, saved, granted>>
driveVars == <<kinds, present, is_sata, large, selected, cur, prev, command, pos, left,
               busy, drq, err, task, drive, lba, sector_count, at, sector, result,
               clean, got, stored>>
fileVars == <<marked, inodes, data, device_fd, access, fd, count, inode, block, writes,
              acknowledged, faults, long>>
threadVars == <<process_threads, current_thread, interrupts, assigned_process_id,
                next_thread_id, linked, lost, passed>>
windowVars == <<mouse_x, mouse_y, mouse_byte, buffer, sent, reporting, routed, windows,
                old_left, place, moving>>
gameVars == <<snake, snake_length, food, dir, input, playing, games>>
libraryVars == <<memory, number>>

Lists == INSTANCE Pmm WITH MemMap <- BlockMap
Drives == INSTANCE Ata WITH i <- sector
FileSystem == INSTANCE Fsz WITH Counts <- Lengths, at <- access
Threading == INSTANCE Scheduler
Desk == INSTANCE Desktop WITH Sizes <- Windows, at <- place
Game == INSTANCE Snake
Library == INSTANCE CLib WITH Size <- MemorySize

-----------------------------------------------------------------------------
Usable(ptr, size) == [ptr |-> ptr, size |-> size, free |-> TRUE]
Reserved(ptr, size) == [ptr |-> ptr, size |-> size, free |-> FALSE]

\* For Phys: usable memory of less than a page, of five pages with a rest, of
\* seven.
RegionsMap == << Usable(0, 3), Usable(10, 23), Reserved(33, 5), Usable(40, 28) >>

\* For Pmm: reserved regions at every distance free_memory distinguishes, one
\* unit behind and one unit in front of usable memory, and next to none.
GapMap == << Usable(1, 3), Reserved(5, 2), Usable(8, 4), Reserved(16, 2),
             Reserved(20, 3), Usable(24, 3) >>

\* A drive whose signature is read as SATA and no slave; a CD drive taken for a
\* disk, and a disk beyond 28 bits.
Channels == {<<"signed", "none">>, <<"atapi", "big">>}

\* One size of window, which fits on the screen.
SmallWindow == {<<2, 2>>}

SignedMoves == {-1, 1}

-----------------------------------------------------------------------------
Systems == {"phys", "pmm", "ata", "fsz", "scheduler", "desktop", "snake", "clib"}

AllInit ==
    /\ active \in Systems
    /\ Init /\ Lists!Init /\ FileSystem!Init /\ Threading!Init /\ Desk!Init
    /\ Game!Init /\ Library!Init
    /\ Drives!Init /\ (active # "ata" => kinds = CHOOSE k \in DriveKinds : TRUE)

AllNext ==
    /\ UNCHANGED active
    /\ \/ /\ active = "phys" /\ Next
          /\ UNCHANGED <<blockVars, driveVars, fileVars, threadVars, windowVars, gameVars, libraryVars>>
       \/ /\ active = "pmm" /\ Lists!Next
          /\ UNCHANGED <<vars, driveVars, fileVars, threadVars, windowVars, gameVars, libraryVars>>
       \/ /\ active = "ata" /\ Drives!Next
          /\ UNCHANGED <<vars, blockVars, fileVars, threadVars, windowVars, gameVars, libraryVars>>
       \/ /\ active = "fsz" /\ FileSystem!Next
          /\ UNCHANGED <<vars, blockVars, driveVars, threadVars, windowVars, gameVars, libraryVars>>
       \/ /\ active = "scheduler" /\ Threading!Next
          /\ UNCHANGED <<vars, blockVars, driveVars, fileVars, windowVars, gameVars, libraryVars>>
       \/ /\ active = "desktop" /\ Desk!Next
          /\ UNCHANGED <<vars, blockVars, driveVars, fileVars, threadVars, gameVars, libraryVars>>
       \/ /\ active = "snake" /\ Game!Next
          /\ UNCHANGED <<vars, blockVars, driveVars, fileVars, threadVars, windowVars, libraryVars>>
       \/ /\ active = "clib" /\ Library!Next
          /\ UNCHANGED <<vars, blockVars, driveVars, fileVars, threadVars, windowVars, gameVars>>

AllSpec ==
    AllInit /\ [][AllNext]_<<active, vars, blockVars, driveVars, fileVars, threadVars,
                             windowVars, gameVars, libraryVars>>

-----------------------------------------------------------------------------
\* The properties, stated in the modules they are about.  PagesAccounted and
\* ScanFindsFirstRun of Phys keep their names.

\* Phys: bitmap_allocate_page(s) and bitmap_free_page(s) implement the
\* abstract allocator (ImplementsAllocator), compared in the steps of Phys only.
PagesImplementAllocator ==
    Held!Init /\ [][active = "phys" => [Held!Next]_HeldBlocks]_vars

\* Pmm: free_memory loses no byte and makes none up.
FreeBytesAccounted == active = "pmm" => Lists!FreeBytesAccounted

\* Ata: a read that reports success has read the sectors asked for.
ReadsAreExact == active = "ata" => Drives!ReadsAreExact

\* Ata: a write stores what was asked for, where it was asked for.
WritesAreWhereAsked == active = "ata" => Drives!WritesAreWhereAsked

\* Fsz: the bitmap and the inodes agree through failures and restarts.
BlocksAccounted == active = "fsz" => FileSystem!BlocksAccounted

\* Fsz: what a file acknowledged is read back.
AcknowledgedWritesReadBack == active = "fsz" => FileSystem!AcknowledgedWritesReadBack

\* Scheduler: no thread but the current one runs.
OneRunning == active = "scheduler" => Threading!OneRunning

\* Scheduler: a ready thread is found, and the threads of a process take turns.
ReadyThreadsGetTurns == active = "scheduler" => Threading!ReadyThreadsGetTurns

\* Desktop: no window leaves the screen.
WindowsStayOnScreen == active = "desktop" => Desk!WindowsStayOnScreen

\* Snake: the segments are a path on the board.
SnakeIsAPath == active = "snake" => Game!SnakeIsAPath

\* CLib: the functions compute what they should.
LibraryMeetsReference == active = "clib" => Library!LibraryMeetsReference
=============================================================================
