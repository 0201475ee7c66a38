--------------------------------- MODULE Fsz ---------------------------------
(***************************************************************************)
(* The FS/Z file system (fs/fsz.c, fsz.h): creation, allocation of blocks, *)
(* reading and writing, one action per access to the disk.  Any access can *)
(* fail, a failing write may or may not have reached the disk, and the     *)
(* program can stop between two accesses and mount the disk again.         *)
(*                                                                         *)
(* The bitmap of blocks is read and written as a whole, its length rounded *)
(* up to bytes, so it has bits for blocks behind the end of the disk.  A   *)
(* file is an inode with its data inline, or its data in one block.  Data  *)
(* are the numbers of the writes they come from.  fsz_allocate_inode and   *)
(* fsz_free_inode, which have no body, are external: an unused inode.      *)
(***************************************************************************)
EXTENDS Integers, Sequences, FiniteSets

CONSTANTS
    Files,          \* inode numbers
    Blocks,         \* blocks of the data area
    Byte,           \* bits in a byte of the bitmap
    Inline, Sector, \* sizes of the inline data and of a block
    Counts,         \* the arguments of fsz_write
    MaxWrites, MaxFaults    \* bounds

VARIABLES
    marked,         \* the bitmap: the blocks marked as used
    inodes,         \* the inode table: direct is direct_blocks[0]
    data,           \* what each block holds: the write and its file
    device_fd, at,  \* the open device; the next access of the function
    fd, count, inode, block,    \* arguments and local variables
    writes, acknowledged,       \* calls of fsz_write; for each file, those
                                \* that reported success
    faults, long                \* failures; some write was longer than a block

disk == <<marked, inodes, data>>
locals == <<fd, count, inode, block>>
ghosts == <<writes, acknowledged, faults, long>>
vars == <<disk, device_fd, at, locals, ghosts>>

\* The bits of the bitmap, from 1: the superblock's area comes first.
Bits == ((Blocks + Byte - 1) \div Byte) * Byte
Unused == [used |-> FALSE, size |-> 0, direct |-> 0, inlinedata |-> <<>>]
Created == [Unused EXCEPT !.used = TRUE]

Init ==
    /\ marked = {} /\ inodes = [f \in Files |-> Unused]
    /\ data = [b \in 1 .. Bits |-> <<0, 0>>]
    /\ device_fd = FALSE /\ at = "idle"
    /\ fd = 0 /\ count = 0 /\ inode = Unused /\ block = 0
    /\ writes = 0 /\ acknowledged = [f \in Files |-> <<>>]
    /\ faults = 0 /\ long = FALSE

\* Bound: MaxFaults.
Fault == faults < MaxFaults /\ faults' = faults + 1 /\ UNCHANGED <<writes, acknowledged, long>>
Return == at' = "idle" /\ fd' = 0 /\ count' = 0 /\ inode' = Unused /\ block' = 0

\* A call of pwrite that succeeds, or fails, with or without its effect.
Fails(effect, state) == Fault /\ (effect \/ UNCHANGED state)

\* Mounting reads the superblock and nothing else.
fsz_init ==
    /\ ~device_fd /\ device_fd' = TRUE
    /\ UNCHANGED <<disk, at, locals, ghosts>>

\* The program stops anywhere.
Crash ==
    /\ device_fd /\ device_fd' = FALSE /\ Fault /\ Return /\ UNCHANGED disk

Idle == device_fd /\ at = "idle"

-----------------------------------------------------------------------------
\* One write; fsz_free_inode when it fails.
fsz_create ==
    /\ Idle
    /\ \E f \in Files :
        /\ ~inodes[f].used
        /\ LET effect == inodes' = [inodes EXCEPT ![f] = Created] IN
            \/ effect /\ UNCHANGED ghosts
            \/ Fault /\ UNCHANGED inodes
    /\ UNCHANGED <<marked, data, device_fd, at, locals>>

\* Bound: MaxWrites.
fsz_write ==
    /\ Idle /\ writes < MaxWrites /\ writes' = writes + 1
    /\ \E f \in Files, n \in Counts :
        /\ inodes[f].used /\ fd' = f /\ count' = n
        /\ long' = (long \/ n > Sector)
    /\ at' = "read_inode"
    /\ UNCHANGED <<disk, device_fd, inode, block, acknowledged, faults>>

Appended(n) ==
    [n EXCEPT !.size = @ + count, !.inlinedata = Append(@, writes)]

\* The data stay inline, or go to the block of the file, or one is allocated.
ReadInode ==
    /\ at = "read_inode"
    /\ LET n == inodes[fd] IN
        CASE n.size + count <= Inline -> inode' = Appended(n) /\ at' = "write_inode"
          [] n.size + count > Inline /\ n.size > Inline -> inode' = n /\ at' = "write_data"
          [] OTHER -> inode' = n /\ at' = "read_bitmap"
    /\ UNCHANGED <<disk, device_fd, fd, count, block, ghosts>>

Free == {b \in 1 .. Bits : b \notin marked}
First(s) == CHOOSE b \in s : \A c \in s : b <= c

ReadBitmap ==
    /\ at = "read_bitmap"
    /\ IF Free = {} THEN Return
       ELSE block' = First(Free) /\ at' = "write_bitmap" /\ UNCHANGED <<fd, count, inode>>
    /\ UNCHANGED <<disk, device_fd, ghosts>>

\* Reading fails; for the bitmap, also malloc.
ReadFails ==
    /\ at \in {"read_inode", "read_bitmap"} /\ Fault /\ Return
    /\ UNCHANGED <<disk, device_fd>>

\* The pointer to the block takes the place of the first inline data; memcpy
\* copies the union onto itself.
Linked == [inode EXCEPT !.direct = block, !.inlinedata = <<>>]

\* Mutant: the bitmap is not written back.
Unmarked ==
    /\ at = "write_bitmap" /\ inode' = Linked /\ at' = "write_data"
    /\ UNCHANGED <<disk, device_fd, fd, count, block, ghosts>>

WriteBitmap ==
    /\ at = "write_bitmap"
    /\ LET effect == marked' = marked \cup {block} IN
        \/ /\ effect /\ inode' = Linked /\ at' = "write_data"
           /\ UNCHANGED <<fd, count, block, ghosts>>
        \/ Fails(effect, marked) /\ Return
    /\ UNCHANGED <<inodes, data, device_fd>>

\* Every write starts at the beginning of the block; a long one goes on in the
\* blocks behind it.
Covered == {b \in 1 .. Bits : b >= inode.direct /\ (b - inode.direct) * Sector < count}
Put == data' = [b \in 1 .. Bits |-> IF b \in Covered THEN <<fd, writes>> ELSE data[b]]

\* Mutant: the result of pwrite is not tested.
WriteDataUntested ==
    /\ at = "write_data"
    /\ inode' = [inode EXCEPT !.size = @ + count] /\ at' = "write_inode"
    /\ \/ Put /\ UNCHANGED ghosts
       \/ Fails(Put, data)
    /\ UNCHANGED <<marked, inodes, device_fd, fd, count, block>>

\* A block behind the end of the disk cannot be written.
WriteData ==
    /\ at = "write_data"
    /\ \/ /\ \A b \in Covered : b <= Blocks
          /\ Put /\ inode' = [inode EXCEPT !.size = @ + count] /\ at' = "write_inode"
          /\ UNCHANGED <<fd, count, block, ghosts>>
       \/ Fails(Put, data) /\ Return
       \/ /\ \E b \in Covered : b > Blocks
          /\ Put \/ UNCHANGED data
          /\ Return /\ UNCHANGED ghosts
    /\ UNCHANGED <<marked, inodes, device_fd>>

\* A write is acknowledged when its inode is on the disk.
WriteInode ==
    /\ at = "write_inode"
    /\ LET effect == inodes' = [inodes EXCEPT ![fd] = inode] IN
        \/ /\ effect /\ acknowledged' = [acknowledged EXCEPT ![fd] = Append(@, writes)]
           /\ UNCHANGED <<writes, faults, long>>
        \/ Fails(effect, inodes)
    /\ Return
    /\ UNCHANGED <<marked, data, device_fd>>

Next ==
    \/ fsz_init \/ Crash \/ fsz_create \/ fsz_write
    \/ ReadInode \/ ReadBitmap \/ ReadFails
    \/ WriteBitmap \/ WriteData \/ WriteInode

Spec == Init /\ [][Next]_vars

\* What fsz_read returns for a file of any size: the writes it consists of.
fsz_read(f) ==
    IF inodes[f].size <= Inline THEN inodes[f].inlinedata
    ELSE <<data[inodes[f].direct][2]>>

-----------------------------------------------------------------------------
Large == {f \in Files : inodes[f].size > Inline}
Named == {inodes[f].direct : f \in Large}
Lost == {b \in marked : b <= Blocks} \ Named

\* Through failures and restarts, the files too large for their inode, and no
\* others, name blocks: marked ones and each its own.  As long as no write is
\* longer than a block, one is lost, marked with no file that names it, by a
\* failure or a restart only, besides that of the write in progress.
BlocksAccounted ==
    /\ \A f \in Files : inodes[f].direct # 0 <=> f \in Large
    /\ Named \subseteq marked /\ Cardinality(Named) = Cardinality(Large)
    /\ long \/ Cardinality(Lost) <= faults + (IF block = 0 THEN 0 ELSE 1)

Embeds(s, t) ==
    /\ \A i \in DOMAIN s : \E j \in DOMAIN t : s[i] = t[j]
    /\ \A i \in 1 .. Len(t) - 1 : t[i] < t[i + 1]

\* As long as no write is longer than a block, a small file has all writes
\* that reported success, in order, and a large one the last of them or a later
\* one of its own: no other file's write gets there, whatever fails.
AcknowledgedWritesReadBack ==
    ~long => \A f \in Files :
        IF f \notin Large THEN Embeds(acknowledged[f], fsz_read(f))
        ELSE LET a == acknowledged[f]
             IN  /\ data[inodes[f].direct][1] = f
                 /\ a # <<>> => fsz_read(f)[1] >= a[Len(a)]
=============================================================================
