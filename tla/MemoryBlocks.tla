---------------------------- MODULE MemoryBlocks ----------------------------
(***************************************************************************)
(* The data the two physical memory managers share (memory/pmm.h,          *)
(* memory/phys.c, boot/bootboot.h): the boot loader's memory map and       *)
(* blocks of consecutive addresses.                                        *)
(*                                                                         *)
(* A block [address, size] stands for the addresses address ..             *)
(* address + size - 1; a block of size 0 holds no address.                 *)
(***************************************************************************)
EXTENDS Naturals, Sequences

Block == [address : Nat, size : Nat]

\* A slot of a static array before anything is stored in it, or after
\* remove_block: NULL address and NULL size.
Empty == [address |-> 0, size |-> 0]

End(b) == b.address + b.size

\* No address belongs to both blocks.
Disjoint(b, c) ==
    \/ b.size = 0
    \/ c.size = 0
    \/ End(b) <= c.address
    \/ End(c) <= b.address

\* Every address of b is an address of c.
Within(b, c) == c.address <= b.address /\ End(b) <= End(c)

-----------------------------------------------------------------------------
\* An entry of the BOOTBOOT memory map, decoded by MMapEnt_Ptr, MMapEnt_Size
\* and MMapEnt_Type; of the type the code only asks whether it is MMAP_FREE.
MapEntry == [ptr : Nat, size : Nat \ {0}, free : BOOLEAN]

\* The addresses an entry describes.
EntryBlock(e) == [address |-> e.ptr, size |-> e.size]

\* What init_blocks makes of a free entry: address 0 is dropped, it is NULL.
Region(e) ==
    IF e.free /\ e.ptr = 0
      THEN [address |-> 1, size |-> e.size - 1]
      ELSE EntryBlock(e)

\* A memory map the firmware may hand over: at least one entry, and no
\* address described twice.
IsMemoryMap(map) ==
    /\ map \in Seq(MapEntry)
    /\ Len(map) > 0
    /\ \A i, j \in 1 .. Len(map) :
          i # j => Disjoint(EntryBlock(map[i]), EntryBlock(map[j]))
=============================================================================
