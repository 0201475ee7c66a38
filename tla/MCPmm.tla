------------------------------- MODULE MCPmm -------------------------------
(***************************************************************************)
(* Small memory maps for the physical memory manager.  Addresses count     *)
(* words of two bytes, so that the stored pointer is two units wide.       *)
(***************************************************************************)
EXTENDS Pmm

Entry(ptr, size, free) == [ptr |-> ptr, size |-> size, free |-> free]

\* Usable memory at address 0, a reserved region after it, usable memory on
\* both sides of a reserved region, as a PC reports it.
PcMap == << Entry(0, 5, TRUE), Entry(5, 3, FALSE), Entry(8, 12, TRUE),
            Entry(20, 4, FALSE) >>
=============================================================================
