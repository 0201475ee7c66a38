----------------------------- MODULE PcMachine -----------------------------
(***************************************************************************)
(* A machine of 32 frames with four entries per table.  The loader maps    *)
(* frames 0 .. 15 to their own addresses with large pages and the kernel,  *)
(* frames 22 and 23, at the top; its tables are frames 24 .. 29.           *)
(***************************************************************************)
EXTENDS Naturals, TLC

Table(e0, e1, e2, e3) == (0 :> e0) @@ (1 :> e1) @@ (2 :> e2) @@ (3 :> e3)
NoEntry == [present |-> FALSE, large |-> FALSE, frame |-> 0]
Small(f) == [present |-> TRUE, large |-> FALSE, frame |-> f]
Large(f) == [present |-> TRUE, large |-> TRUE, frame |-> f]

PcTables ==
    (24 :> Table(Small(25), NoEntry, NoEntry, Small(27))) @@
    (25 :> Table(Small(26), NoEntry, NoEntry, NoEntry)) @@
    (26 :> Table(Large(0), Large(4), Large(8), Large(12))) @@
    (27 :> Table(NoEntry, NoEntry, NoEntry, Small(28))) @@
    (28 :> Table(NoEntry, NoEntry, NoEntry, Small(29))) @@
    (29 :> Table(NoEntry, Small(22), Small(23), NoEntry))

\* Frame 0 holds zeros, or the real mode interrupt vectors.
PcLowMemory == {Table(NoEntry, NoEntry, NoEntry, NoEntry),
                Table(Small(9), NoEntry, Small(20), NoEntry)}

\* The local APIC and the I/O APIC, in the two pages next to each other.
PcDevices == {[page |-> 249, frame |-> 30], [page |-> 250, frame |-> 31]}

\* A page of its own, and one next to the kernel's pages.
PcMappings == {[page |-> 32, frame |-> 30], [page |-> 252, frame |-> 31]}
PcLargeMappings == {[page |-> 20, frame |-> 8]}
\* The two again, a device, and a page of the identity mapping.
PcUnmappings == {32, 249, 5}
PcPages == {0, 1, 5, 16, 17, 21, 32, 127, 249, 250, 252, 253}
=============================================================================
