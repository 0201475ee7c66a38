------------------------------ MODULE MCPmmSmp ------------------------------
(* A small memory map and the requests of the boot path, scaled down.      *)
EXTENDS PmmSmp

SmallMap == << [ptr |-> 4, size |-> 6, free |-> TRUE],
               [ptr |-> 10, size |-> 2, free |-> FALSE],
               [ptr |-> 12, size |-> 1, free |-> TRUE] >>

TwoRequests == <<4, 1>>
LargeRequest == <<7, 4>>
=============================================================================
