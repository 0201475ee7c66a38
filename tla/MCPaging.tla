------------------------------ MODULE MCPaging ------------------------------
(* Paging alone on the machine of PcMachine.                               *)
EXTENDS Paging, PcMachine
=============================================================================
