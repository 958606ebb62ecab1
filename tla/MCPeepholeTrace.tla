---------------------------- MODULE MCPeepholeTrace ----------------------------
(* PeepholeTrace on the instances of MCPeephole.                              *)
EXTENDS MCPeephole, PeepholeTrace

=============================================================================
