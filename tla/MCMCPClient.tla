----------------------------- MODULE MCMCPClient -----------------------------
(* Small instances of MCPClient for TLC. *)
EXTENDS MCPClient, TLC

Symmetry == Permutations(Calls)
=============================================================================
