---------------------------- MODULE MCMcpSessions ----------------------------
(***************************************************************************)
(* McpSessions for TLC: interchangeable instances and tasks.               *)
(***************************************************************************)
EXTENDS McpSessions, TLC

Symmetry == Permutations(Instances) \union Permutations(Tasks)
=============================================================================
