----------------------------- MODULE MCMcpSync -----------------------------
(* An instance of McpSync for TLC: two targets share an alias;               *)
(* the other alias is only ever written by hand.                             *)
EXTENDS McpSync, TLC

CONSTANTS a, t1, t2

MCPrograms == <<"claude", "codex">>
MCAliasOf == (t1 :> a) @@ (t2 :> a)
RunSymmetry == Permutations(Runs)
=============================================================================
