---------------------------- MODULE MCSubagents ----------------------------
(* Two subagents, which no property tells apart.                           *)
EXTENDS Subagents, TLC

CONSTANTS a1, a2

MCAgents == {a1, a2}
Interchangeable == Permutations({a1, a2})
=============================================================================
