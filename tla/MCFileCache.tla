---------------------------- MODULE MCFileCache ----------------------------
(* Two overlapping calls, which no property tells apart.                   *)
EXTENDS FileCache, TLC

CONSTANTS c1, c2

MCCalls == {c1, c2}
MCSettings == {[notebook |-> FALSE, restricted |-> TRUE],
               [notebook |-> TRUE, restricted |-> FALSE]}
Interchangeable == Permutations({c1, c2})
=============================================================================
