------------------------------- MODULE MCPortal -------------------------------
(* A small instance of Portal with every kind of request.                  *)
EXTENDS Portal, TLC

CONSTANTS a, b, c

ThreePids == {a, b, c}
PidSymmetry == Permutations(ThreePids)

AllKinds == {"start", "resume", "kill", "delete", "stream", "skill"}
=============================================================================
