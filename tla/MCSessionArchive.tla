--------------------------- MODULE MCSessionArchive ---------------------------
(* A small instance of SessionArchive: two processes at a time.            *)
EXTENDS SessionArchive, TLC

CONSTANTS p, q

TwoWorkers == {p, q}
WorkerSymmetry == Permutations(TwoWorkers)
=============================================================================
