-------------------------- MODULE MCBackgroundTasks --------------------------
(* Two tasks; one of them may leave a child that keeps its output open.    *)
EXTENDS BackgroundTasks

CONSTANTS a, b

MCTasks == {a, b}
MCForks == {b}
MCReplaced == [t \in {a, b} |-> IF t = a THEN 1 ELSE 0]
=============================================================================
