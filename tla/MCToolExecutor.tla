--------------------------- MODULE MCToolExecutor ---------------------------
(* Small instance of ToolExecutor: one or two calls of each class.         *)
EXTENDS ToolExecutor

CONSTANTS u, w, e, x, s, t, p

MCCalls == {u, w, e, x, s, t, p}
MCClass == [c \in MCCalls |->
              CASE c = u -> "unknown"
                [] c = w -> "single"
                [] c = e -> "enter"
                [] c = x -> "exit"
                [] c \in {s, t} -> "shell"
                [] OTHER -> "parallel"]
MCGated == {s, p}
=============================================================================
