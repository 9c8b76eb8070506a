----------------------------- MODULE MCAgentLoop -----------------------------
(* Small instances of AgentLoop; what the environment may do differs.      *)
EXTENDS AgentLoop

CONSTANTS p, q

OnePrompt == {p}
TwoPrompts == {p, q}

\* The first call of every reply has no input.
FirstCalls == {<<r, 1>> : r \in 1..MaxReplies}

\* Processes die, writes are lost, calls fail.
FaultyEnv == {"crash", "io", "cancel", "api", "media", "tasks"}
\* Everything goes into the chain that the loop itself may put there.
BusyEnv == {"compact", "skills", "notes", "fork"}
=============================================================================
