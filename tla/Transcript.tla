----------------------------- MODULE Transcript -----------------------------
(***************************************************************************)
(* The transcript of a session: its entries and what a resume reads from   *)
(* them (internal/session/manager.go, RebuildMessages and HasChainMessages *)
(* of internal/agent/loop.go).  A transcript is a sequence of entries; it  *)
(* only grows.                                                             *)
(***************************************************************************)
EXTENDS MessageChain

CONSTANT Prompts   \* the prompts a user may give

UserEntry(p) == [type |-> "user", prompt |-> p]
AssistantEntry(ids) == [type |-> "assistant", uses |-> ids]
ResultEntry(id) == [type |-> "tool_result", id |-> id]
BoundaryEntry == [type |-> "compact_boundary"]
ReminderEntry == [type |-> "system_reminder"]
\* State entries carry a failure count even when they are about the frozen
\* system prompt or the task store: there it is the zero value.
StateEntry(about, n) == [type |-> "state", about |-> about, count |-> n]

ChainTypes == {"user", "assistant", "tool_result"}
MessageTypes == ChainTypes \cup {"compact_boundary", "system_reminder"}

\* The positions of the last entry of a kind: one, or none.
LastOf(file, Kind(_)) ==
    {i \in DOMAIN file :
        Kind(file[i]) /\ \A j \in DOMAIN file : j > i => ~Kind(file[j])}

IsBoundary(e) == e.type = "compact_boundary"
IsState(e) == e.type = "state"

\* Fault: the entries before the boundary are loaded as well.
PostBoundaryAll(file) == {file}

\* LoadPostBoundaryMessages: the entries from the last boundary on, all of
\* them when there is no boundary.  (Sets such as this one have one member.)
PostBoundary(file) ==
    IF \E i \in DOMAIN file : IsBoundary(file[i])
    THEN {SubSeq(file, k, Len(file)) : k \in LastOf(file, IsBoundary)}
    ELSE {file}

HasChainMessages(entries) ==
    \E i \in DOMAIN entries : entries[i].type \in ChainTypes

MessageOf(e) ==
    CASE e.type = "user" -> Text("user", e.prompt)
      [] e.type = "assistant" -> Assistant(e.uses)
      [] e.type = "tool_result" -> Answer({e.id})
      [] e.type = "compact_boundary" -> Text("system", Summary)
      [] e.type = "system_reminder" -> Text("user", Reminder)

\* RebuildMessages: one message per entry that has one, in order (a pending
\* assistant message is flushed before any other).
RebuildMessages(entries) ==
    LET Messages(e) == IF e.type \in MessageTypes THEN <<MessageOf(e)>> ELSE <<>>
    IN  Emit(entries, Messages)

\* Fault: a count that was reset does not count as the latest.
LoadCompactFailCountNonZero(file) ==
    LET Counted(e) == IsState(e) /\ e.count > 0
    IN  IF \E i \in DOMAIN file : Counted(file[i])
        THEN {file[k].count : k \in LastOf(file, Counted)}
        ELSE {0}

\* LoadCompactFailCount: the count of the last state entry, whatever it is
\* about.
LoadCompactFailCount(file) ==
    IF \E i \in DOMAIN file : IsState(file[i])
    THEN {file[k].count : k \in LastOf(file, IsState)}
    ELSE {0}

\* LoadSystemPrompt found one.
HasSystemPrompt(file) ==
    \E i \in DOMAIN file : file[i].type = "state" /\ file[i].about = "prompt"

\* UserMessageExists looks at the whole transcript.
UserMessageExists(file, p) ==
    \E i \in DOMAIN file : file[i].type = "user" /\ file[i].prompt = p

-----------------------------------------------------------------------------
\* Every result entry comes after the assistant entry that asks for it, with
\* no boundary in between.
ResultsGrounded(file) ==
    \A i \in DOMAIN file : file[i].type = "tool_result" =>
        \E j \in 1..(i - 1) :
            /\ file[j].type = "assistant" /\ file[i].id \in file[j].uses
            /\ \A k \in j..i : ~IsBoundary(file[k])
=============================================================================
