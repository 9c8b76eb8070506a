----------------------------- MODULE Subagents -----------------------------
(***************************************************************************)
(* Subagents (internal/agent/subagent.go, tool/agent.go) and the cost they *)
(* share with the agent that calls them (cost.go, cost_persistence.go).    *)
(* The calls of one response run at the same time, an asynchronous one     *)
(* outlives its response.  All of them use the profile of the one router,  *)
(* the memory of the parent's engine and the cost file of the parent's     *)
(* session.  The process may die at any step and the session be resumed.   *)
(*                                                                         *)
(* A cost says for each actor how many of its requests were counted.       *)
(***************************************************************************)
EXTENDS Integers

CONSTANTS
    Agents,   \* calls of the agent tool
    Parent,   \* the agent that makes them
    MaxTurns, \* bound: requests of the parent
    MaxSpend, \* bound: requests of a subagent
    MaxRuns   \* bound: processes

\* The profiles of the actors are told apart, from each other and from "kept".
ASSUME SubagentsAssumption ==
    /\ MaxTurns \in Nat \ {0} /\ MaxSpend \in Nat \ {0} /\ MaxRuns \in Nat \ {0}
    /\ Parent \notin Agents /\ "kept" \notin Agents \cup {Parent}

VARIABLES
    parent,  \* the loop of the parent, its requests and the save it has begun
    agent,   \* the subagents, with the local variables of RunSubagent
    profile, \* Router.profileName; a subagent's own, or Default
    memory,  \* ParentEngine.costState
    file,    \* the cost file of the session
    trees,   \* worktrees on disk, by the subagent they were made for
    runs,    \* processes so far
    seen     \* history

subagentsVars == <<parent, agent, profile, memory, file, trees, runs, seen>>

Actors == Agents \cup {Parent}
Default == Parent      \* the profile of the session
Nothing == [a \in Actors |-> 0]
Plus(c, d) == [a \in Actors |-> c[a] + d[a]]
Only(a, n) == [Nothing EXCEPT ![a] = n]

\* What a file holds: nothing yet, half a write, or the cost that `by' saved.
NoFile == [state |-> "none", by |-> Parent, cost |-> Nothing]
Torn(f) == [f EXCEPT !.state = "torn"]
Saved(a, c) == [state |-> "whole", by |-> a, cost |-> c]

\* `spent': requests of the subagent; `held': a cost it has read.
\* `prev': the profile to restore, or Kept.
Kept == "kept"
Idle == [pc |-> "idle", async |-> FALSE, prev |-> Kept, spent |-> 0,
         held |-> Nothing]
AgentEnded == [Idle EXCEPT !.pc = "done"]
Loop == [pc |-> "turn", turns |-> 0, saving |-> Nothing]

\* History: the cost that is due; whether what was saved and what was loaded,
\* or two updates of the memory, have crossed; whether profiles were restored
\* out of order; the worktrees that no step is left to remove.
Seen == [due |-> Nothing, crossed |-> FALSE, tangled |-> FALSE, left |-> {}]

SubagentsInit ==
    /\ parent = Loop
    /\ agent = [a \in Agents |-> Idle]
    /\ profile = Default
    /\ memory = Nothing /\ file = NoFile
    /\ trees = {}
    /\ runs = 1
    /\ seen = Seen

-----------------------------------------------------------------------------
(* The parent.                                                             *)

Up == parent.pc # "down"
AgentAt(a, place) == agent[a].pc = place
Active(a) == agent[a].pc \notin {"idle", "done"}
Waiting == \E a \in Agents : Active(a) /\ ~agent[a].async

\* Another update of the memory is between its read and its write.
Updating == \E a \in Agents : AgentAt(a, "put")

\* A request, counted by AccumulateUsage; its response calls some subagents
\* (AgentTool.Execute) or ends the query, and so does the budget.
Turn(calls, async) ==
    /\ parent.pc = "turn" /\ parent.turns < MaxTurns
    /\ memory' = Plus(memory, Only(Parent, 1))
    /\ seen' = [seen EXCEPT !.due = Plus(@, Only(Parent, 1)),
                            !.crossed = @ \/ Updating]
    /\ parent' = [parent EXCEPT !.turns = @ + 1, !.pc = "tools"]
    /\ \A a \in calls : AgentAt(a, "idle")
    /\ agent' = [a \in Agents |->
                   IF a \in calls
                   THEN [Idle EXCEPT !.pc = "begin", !.async = a \in async]
                   ELSE agent[a]]
    /\ UNCHANGED <<profile, file, trees, runs>>

\* The results of the response are there, or it had no calls.
ResponseAnswered ==
    /\ parent.pc = "tools" /\ ~Waiting
    /\ parent' = [parent EXCEPT !.pc = "turn"]
    /\ UNCHANGED <<agent, profile, memory, file, trees, runs, seen>>

\* The query ends, whatever its result: SaveCostState marshals the cost and
\* truncates the file before it writes.
ParentSaves ==
    /\ parent.pc = "turn"
    /\ parent' = [parent EXCEPT !.pc = "write", !.saving = memory]
    /\ file' = Torn(file)
    /\ UNCHANGED <<agent, profile, memory, trees, runs, seen>>

\* Two writes that overlap may leave more than the last one.
Writing == {a \in Agents : AgentAt(a, "write")}
Written(f, others) == {f} \cup (IF others = {} THEN {} ELSE {Torn(f)})

ParentWrites ==
    /\ parent.pc = "write"
    /\ parent' = [parent EXCEPT !.pc = "ended", !.saving = Nothing]
    /\ file' \in Written(Saved(Parent, parent.saving), Writing)
    /\ UNCHANGED <<agent, profile, memory, trees, runs, seen>>

-----------------------------------------------------------------------------
(* RunSubagent.                                                            *)

AgentBecomes(a, r) == agent' = [agent EXCEPT ![a] = r]
Goes(a, place) == AgentBecomes(a, [agent[a] EXCEPT !.pc = place])
ParentStays == UNCHANGED <<parent, runs>>

\* Unknown types, a cwd next to a worktree, no repository, a failing git.
Refused(a) ==
    /\ AgentAt(a, "begin")
    /\ AgentBecomes(a, AgentEnded)
    /\ ParentStays /\ UNCHANGED <<profile, memory, file, trees, seen>>

\* With or without a worktree of its own, and a profile of its own.
CreateWorktree(a) ==
    /\ AgentAt(a, "begin")
    /\ \E place \in {"profile", "run"} : Goes(a, place)
    /\ trees' \in {trees, trees \cup {a}}
    /\ ParentStays /\ UNCHANGED <<profile, memory, file, seen>>

\* GetProfile, then SetProfile, which ignores a name that it does not know.
GetProfile(a) ==
    /\ AgentAt(a, "profile")
    /\ AgentBecomes(a, [agent[a] EXCEPT !.pc = "switch", !.prev = profile])
    /\ ParentStays /\ UNCHANGED <<profile, memory, file, trees, seen>>

AgentSetsProfile(a) ==
    /\ AgentAt(a, "switch")
    /\ profile' \in {a, profile}
    /\ Goes(a, "run")
    /\ ParentStays /\ UNCHANGED <<memory, file, trees, seen>>

\* A request of the subagent, counted in an engine of its own.
Spend(a) ==
    /\ AgentAt(a, "run") /\ agent[a].spent < MaxSpend
    /\ AgentBecomes(a, [agent[a] EXCEPT !.spent = @ + 1])
    /\ ParentStays /\ UNCHANGED <<profile, memory, file, trees, seen>>

\* The query of the subagent ends and saves to the file of the parent.
SubagentSaves(a) ==
    /\ AgentAt(a, "run")
    /\ Goes(a, "write")
    /\ file' = Torn(file)
    /\ ParentStays /\ UNCHANGED <<profile, memory, trees, seen>>

\* An interrupted or failed subagent merges nothing.
SubagentWrites(a) ==
    /\ AgentAt(a, "write")
    /\ LET others == (Writing \ {a}) \cup (IF parent.pc = "write" THEN {Parent} ELSE {})
       IN  file' \in Written(Saved(a, Only(a, agent[a].spent)), others)
    /\ \/ Goes(a, "load")
       \/ AgentBecomes(a, [agent[a] EXCEPT !.pc = "restore", !.spent = 0])
    /\ ParentStays /\ UNCHANGED <<profile, memory, trees, seen>>

\* LoadCostState reads the file again, as it is by now.
LoadCost(a) ==
    /\ AgentAt(a, "load")
    /\ IF file.state = "whole"
       THEN AgentBecomes(a, [agent[a] EXCEPT !.pc = "merge", !.held = file.cost])
       ELSE AgentBecomes(a, [agent[a] EXCEPT !.pc = "restore", !.spent = 0])
    /\ seen' = [seen EXCEPT !.crossed = @ \/ file.state # "whole" \/ file.by # a]
    /\ ParentStays /\ UNCHANGED <<profile, memory, file, trees>>

\* Merge, without a lock: it reads the entries of the map and stores sums.
MergeReads(a) ==
    /\ AgentAt(a, "merge")
    /\ AgentBecomes(a, [agent[a] EXCEPT !.pc = "put", !.held = Plus(memory, @)])
    /\ seen' = [seen EXCEPT !.crossed = @ \/ Updating]
    /\ ParentStays /\ UNCHANGED <<profile, memory, file, trees>>

\* The same if the sum were added to the memory again.
MergeStoresTwice(a) ==
    /\ AgentAt(a, "put")
    /\ memory' = Plus(memory, agent[a].held)
    /\ seen' = [seen EXCEPT !.due = Plus(@, Only(a, agent[a].spent))]
    /\ AgentBecomes(a, [agent[a] EXCEPT !.pc = "restore", !.held = Nothing, !.spent = 0])
    /\ ParentStays /\ UNCHANGED <<profile, file, trees>>

MergeStores(a) ==
    /\ AgentAt(a, "put")
    /\ memory' = agent[a].held
    /\ seen' = [seen EXCEPT !.due = Plus(@, Only(a, agent[a].spent))]
    /\ AgentBecomes(a, [agent[a] EXCEPT !.pc = "restore", !.held = Nothing, !.spent = 0])
    /\ ParentStays /\ UNCHANGED <<profile, file, trees>>

\* The same if the profile were left as it is.
RestoreProfileNever(a) ==
    /\ AgentAt(a, "restore")
    /\ AgentBecomes(a, [agent[a] EXCEPT !.pc = "remove", !.prev = Kept])
    /\ ParentStays /\ UNCHANGED <<profile, memory, file, trees, seen>>

\* The deferred calls: the profile, then the worktree; the error of git is
\* ignored.  A synchronous call returns; an asynchronous one adds its result
\* to the transcript of the parent, if it has a session manager.
RestoreProfile(a) ==
    /\ AgentAt(a, "restore")
    /\ profile' = IF agent[a].prev = Kept THEN profile ELSE agent[a].prev
    /\ seen' = [seen EXCEPT !.tangled = @ \/
                    (agent[a].prev # Kept /\ \E b \in Agents : agent[b].prev = a)]
    /\ AgentBecomes(a, [agent[a] EXCEPT !.pc = "remove", !.prev = Kept])
    /\ ParentStays /\ UNCHANGED <<memory, file, trees>>

RemoveWorktree(a) ==
    /\ AgentAt(a, "remove")
    /\ \/ trees' = trees \ {a} /\ UNCHANGED seen
       \/ a \in trees /\ seen' = [seen EXCEPT !.left = @ \cup {a}] /\ UNCHANGED trees
    /\ AgentBecomes(a, AgentEnded)
    /\ ParentStays /\ UNCHANGED <<profile, memory, file>>

Subagent(a) ==
    Refused(a) \/ CreateWorktree(a) \/ GetProfile(a) \/ AgentSetsProfile(a) \/ Spend(a)
      \/ SubagentSaves(a) \/ SubagentWrites(a) \/ LoadCost(a) \/ MergeReads(a)
      \/ MergeStores(a) \/ RestoreProfile(a) \/ RemoveWorktree(a)

-----------------------------------------------------------------------------
(* The end of a process, and the next one.                                 *)

\* The process exits behind its query, or dies; its goroutines go with it.
\* The file is all there is of a total that is not the parent's last word.
ProcessExits ==
    /\ Up
    /\ parent' = [Loop EXCEPT !.pc = "down", !.turns = parent.turns]
    /\ agent' = [a \in Agents |-> IF AgentAt(a, "idle") THEN Idle ELSE AgentEnded]
    /\ seen' = [seen EXCEPT !.left = @ \cup trees, !.tangled = FALSE,
                   !.crossed = @ \/ ~(/\ parent.pc = "ended"
                                      /\ file.state = "whole" /\ file.by = Parent
                                      /\ file.cost = memory)]
    /\ profile' = Default /\ memory' = Nothing
    /\ UNCHANGED <<file, trees, runs>>

\* With -r the engine takes the total of the file, without it none.
Start(resume) ==
    /\ ~Up /\ runs < MaxRuns
    /\ parent' = [parent EXCEPT !.pc = "turn"]
    /\ memory' = IF resume /\ file.state = "whole" THEN file.cost ELSE Nothing
    /\ seen' = IF resume THEN seen
               ELSE [seen EXCEPT !.due = Nothing, !.crossed = FALSE]
    /\ runs' = runs + 1
    /\ UNCHANGED <<agent, profile, file, trees>>

SubagentsNext ==
    \/ \E calls \in SUBSET Agents : \E async \in SUBSET calls : Turn(calls, async)
    \/ ResponseAnswered \/ ParentSaves \/ ParentWrites
    \/ \E a \in Agents : Subagent(a)
    \/ ProcessExits
    \/ \E resume \in BOOLEAN : Start(resume)

SubagentsSpec == SubagentsInit /\ [][SubagentsNext]_subagentsVars

-----------------------------------------------------------------------------
(* Properties.                                                             *)

\* The engine of the parent has counted each of its requests, and those of
\* each subagent that it merged, once, over a resume too, unless saves, loads
\* or updates crossed: the subagent hands its cost over in a file that its
\* parent and its siblings write as well (subagent.go, RunSubagent).
Counted == (Up /\ ~seen.crossed) => memory = seen.due

\* When no subagent is left the router has the profile of the session again,
\* and no worktree is left behind, unless profiles were restored out of order,
\* git failed, or the process ended in between.
LeavesNoTrace ==
    (\A a \in Agents : ~Active(a)) =>
        /\ profile = Default \/ seen.tangled
        /\ trees \subseteq seen.left
=============================================================================
