------------------------------ MODULE TaskStore ------------------------------
(***************************************************************************)
(* The store of tracked tasks (internal/tool/task_store.go) and the        *)
(* callback that the engine of a session hangs on it to persist every      *)
(* change (NewQueryEngine, internal/agent/engine.go).  The callers are the *)
(* agents that hold the tools TaskCreate and TaskUpdate: the session's own *)
(* and the named subagents, which inherit them.                            *)
(*                                                                         *)
(* The store is guarded by a sync.RWMutex, which is not reentrant.  A read *)
(* lock is only held for the length of one step here, so that writer is    *)
(* all there is to see of it.                                              *)
(***************************************************************************)
EXTENDS Naturals, Sequences, SequencesExt

CONSTANTS
    Callers,    \* the agents that share the store
    TaskIds,    \* what generateID returns
    MaxVersion, \* bound: changes of one task
    MaxResumes  \* bound: times the session is resumed

VARIABLES
    tasks,  \* the version of every task; 0 when it does not exist
    writer, \* who holds the write lock
    caller, \* where a caller stands in its call, where the callback returns
            \* to, its task, and the tasks the callback has listed
    file,   \* the snapshots in the transcript, as versions
    resumes \* of the session so far

vars == <<tasks, writer, caller, file, resumes>>

Nobody == "nobody"
Idle == [at |-> "idle", then |-> "idle", task |-> Nobody, listed |-> {}]
None == [t \in TaskIds |-> 0]
Existing == {t \in TaskIds : tasks[t] > 0}
Becomes(c, r) == caller' = [caller EXCEPT ![c] = r]

Init ==
    /\ tasks = None
    /\ writer = Nobody
    /\ caller = [c \in Callers |-> Idle]
    /\ file = <<>>
    /\ resumes = 0

-----------------------------------------------------------------------------

\* TaskCreate, whose callback runs after the lock is released.
Create(c, t) ==
    /\ caller[c].at = "idle" /\ writer = Nobody /\ tasks[t] = 0 /\ MaxVersion > 0
    /\ tasks' = [tasks EXCEPT ![t] = 1]
    /\ Becomes(c, [Idle EXCEPT !.at = "changed", !.task = t])
    /\ UNCHANGED <<writer, file, resumes>>

\* TaskUpdate looks for the task under the read lock; without one, or with a
\* status that is none, it returns an error and has changed nothing.
Get(c, t) ==
    /\ caller[c].at = "idle" /\ writer = Nobody /\ tasks[t] > 0
    /\ Becomes(c, [Idle EXCEPT !.at = "found", !.task = t])
    /\ UNCHANGED <<tasks, writer, file, resumes>>

\* A change of a task that exists: the callback runs under the lock.
Change(c, place, then) ==
    LET t == caller[c].task IN
    /\ caller[c].at = place /\ writer = Nobody
    /\ tasks[t] \in 1..(MaxVersion - 1)
    /\ tasks' = [tasks EXCEPT ![t] = @ + 1]
    /\ writer' = c
    /\ Becomes(c, [caller[c] EXCEPT !.at = "changed", !.then = then])
    /\ UNCHANGED <<file, resumes>>

\* TaskStore.Update, and TaskStore.AddDependencies if the call names tasks that
\* the task blocks or is blocked by; without any the call returns.
Update(c) == Change(c, "found", "updated")
AddDependencies(c) == Change(c, "updated", "idle")
Returns(c) ==
    /\ caller[c].at \in {"found", "updated"}
    /\ Becomes(c, Idle)
    /\ UNCHANGED <<tasks, writer, file, resumes>>

\* The callback lists the tasks under the read lock.
AllTasks(c) ==
    /\ caller[c].at = "changed" /\ writer = Nobody
    /\ Becomes(c, [caller[c] EXCEPT !.at = "listed", !.listed = Existing])
    /\ UNCHANGED <<tasks, writer, file, resumes>>

\* It marshals the tasks it has pointers to, as they are by now, appends the
\* snapshot to the transcript and returns to the operation, which unlocks.
AppendTaskStore(c) ==
    LET r == caller[c] IN
    /\ r.at = "listed"
    /\ file' = Append(file, [t \in TaskIds |-> IF t \in r.listed THEN tasks[t] ELSE 0])
    /\ writer' = IF writer = c THEN Nobody ELSE writer
    /\ Becomes(c, [Idle EXCEPT !.at = r.then, !.task = r.task])
    /\ UNCHANGED <<tasks, resumes>>

\* LoadTaskStore and LoadFromJSON: a session that has ended with no call open
\* goes on in a new process, with the last snapshot.
LoadFromJSON(snapshot) == tasks' = snapshot
Resume ==
    /\ \A c \in Callers : caller[c].at = "idle"
    /\ resumes < MaxResumes /\ resumes' = resumes + 1
    /\ LoadFromJSON(IF file = <<>> THEN None ELSE Last(file))
    /\ UNCHANGED <<writer, caller, file>>

Next ==
    \/ \E c \in Callers :
          \/ \E t \in TaskIds : Create(c, t) \/ Get(c, t)
          \/ Update(c) \/ AddDependencies(c) \/ Returns(c)
          \/ AllTasks(c) \/ AppendTaskStore(c)
    \/ Resume

\* The goroutine of a caller is scheduled as long as it is not blocked.
Fairness == \A c \in Callers : WF_vars(AllTasks(c)) /\ WF_vars(AppendTaskStore(c))

FairSpec == Init /\ [][Next]_vars /\ Fairness

-----------------------------------------------------------------------------

\* "SetOnChange sets a callback invoked after every mutation": every version
\* of a task reaches the transcript, itself or a later one.
EveryChangeSaved ==
    \A t \in TaskIds : \A v \in 1..MaxVersion :
        tasks[t] = v ~> \E i \in DOMAIN file : file[i][t] >= v
=============================================================================
