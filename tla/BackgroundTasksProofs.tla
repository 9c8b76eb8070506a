------------------------ MODULE BackgroundTasksProofs ------------------------
(***************************************************************************)
(* Theorems about BackgroundTasks, for any number of tasks and of kill     *)
(* timers.  Four goroutines write the state of a task and its file: the    *)
(* inner one, the outer one, the kill timers and the agent.  The argument: *)
(* how far the inner goroutine has come says what the others can still     *)
(* find (Dead, Called, OnFile), and no state of a task promises more.  Its *)
(* completion is in one place at a time (Ledger).                          *)
(***************************************************************************)
EXTENDS BackgroundTasks, TLAPS

Doings == {"top", "turn", "asked", "polling", "polled", "stopping", "run"}
AgentType == [at : Doings, task : Tasks \cup {NoTask}, late : BOOLEAN]

TypeOK ==
    /\ agent \in AgentType
    /\ stage \in [Tasks -> Stages]
    /\ info \in [Tasks -> {"absent", "running", "completed", "stopped"}]
    /\ shell \in [Tasks -> {"none", "alive", "dead"}]
    /\ onFile \in [Tasks -> {"none", "empty", "output"}]

\* The shell of a command that has ended is dead, and its output is written
\* before the task is marked.
Dead == \A t \in Tasks : stage[t] \in Ended => shell[t] = "dead"
OnFile ==
    \A t \in Tasks : stage[t] \in {"written", "disarmed", "marked", "done"} =>
        onFile[t] = "output"

\* What a state says of the task: one that was stopped cannot start any more.
Called ==
    \A t \in Tasks :
        /\ stage[t] = "none" => info[t] = "absent"
        /\ info[t] = "completed" => stage[t] \in {"marked", "done"}
        /\ info[t] = "stopped" => shell[t] # "alive" /\ stage[t] \notin {"none", "spawned"}

\* The agent is in the command, or nothing of it is left.
Foreground == agent.at # "run" => fore = {}
Serving == agent.at \in {"asked", "polling", "polled", "stopping"} => agent.task \in Tasks

Inv == TypeOK /\ Dead /\ OnFile /\ Called /\ Foreground /\ Serving

\* What the agent may go on to do.
LEMMA AtType == ASSUME NEW p \in Doings PROVE At(p) \in AgentType /\ At(p).at = p
  BY DEF At, AgentType

LEMMA ServeType ==
    ASSUME NEW p \in Doings, NEW t \in Tasks \cup {NoTask}
    PROVE  /\ [at |-> p, task |-> t, late |-> FALSE] \in AgentType
           /\ [at |-> p, task |-> t, late |-> FALSE].at = p
           /\ [at |-> p, task |-> t, late |-> FALSE].task = t
  BY DEF AgentType

LEMMA AgentFields ==
    ASSUME agent \in AgentType, NEW p \in Doings
    PROVE  /\ agent.at \in Doings /\ agent.task \in Tasks \cup {NoTask}
           /\ [at |-> p, task |-> agent.task, late |-> agent.late] \in AgentType
           /\ [at |-> p, task |-> agent.task, late |-> agent.late].at = p
           /\ [at |-> p, task |-> agent.task, late |-> agent.late].task = agent.task
           /\ [agent EXCEPT !.at = p] \in AgentType /\ [agent EXCEPT !.at = p].at = p
           /\ [agent EXCEPT !.at = p].task = agent.task
  BY DEF AgentType

LEMMA LateFields ==
    ASSUME agent \in AgentType
    PROVE  /\ [agent EXCEPT !.late = TRUE] \in AgentType
           /\ [agent EXCEPT !.late = TRUE].at = agent.at
           /\ [agent EXCEPT !.late = TRUE].task = agent.task
  BY DEF AgentType

LEMMA Initial == Init => Inv
<1> SUFFICES ASSUME Init PROVE Inv
  OBVIOUS
<1>1. TypeOK
  BY DEF Init, TypeOK, Stages, AgentType, Doings, At
<1>2. Dead /\ OnFile /\ Called
  BY DEF Init, Dead, OnFile, Called, Ended
<1>3. Foreground /\ Serving
  BY DEF Init, Foreground, Serving, At
<1> QED
  BY <1>1, <1>2, <1>3 DEF Inv

\* What a signal does to the shell.
LEMMA SignalKills ==
    ASSUME TypeOK, NEW t \in Tasks, Termed(t)
    PROVE  /\ shell' \in [Tasks -> {"none", "alive", "dead"}]
           /\ \A u \in Tasks : /\ shell[u] # "alive" => shell'[u] = shell[u]
                               /\ u # t => shell'[u] = shell[u]
           /\ Signalled(t) => shell'[t] # "alive"
  BY DEF TypeOK, Termed, Signalled

\* The steps that change the stage of a task.
LEMMA InnerKeeps == ASSUME Inv, NEW t \in Tasks, Inner(t) PROVE Inv'
<1>0. TypeOK /\ Dead /\ OnFile /\ Called /\ Foreground /\ Serving
  BY DEF Inv
<1>1. UNCHANGED <<agent, fore>>
  BY DEF Inner, NoShell, StartFails, Started, UpdateProcess, Waited, WriteTaskResult,
     CancelKillTimer, UpdateState, EnqueueCompletion
<1>2. CASE NoShell(t) \/ StartFails(t) \/ UpdateProcess(t)
  BY <1>0, <1>1, <1>2 DEF NoShell, StartFails, UpdateProcess, Reach, Inv, TypeOK, Stages,
     Dead, OnFile, Called, Foreground, Serving, Ended
<1>3. CASE Started(t)
  BY <1>0, <1>1, <1>3 DEF Started, Reach, Inv, TypeOK, Stages, Dead, OnFile, Called,
     Foreground, Serving, Ended
<1>4. CASE Waited(t)
  BY <1>0, <1>1, <1>4 DEF Waited, Reach, Inv, TypeOK, Stages, Dead, OnFile, Called,
     Foreground, Serving, Ended
<1>5. CASE WriteTaskResult(t)
  BY <1>0, <1>1, <1>5 DEF WriteTaskResult, Reach, Inv, TypeOK, Stages, Dead, OnFile, Called,
     Foreground, Serving, Ended
<1>6. CASE CancelKillTimer(t) \/ EnqueueCompletion(t)
  BY <1>0, <1>1, <1>6 DEF CancelKillTimer, EnqueueCompletion, Reach, Inv, TypeOK, Stages,
     Dead, OnFile, Called, Foreground, Serving, Ended
<1>7. CASE UpdateState(t)
  BY <1>0, <1>1, <1>7 DEF UpdateState, Reach, Inv, TypeOK, Stages, Dead, OnFile, Called,
     Foreground, Serving, Ended
<1> QED
  BY <1>2, <1>3, <1>4, <1>5, <1>6, <1>7 DEF Inner

\* A signal from anywhere: the timeout, its escalation, TaskStop, or the end
\* of the command.
LEMMA SignalKeeps ==
    ASSUME Inv, NEW t \in Tasks, Termed(t), UNCHANGED <<stage, info, onFile, fore>>,
           UNCHANGED agent \/ (agent.at = "stopping" /\ agent' = At("top"))
    PROVE  Inv'
<1>1. TypeOK'
  <2>1. "top" \in Doings
    BY DEF Doings
  <2> QED
    BY <2>1, SignalKills, AtType DEF Inv, TypeOK
<1>2. Dead'
  BY SignalKills DEF Inv, TypeOK, Dead, Ended
<1>3. OnFile' /\ Foreground' /\ Serving'
  BY DEF Inv, OnFile, Foreground, Serving, At
<1>4. Called'
  BY SignalKills DEF Inv, Called
<1> QED
  BY <1>1, <1>2, <1>3, <1>4 DEF Inv

LEMMA TimersKeep == ASSUME Inv, NEW t \in Tasks, Timers(t) PROVE Inv'
<1>1. CASE Timeout(t)
  BY <1>1, SignalKeeps DEF Timeout
<1>2. CASE Escalate(t)
  BY <1>2, SignalKeeps DEF Escalate, Termed
<1>3. CASE KillTimerFires(t)
  <2>1. CASE info[t] = "running"
    <3>1. /\ Signalled(t) /\ Termed(t) /\ info' = [info EXCEPT ![t] = "stopped"]
          /\ stage[t] \notin {"spawned", "started"}
          /\ UNCHANGED <<stage, onFile, agent, fore>>
      BY <1>3, <2>1 DEF KillTimerFires, Termed
    <3>2. TypeOK' /\ Foreground' /\ Serving'
      BY <3>1, SignalKills DEF Inv, TypeOK, Foreground, Serving
    <3>3. Dead' /\ OnFile'
      BY <3>1, SignalKills DEF Inv, TypeOK, Dead, OnFile, Ended
    <3>4. Called'
      BY <2>1, <3>1, SignalKills DEF Inv, TypeOK, Called
    <3> QED
      BY <3>2, <3>3, <3>4 DEF Inv
  <2>2. CASE info[t] # "running"
    BY <1>3, <2>2, SignalKeeps DEF KillTimerFires, Termed
  <2> QED
    BY <2>1, <2>2
<1> QED
  BY <1>1, <1>2, <1>3 DEF Timers

\* The outer goroutine, and a command or child that ends by itself.
LEMMA OuterKeeps ==
    ASSUME Inv, NEW t \in Tasks, Flush(t) \/ CleanUp(t) \/ ShellExits(t) \/ ChildExits(t)
    PROVE  Inv'
<1>1. CASE Flush(t)
  BY <1>1 DEF Flush, Inv, TypeOK, Dead, OnFile, Called, Foreground, Serving, Ended
<1>2. CASE CleanUp(t)
  BY <1>2 DEF CleanUp, Inv, TypeOK, Dead, OnFile, Called, Foreground, Serving
<1>3. CASE ShellExits(t)
  BY <1>3, SignalKeeps DEF ShellExits, Termed
<1>4. CASE ChildExits(t)
  BY <1>4, SignalKeeps DEF ChildExits, Termed
<1> QED
  BY <1>1, <1>2, <1>3, <1>4

LEMMA LaunchKeeps == ASSUME Inv, NEW t \in Tasks, Launch(t) PROVE Inv'
<1>1. TypeOK'
  BY DEF Launch, Reach, Inv, TypeOK, Stages, AgentType, Doings, At
<1>2. Dead' /\ OnFile' /\ Called'
  BY DEF Launch, Reach, Inv, TypeOK, Dead, OnFile, Called, Ended
<1>3. Foreground' /\ Serving'
  BY DEF Launch, At, Inv, Foreground, Serving
<1> QED
  BY <1>1, <1>2, <1>3 DEF Inv

\* A step of the agent that leaves the tasks as they are.
LEMMA AgentKeeps ==
    ASSUME Inv, UNCHANGED <<stage, info, shell, onFile>>,
           agent' \in AgentType, Foreground', Serving'
    PROVE  Inv'
  BY DEF Inv, TypeOK, Dead, OnFile, Called

LEMMA ToolsKeep ==
    ASSUME Inv,
           \/ DrainAll \/ OtherTurn \/ Lookup \/ Poll \/ PollState \/ StopRefused
           \/ DeadlinePasses \/ \E t \in Tasks : TaskOutput(t) \/ TaskStop(t)
    PROVE  Inv'
<1>1. UNCHANGED <<stage, info, shell, onFile, fore>>
  BY DEF DrainAll, OtherTurn, Lookup, Poll, PollState, StopRefused, DeadlinePasses,
     TaskOutput, TaskStop, TakeCompletion, MissCompletion
<1>2. agent.at # "run"
  BY DEF DrainAll, OtherTurn, Lookup, Poll, PollState, StopRefused, DeadlinePasses,
     TaskOutput, TaskStop
<1>3. agent \in AgentType /\ Serving
  BY DEF Inv, TypeOK
<1>4. {"top", "turn", "asked", "polling", "polled", "stopping"} \subseteq Doings
  BY DEF Doings
<1>5. agent' \in AgentType /\ Serving'
  <2>1. CASE DrainAll \/ OtherTurn \/ StopRefused
    <3>1. agent' \in {At("top"), At("turn")}
      BY <2>1 DEF DrainAll, OtherTurn, StopRefused
    <3> QED
      BY <1>4, <3>1, AtType DEF Serving
  <2>2. CASE Lookup
    <3>1. \/ agent' = At("top")
          \/ agent' = [at |-> "polling", task |-> agent.task, late |-> FALSE]
      BY <2>2 DEF Lookup, Serve
    <3>2. agent.task \in Tasks /\ "polling" \in Doings /\ "top" \in Doings
      BY <1>3, <1>4, <2>2 DEF Lookup, Serving
    <3> QED
      BY <3>1, <3>2, AtType, ServeType DEF Serving
  <2>3. CASE PollState
    <3>1. agent' = [agent EXCEPT !.at = "polling"] \/ agent' = At("top")
      BY <2>3 DEF PollState
    <3>2. "polling" \in Doings /\ "top" \in Doings /\ agent.task \in Tasks
      BY <1>3, <1>4, <2>3 DEF PollState, Serving
    <3>3. CASE agent' = At("top")
      BY <3>2, <3>3, AtType DEF Serving
    <3>4. CASE agent' = [agent EXCEPT !.at = "polling"]
      <4> DEFINE a == [agent EXCEPT !.at = "polling"]
      <4>1. a \in AgentType /\ a.at = "polling" /\ a.task = agent.task
        BY <1>3, <3>2, AgentFields
      <4>2. agent' = a
        BY <3>4
      <4> HIDE DEF a
      <4> QED
        BY <3>2, <4>1, <4>2 DEF Serving
    <3> QED
      BY <3>1, <3>3, <3>4
  <2>4. CASE DeadlinePasses
    <3>1. agent' = [agent EXCEPT !.late = TRUE] /\ agent.task \in Tasks
      BY <1>3, <2>4 DEF DeadlinePasses, Serving
    <3> QED
      BY <1>3, <3>1, LateFields DEF Serving
  <2>5. CASE Poll
    <3>1. \/ agent' = At("top")
          \/ agent' = [at |-> "polled", task |-> agent.task, late |-> agent.late]
      BY <2>5 DEF Poll, TakeCompletion, MissCompletion
    <3>2. agent.task \in Tasks
      BY <1>3, <2>5 DEF Poll, Serving
    <3>3. CASE agent' = At("top")
      BY <1>4, <3>3, AtType DEF Serving
    <3>4. CASE agent' = [at |-> "polled", task |-> agent.task, late |-> agent.late]
      <4>1. "polled" \in Doings
        BY <1>4
      <4>2. agent' \in AgentType /\ agent'.at = "polled" /\ agent'.task = agent.task
        BY <1>3, <3>4, <4>1, AgentFields
      <4> QED
        BY <3>2, <4>2 DEF Serving
    <3> QED
      BY <3>1, <3>3, <3>4
  <2>6. ASSUME NEW t \in Tasks, TaskOutput(t) \/ TaskStop(t)
        PROVE  agent' \in AgentType /\ Serving'
    <3>1. \/ agent' = At("top")
          \/ agent' = [at |-> "asked", task |-> t, late |-> FALSE]
          \/ agent' = [at |-> "stopping", task |-> t, late |-> FALSE]
      BY <2>6 DEF TaskOutput, TaskStop, TakeCompletion, MissCompletion, Serve
    <3> QED
      BY <1>4, <3>1, AtType, ServeType DEF Serving
  <2> QED
    BY <2>1, <2>2, <2>3, <2>4, <2>5, <2>6
<1> QED
  BY <1>1, <1>2, <1>5, AgentKeeps DEF Inv, Foreground

LEMMA StopKeeps == ASSUME Inv, Stop PROVE Inv'
<1>1. agent.task \in Tasks /\ agent.at = "stopping"
  BY DEF Stop, Inv, Serving
<1>2. Termed(agent.task) /\ agent' = At("top")
  BY DEF Stop, Armed, Termed
<1> QED
  BY <1>1, <1>2, SignalKeeps DEF Stop

\* A command in the foreground.
LEMMA ForegroundKeeps ==
    ASSUME Inv, Refused \/ Execute \/ Returns \/ RunTimeout \/ ForeExits
    PROVE  Inv'
<1>1. UNCHANGED <<stage, info, shell, onFile>>
  BY DEF Refused, Execute, Returns, RunTimeout, ForeExits, TasksStay
<1>2. Foreground' /\ Serving'
  BY DEF Inv, Foreground, Serving, Refused, Execute, Returns, RunTimeout, ForeExits, At,
     Serve
<1>3. agent' \in AgentType
  <2>1. agent' \in {agent, At("top"), [at |-> "run", task |-> NoTask, late |-> FALSE]}
    BY DEF Refused, Execute, Returns, RunTimeout, ForeExits, Serve
  <2>2. "top" \in Doings /\ "run" \in Doings
    BY DEF Doings
  <2> QED
    BY <2>1, <2>2, AtType, ServeType DEF Inv, TypeOK
<1> QED
  BY <1>1, <1>2, <1>3, AgentKeeps

LEMMA Inductive == Inv /\ [Next]_vars => Inv'
<1>1. Inv /\ UNCHANGED vars => Inv'
  BY AgentKeeps DEF vars, Inv, TypeOK, Foreground, Serving
<1> QED
  BY <1>1, InnerKeeps, TimersKeep, OuterKeeps, LaunchKeeps, ToolsKeep, StopKeeps,
     ForegroundKeeps DEF Next, Agent

LEMMA Invariant == Spec => []Inv
  BY Initial, Inductive, PTL DEF Spec

-----------------------------------------------------------------------------
(* The completions: the step that queues one is the last of the inner      *)
(* goroutine, and the steps of the agent move them and lose none.          *)

\* The table forgets a task when its inner goroutine is over.
Forgotten == \A t \in Tasks : info[t] = "absent" => stage[t] \in {"none", "failed", "done"}

Ledger ==
    /\ queue \in [Tasks -> Nat] /\ drained \in [Tasks -> Nat]
    /\ AnnouncedOnce /\ Forgotten

LEMMA LedgerInitial == Init => Ledger
  BY DEF Init, Ledger, AnnouncedOnce, Forgotten

\* The goroutines of a task: one step queues its completion.
LEMMA TasksKeepLedger ==
    ASSUME Inv, Ledger, NEW t \in Tasks,
           \/ Inner(t) \/ Timers(t) \/ Flush(t) \/ CleanUp(t) \/ ShellExits(t)
           \/ ChildExits(t) \/ Launch(t)
    PROVE  Ledger'
<1> USE DEF Inv, TypeOK, Ledger, AnnouncedOnce, Forgotten
<1>1. CASE EnqueueCompletion(t)
  BY <1>1 DEF EnqueueCompletion, Reach
<1>2. ASSUME UNCHANGED <<queue, drained>>, ~EnqueueCompletion(t)
      PROVE  Ledger'
  <2>1. CASE Inner(t)
    <3>1. CASE UpdateState(t)
      BY <1>2, <3>1 DEF UpdateState, Reach
    <3>2. ASSUME UNCHANGED info, NEW s \in Stages \ {"done", "none"}, Reach(t, s),
                 stage[t] \notin {"none", "failed", "done"}
          PROVE  Ledger'
      BY <1>2, <3>2 DEF Reach
    <3> QED
      BY <1>2, <2>1, <3>1, <3>2 DEF Inner, NoShell, StartFails, Started, UpdateProcess,
         Waited, WriteTaskResult, CancelKillTimer, Stages
  <2>2. CASE Timers(t)
    BY <1>2, <2>2 DEF Timers, Timeout, Escalate, KillTimerFires
  <2>3. CASE CleanUp(t)
    BY <1>2, <2>3 DEF CleanUp
  <2>4. CASE Launch(t)
    BY <1>2, <2>4 DEF Launch, Reach
  <2>5. CASE Flush(t) \/ ShellExits(t) \/ ChildExits(t)
    BY <1>2, <2>5 DEF Flush, ShellExits, ChildExits
  <2> QED
    BY <2>1, <2>2, <2>3, <2>4, <2>5, <1>2
<1>3. EnqueueCompletion(t) \/ UNCHANGED <<queue, drained>>
  BY DEF Inner, NoShell, StartFails, Started, UpdateProcess, Waited, WriteTaskResult,
     CancelKillTimer, UpdateState, Timers, Timeout, Escalate, KillTimerFires, Flush,
     CleanUp, ShellExits, ChildExits, Launch
<1> QED
  BY <1>1, <1>2, <1>3

\* The agent takes all completions or those of one task.
LEMMA TakeKeeps ==
    ASSUME Ledger, NEW t \in Tasks, TakeCompletion(t), UNCHANGED <<stage, info>>
    PROVE  Ledger'
<1>1. queue[t] + drained[t] \in {0, 1} /\ queue[t] \in Nat /\ drained[t] \in Nat
  BY DEF Ledger, AnnouncedOnce
<1>2. queue[t] = 1 /\ drained[t] = 0
  BY <1>1 DEF TakeCompletion
<1>3. queue' = [queue EXCEPT ![t] = 0] /\ drained' = [drained EXCEPT ![t] = @ + 1]
  BY DEF TakeCompletion, Remaining
<1> QED
  BY <1>2, <1>3 DEF Ledger, AnnouncedOnce, Forgotten

LEMMA AgentKeepsLedger ==
    ASSUME Inv, Ledger,
           \/ Agent /\ ~(\E t \in Tasks : Launch(t))
           \/ DeadlinePasses \/ RunTimeout \/ ForeExits \/ UNCHANGED vars
    PROVE  Ledger'
<1>1. UNCHANGED <<stage, info>>
  BY DEF Agent, DrainAll, OtherTurn, Lookup, Poll, PollState, StopRefused, DeadlinePasses,
     TaskOutput, TaskStop, TakeCompletion, MissCompletion, Stop, Refused, Execute, Returns,
     RunTimeout, ForeExits, TasksStay, vars
<1>2. CASE DrainAll
  BY <1>1, <1>2 DEF DrainAll, Ledger, AnnouncedOnce, Forgotten
<1>3. CASE UNCHANGED <<queue, drained>>
  BY <1>1, <1>3 DEF Ledger, AnnouncedOnce, Forgotten
<1>4. ASSUME NEW t \in Tasks, TakeCompletion(t) PROVE Ledger'
  BY <1>1, <1>4, TakeKeeps
<1>5. CASE Poll
  <2>1. agent.at = "polling"
    BY <1>5 DEF Poll
  <2>2. agent.task \in Tasks
    BY <2>1 DEF Inv, Serving
  <2> QED
    BY <1>3, <1>4, <1>5, <2>2 DEF Poll, MissCompletion
<1> QED
  BY <1>2, <1>3, <1>4, <1>5 DEF Agent, OtherTurn, Lookup, PollState, StopRefused,
     DeadlinePasses, TaskOutput, TaskStop, MissCompletion, Stop, Refused, Execute, Returns,
     RunTimeout, ForeExits, TasksStay, vars

LEMMA LedgerInvariant == Spec => []Ledger
<1>1. Inv /\ Ledger /\ [Next]_vars => Ledger'
  BY TasksKeepLedger, AgentKeepsLedger DEF Next, Agent
<1> QED
  BY <1>1, LedgerInitial, Invariant, PTL DEF Spec

-----------------------------------------------------------------------------
\* A task that is called stopped or completed has no shell running, and nothing
\* a command in the foreground started outlives its call, for any tasks.
\* (TaskManager.Stop, the kill timers and executeBackground)
THEOREM NothingOutlives == Spec => []EndedIsDead
<1>1. Inv => EndedIsDead
  BY DEF Inv, Dead, Called, Foreground, Serving, EndedIsDead, Ended
<1> QED
  BY <1>1, Invariant, PTL

\* The last line of the file of a task that has completed holds its output.
\* (WriteTaskResult against the periodic flush)
THEOREM OutputIsWritten == Spec => []CompletedIsWritten
<1>1. Inv => CompletedIsWritten
  BY DEF Inv, OnFile, Called, CompletedIsWritten
<1> QED
  BY <1>1, Invariant, PTL

\* The completion of every task that has ended is in the queue or has reached
\* the model, and it is there once, for any tasks and any calls of TaskOutput.
\* (EnqueueCompletion against DrainCompletions and DrainCompletion)
THEOREM CompletionsAreKept == Spec => []AnnouncedOnce
<1>1. Ledger => AnnouncedOnce
  BY DEF Ledger
<1> QED
  BY <1>1, LedgerInvariant, PTL

\* A task the table has forgotten was announced and its output is on file,
\* unless it never started.  (the order of executeBackground: WriteTaskResult,
\* EnqueueCompletion, and Delete by the other goroutine)
THEOREM ForgottenIsAnnounced == Spec => []GoneIsAnnounced
<1>1. Inv /\ Ledger => GoneIsAnnounced
  BY DEF Inv, OnFile, Ledger, AnnouncedOnce, Forgotten, GoneIsAnnounced
<1> QED
  BY <1>1, Invariant, LedgerInvariant, PTL
=============================================================================
