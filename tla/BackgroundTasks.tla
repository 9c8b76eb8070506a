--------------------------- MODULE BackgroundTasks ---------------------------
(***************************************************************************)
(* Background shell tasks: the goroutines of BashTool.executeBackground    *)
(* (internal/tool/bash.go), the TaskManager they report to                 *)
(* (internal/tool/task_manager.go), the TaskOutput and TaskStop tools, and *)
(* the agent loop that drains the completions at the top of each turn.     *)
(*                                                                         *)
(* A task has an inner goroutine (stage), which runs the command, an outer *)
(* one, which flushes, enforces the timeout and cleans up, and up to two   *)
(* kinds of kill timers.  Its command is a shell and, in Forks, a child    *)
(* process of the shell that keeps the output pipe open.  A command in the *)
(* foreground holds the agent up until it is over.  Nobody minds the order *)
(* of the queue of completions: it is modelled by what it holds.           *)
(***************************************************************************)
EXTENDS Naturals

CONSTANTS
    Tasks,      \* task ids
    Forks,      \* the tasks whose shell leaves a child behind when it dies
    MaxReplaced \* bound: kill timers of a task replaced before they fire

ASSUME ForksAssumption == Forks \subseteq Tasks
ASSUME ReplacedAssumption == MaxReplaced \in [Tasks -> Nat]

VARIABLES
    stage,     \* how far the inner goroutine has come
    left,      \* the outer goroutine has cleaned up
    info,      \* TaskManager.tasks: the state of the task, or "absent"
    shell,     \* the process of the command
    child,     \* the child it leaves behind
    deadline,  \* the timeout of the task: pending, sent SIGTERM, sent SIGKILL
    timer,     \* TaskInfo.KillTimer: whether it is still to fire
    stray,     \* kill timers no longer referenced by a TaskInfo
    onFile,    \* the output in the last line of the output file
    queue,     \* TaskManager.completionQueue: how many entries a task has
    agent,     \* the loop: at the top, in a turn, or in one of the tools
    fore,      \* what lives of the command in the foreground
    drained    \* how often the completion of a task reached the model

vars == <<stage, left, info, shell, child, deadline, timer, stray, onFile,
          queue, agent, fore, drained>>

Stages == {"none", "spawned", "noshell", "failed", "started", "tracked",
           "waited", "written", "disarmed", "marked", "done"}
Ended == {"waited", "written", "disarmed", "marked", "done"}
Tracked == Ended \cup {"tracked"}

NoTask == "notask"
At(place) == [at |-> place, task |-> NoTask, late |-> FALSE]

Init ==
    /\ stage = [t \in Tasks |-> "none"]
    /\ left = [t \in Tasks |-> FALSE]
    /\ info = [t \in Tasks |-> "absent"]
    /\ shell = [t \in Tasks |-> "none"] /\ child = [t \in Tasks |-> "none"]
    /\ deadline = [t \in Tasks |-> "pending"]
    /\ timer = [t \in Tasks |-> "none"] /\ stray = [t \in Tasks |-> 0]
    /\ onFile = [t \in Tasks |-> "none"]
    /\ queue = [t \in Tasks |-> 0]
    /\ agent = At("top") /\ fore = {}
    /\ drained = [t \in Tasks |-> 0]

-----------------------------------------------------------------------------
(* The inner goroutine.                                                    *)

Reach(t, s) == stage' = [stage EXCEPT ![t] = s]

\* The task is stored before its goroutines are spawned.
Launch(t) ==
    /\ agent.at = "turn" /\ stage[t] = "none"
    /\ Reach(t, "spawned")
    /\ info' = [info EXCEPT ![t] = "running"]
    /\ agent' = At("top")
    /\ UNCHANGED <<left, shell, child, deadline, timer, stray, onFile, queue,
                   drained, fore>>

\* No shell is found: the outer goroutine returns at once and the task stays.
NoShell(t) ==
    /\ stage[t] = "spawned" /\ Reach(t, "noshell")
    /\ UNCHANGED <<left, info, shell, child, deadline, timer, stray, onFile,
                   queue, agent, drained, fore>>

StartFails(t) ==
    /\ stage[t] = "spawned" /\ Reach(t, "failed")
    /\ UNCHANGED <<left, info, shell, child, deadline, timer, stray, onFile,
                   queue, agent, drained, fore>>

Started(t) ==
    /\ stage[t] = "spawned" /\ Reach(t, "started")
    /\ shell' = [shell EXCEPT ![t] = "alive"]
    /\ child' = [child EXCEPT ![t] = IF t \in Forks THEN "alive" ELSE "none"]
    /\ UNCHANGED <<left, info, deadline, timer, stray, onFile, queue, agent,
                   drained, fore>>

\* UpdateProcess: from here on the TaskInfo knows the process.
UpdateProcess(t) ==
    /\ stage[t] = "started" /\ Reach(t, "tracked")
    /\ UNCHANGED <<left, info, shell, child, deadline, timer, stray, onFile,
                   queue, agent, drained, fore>>

\* Wait returns when the shell is dead and nobody holds its output open.
Waited(t) ==
    /\ stage[t] = "tracked" /\ shell[t] = "dead" /\ child[t] # "alive"
    /\ Reach(t, "waited")
    /\ UNCHANGED <<left, info, shell, child, deadline, timer, stray, onFile,
                   queue, agent, drained, fore>>

\* Fault: the result is never written.
WriteTaskResultSkipped(t) ==
    /\ stage[t] = "waited" /\ Reach(t, "written")
    /\ UNCHANGED <<left, info, shell, child, deadline, timer, stray, onFile,
                   queue, agent, drained, fore>>

WriteTaskResult(t) ==
    /\ stage[t] = "waited" /\ Reach(t, "written")
    /\ onFile' = [onFile EXCEPT ![t] = "output"]
    /\ UNCHANGED <<left, info, shell, child, deadline, timer, stray, queue,
                   agent, drained, fore>>

CancelKillTimer(t) ==
    /\ stage[t] = "written" /\ Reach(t, "disarmed")
    /\ timer' = [timer EXCEPT ![t] = "none"]
    /\ UNCHANGED <<left, info, shell, child, deadline, stray, onFile, queue,
                   agent, drained, fore>>

\* A timer that fired before it was cancelled may have set "stopped" already.
UpdateState(t) ==
    /\ stage[t] = "disarmed" /\ Reach(t, "marked")
    /\ info' = [info EXCEPT ![t] = "completed"]
    /\ UNCHANGED <<left, shell, child, deadline, timer, stray, onFile, queue,
                   agent, drained, fore>>

\* The completion is queued; the goroutine is done.
EnqueueCompletion(t) ==
    /\ stage[t] = "marked" /\ Reach(t, "done")
    /\ queue' = [queue EXCEPT ![t] = @ + 1]
    /\ UNCHANGED <<left, info, shell, child, deadline, timer, stray, onFile,
                   agent, drained, fore>>

-----------------------------------------------------------------------------
(* The outer goroutine and the timers.                                     *)

InLoop(t) == stage[t] \notin {"none", "noshell"} /\ ~left[t]

\* The output is collected when the command has ended: a flush before that
\* writes none of it.
Flush(t) ==
    /\ InLoop(t) /\ stage[t] # "spawned"
    /\ onFile' = [onFile EXCEPT
                     ![t] = IF stage[t] \in Ended THEN "output" ELSE "empty"]
    /\ UNCHANGED <<stage, left, info, shell, child, deadline, timer, stray,
                   queue, agent, drained, fore>>

\* A signal goes to the shell alone.  SIGTERM may be ignored.
Signalled(t) == shell' = [shell EXCEPT ![t] = IF @ = "alive" THEN "dead" ELSE @]
Termed(t) == Signalled(t) \/ UNCHANGED shell

\* (A timeout that finds the command ended changes nothing.)
Timeout(t) ==
    /\ InLoop(t) /\ deadline[t] = "pending" /\ shell[t] = "alive"
    /\ deadline' = [deadline EXCEPT ![t] = "termed"]
    /\ Termed(t)
    /\ UNCHANGED <<stage, left, info, child, timer, stray, onFile, queue,
                   agent, drained, fore>>

\* Fault: a task that ignores SIGTERM is not killed.
EscalateNot(t) ==
    /\ deadline[t] = "termed"
    /\ deadline' = [deadline EXCEPT ![t] = "killed"]
    /\ UNCHANGED <<stage, left, info, shell, child, timer, stray, onFile,
                   queue, agent, drained, fore>>

\* Five seconds after the timeout.
Escalate(t) ==
    /\ deadline[t] = "termed"
    /\ deadline' = [deadline EXCEPT ![t] = "killed"]
    /\ Signalled(t)
    /\ UNCHANGED <<stage, left, info, child, timer, stray, onFile, queue,
                   agent, drained, fore>>

\* A kill timer fires, five seconds after TaskStop: by then the command was
\* started or had failed to start.
KillTimerFires(t) ==
    /\ stage[t] \notin {"spawned", "started"}
    /\ \/ timer[t] = "armed" /\ timer' = [timer EXCEPT ![t] = "none"]
          /\ UNCHANGED stray
       \/ stray[t] > 0 /\ stray' = [stray EXCEPT ![t] = @ - 1]
          /\ UNCHANGED timer
    /\ IF info[t] = "running"
       THEN Signalled(t) /\ info' = [info EXCEPT ![t] = "stopped"]
       ELSE UNCHANGED <<shell, info>>
    /\ UNCHANGED <<stage, left, child, deadline, onFile, queue, agent, drained, fore>>

\* Fault: the task is deleted as soon as the command has ended.
CleanUpEarly(t) ==
    /\ stage[t] \in Ended /\ ~left[t]
    /\ left' = [left EXCEPT ![t] = TRUE]
    /\ info' = [info EXCEPT ![t] = "absent"]
    /\ stray' = [stray EXCEPT ![t] = IF timer[t] = "armed" THEN @ + 1 ELSE @]
    /\ timer' = [timer EXCEPT ![t] = "none"]
    /\ UNCHANGED <<stage, shell, child, deadline, onFile, queue, agent, drained, fore>>

\* The inner goroutine is done: the task is deleted and what is left of its
\* process group is killed.
CleanUp(t) ==
    /\ stage[t] \in {"done", "failed"} /\ ~left[t]
    /\ left' = [left EXCEPT ![t] = TRUE]
    /\ info' = [info EXCEPT ![t] = "absent"]
    /\ stray' = [stray EXCEPT ![t] = IF timer[t] = "armed" THEN @ + 1 ELSE @]
    /\ timer' = [timer EXCEPT ![t] = "none"]
    /\ child' = [child EXCEPT ![t] = IF @ = "alive" THEN "dead" ELSE @]
    /\ UNCHANGED <<stage, shell, deadline, onFile, queue, agent, drained, fore>>

\* The command, or the child it left, ends by itself.
ShellExits(t) ==
    /\ shell[t] = "alive" /\ Signalled(t)
    /\ UNCHANGED <<stage, left, info, child, deadline, timer, stray, onFile,
                   queue, agent, drained, fore>>

ChildExits(t) ==
    /\ child[t] = "alive" /\ child' = [child EXCEPT ![t] = "dead"]
    /\ UNCHANGED <<stage, left, info, shell, deadline, timer, stray, onFile,
                   queue, agent, drained, fore>>

-----------------------------------------------------------------------------
(* The agent: one thread, which runs these tools one at a time.            *)

Serve(place, t) == agent' = [at |-> place, task |-> t, late |-> FALSE]

\* DrainCompletions at the top of the loop.
DrainAll ==
    /\ agent.at = "top"
    /\ drained' = [t \in Tasks |-> drained[t] + queue[t]]
    /\ queue' = [t \in Tasks |-> 0]
    /\ agent' = At("turn")
    /\ UNCHANGED <<stage, left, info, shell, child, deadline, timer, stray,
                   onFile, fore>>

\* A turn that is about something else.
OtherTurn ==
    /\ agent.at = "turn" /\ agent' = At("top")
    /\ UNCHANGED <<stage, left, info, shell, child, deadline, timer, stray,
                   onFile, queue, drained, fore>>

\* Fault: completions of other tasks are not put back.
RemainingNone(t) == [u \in Tasks |-> 0]

\* What DrainCompletion leaves in the queue.
Remaining(t) == [queue EXCEPT ![t] = 0]

\* DrainCompletion of TaskOutput: the answer is found in the queue...
TakeCompletion(t) ==
    /\ queue[t] > 0
    /\ queue' = Remaining(t)
    /\ drained' = [drained EXCEPT ![t] = @ + 1]
    /\ agent' = At("top")
    /\ UNCHANGED <<stage, left, info, shell, child, deadline, timer, stray,
                   onFile, fore>>

\* ...or it is not, and the task is looked up next.
MissCompletion(t, place, late) ==
    /\ queue[t] = 0
    /\ agent' = [at |-> place, task |-> t, late |-> late]
    /\ UNCHANGED <<stage, left, info, shell, child, deadline, timer, stray,
                   onFile, queue, drained, fore>>

TaskOutput(t) ==
    /\ agent.at = "turn" /\ stage[t] # "none"
    /\ TakeCompletion(t) \/ MissCompletion(t, "asked", FALSE)

\* The task is unknown, or the call does not block: it answers.  Otherwise
\* it polls.
Lookup ==
    /\ agent.at = "asked"
    /\ \/ agent' = At("top")
       \/ info[agent.task] # "absent" /\ Serve("polling", agent.task)
    /\ UNCHANGED <<stage, left, info, shell, child, deadline, timer, stray,
                   onFile, queue, drained, fore>>

DeadlinePasses ==
    /\ agent.at \in {"polling", "polled"} /\ ~agent.late
    /\ agent' = [agent EXCEPT !.late = TRUE]
    /\ UNCHANGED <<stage, left, info, shell, child, deadline, timer, stray,
                   onFile, queue, drained, fore>>

\* The call polls the queue, unless the user cancels it.
Poll ==
    /\ agent.at = "polling"
    /\ \/ TakeCompletion(agent.task)
       \/ MissCompletion(agent.task, "polled", agent.late)
       \/ /\ agent' = At("top")
          /\ UNCHANGED <<stage, left, info, shell, child, deadline, timer,
                         stray, onFile, queue, drained, fore>>

\* After a miss: the task is gone, or it has ended and its file is read, or
\* the deadline has passed: the call answers; else it polls again.
PollState ==
    /\ agent.at = "polled"
    /\ agent' = IF info[agent.task] = "running" /\ ~agent.late
                THEN [agent EXCEPT !.at = "polling"]
                ELSE At("top")
    /\ UNCHANGED <<stage, left, info, shell, child, deadline, timer, stray,
                   onFile, queue, drained, fore>>

\* TaskStop looks the task up and refuses, or goes on to stop it.
TaskStop(t) ==
    /\ agent.at = "turn" /\ stage[t] # "none"
    /\ IF info[t] = "running" THEN Serve("stopping", t) ELSE agent' = At("top")
    /\ UNCHANGED <<stage, left, info, shell, child, deadline, timer, stray,
                   onFile, queue, drained, fore>>

StopRefused ==
    /\ agent.at = "stopping" /\ info[agent.task] # "running"
    /\ agent' = At("top")
    /\ UNCHANGED <<stage, left, info, shell, child, deadline, timer, stray,
                   onFile, queue, drained, fore>>

\* Stop: SIGTERM if the process is known, and a kill timer that takes the
\* place of an earlier one without cancelling it.
Armed(t) ==
    /\ timer[t] = "armed" => stray[t] < MaxReplaced[t]
    /\ stray' = [stray EXCEPT ![t] = IF timer[t] = "armed" THEN @ + 1 ELSE @]
    /\ timer' = [timer EXCEPT ![t] = "armed"]
    /\ IF stage[t] \in Tracked THEN Termed(t) ELSE UNCHANGED shell
    /\ agent' = At("top")

\* Fault: the task is called stopped when it was only asked to stop.
StopAtOnce ==
    /\ agent.at = "stopping" /\ info[agent.task] = "running"
    /\ Armed(agent.task)
    /\ info' = [info EXCEPT ![agent.task] = "stopped"]
    /\ UNCHANGED <<stage, left, child, deadline, onFile, queue, drained, fore>>

Stop ==
    /\ agent.at = "stopping" /\ info[agent.task] = "running"
    /\ Armed(agent.task)
    /\ UNCHANGED <<stage, left, info, child, deadline, onFile, queue, drained, fore>>

-----------------------------------------------------------------------------
(* A command in the foreground (BashTool.Execute).                         *)

TasksStay == UNCHANGED <<stage, left, info, shell, child, deadline, timer,
                         stray, onFile, queue, drained>>

\* The permission level, the gates for the command, its paths and its pipes,
\* a sleep, the sandbox, no shell; an edit with sed is made here and now.
Refused ==
    /\ agent.at = "turn" /\ agent' = At("top")
    /\ UNCHANGED fore /\ TasksStay

\* The shell, and what it may leave behind: a child that keeps the output open
\* or one that does not.
Execute ==
    /\ agent.at = "turn" /\ Serve("run", NoTask)
    /\ fore' \in {{"shell"}, {"shell", "child"}, {"shell", "mute"}}
    /\ TasksStay

\* The timeout or a cancellation kills the shell alone; or it ends by itself,
\* as a child may.
RunTimeout ==
    /\ agent.at = "run" /\ "shell" \in fore
    /\ fore' = fore \ {"shell"}
    /\ UNCHANGED agent /\ TasksStay
ForeExits ==
    /\ agent.at = "run"
    /\ \E process \in fore : fore' = fore \ {process}
    /\ UNCHANGED agent /\ TasksStay

\* Fault: the shell alone is killed.
ReturnsAlone ==
    /\ agent.at = "run" /\ fore \cap {"shell", "child"} = {}
    /\ agent' = At("top") /\ UNCHANGED fore
    /\ TasksStay

\* Run waits for the shell and for its output to be closed; when it is over
\* the process group is killed.
Returns ==
    /\ agent.at = "run" /\ fore \cap {"shell", "child"} = {}
    /\ agent' = At("top") /\ fore' = {}
    /\ TasksStay

-----------------------------------------------------------------------------
Inner(t) ==
    \/ NoShell(t) \/ StartFails(t) \/ Started(t) \/ UpdateProcess(t)
    \/ Waited(t) \/ WriteTaskResult(t) \/ CancelKillTimer(t)
    \/ UpdateState(t) \/ EnqueueCompletion(t)
Timers(t) == Timeout(t) \/ Escalate(t) \/ KillTimerFires(t)
Agent ==
    \/ DrainAll \/ OtherTurn
    \/ \E t \in Tasks : Launch(t) \/ TaskOutput(t) \/ TaskStop(t)
    \/ Lookup \/ Poll \/ PollState \/ StopRefused \/ Stop
    \/ Refused \/ Execute \/ Returns

Next ==
    \/ Agent \/ DeadlinePasses \/ RunTimeout \/ ForeExits
    \/ \E t \in Tasks :
          \/ Inner(t) \/ Timers(t) \/ Flush(t) \/ CleanUp(t)
          \/ ShellExits(t) \/ ChildExits(t)

Spec == Init /\ [][Next]_vars

\* Goroutines are scheduled, timers fire, and the session goes on.  Nothing
\* makes a command, or a child it left, end by itself.
Fairness ==
    /\ WF_vars(Agent) /\ WF_vars(DeadlinePasses) /\ WF_vars(RunTimeout)
    /\ \A t \in Tasks :
          /\ WF_vars(Inner(t)) /\ WF_vars(CleanUp(t))
          /\ WF_vars(Timeout(t)) /\ WF_vars(Escalate(t))
          /\ WF_vars(KillTimerFires(t))
FairSpec == Spec /\ Fairness
-----------------------------------------------------------------------------
(* Properties.                                                             *)

\* The completion of a task reaches the model once, from the loop or from
\* TaskOutput, whatever is drained in the meantime for other tasks
\* (DrainCompletions and the re-enqueueing of DrainCompletion).
AnnouncedOnce ==
    \A t \in Tasks :
        queue[t] + drained[t] = IF stage[t] = "done" THEN 1 ELSE 0

\* A task the manager no longer knows can still be told from one that never
\* ran: its completion was queued and its whole output is on file, unless it
\* never started (the order of WriteTaskResult, EnqueueCompletion and Delete).
GoneIsAnnounced ==
    \A t \in Tasks :
        (info[t] = "absent" /\ stage[t] \notin {"none", "failed"}) =>
            queue[t] + drained[t] = 1 /\ onFile[t] = "output"

\* A task that is called stopped or completed has no shell running: its state
\* changes when it was killed, not when it was asked to stop (TaskManager.Stop
\* against its kill timer); and nothing a command in the foreground started
\* outlives its call.
EndedIsDead ==
    /\ \A t \in Tasks :
           info[t] \in {"completed", "stopped"} => shell[t] # "alive"
    /\ agent.at # "run" => fore = {}

\* The output of a task that has completed is what a reader of its file finds
\* in the last line, even when a periodic flush comes late.
CompletedIsWritten ==
    \A t \in Tasks : info[t] = "completed" => onFile[t] = "output"

\* A child keeps the output of a command in the foreground open.
Hangs == fore = {"child"}

\* A command that was started is announced to the model in the end, though it
\* may run for ever and ignore SIGTERM (timeout, escalation, completion queue),
\* unless the agent hangs in a command of the foreground for good: its timeout
\* does not reach a child that keeps the output open.
EveryTaskAnnounced ==
    <>[]Hangs \/ \A t \in Tasks \ Forks :
                     (stage[t] = "started") ~> (drained[t] = 1)
=============================================================================
