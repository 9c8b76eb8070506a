------------------------------ MODULE AgentLoop ------------------------------
(***************************************************************************)
(* The agent loop of a session (QueryEngine.SubmitMessage and runLoop,     *)
(* internal/agent/engine_loop.go) over the transcript it writes ahead and  *)
(* the message chain it sends; the compaction of the chain and its circuit *)
(* breaker; the process around it, which may die at any step and be        *)
(* started again with -r (cmd/jenny/main.go).                              *)
(*                                                                         *)
(* A step appends at most one entry, so that a crash falls between any two *)
(* entries.  The tool calls of a response are numbered: call k of reply r  *)
(* is <<r, k>>.  How a batch of calls is executed is ToolExecutor's.       *)
(***************************************************************************)
EXTENDS Transcript

CONSTANTS
    MaxFail,      \* MAX_CONSECUTIVE_AUTOCOMPACT_FAILURES
    MaxTurns,     \* --max-turns and MaxIterations, the smaller; 0 is no limit
    Env,          \* what the environment may do in this instance
    MaxReplies,   \* bound: replies with content, over the whole session
    MaxUses,      \* bound: tool calls in one reply
    MaxStarts     \* bound: processes of the session

Events == {"crash", "io", "cancel", "api", "media", "compact", "skills",
           "notes", "tasks", "changes", "fork"}
StopReasons == {"end_turn", "tool_use", "max_tokens", "stop_sequence", "other"}
NoPrompt == "noprompt"
None == "none"

ASSUME FailAssumption == MaxFail \in Nat
ASSUME TurnsAssumption == MaxTurns \in Nat
ASSUME EnvAssumption == Env \subseteq Events
ASSUME BoundsAssumption ==
    MaxReplies \in Nat /\ MaxUses \in Nat /\ MaxStarts \in Nat
ASSUME PromptsAssumption == Prompts \cap {Summary, Reminder, TaskNote} = {}

VARIABLES
    file,      \* the transcript on disk
    pc,        \* where the process stands; "off" when there is none
    chain,     \* messages of runLoop
    prompt,    \* the prompt being answered
    resumed,   \* StreamConfig.IsResume
    cached,    \* StreamConfig.CachedSystemPrompt is not empty
    fail,      \* QueryEngine.compactFailCount
    turns,     \* QueryEngine.turnCount
    active,    \* StreamConfig.ActiveSkills is not empty
    due,       \* the reply in hand activated a skill
    asked,     \* tool calls of the reply in hand
    answered,  \* how many of their results are on file
    stop,      \* its stop reason
    ctx,       \* the context of the loop: live, cancelled or detached
    synthetic, \* one of the results in hand was synthesized
    replies,   \* replies with content so far, in all processes
    starts     \* processes started so far

memory == <<chain, prompt, resumed, cached, fail, turns, active, due, asked,
            answered, stop, ctx, synthetic>>
vars == <<file, pc, memory, replies, starts>>

Phases == {"off", "submit", "changes", "freeze", "top", "window", "reinject",
           "call", "tools", "persist", "remind", "handle"}

May(event) == event \in Env
Call(k) == <<replies, k>>
CallsInHand == {Call(k) : k \in 1..asked}

Init ==
    /\ file = <<>> /\ pc = "off"
    /\ chain = <<>> /\ prompt = NoPrompt
    /\ resumed = FALSE /\ cached = FALSE /\ fail = 0 /\ turns = 0
    /\ active = FALSE /\ due = FALSE /\ asked = 0 /\ answered = 0
    /\ stop = None /\ ctx = "live" /\ synthetic = FALSE
    /\ replies = 0 /\ starts = 0

-----------------------------------------------------------------------------
(* The transcript.                                                         *)

Record(e) == file' = Append(file, e)

\* An entry whose loss is at most logged.
TryRecord(e) == Record(e) \/ (May("io") /\ UNCHANGED file)

\* The process ends; nothing of its memory remains.
Exit ==
    /\ pc' = "off"
    /\ chain' = <<>> /\ prompt' = NoPrompt
    /\ resumed' = FALSE /\ cached' = FALSE /\ fail' = 0 /\ turns' = 0
    /\ active' = FALSE /\ due' = FALSE /\ asked' = 0 /\ answered' = 0
    /\ stop' = None /\ ctx' = "live" /\ synthetic' = FALSE
    /\ UNCHANGED <<replies, starts>>

-----------------------------------------------------------------------------
(* The process starts.                                                     *)

Boot(p, history, isResume, hasPrompt, count) ==
    /\ pc' = "submit"
    /\ chain' = history /\ prompt' = p
    /\ resumed' = isResume /\ cached' = hasPrompt /\ fail' = count
    /\ starts' = starts + 1
    /\ UNCHANGED <<turns, active, due, asked, answered, stop, ctx, synthetic,
                   replies>>

Start(p) ==
    /\ pc = "off" /\ file = <<>> /\ starts < MaxStarts
    /\ Boot(p, <<>>, FALSE, FALSE, 0)
    /\ UNCHANGED file

\* jenny -r, and with --fork-session: the entries loaded are copied to the
\* transcript of a new session, and the run goes on with that one.
Resume(p, forks) ==
    /\ pc = "off" /\ file # <<>> /\ starts < MaxStarts
    /\ forks => May("fork")
    /\ \E entries \in PostBoundary(file) :
          /\ HasChainMessages(entries)
          /\ file' = IF forks THEN entries ELSE file
          /\ \E count \in LoadCompactFailCount(file') :
                Boot(p, RebuildMessages(entries), TRUE,
                     HasSystemPrompt(file'), count)

-----------------------------------------------------------------------------
(* SubmitMessage.                                                          *)

Goto(phase) == pc' = phase /\ UNCHANGED <<replies, starts>>

\* Fault: a resumed session never persists the prompt.
AlreadyOnFileAssumed == resumed

\* On a resume the prompt is not persisted again when an equal one is found.
AlreadyOnFile == resumed /\ UserMessageExists(file, prompt)

Submit ==
    /\ pc = "submit"
    /\ IF AlreadyOnFile THEN UNCHANGED file ELSE Record(UserEntry(prompt))
    /\ Goto("changes") /\ UNCHANGED memory

SubmitFails ==
    /\ pc = "submit" /\ May("io") /\ ~AlreadyOnFile
    /\ UNCHANGED file /\ Exit

\* The prompt goes to the end of the chain; before it, on a resume, what
\* changed in the environment since the system prompt was frozen.
Changes ==
    /\ pc = "changes"
    /\ \E differs \in BOOLEAN :
          LET history == IF differs
                         THEN Append(chain, Text("user", Reminder)) ELSE chain
          IN  /\ differs => May("changes") /\ chain # <<>> /\ cached
              /\ IF differs THEN TryRecord(ReminderEntry) ELSE UNCHANGED file
              /\ chain' = Append(history, Text("user", prompt))
    /\ Goto(IF cached THEN "top" ELSE "freeze")
    /\ UNCHANGED <<prompt, resumed, cached, fail, turns, active, due, asked,
                   answered, stop, ctx, synthetic>>

\* The system prompt is frozen and persisted before the first turn.
Freeze ==
    /\ pc = "freeze"
    /\ TryRecord(StateEntry("prompt", 0))
    /\ cached' = TRUE
    /\ Goto("top")
    /\ UNCHANGED <<chain, prompt, resumed, fail, turns, active, due, asked,
                   answered, stop, ctx, synthetic>>

-----------------------------------------------------------------------------
(* The top of the loop.                                                    *)

TurnsSpent == MaxTurns > 0 /\ turns >= MaxTurns

\* The context is done or the turns are spent.
Halt ==
    /\ pc = "top" /\ (ctx = "cancelled" \/ TurnsSpent)
    /\ UNCHANGED file /\ Exit

\* A turn begins; completed background tasks are announced in the chain only.
\* The turns are only read against their limit.
TakeTurn(note) ==
    /\ pc = "top" /\ ctx # "cancelled" /\ ~TurnsSpent
    /\ note => May("notes")
    /\ turns' = IF MaxTurns > 0 THEN turns + 1 ELSE turns
    /\ chain' = IF note THEN Append(chain, Text("user", TaskNote)) ELSE chain
    /\ Goto("window")
    /\ UNCHANGED <<file, prompt, resumed, cached, fail, active, due, asked,
                   answered, stop, ctx, synthetic>>

-----------------------------------------------------------------------------
(* Auto-compaction, at most once a turn.                                   *)

\* The context is below its threshold, or the circuit breaker has tripped.
SkipCompaction ==
    /\ pc = "window"
    /\ UNCHANGED file /\ Goto("call") /\ UNCHANGED memory

\* The budget is exceeded, or the prompt is over the blocking limit.
OverLimit == pc = "window" /\ UNCHANGED file /\ Exit

Compact ==
    /\ pc = "window" /\ May("compact") /\ fail < MaxFail
    /\ chain' = NormalizedCompactedChain(chain)
    /\ TryRecord(BoundaryEntry)
    /\ Goto(IF active THEN "reinject" ELSE "call")
    /\ UNCHANGED <<prompt, resumed, cached, fail, turns, active, due, asked,
                   answered, stop, ctx, synthetic>>

CompactFails ==
    /\ pc = "window" /\ May("compact") /\ fail < MaxFail
    /\ fail' = fail + 1
    /\ TryRecord(StateEntry("count", fail'))
    /\ Goto("call")
    /\ UNCHANGED <<chain, prompt, resumed, cached, turns, active, due, asked,
                   answered, stop, ctx, synthetic>>

\* A reminder of the active skills, in the chain and on file.
Remind ==
    /\ chain' = Append(chain, Text("user", Reminder))
    /\ TryRecord(ReminderEntry)

ReinjectSkills ==
    /\ pc = "reinject" /\ Remind
    /\ Goto("call")
    /\ UNCHANGED <<prompt, resumed, cached, fail, turns, active, due, asked,
                   answered, stop, ctx, synthetic>>

-----------------------------------------------------------------------------
(* The call to the model.                                                  *)

TakeReply(n, reason) ==
    /\ asked' = n /\ answered' = 0 /\ stop' = reason
    /\ pc' = "tools"
    /\ UNCHANGED <<prompt, resumed, cached, fail, turns, active, due, ctx,
                   synthetic, starts>>

\* Fault: the assistant message is persisted with its results only.
RespondUnrecorded(n, reason) ==
    LET calls == {<<replies + 1, k>> : k \in 1..n}
    IN  /\ pc = "call" /\ replies < MaxReplies
        /\ chain' = Append(chain, Assistant(calls))
        /\ UNCHANGED file
        /\ replies' = replies + 1
        /\ TakeReply(n, reason)

\* The assistant message goes to the chain, and to the transcript before any
\* of its tools runs.
Respond(n, reason) ==
    LET calls == {<<replies + 1, k>> : k \in 1..n}
    IN  /\ pc = "call" /\ replies < MaxReplies
        /\ chain' = Append(chain, Assistant(calls))
        /\ Record(AssistantEntry(calls))
        /\ replies' = replies + 1
        /\ TakeReply(n, reason)

RespondFails ==
    /\ pc = "call" /\ May("io") /\ replies < MaxReplies
    /\ UNCHANGED file /\ Exit

\* A reply without text, thinking or tool calls leaves no trace.
RespondEmpty(reason) ==
    /\ pc = "call"
    /\ UNCHANGED <<file, chain, replies>>
    /\ TakeReply(0, reason)

\* Fault: the repeated turn is not counted.
MediaRetryRefunded ==
    /\ pc = "call" /\ May("media")
    /\ \E id \in MediaSuspects(chain) : chain' = MediaStripped(chain, id)
    /\ turns' = IF MaxTurns > 0 THEN turns - 1 ELSE turns
    /\ Goto("top")
    /\ UNCHANGED <<file, prompt, resumed, cached, fail, active, due, asked,
                   answered, stop, ctx, synthetic>>

\* An error about media: one result is taken out and the turn is repeated.
MediaRetry ==
    /\ pc = "call" /\ May("media")
    /\ \E id \in MediaSuspects(chain) : chain' = MediaStripped(chain, id)
    /\ Goto("top")
    /\ UNCHANGED <<file, prompt, resumed, cached, fail, turns, active, due,
                   asked, answered, stop, ctx, synthetic>>

\* Errors that do not count against compaction: a quota, a content filter, an
\* unknown model, or the context being done.
CallRefused ==
    /\ pc = "call" /\ (May("api") \/ ctx = "cancelled")
    /\ UNCHANGED file /\ Exit

\* Every other error does, a rejected context window included.
CallFails ==
    /\ pc = "call" /\ May("api")
    /\ TryRecord(StateEntry("count", fail + 1))
    /\ Exit

-----------------------------------------------------------------------------
(* The tools of a reply and their results.                                 *)

\* The tools run: the task tools persist the task store, a skill may become
\* active, and calls cut short by a cancellation get a synthetic result.
RunTools ==
    /\ pc = "tools" /\ asked > 0
    /\ \E tasks, skill, cut \in BOOLEAN :
          /\ tasks => May("tasks")
          /\ skill => May("skills")
          /\ cut => ctx = "cancelled"
          /\ IF tasks THEN TryRecord(StateEntry("tasks", 0))
                      ELSE UNCHANGED file
          /\ active' = (active \/ skill)
          /\ due' = skill /\ synthetic' = cut
    /\ Goto("persist")
    /\ UNCHANGED <<chain, prompt, resumed, cached, fail, turns, asked,
                   answered, stop, ctx>>

NoTools ==
    /\ pc = "tools" /\ asked = 0
    /\ Goto("handle") /\ UNCHANGED <<file, memory>>

\* The results are persisted one by one, in the order of the calls.
PersistResult ==
    /\ pc = "persist" /\ answered < asked
    /\ answered' = answered + 1
    /\ Record(ResultEntry(Call(answered')))
    /\ Goto("persist")
    /\ UNCHANGED <<chain, prompt, resumed, cached, fail, turns, active, due,
                   asked, stop, ctx, synthetic>>

PersistFails ==
    /\ pc = "persist" /\ answered < asked /\ May("io")
    /\ UNCHANGED file /\ Exit

\* With all results on file: a loop that holds synthetic results goes on under
\* a context that cannot be cancelled.
ResultsDone ==
    /\ pc = "persist" /\ answered = asked
    /\ IF due THEN Remind ELSE UNCHANGED <<file, chain>>
    /\ ctx' = IF synthetic THEN "detached" ELSE ctx
    /\ due' = FALSE /\ synthetic' = FALSE
    /\ Goto("handle")
    /\ UNCHANGED <<prompt, resumed, cached, fail, turns, active, asked,
                   answered, stop>>

-----------------------------------------------------------------------------
(* handleStopReason.                                                       *)

GoesOn == stop = "tool_use" \/ (stop = "other" /\ asked > 0)

\* The results go back to the model.
Continue ==
    /\ pc = "handle" /\ GoesOn
    /\ chain' = IF asked > 0 THEN Append(chain, Answer(CallsInHand)) ELSE chain
    /\ asked' = 0 /\ answered' = 0 /\ stop' = None
    /\ Goto("top")
    /\ UNCHANGED <<file, prompt, resumed, cached, fail, turns, active, due,
                   ctx, synthetic>>

\* The query ends and the failure count is reset.
Finish ==
    /\ pc = "handle" /\ ~GoesOn /\ stop # "max_tokens"
    /\ TryRecord(StateEntry("count", 0))
    /\ Exit

OutOfTokens ==
    /\ pc = "handle" /\ stop = "max_tokens"
    /\ UNCHANGED file /\ Exit

-----------------------------------------------------------------------------
(* The environment.                                                        *)

\* A signal or the deadline of the query; a detached context is out of reach.
Cancel ==
    /\ pc # "off" /\ ctx = "live" /\ May("cancel")
    /\ ctx' = "cancelled"
    /\ UNCHANGED <<file, pc, chain, prompt, resumed, cached, fail, turns,
                   active, due, asked, answered, stop, synthetic, replies,
                   starts>>

Crash == pc # "off" /\ May("crash") /\ UNCHANGED file /\ Exit

Progress ==
    \/ Submit \/ SubmitFails \/ Changes \/ Freeze
    \/ Halt
    \/ \E note \in BOOLEAN : TakeTurn(note)
    \/ SkipCompaction \/ OverLimit \/ Compact \/ CompactFails
    \/ ReinjectSkills
    \/ \E n \in 0..MaxUses, reason \in StopReasons : Respond(n, reason)
    \/ \E reason \in StopReasons : RespondEmpty(reason)
    \/ RespondFails \/ MediaRetry \/ CallRefused \/ CallFails
    \/ RunTools \/ NoTools \/ PersistResult \/ PersistFails \/ ResultsDone
    \/ Continue \/ Finish \/ OutOfTokens

Next ==
    \/ \E p \in Prompts : Start(p)
    \/ \E p \in Prompts, forks \in BOOLEAN : Resume(p, forks)
    \/ Progress
    \/ Cancel
    \/ Crash

Spec == Init /\ [][Next]_vars

\* The process is scheduled; calls to the model and to tools return.
FairSpec == Spec /\ WF_vars(Progress)
-----------------------------------------------------------------------------
(* Properties.                                                             *)

\* Whenever the model is called, the prompt it answers is on file, whatever
\* was resumed or skipped before (write-ahead of SubmitMessage).
PromptOnFile == pc = "call" => UserMessageExists(file, prompt)

\* On file a tool result comes after the assistant message that asked for it,
\* with no compaction boundary in between, in the transcript of a fork too:
\* a resume never starts between the two.
ResultsFollowUses == ResultsGrounded(file)

NoNoteAmongResults(msgs) ==
    \A i \in DOMAIN msgs :
        msgs[i].says = {} \/ msgs[i].uses \cup msgs[i].results = {}

PairedForAll(msgs) ==
    /\ Paired(AnthropicItems(msgs))
    /\ Paired(GenAIItems(msgs))
    /\ NoNoteAmongResults(NormalizeMessages(msgs)) =>
           Paired(OpenAIItems(msgs)) /\ Paired(ResponsesItems(msgs))

\* Every request, those for a summary included, pairs tool calls with results as
\* the Anthropic API demands and as the Gemini API does, across compactions that
\* cut a pair, reminders and task notes that fall between the two, calls without
\* input that are dropped, and resumes that find one message per result.  Those
\* of the two OpenAI providers do where no note was merged into an answer, for it
\* would be sent ahead of the results.  Not so once results were lost: a crash or
\* a failed write leaves calls on file that nothing answers, a media error takes a
\* result out of the chain.
RequestPaired ==
    Env \cap {"crash", "io", "media"} = {} =>
        /\ pc \in {"window", "call"} => PairedForAll(chain)
        /\ pc = "window" => PairedForAll(WithInstruction(chain))

Replies(msgs) ==
    LET Reply(m) == IF IsAssistant(m) THEN <<m.uses>> ELSE <<>>
    IN  Emit(msgs, Reply)

\* What a resume would bring back of the model's replies is the end of what the
\* running process holds: a compaction is never undone by a restart, unless the
\* boundary could not be written.
NothingComesBack ==
    pc # "off" /\ ~May("io") =>
        \A entries \in PostBoundary(file) :
            IsSuffix(Replies(RebuildMessages(entries)), Replies(chain))

CountsOnFile ==
    LET IsCount(e) == IsState(e) /\ e.about = "count"
    IN  IF \E i \in DOMAIN file : IsCount(file[i])
        THEN {file[k].count : k \in LastOf(file, IsCount)}
        ELSE {0}

\* The last state entry is about the system prompt or the tasks.
Overlaid == \E k \in LastOf(file, IsState) : file[k].about # "count"

\* The circuit breaker survives a resume, of a fork too: the failures a process
\* counts are those the last count on file says, unless a write was lost.  The
\* one way for them to be forgotten is a state entry about something else, which
\* a resume takes for a count of zero (LoadCompactFailCount).
BreakerSurvives ==
    pc # "off" /\ ~May("io") =>
        fail \in CountsOnFile \/ (fail = 0 /\ Overlaid)

\* Every query ends when the turns are limited, whatever the model, the tools
\* and the API do.
EveryQueryEnds == (pc # "off") ~> (pc = "off")
=============================================================================
