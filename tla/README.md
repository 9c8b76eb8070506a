# A verification of jenny's core in TLA+

jenny is a headless coding agent written in Go: a process (`cmd/jenny`) takes a
prompt, sends a chain of messages to a model, executes the tool calls of its
replies, sends the results back, and so on until the model stops.  A session is
a transcript on disk that a later process can resume.  This directory models
the parts of it whose correctness depends on order, concurrency and failure.

Paths below are relative to `src/`.

## 1. Inventory

### 1.1 Components

| component | state it keeps | operations | talks to |
|---|---|---|---|
| agent loop (`internal/agent/engine*.go`) | message chain, prompt, turn count, stop reason, context of the query, compaction fail count, active skills | `SubmitMessage`, `runLoop`, `handleStopReason`, `executeAndProcessTools` | transcript, executor, compaction, API, task manager |
| tool executor (`internal/agent/executor.go`) | the groups of a response, results by place, cwd, sibling abort; the denial cache of the stream config outlives it | `Execute`, `partitionGroups`, `executeParallel`, `executeSerial` | tools (calls), agent loop (results) |
| chain and normalization (`internal/agent/normalize*.go`, `internal/api/normalization.go`, `provider_*.go`) | none (functions on chains) | merging, pairing, stripping, building of requests | agent loop, compaction, providers |
| compaction (`internal/agent/compact.go`) | none of its own | `compactMessages`, `buildCompactedChain`, `normalizeCompactedChain` | API, transcript (boundary) |
| transcript (`internal/session/manager.go`, `internal/agent/loop.go`) | a JSONL file per session | `AppendEntry`, `LoadPostBoundaryMessages`, `RebuildMessages`, `LoadCompactFailCount`, ... | agent loop, command line |
| background tasks (`internal/tool/bash.go`, `task_manager.go`, `task_output.go`, `task_stop.go`) | task table, completion queue, kill timers, output files, processes | `Execute`, `executeBackground` (two goroutines and two timers per task), `Stop`, `DrainCompletion(s)` | agent loop (drains at the top of a turn), tools, OS |
| task store (`internal/tool/task_store.go`) | tracked tasks under a RWMutex | `Create`, `Update`, `AddDependencies`, `AllTasks` | transcript (callback of the engine) |
| file tools and read cache (`internal/tool/readfile.go`, `read.go`, `write.go`, `edit.go`) | last read of each path | `CheckAndRecord`, `StatAndRecord`, `UpdateAfterWrite`; read, write, edit | file system, executor (parallel reads) |
| provider router (`internal/api/router`) | health, cooldowns, sticky state of each session, profile | `SelectEndpoint`, `NextEndpoint`, `RecordFailure`; `StickyClient` | API clients, subagents |
| API client (`internal/api`) | the stream's accumulator, idle watchdog, retry counters | `StreamRequest`, `SendMessageStream`, `sendWithRetry`, the four providers | providers, agent loop |
| MCP client (`internal/mcp`) | clients and their locks, response channels by id, HTTP session, token, cache of resource lists | connect, discover, requests over pipes and HTTP, reader goroutine, notifications, shutdown | tools, servers |
| subagents (`internal/agent/subagent.go`), cost (`cost*.go`) | a loop of their own; the parent's profile, cost and cost file shared | sync and async runs, `Merge`, `Save`, `Load` | agent loop, router, worktrees |
| portal (`internal/portal`) | lock file, idle timer, table of sessions by pid | start, terminate, session actions, live stream, installation | other portals, sessions |
| session archives (`internal/compact`) | `<id>.tar.gz` next to or instead of a directory | `CompactOne`, `writeArchive`, `ExtractArchive` | transcript, command line |
| the rest | see `PROJECT.json` | permission gate, sandbox, skills, plugins, memory, prompt assembly, configuration, search, redaction, git, logging | sequential code |

### 1.2 What is hard

* **Interleavings**: calls of a parallel batch under a semaphore with
  cancellation; the two goroutines and the timers of a background task against
  TaskOutput, TaskStop and the drain of the loop; the reader of an MCP server
  against its callers; the watchdog of a stream against its reader; subagents
  that share a profile and a cost file; handlers of several portals that meet in
  the file system.
* **Crashes**: the transcript is written ahead, one entry at a time, and a
  process may die between any two; a later process rebuilds the chain from it,
  in other shapes than the one the first process held.  A compaction to an
  archive and its extraction are a handful of system calls without a lock.
* **Compaction of the chain**: it cuts where pairs of calls and results, notes
  and reminders lie, and it is repeated on resumption by the boundary on file.
* **Failures that go on**: failed appends, refused, broken and stalled API
  calls, media errors that repeat a turn, forgotten MCP sessions, endpoints in
  cooldown.
* **Retries**: what is asked again must not be done twice, nor acted on twice,
  nor asked for ever.

### 1.3 What makes each component correct

* executor: order of effects, the bound of the semaphore, exact sibling abort,
  no retry of what was refused, the directory each call sees, an answer for
  every call.
* loop and transcript: nothing is sent that is not on file; no result without
  its call; what is sent is paired; what was cut off stays cut; the breaker
  survives; a query ends.
* background tasks: announced exactly once, never lost, never called ended while
  alive, output complete when the state says so, an end for every command.
* task store: every change reaches the transcript.
* file tools: an entry of the cache tells the truth about the file at its time;
  a tool that checked does not replace what it does not know.
* router: the client and the router agree on the endpoint of a session, which
  is one of its profile; a fallback leaves the model that failed.
* subagents: every cost is counted once; nothing is left behind.
* API client: the result and the channel say the same; what is acted on comes
  from one answer; retries are bounded, wanted, and end.
* MCP client: at most one execution, the right answer for each caller, no stale
  list, no call that hangs but for the reasons named.
* portal: one at a time; a kill reaches the session it was meant for; a stream
  misses no line; no half-installed skill unannounced.
* archives: nothing that was written is lost, and a resume finds all of it.

The hazards behind these, each at its line, are in `PROJECT.json`.

## 2. Modules

| module | models |
|---|---|
| `MessageChain` | messages, merging, the requests of the four providers, cut and repair of compaction, media stripping; `Paired` says what a request must be |
| `Transcript` (extends `MessageChain`) | entries, boundary cut, rebuild, fail count |
| `AgentLoop` (extends `Transcript`) | the loop, compaction and breaker, start, resume and fork of processes, crash and cancellation |
| `ToolExecutor` | one response of tool calls after the other through the executor |
| `BackgroundTasks` | commands in the background and before the engine, and their readers |
| `TaskStore` | the tracked tasks and their persistence |
| `FileCache` | the read cache and the five file tools on one path, other programs, resume |
| `Router` | configuration, targets, keys, health, sticky state and sticky clients |
| `Subagents` | subagents, the profile, cost and worktrees they share |
| `StreamAssembly` | the chunks of a stream, the accumulator of each provider, the reply without a stream |
| `ApiCall` (extends `StreamAssembly`) | one question: stream, watchdog, fallback, retries, decision |
| `RemoteCalls` | abstract: requests executed at most once, each answered with its own result |
| `McpClient` (implements `RemoteCalls`) | the client, its servers, transports, sessions, tokens and caches |
| `Portal` | lock protocol, ends, session actions, stream, installation |
| `SessionArchive` | compaction of a session to an archive and its extraction |
| `*Proofs` | theorems about the module they are named after; `SharedStateProofs` about `Subagents`, `Router` and `Portal` |
| `MC*` | instances for TLC |

How they fit: `AgentLoop` has one step for the execution of a batch
(`RunTools`) and takes the results one at a time (`PersistResult`); what happens
inside the batch is `ToolExecutor`'s.  Its step for a reply of the model, or the
error in its place, is the end of an `ApiCall`.  `BackgroundTasks` has the loop
only as "top" (where it drains) and "turn" (where it calls tools).  `AgentLoop`
has the task store only as an entry that TaskCreate appends.  A call of
`McpClient` is a tool of `ToolExecutor` that returns; a session of `Portal` and
of `SessionArchive` is a process with the transcript of `AgentLoop`, by lines.
The interfaces are the result list, the completion queue, the blocks of an
answer and the transcript.

### 2.1 ToolExecutor

`blocks` is the response, `lo..hi` the group being executed, `pc` the phase of
each call (waiting for the semaphore, running, done), `results` the outcomes,
`aborted` the sibling flag of a serial batch, `denials` the denial cache, `cwd`
the directory of the executor, `inTree`/`original` the worktree session,
`cancelled`/`detached` the context.  `Execute` takes a response, `NextGroup`
partitions (`Joins` is the loop of `partitionGroups`), `GoStart` to `GoLaunch`
are a goroutine of a parallel batch, the `Serial` steps the serial loop,
`Return` the end of a call, with any outcome its class can have.  `Collect` is
`executeAndProcessTools`.

### 2.2 MessageChain, Transcript, AgentLoop

A message is its role, what it says (a set of tags), and the ids of its calls
and results; an entry is its type and the id, prompt or count it carries.
`file` is the transcript, `chain` the `messages` of `runLoop`, `pc` the place in
it, and every step appends at most one entry, so that `Crash` falls between any
two.  `Resume` rebuilds the chain, with or without a fork.  `PostBoundary` is a
set because two entries may be equal: it is what the loader can return.
`Env` says which faults an instance has, so that a run can be about some.

A provider sees the chain through the items of its request, which are
`NormalizeMessages` followed by the provider's own building of messages, and
`Paired` demands that calls are answered next, all of them, once, and nothing
else is.

### 2.3 BackgroundTasks

`stage` follows the inner goroutine statement by statement from `spawned` to
`done`, `left` says that the outer one has cleaned up; `info` is the task table;
`shell` and `child` are processes; `timer` is the kill timer a `TaskInfo`
refers to and `stray` counts those it no longer does; `deadline` is the
timeout; `onFile` the last line of the output file; `queue` how many completions
of each task wait (no reader tells their order apart);
`agent` the one thread of tools; `fore` what lives of a command it waits for.
`drained` counts how often a completion reached the model.

### 2.4 TaskStore

`caller` is where an agent stands in a call of TaskCreate or TaskUpdate and in
the callback, `writer` the write lock, `file` the snapshots in the transcript;
`Resume` is a new process that loads the last of them.

### 2.5 FileCache

`disk` is the file; its `id` is a time and stands for the content written at
that time, so that comparing times and comparing contents are two uses of one
number.  `made` holds the contents there have been, which another program may
put back with their old times.  `cache` is the `ReadFileEntry` of the path:
`from` is what offset, limit and `IsFullRead` tell apart, `kind` whether there is
a text in it.  `call` is the tool calls; the places are the points between two
system calls or two sections under the cache's mutex, in the order of
the code:

* Read: `ReadStat`, `CheckAndRecord`, `ReadFile`, `StatAndRecord`;
* Write, Edit, NotebookEdit: `GetRead`, `Check`, then `ReadBytes` (Edit), then
  `WriteTemp` and `Rename`, or `Truncate` and `Fill` (notebooks, and files an edit
  creates), then `Reread` (scoped edits), `StatAfter`, `UpdateAfterWrite`.

The temporary file has its time before it has the name, so the time of the file
can go back.  `late` and `raced` are history: the file changed behind the
last look of a call, and behind the look an entry was made from.  Calls overlap
because reads of a response run in parallel and named subagents inherit the
cache.  Not in the model: two changes with one time, which a file system of
coarse resolution allows; the levels at which nothing may be written; the copy
across devices (the temporary file is in the directory of its target); images.

### 2.6 Router

The configuration is translated, not assumed: `Providers` merges the file with
the environment, `Profiles` has the defaults, `Slots` are the ways to reach a
model in the order of the loops (provider, model, account, key).  `session` is
the sticky state of a session, `client` the sticky clients, with their place
between two calls of the router; the router's mutex makes each call one step.  Nothing
is selected while the profile in force is none of the file's (`Known`), which is
so from the start when the file has profiles but no "default", or none at all.
`moved` and `behind` are history: the profile was switched under a session, and
`TargetIndex` points before the target in use.

### 2.7 Subagents

`agent` are the calls of the agent tool with the local variables of
`RunSubagent`, `parent` the loop that makes them, `profile` the router's,
`memory` the cost state of the parent's engine, `file` its cost file, which a
save truncates before it writes.  A cost is, for each actor, how many of its
requests it counts, so that one counted twice or never shows.  `seen` is history:
`due` is what ought to be counted, `crossed` and `tangled` mark the races the
code has no lock against; the properties are about everything else.

### 2.8 StreamAssembly, ApiCall

An answer is a sequence of block types.  `Wire` is what a server sends for it,
in the grammar of each provider; `Process` the switch over a chunk of each
accumulator, which keeps the blocks (`blocks`), what it has closed (`shut`) and
what it put on the channel (`sent`); `Assembled` is the result, `Parsed` the
reply without a stream.

Anthropic's blocks have an index each, and channel and result agree for any
answer.  The other three accumulators join the texts and the reasonings, close a
text when a call begins, and finalize in the order reasoning, text, calls
(`provider_openai.go:937`).  When a text follows a call, the channel may therefore
carry the call first, or only the part of the text that came before it, and the
two differ; `AsAssembled` is stated for the usual order (`InOrder`): one
reasoning, one text, and then the calls.

`ApiCall` runs one question: `AskStream`, the reader (`ReadChunk`,
`EndOfStream`, `ReadCancelled`) with the watchdog (three steps, for it writes
the error and closes the body in the reader's back), `Assess` for the decision
of the client to ask again, `Attempt` to `Backoff` for `sendWithRetry`, `Decide`
for the engine.  Errors are status, the provider's own code and the words that
`classifyErrorCommon` looks for; `IsPermanent`, `Category` and `IsRetryable` are
translated in full.

### 2.9 McpClient, RemoteCalls

`call` is what each goroutine is doing; a request is its number, `runs` counts
its executions by the server and `answered` the results that were returned.
Over pipes a request registers its channel (`slots`), waits, and removes it;
`Deliver` is the reader, which blocks on a full channel (`stuck`) with the lock
the removal needs.  Over HTTP a request is a post with its try and its session;
`HttpRefused` opens a new session and posts the first again, `RefreshToken`
repeats a post.  Servers answer in any order, twice, or not at all.
`RemoteCalls` is what a caller may rely on, and the refinement maps its open
requests to those some goroutine waits for or keeps.

### 2.10 Portal

`proc` is the table of processes, in which a zombie keeps its number; `path`
says which of the `files` the lock's name leads to, so that a removed file can
still be locked by who has it open.  `ending` are the two terminations of a
portal (signal and idle), which may run at once.  `dir` is the session
directories with their record of a pid and their lines, `req` the requests in
the handlers, a step for each look at the file system.

### 2.11 SessionArchive

`dir` is the directory, `files` every file that was ever an archive, `tmp` and
`archive` which of them has the name, so that a rename and a truncated file are
told apart.  `work` is the processes: the walk of `writeArchive` over the two
files of a session, the check of an existing archive, the rename, the removal,
and the extraction on resume with its removal of the archive.  `raced`, `cut` and
`forced` are history and name the cases the code does not protect.

## 3. Runs

| run | bounds | shows |
|---|---|---|
| `executor` | responses of up to 3 calls out of 7 (shell, write, enter/exit worktree, two parallel, one unknown), 2 slots, a gated call | type, order, slots, sibling abort, refusals, directory, and that every response is answered |
| `faults` | 2 prompts, 2 processes, 2 replies of up to 2 calls, turn limit 2, every fault but compaction | write-ahead of prompts, results after calls on file, every query ends |
| `compaction` | 1 prompt, 2 processes, 3 replies of up to 2 calls, keeping 1 message, breaker at 1 | pairing of every request for each of the four providers, nothing comes back, the breaker survives |
| `tasks` | 2 commands (one leaves a child), one kill timer of one of them replaced while armed, commands in the foreground | the completion and the state of a task, see 1.3 |
| `files` | two interchangeable calls, three times, a text path at the constrained level and a notebook path at the unrestricted one | `EntryTrue`, `LostOnlyInWindow` |
| `router` | 2 clients, 2 sessions, 3 providers with 5 slots, 3 targets, 2 profiles, limit of failures 2, one call each | the agreement of client and router, the profile, the fallback |
| `subagents` | 2 subagents, 2 requests of the parent, 1 of each subagent, 2 processes | costs and what is left behind |
| `mcp` | a server of each transport, 2 callers, 2 calls, lists of 2 pages, 1 surprise | fresh lists, the refinement of `RemoteCalls`, which calls return |
| `calls` | 3 answers by 4 providers, 6 errors, 2 retries, 1 overload | the result of a question and its end |
| `portal` | 3 portals, 3 process numbers, 2 requests, 3 sessions, 3 lines, 4 starts, requests, crashes and foreign processes together | the lock, kills, streams, installation |
| `archive` | 2 processes at a time, 4 in all, 3 entries, 2 crashes | nothing lost, resumes whole |
| `taskstore` (violation) | one caller, two tasks | a disagreement of the code with its comment, see section 6 |

Why the bounds are enough: a group can be preceded and followed by another
within three calls, and a batch of three is larger than the two slots; two
replies of two calls give a second turn after a partly persisted one; two
processes give a resume (and a fork) of whatever the first left; three replies
with one kept message make compaction cut at each place a pair or a note can
have; two tasks let a reader of one completion find another in the queue; two calls
and two changes besides the first content make one call late for the other and
for another program.  Two clients are a session that is shared or not; two keys
and three targets give a change of key before and after a fallback that skips
one; two subagents overlap, nest and cross, and the second process resumes what
they left.  With two pages a list changes between them, and with one surprise
each of the things a server may do unasked happens alone, next to any schedule
of two calls.  Two retries are the least that tell a series from its last
attempt, and one answer has two texts around a call, the order no provider
expects.  Three portals are one that ends, one that has its file open and one that
comes later.  Four processes compact, resume, compact again and resume again.

The `compaction` run leaves the crash out: after a crash between a call and its
result no request is paired (section 6).  `Keep = 1` stands for the ten messages of
the code: the cut is at a place counted from the end, and what matters is what
lies there.

Bounds are named in the modules: `MaxBlocks`, `MaxReplies`, `MaxUses`,
`MaxStarts`, `MaxReplaced`, `MaxVersion`, `MaxResumes`, `MaxTime`, `MaxCalls`, `MaxTurns` (of
`Subagents`), `MaxSpend`, `MaxRuns`, `MaxPages`, `MaxSurprises`, `PipeCap`,
`MaxPortals`, `MaxRequests`, `MaxSessions`, `MaxLines`, `MaxWork`, `MaxOps`,
`MaxEntries`, `MaxCrashes`.  `CHECK_DEADLOCK FALSE` stands where the bounds or
the program let everything stop: processes, calls or requests are used up, or
the caller of the task store waits for itself.

### 3.1 Fairness

* `ToolExecutor`: weak fairness of `Progress`.  Goroutines are scheduled and a
  tool that was started returns; that is a statement about tools, which
  have timeouts of their own, and it is not true of TaskUpdate (section 6) or of
  an MCP server over pipes that never answers (`EveryCallReturns` of `McpClient`).
* `AgentLoop`: weak fairness of `Progress`.  A call of the API or of a batch of
  tools returns, with an answer or an error (for the API that is
  `EveryQuestionEnds` of `ApiCall`).  Starts, cancellation and crashes are not
  fair.
* `BackgroundTasks`: weak fairness of each goroutine and of each timer, and of
  the agent (the session goes on; when it ends, nobody is there to be told).
  Commands and their children are not made to end, nor SIGTERM to work.  The
  kill timer of five seconds is taken to fire after the start of the process
  was attempted.
* `TaskStore`: weak fairness of a caller that is not blocked.
* `ApiCall`: weak fairness of the program's own goroutines and timers, among them
  the idle watchdog and the timeout of the HTTP client, which end what the
  server leaves open.  Nothing is assumed of the server or the user.
* `McpClient`: weak fairness of each caller's steps (the timeout of the HTTP
  client is one of them) and of each reader; a server answers until it goes
  silent.
* `FileCache`, `Router`, `Subagents`, `Portal` and `SessionArchive` state no
  liveness: their steps wait for nothing but a mutex that is held for one step.

## 4. Proofs

TLAPS proves, for all values of the constants that satisfy the named
assumptions of the modules (`ASSUME`, checked by TLC on the instances) and for
runs of any length:

* `ToolExecutorProofs`: `TypeCorrect`, `CallsInOrder`, `NoRetryOfRefused`,
  `SlotsBounded`, `SiblingsAborted`, `DirectoryOfCalls`.  The inductive invariant
  `IInv` says of the current group `lo..hi` that everything before it has ended,
  everything after is idle, that the group is one batch of one class, and that a
  serial group has only one call in the air.  `RequestOrder` is not inductive: that
  the calls before an idle one have ended is known only through the group.  The
  slot bound needs cardinalities: the holders are all in the batch
  (`HoldersInBatch`), and the steps that add one are guarded.  `SiblingAbort`
  looks at a batch after it is over, so the invariant says that a batch was cut as
  far as it could go (`Maximal`) and that its context is cancelled exactly when one of
  its shell calls failed (`AbortIsFailure`).  `CallDirectory` compares with what
  the calls before did, so the invariant carries the directory along the group
  (`Directory`).
* `AgentLoopProofs`: `ResultsStayGrounded`, `PromptWrittenAhead`,
  `BreakerIsKept`, `NothingIsUndone` and `RequestsArePaired`.  The
  invariant has the shape of the file (`FileOK`), what the process holds in hand
  between a reply and its results (`InHand`: the reply is the last of its kind
  on file, with the results of the first `answered` calls after it), and that
  the prompt on file stays there (`PromptKept`).  Each step appends at most one
  entry, and the lemmas `AppendOther`, `AppendResult` and `AppendAsked` say what
  such an append does to the ground of earlier results.  That a resumed file is
  grounded rests on `CutAtBoundary`: a cut never separates a result from
  its call, because no boundary lies between the two.  For the breaker, the last
  count on file is followed by no entry of its kind (`LastCountIs`), an append
  either replaces it or leaves it, and what a resume takes over is the count of
  the last state entry, which is that one unless it is hidden (`CountIsOverlaid`).
  `NothingIsUndone` and `RequestsArePaired` relate two sequences that grow apart and
  are computed by recursion, so they need lemmas about the operators first: what
  `RebuildMessages` and `Replies` make of one element more (`RebuildAppend`,
  `RepliesAppend`), which messages a flattened sequence picks (`FlattenPicks`), what
  `Merged` does with the next message (`MergedIs`).  The library's induction takes
  an operator and cannot be used here; `SetInduction` takes a set of numbers and is
  proved from their well-foundedness.
  For `NothingIsUndone` the invariant is the property itself, for the chain of every
  step (`TailInv`).  For `RequestsArePaired` it is a form of pairing that does not
  look at neighbours, for neither the chain nor a transcript has its results next to
  their calls (`WellPaired`): a result follows its call with messages of the user
  only in between, a call has its result so or is open, and the open calls are those
  of the last reply.  The chain has open the calls in hand, the transcript those
  whose result is not on file yet (`PairInv`).  It is kept by a message of the
  user, by a reply, by a compaction wherever it cuts (`UserPairs`, `ReplyPairs`,
  `CompactionPairs`); merging makes neighbours of such calls and results
  (`MergedCrosses`), dropping the calls without input takes both or neither
  (`CleanedCrosses`), and what each provider makes of that is paired
  (`WellPairedIsPaired`).  `PairedForAll` has a premise for the two OpenAI providers,
  which the property names.
* `FileCacheProofs`: `TypeCorrect`, `EntriesAreTrue`, `LossesAreLate`, for any
  number of calls.  The invariant `Holds` says for each place of a call what it
  knows of the file while nothing happened behind its back: the text in
  hand is that of the file (`InHand`), the file is not newer than the entry a
  Write checked, and what an Edit read is still there (`Prepared`).
  `LossesAreLate` is an action property that follows from it in the state
  before the step; `EntryTrue` needs it at the step that fills the cache.
  `MissedHolds` is the lemma that carries everybody else over a change.
* `SessionArchiveProofs`: `CompactIsLossless` and `ResumesAreWhole`, for any
  number of processes and crashes.  Unless the history has one of the cases the
  code leaves open, whoever compacts or extracts is alone with the files
  (`Phases`), so what it read of the disk is still so when it acts on it; and
  at each of its steps there is a place that has every entry and that the step
  does not touch (`Kept`).  The properties alone say nothing of the walk in
  between, which is where a removal could come too early.
* `ApiCallProofs`: `RequestsBounded`, `RequestsWanted`, `ActsOnOneAnswer` and
  `ChannelIsResult`.  The place of the
  goroutine says how many requests the series has made (`Counted`); the
  overloads in a row are bounded at the end of the log, and before the last
  entry while a request is out (`Bounded`); on the way to a request no refusal
  for good is behind it, unless the fallback asks without a stream (`Hopeful`).
  What the accumulator holds is of the stream and what `parseResponse` makes is of
  the reply, and the blocks the engine took and the channel and the result it can
  still take are all of one of the two (`Sources`).
  For `ChannelIsResult` the accumulator is the fold of `Process` over the chunks
  read so far, and these chunks, the pipe and the wire together are those of the
  answer (`Reads`, `Splits`), until the watchdog cuts the wire (`Doomed`: such a
  stream ends in an error).  The property itself says nothing of a stream under
  way.  By induction over the answer (`SetInduction`) the fold is known between
  any two blocks (`Border`: what is begun, closed and sent after the first m), for
  each of the four accumulators; so it is known before the last chunk, which sends
  what is left, and then the channel holds what `finalize` builds (`Complete`).
* `McpClientProofs`: `ClientImplementsCalls`, that `McpClient` implements
  `RemoteCalls`, for any servers, callers and bounds.  Each number belongs to one
  goroutine, which waits for it or keeps it (`Owned`, `Apart`); a post is with the
  server once and only while its request is not executed (`Posts`, `Once`,
  `Owed`); what is on its way through a pipe, or lies in a channel, was executed
  and is for the request with its ID (`Lines`, `Genuine`); a reply over HTTP says
  whether its request was executed (`Replies`).  So a request is posted again only
  when it was not executed, which is what the property needs and does not say.
  Each action is then a step of `RemoteCalls` or a stutter.
  `ListsAreFresh`: whenever the client is told of a change the generation moves, so
  only callers that read the current generation matter.  To such a caller every
  line and reply on its way, and the first page it has, is at least as new as what
  was told (`Fresh`, `Since`), because a server never sends a list older than one it
  has told of (`Sound`) and a post is with the server it is for (`Asked`).  It stands
  on the invariant of the refinement: an ID that is new has no lines yet.
* `BackgroundTasksProofs`: `NothingOutlives`, `OutputIsWritten`,
  `CompletionsAreKept` and `ForgottenIsAnnounced`, for any
  tasks, kill timers and forks.  How far the inner goroutine has come says that
  the shell is dead (`Dead`) and the output on file (`OnFile`); `Called` bounds
  what the state of the task may say, whichever of the outer goroutine, the kill
  timer or TaskStop has written it last.  The completions are an account
  (`Ledger`): the one step of the inner goroutine that ends a task adds one, and a
  reader moves it from the queue to the model; the table forgets a task only
  after that (`Forgotten`).
* `SharedStateProofs` is about the three components in which several goroutines
  or processes meet in a piece of state that none of them owns, for any number of
  them.
  * `Subagents`: `CostsAreCounted` and `SubagentsLeaveNoTrace`.  Between the reads
    and the writes of a merge nobody changes the memory, and what it adds is what
    that subagent spent (`HandsOver`, `Sums`); the file holds what was due when it
    was saved (`Persisted`).  For the profile, whoever has switched it remembers
    the session's, or one that switched before it does (`Restorable`, `Live`).
    It is assumed that no actor is called "kept", the model's name for a profile
    that is not switched.
  * `Router`: `ClientsAgree`, `SessionsAreOfProfile` and the action property
    `FallbacksMove`, for every configuration of providers, keys and profiles.
    A session that was not moved is bound under the profile in force, at one of its
    targets, and so are its clients (`Placed`); a client that has its session to
    itself uses a model of a target up to `TargetIndex` unless one was skipped
    (`Reached`), and a fallback looks only behind it.  `Fits` is what a step of one
    client may leave, and `FitsKeeps` that everybody else keeps the rest.  The
    choices of the loops exist: `LeastIs` by the well-foundedness of the naturals,
    `FirstIs` by minimizing the four coordinates of a slot one after the other.
  * `Portal`: `OnePortal`, `StreamsMissNothing`, `PartsAreSpoiled` and the action
    property `KillsHitTheirOwn`.  Who serves has locked the file it wrote
    (`Locked`), and while no lock file was stolen that is the file the name leads
    to (`Named`), which two portals cannot have locked at once.  For the kills, a
    pid on record belongs to a child of the portal that wrote it (`Child`,
    `Recorded`, `Aimed`), and a child keeps its number as long as that portal
    lives.  The numbers of lines grow (`Increasing`), so those after the first that
    a stream reads are new, and it has sent what is before its place (`Followed`).

Only model-checked: all liveness (`EveryResponseAnswered`, `EveryQueryEnds`,
`EveryTaskAnnounced`, `EveryCallReturns`, `EveryQuestionEnds`; neither fairness nor
ENABLED is in reach of this prover), and
the one property of `TaskStore`, which does not hold (section 6).  Every other
property of the passing runs, invariant or action property, is a theorem for every
value of the constants.

## 5. What is not modelled

`PROJECT.json` lists every component with its status and the reason.  The larger
parts that are left out:

* Code that no path of the program reaches: the memory extraction
  (`AutoMemoryEnabled` is set by no caller), `agent.Run` and `RunSimple`,
  `handleStreamError`, TaskStore's `Delete`, `ReportError` and `Reset` of the
  router, handlers registered for notifications of MCP.  `StickyClient` is
  modelled although nothing in the program calls it, for the router's state makes
  no sense without; the tasks and subscriptions of the MCP client, because they
  are requests like any other.
  The session memory of `--enable-session-memory` is reached but does nothing
  after its first minute, and compaction's attempt to use it returns "not
  implemented".
* In modelled components: structured output, cost and budget limits, progress
  events and hooks of the loop; tool schemas, cache marks and thinking
  signatures of requests; token estimates and the truncation inside the
  summarizing request; a torn last line of a transcript, titles and listings;
  images and PDFs in the read tool; several agents on one task manager (a named
  subagent may call its parent's); ports, tokens and pages of the portal; Windows.
* A media error ends the question in `ApiCall`; what the loop does about it is
  in `AgentLoop`.
* Sequential code whose effect on the rest is data: the permission gate,
  redaction, prompt assembly, configuration, search and fetch tools, git helpers,
  the sandbox's command lines, stream-json output, logging, `jenny clean`.

## 6. Disagreements found

One is shown by a run, and `PROJECT.json` quotes the lines: updating a tracked
task in a session waits for its own lock, although the comment at
`internal/tool/task_store.go:54` promises a callback after every mutation
(`taskstore`).

The following were seen while reading the code for the model.  No run claims
them; where a model behaves so, it follows the code, and its properties name the
case in their comments.

Agent loop and its transcript:

* A worktree entered by a call lasts until the response is answered
  (`engine_results.go:81`, against `worktree_session.go:40`).
* A call without result survives a crash and is sent after a resume
  (`loop.go:56`), though `docs/arch/universal-normalization-architecture.md:34`
  promises a synthetic result.
* The breaker's count is reset by state entries about something else
  (`session/manager.go:383`, against `docs/arch/context-compaction.md:67`); so it
  is by the fork of a compacted session, which freezes a system prompt again.
* A note merged into an answer goes ahead of the results in requests to OpenAI
  endpoints (`provider_openai.go:262`); so does the instruction of a compaction.
* The retry of a summary without its oldest round leaves results without a call
  in the request (`compact.go:435`).
* A session that ends at a compaction boundary is refused on resume although
  its summary rebuilds (`cmd/jenny/main.go:327`).
* A media retry says that it modified the chain when it did not
  (`normalize_media.go:152`).

Tools:

* A background command whose shell leaves a child behind is announced only when
  the child ends, and neither its timeout nor TaskStop ends the child
  (`bash.go:563`); the timeout of a foreground command kills only the shell.
* A full read that was refused makes the next one answer "unchanged"
  (`read.go:252`, against `docs/tools/read.md:80`); a scoped edit after a partial
  read makes the entry a full one (`edit.go:737`); a resume takes the time a file
  has now for that of a read in the transcript (`engine.go:656`, against
  `docs/arch/session-resume.md:101`).
* A stopped task is marked completed when its command has ended (`bash.go:602`);
  the flush before the end of a command never has any output (`bash.go:567`); a
  task that finds no shell stays running (`bash.go:520`), and one that fails to
  start is not announced (`bash.go:547`).

API client and router:

* A partial stream is acted on when the fallback fails or is skipped
  (`engine_loop.go:494`), and `response.failed` with blocks counts as complete.
* A streaming 529 is not counted by the fallback model's counter; 413, 498 and a
  quota error are treated differently by the retry loop and the fallback.
* With a configuration from the environment alone the profile "default" is
  lost; the sticky client ignores the profile's retry policy and the strategy
  "balanced"; keys alternate where `docs/arch/multi-provider-routing.md:127` says each is tried
  once; an endpoint at its failure limit stays out after its cooldown
  (`health.go:53`).

MCP, subagents, portal, archives:

* After the end of a server's output nobody answers the waiting request, and
  the lock stays held (`client.go:785`); the HTTP client's timeout ends the
  listener for events for good; a refreshed token lasts for one retry.
* `SetSessionManager` has no caller, so the results of subagents are not written
  to the transcript; the cost is handed over in a file that siblings overwrite
  (`subagent.go:446`).
* A portal that terminates removes a lock file another start has open
  (`server.go:264`, against `docs/arch/webui-portal.md:89`); a failed extraction
  leaves "already installed".
* A compaction to an archive has no lock: two at once share the temporary file;
  an append between the copy and the removal is lost; a crash during removal or
  extraction leaves a partial directory that a resume trusts.

## 7. What remains

In this order:

1. An abstract conversation (prompts, replies and results as a log) and the
   refinement of it by `AgentLoop`.
2. `AsAssembled` for more orders of blocks: what each accumulator does promise
   for a text after a call (section 2.8).
3. Several agents on one task manager and one task store.
