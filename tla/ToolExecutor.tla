---------------------------- MODULE ToolExecutor ----------------------------
(***************************************************************************)
(* The executor of the tool calls of one model response                    *)
(* (internal/agent/executor.go), the post-processing of their results      *)
(* (executeAndProcessTools, internal/agent/engine_results.go) and the      *)
(* worktree session the EnterWorktree and ExitWorktree tools share.        *)
(*                                                                         *)
(* A call stands for a tool name with an input, that is, for a denial key. *)
(* Consecutive shell calls form a serial batch, consecutive                *)
(* concurrency-safe calls a parallel one, every other call a batch of its  *)
(* own; lo..hi is the batch under execution.                               *)
(***************************************************************************)
EXTENDS Naturals, Sequences, FiniteSets

CONSTANTS
    Calls,           \* the (tool, input) pairs the model may ask for
    Class,           \* the class partitionGroups gives each call's tool
    Gated,           \* the calls the permission gate may refuse
    MaxConcurrency,  \* size of the semaphore of a parallel batch
    MaxBlocks        \* bound: tool_use blocks in one response

Classes == {"unknown", "single", "enter", "exit", "shell", "parallel"}

ASSUME ClassAssumption == Class \in [Calls -> Classes]
ASSUME GatedAssumption == Gated \subseteq Calls
ASSUME ConcurrencyAssumption == MaxConcurrency \in Nat \ {0}
ASSUME BlocksAssumption == MaxBlocks \in Nat \ {0}

VARIABLES
    blocks,     \* the tool_use blocks being executed, in request order
    lo, hi,     \* the batch under execution; lo > hi between batches
    pc,         \* how far the execution of each block has come
    results,    \* the slice of results, indexed by request position
    aborted,    \* the batch context was cancelled by a failed shell call
    cancelled,  \* the context of the loop was cancelled
    detached,   \* the loop went on under context.WithoutCancel
    over,       \* the loop returned the context error
    denials,    \* StreamConfig.PermissionDenials
    cwd,        \* ToolExecutor.cwd
    inTree,     \* WorktreeSession.inWorktree
    original,   \* WorktreeSession.originalCwd
    seen        \* the directory each call was given

vars == <<blocks, lo, hi, pc, results, aborted, cancelled, detached, over,
          denials, cwd, inTree, original, seen>>

Phases == {"idle", "waiting", "admitted", "running", "done"}
Outcomes == {"none", "ok", "error", "denied", "cached", "unknown",
             "aborted", "interrupted"}
Root == "root"
Tree == "tree"
NoDir == "nodir"
Dirs == {Root, Tree}

ClassOf(i) == Class[blocks[i]]
IsParallel(i) == ClassOf(i) = "parallel"
IsShell(i) == ClassOf(i) = "shell"
Batchable(i) == ClassOf(i) \in {"shell", "parallel"}

\* Fault: the batch is not flushed when the class changes.
JoinsUnflushed(i, k) == k = i \/ (Batchable(i) /\ Batchable(k))

\* Block k joins the batch that block i opened.
Joins(i, k) == k = i \/ (Batchable(i) /\ ClassOf(k) = ClassOf(i))

\* i..j is a group of partitionGroups: the batch opened by i is flushed
\* before the first block that does not join it.
IsGroup(i, j) ==
    /\ \A k \in i..j : Joins(i, k)
    /\ j < Len(blocks) => ~Joins(i, j + 1)

Idle == blocks = <<>>
Holding(i) == pc[i] \in {"admitted", "running"}
SlotsTaken == {i \in lo..hi : Holding(i)}

Init ==
    /\ blocks = <<>> /\ lo = 1 /\ hi = 0
    /\ pc = <<>> /\ results = <<>> /\ seen = <<>>
    /\ aborted = FALSE /\ cancelled = FALSE
    /\ detached = FALSE /\ over = FALSE
    /\ denials = {}
    /\ cwd = Root /\ inTree = FALSE /\ original = NoDir

-----------------------------------------------------------------------------
\* Fault: the slice of results is not allocated anew.
ExecuteStale(bs) ==
    /\ Idle /\ ~over /\ ~cancelled
    /\ blocks' = bs
    /\ lo' = 1 /\ hi' = 0
    /\ pc' = [i \in DOMAIN bs |-> "idle"]
    /\ seen' = [i \in DOMAIN bs |-> NoDir]
    /\ aborted' = FALSE /\ cwd' = Root
    /\ UNCHANGED <<results, cancelled, detached, over, denials, inTree,
                   original>>

\* Execute: a response with tool_use blocks arrives; the executor is new and
\* starts in the directory the loop was started in.
Execute(bs) ==
    /\ Idle /\ ~over /\ ~cancelled
    /\ blocks' = bs
    /\ lo' = 1 /\ hi' = 0
    /\ pc' = [i \in DOMAIN bs |-> "idle"]
    /\ results' = [i \in DOMAIN bs |-> "none"]
    /\ seen' = [i \in DOMAIN bs |-> NoDir]
    /\ aborted' = FALSE
    /\ cwd' = Root
    /\ UNCHANGED <<cancelled, detached, over, denials, inTree, original>>

\* The loop over groups: the next batch begins once every call of the
\* current one has its result (wg.Wait, or the end of the serial loop).
NextGroup ==
    /\ hi < Len(blocks)
    /\ \A k \in lo..hi : pc[k] = "done"
    /\ \E j \in (hi + 1)..Len(blocks) :
          /\ IsGroup(hi + 1, j)
          /\ lo' = hi + 1 /\ hi' = j
    /\ aborted' = FALSE
    /\ UNCHANGED <<blocks, pc, results, cancelled, detached, over, denials,
                   cwd, inTree, original, seen>>

\* Record the result of call i without having run its tool.
Settle(i, out) ==
    /\ pc' = [pc EXCEPT ![i] = "done"]
    /\ results' = [results EXCEPT ![i] = out]
    /\ UNCHANGED <<blocks, lo, hi, aborted, cancelled, detached, over,
                   denials, cwd, inTree, original, seen>>

\* Hand call i to its tool, in the executor's current directory.
Launch(i) ==
    /\ pc' = [pc EXCEPT ![i] = "running"]
    /\ seen' = [seen EXCEPT ![i] = cwd]
    /\ UNCHANGED <<blocks, lo, hi, results, aborted, cancelled, detached,
                   over, denials, cwd, inTree, original>>

-----------------------------------------------------------------------------
(* executeSerial: one call of the batch after the other.                   *)

SerialTurn(i) ==
    /\ i \in lo..hi /\ ~IsParallel(i) /\ pc[i] = "idle"
    /\ \A k \in lo..(i - 1) : pc[k] = "done"

\* Fault: a failed shell call does not cancel the batch context.
BatchDoneNoSibling == cancelled

BatchDone == cancelled \/ aborted

SerialAborted(i) == SerialTurn(i) /\ BatchDone /\ Settle(i, "aborted")

SerialUnknown(i) ==
    SerialTurn(i) /\ ~BatchDone /\ ClassOf(i) = "unknown"
    /\ Settle(i, "unknown")

SerialCached(i) ==
    /\ SerialTurn(i) /\ ~BatchDone /\ ClassOf(i) # "unknown"
    /\ blocks[i] \in denials
    /\ Settle(i, "cached")

SerialLaunch(i) ==
    /\ SerialTurn(i) /\ ~BatchDone /\ ClassOf(i) # "unknown"
    /\ blocks[i] \notin denials
    /\ Launch(i)

-----------------------------------------------------------------------------
(* executeParallel: one goroutine per call, throttled by a semaphore.      *)

ParallelTurn(i, phase) == i \in lo..hi /\ IsParallel(i) /\ pc[i] = phase

\* The goroutine looks at the context once before it waits for a slot.
GoStart(i) ==
    /\ ParallelTurn(i, "idle") /\ ~cancelled
    /\ pc' = [pc EXCEPT ![i] = "waiting"]
    /\ UNCHANGED <<blocks, lo, hi, results, aborted, cancelled, detached,
                   over, denials, cwd, inTree, original, seen>>

\* Either check of the context finds it cancelled.
GoAborted(i) ==
    /\ ParallelTurn(i, "idle") \/ ParallelTurn(i, "waiting")
    /\ cancelled
    /\ Settle(i, "aborted")

\* Fault: the slot is not given back when the goroutine ends.
GoAcquireLeaking(i) ==
    /\ ParallelTurn(i, "waiting")
    /\ Cardinality({k \in lo..hi : pc[k] \notin {"idle", "waiting"}})
          < MaxConcurrency
    /\ pc' = [pc EXCEPT ![i] = "admitted"]
    /\ UNCHANGED <<blocks, lo, hi, results, aborted, cancelled, detached,
                   over, denials, cwd, inTree, original, seen>>

\* Fault: the semaphore has one slot too many.
GoAcquireOneMore(i) ==
    /\ ParallelTurn(i, "waiting")
    /\ Cardinality(SlotsTaken) <= MaxConcurrency
    /\ pc' = [pc EXCEPT ![i] = "admitted"]
    /\ UNCHANGED <<blocks, lo, hi, results, aborted, cancelled, detached,
                   over, denials, cwd, inTree, original, seen>>

\* The select may also take a free slot after the context was cancelled.
GoAcquire(i) ==
    /\ ParallelTurn(i, "waiting")
    /\ Cardinality(SlotsTaken) < MaxConcurrency
    /\ pc' = [pc EXCEPT ![i] = "admitted"]
    /\ UNCHANGED <<blocks, lo, hi, results, aborted, cancelled, detached,
                   over, denials, cwd, inTree, original, seen>>

GoCached(i) ==
    ParallelTurn(i, "admitted") /\ blocks[i] \in denials
    /\ Settle(i, "cached")

\* Fault: the denial cache is not consulted in a parallel batch.
GoLaunchUnchecked(i) == ParallelTurn(i, "admitted") /\ Launch(i)

GoLaunch(i) ==
    ParallelTurn(i, "admitted") /\ blocks[i] \notin denials /\ Launch(i)

-----------------------------------------------------------------------------
(* A tool returns.                                                         *)

\* Fault: leaving the worktree does not hand the old directory back.
ToolEffectNoReturn(i, out) ==
    CASE ClassOf(i) = "enter" /\ out = "ok" ->
            /\ ~inTree
            /\ inTree' = TRUE /\ original' = seen[i] /\ cwd' = Tree
      [] ClassOf(i) = "exit" /\ out = "ok" ->
            inTree /\ inTree' = FALSE /\ UNCHANGED <<original, cwd>>
      [] OTHER -> UNCHANGED <<inTree, original, cwd>>

\* What Execute of the tool itself changes before it returns: the worktree
\* tools move the session in or out of the worktree, and name the directory
\* the executor is to continue in.
ToolEffect(i, out) ==
    CASE ClassOf(i) = "enter" /\ out = "ok" ->
            /\ ~inTree
            /\ inTree' = TRUE /\ original' = seen[i] /\ cwd' = Tree
      [] ClassOf(i) = "exit" /\ out = "ok" ->
            /\ inTree
            /\ inTree' = FALSE /\ original' = NoDir
            /\ cwd' = original
      [] OTHER -> UNCHANGED <<inTree, original, cwd>>

\* "denied": the permission gate refused the call (an error result whose text
\* isSecurityGateDenial recognises); "interrupted": the error is the context's
\* or a deadline's. Any shell failure cancels the batch context.
Return(i, out) ==
    /\ i \in lo..hi /\ pc[i] = "running"
    /\ out \in {"ok", "error", "denied", "interrupted"}
    /\ out = "denied" => blocks[i] \in Gated
    /\ pc' = [pc EXCEPT ![i] = "done"]
    /\ results' = [results EXCEPT ![i] = out]
    /\ denials' = IF out = "denied" THEN denials \cup {blocks[i]} ELSE denials
    /\ aborted' = (aborted \/ (IsShell(i) /\ out # "ok"))
    /\ ToolEffect(i, out)
    /\ UNCHANGED <<blocks, lo, hi, cancelled, detached, over, seen>>

-----------------------------------------------------------------------------
(* The loop around the executor.                                           *)

Finished == ~Idle /\ hi = Len(blocks) /\ \A i \in DOMAIN pc : pc[i] = "done"

\* executeAndProcessTools replaces the result of i by a synthetic
\* "Tool execution interrupted".
Synthetic(i) == cancelled /\ results[i] \in {"aborted", "interrupted"}

\* Synthetic results detach the loop from the cancelled context so that they
\* reach the model; otherwise the next iteration returns the context error.
Collect ==
    /\ Finished
    /\ LET anySynthetic == \E i \in DOMAIN results : Synthetic(i)
       IN  /\ detached' = (detached \/ anySynthetic)
           /\ cancelled' = (cancelled /\ ~anySynthetic)
           /\ over' = (cancelled /\ ~anySynthetic)
    /\ blocks' = <<>> /\ pc' = <<>> /\ results' = <<>> /\ seen' = <<>>
    /\ lo' = 1 /\ hi' = 0
    /\ UNCHANGED <<aborted, denials, cwd, inTree, original>>

\* A signal or a deadline cancels the context of the query, at any moment.
\* A detached context is out of its reach.
Cancel ==
    /\ ~cancelled /\ ~detached /\ ~over
    /\ cancelled' = TRUE
    /\ over' = Idle
    /\ UNCHANGED <<blocks, lo, hi, pc, results, aborted, detached, denials,
                   cwd, inTree, original, seen>>

\* The engine is given its next query, with a context of its own.
NextQuery ==
    /\ Idle /\ (over \/ detached)
    /\ cancelled' = FALSE /\ detached' = FALSE /\ over' = FALSE
    /\ UNCHANGED <<blocks, lo, hi, pc, results, aborted, denials, cwd,
                   inTree, original, seen>>

Responses == UNION {[1..n -> Calls] : n \in 1..MaxBlocks}

Step(i) ==
    \/ SerialAborted(i) \/ SerialUnknown(i) \/ SerialCached(i)
    \/ SerialLaunch(i)
    \/ GoStart(i) \/ GoAborted(i) \/ GoAcquire(i) \/ GoCached(i)
    \/ GoLaunch(i)
    \/ \E out \in Outcomes : Return(i, out)

Progress == NextGroup \/ Collect \/ \E i \in lo..hi : Step(i)

Next ==
    \/ \E bs \in Responses : Execute(bs)
    \/ Progress
    \/ Cancel
    \/ NextQuery

Spec == Init /\ [][Next]_vars

\* Goroutines are scheduled, and a tool that was started returns.
Fairness == WF_vars(Progress)
FairSpec == Spec /\ Fairness
-----------------------------------------------------------------------------
(* Properties.                                                             *)

\* Every variable has its type.
TypeOK ==
    /\ blocks \in Seq(Calls)
    /\ lo \in Nat /\ hi \in Nat
    /\ pc \in [DOMAIN blocks -> Phases]
    /\ results \in [DOMAIN blocks -> Outcomes]
    /\ seen \in [DOMAIN blocks -> Dirs \cup {NoDir}]
    /\ {aborted, cancelled, detached, over, inTree} \subseteq BOOLEAN
    /\ denials \subseteq Calls
    /\ cwd \in Dirs /\ original \in Dirs \cup {NoDir}

Started(i) == pc[i] # "idle"
Ended(i) == pc[i] = "done"

\* Calls are executed as if one after the other in request order, but for the
\* members of a parallel batch: when one of two calls is not concurrency-safe
\* the later one starts only after the earlier one has its result
\* (partitionGroups and the group loop of Execute).
RequestOrder ==
    \A i, j \in DOMAIN blocks :
        (i < j /\ ~(IsParallel(i) /\ IsParallel(j)) /\ Started(j)) => Ended(i)

\* No more than MaxConcurrency calls hold the semaphore, over all batches
\* (the sem channel of executeParallel).
SlotBound ==
    Cardinality({i \in DOMAIN blocks : Holding(i)}) <= MaxConcurrency

Failed(i) == results[i] \in {"error", "denied", "interrupted"}
ShellRun(i, j) == \A k \in i..j : IsShell(k)

\* A shell call that failed takes down exactly the shell calls that follow it
\* in its batch: none of them runs, and, while the query is not cancelled, no
\* other call is aborted (the sibling abort of executeSerial).
SiblingAbort ==
    \A j \in DOMAIN blocks :
        LET failedBefore == \E i \in 1..(j - 1) : ShellRun(i, j) /\ Failed(i)
        IN  /\ failedBefore => pc[j] # "running" /\ ~Failed(j)
                              /\ results[j] # "ok"
            /\ (results[j] = "aborted" /\ ~cancelled) => failedBefore

\* A refused call is not executed again in this or in a later response: only
\* its own twin in one parallel batch can be running when the refusal is
\* recorded (the denial cache that outlives the executor).
RefusedOnce ==
    \A i \in DOMAIN blocks :
        (pc[i] = "running" /\ blocks[i] \in denials) =>
            \E k \in lo..hi : /\ k # i /\ IsParallel(k)
                              /\ blocks[k] = blocks[i] /\ results[k] = "denied"

Moves(k) == ClassOf(k) \in {"enter", "exit"} /\ results[k] = "ok"

\* The directory the calls before position i leave the executor in.
LeftIn(i) ==
    LET moves == {k \in 1..(i - 1) : Moves(k)}
    IN  IF moves = {} THEN Root
        ELSE LET last == CHOOSE k \in moves : \A m \in moves : m <= k
             IN  IF ClassOf(last) = "enter" THEN Tree ELSE Root

\* Each call is given the directory the calls before it, in request order,
\* left: no call of a parallel batch sees a switch made after it, and leaving
\* the worktree always leads back to where the loop was started (NewCwd and
\* WorktreeSession.originalCwd).
CallDirectory ==
    \A i \in DOMAIN blocks : seen[i] # NoDir => seen[i] = LeftIn(i)

\* Every response is answered: the executor always comes to an end, with a
\* result for every tool_use (no lost goroutine, no unclaimed slot).
EveryResponseAnswered == (~Idle) ~> Idle
=============================================================================
