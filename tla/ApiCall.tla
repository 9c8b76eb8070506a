------------------------------ MODULE ApiCall ------------------------------
(***************************************************************************)
(* One question of the engine to the model (internal/api, engine_loop.go): *)
(* the stream with its reader and its idle watchdog, the decision of       *)
(* Client.SendMessageStream to ask again without a stream, the retries of  *)
(* sendWithRetry, and what the engine acts on in the end.                  *)
(*                                                                         *)
(* The engine always passes a fallback, so the client holds the blocks     *)
(* back until the stream is over; raw events and thinking shown on the way *)
(* are left out.  A media error, after which the engine asks anew with     *)
(* fewer results, ends the question here.                                  *)
(***************************************************************************)
EXTENDS StreamAssembly, FiniteSets

CONSTANTS
    Answers,      \* what the model may answer: sequences of block types
    Errors,       \* what it may refuse with: [status, code, words]
    MaxRetries,   \* RetryConfig.MaxRetries
    Max529,       \* RetryConfig.Max529Retries
    PipeCap       \* bound: chunks between the wire and the reader

\* The categories that the codes of the providers stand for.
DomesticCodes == {"context_exhausted", "server_overload", "content_filter",
    "quota_exhausted", "rate_limit", "auth", "permission", "model_not_found"}
InternationalCodes == DomesticCodes \cup
    {"invalid_request", "server_error", "timeout", "cancelled"}

ASSUME ApiAssumption ==
    /\ Answers \subseteq Seq(Types) \ {<< >>}
    /\ \A e \in Errors : e.status \in 400..599
                        /\ e.code \in DomesticCodes \cup InternationalCodes \cup {"unknown"}
    /\ MaxRetries \in Nat \ {0} /\ Max529 \in Nat /\ PipeCap \in Nat \ {0}

VARIABLES
    kind, answer, \* the provider, and what the model will say
    pc,           \* where the goroutine of the question is
    asking,       \* stream, fallback, or again: without a stream, after a 404
    wire,         \* what the server has still to send
    conn,         \* the body: open, ended by the server, closed here
    pipe,         \* chunks read from the body, not yet processed
    acc,          \* the accumulator
    dog,          \* the idle watchdog: off, on, fired, wrote
    err,          \* StreamResult.Error
    refusal,      \* the HTTP error of the stream, or None
    blocks,       \* StreamResult.Blocks
    channel,      \* content blocks the client lets through
    cancelled,    \* ctx, by the user
    deadline,     \* fallbackCtx, after fallbackTimeout
    tries, overloads, \* attempt and consecutive529 of sendWithRetry
    log,          \* history: what each request of this kind came to
    outcome,      \* none, answer, error
    taken         \* blocks the engine acts on

stream == <<wire, conn, pipe, acc, dog>>
result == <<err, refusal, blocks, channel>>
retry  == <<tries, overloads, log>>
ctx    == <<cancelled, deadline>>
ends   == <<outcome, taken>>
vars   == <<kind, answer, pc, asking, stream, result, retry, ctx, ends>>

None == [status |-> 0, code |-> "unknown", words |-> "plain"]

Init ==
    /\ kind \in Kinds /\ answer \in Answers
    /\ pc = "ask" /\ asking = "stream"
    /\ wire = << >> /\ conn = "closed" /\ pipe = << >> /\ acc = NewAccumulator
    /\ dog = "off"
    /\ err = "" /\ refusal = None /\ blocks = << >> /\ channel = << >>
    /\ cancelled = FALSE /\ deadline = FALSE
    /\ tries = 0 /\ overloads = 0 /\ log = << >>
    /\ outcome = "none" /\ taken = << >>

-----------------------------------------------------------------------------
(* The classification of errors.                                           *)

\* classifyErrorCommon: the status first, then words of the body.
CommonCategory(e) ==
    CASE e.status = 413 -> "context_exhausted"
      [] e.status = 402 -> "payment_required"
      [] e.status = 429 -> IF e.words = "overload" THEN "server_overload"
                           ELSE IF e.words = "quota" THEN "quota_exhausted" ELSE "rate_limit"
      [] e.status \in {400, 500, 504} /\ e.words = "context" -> "context_exhausted"
      [] e.status \in {400, 500, 504} /\ e.words = "filter"  -> "content_filter"
      [] e.status \in {400, 500, 504} /\ e.words = "quota"   -> "quota_exhausted"
      [] e.status \in {529, 503, 498} -> "server_overload"
      [] e.status \in {408, 504} -> "timeout"
      [] e.status >= 500 -> "server_error"
      [] e.status = 401 -> "auth"
      [] e.status = 403 -> "permission"
      [] e.status = 404 -> "model_not_found"
      [] e.status = 400 -> "invalid_request"
      [] OTHER -> "unknown"

\* A provider's own code, where its classifier knows one, goes first.
Category(e) == IF e.code # "unknown" THEN e.code ELSE CommonCategory(e)

IsPermanent(e) == e.status \in 400..499 \ {408, 409, 429}

ByCategory == {"rate_limit", "server_overload", "server_error", "timeout", "context_exhausted"}
Hopeless == {"quota_exhausted", "payment_required", "content_filter", "auth",
             "permission", "model_not_found"}
IsRetryable(e) ==
    \/ Category(e) \in ByCategory
    \/ Category(e) \notin Hopeless
       /\ e.status \in {429, 500, 502, 503, 504, 529, 498, 413, 408, 409}

-----------------------------------------------------------------------------
(* The stream.                                                             *)

\* The reader is done: assess the result.
Finished(e, bs) ==
    /\ pc' = "assess" /\ err' = e /\ blocks' = bs
    /\ UNCHANGED channel

\* StreamRequest: a cancelled request is not sent.
AskStream ==
    /\ pc = "ask"
    /\ IF cancelled THEN Finished("cancelled", << >>) /\ UNCHANGED log
       ELSE /\ pc' = "headers" /\ log' = <<"sent">>
            /\ UNCHANGED <<err, blocks, channel>>
    /\ UNCHANGED <<kind, answer, asking, stream, refusal, tries, overloads, ctx, ends>>

Accepted ==
    /\ pc = "headers"
    /\ pc' = "read" /\ conn' = "open" /\ dog' = "on" /\ wire' = Wire(kind, answer)
    /\ UNCHANGED <<kind, answer, asking, pipe, acc, result, retry, ctx, ends>>

Refused(e) ==
    /\ pc = "headers" /\ refusal' = e
    /\ Finished("http", << >>)
    /\ UNCHANGED <<kind, answer, asking, stream, retry, ctx, ends>>

\* The same if the client had no timeout.
HttpTimeoutUnset == FALSE

\* No connection, a request that was cancelled, or http.Client's own timeout,
\* which is there whatever the server does.
HttpTimeout == pc \in {"headers", "wait"}
NoHeaders ==
    /\ HttpTimeout /\ pc = "headers"
    /\ Finished(IF cancelled THEN "cancelled" ELSE "io", << >>)
    /\ UNCHANGED <<kind, answer, asking, stream, refusal, retry, ctx, ends>>

\* The server sends a chunk, fails the response, or ends the stream, where it
\* has said everything or before.
Serve ==
    /\ pc = "read" /\ conn = "open" /\ Len(pipe) < PipeCap /\ wire # << >>
    /\ \/ wire' = Tail(wire) /\ pipe' = Append(pipe, Head(wire))
       \/ kind = "responses" /\ wire' = << >> /\ pipe' = Append(pipe, Chunk("failed", "none", 0))
    /\ UNCHANGED <<kind, answer, pc, asking, conn, acc, dog, result, retry, ctx, ends>>

Hangup ==
    /\ pc = "read" /\ conn = "open" /\ conn' = "ended"
    /\ UNCHANGED <<kind, answer, pc, asking, wire, pipe, acc, dog, result, retry, ctx, ends>>

\* One turn of the reader's loop; every chunk winds the watchdog up, unless it
\* has fired: there is no second one.
ReadChunk ==
    /\ pc = "read" /\ pipe # << >>
    /\ pipe' = Tail(pipe) /\ acc' = Process(kind, acc, Head(pipe))
    /\ err' = IF Head(pipe).is = "failed" THEN "failed" ELSE err
    /\ UNCHANGED <<kind, answer, pc, asking, wire, conn, dog, refusal, blocks, channel,
                   retry, ctx, ends>>

\* After the loop: an error of the scanner, then, but for Anthropic, the
\* complaint that the answer is not complete.
Closing(scan) ==
    LET read == IF err = "" THEN scan ELSE err
    IN  Finished(IF kind # "anthropic" /\ ~acc.ended /\ read = "" THEN "incomplete" ELSE read,
                 Assembled(kind, acc))

EndOfStream ==
    /\ pc = "read" /\ pipe = << >>
    /\ \/ conn = "ended" /\ \E scan \in {"", "io"} : Closing(scan)
       \/ conn = "closed" /\ Closing("io")
    /\ dog' = IF dog = "on" THEN "off" ELSE dog
    /\ conn' = "closed"
    /\ UNCHANGED <<kind, answer, asking, wire, pipe, acc, refusal, retry, ctx, ends>>

\* Next(ctx): a cancelled context wins over the chunks at any time, silently or
\* as the error of the read it broke.
ReadCancelled ==
    /\ pc = "read" /\ cancelled
    /\ \E scan \in {"", "cancelled"} : Closing(scan)
    /\ dog' = IF dog = "on" THEN "off" ELSE dog
    /\ conn' = "closed" /\ pipe' = << >>
    /\ UNCHANGED <<kind, answer, asking, wire, acc, refusal, retry, ctx, ends>>

\* The watchdog: its timer, the error it writes into the result that the reader
\* is writing too, and the body it closes.
DogFires ==
    /\ pc = "read" /\ dog = "on" /\ dog' = "fired"
    /\ UNCHANGED <<kind, answer, pc, asking, wire, conn, pipe, acc, result, retry, ctx, ends>>

DogWrites ==
    /\ dog = "fired" /\ dog' = "wrote"
    /\ err' = IF pc \in {"read", "assess"} THEN "idle" ELSE err
    /\ UNCHANGED <<kind, answer, pc, asking, wire, conn, pipe, acc, refusal, blocks,
                   channel, retry, ctx, ends>>

DogCloses ==
    /\ dog = "wrote" /\ dog' = "off"
    /\ conn' = IF pc = "read" THEN "closed" ELSE conn
    /\ UNCHANGED <<kind, answer, pc, asking, wire, pipe, acc, result, retry, ctx, ends>>

-----------------------------------------------------------------------------
(* The client's decision.                                                  *)

Request(series, place) ==
    /\ asking' = series /\ pc' = place
    /\ tries' = 0 /\ overloads' = 0 /\ log' = << >>

Broken == ~acc.ended \/ err = "idle" \/ blocks = << >>

\* The same if only the context was looked at.
AssessHopeful ==
    /\ pc = "assess"
    /\ \/ /\ Broken /\ ~cancelled
          /\ Request("fallback", "send") /\ UNCHANGED channel
       \/ /\ Broken /\ cancelled
          /\ pc' = "decide" /\ UNCHANGED <<asking, retry, channel>>
       \/ /\ ~Broken
          /\ pc' = "decide" /\ channel' = acc.sent /\ UNCHANGED <<asking, retry>>
    /\ UNCHANGED <<kind, answer, stream, err, refusal, blocks, ctx, ends>>

\* Client.SendMessageStream after the stream.
Assess ==
    /\ pc = "assess"
    /\ \/ /\ Broken /\ ~(refusal # None /\ IsPermanent(refusal)) /\ ~cancelled
          /\ Request("fallback", "send") /\ UNCHANGED channel
       \/ /\ Broken /\ (cancelled \/ (refusal # None /\ IsPermanent(refusal)))
          /\ pc' = "decide" /\ UNCHANGED <<asking, retry, channel>>
       \/ /\ ~Broken
          /\ pc' = "decide" /\ channel' = acc.sent /\ UNCHANGED <<asking, retry>>
    /\ UNCHANGED <<kind, answer, stream, err, refusal, blocks, ctx, ends>>

-----------------------------------------------------------------------------
(* sendWithRetry.                                                          *)

Gone == cancelled \/ (asking = "fallback" /\ deadline)
Waiting == pc \in {"send", "wait", "backoff"}

\* The error a series of attempts ends in.  What the stream left in the result
\* stays there, but for its error.
GivesUp ==
    IF asking = "fallback"
    THEN pc' = "decide" /\ err' = "fallback" /\ UNCHANGED ends
    ELSE pc' = "done" /\ outcome' = "error" /\ UNCHANGED <<err, taken>>

Attempt ==
    /\ pc = "send"
    /\ IF Gone THEN GivesUp /\ UNCHANGED log
       ELSE pc' = "wait" /\ log' = Append(log, "sent") /\ UNCHANGED <<err, ends>>
    /\ UNCHANGED <<kind, answer, asking, stream, refusal, blocks, channel, tries,
                   overloads, ctx>>

CameTo(what) == log' = [log EXCEPT ![Len(log)] = what]

\* The same if the reply was added to what the stream left.
RepliedToo ==
    /\ pc = "wait" /\ CameTo("answer")
    /\ IF asking = "fallback"
       THEN pc' = "decide" /\ blocks' = blocks \o Parsed(kind, answer) /\ UNCHANGED ends
       ELSE /\ pc' = "done" /\ outcome' = "answer" /\ taken' = Parsed(kind, answer)
            /\ UNCHANGED blocks
    /\ UNCHANGED <<kind, answer, asking, stream, err, refusal, channel, tries, overloads, ctx>>

Replied ==
    /\ pc = "wait" /\ CameTo("answer")
    /\ IF asking = "fallback"
       THEN pc' = "decide" /\ blocks' = Parsed(kind, answer) /\ UNCHANGED ends
       ELSE /\ pc' = "done" /\ outcome' = "answer" /\ taken' = Parsed(kind, answer)
            /\ UNCHANGED blocks
    /\ UNCHANGED <<kind, answer, asking, stream, err, refusal, channel, tries, overloads, ctx>>

\* The same if the bound was one off.
AgainOnce ==
    IF tries <= MaxRetries THEN pc' = "backoff" /\ UNCHANGED <<err, ends>> ELSE GivesUp

\* After an error that may pass: the delay before the next attempt, if any.
Again ==
    IF tries < MaxRetries THEN pc' = "backoff" /\ UNCHANGED <<err, ends>> ELSE GivesUp

\* An HTTP error; consecutive529 counts the overloads in a row.
Overloaded(e) == e.status = 529
Rejected(e) ==
    /\ pc = "wait" /\ CameTo(IF Overloaded(e) THEN "overloaded" ELSE "refused")
    /\ overloads' = IF Overloaded(e) THEN overloads + 1 ELSE 0
    /\ IF overloads' > Max529 \/ IsPermanent(e) \/ ~IsRetryable(e) THEN GivesUp ELSE Again
    /\ UNCHANGED <<kind, answer, asking, stream, refusal, blocks, channel, tries, ctx>>

\* An error of the connection: a timeout of the system may pass, http.Client's
\* own and those of a context count as deadlines and do not.
Failed ==
    /\ HttpTimeout /\ pc = "wait" /\ CameTo("failed")
    /\ GivesUp \/ (~Gone /\ Again)
    /\ UNCHANGED <<kind, answer, asking, stream, refusal, blocks, channel, tries,
                   overloads, ctx>>

\* The delay is over, or the context before it.
Backoff ==
    /\ pc = "backoff"
    /\ \/ pc' = "send" /\ tries' = tries + 1 /\ UNCHANGED <<err, ends>>
       \/ Gone /\ GivesUp /\ UNCHANGED tries
    /\ UNCHANGED <<kind, answer, asking, stream, refusal, blocks, channel, overloads,
                   log, ctx>>

Cancel ==
    /\ pc # "done" /\ ~cancelled /\ cancelled' = TRUE
    /\ UNCHANGED <<kind, answer, pc, asking, stream, result, retry, deadline, ends>>

Expire ==
    /\ Waiting /\ asking = "fallback" /\ ~deadline /\ deadline' = TRUE
    /\ UNCHANGED <<kind, answer, pc, asking, stream, result, retry, cancelled, ends>>

-----------------------------------------------------------------------------
(* The engine.                                                             *)

\* Blocks from the channel; if they hold no text and no tool, the result's.
Acts ==
    LET shown == OfType(channel, "text") \o OfType(channel, "tool_use")
    IN  IF shown # << >> THEN channel ELSE channel \o blocks

Decide ==
    /\ pc = "decide"
    /\ \/ /\ err # "" /\ blocks = << >>
          /\ refusal # None /\ Category(refusal) = "model_not_found"
          /\ Request("again", "send") /\ UNCHANGED ends
       \/ /\ err # "" /\ blocks = << >>
          /\ ~(refusal # None /\ Category(refusal) = "model_not_found")
          /\ pc' = "done" /\ outcome' = "error" /\ UNCHANGED <<asking, retry, taken>>
       \/ /\ ~(err # "" /\ blocks = << >>)
          /\ pc' = "done" /\ outcome' = "answer" /\ taken' = Acts
          /\ UNCHANGED <<asking, retry>>
    /\ UNCHANGED <<kind, answer, stream, result, ctx>>

Done == pc = "done" /\ UNCHANGED vars

Next ==
    \/ AskStream \/ Accepted \/ NoHeaders \/ Serve \/ Hangup
    \/ ReadChunk \/ EndOfStream \/ ReadCancelled
    \/ DogFires \/ DogWrites \/ DogCloses
    \/ Assess \/ Attempt \/ Replied \/ Failed \/ Backoff \/ Decide
    \/ Cancel \/ Expire \/ Done
    \/ \E e \in Errors : Refused(e) \/ Rejected(e)

\* The program's own goroutines and timers; nothing of the server, nor of the
\* user.
Fairness ==
    /\ WF_vars(AskStream) /\ WF_vars(NoHeaders)
    /\ WF_vars(ReadChunk) /\ WF_vars(EndOfStream) /\ WF_vars(ReadCancelled)
    /\ WF_vars(DogFires) /\ WF_vars(DogWrites) /\ WF_vars(DogCloses)
    /\ WF_vars(Assess) /\ WF_vars(Attempt) /\ WF_vars(Failed) /\ WF_vars(Backoff)
    /\ WF_vars(Decide)

Spec == Init /\ [][Next]_vars /\ Fairness

-----------------------------------------------------------------------------
(* Properties.                                                             *)

\* What the channel carried block by block is what the result holds, when the
\* stream is complete and its blocks are in the usual order: the engine takes
\* the first, the transcript and the stop reason go with the second.
\* (processStreamChunk and its like against finalize and getBlocks)
Shape(bs) == [i \in DOMAIN bs |-> <<bs[i].of, bs[i].size>>]
AsAssembled ==
    pc = "decide" /\ channel # << >> /\ err = "" /\ (kind = "anthropic" \/ InOrder(answer))
        => Shape(channel) = Shape(blocks) /\ \A i \in DOMAIN channel : Whole(channel[i])

\* What the engine acts on comes from one answer, never the beginning of one
\* and a second one asked for instead.  (the blocks the client holds back)
OneSource == \A i, j \in DOMAIN taken : taken[i].src = taken[j].src

\* No series makes more requests than the configuration allows, nor goes on
\* after more overloads in a row.  (sendWithRetry over its exits and counters)
Overloads(n) == \A i \in Len(log) - n + 1 .. Len(log) : log[i] = "overloaded"
WithinLimits ==
    /\ Len(log) <= MaxRetries + 1
    /\ \A n \in 1..Len(log) : Overloads(n) => n <= Max529 + 1
    /\ pc = "backoff" => \A n \in 1..Len(log) : Overloads(n) => n <= Max529

\* A request goes out only while the user wants the answer, and after a refusal
\* for good only to look for the model elsewhere.  (ctx.Err, IsPermanent and the
\* re-entry for model_not_found)
Sends == pc' # pc /\ pc' \in {"headers", "wait"}
OnlyWanted ==
    [][Sends => ~cancelled
             /\ (refusal # None /\ IsPermanent(refusal) =>
                    asking = "again" /\ Category(refusal) = "model_not_found")]_vars

\* Every question ends, whatever the server does or leaves.  (the watchdog, the
\* client's timeout, the fallback's deadline and the bounded retries)
EveryQuestionEnds == <>(pc = "done")
=============================================================================
