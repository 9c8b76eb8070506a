--------------------------- MODULE StreamAssembly ---------------------------
(***************************************************************************)
(* What the four providers of internal/api make of a stream: the chunks a  *)
(* server sends for an answer, the accumulator each chunk goes through,    *)
(* the blocks put on the channel as they end and the blocks of the result. *)
(*                                                                         *)
(* An answer is a sequence of block types; a block has its type, its place *)
(* in the answer, which is also the id of a tool call, and the number of   *)
(* its pieces that arrived.                                                *)
(* Only Anthropic's stream says where a block begins and ends; the other   *)
(* providers keep one text and one reasoning and close them when something *)
(* else comes.                                                             *)
(***************************************************************************)
EXTENDS Integers, Sequences, SequencesExt

Kinds == {"anthropic", "openai", "responses", "genai"}
Types == {"thinking", "text", "tool_use"}

\* The pieces a block arrives in: the least that makes a text partial.
Pieces(type) == IF type = "text" THEN 2 ELSE 1
Block(type, at, size, src) == [of |-> type, at |-> at, size |-> size, src |-> src]
Whole(b) == b.size = Pieces(b.of)

-----------------------------------------------------------------------------
(* The wire.                                                               *)

Chunk(is, type, at) == [is |-> is, of |-> type, at |-> at]
Mark(is) == <<Chunk(is, "none", 0)>>

Opens(kind, type)  == kind = "anthropic" \/ (type = "tool_use" /\ kind # "genai")
Closes(kind, type) == kind = "anthropic" \/ (type = "tool_use" /\ kind = "responses")

BlockChunks(kind, type, at) ==
       (IF Opens(kind, type) THEN <<Chunk("open", type, at)>> ELSE << >>)
    \o [i \in 1..Pieces(type) |-> Chunk("piece", type, at)]
    \o (IF Closes(kind, type) THEN <<Chunk("close", type, at)>> ELSE << >>)

Wire(kind, answer) ==
       FlattenSeq([i \in DOMAIN answer |-> BlockChunks(kind, answer[i], i)])
    \o Mark("finish")
    \o (IF kind = "anthropic" THEN Mark("stop") ELSE << >>)

\* The usual answer: one reasoning, one text, and then the calls.  The accumulators
\* that join blocks finalize in this order, whatever the channel carried first.
InOrder(answer) ==
    \A i, j \in DOMAIN answer :
        i < j => answer[j] = "tool_use" \/ (answer[i] = "thinking" /\ answer[j] = "text")

-----------------------------------------------------------------------------
(* The accumulators.                                                       *)

\* `blocks' in the order they began, `shut' what has ended, `sent' the
\* content blocks put on the channel, `ended' whether the answer is complete.
NewAccumulator == [blocks |-> << >>, shut |-> {}, sent |-> << >>, ended |-> FALSE]

\* The one text and the one reasoning of the other providers.
Slot(kind, type, at) == IF kind # "anthropic" /\ type # "tool_use" THEN 0 ELSE at
Places(acc, type, at) == {i \in DOMAIN acc.blocks : acc.blocks[i].of = type /\ acc.blocks[i].at = at}

Begin(acc, type, at) == [acc EXCEPT !.blocks = Append(@, Block(type, at, 0, "stream"))]
Grow(acc, type, at) ==
    LET has == IF Places(acc, type, at) = {} THEN Begin(acc, type, at) ELSE acc
        i   == CHOOSE j \in Places(has, type, at) : TRUE
    IN  [has EXCEPT !.blocks[i].size = @ + 1]

Send(acc, bs) == [acc EXCEPT !.sent = @ \o bs]

\* Those of a type; a selection in a form that proofs can unfold.
OfType(bs, type) ==
    FlattenSeq([i \in DOMAIN bs |-> IF bs[i].of = type THEN <<bs[i]>> ELSE << >>])

\* The same if a block was not marked as stopped.
ShutAgain(acc, type) ==
    IF OfType(acc.blocks, type) = << >> \/ type \in acc.shut THEN acc
    ELSE Send(acc, OfType(acc.blocks, type))

\* thinkingStopped, contentStopped: closed once, with what came so far.
Shut(acc, type) ==
    IF OfType(acc.blocks, type) = << >> \/ type \in acc.shut THEN acc
    ELSE Send([acc EXCEPT !.shut = @ \cup {type}], OfType(acc.blocks, type))
ShutText(acc) == Shut(Shut(acc, "thinking"), "text")

AtPlace(acc, c) ==
    FlattenSeq([i \in DOMAIN acc.blocks |->
        IF acc.blocks[i].of = c.of /\ acc.blocks[i].at = c.at THEN <<acc.blocks[i]>> ELSE << >>])

AnthropicClose(acc, c) == Send([acc EXCEPT !.shut = @ \cup {c.at}], AtPlace(acc, c))
Anthropic(acc, c) ==
    CASE c.is = "open"   -> Begin(acc, c.of, c.at)
      [] c.is = "piece"  -> Grow(acc, c.of, c.at)
      [] c.is = "close"  -> AnthropicClose(acc, c)
      [] c.is = "finish" -> acc
      [] c.is = "stop"   -> [acc EXCEPT !.ended = TRUE]

OpenAIOpen(acc, c) == Begin(ShutText(acc), c.of, c.at)
OpenAIPiece(acc, c) ==
    Grow(IF c.of = "text" THEN Shut(acc, "thinking") ELSE acc, c.of, Slot("openai", c.of, c.at))
\* The tools end with the answer.
OpenAIFinish(acc) ==
    [Send(ShutText(acc), OfType(acc.blocks, "tool_use")) EXCEPT !.ended = TRUE]
OpenAI(acc, c) ==
    CASE c.is = "open"   -> OpenAIOpen(acc, c)
      [] c.is = "piece"  -> OpenAIPiece(acc, c)
      [] c.is = "finish" -> OpenAIFinish(acc)

ResponsesOpen(acc, c) == Begin(acc, c.of, c.at)
ResponsesPiece(acc, c) ==
    Grow(CASE c.of = "thinking" -> acc
           [] c.of = "text"     -> Shut(acc, "thinking")
           [] c.of = "tool_use" -> ShutText(acc),
         c.of, Slot("responses", c.of, c.at))
ResponsesClose(acc, c) == Send(acc, AtPlace(acc, c))
ResponsesFinish(acc) == [ShutText(acc) EXCEPT !.ended = TRUE]
\* A failed response ends the stream as a completed one does.
ResponsesFailed(acc) == [acc EXCEPT !.ended = TRUE]
Responses(acc, c) ==
    CASE c.is = "open"   -> ResponsesOpen(acc, c)
      [] c.is = "piece"  -> ResponsesPiece(acc, c)
      [] c.is = "close"  -> ResponsesClose(acc, c)
      [] c.is = "finish" -> ResponsesFinish(acc)
      [] c.is = "failed" -> ResponsesFailed(acc)

\* A call comes whole, with an id made here.
GenAICall(acc, c) ==
    LET called == Grow(ShutText(acc), c.of, c.at) IN Send(called, AtPlace(called, c))
GenAIText(acc, c) ==
    Grow(IF c.of = "text" THEN Shut(acc, "thinking") ELSE acc, c.of, Slot("genai", c.of, c.at))
GenAIFinish(acc) == [ShutText(acc) EXCEPT !.ended = TRUE]
GenAI(acc, c) ==
    CASE c.is = "finish" -> GenAIFinish(acc)
      [] c.is = "piece"  -> IF c.of = "tool_use" THEN GenAICall(acc, c) ELSE GenAIText(acc, c)

Process(kind, acc, c) ==
    CASE kind = "anthropic" -> Anthropic(acc, c)
      [] kind = "openai"    -> OpenAI(acc, c)
      [] kind = "responses" -> Responses(acc, c)
      [] kind = "genai"     -> GenAI(acc, c)

\* getBlocks: the input of a tool is parsed when its block ends.
AnthropicBlocks(acc) ==
    [i \in DOMAIN acc.blocks |->
        LET b == acc.blocks[i] IN
        IF b.of = "tool_use" /\ b.at \notin acc.shut THEN [b EXCEPT !.size = 0] ELSE b]

\* finalize: reasoning, text, tools; GenAI's forget the ids they were sent with.
Finalized(acc) == OfType(acc.blocks, "thinking") \o OfType(acc.blocks, "text")
                     \o OfType(acc.blocks, "tool_use")
Nameless(bs) == [i \in DOMAIN bs |-> IF bs[i].of = "tool_use" THEN [bs[i] EXCEPT !.at = 0]
                                                              ELSE bs[i]]
Assembled(kind, acc) ==
    CASE kind = "anthropic" -> AnthropicBlocks(acc)
      [] kind = "genai"     -> Nameless(Finalized(acc))
      [] OTHER              -> Finalized(acc)

-----------------------------------------------------------------------------
(* parseResponse of a reply that was not streamed.                         *)

Reply(answer) == [i \in DOMAIN answer |-> Block(answer[i], i, Pieces(answer[i]), "reply")]

\* A message with one field for the reasoning, one for the text, and the calls.
OpenAIReply(answer) ==
    LET bs == Reply(answer)
        Field(type) == IF OfType(bs, type) = << >> THEN << >>
                       ELSE <<Block(type, 0, Len(OfType(bs, type)) * Pieces(type), "reply")>>
    IN  Field("thinking") \o Field("text") \o OfType(bs, "tool_use")

\* Item by item, block by block.
ResponsesReply(answer) == Reply(answer)

GenAIReply(answer) == Nameless(Reply(answer))

Parsed(kind, answer) ==
    CASE kind = "anthropic" -> Reply(answer)
      [] kind = "openai"    -> OpenAIReply(answer)
      [] kind = "responses" -> ResponsesReply(answer)
      [] kind = "genai"     -> GenAIReply(answer)
=============================================================================
