---------------------------- MODULE MessageChain ----------------------------
(***************************************************************************)
(* The message chain the agent loop keeps in memory and sends to the model *)
(* (internal/agent/compact.go, internal/agent/normalize*.go,               *)
(* internal/api/normalization.go, internal/api/provider_*.go).             *)
(*                                                                         *)
(* A message carries its role, a set of labels for its text, the ids of    *)
(* its tool_use blocks and the ids its tool_result blocks answer.          *)
(***************************************************************************)
EXTENDS SequencesExt

CONSTANTS
    Keep,    \* messagesToKeep of buildCompactedChain
    Blank    \* the ids of the tool calls whose input the model left empty

ASSUME KeepAssumption == Keep \in Nat \ {0}

Summary == "summary"
Reminder == "reminder"
TaskNote == "task_completed"
Placeholder == "[No content]"

Text(role, label) ==
    [role |-> role, says |-> {label}, uses |-> {}, results |-> {}]
Assistant(ids) ==
    [role |-> "assistant", says |-> {}, uses |-> ids, results |-> {}]
Answer(ids) == [role |-> "user", says |-> {}, uses |-> {}, results |-> ids]

IsUser(m) == m.role = "user"
IsAssistant(m) == m.role = "assistant"
Uses(chain) == UNION {chain[i].uses : i \in DOMAIN chain}
Results(chain) == UNION {chain[i].results : i \in DOMAIN chain}

\* What the elements of a sequence come to, one after the other.
Emit(s, Items(_)) ==
    FlattenSeq([i \in DOMAIN s |-> Items(s[i])])

-----------------------------------------------------------------------------
(* What is sent: NormalizeMessages and the providers' buildMessages.       *)

Joined(m, n) ==
    [m EXCEPT !.says = @ \cup n.says,
              !.uses = @ \cup n.uses,
              !.results = @ \cup n.results]

\* MergeConsecutiveSameRole; a second result for an id replaces the first.
Merged(chain) ==
    LET Add(acc, m) ==
            IF acc # <<>> /\ Last(acc).role = m.role
            THEN [acc EXCEPT ![Len(acc)] = Joined(@, m)]
            ELSE Append(acc, m)
        merged[n \in 0..Len(chain)] ==
            IF n = 0 THEN <<>> ELSE Add(merged[n - 1], chain[n])
    IN  merged[Len(chain)]

\* removeEmptyInputToolPairsNonFinal: calls without input go, and their
\* results, but those of the last assistant message with calls stay for the
\* model to see; an assistant message left empty says so.
Cleaned(chain) ==
    LET asking == SelectLastInSeq(chain, LAMBDA m : m.uses # {})
        gone == (Uses(chain) \cap Blank)
                \ (IF asking = 0 THEN {} ELSE chain[asking].uses)
        Without(m) ==
            [m EXCEPT
                !.uses = @ \ gone,
                !.results = @ \ gone,
                !.says = IF m.uses # {} /\ m.uses \subseteq gone /\ @ = {}
                         THEN {Placeholder} ELSE @]
    IN  [i \in DOMAIN chain |-> Without(chain[i])]

NormalizeMessages(chain) == Cleaned(Merged(chain))

TextOf(m) == IF m.says = {} THEN <<>>
             ELSE <<[m EXCEPT !.uses = {}, !.results = {}]>>
CallsOf(m) == IF m.uses = {} THEN <<>> ELSE <<Assistant(m.uses)>>
ResultsOf(m) == IF m.results = {} THEN <<>> ELSE <<Answer(m.results)>>
\* The Anthropic provider sends a merged message as one message, its results
\* before its text.
AnthropicItems(chain) == NormalizeMessages(chain)

\* The Gemini provider too, but for user messages left without content.
HasContent(m) == IsUser(m) => (m.says # {} \/ m.results # {})
IfContent(m) == IF HasContent(m) THEN <<m>> ELSE <<>>
GenAIItems(chain) == Emit(NormalizeMessages(chain), IfContent)

\* The OpenAI provider sends the text of a user message first and each result
\* as a "tool" message after it; messages of the system role are not sent.
OpenAIItems(chain) ==
    LET Items(m) ==
            CASE IsAssistant(m) -> <<m>>
              [] IsUser(m) -> TextOf(m) \o ResultsOf(m)
              [] OTHER -> <<>>
    IN  Emit(NormalizeMessages(chain), Items)

\* The Responses provider makes every part an item of its own; adjacent calls,
\* and adjacent results, are one item here.
ResponsesItems(chain) ==
    LET Items(m) == TextOf(m) \o CallsOf(m) \o ResultsOf(m)
    IN  Emit(NormalizeMessages(chain), Items)

\* Every tool_use is answered in the next item, and only there.
Paired(items) ==
    \A i \in DOMAIN items :
        /\ items[i].uses # {} =>
               i + 1 \in DOMAIN items /\ items[i].uses = items[i + 1].results
        /\ items[i].results # {} =>
               i - 1 \in DOMAIN items /\ items[i].results = items[i - 1].uses

-----------------------------------------------------------------------------
(* Compaction.                                                             *)

\* buildCompactedChain: a summary, then the last Keep messages, and one more
\* when the first of them holds tool results.
Compacted(chain) ==
    LET start == Len(chain) - Keep + 1
        cut == IF start <= 1 THEN 1
               ELSE IF IsUser(chain[start]) /\ chain[start].results # {}
                    THEN start - 1
                    ELSE start
    IN  <<Text("user", Summary)>> \o SubSeq(chain, cut, Len(chain))

\* inSessionCompact asks for the summary in a message of its own;
\* forkSummaryAgent sends the chain as it is.
WithInstruction(chain) == Append(chain, Text("user", Summary))

\* Fault: tool results whose tool_use was cut off are kept.
RepairedNoStrip(chain) == chain

\* ensureToolResultPairing: results without a tool_use are stripped, a user
\* message that follows a tool_use answers every call of it, and messages left
\* without content are dropped.
Repaired(chain) ==
    LET Asked(i) == IF i > 1 /\ IsAssistant(chain[i - 1])
                    THEN chain[i - 1].uses ELSE {}
        Fixed(i) == IF IsUser(chain[i])
                    THEN [chain[i] EXCEPT
                             !.results = (@ \cap Uses(chain)) \cup Asked(i)]
                    ELSE chain[i]
    IN  Emit([i \in DOMAIN chain |-> Fixed(i)], IfContent)

\* compactMessages followed by normalizeCompactedChain.
NormalizedCompactedChain(chain) == Repaired(Compacted(chain))

-----------------------------------------------------------------------------
(* The retry after a media error (HandleMediaErrorOnRetry).                *)

LastUser(chain) == SelectLastInSeq(chain, IsUser)
Answers(m) == IsUser(m) /\ m.results # {}
LastAnswer(chain) == SelectLastInSeq(chain, Answers)

\* The result taken to be the offending one is among those of the last user
\* message that has any...
MediaSuspects(chain) ==
    IF LastAnswer(chain) = 0 THEN {} ELSE chain[LastAnswer(chain)].results

\* ...but it is removed from the last user message.
MediaStripped(chain, id) ==
    [chain EXCEPT ![LastUser(chain)].results = @ \ {id}]
=============================================================================
