-------------------------- MODULE AgentLoopProofs --------------------------
(***************************************************************************)
(* Proofs about AgentLoop, for every set of prompts, every bound and every *)
(* choice of what the environment may do.                                  *)
(*                                                                         *)
(* What is on file depends on the memory of the process that wrote it in   *)
(* two ways only: while results are persisted, the assistant entry that    *)
(* asked for them is on file behind the last boundary (InHand), and past   *)
(* its submission the prompt is (PromptKept).                              *)
(*                                                                         *)
(* What a resume would make of the file is tied to the chain in two ways:  *)
(* its replies are the last of the chain (TailInv), and both hold the same *)
(* calls apart from the results that are still to be persisted (PairInv).  *)
(* RebuildMessages, the merging and the items of the providers are         *)
(* recursive: what they compute is proved by induction over sets of        *)
(* numbers, from the function each of them unfolds to.                     *)
(***************************************************************************)
EXTENDS AgentLoop, SequenceTheorems, WellFoundedInduction, TLAPS

CallIds == Nat \X Nat
Entries ==
    [type: {"user"}, prompt: Prompts]
        \cup [type: {"assistant"}, uses: SUBSET CallIds]
        \cup [type: {"tool_result"}, id: CallIds]
        \cup [type: {"compact_boundary", "system_reminder"}]
        \cup [type: {"state"}, about: {"prompt", "tasks", "count"}, count: Nat]

FileOK ==
    /\ file \in Seq(Entries)
    /\ fail \in Nat /\ asked \in Nat /\ answered \in Nat /\ replies \in Nat
    /\ pc \in Phases
    /\ pc # "off" => prompt \in Prompts

\* Calls S are asked for in f, behind its last boundary.
AskedIn(f, S) ==
    \E j \in DOMAIN f :
        /\ f[j].type = "assistant" /\ S \subseteq f[j].uses
        /\ \A k \in j..Len(f) : ~IsBoundary(f[k])

InHand ==
    (pc \in {"tools", "persist"} /\ asked > 0) => AskedIn(file, CallsInHand)

PromptKept ==
    pc \notin {"off", "submit"} => UserMessageExists(file, prompt)

IInv == FileOK /\ InHand /\ PromptKept /\ ResultsFollowUses
-----------------------------------------------------------------------------
(* Appending an entry.                                                     *)

LEMMA Appended ==
    ASSUME NEW f \in Seq(Entries), NEW e \in Entries
    PROVE  /\ Append(f, e) \in Seq(Entries)
           /\ DOMAIN f = 1..Len(f) /\ Len(f) \in Nat
           /\ DOMAIN Append(f, e) = 1..(Len(f) + 1)
           /\ Len(Append(f, e)) = Len(f) + 1
           /\ \A i \in 1..Len(f) : Append(f, e)[i] = f[i]
           /\ Append(f, e)[Len(f) + 1] = e
BY AppendProperties

\* An entry other than a result leaves the results grounded.
LEMMA AppendOther ==
    ASSUME NEW f \in Seq(Entries), NEW e \in Entries,
           e.type # "tool_result", ResultsGrounded(f)
    PROVE  ResultsGrounded(Append(f, e))
<1> DEFINE g == Append(f, e)
<1>1. /\ DOMAIN f = 1..Len(f) /\ Len(f) \in Nat
      /\ DOMAIN g = 1..(Len(f) + 1)
      /\ \A i \in 1..Len(f) : g[i] = f[i]
      /\ g[Len(f) + 1] = e
  BY Appended
<1> HIDE DEF g
<1>2. SUFFICES ASSUME NEW i \in DOMAIN g, g[i].type = "tool_result"
               PROVE  \E j \in 1..(i - 1) :
                         /\ g[j].type = "assistant" /\ g[i].id \in g[j].uses
                         /\ \A k \in j..i : ~IsBoundary(g[k])
  BY DEF ResultsGrounded, g
<1>3. i \in 1..Len(f)
  BY <1>1, <1>2
<1>4. PICK j \in 1..(i - 1) :
         /\ f[j].type = "assistant" /\ f[i].id \in f[j].uses
         /\ \A k \in j..i : ~IsBoundary(f[k])
  BY <1>1, <1>2, <1>3 DEF ResultsGrounded
<1>5. g[j] = f[j] /\ g[i] = f[i] /\ \A k \in j..i : g[k] = f[k]
  BY <1>1, <1>3
<1> QED
  BY <1>4, <1>5

\* The result of a call that is asked for behind the last boundary.
LEMMA AppendResult ==
    ASSUME NEW f \in Seq(Entries), NEW S, NEW id \in CallIds, id \in S,
           ResultsGrounded(f), AskedIn(f, S)
    PROVE  /\ ResultsGrounded(Append(f, ResultEntry(id)))
           /\ AskedIn(Append(f, ResultEntry(id)), S)
<1> DEFINE g == Append(f, ResultEntry(id))
<1>1. /\ ResultEntry(id) \in Entries
      /\ ResultEntry(id).type = "tool_result" /\ ResultEntry(id).id = id
      /\ ~IsBoundary(ResultEntry(id))
  BY DEF ResultEntry, Entries, IsBoundary
<1>2. /\ DOMAIN f = 1..Len(f) /\ Len(f) \in Nat
      /\ DOMAIN g = 1..(Len(f) + 1) /\ Len(g) = Len(f) + 1
      /\ \A i \in 1..Len(f) : g[i] = f[i]
      /\ g[Len(f) + 1] = ResultEntry(id)
  BY <1>1, Appended
<1> HIDE DEF g
<1>3. PICK a \in DOMAIN f :
         /\ f[a].type = "assistant" /\ S \subseteq f[a].uses
         /\ \A k \in a..Len(f) : ~IsBoundary(f[k])
  BY DEF AskedIn
<1>4. /\ a \in 1..Len(f) /\ g[a].type = "assistant" /\ S \subseteq g[a].uses
      /\ \A k \in a..(Len(f) + 1) : ~IsBoundary(g[k])
  BY <1>1, <1>2, <1>3
<1>5. AskedIn(g, S)
  BY <1>2, <1>4 DEF AskedIn
<1>6. ASSUME NEW i \in DOMAIN g, g[i].type = "tool_result"
      PROVE  \E j \in 1..(i - 1) :
                /\ g[j].type = "assistant" /\ g[i].id \in g[j].uses
                /\ \A k \in j..i : ~IsBoundary(g[k])
  <2>1. CASE i \in 1..Len(f)
    <3>1. PICK j \in 1..(i - 1) :
             /\ f[j].type = "assistant" /\ f[i].id \in f[j].uses
             /\ \A k \in j..i : ~IsBoundary(f[k])
      BY <1>2, <1>6, <2>1 DEF ResultsGrounded
    <3>2. /\ g[j] = f[j] /\ g[i] = f[i] /\ \A k \in j..i : g[k] = f[k]
      BY <1>2, <2>1
    <3> QED
      BY <3>1, <3>2
  <2>2. CASE i = Len(f) + 1
    <3>1. g[i].id \in g[a].uses
      BY <1>1, <1>2, <1>4, <2>2
    <3>2. a \in 1..(i - 1)
      BY <1>2, <1>4, <2>2
    <3> QED
      BY <1>4, <2>2, <3>1, <3>2
  <2> QED
    BY <1>2, <2>1, <2>2
<1> QED
  BY <1>5, <1>6 DEF ResultsGrounded, g

\* What is asked for stays so as long as no boundary follows.
LEMMA AppendAsked ==
    ASSUME NEW f \in Seq(Entries), NEW e \in Entries, ~IsBoundary(e),
           NEW S, AskedIn(f, S)
    PROVE  AskedIn(Append(f, e), S)
<1>1. PICK a \in DOMAIN f :
         /\ f[a].type = "assistant" /\ S \subseteq f[a].uses
         /\ \A k \in a..Len(f) : ~IsBoundary(f[k])
  BY DEF AskedIn
<1>2. /\ a \in DOMAIN Append(f, e) /\ Append(f, e)[a] = f[a]
      /\ \A k \in a..(Len(f) + 1) : ~IsBoundary(Append(f, e)[k])
  BY <1>1, Appended
<1> QED
  BY <1>1, <1>2, Appended DEF AskedIn

LEMMA AppendPrompt ==
    ASSUME NEW f \in Seq(Entries), NEW e \in Entries, NEW q,
           UserMessageExists(f, q)
    PROVE  UserMessageExists(Append(f, e), q)
BY Appended DEF UserMessageExists

\* The entries the loop writes.
LEMMA EntryKinds ==
    /\ \A q \in Prompts : UserEntry(q) \in Entries
    /\ \A S \in SUBSET CallIds : AssistantEntry(S) \in Entries
    /\ \A id \in CallIds : ResultEntry(id) \in Entries
    /\ BoundaryEntry \in Entries /\ ReminderEntry \in Entries
    /\ \A a \in {"prompt", "tasks", "count"}, n \in Nat :
          StateEntry(a, n) \in Entries
BY DEF UserEntry, AssistantEntry, ResultEntry, BoundaryEntry, ReminderEntry,
       StateEntry, Entries

LEMMA EntryTypes ==
    /\ \A q : UserEntry(q).type = "user" /\ UserEntry(q).prompt = q
    /\ \A S : AssistantEntry(S).type = "assistant"
              /\ AssistantEntry(S).uses = S
    /\ BoundaryEntry.type = "compact_boundary"
    /\ ReminderEntry.type = "system_reminder"
    /\ \A a, n : StateEntry(a, n).type = "state"
BY DEF UserEntry, AssistantEntry, BoundaryEntry, ReminderEntry, StateEntry

\* Positions behind a cut at c, and in the sequence that begins there.
LEMMA Shifted ==
    ASSUME NEW c \in Int, NEW k \in Int, NEW n \in Int, c < k, k <= n
    PROVE  k - c + 1 \in 1..(n - c + 1) /\ c + (k - c + 1) - 1 = k
  OBVIOUS

LEMMA ShiftedBack ==
    ASSUME NEW c \in Int, NEW i \in Int, NEW j \in Int, c < j, j <= c + i - 2
    PROVE  /\ j - c + 1 \in 1..(i - 1) /\ j \in j..(c + i - 1)
           /\ \A m \in (j - c + 1)..i :
                 c + m - 1 \in j..(c + i - 1) /\ (c + m - 1) - c + 1 = m
<1>1. j - c + 1 \in 1..(i - 1) /\ j \in j..(c + i - 1)
  OBVIOUS
<1>2. ASSUME NEW m \in (j - c + 1)..i
      PROVE  c + m - 1 \in j..(c + i - 1) /\ (c + m - 1) - c + 1 = m
  <2>1. m \in Int /\ j - c + 1 <= m /\ m <= i
    BY <1>2
  <2> QED
    BY <2>1
<1> QED
  BY <1>1, <1>2

\* The transcript of a fork: the entries from the last boundary on.
LEMMA CutAtBoundary ==
    ASSUME NEW f \in Seq(Entries), ResultsGrounded(f),
           NEW g \in PostBoundary(f)
    PROVE  g \in Seq(Entries) /\ ResultsGrounded(g)
<1>1. CASE g = f
  BY <1>1
<1>2. CASE g # f
  <2>1. PICK c \in DOMAIN f : g = SubSeq(f, c, Len(f)) /\ IsBoundary(f[c])
    BY <1>2 DEF PostBoundary, LastOf
  <2>2. /\ DOMAIN f = 1..Len(f) /\ Len(f) \in Nat /\ c \in 1..Len(f)
        /\ \A i \in c..Len(f) : f[i] \in Entries
    OBVIOUS
  <2>3. /\ g \in Seq(Entries) /\ Len(g) = Len(f) - c + 1
        /\ \A i \in 1..(Len(f) - c + 1) : g[i] = f[c + i - 1]
    BY <2>1, <2>2, SubSeqProperties
  <2>4. ASSUME NEW i \in DOMAIN g, g[i].type = "tool_result"
        PROVE  \E j \in 1..(i - 1) :
                  /\ g[j].type = "assistant" /\ g[i].id \in g[j].uses
                  /\ \A k \in j..i : ~IsBoundary(g[k])
    <3>1. /\ i \in 1..Len(g) /\ c + i - 1 \in DOMAIN f
          /\ g[i] = f[c + i - 1]
      BY <2>2, <2>3
    <3>a. f[c + i - 1].type = "tool_result"
      BY <2>4, <3>1
    <3> DEFINE p == c + i - 1
    <3>0. p \in DOMAIN f /\ f[p].type = "tool_result" /\ p = c + i - 1
      BY <3>1, <3>a
    <3> HIDE DEF p
    <3>2. PICK j \in 1..(p - 1) :
             /\ f[j].type = "assistant" /\ f[p].id \in f[j].uses
             /\ \A k \in j..p : ~IsBoundary(f[k])
      BY <3>0, Zenon DEF ResultsGrounded
    <3>b. /\ c \in Int /\ i \in Int /\ j \in Int /\ Len(f) \in Int
          /\ 1 <= i /\ 1 <= j /\ j <= c + i - 2 /\ c + i - 1 <= Len(f)
      BY <2>2, <2>3, <3>0, <3>1, <3>2
    <3>3. c < j
      <4>1. c \notin j..(c + i - 1)
        BY <2>1, <3>0, <3>2
      <4> QED
        BY <3>b, <4>1
    <3>4. \A k \in j..(c + i - 1) :
             k - c + 1 \in 1..(Len(f) - c + 1) /\ c + (k - c + 1) - 1 = k
      <4> SUFFICES ASSUME NEW k \in j..(c + i - 1)
                   PROVE  k - c + 1 \in 1..(Len(f) - c + 1) /\ c + (k - c + 1) - 1 = k
        OBVIOUS
      <4>1. k \in Int /\ j <= k /\ k <= c + i - 1
        BY <3>b
      <4>2. c < k /\ k <= Len(f)
        BY <3>b, <3>3, <4>1
      <4> QED
        BY <3>b, <4>1, <4>2, Shifted
    <3>5. \A k \in j..(c + i - 1) : g[k - c + 1] = f[k]
      BY <2>3, <3>4
    <3>6. /\ j - c + 1 \in 1..(i - 1) /\ j \in j..(c + i - 1)
          /\ \A m \in (j - c + 1)..i :
                c + m - 1 \in j..(c + i - 1) /\ (c + m - 1) - c + 1 = m
      BY <3>b, <3>3, ShiftedBack
    <3>7. /\ g[j - c + 1] = f[j]
          /\ \A m \in (j - c + 1)..i : g[m] = f[c + m - 1]
      BY <3>5, <3>6
    <3>8. /\ g[j - c + 1].type = "assistant" /\ g[i].id \in g[j - c + 1].uses
          /\ \A m \in (j - c + 1)..i : ~IsBoundary(g[m])
      BY <3>0, <3>1, <3>2, <3>6, <3>7
    <3> QED
      BY <3>6, <3>8
  <2> QED
    BY <2>3, <2>4 DEF ResultsGrounded
<1> QED
  BY <1>1, <1>2

\* The failure count loaded is a number.
LEMMA LoadedCount ==
    ASSUME NEW f \in Seq(Entries), NEW n \in LoadCompactFailCount(f)
    PROVE  n \in Nat
<1>1. CASE n = 0
  BY <1>1
<1>2. CASE n # 0
  <2>1. PICK i \in DOMAIN f : IsState(f[i]) /\ n = f[i].count
    BY <1>2 DEF LoadCompactFailCount, LastOf
  <2>2. f[i] \in Entries /\ f[i].type = "state"
    BY <2>1 DEF IsState
  <2> QED
    BY <2>1, <2>2 DEF Entries
<1> QED
  BY <1>1, <1>2

-----------------------------------------------------------------------------
(* The steps.                                                              *)

\* A step that leaves the process where the invariant asks nothing of it.
LEMMA ExitKeeps ==
    ASSUME IInv, Exit,
           file' \in Seq(Entries), ResultsGrounded(file')
    PROVE  IInv'
BY DEF IInv, FileOK, Exit, Phases, InHand, PromptKept, ResultsFollowUses

\* An entry that is neither a result nor an assistant's leaves the invariant
\* as it is, wherever the step leads but to the handling of a reply.
LEMMA OtherEntry ==
    ASSUME IInv, NEW e \in Entries, e.type # "tool_result",
           TryRecord(e) \/ UNCHANGED file,
           pc # "off"
    PROVE  /\ file' \in Seq(Entries) /\ ResultsGrounded(file')
           /\ UserMessageExists(file, prompt) => UserMessageExists(file', prompt)
           /\ (~IsBoundary(e) /\ AskedIn(file, CallsInHand))
                 => AskedIn(file', CallsInHand)
<1>1. file' = Append(file, e) \/ file' = file
  BY DEF TryRecord, Record
<1>2. file \in Seq(Entries) /\ ResultsGrounded(file)
  BY DEF IInv, FileOK, ResultsFollowUses
<1>3. CASE file' = file
  BY <1>2, <1>3
<1>4. CASE file' = Append(file, e)
  <2>1. file' \in Seq(Entries) /\ ResultsGrounded(file')
    BY <1>2, <1>4, Appended, AppendOther
  <2>2. UserMessageExists(file, prompt) => UserMessageExists(file', prompt)
    BY <1>2, <1>4, AppendPrompt
  <2>3. (~IsBoundary(e) /\ AskedIn(file, CallsInHand))
           => AskedIn(file', CallsInHand)
    BY <1>2, <1>4, AppendAsked
  <2> QED
    BY <2>1, <2>2, <2>3
<1> QED
  BY <1>1, <1>3, <1>4

\* The same for a step that goes on within the query and not to a reply.
LEMMA GoesOnKeeps ==
    ASSUME IInv, NEW e \in Entries, e.type # "tool_result",
           TryRecord(e) \/ UNCHANGED file,
           pc \notin {"off", "submit"},
           pc' \in {"freeze", "top", "window", "reinject", "call", "handle"},
           fail' \in Nat, asked' \in Nat, answered' \in Nat,
           replies' \in Nat, prompt' = prompt
    PROVE  IInv'
<1>1. pc # "off" /\ UserMessageExists(file, prompt) /\ prompt \in Prompts
  BY DEF IInv, PromptKept, FileOK
<1>2. /\ file' \in Seq(Entries) /\ ResultsGrounded(file')
      /\ UserMessageExists(file', prompt)
  BY <1>1, OtherEntry
<1>3. FileOK'
  BY <1>1, <1>2 DEF FileOK, Phases
<1>4. InHand' /\ PromptKept' /\ ResultsFollowUses'
  BY <1>2 DEF InHand, PromptKept, ResultsFollowUses
<1> QED
  BY <1>3, <1>4 DEF IInv

LEMMA NextKeeps ==
    ASSUME IInv, [Next]_vars
    PROVE  IInv'
<1> USE DEF IInv
<1>e. /\ ReminderEntry \in Entries /\ ReminderEntry.type # "tool_result"
      /\ BoundaryEntry \in Entries /\ BoundaryEntry.type # "tool_result"
      /\ \A a \in {"prompt", "tasks", "count"}, n \in Nat :
            /\ StateEntry(a, n) \in Entries
            /\ StateEntry(a, n).type # "tool_result"
            /\ ~IsBoundary(StateEntry(a, n))
  BY EntryKinds, EntryTypes DEF IsBoundary
<1>n. /\ file \in Seq(Entries) /\ ResultsGrounded(file)
      /\ fail \in Nat /\ asked \in Nat /\ answered \in Nat /\ replies \in Nat
      /\ pc \in Phases /\ (pc # "off" => prompt \in Prompts)
  BY DEF FileOK, ResultsFollowUses
<1>1. ASSUME NEW p \in Prompts, Start(p) PROVE IInv'
  BY <1>n, <1>1 DEF Start, Boot, FileOK, Phases, InHand, PromptKept,
                    ResultsFollowUses
<1>2. ASSUME NEW p \in Prompts, NEW forks \in BOOLEAN, Resume(p, forks)
      PROVE  IInv'
  <2>1. file' \in Seq(Entries) /\ ResultsGrounded(file')
    BY <1>n, <1>2, CutAtBoundary DEF Resume
  <2>2. PICK count \in LoadCompactFailCount(file') :
           /\ fail' = count /\ pc' = "submit" /\ prompt' = p
           /\ UNCHANGED <<asked, answered, replies>>
    BY <1>2 DEF Resume, Boot
  <2>3. fail' \in Nat
    BY <2>1, <2>2, LoadedCount
  <2> QED
    BY <1>n, <2>1, <2>2, <2>3 DEF FileOK, Phases, InHand, PromptKept,
                                  ResultsFollowUses
<1>3. CASE Submit
  <2>1. /\ pc = "submit" /\ pc' = "changes" /\ prompt' = prompt
        /\ prompt \in Prompts
        /\ UNCHANGED <<fail, asked, answered, replies>>
    BY <1>n, <1>3 DEF Submit, Goto, memory
  <2>2. CASE AlreadyOnFile /\ UNCHANGED file
    BY <1>n, <2>1, <2>2 DEF AlreadyOnFile, FileOK, Phases, InHand, PromptKept,
                            ResultsFollowUses
  <2>3. CASE Record(UserEntry(prompt))
    <3>1. /\ UserEntry(prompt) \in Entries
          /\ UserEntry(prompt).type = "user"
          /\ UserEntry(prompt).prompt = prompt
          /\ file' = Append(file, UserEntry(prompt))
      BY <2>1, <2>3, EntryKinds, EntryTypes DEF Record
    <3>2. file' \in Seq(Entries) /\ ResultsGrounded(file')
      BY <1>n, <3>1, Appended, AppendOther
    <3>3. UserMessageExists(file', prompt)
      BY <1>n, <3>1, Appended DEF UserMessageExists
    <3> QED
      BY <1>n, <2>1, <3>2, <3>3 DEF FileOK, Phases, InHand, PromptKept,
                                    ResultsFollowUses
  <2> QED
    BY <1>3, <2>2, <2>3 DEF Submit
<1>4. CASE Changes
  <2>1. /\ pc = "changes" /\ pc' \in {"top", "freeze"}
        /\ UNCHANGED <<fail, asked, answered, replies, prompt>>
        /\ TryRecord(ReminderEntry) \/ UNCHANGED file
    BY <1>4 DEF Changes, Goto
  <2> QED
    BY <1>e, <1>n, <2>1, GoesOnKeeps
<1>5. CASE Freeze
  <2>1. /\ pc = "freeze" /\ pc' = "top"
        /\ UNCHANGED <<fail, asked, answered, replies, prompt>>
        /\ TryRecord(StateEntry("prompt", 0))
    BY <1>5 DEF Freeze, Goto
  <2> QED
    BY <1>e, <1>n, <2>1, GoesOnKeeps
<1>6. ASSUME NEW note \in BOOLEAN, TakeTurn(note) PROVE IInv'
  <2>1. /\ pc = "top" /\ pc' = "window"
        /\ UNCHANGED <<file, fail, asked, answered, replies, prompt>>
    BY <1>6 DEF TakeTurn, Goto
  <2> QED
    BY <1>e, <1>n, <2>1, GoesOnKeeps
<1>7. CASE SkipCompaction
  <2>1. /\ pc = "window" /\ pc' = "call"
        /\ UNCHANGED <<file, fail, asked, answered, replies, prompt>>
    BY <1>7 DEF SkipCompaction, Goto, memory
  <2> QED
    BY <1>e, <1>n, <2>1, GoesOnKeeps
<1>8. CASE Compact
  <2>1. /\ pc = "window" /\ pc' \in {"reinject", "call"}
        /\ UNCHANGED <<fail, asked, answered, replies, prompt>>
        /\ TryRecord(BoundaryEntry)
    BY <1>8 DEF Compact, Goto
  <2> QED
    BY <1>e, <1>n, <2>1, GoesOnKeeps
<1>9. CASE CompactFails
  <2>1. /\ pc = "window" /\ pc' = "call" /\ fail' \in Nat
        /\ UNCHANGED <<asked, answered, replies, prompt>>
        /\ TryRecord(StateEntry("count", fail'))
    BY <1>n, <1>9 DEF CompactFails, Goto
  <2> QED
    BY <1>e, <1>n, <2>1, GoesOnKeeps
<1>10. CASE ReinjectSkills
  <2>1. /\ pc = "reinject" /\ pc' = "call"
        /\ UNCHANGED <<fail, asked, answered, replies, prompt>>
        /\ TryRecord(ReminderEntry)
    BY <1>10 DEF ReinjectSkills, Remind, Goto
  <2> QED
    BY <1>e, <1>n, <2>1, GoesOnKeeps
<1>11. ASSUME NEW n \in 0..MaxUses, NEW reason \in StopReasons,
              Respond(n, reason)
       PROVE  IInv'
  <2> DEFINE calls == {<<replies + 1, k>> : k \in 1..n}
  <2>1. /\ pc = "call" /\ pc' = "tools" /\ replies' = replies + 1
        /\ asked' = n /\ answered' = 0 /\ UNCHANGED <<fail, prompt>>
        /\ file' = Append(file, AssistantEntry(calls))
    BY <1>11 DEF Respond, TakeReply, Record
  <2>2. n \in Nat /\ calls \in SUBSET CallIds /\ CallsInHand' = calls
    BY <1>n, <2>1, BoundsAssumption DEF CallsInHand, Call, CallIds
  <2>3. /\ AssistantEntry(calls) \in Entries
        /\ AssistantEntry(calls).type = "assistant"
        /\ AssistantEntry(calls).uses = calls
        /\ ~IsBoundary(AssistantEntry(calls))
    BY <2>2, EntryKinds, EntryTypes DEF IsBoundary
  <2> HIDE DEF calls
  <2>4. file' \in Seq(Entries) /\ ResultsGrounded(file')
    BY <1>n, <2>1, <2>3, Appended, AppendOther
  <2>5. AskedIn(file', calls)
    BY <1>n, <2>1, <2>3, Appended DEF AskedIn
  <2>6. UserMessageExists(file', prompt')
    BY <1>n, <2>1, <2>3, AppendPrompt DEF PromptKept
  <2>7. FileOK'
    BY <1>n, <2>1, <2>2, <2>4 DEF FileOK, Phases
  <2> QED
    BY <2>1, <2>2, <2>4, <2>5, <2>6, <2>7
       DEF InHand, PromptKept, ResultsFollowUses
<1>12. ASSUME NEW reason \in StopReasons, RespondEmpty(reason) PROVE IInv'
  <2>1. /\ pc = "call" /\ pc' = "tools" /\ asked' = 0 /\ answered' = 0
        /\ UNCHANGED <<file, fail, replies, prompt>>
    BY <1>12 DEF RespondEmpty, TakeReply
  <2> QED
    BY <1>n, <2>1 DEF FileOK, Phases, InHand, PromptKept, ResultsFollowUses
<1>13. CASE MediaRetry
  <2>1. /\ pc = "call" /\ pc' = "top"
        /\ UNCHANGED <<file, fail, asked, answered, replies, prompt>>
    BY <1>13 DEF MediaRetry, Goto
  <2> QED
    BY <1>e, <1>n, <2>1, GoesOnKeeps
<1>14. CASE RunTools
  <2>1. /\ pc = "tools" /\ pc' = "persist" /\ asked > 0
        /\ UNCHANGED <<fail, asked, answered, replies, prompt>>
        /\ TryRecord(StateEntry("tasks", 0)) \/ UNCHANGED file
    BY <1>14 DEF RunTools, Goto
  <2>2. CallsInHand' = CallsInHand
    BY <2>1 DEF CallsInHand, Call
  <2>3. /\ file' \in Seq(Entries) /\ ResultsGrounded(file')
        /\ UserMessageExists(file', prompt)
        /\ AskedIn(file', CallsInHand)
    BY <1>e, <1>n, <2>1, OtherEntry DEF InHand, PromptKept
  <2> QED
    BY <1>n, <2>1, <2>2, <2>3 DEF FileOK, Phases, InHand, PromptKept,
                                  ResultsFollowUses
<1>15. CASE NoTools
  <2>1. /\ pc = "tools" /\ pc' = "handle"
        /\ UNCHANGED <<file, fail, asked, answered, replies, prompt>>
    BY <1>15 DEF NoTools, Goto, memory
  <2> QED
    BY <1>e, <1>n, <2>1, GoesOnKeeps
<1>16. CASE PersistResult
  <2>1. /\ pc = "persist" /\ pc' = "persist" /\ answered < asked
        /\ answered' = answered + 1
        /\ UNCHANGED <<fail, asked, replies, prompt>>
        /\ file' = Append(file, ResultEntry(<<replies, answered + 1>>))
    BY <1>16 DEF PersistResult, Goto, Record, Call
  <2>2. /\ <<replies, answered + 1>> \in CallsInHand
        /\ <<replies, answered + 1>> \in CallIds
        /\ CallsInHand' = CallsInHand
    BY <1>n, <2>1 DEF CallsInHand, Call, CallIds
  <2>3. AskedIn(file, CallsInHand) /\ UserMessageExists(file, prompt)
    BY <1>n, <2>1 DEF InHand, PromptKept
  <2>4. ResultsGrounded(file') /\ AskedIn(file', CallsInHand)
    BY <1>n, <2>1, <2>2, <2>3, AppendResult
  <2>5. ResultEntry(<<replies, answered + 1>>) \in Entries
    BY <2>2, EntryKinds
  <2>6. file' \in Seq(Entries) /\ UserMessageExists(file', prompt)
    BY <1>n, <2>1, <2>3, <2>5, Appended, AppendPrompt
  <2> QED
    BY <1>n, <2>1, <2>2, <2>4, <2>6 DEF FileOK, Phases, InHand, PromptKept,
                                        ResultsFollowUses
<1>17. CASE ResultsDone
  <2>1. /\ pc = "persist" /\ pc' = "handle"
        /\ UNCHANGED <<fail, asked, answered, replies, prompt>>
        /\ TryRecord(ReminderEntry) \/ UNCHANGED file
    BY <1>17 DEF ResultsDone, Remind, Goto
  <2> QED
    BY <1>e, <1>n, <2>1, GoesOnKeeps
<1>18. CASE Continue
  <2>1. /\ pc = "handle" /\ pc' = "top" /\ asked' = 0 /\ answered' = 0
        /\ UNCHANGED <<file, fail, replies, prompt>>
    BY <1>18 DEF Continue, Goto
  <2> QED
    BY <1>e, <1>n, <2>1, GoesOnKeeps
<1>19. CASE \/ SubmitFails \/ Halt \/ OverLimit \/ RespondFails \/ CallRefused
            \/ PersistFails \/ OutOfTokens \/ Crash
  <2>1. UNCHANGED file /\ Exit
    BY <1>19 DEF SubmitFails, Halt, OverLimit, RespondFails, CallRefused,
                 PersistFails, OutOfTokens, Crash
  <2> QED
    BY <1>n, <2>1, ExitKeeps
<1>20. CASE CallFails \/ Finish
  <2>1. /\ pc # "off" /\ Exit
        /\ \E n \in Nat : TryRecord(StateEntry("count", n))
    BY <1>n, <1>20 DEF CallFails, Finish
  <2>2. file' \in Seq(Entries) /\ ResultsGrounded(file')
    BY <1>e, <2>1, OtherEntry
  <2> QED
    BY <2>1, <2>2, ExitKeeps
<1>21. CASE Cancel
  <2>1. /\ UNCHANGED <<file, fail, asked, answered, replies, prompt, pc>>
    BY <1>21 DEF Cancel
  <2>2. CallsInHand' = CallsInHand
    BY <2>1 DEF CallsInHand, Call
  <2> QED
    BY <1>n, <2>1, <2>2 DEF FileOK, InHand, PromptKept, ResultsFollowUses
<1>22. CASE UNCHANGED vars
  <2>1. /\ UNCHANGED <<file, fail, asked, answered, replies, prompt, pc>>
    BY <1>22 DEF vars, memory
  <2>2. CallsInHand' = CallsInHand
    BY <2>1 DEF CallsInHand, Call
  <2> QED
    BY <1>n, <2>1, <2>2 DEF FileOK, InHand, PromptKept, ResultsFollowUses
<1> QED
  BY <1>1, <1>2, <1>3, <1>4, <1>5, <1>6, <1>7, <1>8, <1>9, <1>10, <1>11,
     <1>12, <1>13, <1>14, <1>15, <1>16, <1>17, <1>18, <1>19, <1>20, <1>21,
     <1>22 DEF Next, Progress

LEMMA InitHolds == Init => IInv
<1> SUFFICES ASSUME Init PROVE IInv
  OBVIOUS
<1>1. file = <<>> /\ <<>> \in Seq(Entries) /\ DOMAIN file = {}
  BY DEF Init
<1> QED
  BY <1>1 DEF Init, IInv, FileOK, Phases, InHand, PromptKept,
              ResultsFollowUses, ResultsGrounded

LEMMA Inductive == Spec => []IInv
<1>1. IInv /\ [Next]_vars => IInv'
  BY NextKeeps
<1> QED
  BY <1>1, InitHolds, PTL DEF Spec

-----------------------------------------------------------------------------
(* The count of the breaker: the memory of a process and its file.         *)

IsCount(e) == IsState(e) /\ e.about = "count"

\* The last count in f is n, or there is none and n is zero.
LastCountIs(f, n) ==
    \/ n = 0 /\ \A i \in DOMAIN f : ~IsCount(f[i])
    \/ \E k \in DOMAIN f : /\ IsCount(f[k]) /\ f[k].count = n
                           /\ \A j \in DOMAIN f : j > k => ~IsCount(f[j])
\* A state entry about something else stands after it.
CountIsOverlaid(f) ==
    \E k \in DOMAIN f : /\ IsState(f[k]) /\ f[k].about # "count"
                        /\ \A j \in DOMAIN f : j > k => ~IsState(f[j])
CountFits(f, n) == LastCountIs(f, n) \/ (n = 0 /\ CountIsOverlaid(f))

\* The count in an entry about something else is the zero value.
ZeroElsewhere(f) ==
    \A i \in DOMAIN f : IsState(f[i]) /\ f[i].about # "count" => f[i].count = 0

BreakerInv ==
    /\ ZeroElsewhere(file)
    /\ pc # "off" /\ ~May("io") => CountFits(file, fail)

\* An entry that is no state leaves the counts as they are.
LEMMA AppendPlain ==
    ASSUME NEW f \in Seq(Entries), NEW e \in Entries, ~IsState(e), ZeroElsewhere(f)
    PROVE  /\ ZeroElsewhere(Append(f, e))
           /\ \A n : CountFits(f, n) => CountFits(Append(f, e), n)
<1> DEFINE g == Append(f, e)
<1>1. /\ DOMAIN f = 1..Len(f) /\ Len(f) \in Nat /\ DOMAIN g = 1..(Len(f) + 1)
      /\ \A i \in 1..Len(f) : g[i] = f[i]
      /\ g[Len(f) + 1] = e
  BY Appended
<1> HIDE DEF g
<1>2. ZeroElsewhere(g)
  BY <1>1 DEF ZeroElsewhere
<1>3. ASSUME NEW n, CountFits(f, n) PROVE CountFits(g, n)
  <2>1. CASE n = 0 /\ \A i \in DOMAIN f : ~IsCount(f[i])
    BY <1>1, <2>1 DEF CountFits, LastCountIs, IsCount
  <2>2. ASSUME NEW k \in DOMAIN f, IsCount(f[k]), f[k].count = n,
               \A j \in DOMAIN f : j > k => ~IsCount(f[j])
        PROVE  CountFits(g, n)
    <3>1. k \in DOMAIN g /\ g[k] = f[k] /\ \A j \in DOMAIN g : j > k => ~IsCount(g[j])
      BY <1>1, <2>2 DEF IsCount
    <3> QED
      BY <2>2, <3>1 DEF CountFits, LastCountIs
  <2>3. ASSUME n = 0, NEW k \in DOMAIN f, IsState(f[k]), f[k].about # "count",
               \A j \in DOMAIN f : j > k => ~IsState(f[j])
        PROVE  CountFits(g, n)
    <3>1. k \in DOMAIN g /\ g[k] = f[k] /\ \A j \in DOMAIN g : j > k => ~IsState(g[j])
      BY <1>1, <2>3
    <3> QED
      BY <2>3, <3>1 DEF CountFits, CountIsOverlaid
  <2> QED
    BY <1>3, <2>1, <2>2, <2>3 DEF CountFits, LastCountIs, CountIsOverlaid
<1> QED
  BY <1>2, <1>3 DEF g

\* A state entry about something else hides the last count, no more.
LEMMA AppendOverlay ==
    ASSUME NEW f \in Seq(Entries), NEW about \in {"prompt", "tasks"}, ZeroElsewhere(f)
    PROVE  /\ ZeroElsewhere(Append(f, StateEntry(about, 0)))
           /\ \A n : CountFits(f, n) => CountFits(Append(f, StateEntry(about, 0)), n)
<1> DEFINE e == StateEntry(about, 0)
           g == Append(f, e)
<1>0. e \in Entries /\ IsState(e) /\ e.about # "count" /\ e.count = 0
  BY DEF StateEntry, Entries, IsState
<1>1. /\ DOMAIN f = 1..Len(f) /\ Len(f) \in Nat /\ DOMAIN g = 1..(Len(f) + 1)
      /\ \A i \in 1..Len(f) : g[i] = f[i]
      /\ g[Len(f) + 1] = e
  BY <1>0, Appended
<1> HIDE DEF g, e
<1>2. ZeroElsewhere(g)
  BY <1>0, <1>1 DEF ZeroElsewhere
<1>3. CountIsOverlaid(g)
  BY <1>0, <1>1 DEF CountIsOverlaid
<1>4. ASSUME NEW n, CountFits(f, n) PROVE CountFits(g, n)
  <2>1. CASE n = 0
    BY <1>3, <2>1 DEF CountFits
  <2>2. ASSUME NEW k \in DOMAIN f, IsCount(f[k]), f[k].count = n,
               \A j \in DOMAIN f : j > k => ~IsCount(f[j])
        PROVE  CountFits(g, n)
    <3>1. k \in DOMAIN g /\ g[k] = f[k] /\ \A j \in DOMAIN g : j > k => ~IsCount(g[j])
      BY <1>0, <1>1, <2>2 DEF IsCount
    <3> QED
      BY <2>2, <3>1 DEF CountFits, LastCountIs
  <2> QED
    BY <1>4, <2>1, <2>2 DEF CountFits, LastCountIs
<1> QED
  BY <1>2, <1>4 DEF g, e

LEMMA AppendCount ==
    ASSUME NEW f \in Seq(Entries), NEW n \in Nat, ZeroElsewhere(f)
    PROVE  /\ ZeroElsewhere(Append(f, StateEntry("count", n)))
           /\ CountFits(Append(f, StateEntry("count", n)), n)
<1> DEFINE e == StateEntry("count", n)
           g == Append(f, e)
<1>0. e \in Entries /\ IsState(e) /\ IsCount(e) /\ e.about = "count" /\ e.count = n
  BY DEF StateEntry, Entries, IsState, IsCount
<1>1. /\ DOMAIN f = 1..Len(f) /\ Len(f) \in Nat /\ DOMAIN g = 1..(Len(f) + 1)
      /\ \A i \in 1..Len(f) : g[i] = f[i]
      /\ g[Len(f) + 1] = e
  BY <1>0, Appended
<1> HIDE DEF g, e
<1>2. ZeroElsewhere(g)
  BY <1>0, <1>1 DEF ZeroElsewhere
<1>3. LastCountIs(g, n)
  BY <1>0, <1>1 DEF LastCountIs
<1> QED
  BY <1>2, <1>3 DEF CountFits, g, e

\* What a process starts from: the count of the last state entry.
LEMMA LoadedFits ==
    ASSUME NEW f \in Seq(Entries), ZeroElsewhere(f), NEW n \in LoadCompactFailCount(f)
    PROVE  CountFits(f, n)
<1>1. CASE \A i \in DOMAIN f : ~IsState(f[i])
  BY <1>1 DEF LoadCompactFailCount, CountFits, LastCountIs, IsCount
<1>2. CASE \E i \in DOMAIN f : IsState(f[i])
  <2>1. PICK k \in DOMAIN f : /\ IsState(f[k]) /\ n = f[k].count
                              /\ \A j \in DOMAIN f : j > k => ~IsState(f[j])
    BY <1>2 DEF LoadCompactFailCount, LastOf
  <2>2. CASE f[k].about = "count"
    BY <2>1, <2>2 DEF CountFits, LastCountIs, IsCount
  <2>3. CASE f[k].about # "count"
    BY <2>1, <2>3 DEF ZeroElsewhere, CountFits, CountIsOverlaid
  <2> QED
    BY <2>2, <2>3
<1> QED
  BY <1>1, <1>2

LEMMA ZeroBehindBoundary ==
    ASSUME NEW f \in Seq(Entries), ZeroElsewhere(f), NEW g \in PostBoundary(f)
    PROVE  ZeroElsewhere(g)
<1>1. CASE g = f
  BY <1>1
<1>2. CASE g # f
  <2>1. PICK c \in DOMAIN f : g = SubSeq(f, c, Len(f))
    BY <1>2 DEF PostBoundary, LastOf
  <2>2. /\ DOMAIN f = 1..Len(f) /\ Len(f) \in Nat /\ c \in 1..Len(f)
        /\ \A i \in c..Len(f) : f[i] \in Entries
    OBVIOUS
  <2>3. /\ DOMAIN g = 1..(Len(f) - c + 1)
        /\ \A i \in 1..(Len(f) - c + 1) : g[i] = f[c + i - 1] /\ c + i - 1 \in DOMAIN f
    BY <2>1, <2>2, SubSeqProperties
  <2> QED
    BY <2>3 DEF ZeroElsewhere
<1> QED
  BY <1>1, <1>2

\* A step that writes nothing, or an entry that is no count.
LEMMA PlainKeeps ==
    ASSUME IInv, BreakerInv, fail' = fail, pc # "off",
           \/ UNCHANGED file
           \/ \E e \in Entries : ~IsState(e) /\ Record(e)
           \/ \E about \in {"prompt", "tasks"} : Record(StateEntry(about, 0))
    PROVE  BreakerInv'
<1>0. file \in Seq(Entries) /\ ZeroElsewhere(file) /\ (~May("io") => CountFits(file, fail))
  BY DEF IInv, FileOK, BreakerInv
<1>1. CASE UNCHANGED file
  BY <1>0, <1>1 DEF BreakerInv, May
<1>2. ASSUME NEW e \in Entries, ~IsState(e), Record(e) PROVE BreakerInv'
  BY <1>0, <1>2, AppendPlain DEF BreakerInv, May, Record
<1>3. ASSUME NEW about \in {"prompt", "tasks"}, Record(StateEntry(about, 0))
      PROVE  BreakerInv'
  BY <1>0, <1>3, AppendOverlay DEF BreakerInv, May, Record
<1> QED
  BY <1>1, <1>2, <1>3

\* A process that ends takes its count with it.
LEMMA ExitFits ==
    ASSUME IInv, BreakerInv, Exit, UNCHANGED file \/ \E n \in Nat : Record(StateEntry("count", n))
    PROVE  BreakerInv'
<1>1. file \in Seq(Entries) /\ ZeroElsewhere(file) /\ pc' = "off"
  BY DEF IInv, FileOK, BreakerInv, Exit
<1> QED
  BY <1>1, AppendCount DEF BreakerInv, Record

LEMMA BreakerKeeps == ASSUME IInv, BreakerInv, [Next]_vars PROVE BreakerInv'
<1>1. /\ file \in Seq(Entries) /\ ZeroElsewhere(file) /\ fail \in Nat
      /\ asked \in Nat /\ answered \in Nat /\ replies \in Nat /\ pc \in Phases
      /\ (pc # "off" => prompt \in Prompts)
  BY DEF IInv, FileOK, BreakerInv
<1>2. /\ ReminderEntry \in Entries /\ ~IsState(ReminderEntry)
      /\ BoundaryEntry \in Entries /\ ~IsState(BoundaryEntry)
      /\ \A q \in Prompts : UserEntry(q) \in Entries /\ ~IsState(UserEntry(q))
      /\ \A S \in SUBSET CallIds : AssistantEntry(S) \in Entries /\ ~IsState(AssistantEntry(S))
      /\ \A id \in CallIds : ResultEntry(id) \in Entries /\ ~IsState(ResultEntry(id))
  BY EntryKinds, EntryTypes DEF IsState, ResultEntry
<1>3. ASSUME NEW p \in Prompts, Start(p) PROVE BreakerInv'
  <2>1. file = <<>> /\ file' = file /\ fail' = 0
    BY <1>3 DEF Start, Boot
  <2> QED
    BY <1>1, <2>1 DEF BreakerInv, CountFits, LastCountIs
<1>4. ASSUME NEW p \in Prompts, NEW forks \in BOOLEAN, Resume(p, forks) PROVE BreakerInv'
  <2>1. file' \in Seq(Entries) /\ ZeroElsewhere(file')
    BY <1>1, <1>4, CutAtBoundary, ZeroBehindBoundary DEF Resume, IInv, ResultsFollowUses
  <2>2. fail' \in LoadCompactFailCount(file')
    BY <1>4 DEF Resume, Boot
  <2> QED
    BY <2>1, <2>2, LoadedFits DEF BreakerInv
<1>5. CASE SubmitFails \/ Halt \/ OverLimit \/ RespondFails \/ CallRefused \/ CallFails
           \/ PersistFails \/ Finish \/ OutOfTokens \/ Crash
  <2>1. Exit
    BY <1>5 DEF SubmitFails, Halt, OverLimit, RespondFails, CallRefused, CallFails,
       PersistFails, Finish, OutOfTokens, Crash
  <2>2. UNCHANGED file \/ \E n \in Nat : Record(StateEntry("count", n))
    <3>1. fail + 1 \in Nat /\ 0 \in Nat
      BY <1>1
    <3> QED
      BY <1>5, <3>1 DEF SubmitFails, Halt, OverLimit, RespondFails, CallRefused, CallFails,
         PersistFails, Finish, OutOfTokens, Crash, TryRecord
  <2> QED
    BY <2>1, <2>2, ExitFits
<1>6. CASE CompactFails
  <2>1. fail' = fail + 1 /\ fail' \in Nat /\ TryRecord(StateEntry("count", fail'))
    BY <1>1, <1>6 DEF CompactFails
  <2>2. CASE Record(StateEntry("count", fail'))
    BY <1>1, <2>1, <2>2, AppendCount DEF BreakerInv, Record
  <2>3. CASE May("io") /\ UNCHANGED file
    BY <1>1, <2>3 DEF BreakerInv, May
  <2> QED
    BY <2>1, <2>2, <2>3 DEF TryRecord
<1>7. ASSUME Progress \/ Cancel \/ UNCHANGED vars,
             ~(SubmitFails \/ Halt \/ OverLimit \/ RespondFails \/ CallRefused \/ CallFails
               \/ PersistFails \/ Finish \/ OutOfTokens \/ CompactFails)
      PROVE  BreakerInv'
  <2>1. CASE UNCHANGED vars
    BY <2>1 DEF vars, memory, BreakerInv, May
  <2>2. CASE ~UNCHANGED vars
    <3>1. fail' = fail /\ pc # "off"
      BY <1>7, <2>2 DEF Progress, Cancel, Submit, Changes, Freeze, TakeTurn, SkipCompaction,
         Compact, ReinjectSkills, Respond, RespondEmpty, TakeReply, MediaRetry, RunTools,
         NoTools, PersistResult, ResultsDone, Continue, memory
    <3>2. \/ UNCHANGED file
          \/ \E e \in Entries : ~IsState(e) /\ Record(e)
          \/ \E about \in {"prompt", "tasks"} : Record(StateEntry(about, 0))
      <4>1. CASE Submit
        BY <1>1, <1>2, <4>1 DEF Submit
      <4>2. CASE Changes \/ Freeze \/ Compact \/ ReinjectSkills \/ ResultsDone \/ RunTools
        BY <1>2, <4>2 DEF Changes, Freeze, Compact, ReinjectSkills, ResultsDone, RunTools,
           Remind, TryRecord
      <4>3. ASSUME NEW n \in 0..MaxUses, NEW reason \in StopReasons, Respond(n, reason)
            PROVE  \E e \in Entries : ~IsState(e) /\ Record(e)
        <5>1. {<<replies + 1, k>> : k \in 1..n} \in SUBSET CallIds
          BY <1>1 DEF CallIds
        <5> QED
          BY <1>2, <4>3, <5>1 DEF Respond
      <4>4. CASE PersistResult
        <5>1. Call(answered') \in CallIds /\ Record(ResultEntry(Call(answered')))
          BY <1>1, <4>4 DEF PersistResult, Call, CallIds
        <5> QED
          BY <1>2, <5>1
      <4> QED
        BY <1>7, <2>2, <4>1, <4>2, <4>3, <4>4 DEF Progress, Cancel, TakeTurn, SkipCompaction,
           RespondEmpty, MediaRetry, NoTools, Continue
    <3> QED
      BY <3>1, <3>2, PlainKeeps
  <2> QED
    BY <2>1, <2>2
<1> QED
  BY <1>3, <1>4, <1>5, <1>6, <1>7 DEF Next, Progress

LEMMA BreakerInvariant == Spec => []BreakerInv
<1>1. Init => BreakerInv
  BY DEF Init, BreakerInv, ZeroElsewhere
<1>2. IInv /\ BreakerInv /\ [Next]_vars => BreakerInv'
  BY BreakerKeeps
<1> QED
  BY <1>1, <1>2, Inductive, PTL DEF Spec

-----------------------------------------------------------------------------
(* Sequences that are joined, and induction over their length.              *)

\* Induction over the naturals, for sets.
LEMMA SetInduction ==
    ASSUME NEW S, 0 \in S, \A n \in Nat : n \in S => n + 1 \in S
    PROVE  Nat \subseteq S
<1> SUFFICES ASSUME Nat \ S # {} PROVE FALSE
  OBVIOUS
<1>1. PICK n \in Nat \ S : \A k \in Nat \ S : ~ (<<k, n>> \in OpToRel(<, Nat))
  BY NatLessThanWellFounded, WFMin, Zenon
<1>2. \A k \in Nat \ S : n <= k
  <2>1. TAKE k \in Nat \ S
  <2>2. ~ (<<k, n>> \in {p \in Nat \X Nat : p[1] < p[2]})
    BY <1>1 DEF OpToRel
  <2> QED
    BY <2>2
<1>3. n # 0 /\ n - 1 \in Nat /\ n - 1 + 1 = n
  OBVIOUS
<1>4. n - 1 \in S
  BY <1>2, <1>3
<1> QED
  BY <1>3, <1>4

\* What FlattenSeq is made of.
Joins(q, f) ==
  /\ DOMAIN f = 1..Len(q)
  /\ \A i \in 1..Len(q) : f[i] = IF i = 1 THEN q[i] ELSE f[i-1] \o q[i]

\* The running concatenation of a sequence of sequences exists...
LEMMA JoinExists ==
   ASSUME NEW T, NEW q \in Seq(Seq(T)), q # <<>>
   PROVE \E f : f = [i \in 1..Len(q) |-> IF i = 1 THEN q[i] ELSE f[i-1] \o q[i]]
<1> DEFINE P(m) == \E f : f = [i \in 1..m |-> IF i = 1 THEN q[i] ELSE f[i-1] \o q[i]]
           S == {m \in Nat : P(m)}
<1>1. 0 \in S
  <2>1. \A i \in 1..0 : FALSE
    OBVIOUS
  <2>2. << >> = [i \in 1..0 |-> IF i = 1 THEN q[i] ELSE << >>[i-1] \o q[i]]
    BY <2>1
  <2> QED BY <2>2
<1>2. ASSUME NEW n \in Nat, n \in S PROVE n + 1 \in S
  <2>1. PICK f : f = [i \in 1..n |-> IF i = 1 THEN q[i] ELSE f[i-1] \o q[i]]
    BY <1>2
  <2> DEFINE x == IF n + 1 = 1 THEN q[n+1] ELSE f[n] \o q[n+1]
             g == [i \in 1..(n+1) |-> IF i = n + 1 THEN x ELSE f[i]]
  <2>2. \A i \in 1..(n+1) : g[i] = IF i = 1 THEN q[i] ELSE g[i-1] \o q[i]
    <3> TAKE i \in 1..(n+1)
    <3> HIDE DEF x
    <3>1. CASE i = n + 1
      <4>1. g[i] = x
        BY <3>1
      <4>2. i # 1 => i - 1 = n /\ i - 1 \in 1..(n+1) /\ i - 1 # n + 1
        BY <3>1
      <4>3. i # 1 => g[i-1] = f[n]
        BY <4>2
      <4> QED BY <4>1, <4>3, <3>1 DEF x
    <3>2. CASE i # n + 1
      <4>1. i \in 1..n /\ (i # 1 => i - 1 \in 1..n /\ i - 1 # n + 1)
        BY <3>2
      <4>2. g[i] = f[i] /\ (i # 1 => g[i-1] = f[i-1])
        BY <3>2, <4>1
      <4>3. f[i] = IF i = 1 THEN q[i] ELSE f[i-1] \o q[i]
        BY <2>1, <4>1
      <4> QED BY <4>2, <4>3
    <3> QED BY <3>1, <3>2
  <2>3. g = [i \in 1..(n+1) |-> IF i = 1 THEN q[i] ELSE g[i-1] \o q[i]]
    <3>1. g = [i \in 1..(n+1) |-> g[i]]
      OBVIOUS
    <3> HIDE DEF g
    <3> QED BY <2>2, <3>1
  <2> HIDE DEF g
  <2>4. \E f_1 : f_1 = [i \in 1..(n+1) |-> IF i = 1 THEN q[i] ELSE f_1[i-1] \o q[i]]
    BY <2>3
  <2>5. n + 1 \in Nat
    OBVIOUS
  <2> QED BY <2>4, <2>5, Zenon
<1>3. Nat \subseteq S
  <2> HIDE DEF S
  <2> QED BY <1>1, <1>2, SetInduction
<1>4. Len(q) \in S
  <2> HIDE DEF S
  <2> QED BY <1>3, LenProperties
<1> QED BY <1>4

\* ...and FlattenSeq is the last of it.
LEMMA FlattenIs ==
   ASSUME NEW T, NEW q \in Seq(Seq(T)), q # <<>>
   PROVE \E f : Joins(q, f) /\ FlattenSeq(q) = f[Len(q)]
<1> DEFINE G == CHOOSE f : f = [i \in 1..Len(q) |-> IF i = 1 THEN q[i] ELSE f[i-1] \o q[i]]
<1>1. G = [i \in 1..Len(q) |-> IF i = 1 THEN q[i] ELSE G[i-1] \o q[i]]
  BY JoinExists
<1>2. FlattenSeq(q) = G[Len(q)]
  BY  DEF FlattenSeq
<1> HIDE DEF G
<1>3. Joins(q, G)
  <2>1. DOMAIN G = 1..Len(q)
    BY <1>1
  <2>2. \A i \in 1..Len(q) : G[i] = IF i = 1 THEN q[i] ELSE G[i-1] \o q[i]
    BY <1>1
  <2> QED BY <2>1, <2>2 DEF Joins
<1> QED BY <1>2, <1>3

\* A sequence is empty, or a shorter one with its last element.
LEMMA Shorter ==
  ASSUME NEW T, NEW q \in Seq(T), NEW n \in Nat, Len(q) = n + 1
  PROVE  \E p \in Seq(T), x \in T : q = Append(p, x) /\ Len(p) = n
<1> DEFINE p == [i \in 1..n |-> q[i]]
<1>0. DOMAIN q = 1..(n+1) /\ \A i \in 1..(n+1) : q[i] \in T
  BY LenProperties, ElementOfSeq
<1>1. p \in Seq(T) /\ Len(p) = n /\ q[n+1] \in T
  BY <1>0
<1>2. Append(p, q[n+1]) = q
  <2>1. Append(p, q[n+1]) \in Seq(T) /\ Len(Append(p, q[n+1])) = n + 1
    BY <1>1, AppendProperties
  <2>2. \A i \in 1..(n+1) : Append(p, q[n+1])[i] = q[i]
    BY <1>1, AppendProperties
  <2> HIDE DEF p
  <2> QED BY <2>1, <2>2, SeqEqual
<1> QED BY <1>1, <1>2

\* Of no parts comes nothing.
LEMMA FlattenEmpty == \A q : Len(q) = 0 => FlattenSeq(q) = q
  BY DEF FlattenSeq

\* It depends on no more than the parts it has joined.
LEMMA JoinsAgree ==
  ASSUME NEW T, NEW q \in Seq(Seq(T)), NEW p \in Seq(Seq(T)), Len(q) <= Len(p),
     \A i \in 1..Len(q) : p[i] = q[i],
     NEW f, NEW g, Joins(q, f), Joins(p, g)
  PROVE  \A i \in 1..Len(q) : f[i] = g[i] /\ f[i] \in Seq(T)
<1> DEFINE S == {m \in Nat : m \in 1..Len(q) => f[m] = g[m] /\ f[m] \in Seq(T)}
<1>0. Len(q) \in Nat /\ Len(p) \in Nat /\ \A i \in 1..Len(q) : q[i] \in Seq(T) /\ i \in 1..Len(p)
  BY LenProperties, ElementOfSeq
<1>1. 0 \in S
  OBVIOUS
<1>2. ASSUME NEW n \in Nat, n \in S PROVE n + 1 \in S
  <2> SUFFICES ASSUME n + 1 \in 1..Len(q) PROVE f[n+1] = g[n+1] /\ f[n+1] \in Seq(T)
    OBVIOUS
  <2>0. PICK m \in 1..Len(q) : m = n + 1
    OBVIOUS
  <2>1. /\ f[m] = IF m = 1 THEN q[m] ELSE f[m-1] \o q[m]
        /\ g[m] = IF m = 1 THEN p[m] ELSE g[m-1] \o p[m]
        /\ p[m] = q[m] /\ q[m] \in Seq(T)
    BY <1>0 DEF Joins
  <2>2. CASE n = 0
    BY <2>0, <2>1, <2>2
  <2>3. CASE n # 0
    <3>1. n \in 1..Len(q) /\ m - 1 = n /\ m # 1
      BY <1>0, <2>0, <2>3
    <3>0. n \in 1..Len(q) => f[n] = g[n] /\ f[n] \in Seq(T)
      BY <1>2
    <3>2. f[n] = g[n] /\ f[n] \in Seq(T)
      BY <3>0, <3>1
    <3>3. f[m] = f[n] \o q[m] /\ g[m] = g[n] \o q[m]
      BY <2>1, <3>1
    <3>4. f[n] \o q[m] \in Seq(T)
      BY <2>1, <3>2
    <3> QED BY <2>0, <3>2, <3>3, <3>4
  <2> QED BY <2>2, <2>3
<1>3. Nat \subseteq S
  <2> HIDE DEF S
  <2> QED BY <1>1, <1>2, SetInduction
<1> QED BY <1>0, <1>3

\* A part more is joined at the end.
LEMMA FlattenAppend ==
  ASSUME NEW T, NEW q \in Seq(Seq(T)), NEW x \in Seq(T)
  PROVE  /\ FlattenSeq(q) \in Seq(T)
         /\ FlattenSeq(Append(q, x)) = FlattenSeq(q) \o x
<1> DEFINE p == Append(q, x)
<1>0. /\ p \in Seq(Seq(T)) /\ Len(p) = Len(q) + 1 /\ Len(q) \in Nat /\ p # <<>>
      /\ \A i \in 1..Len(q) : p[i] = q[i]
      /\ p[Len(q) + 1] = x
  BY AppendProperties, LenProperties, EmptySeq
<1> HIDE DEF p
<1>1. PICK g : Joins(p, g) /\ FlattenSeq(p) = g[Len(q) + 1]
  BY <1>0, FlattenIs
<1>2. CASE q = <<>>
  <2>1. Len(q) = 0 /\ FlattenSeq(q) = <<>>
    BY <1>2, FlattenEmpty, EmptySeq
  <2>2. g[1] = x
    BY <1>0, <1>1, <2>1 DEF Joins
  <2>3. <<>> \in Seq(T) /\ <<>> \o x = x
    OBVIOUS
  <2> QED BY <1>1, <2>1, <2>2, <2>3 DEF p
<1>3. CASE q # <<>>
  <2>1. PICK f : Joins(q, f) /\ FlattenSeq(q) = f[Len(q)]
    BY <1>3, FlattenIs
  <2>2. Len(q) \in 1..Len(q) /\ Len(q) + 1 \in 1..Len(p) /\ Len(q) + 1 # 1
        /\ Len(q) + 1 - 1 = Len(q)
    BY <1>0, <1>3, EmptySeq
  <2>a. Len(q) <= Len(p)
    BY <1>0
  <2>b. \A i \in 1..Len(q) : f[i] = g[i] /\ f[i] \in Seq(T)
    BY <1>0, <1>1, <2>1, <2>a, JoinsAgree
  <2>3. f[Len(q)] = g[Len(q)] /\ f[Len(q)] \in Seq(T)
    BY <2>2, <2>b
  <2>4. g[Len(q) + 1] = g[Len(q)] \o x
    <3>1. PICK m \in 1..Len(p) : m = Len(q) + 1
      BY <2>2
    <3>2. g[m] = IF m = 1 THEN p[m] ELSE g[m-1] \o p[m]
      BY <1>1 DEF Joins
    <3> QED BY <1>0, <2>2, <3>1, <3>2
  <2> QED BY <1>1, <2>1, <2>3, <2>4 DEF p
<1> QED BY <1>2, <1>3

\* A sequence of at most one element.
LEMMA OneOrNone ==
  ASSUME NEW T, NEW x \in Seq(T), Len(x) <= 1
  PROVE  x = <<>> \/ (Len(x) = 1 /\ x # <<>>)
<1>1. Len(x) \in Nat /\ (x # <<>> => Len(x) # 0)
  BY LenProperties, EmptySeq
<1> DEFINE l == Len(x)
<1>2. l <= 1 /\ l \in Nat
  BY <1>1, Zenon
<1> HIDE DEF l
<1>3. l = 0 \/ l = 1
  BY <1>2
<1> QED BY <1>1, <1>3, Zenon DEF l

\* Where the elements of a sequence come from when every part has one or none.
Picks(q, r, h) ==
  /\ h \in [1..Len(r) -> 1..Len(q)]
  /\ \A j \in 1..Len(r) : q[h[j]] # <<>> /\ r[j] = q[h[j]][1]
  /\ \A j, k \in 1..Len(r) : j < k => h[j] < h[k]
  /\ \A i \in 1..Len(q) : q[i] # <<>> => \E j \in 1..Len(r) : h[j] = i

\* Then the flattened sequence picks those parts that have an element.
LEMMA FlattenPicks ==
  ASSUME NEW T, NEW q \in Seq(Seq(T)), \A i \in 1..Len(q) : Len(q[i]) <= 1
  PROVE  FlattenSeq(q) \in Seq(T) /\ \E h : Picks(q, FlattenSeq(q), h)
<1> DEFINE Fine(p) == (\A i \in 1..Len(p) : Len(p[i]) <= 1) => \E h : Picks(p, FlattenSeq(p), h)
           S == {n \in Nat : \A p \in Seq(Seq(T)) : Len(p) = n => Fine(p)}
<1>1. 0 \in S
  <2> SUFFICES ASSUME NEW p \in Seq(Seq(T)), Len(p) = 0 PROVE \E h : Picks(p, FlattenSeq(p), h)
    OBVIOUS
  <2>1. FlattenSeq(p) = p
    BY FlattenEmpty
  <2>2. <<>> \in [1..0 -> 1..0]
    OBVIOUS
  <2>3. Picks(p, p, <<>>)
    BY <2>2 DEF Picks
  <2> QED BY <2>1, <2>3
<1>2. ASSUME NEW n \in Nat, n \in S PROVE n + 1 \in S
  <2> SUFFICES ASSUME NEW p \in Seq(Seq(T)), Len(p) = n + 1, \A i \in 1..Len(p) : Len(p[i]) <= 1
               PROVE \E h : Picks(p, FlattenSeq(p), h)
    OBVIOUS
  <2>1. PICK a \in Seq(Seq(T)), x \in Seq(T) : p = Append(a, x) /\ Len(a) = n
    <3>1. Len(p) = n + 1
      OBVIOUS
    <3> QED BY <3>1, Shorter
  <2>2. DOMAIN p = 1..(n+1) /\ p[n+1] = x /\ \A i \in 1..n : p[i] = a[i] /\ i \in 1..(n+1)
    BY <2>1, AppendProperties
  <2>3. PICK h : Picks(a, FlattenSeq(a), h)
    BY <1>2, <2>1, <2>2
  <2> DEFINE r == FlattenSeq(a)
  <2>4. r \in Seq(T) /\ FlattenSeq(p) = r \o x /\ Len(r) \in Nat
    BY <2>1, FlattenAppend, LenProperties
  <2>5. x \in Seq(T) /\ (x = <<>> \/ (Len(x) = 1 /\ x # <<>>))
    <3>0. n + 1 \in 1..Len(p)
      OBVIOUS
    <3>a. Len(p[n + 1]) <= 1
      BY <3>0
    <3>b. p[n + 1] = x
      BY <2>2
    <3>c. Len(x) <= 1
      BY <3>a, <3>b, Zenon
    <3>d. x \in Seq(T)
      BY <2>1
    <3> QED BY <3>c, <3>d, OneOrNone, Zenon
  <2>6. Picks(a, r, h)
    BY <2>3
  <2> HIDE DEF r
  <2>7. CASE x = <<>>
    <3>1. r \o x = r
      BY <2>4, <2>7
    <3>3. /\ h \in [1..Len(r) -> 1..n]
          /\ \A j \in 1..Len(r) : a[h[j]] # <<>> /\ r[j] = a[h[j]][1]
          /\ \A j, k \in 1..Len(r) : j < k => h[j] < h[k]
          /\ \A i \in 1..n : a[i] # <<>> => \E j \in 1..Len(r) : h[j] = i
      BY <2>1, <2>6 DEF Picks
    <3>4. h \in [1..Len(r) -> 1..Len(p)]
      BY <2>2, <3>3
    <3>5. \A j \in 1..Len(r) : p[h[j]] # <<>> /\ r[j] = p[h[j]][1]
      BY <2>2, <3>3
    <3>6. \A i \in 1..Len(p) : p[i] # <<>> => \E j \in 1..Len(r) : h[j] = i
      <4> TAKE i \in 1..Len(p)
      <4> HAVE p[i] # <<>>
      <4>1. i # n + 1
        BY <2>2, <2>7
      <4>2. i \in 1..n
        BY <4>1
      <4> QED BY <2>2, <3>3, <4>2
    <3>2. Picks(p, r, h)
      BY <3>3, <3>4, <3>5, <3>6 DEF Picks
    <3> QED BY <2>4, <3>1, <3>2
  <2>8. CASE Len(x) = 1 /\ x # <<>>
    <3> DEFINE s == r \o x
               g == [j \in 1..(Len(r) + 1) |-> IF j = Len(r) + 1 THEN n + 1 ELSE h[j]]
    <3>1. /\ Len(s) = Len(r) + 1 /\ s[Len(r) + 1] = x[1]
          /\ \A j \in 1..Len(r) : s[j] = r[j]
      <4>1. /\ Len(s) = Len(r) + Len(x)
            /\ \A i \in 1..Len(s) : s[i] = IF i <= Len(r) THEN r[i] ELSE x[i - Len(r)]
        BY <2>4, <2>5, ConcatProperties
      <4> HIDE DEF s
      <4>2. Len(r) + 1 \in 1..Len(s) /\ Len(s) = Len(r) + 1 /\ Len(r) + 1 - Len(r) = 1
            /\ ~(Len(r) + 1 <= Len(r))
        BY <2>4, <2>8, <4>1
      <4>3. \A j \in 1..Len(r) : j \in 1..Len(s) /\ j <= Len(r)
        BY <2>4, <4>2
      <4>4. s[Len(r) + 1] = x[1]
        BY <4>1, <4>2
      <4> QED BY <4>1, <4>2, <4>3, <4>4
    <3>2. /\ \A j \in 1..Len(r) : g[j] = h[j] /\ h[j] \in 1..n /\ j \in 1..(Len(r) + 1)
          /\ g[Len(r) + 1] = n + 1 /\ DOMAIN g = 1..(Len(r) + 1)
      BY <2>1, <2>4, <2>6 DEF Picks
    <3>3. g \in [1..(Len(r) + 1) -> 1..(n + 1)]
      BY <2>1, <2>4, <2>6 DEF Picks
    <3> HIDE DEF s, g
    <3>a. /\ \A j \in 1..Len(r) : a[h[j]] # <<>> /\ r[j] = a[h[j]][1]
          /\ \A j, k \in 1..Len(r) : j < k => h[j] < h[k]
      BY <2>6 DEF Picks
    <3>b. \A j \in 1..Len(s) : j = Len(r) + 1 \/ j \in 1..Len(r)
      BY <2>4, <3>1
    <3>4. \A j \in 1..Len(s) : p[g[j]] # <<>> /\ s[j] = p[g[j]][1]
      <4> TAKE j \in 1..Len(s)
      <4>1. CASE j = Len(r) + 1
        BY <2>2, <2>8, <3>1, <3>2, <4>1
      <4>2. CASE j \in 1..Len(r)
        <5>1. g[j] = h[j] /\ h[j] \in 1..n /\ s[j] = r[j]
          BY <3>1, <3>2, <4>2
        <5>2. p[h[j]] = a[h[j]]
          BY <2>2, <5>1
        <5>3. a[h[j]] # <<>> /\ r[j] = a[h[j]][1]
          BY <3>a, <4>2
        <5> QED BY <5>1, <5>2, <5>3
      <4> QED BY <3>b, <4>1, <4>2
    <3>5. \A j, k \in 1..Len(s) : j < k => g[j] < g[k]
      <4> TAKE j, k \in 1..Len(s)
      <4> HAVE j < k
      <4>1. j \in 1..Len(r)
        BY <2>4, <3>1, <3>b
      <4>2. CASE k = Len(r) + 1
        <5>1. h[j] \in 1..n /\ g[j] = h[j] /\ g[k] = n + 1
          BY <3>2, <4>1, <4>2
        <5> QED BY <5>1
      <4>3. CASE k \in 1..Len(r)
        BY <3>2, <3>a, <4>1, <4>3
      <4> QED BY <3>b, <4>2, <4>3
    <3>6. \A i \in 1..Len(p) : p[i] # <<>> => \E j \in 1..Len(s) : g[j] = i
      <4> TAKE i \in 1..Len(p)
      <4> HAVE p[i] # <<>>
      <4>1. CASE i = n + 1
        <5>1. Len(r) + 1 \in 1..Len(s)
          BY <2>4, <3>1
        <5> QED BY <3>2, <4>1, <5>1
      <4>2. CASE i # n + 1
        <5>1. i \in 1..n /\ a[i] # <<>>
          BY <2>2, <4>2
        <5>2. PICK j \in 1..Len(r) : h[j] = i
          BY <2>1, <2>6, <5>1 DEF Picks
        <5> QED BY <3>1, <3>2, <5>2
      <4> QED BY <4>1, <4>2
    <3>7. Picks(p, s, g)
      BY <3>1, <3>3, <3>4, <3>5, <3>6 DEF Picks
    <3> QED BY <2>4, <3>7 DEF s
  <2> QED BY <2>5, <2>7, <2>8
<1>3. Nat \subseteq S
  <2> HIDE DEF S
  <2> QED BY <1>1, <1>2, SetInduction
<1>4. FlattenSeq(q) \in Seq(T)
  BY FlattenAppend, EmptySeq
<1>5. Len(q) \in S
  <2> HIDE DEF S
  <2> QED BY <1>3, LenProperties
<1> QED BY <1>4, <1>5

-----------------------------------------------------------------------------
(* What messages and entries come to.                                      *)

Labels == Prompts \cup {Summary, Reminder, TaskNote, Placeholder}
Messages == [role : {"user", "assistant", "system"}, says : SUBSET Labels,
             uses : SUBSET CallIds, results : SUBSET CallIds]

MessagesOf(e) == IF e.type \in MessageTypes THEN <<MessageOf(e)>> ELSE <<>>
ReplyOf(m) == IF IsAssistant(m) THEN <<m.uses>> ELSE <<>>

\* What is made of a sequence part by part grows with it.
LEMMA PartsAppend ==
    ASSUME NEW T, NEW n \in Nat, NEW q \in [1..n -> Seq(T)],
           NEW p \in [1..(n + 1) -> Seq(T)], \A i \in 1..n : p[i] = q[i]
    PROVE  FlattenSeq(q) \in Seq(T) /\ FlattenSeq(p) = FlattenSeq(q) \o p[n + 1]
<1>1. q \in Seq(Seq(T)) /\ Len(q) = n /\ p[n + 1] \in Seq(T)
  OBVIOUS
<1>2. p = Append(q, p[n + 1])
  <2>1. p \in Seq(Seq(T)) /\ Len(p) = n + 1
    OBVIOUS
  <2>2. /\ Append(q, p[n + 1]) \in Seq(Seq(T)) /\ Len(Append(q, p[n + 1])) = n + 1
        /\ \A i \in 1..n : Append(q, p[n + 1])[i] = q[i]
        /\ Append(q, p[n + 1])[n + 1] = p[n + 1]
    BY <1>1, AppendProperties
  <2>3. ASSUME NEW i \in 1..(n + 1) PROVE p[i] = Append(q, p[n + 1])[i]
    <3>1. i = n + 1 \/ i \in 1..n
      OBVIOUS
    <3> QED
      BY <2>2, <3>1
  <2> QED
    BY <2>1, <2>2, <2>3, SeqEqual
<1> QED
  BY <1>1, <1>2, FlattenAppend

\* An entry comes to a message or to none.
LEMMA MessageTyped ==
    ASSUME NEW e \in Entries
    PROVE  /\ MessagesOf(e) \in Seq(Messages)
           /\ Len(MessagesOf(e)) \in {0, 1}
           /\ e.type = "state" => MessagesOf(e) = <<>>
           /\ e.type # "state" => MessagesOf(e) = <<MessageOf(e)>> /\ MessageOf(e) \in Messages
<1>1. CASE e.type = "state"
  BY <1>1 DEF MessagesOf, MessageTypes, ChainTypes
<1>2. ASSUME e.type # "state", MessageOf(e) \in Messages
      PROVE  /\ MessagesOf(e) = <<MessageOf(e)>> /\ MessageOf(e) \in Messages
             /\ MessagesOf(e) \in Seq(Messages) /\ Len(MessagesOf(e)) = 1
  <2>1. e.type \in MessageTypes
    BY <1>2 DEF Entries, MessageTypes, ChainTypes
  <2>2. MessagesOf(e) = <<MessageOf(e)>>
    BY <2>1 DEF MessagesOf
  <2> HIDE DEF Messages
  <2> QED
    BY <1>2, <2>2
<1>3. CASE e.type = "user"
  <2>1. e.prompt \in Prompts
    BY <1>3 DEF Entries
  <2>2. MessageOf(e) \in Messages
    BY <1>3, <2>1 DEF MessageOf, Text, Messages, Labels
  <2>3. e.type # "state"
    BY <1>3
  <2> QED
    BY <1>2, <2>2, <2>3
<1>4. CASE e.type = "assistant"
  <2>1. e.uses \in SUBSET CallIds
    BY <1>4 DEF Entries
  <2>2. MessageOf(e) \in Messages
    BY <1>4, <2>1 DEF MessageOf, Assistant, Messages, Labels
  <2>3. e.type # "state"
    BY <1>4
  <2> QED
    BY <1>2, <2>2, <2>3
<1>5. CASE e.type = "tool_result"
  <2>1. e.id \in CallIds
    BY <1>5 DEF Entries
  <2>2. MessageOf(e) \in Messages
    BY <1>5, <2>1 DEF MessageOf, Answer, Messages, Labels
  <2>3. e.type # "state"
    BY <1>5
  <2> QED
    BY <1>2, <2>2, <2>3
<1>6. CASE e.type \in {"compact_boundary", "system_reminder"}
  <2>1. MessageOf(e) \in Messages
    BY <1>6 DEF MessageOf, Text, Messages, Labels
  <2>2. e.type # "state"
    BY <1>6
  <2> QED
    BY <1>2, <2>1, <2>2
<1> QED
  BY <1>1, <1>3, <1>4, <1>5, <1>6 DEF Entries

\* What is rebuilt of a transcript grows by the message of an entry...
LEMMA RebuildAppend ==
    ASSUME NEW f \in Seq(Entries), NEW e \in Entries
    PROVE  /\ RebuildMessages(f) \in Seq(Messages)
           /\ RebuildMessages(Append(f, e)) = RebuildMessages(f) \o MessagesOf(e)
<1> DEFINE g == Append(f, e)
           q == [i \in DOMAIN f |-> MessagesOf(f[i])]
           p == [i \in DOMAIN g |-> MessagesOf(g[i])]
<1>1. /\ g \in Seq(Entries) /\ DOMAIN f = 1..Len(f) /\ Len(f) \in Nat
      /\ DOMAIN g = 1..(Len(f) + 1) /\ g[Len(f) + 1] = e
      /\ \A i \in 1..Len(f) : g[i] = f[i] /\ f[i] \in Entries
  BY Appended, ElementOfSeq
<1>2. /\ \A i \in 1..Len(f) : q[i] \in Seq(Messages) /\ p[i] = q[i]
      /\ p[Len(f) + 1] = MessagesOf(e) /\ p[Len(f) + 1] \in Seq(Messages)
  <2>1. Len(f) + 1 \in DOMAIN g /\ \A i \in 1..Len(f) : i \in DOMAIN g
    BY <1>1
  <2> HIDE DEF g
  <2> QED
    BY <1>1, <2>1, MessageTyped
<1>3. /\ RebuildMessages(f) = FlattenSeq(q)
      /\ RebuildMessages(g) = FlattenSeq(p)
  BY DEF RebuildMessages, Emit, MessagesOf
<1> HIDE DEF g
<1>4. q \in [1..Len(f) -> Seq(Messages)] /\ p \in [1..(Len(f) + 1) -> Seq(Messages)]
  <2>1. \A i \in 1..(Len(f) + 1) : i = Len(f) + 1 \/ i \in 1..Len(f)
    BY <1>1
  <2> QED
    BY <1>1, <1>2, <2>1
<1> HIDE DEF q, p
<1>5. FlattenSeq(q) \in Seq(Messages) /\ FlattenSeq(p) = FlattenSeq(q) \o p[Len(f) + 1]
  BY <1>1, <1>2, <1>4, PartsAppend
<1> QED
  BY <1>2, <1>3, <1>5 DEF g

\* ...and the replies of a chain grow by that of a message.
LEMMA RepliesAppend ==
    ASSUME NEW c \in Seq(Messages), NEW m \in Messages
    PROVE  /\ Replies(c) \in Seq(SUBSET CallIds)
           /\ Replies(Append(c, m)) = Replies(c) \o ReplyOf(m)
<1> DEFINE g == Append(c, m)
           q == [i \in DOMAIN c |-> ReplyOf(c[i])]
           p == [i \in DOMAIN g |-> ReplyOf(g[i])]
<1>1. /\ DOMAIN c = 1..Len(c) /\ Len(c) \in Nat
      /\ DOMAIN g = 1..(Len(c) + 1) /\ g[Len(c) + 1] = m
      /\ \A i \in 1..Len(c) : g[i] = c[i] /\ c[i] \in Messages
  BY AppendProperties, LenProperties, ElementOfSeq
<1>2. /\ \A i \in 1..Len(c) : q[i] \in Seq(SUBSET CallIds) /\ p[i] = q[i]
      /\ p[Len(c) + 1] = ReplyOf(m) /\ p[Len(c) + 1] \in Seq(SUBSET CallIds)
  <2>1. Len(c) + 1 \in DOMAIN g /\ \A i \in 1..Len(c) : i \in DOMAIN g
    BY <1>1
  <2>2. \A n \in Messages : ReplyOf(n) \in Seq(SUBSET CallIds)
    <3> TAKE n \in Messages
    <3>1. n.uses \in SUBSET CallIds
      BY DEF Messages
    <3>2. <<n.uses>> \in Seq(SUBSET CallIds) /\ <<>> \in Seq(SUBSET CallIds)
      BY <3>1
    <3> QED
      BY <3>2 DEF ReplyOf
  <2> HIDE DEF g
  <2> QED
    BY <1>1, <2>1, <2>2
<1>3. /\ Replies(c) = FlattenSeq(q)
      /\ Replies(g) = FlattenSeq(p)
  BY DEF Replies, Emit, ReplyOf
<1> HIDE DEF g
<1>4. /\ q \in [1..Len(c) -> Seq(SUBSET CallIds)]
      /\ p \in [1..(Len(c) + 1) -> Seq(SUBSET CallIds)]
  <2>1. \A i \in 1..(Len(c) + 1) : i = Len(c) + 1 \/ i \in 1..Len(c)
    BY <1>1
  <2> QED
    BY <1>1, <1>2, <2>1
<1> HIDE DEF q, p
<1>5. FlattenSeq(q) \in Seq(SUBSET CallIds) /\ FlattenSeq(p) = FlattenSeq(q) \o p[Len(c) + 1]
  <2> DEFINE T == SUBSET CallIds
  <2>1. q \in [1..Len(c) -> Seq(T)] /\ p \in [1..(Len(c) + 1) -> Seq(T)]
    BY <1>4
  <2>2. \A i \in 1..Len(c) : p[i] = q[i]
    BY <1>2
  <2> HIDE DEF T
  <2>3. FlattenSeq(q) \in Seq(T) /\ FlattenSeq(p) = FlattenSeq(q) \o p[Len(c) + 1]
    BY <1>1, <2>1, <2>2, PartsAppend
  <2> QED
    BY <2>3 DEF T
<1> QED
  BY <1>2, <1>3, <1>5 DEF g

\* Of nothing comes nothing.
LEMMA OfNothing == RebuildMessages(<<>>) = <<>> /\ Replies(<<>>) = <<>>
  BY FlattenEmpty DEF RebuildMessages, Replies, Emit

\* Where a resume starts when an entry was appended.
LEMMA LoadedAppend ==
    ASSUME NEW f \in Seq(Entries), NEW e \in Entries,
           NEW entries \in PostBoundary(Append(f, e))
    PROVE  IF IsBoundary(e) THEN entries = <<e>>
           ELSE \E old \in PostBoundary(f) : old \in Seq(Entries) /\ entries = Append(old, e)
<1> DEFINE g == Append(f, e)
           n == Len(f)
<1>1. /\ g \in Seq(Entries) /\ DOMAIN f = 1..n /\ n \in Nat
      /\ DOMAIN g = 1..(n + 1) /\ g[n + 1] = e /\ Len(g) = n + 1
      /\ \A i \in 1..n : g[i] = f[i]
  BY Appended
<1> HIDE DEF g, n
<1>2. CASE IsBoundary(e)
  <2>0. n + 1 \in DOMAIN g
    BY <1>1
  <2>1. \A k \in LastOf(g, IsBoundary) : k = n + 1
    BY <1>1, <1>2, <2>0 DEF LastOf
  <2>2. entries = SubSeq(g, n + 1, n + 1)
    BY <1>1, <1>2, <2>0, <2>1 DEF PostBoundary, g
  <2>3. SubSeq(g, n + 1, n + 1) = <<e>>
    <3>1. n + 1 \in 1..Len(g) /\ n + 1 - (n + 1) + 1 = 1 /\ n + 1 + 1 - 1 = n + 1
      BY <1>1
    <3>2. PICK m \in 1..Len(g) : m = n + 1
      BY <3>1
    <3>3. SubSeq(g, m, m) = <<g[m]>>
      <4>1. \A i \in m..m : g[i] \in Entries
        BY <1>1, <3>2, ElementOfSeq
      <4>2. m \in Int /\ m <= m /\ m - m + 1 = 1 /\ 1 \in 1..1 /\ m + 1 - 1 = m
        BY <3>2
      <4> DEFINE t == SubSeq(g, m, m)
      <4>3. t \in Seq(Entries) /\ Len(t) = 1 /\ t[1] = g[m]
        BY <4>1, <4>2, SubSeqProperties
      <4> HIDE DEF t
      <4>4. t = <<g[m]>>
        BY <4>3
      <4> QED
        BY <4>4 DEF t
    <3> QED
      BY <1>1, <3>2, <3>3
  <2> QED
    BY <1>2, <2>2, <2>3
<1>3. CASE ~IsBoundary(e)
  <2>1. CASE \E i \in DOMAIN f : IsBoundary(f[i])
    <3>1. PICK k \in LastOf(g, IsBoundary) : entries = SubSeq(g, k, n + 1)
      <4>1. \E i \in DOMAIN g : IsBoundary(g[i])
        BY <1>1, <2>1
      <4> QED
        BY <1>1, <4>1 DEF PostBoundary, g
    <3>2. k \in 1..n /\ k \in LastOf(f, IsBoundary)
      BY <1>1, <1>3, <3>1 DEF LastOf
    <3>3. SubSeq(f, k, n) \in PostBoundary(f)
      BY <2>1, <3>2 DEF PostBoundary, n
    <3>4. SubSeq(f, k, n) \in Seq(Entries) /\ Len(SubSeq(f, k, n)) = n - k + 1
          /\ \A i \in 1..(n - k + 1) : SubSeq(f, k, n)[i] = f[k + i - 1]
      BY <1>1, <3>2, SubSeqProperties DEF n
    <3>5. /\ SubSeq(g, k, n + 1) \in Seq(Entries) /\ Len(SubSeq(g, k, n + 1)) = n - k + 2
          /\ \A i \in 1..(n - k + 2) : SubSeq(g, k, n + 1)[i] = g[k + i - 1]
      BY <1>1, <3>2, SubSeqProperties
    <3> DEFINE s == SubSeq(f, k, n)
               t == SubSeq(g, k, n + 1)
    <3> HIDE DEF s, t
    <3>6. /\ Append(s, e) \in Seq(Entries) /\ Len(Append(s, e)) = n - k + 2
          /\ \A i \in 1..(n - k + 1) : Append(s, e)[i] = s[i]
          /\ Append(s, e)[n - k + 2] = e
      BY <1>1, <3>2, <3>4, AppendProperties DEF s
    <3>7. \A i \in 1..(n - k + 2) : t[i] = Append(s, e)[i]
      <4> TAKE i \in 1..(n - k + 2)
      <4>1. CASE i = n - k + 2
        <5>1. k + i - 1 = n + 1
          BY <1>1, <3>2, <4>1
        <5> QED
          BY <1>1, <3>5, <3>6, <4>1, <5>1 DEF t
      <4>2. CASE i # n - k + 2
        <5>1. i \in 1..(n - k + 1) /\ k + i - 1 \in 1..n
          BY <1>1, <3>2, <4>2
        <5> QED
          BY <1>1, <3>4, <3>5, <3>6, <5>1 DEF s, t
      <4> QED
        BY <4>1, <4>2
    <3>8. t = Append(s, e)
      BY <3>5, <3>6, <3>7, SeqEqual DEF t
    <3> QED
      BY <1>3, <3>1, <3>3, <3>4, <3>8 DEF s, t
  <2>2. CASE ~ \E i \in DOMAIN f : IsBoundary(f[i])
    <3>1. ~ \E i \in DOMAIN g : IsBoundary(g[i])
      BY <1>1, <1>3, <2>2
    <3> QED
      BY <1>3, <2>2, <3>1 DEF PostBoundary, g
  <2> QED
    BY <2>1, <2>2
<1> QED
  BY <1>2, <1>3

-----------------------------------------------------------------------------
(* The end of a sequence.                                                  *)

\* The end of a sequence, counted from behind.
EndsWith(t, s) ==
    Len(s) <= Len(t) /\ \A j \in 1..Len(s) : s[Len(s) - j + 1] = t[Len(t) - j + 1]

\* IsSuffix, which compares reversed sequences, in terms of positions.
LEMMA SuffixIs ==
    ASSUME NEW T, NEW s \in Seq(T), NEW t \in Seq(T)
    PROVE  IsSuffix(s, t) <=> EndsWith(t, s)
<1> DEFINE m == Len(s)
           n == Len(t)
           a == Reverse(s)
           b == Reverse(t)
<1>1. m \in Nat /\ n \in Nat /\ (\A i \in 1..m : s[i] \in T) /\ (\A i \in 1..n : t[i] \in T)
  BY LenProperties, ElementOfSeq
<1>2. /\ DOMAIN a = 1..m /\ \A i \in 1..m : a[i] = s[m - i + 1] /\ a[i] \in T
      /\ DOMAIN b = 1..n /\ \A i \in 1..n : b[i] = t[n - i + 1] /\ b[i] \in T
  <2>1. /\ \A i \in 1..m : (m - i) + 1 \in 1..m
        /\ \A i \in 1..n : (n - i) + 1 \in 1..n
    BY <1>1
  <2> QED
    BY <1>1, <2>1 DEF Reverse
<1>3. Len(a) = m /\ Len(b) = n
  BY <1>1 DEF Reverse
<1>4. IsSuffix(s, t) <=> m <= n /\ SubSeq(a, 1, m) = SubSeq(b, 1, m)
  BY <1>3 DEF IsSuffix, IsPrefix
<1>5. ASSUME m <= n
      PROVE  SubSeq(a, 1, m) = SubSeq(b, 1, m) <=> \A j \in 1..m : s[m - j + 1] = t[n - j + 1]
  <2> HIDE DEF m, n, a, b
  <2>1. (\A i \in 1..m : a[i] \in T) /\ (\A i \in 1..m : b[i] \in T /\ i \in 1..n)
    BY <1>1, <1>2, <1>5
  <2> DEFINE p == SubSeq(a, 1, m)
             q == SubSeq(b, 1, m)
  <2>2. p \in Seq(T) /\ Len(p) = m /\ \A i \in 1..m : p[i] = a[i]
    <3>1. /\ p \in Seq(T) /\ Len(p) = IF 1 <= m THEN m - 1 + 1 ELSE 0
          /\ \A i \in 1..m - 1 + 1 : p[i] = a[1 + i - 1]
      BY <1>1, <2>1, SubSeqProperties
    <3> HIDE DEF p
    <3>2. Len(p) = m /\ m - 1 + 1 = m
      BY <1>1, <3>1
    <3>3. \A i \in 1..m : p[i] = a[i]
      BY <1>1, <3>1, <3>2
    <3> QED
      BY <3>1, <3>2, <3>3
  <2>3. q \in Seq(T) /\ Len(q) = m /\ \A i \in 1..m : q[i] = b[i]
    <3>1. /\ q \in Seq(T) /\ Len(q) = IF 1 <= m THEN m - 1 + 1 ELSE 0
          /\ \A i \in 1..m - 1 + 1 : q[i] = b[1 + i - 1]
      BY <1>1, <2>1, SubSeqProperties
    <3> HIDE DEF q
    <3>2. Len(q) = m /\ m - 1 + 1 = m
      BY <1>1, <3>1
    <3>3. \A i \in 1..m : q[i] = b[i]
      BY <1>1, <3>1, <3>2
    <3> QED
      BY <3>1, <3>2, <3>3
  <2> HIDE DEF p, q
  <2>4. p = q <=> \A i \in 1..m : a[i] = b[i]
    <3>1. (\A i \in 1..m : p[i] = q[i]) => p = q
      BY <1>1, <2>2, <2>3, SeqEqual
    <3> QED
      BY <2>2, <2>3, <3>1
  <2>5. \A i \in 1..m : a[i] = s[m - i + 1] /\ b[i] = t[n - i + 1]
    BY <1>2, <2>1
  <2>6. (\A i \in 1..m : a[i] = b[i]) <=> \A i \in 1..m : s[m - i + 1] = t[n - i + 1]
    <3>1. \A i \in 1..m : a[i] = b[i] <=> s[m - i + 1] = t[n - i + 1]
      BY <2>5
    <3> QED
      BY <3>1
  <2> QED
    BY <2>4, <2>6, Zenon DEF p, q
<1> QED
  BY <1>4, <1>5 DEF EndsWith

\* The end of a sequence stays its end when both grow alike...
LEMMA SuffixGrows ==
    ASSUME NEW T, NEW s \in Seq(T), NEW t \in Seq(T), IsSuffix(s, t), NEW x \in T
    PROVE  IsSuffix(s \o <<x>>, t \o <<x>>)
<1>1. EndsWith(t, s)
  BY SuffixIs
<1>2. s \o <<x>> = Append(s, x) /\ t \o <<x>> = Append(t, x)
  OBVIOUS
<1> DEFINE m == Len(s)
           n == Len(t)
           a == Append(s, x)
           b == Append(t, x)
<1>3. /\ a \in Seq(T) /\ b \in Seq(T) /\ Len(a) = m + 1 /\ Len(b) = n + 1
      /\ m \in Nat /\ n \in Nat
      /\ \A i \in 1..m : a[i] = s[i]
      /\ \A i \in 1..n : b[i] = t[i]
      /\ a[m + 1] = x /\ b[n + 1] = x
  BY AppendProperties, LenProperties
<1>4. m <= n /\ \A j \in 1..m : s[m - j + 1] = t[n - j + 1]
  BY <1>1 DEF EndsWith
<1> HIDE DEF m, n, a, b
<1>5. ASSUME NEW j \in 1..(m + 1)
      PROVE  a[m + 1 - j + 1] = b[n + 1 - j + 1]
  <2>1. CASE j = 1
    <3>1. m + 1 - j + 1 = m + 1 /\ n + 1 - j + 1 = n + 1
      BY <1>3, <2>1
    <3> QED
      BY <1>3, <3>1
  <2>2. CASE j # 1
    <3>1. PICK k \in 1..m : k = j - 1
      BY <1>3, <2>2
    <3>2. /\ m + 1 - j + 1 = m - k + 1 /\ n + 1 - j + 1 = n - k + 1
          /\ m - k + 1 \in 1..m /\ n - k + 1 \in 1..n
      BY <1>3, <1>4, <3>1
    <3>3. /\ a[m - k + 1] = s[m - k + 1] /\ b[n - k + 1] = t[n - k + 1]
          /\ s[m - k + 1] = t[n - k + 1]
      BY <1>3, <1>4, <3>2, Zenon
    <3> QED
      BY <3>2, <3>3, Zenon
  <2> QED
    BY <2>1, <2>2
<1>6. EndsWith(b, a)
  <2>1. Len(a) = m + 1 /\ Len(b) = n + 1 /\ Len(a) <= Len(b)
    BY <1>3, <1>4
  <2>2. ASSUME NEW j \in 1..Len(a) PROVE a[Len(a) - j + 1] = b[Len(b) - j + 1]
    <3>1. j \in 1..(m + 1) /\ Len(a) - j + 1 = m + 1 - j + 1 /\ Len(b) - j + 1 = n + 1 - j + 1
      BY <1>3, <2>1
    <3> QED
      BY <1>5, <3>1
  <2> QED
    BY <2>1, <2>2 DEF EndsWith
<1> QED
  BY <1>2, <1>3, <1>6, SuffixIs DEF a, b

\* ...and every sequence ends with itself, and with nothing.
LEMMA SuffixSelf ==
    ASSUME NEW T, NEW t \in Seq(T)
    PROVE  IsSuffix(t, t) /\ IsSuffix(<<>>, t)
<1>1. EndsWith(t, t)
  BY LenProperties DEF EndsWith
<1>2. EndsWith(t, <<>>)
  BY LenProperties DEF EndsWith
<1>3. <<>> \in Seq(T)
  OBVIOUS
<1> QED
  BY <1>1, <1>2, <1>3, SuffixIs

-----------------------------------------------------------------------------
(* The chain is one of messages, whatever the loop does to it.             *)

LEMMA RepairedTyped ==
    ASSUME NEW c \in Seq(Messages)
    PROVE  Repaired(c) \in Seq(Messages)
<1> DEFINE Asked(i) == IF i > 1 /\ IsAssistant(c[i - 1]) THEN c[i - 1].uses ELSE {}
           Fixed(i) == IF IsUser(c[i])
                       THEN [c[i] EXCEPT !.results = (@ \cap Uses(c)) \cup Asked(i)]
                       ELSE c[i]
           q == [i \in DOMAIN c |-> IfContent(Fixed(i))]
<1>1. DOMAIN c = 1..Len(c) /\ Len(c) \in Nat /\ \A i \in 1..Len(c) : c[i] \in Messages
  BY LenProperties, ElementOfSeq
<1>2. ASSUME NEW i \in 1..Len(c) PROVE Fixed(i) \in Messages
  <2>1. Asked(i) \in SUBSET CallIds
    <3>1. CASE i > 1
      <4>1. i - 1 \in 1..Len(c)
        BY <1>1, <3>1
      <4> QED
        BY <1>1, <4>1 DEF Messages
    <3> QED
      BY <3>1
  <2> HIDE DEF Asked
  <2>2. (c[i].results \cap Uses(c)) \cup Asked(i) \in SUBSET CallIds
    BY <1>1, <2>1 DEF Messages
  <2> QED
    BY <1>1, <2>2 DEF Messages
<1>3. Repaired(c) = FlattenSeq(q)
  BY DEF Repaired, Emit
<1>4. \A m \in Messages : IfContent(m) \in Seq(Messages)
  BY DEF IfContent
<1>5. q \in Seq(Seq(Messages))
  <2> HIDE DEF Fixed
  <2> QED
    BY <1>1, <1>2, <1>4
<1>6. <<>> \in Seq(Messages)
  OBVIOUS
<1> QED
  BY <1>3, <1>5, <1>6, FlattenAppend

\* A chain is compacted to a chain...
LEMMA CompactedTyped ==
    ASSUME NEW c \in Seq(Messages)
    PROVE  Compacted(c) \in Seq(Messages)
<1> DEFINE start == Len(c) - Keep + 1
           cut == IF start <= 1 THEN 1
                  ELSE IF IsUser(c[start]) /\ c[start].results # {} THEN start - 1
                  ELSE start
<1>1. Keep \in Nat /\ Keep # 0 /\ Len(c) \in Nat /\ \A i \in 1..Len(c) : c[i] \in Messages
  BY KeepAssumption, LenProperties, ElementOfSeq
<1>2. cut \in Int /\ cut >= 1
  BY <1>1
<1>3. Compacted(c) = <<Text("user", Summary)>> \o SubSeq(c, cut, Len(c))
  BY DEF Compacted
<1> HIDE DEF cut
<1>4. SubSeq(c, cut, Len(c)) \in Seq(Messages)
  BY <1>1, <1>2, SubSeqProperties
<1>5. <<Text("user", Summary)>> \in Seq(Messages)
  BY DEF Text, Messages, Labels
<1> QED
  BY <1>3, <1>4, <1>5, ConcatProperties

\* ...and a media retry makes a chain with the same replies.
LEMMA StrippedTyped ==
    ASSUME NEW c \in Seq(Messages), NEW id
    PROVE  /\ MediaStripped(c, id) \in Seq(Messages)
           /\ Replies(MediaStripped(c, id)) = Replies(c)
<1> DEFINE k == LastUser(c)
           d == MediaStripped(c, id)
<1>1. DOMAIN c = 1..Len(c) /\ Len(c) \in Nat /\ \A i \in 1..Len(c) : c[i] \in Messages
  BY LenProperties, ElementOfSeq
<1>2. d = [c EXCEPT ![k].results = @ \ {id}]
  BY DEF MediaStripped
<1> HIDE DEF k, d
<1>3. /\ DOMAIN d = 1..Len(c)
      /\ \A i \in 1..Len(c) :
            d[i] = IF i = k THEN [c[i] EXCEPT !.results = @ \ {id}] ELSE c[i]
  BY <1>1, <1>2
<1>4. ASSUME NEW i \in 1..Len(c)
      PROVE  d[i] \in Messages /\ d[i].role = c[i].role /\ d[i].uses = c[i].uses
  <2>1. c[i] \in Messages /\ d[i] = IF i = k THEN [c[i] EXCEPT !.results = @ \ {id}] ELSE c[i]
    BY <1>1, <1>3
  <2> QED
    BY <2>1 DEF Messages
<1>5. d \in Seq(Messages)
  <2>1. d = [i \in 1..Len(c) |-> d[i]]
    BY <1>1, <1>2
  <2> QED
    BY <1>1, <1>4, <2>1
<1>6. [i \in DOMAIN d |-> ReplyOf(d[i])] = [i \in DOMAIN c |-> ReplyOf(c[i])]
  BY <1>1, <1>3, <1>4 DEF ReplyOf, IsAssistant
<1>7. Replies(d) = Replies(c)
  BY <1>6 DEF Replies, Emit, ReplyOf
<1> QED
  BY <1>5, <1>7 DEF d

-----------------------------------------------------------------------------
(* What is on file of the replies, and what the process holds of them.     *)

\* What a resume brings back is the end of what the process holds.
TailInv ==
    /\ chain \in Seq(Messages)
    /\ pc # "off" /\ ~May("io") =>
          \A entries \in PostBoundary(file) :
              IsSuffix(Replies(RebuildMessages(entries)), Replies(chain))

LoadedTail(f, c) ==
    \A entries \in PostBoundary(f) : IsSuffix(Replies(RebuildMessages(entries)), Replies(c))

RepliesOf(e) == IF e.type = "assistant" THEN <<e.uses>> ELSE <<>>

\* What is on file of the replies grows by those of an entry.
LEMMA OnFileAppend ==
    ASSUME NEW f \in Seq(Entries), NEW e \in Entries
    PROVE  /\ Replies(RebuildMessages(f)) \in Seq(SUBSET CallIds)
           /\ Replies(RebuildMessages(Append(f, e)))
              = Replies(RebuildMessages(f)) \o RepliesOf(e)
<1> DEFINE r == RebuildMessages(f)
<1>1. r \in Seq(Messages) /\ RebuildMessages(Append(f, e)) = r \o MessagesOf(e)
  BY RebuildAppend
<1>2. Replies(r) \in Seq(SUBSET CallIds)
  <2>1. Text("user", Summary) \in Messages
    BY DEF Text, Messages, Labels
  <2> QED
    BY <1>1, <2>1, RepliesAppend
<1> HIDE DEF r
<1>3. CASE e.type = "state"
  <2>1. MessagesOf(e) = <<>> /\ RepliesOf(e) = <<>>
    BY <1>3, MessageTyped DEF RepliesOf
  <2>2. r \o <<>> = r /\ Replies(r) \o <<>> = Replies(r)
    BY <1>1, <1>2
  <2> QED
    BY <1>1, <1>2, <2>1, <2>2 DEF r
<1>4. CASE e.type # "state"
  <2>1. MessagesOf(e) = <<MessageOf(e)>> /\ MessageOf(e) \in Messages
    BY <1>4, MessageTyped
  <2>2. r \o <<MessageOf(e)>> = Append(r, MessageOf(e))
    BY <1>1, <2>1
  <2>3. Replies(Append(r, MessageOf(e))) = Replies(r) \o ReplyOf(MessageOf(e))
    BY <1>1, <2>1, RepliesAppend
  <2>4. ReplyOf(MessageOf(e)) = RepliesOf(e)
    <3>1. e.type \in MessageTypes
      BY <1>4 DEF Entries, MessageTypes, ChainTypes
    <3> QED
      BY <3>1 DEF MessageOf, ReplyOf, RepliesOf, IsAssistant, Text, Assistant, Answer, MessageTypes, ChainTypes
  <2> QED
    BY <1>1, <1>2, <2>1, <2>2, <2>3, <2>4 DEF r
<1> QED
  BY <1>3, <1>4

Plain(e) == e.type \notin {"assistant", "compact_boundary"}

\* A message that is no reply, and an entry that is none.
LEMMA TailGrows ==
    ASSUME NEW f \in Seq(Entries), NEW c \in Seq(Messages), LoadedTail(f, c)
    PROVE  /\ \A e \in Entries : Plain(e) => LoadedTail(Append(f, e), c)
           /\ \A d \in Seq(Messages) : Replies(d) = Replies(c) => LoadedTail(f, d)
           /\ \A d \in Seq(Messages) : LoadedTail(Append(f, BoundaryEntry), d)
           /\ \A S \in SUBSET CallIds :
                 LoadedTail(Append(f, AssistantEntry(S)), Append(c, Assistant(S)))
<1> DEFINE Ids == Seq(SUBSET CallIds)
<1>0. \A d \in Seq(Messages) : Replies(d) \in Ids
  <2>1. Text("user", Summary) \in Messages
    BY DEF Text, Messages, Labels
  <2> QED
    BY <2>1, RepliesAppend
<1>1. ASSUME NEW e \in Entries, Plain(e) PROVE LoadedTail(Append(f, e), c)
  <2> SUFFICES ASSUME NEW entries \in PostBoundary(Append(f, e))
               PROVE  IsSuffix(Replies(RebuildMessages(entries)), Replies(c))
    BY DEF LoadedTail
  <2>1. PICK old \in PostBoundary(f) : old \in Seq(Entries) /\ entries = Append(old, e)
    BY <1>1, LoadedAppend DEF Plain, IsBoundary
  <2> DEFINE r == Replies(RebuildMessages(old))
  <2>2. r \in Ids /\ Replies(RebuildMessages(entries)) = r \o RepliesOf(e)
    BY <2>1, OnFileAppend
  <2>3. RepliesOf(e) = <<>>
    BY <1>1 DEF Plain, RepliesOf
  <2>4. IsSuffix(r, Replies(c))
    BY <2>1 DEF LoadedTail
  <2> HIDE DEF r
  <2>5. r \o <<>> = r
    BY <2>2
  <2> QED
    BY <2>2, <2>3, <2>4, <2>5
<1>2. ASSUME NEW d \in Seq(Messages), Replies(d) = Replies(c) PROVE LoadedTail(f, d)
  BY <1>2 DEF LoadedTail
<1>3. ASSUME NEW d \in Seq(Messages) PROVE LoadedTail(Append(f, BoundaryEntry), d)
  <2> SUFFICES ASSUME NEW entries \in PostBoundary(Append(f, BoundaryEntry))
               PROVE  IsSuffix(Replies(RebuildMessages(entries)), Replies(d))
    BY DEF LoadedTail
  <2>1. BoundaryEntry \in Entries /\ IsBoundary(BoundaryEntry) /\ RepliesOf(BoundaryEntry) = <<>>
    BY EntryKinds DEF IsBoundary, BoundaryEntry, RepliesOf
  <2>2. entries = Append(<<>>, BoundaryEntry) /\ <<>> \in Seq(Entries)
    BY <2>1, LoadedAppend
  <2>3. Replies(RebuildMessages(entries)) = Replies(RebuildMessages(<<>>)) \o <<>>
    BY <2>1, <2>2, OnFileAppend
  <2>4. Replies(RebuildMessages(entries)) = <<>>
    BY <2>3, OfNothing
  <2> QED
    BY <1>0, <2>4, SuffixSelf
<1>4. ASSUME NEW S \in SUBSET CallIds
      PROVE  LoadedTail(Append(f, AssistantEntry(S)), Append(c, Assistant(S)))
  <2> DEFINE e == AssistantEntry(S)
  <2> SUFFICES ASSUME NEW entries \in PostBoundary(Append(f, e))
               PROVE  IsSuffix(Replies(RebuildMessages(entries)), Replies(Append(c, Assistant(S))))
    BY DEF LoadedTail
  <2>1. e \in Entries /\ ~IsBoundary(e) /\ RepliesOf(e) = <<S>>
    BY EntryKinds DEF IsBoundary, AssistantEntry, RepliesOf
  <2>2. PICK old \in PostBoundary(f) : old \in Seq(Entries) /\ entries = Append(old, e)
    BY <2>1, LoadedAppend
  <2> DEFINE r == Replies(RebuildMessages(old))
             t == Replies(c)
  <2>3. r \in Ids /\ t \in Ids /\ Replies(RebuildMessages(entries)) = r \o <<S>>
    BY <1>0, <2>1, <2>2, OnFileAppend
  <2>4. Assistant(S) \in Messages /\ ReplyOf(Assistant(S)) = <<S>>
    BY DEF Assistant, Messages, Labels, ReplyOf, IsAssistant
  <2>5. Replies(Append(c, Assistant(S))) = t \o <<S>>
    BY <2>4, RepliesAppend
  <2>6. IsSuffix(r, t)
    BY <2>2 DEF LoadedTail
  <2> HIDE DEF r, t
  <2>7. IsSuffix(r \o <<S>>, t \o <<S>>)
    <3> DEFINE T == SUBSET CallIds
    <3>1. r \in Seq(T) /\ t \in Seq(T) /\ S \in T
      BY <2>3
    <3> HIDE DEF T
    <3> QED
      BY <2>6, <3>1, SuffixGrows
  <2> QED
    BY <2>3, <2>5, <2>7
<1> QED
  BY <1>1, <1>2, <1>3, <1>4

\* What is loaded once is loaded again.
LEMMA LoadedAgain ==
    ASSUME NEW f \in Seq(Entries), NEW g \in PostBoundary(f)
    PROVE  /\ \A h \in PostBoundary(f) : h = g
           /\ \A h \in PostBoundary(g) : h = g
<1>1. CASE \E i \in DOMAIN f : IsBoundary(f[i])
  <2>1. PICK k \in LastOf(f, IsBoundary) : g = SubSeq(f, k, Len(f))
    BY <1>1 DEF PostBoundary
  <2>2. \A m \in LastOf(f, IsBoundary) : m = k
    BY <2>1 DEF LastOf
  <2>3. /\ DOMAIN f = 1..Len(f) /\ Len(f) \in Nat /\ k \in 1..Len(f) /\ IsBoundary(f[k])
        /\ \A i \in k..Len(f) : f[i] \in Entries
        /\ \A i \in 1..Len(f) : i > k => ~IsBoundary(f[i])
    BY <2>1 DEF LastOf
  <2>4. /\ g \in Seq(Entries) /\ Len(g) = Len(f) - k + 1
        /\ \A i \in 1..(Len(f) - k + 1) : g[i] = f[k + i - 1]
    BY <2>1, <2>3, SubSeqProperties
  <2>5. DOMAIN g = 1..Len(g) /\ IsBoundary(g[1]) /\ 1 \in 1..Len(g)
    <3>1. 1 \in 1..(Len(f) - k + 1) /\ k + 1 - 1 = k
      BY <2>3
    <3> QED
      BY <2>3, <2>4, <3>1
  <2>6. ASSUME NEW i \in 1..Len(g), i > 1 PROVE ~IsBoundary(g[i])
    <3>1. k + i - 1 \in 1..Len(f) /\ k + i - 1 > k
      BY <2>3, <2>4, <2>6
    <3> QED
      BY <2>3, <2>4, <3>1
  <2>7. \A m \in LastOf(g, IsBoundary) : m = 1
    BY <2>5, <2>6 DEF LastOf
  <2>8. SubSeq(g, 1, Len(g)) = g
    <3>1. \A i \in 1..Len(g) : g[i] \in Entries
      BY <2>4, ElementOfSeq
    <3>2. Len(g) \in Nat
      BY <2>4, LenProperties
    <3> DEFINE s == SubSeq(g, 1, Len(g))
    <3>3. /\ s \in Seq(Entries) /\ Len(s) = IF 1 <= Len(g) THEN Len(g) - 1 + 1 ELSE 0
          /\ \A i \in 1..Len(g) - 1 + 1 : s[i] = g[1 + i - 1]
      BY <3>1, <3>2, SubSeqProperties
    <3> HIDE DEF s
    <3>4. Len(s) = Len(g) /\ Len(g) - 1 + 1 = Len(g)
      BY <3>2, <3>3
    <3>5. \A i \in 1..Len(g) : s[i] = g[i]
      BY <3>2, <3>3, <3>4
    <3>6. s = g
      BY <2>4, <3>3, <3>4, <3>5, SeqEqual
    <3> QED
      BY <3>6 DEF s
  <2> QED
    BY <1>1, <2>1, <2>2, <2>5, <2>7, <2>8 DEF PostBoundary
<1>2. CASE ~ \E i \in DOMAIN f : IsBoundary(f[i])
  BY <1>2 DEF PostBoundary
<1> QED
  BY <1>1, <1>2

\* A message of the user is no reply.
LEMMA UserIsQuiet ==
    ASSUME NEW c \in Seq(Messages), NEW m \in Messages, IsUser(m)
    PROVE  Append(c, m) \in Seq(Messages) /\ Replies(Append(c, m)) = Replies(c)
<1>1. ReplyOf(m) = <<>> /\ Append(c, m) \in Seq(Messages)
  BY AppendProperties DEF ReplyOf, IsUser, IsAssistant
<1>2. Replies(c) \o <<>> = Replies(c)
  BY RepliesAppend
<1> QED
  BY <1>1, <1>2, RepliesAppend

\* A step that makes no reply and cuts nothing keeps the invariant.
LEMMA QuietStep ==
    ASSUME IInv, TailInv, pc # "off", chain' \in Seq(Messages), Replies(chain') = Replies(chain),
           UNCHANGED file \/ \E e \in Entries : Plain(e) /\ Record(e)
    PROVE  TailInv'
<1>1. file \in Seq(Entries) /\ chain \in Seq(Messages)
  BY DEF IInv, FileOK, TailInv
<1>2. ASSUME ~May("io") PROVE LoadedTail(file', chain')
  <2>1. LoadedTail(file, chain)
    BY <1>2 DEF TailInv, LoadedTail
  <2>2. LoadedTail(file', chain)
    BY <1>1, <2>1, TailGrows DEF Record
  <2>3. file' \in Seq(Entries)
    BY <1>1, Appended DEF Record
  <2> QED
    BY <1>1, <2>2, <2>3, TailGrows
<1> QED
  BY <1>2 DEF TailInv, LoadedTail, May

\* The messages the loop puts into the chain.
LEMMA Notes ==
    /\ \A l \in Labels : Text("user", l) \in Messages /\ IsUser(Text("user", l))
    /\ {Summary, Reminder, TaskNote} \subseteq Labels /\ Prompts \subseteq Labels
    /\ Summary \in Labels /\ Reminder \in Labels /\ TaskNote \in Labels
    /\ \A S \in SUBSET CallIds : Answer(S) \in Messages /\ IsUser(Answer(S))
    /\ \A S \in SUBSET CallIds : Assistant(S) \in Messages
  BY DEF Text, Messages, Labels, IsUser, Answer, Assistant

\* The entries other than replies and boundaries.
LEMMA PlainEntries ==
    /\ ReminderEntry \in Entries /\ Plain(ReminderEntry)
    /\ \A q \in Prompts : UserEntry(q) \in Entries /\ Plain(UserEntry(q))
    /\ \A id \in CallIds : ResultEntry(id) \in Entries /\ Plain(ResultEntry(id))
    /\ \A about \in {"prompt", "tasks", "count"}, n \in Nat :
          StateEntry(about, n) \in Entries /\ Plain(StateEntry(about, n))
  BY EntryKinds, EntryTypes DEF Plain, ResultEntry

\* Every step keeps what a resume would bring back the end of the chain.
LEMMA TailKeeps == ASSUME IInv, TailInv, [Next]_vars PROVE TailInv'
<1>1. /\ file \in Seq(Entries) /\ fail \in Nat /\ asked \in Nat /\ answered \in Nat
      /\ replies \in Nat /\ pc \in Phases /\ (pc # "off" => prompt \in Prompts)
      /\ chain \in Seq(Messages)
  BY DEF IInv, FileOK, TailInv
<1>2. ASSUME NEW p \in Prompts, Start(p) PROVE TailInv'
  <2>1. file' = <<>> /\ chain' = <<>> /\ <<>> \in Seq(Messages)
    BY <1>2 DEF Start, Boot
  <2>2. PostBoundary(<<>>) = {<<>>}
    BY DEF PostBoundary
  <2>3. IsSuffix(Replies(RebuildMessages(<<>>)), Replies(<<>>))
    <3>1. IsSuffix(<<>>, <<>>)
      <4>1. <<>> \in Seq(Messages)
        OBVIOUS
      <4> QED
        BY <4>1, SuffixSelf
    <3> QED
      BY <3>1, OfNothing
  <2> QED
    BY <2>1, <2>2, <2>3 DEF TailInv
<1>3. ASSUME NEW p \in Prompts, NEW forks \in BOOLEAN, Resume(p, forks) PROVE TailInv'
  <2>1. PICK entries \in PostBoundary(file) :
           file' = (IF forks THEN entries ELSE file) /\ chain' = RebuildMessages(entries)
    BY <1>3 DEF Resume, Boot
  <2>2. entries \in Seq(Entries)
    BY <1>1, CutAtBoundary DEF IInv, ResultsFollowUses
  <2>3. \A h \in PostBoundary(file') : h = entries
    BY <1>1, <2>1, LoadedAgain
  <2>4. chain' \in Seq(Messages)
    BY <2>1, <2>2, RebuildAppend, PlainEntries
  <2>5. IsSuffix(Replies(RebuildMessages(entries)), Replies(chain'))
    <3>1. Replies(chain') \in Seq(SUBSET CallIds)
      BY <2>4, Notes, RepliesAppend
    <3> QED
      BY <2>1, <3>1, SuffixSelf
  <2> QED
    BY <2>3, <2>4, <2>5 DEF TailInv
<1>4. CASE SubmitFails \/ Halt \/ OverLimit \/ RespondFails \/ CallRefused \/ CallFails
           \/ PersistFails \/ Finish \/ OutOfTokens \/ Crash
  <2>1. pc' = "off" /\ chain' = <<>>
    BY <1>4 DEF SubmitFails, Halt, OverLimit, RespondFails, CallRefused, CallFails,
       PersistFails, Finish, OutOfTokens, Crash, Exit
  <2> QED
    BY <2>1 DEF TailInv
<1>5. CASE Submit
  <2>1. pc # "off" /\ chain' = chain /\ (UNCHANGED file \/ Record(UserEntry(prompt)))
    BY <1>5 DEF Submit, memory
  <2> QED
    BY <1>1, <2>1, PlainEntries, QuietStep
<1>6. CASE Changes
  <2>1. PICK history \in {chain, Append(chain, Text("user", Reminder))} :
           chain' = Append(history, Text("user", prompt))
    BY <1>6 DEF Changes
  <2>2. pc # "off" /\ (UNCHANGED file \/ Record(ReminderEntry))
    BY <1>6 DEF Changes, TryRecord
  <2>3. history \in Seq(Messages) /\ Replies(history) = Replies(chain)
    BY <1>1, Notes, UserIsQuiet
  <2>4. chain' \in Seq(Messages) /\ Replies(chain') = Replies(chain)
    BY <1>1, <2>1, <2>2, <2>3, Notes, UserIsQuiet
  <2> QED
    BY <2>2, <2>4, PlainEntries, QuietStep
<1>7. CASE Freeze \/ CompactFails \/ RunTools
  <2>1. /\ pc # "off" /\ chain' = chain
        /\ \/ UNCHANGED file
           \/ \E about \in {"prompt", "tasks", "count"}, n \in Nat : Record(StateEntry(about, n))
    <3>1. fail + 1 \in Nat /\ 0 \in Nat
      BY <1>1
    <3> QED
      BY <1>7, <3>1 DEF Freeze, CompactFails, RunTools, TryRecord
  <2> QED
    BY <1>1, <2>1, PlainEntries, QuietStep
<1>8. ASSUME NEW note \in BOOLEAN, TakeTurn(note) PROVE TailInv'
  <2>1. pc # "off" /\ UNCHANGED file /\ chain' \in {chain, Append(chain, Text("user", TaskNote))}
    BY <1>8 DEF TakeTurn
  <2> QED
    BY <1>1, <2>1, Notes, UserIsQuiet, QuietStep
<1>9. CASE ReinjectSkills \/ ResultsDone
  <2>1. /\ pc # "off"
        /\ chain' \in {chain, Append(chain, Text("user", Reminder))}
        /\ UNCHANGED file \/ Record(ReminderEntry)
    BY <1>9 DEF ReinjectSkills, ResultsDone, Remind, TryRecord
  <2> QED
    BY <1>1, <2>1, Notes, PlainEntries, UserIsQuiet, QuietStep
<1>10. CASE Compact
  <2>1. chain' = Repaired(Compacted(chain)) /\ TryRecord(BoundaryEntry)
    BY <1>10 DEF Compact, NormalizedCompactedChain
  <2>2. chain' \in Seq(Messages)
    BY <1>1, <2>1, CompactedTyped, RepairedTyped
  <2>3. ASSUME pc # "off", ~May("io") PROVE LoadedTail(file', chain')
    <3>1. LoadedTail(file, chain) /\ file' = Append(file, BoundaryEntry)
      BY <2>1, <2>3 DEF TailInv, LoadedTail, TryRecord, Record
    <3> QED
      BY <1>1, <2>2, <3>1, TailGrows
  <2>4. pc # "off"
    BY <1>10 DEF Compact
  <2> QED
    BY <2>2, <2>3, <2>4 DEF TailInv, LoadedTail, May
<1>11. ASSUME NEW n \in 0..MaxUses, NEW reason \in StopReasons, Respond(n, reason)
       PROVE  TailInv'
  <2>1. PICK S \in SUBSET CallIds :
           chain' = Append(chain, Assistant(S)) /\ file' = Append(file, AssistantEntry(S))
    <3>1. {<<replies + 1, k>> : k \in 1..n} \in SUBSET CallIds
      BY <1>1 DEF CallIds
    <3> QED
      BY <1>11, <3>1 DEF Respond, Record
  <2>2. chain' \in Seq(Messages)
    BY <1>1, <2>1, Notes, AppendProperties
  <2>3. ASSUME pc # "off", ~May("io") PROVE LoadedTail(file', chain')
    <3>1. LoadedTail(file, chain)
      BY <2>3 DEF TailInv, LoadedTail
    <3> QED
      BY <1>1, <2>1, <3>1, TailGrows
  <2>4. pc # "off"
    BY <1>11 DEF Respond
  <2> QED
    BY <2>2, <2>3, <2>4 DEF TailInv, LoadedTail, May
<1>12. CASE MediaRetry
  <2>1. pc # "off" /\ UNCHANGED file /\ \E id : chain' = MediaStripped(chain, id)
    BY <1>12 DEF MediaRetry
  <2> QED
    BY <1>1, <2>1, StrippedTyped, QuietStep
<1>13. CASE PersistResult
  <2>1. pc # "off" /\ chain' = chain /\ \E id \in CallIds : Record(ResultEntry(id))
    <3>1. Call(answered') \in CallIds
      BY <1>1, <1>13 DEF PersistResult, Call, CallIds
    <3> QED
      BY <1>13, <3>1 DEF PersistResult
  <2> QED
    BY <1>1, <2>1, PlainEntries, QuietStep
<1>14. CASE Continue
  <2>1. CallsInHand \in SUBSET CallIds
    BY <1>1 DEF CallsInHand, Call, CallIds
  <2>2. pc # "off" /\ UNCHANGED file /\ chain' \in {chain, Append(chain, Answer(CallsInHand))}
    BY <1>14 DEF Continue
  <2> QED
    BY <1>1, <2>1, <2>2, Notes, UserIsQuiet, QuietStep
<1>15. ASSUME SkipCompaction \/ NoTools \/ (\E reason \in StopReasons : RespondEmpty(reason))
              \/ Cancel \/ UNCHANGED vars
       PROVE  TailInv'
  <2>1. UNCHANGED <<file, chain>> /\ (pc' # "off" => pc # "off")
    BY <1>15 DEF SkipCompaction, NoTools, RespondEmpty, TakeReply, Cancel, Goto, memory, vars
  <2> QED
    BY <2>1 DEF TailInv, May
<1> QED
  BY <1>2, <1>3, <1>4, <1>5, <1>6, <1>7, <1>8, <1>9, <1>10, <1>11, <1>12, <1>13, <1>14, <1>15
     DEF Next, Progress

\* In every behaviour.
LEMMA TailInvariant == Spec => []TailInv
<1>1. Init => TailInv
  BY DEF Init, TailInv
<1>2. IInv /\ TailInv /\ [Next]_vars => TailInv'
  BY TailKeeps
<1> QED
  BY <1>1, <1>2, Inductive, PTL DEF Spec

-----------------------------------------------------------------------------
(* Calls and results in a chain.                                           *)

\* Behind a up to i there are messages of the user only.
UsersBehind(c, a, i) == \A k \in (a + 1)..i : IsUser(c[k])

Shape(c) ==
    \A i \in 1..Len(c) :
        /\ c[i].uses # {} => IsAssistant(c[i])
        /\ c[i].results # {} => IsUser(c[i])

\* A result follows its call, with nothing in between but the user.
Asker(c, a, i, id) == id \in c[a].uses /\ UsersBehind(c, a, i)
Grounded(c) ==
    \A i \in 1..Len(c) : \A id \in c[i].results : \E a \in 1..(i - 1) : Asker(c, a, i, id)

\* A call is answered, or it is open and nothing but the user follows it.
Replier(c, a, i, id) == id \in c[i].results /\ UsersBehind(c, a, i)
Answered(c, open) ==
    \A a \in 1..Len(c) : \A id \in c[a].uses :
        \/ id \in open /\ UsersBehind(c, a, Len(c))
        \/ \E i \in (a + 1)..Len(c) : Replier(c, a, i, id)

\* The open calls are those of one reply, the last.
Held(c, open) ==
    open # {} => \E a \in 1..Len(c) : open \subseteq c[a].uses /\ UsersBehind(c, a, Len(c))

\* No call is made twice; those made have a number up to n.
Apart(c) == \A a, b \in 1..Len(c) : a # b => c[a].uses \cap c[b].uses = {}
Known(c, n) == \A a \in 1..Len(c) : \A id \in c[a].uses : id[1] <= n

WellPaired(c, open, n) ==
    /\ Shape(c) /\ Grounded(c) /\ Answered(c, open) /\ Held(c, open)
    /\ Apart(c) /\ Known(c, n)

\* A chain grows at its end.
LEMMA ChainAppend ==
    ASSUME NEW c \in Seq(Messages), NEW m \in Messages
    PROVE  /\ Append(c, m) \in Seq(Messages) /\ Len(c) \in Nat
           /\ Len(Append(c, m)) = Len(c) + 1 /\ Append(c, m)[Len(c) + 1] = m
           /\ \A i \in 1..Len(c) : Append(c, m)[i] = c[i] /\ c[i] \in Messages
  BY AppendProperties, LenProperties, ElementOfSeq

\* The user answers calls that are open, or none of them.
LEMMA UserPairs ==
    ASSUME NEW n \in Nat, NEW c \in Seq(Messages), NEW open, WellPaired(c, open, n),
           NEW m \in Messages, IsUser(m), m.uses = {}, m.results \subseteq open
    PROVE  WellPaired(Append(c, m), open \ m.results, n)
<1> DEFINE d == Append(c, m)
           l == Len(c)
<1>1. /\ d \in Seq(Messages) /\ l \in Nat /\ Len(d) = l + 1 /\ d[l + 1] = m
      /\ \A i \in 1..l : d[i] = c[i] /\ c[i] \in Messages
  BY ChainAppend
<1> HIDE DEF d, l
<1>2. /\ \A i \in 1..Len(d) : i \in 1..l \/ i = l + 1
      /\ l + 1 \in 1..Len(d) /\ \A i \in 1..l : i \in 1..Len(d)
  BY <1>1
<1>3. ASSUME NEW a \in 1..l, NEW i \in 1..l, UsersBehind(c, a, i) PROVE UsersBehind(d, a, i)
  <2>1. \A k \in (a + 1)..i : k \in 1..l
    BY <1>1
  <2> QED
    BY <1>1, <1>3, <2>1 DEF UsersBehind
<1>4. ASSUME NEW a \in 1..l, UsersBehind(c, a, l) PROVE UsersBehind(d, a, l + 1)
  <2>1. \A k \in (a + 1)..(l + 1) : k = l + 1 \/ (k \in 1..l /\ k \in (a + 1)..l)
    BY <1>1
  <2> QED
    BY <1>1, <1>4, <2>1 DEF UsersBehind
<1>5. Shape(d)
  BY <1>1, <1>2 DEF WellPaired, Shape, l
<1>6. Grounded(d)
  <2> SUFFICES ASSUME NEW i \in 1..Len(d), NEW id \in d[i].results
               PROVE  \E a \in 1..(i - 1) : Asker(d, a, i, id)
    BY DEF Grounded
  <2>1. CASE i \in 1..l
    <3>1. id \in c[i].results
      BY <1>1, <2>1
    <3>2. PICK a \in 1..(i - 1) : Asker(c, a, i, id)
      BY <2>1, <3>1 DEF WellPaired, Grounded, l
    <3>3. a \in 1..l
      BY <1>1, <2>1
    <3> QED
      BY <1>1, <1>3, <2>1, <3>2, <3>3 DEF Asker
  <2>2. CASE i = l + 1
    <3>1. id \in m.results /\ open # {}
      BY <1>1, <2>2
    <3>2. PICK a \in 1..l : open \subseteq c[a].uses /\ UsersBehind(c, a, l)
      BY <3>1 DEF WellPaired, Held, l
    <3>3. a \in 1..(i - 1)
      BY <1>1, <2>2
    <3> QED
      BY <1>1, <1>4, <2>2, <3>1, <3>2, <3>3 DEF Asker
  <2> QED
    BY <1>2, <2>1, <2>2
<1>7. Answered(d, open \ m.results)
  <2> SUFFICES ASSUME NEW a \in 1..Len(d), NEW id \in d[a].uses
               PROVE  \/ id \in open \ m.results /\ UsersBehind(d, a, Len(d))
                      \/ \E i \in (a + 1)..Len(d) : Replier(d, a, i, id)
    BY DEF Answered
  <2>1. a \in 1..l /\ id \in c[a].uses
    BY <1>1, <1>2
  <2>2. \/ id \in open /\ UsersBehind(c, a, l)
        \/ \E i \in (a + 1)..l : Replier(c, a, i, id)
    BY <2>1 DEF WellPaired, Answered, l
  <2>3. CASE id \in open /\ UsersBehind(c, a, l)
    <3>1. UsersBehind(d, a, l + 1)
      BY <1>4, <2>1, <2>3
    <3>2. l + 1 \in (a + 1)..Len(d)
      BY <1>1, <2>1
    <3> QED
      BY <1>1, <2>3, <3>1, <3>2 DEF Replier
  <2>4. ASSUME NEW i \in (a + 1)..l, Replier(c, a, i, id)
        PROVE  \E j \in (a + 1)..Len(d) : Replier(d, a, j, id)
    <3>1. i \in 1..l /\ i \in (a + 1)..Len(d)
      BY <1>1, <2>1
    <3> QED
      BY <1>1, <1>3, <2>1, <2>4, <3>1 DEF Replier
  <2> QED
    BY <2>2, <2>3, <2>4
<1>8. Held(d, open \ m.results)
  <2> SUFFICES ASSUME open \ m.results # {}
               PROVE  \E a \in 1..Len(d) : /\ open \ m.results \subseteq d[a].uses
                                           /\ UsersBehind(d, a, Len(d))
    BY DEF Held
  <2>1. PICK a \in 1..l : open \subseteq c[a].uses /\ UsersBehind(c, a, l)
    BY DEF WellPaired, Held, l
  <2> QED
    BY <1>1, <1>2, <1>4, <2>1
<1>9. Apart(d)
  BY <1>1, <1>2 DEF WellPaired, Apart, l
<1>10. Known(d, n)
  BY <1>1, <1>2 DEF WellPaired, Known, l
<1> QED
  BY <1>5, <1>6, <1>7, <1>8, <1>9, <1>10 DEF WellPaired, d

\* A reply, when nothing is open, makes new calls.
LEMMA ReplyPairs ==
    ASSUME NEW n \in Nat, NEW c \in Seq(Messages), WellPaired(c, {}, n),
           NEW m \in Messages, IsAssistant(m), m.results = {},
           \A id \in m.uses : id[1] = n + 1
    PROVE  WellPaired(Append(c, m), m.uses, n + 1)
<1> DEFINE d == Append(c, m)
           l == Len(c)
<1>1. /\ d \in Seq(Messages) /\ l \in Nat /\ Len(d) = l + 1 /\ d[l + 1] = m
      /\ \A i \in 1..l : d[i] = c[i] /\ c[i] \in Messages
  BY ChainAppend
<1> HIDE DEF d, l
<1>2. /\ \A i \in 1..Len(d) : i \in 1..l \/ i = l + 1
      /\ l + 1 \in 1..Len(d) /\ \A i \in 1..l : i \in 1..Len(d)
  BY <1>1
<1>3. ASSUME NEW a \in 1..l, NEW i \in 1..l, UsersBehind(c, a, i) PROVE UsersBehind(d, a, i)
  <2>1. \A k \in (a + 1)..i : k \in 1..l
    BY <1>1
  <2> QED
    BY <1>1, <1>3, <2>1 DEF UsersBehind
<1>4. UsersBehind(d, l + 1, l + 1)
  BY <1>1 DEF UsersBehind
<1>5. Shape(d)
  BY <1>1, <1>2 DEF WellPaired, Shape, l
<1>6. Grounded(d)
  <2> SUFFICES ASSUME NEW i \in 1..Len(d), NEW id \in d[i].results
               PROVE  \E a \in 1..(i - 1) : Asker(d, a, i, id)
    BY DEF Grounded
  <2>1. i \in 1..l /\ id \in c[i].results
    BY <1>1, <1>2
  <2>2. PICK a \in 1..(i - 1) : Asker(c, a, i, id)
    BY <2>1 DEF WellPaired, Grounded, l
  <2>3. a \in 1..l
    BY <1>1, <2>1
  <2> QED
    BY <1>1, <1>3, <2>1, <2>2, <2>3 DEF Asker
<1>7. Answered(d, m.uses)
  <2> SUFFICES ASSUME NEW a \in 1..Len(d), NEW id \in d[a].uses
               PROVE  \/ id \in m.uses /\ UsersBehind(d, a, Len(d))
                      \/ \E i \in (a + 1)..Len(d) : Replier(d, a, i, id)
    BY DEF Answered
  <2>1. CASE a = l + 1
    BY <1>1, <1>4, <2>1
  <2>2. CASE a \in 1..l
    <3>1. PICK i \in (a + 1)..l : Replier(c, a, i, id)
      BY <1>1, <2>2 DEF WellPaired, Answered, l
    <3>2. i \in 1..l /\ i \in (a + 1)..Len(d)
      BY <1>1, <2>2
    <3> QED
      BY <1>1, <1>3, <2>2, <3>1, <3>2 DEF Replier
  <2> QED
    BY <1>2, <2>1, <2>2
<1>8. Held(d, m.uses)
  BY <1>1, <1>2, <1>4 DEF Held
<1>9. Apart(d)
  <2>1. \A a \in 1..l : d[a].uses \cap m.uses = {}
    <3> SUFFICES ASSUME NEW a \in 1..l, NEW id \in d[a].uses, id \in m.uses PROVE FALSE
      OBVIOUS
    <3>1. id \in CallIds /\ id[1] = n + 1
      BY DEF Messages
    <3>2. id[1] <= n
      BY <1>1 DEF WellPaired, Known, l
    <3> QED
      BY <3>1, <3>2
  <2> QED
    BY <1>1, <1>2, <2>1 DEF WellPaired, Apart, l
<1>10. Known(d, n + 1)
  <2> SUFFICES ASSUME NEW a \in 1..Len(d), NEW id \in d[a].uses PROVE id[1] <= n + 1
    BY DEF Known
  <2>1. CASE a = l + 1
    BY <1>1, <2>1
  <2>2. CASE a \in 1..l
    <3>1. id[1] <= n /\ id \in CallIds
      BY <1>1, <2>2 DEF WellPaired, Known, l, Messages
    <3>2. id[1] \in Nat
      BY <3>1 DEF CallIds
    <3> QED
      BY <3>1, <3>2
  <2> QED
    BY <1>2, <2>1, <2>2
<1> QED
  BY <1>5, <1>6, <1>7, <1>8, <1>9, <1>10 DEF WellPaired, d

\* A chain that holds nothing, or a summary only, is paired.
LEMMA NothingPairs ==
    ASSUME NEW n \in Nat
    PROVE  /\ WellPaired(<<>>, {}, n)
           /\ WellPaired(<<Text("system", Summary)>>, {}, n)
<1>1. WellPaired(<<>>, {}, n)
  BY DEF WellPaired, Shape, Grounded, Answered, Held, Apart, Known
<1> DEFINE c == <<Text("system", Summary)>>
<1>2. Len(c) = 1 /\ c[1].uses = {} /\ c[1].results = {}
  BY DEF Text
<1> HIDE DEF c
<1>3. WellPaired(c, {}, n)
  <2>1. \A i \in 1..Len(c) : c[i].uses = {} /\ c[i].results = {}
    BY <1>2
  <2> QED
    BY <2>1 DEF WellPaired, Shape, Grounded, Answered, Held, Apart, Known
<1> QED
  BY <1>1, <1>3 DEF c

-----------------------------------------------------------------------------
(* A compaction.                                                           *)

\* The messages of r are those of e at h; those left out neither call nor answer.
LeavesOut(e, r, h) ==
    /\ h \in [1..Len(r) -> 1..Len(e)]
    /\ \A j \in 1..Len(r) : r[j] = e[h[j]]
    /\ \A j, k \in 1..Len(r) : j < k => h[j] < h[k]
    /\ \A i \in 1..Len(e) :
          e[i].uses # {} \/ e[i].results # {} => \E j \in 1..Len(r) : h[j] = i

\* Such messages may be dropped.
LEMMA DroppedPairs ==
    ASSUME NEW n \in Nat, NEW e \in Seq(Messages), WellPaired(e, {}, n),
           NEW r \in Seq(Messages), NEW h, LeavesOut(e, r, h)
    PROVE  WellPaired(r, {}, n)
<1>0. /\ h \in [1..Len(r) -> 1..Len(e)]
      /\ \A j \in 1..Len(r) : r[j] = e[h[j]]
      /\ \A j, k \in 1..Len(r) : j < k => h[j] < h[k]
      /\ \A i \in 1..Len(e) :
            e[i].uses # {} \/ e[i].results # {} => \E j \in 1..Len(r) : h[j] = i
  BY DEF LeavesOut
<1>1. Len(e) \in Nat /\ Len(r) \in Nat /\ \A j \in 1..Len(r) : h[j] \in 1..Len(e)
  BY <1>0, LenProperties
<1>2. \A j, k \in 1..Len(r) : h[j] < h[k] => j < k
  <2> SUFFICES ASSUME NEW j \in 1..Len(r), NEW k \in 1..Len(r), h[j] < h[k], ~(j < k)
               PROVE  FALSE
    OBVIOUS
  <2>1. j = k \/ k < j
    BY <1>1
  <2>2. h[j] = h[k] \/ h[k] < h[j]
    BY <1>0, <2>1
  <2> QED
    BY <1>1, <2>2
<1>3. ASSUME NEW b \in 1..Len(r), NEW j \in 1..Len(r), UsersBehind(e, h[b], h[j])
      PROVE  UsersBehind(r, b, j)
  <2> SUFFICES ASSUME NEW k \in (b + 1)..j PROVE IsUser(r[k])
    BY DEF UsersBehind
  <2>1. k \in 1..Len(r) /\ b < k /\ (k = j \/ k < j)
    BY <1>1
  <2>2. h[b] < h[k] /\ (h[k] = h[j] \/ h[k] < h[j])
    BY <1>0, <2>1
  <2>3. h[k] \in (h[b] + 1)..h[j]
    BY <1>1, <2>1, <2>2
  <2> QED
    BY <1>0, <1>3, <2>1, <2>3 DEF UsersBehind
<1>4. Shape(r)
  BY <1>0, <1>1 DEF WellPaired, Shape
<1>5. Grounded(r)
  <2> SUFFICES ASSUME NEW j \in 1..Len(r), NEW id \in r[j].results
               PROVE  \E b \in 1..(j - 1) : Asker(r, b, j, id)
    BY DEF Grounded
  <2>1. PICK a \in 1..(h[j] - 1) : Asker(e, a, h[j], id)
    BY <1>0, <1>1 DEF WellPaired, Grounded
  <2>2. a \in 1..Len(e) /\ a < h[j]
    BY <1>1
  <2>3. PICK b \in 1..Len(r) : h[b] = a
    BY <1>0, <2>1, <2>2 DEF Asker
  <2>4. b < j
    BY <1>2, <2>2, <2>3
  <2>5. b \in 1..(j - 1)
    BY <1>1, <2>4
  <2>6. Asker(r, b, j, id)
    BY <1>0, <1>3, <2>1, <2>3 DEF Asker
  <2> QED
    BY <2>5, <2>6
<1>6. Answered(r, {})
  <2> SUFFICES ASSUME NEW b \in 1..Len(r), NEW id \in r[b].uses
               PROVE  \E j \in (b + 1)..Len(r) : Replier(r, b, j, id)
    BY DEF Answered
  <2>1. PICK i \in (h[b] + 1)..Len(e) : Replier(e, h[b], i, id)
    BY <1>0, <1>1 DEF WellPaired, Answered
  <2>2. i \in 1..Len(e) /\ h[b] < i
    BY <1>1
  <2>3. PICK j \in 1..Len(r) : h[j] = i
    BY <1>0, <2>1, <2>2 DEF Replier
  <2>4. b < j
    BY <1>2, <2>2, <2>3
  <2>5. j \in (b + 1)..Len(r)
    BY <1>1, <2>4
  <2>6. Replier(r, b, j, id)
    BY <1>0, <1>3, <2>1, <2>3 DEF Replier
  <2> QED
    BY <2>5, <2>6
<1>7. Apart(r)
  <2> SUFFICES ASSUME NEW a \in 1..Len(r), NEW b \in 1..Len(r), a # b
               PROVE  r[a].uses \cap r[b].uses = {}
    BY DEF Apart
  <2>1. a < b \/ b < a
    BY <1>1
  <2>2. h[a] < h[b] \/ h[b] < h[a]
    BY <1>0, <2>1
  <2>3. h[a] # h[b]
    BY <1>1, <2>2
  <2>4. e[h[a]].uses \cap e[h[b]].uses = {}
    BY <1>1, <2>3 DEF WellPaired, Apart
  <2> QED
    BY <1>0, <2>4
<1>8. Known(r, n) /\ Held(r, {})
  BY <1>0, <1>1 DEF WellPaired, Known, Held
<1> QED
  BY <1>4, <1>5, <1>6, <1>7, <1>8 DEF WellPaired

\* Where the cut of a compaction is.
LEMMA CompactedIs ==
    ASSUME NEW c \in Seq(Messages)
    PROVE  \E o \in Int :
              /\ -1 <= o /\ o <= Len(c)
              /\ Len(Compacted(c)) = Len(c) - o
              /\ 1 \in 1..Len(Compacted(c)) /\ Compacted(c)[1] = Text("user", Summary)
              /\ \A i \in 2..Len(Compacted(c)) : o + i \in 1..Len(c) /\ Compacted(c)[i] = c[o + i]
<1> DEFINE l == Len(c)
           start == l - Keep + 1
           cut == IF start <= 1 THEN 1
                  ELSE IF IsUser(c[start]) /\ c[start].results # {} THEN start - 1
                  ELSE start
           d == Compacted(c)
           head == <<Text("user", Summary)>>
           rest == SubSeq(c, cut, l)
<1>1. Keep \in Nat /\ Keep # 0 /\ l \in Nat /\ \A i \in 1..l : c[i] \in Messages
  BY KeepAssumption, LenProperties, ElementOfSeq
<1>2. cut \in Int /\ 1 <= cut /\ cut <= l + 1
  BY <1>1
<1>3. d = head \o rest
  BY DEF Compacted
<1> HIDE DEF cut, l
<1>4. /\ rest \in Seq(Messages)
      /\ Len(rest) = IF cut <= l THEN l - cut + 1 ELSE 0
      /\ \A i \in 1..l - cut + 1 : rest[i] = c[cut + i - 1]
  BY <1>1, <1>2, SubSeqProperties
<1>5. head \in Seq(Messages) /\ Len(head) = 1 /\ head[1] = Text("user", Summary)
  BY DEF Text, Messages, Labels
<1> HIDE DEF rest, head
<1>6. Len(rest) = l - cut + 1
  BY <1>1, <1>2, <1>4
<1>7. /\ Len(d) = Len(head) + Len(rest)
      /\ \A i \in 1..Len(d) : d[i] = IF i <= Len(head) THEN head[i] ELSE rest[i - Len(head)]
  BY <1>3, <1>4, <1>5, ConcatProperties
<1> HIDE DEF d
<1>8. Len(d) = l - (cut - 2) /\ 1 \in 1..Len(d)
  BY <1>1, <1>2, <1>5, <1>6, <1>7
<1>9. d[1] = Text("user", Summary)
  BY <1>5, <1>7, <1>8
<1>10. ASSUME NEW i \in 2..Len(d)
       PROVE  cut - 2 + i \in 1..l /\ d[i] = c[cut - 2 + i]
  <2>1. /\ i \in 1..Len(d) /\ ~(i <= 1) /\ i - 1 \in 1..l - cut + 1
        /\ cut - 2 + i \in 1..l /\ cut + (i - 1) - 1 = cut - 2 + i
    BY <1>1, <1>2, <1>8
  <2>2. d[i] = rest[i - 1]
    BY <1>5, <1>7, <2>1
  <2>3. rest[i - 1] = c[cut + (i - 1) - 1]
    BY <1>4, <2>1
  <2> QED
    BY <2>1, <2>2, <2>3
<1>11. cut - 2 \in Int /\ -1 <= cut - 2 /\ cut - 2 <= l
  BY <1>1, <1>2
<1> QED
  BY <1>8, <1>9, <1>10, <1>11 DEF d, l

\* What is left after a cut is paired again by the repair.
LEMMA CompactionPairs ==
    ASSUME NEW n \in Nat, NEW c \in Seq(Messages), WellPaired(c, {}, n)
    PROVE  WellPaired(NormalizedCompactedChain(c), {}, n)
<1> DEFINE d == Compacted(c)
           Asked(i) == IF i > 1 /\ IsAssistant(d[i - 1]) THEN d[i - 1].uses ELSE {}
           Fixed(i) == IF IsUser(d[i])
                       THEN [d[i] EXCEPT !.results = (@ \cap Uses(d)) \cup Asked(i)]
                       ELSE d[i]
           e == [i \in DOMAIN d |-> Fixed(i)]
           q == [i \in DOMAIN e |-> IfContent(e[i])]
           r == NormalizedCompactedChain(c)
<1>1. d \in Seq(Messages) /\ r \in Seq(Messages)
  BY CompactedTyped, RepairedTyped DEF NormalizedCompactedChain
<1>2. r = FlattenSeq(q)
  BY DEF NormalizedCompactedChain, Repaired, Emit
<1>3. PICK o \in Int :
         /\ -1 <= o /\ o <= Len(c)
         /\ Len(d) = Len(c) - o
         /\ 1 \in 1..Len(d) /\ d[1] = Text("user", Summary)
         /\ \A i \in 2..Len(d) : o + i \in 1..Len(c) /\ d[i] = c[o + i]
  BY CompactedIs
<1> HIDE DEF d, r
<1>4. /\ DOMAIN d = 1..Len(d) /\ Len(d) \in Nat /\ Len(c) \in Nat
      /\ \A i \in 1..Len(d) : d[i] \in Messages /\ (i = 1 \/ i \in 2..Len(d))
      /\ \A i \in 1..Len(c) : c[i] \in Messages
  BY <1>1, LenProperties, ElementOfSeq
<1>5. ASSUME NEW i \in 1..Len(d)
      PROVE  /\ e[i] \in Messages /\ e[i].role = d[i].role /\ e[i].uses = d[i].uses
             /\ IsUser(d[i]) => e[i].results = (d[i].results \cap Uses(d)) \cup Asked(i)
             /\ ~IsUser(d[i]) => e[i] = d[i]
  <2>1. Asked(i) \in SUBSET CallIds
    <3>1. CASE i > 1
      <4>1. i - 1 \in 1..Len(d)
        BY <1>4, <3>1
      <4> QED
        BY <1>4, <4>1 DEF Messages
    <3> QED
      BY <3>1
  <2>2. e[i] = Fixed(i) /\ d[i] \in Messages
    BY <1>4
  <2> HIDE DEF Asked, e
  <2> QED
    BY <2>1, <2>2 DEF Messages
<1>6. DOMAIN e = 1..Len(d) /\ Len(e) = Len(d) /\ e \in Seq(Messages)
  <2>1. DOMAIN e = 1..Len(d)
    BY <1>4
  <2>2. e = [i \in 1..Len(d) |-> e[i]]
    BY <2>1
  <2> HIDE DEF e
  <2> QED
    BY <1>4, <1>5, <2>1, <2>2
<1>7. Asked(1) = {} /\ d[1].uses = {} /\ d[1].results = {}
  BY <1>3 DEF Text
<1>8. ASSUME NEW b \in 2..Len(d), NEW i \in 2..Len(d), UsersBehind(c, o + b, o + i)
      PROVE  UsersBehind(e, b, i)
  <2> HIDE DEF e
  <2> SUFFICES ASSUME NEW k \in (b + 1)..i PROVE IsUser(e[k])
    BY DEF UsersBehind
  <2>1. k \in 2..Len(d) /\ o + k \in (o + b + 1)..(o + i) /\ k \in 1..Len(d)
    BY <1>3, <1>4
  <2>2. IsUser(c[o + k])
    BY <1>8, <2>1 DEF UsersBehind
  <2> QED
    BY <1>3, <1>5, <2>1, <2>2 DEF IsUser
<1> HIDE DEF e
<1>9. WellPaired(e, {}, n)
  <2>1. Shape(e)
    <3> SUFFICES ASSUME NEW i \in 1..Len(d)
                 PROVE  /\ e[i].uses # {} => IsAssistant(e[i])
                        /\ e[i].results # {} => IsUser(e[i])
      BY <1>6 DEF Shape
    <3>1. d[i].uses # {} => IsAssistant(d[i])
      BY <1>3, <1>4, <1>7 DEF WellPaired, Shape
    <3>2. d[i].results # {} => IsUser(d[i])
      BY <1>3, <1>4, <1>7 DEF WellPaired, Shape
    <3> QED
      BY <1>5, <3>1, <3>2 DEF IsUser, IsAssistant
  <2>2. Grounded(e)
    <3> SUFFICES ASSUME NEW i \in 1..Len(d), NEW id \in e[i].results
                 PROVE  \E a \in 1..(i - 1) : Asker(e, a, i, id)
      BY <1>6 DEF Grounded
    <3>1. IsUser(e[i]) /\ IsUser(d[i])
      BY <1>5, <1>6, <2>1 DEF Shape, IsUser
    <3>2. id \in (d[i].results \cap Uses(d)) \cup Asked(i)
      BY <1>5, <3>1
    <3>3. i \in 2..Len(d)
      BY <1>4, <1>7, <3>2
    <3>4. CASE id \in Asked(i)
      <4>1. i - 1 \in 1..(i - 1) /\ i - 1 \in 1..Len(d)
        BY <1>4, <3>3
      <4>2. id \in e[i - 1].uses
        BY <1>5, <3>4, <4>1
      <4>3. UsersBehind(e, i - 1, i)
        <5>1. \A k \in (i - 1 + 1)..i : k = i
          BY <1>4
        <5> QED
          BY <3>1, <5>1 DEF UsersBehind
      <4> QED
        BY <4>1, <4>2, <4>3 DEF Asker
    <3>5. CASE id \in d[i].results /\ id \in Uses(d)
      <4> DEFINE p == o + i
      <4>1. p \in 1..Len(c) /\ id \in c[p].results
        BY <1>3, <3>3, <3>5
      <4>2. PICK a \in 1..(p - 1) : Asker(c, a, p, id)
        BY <4>1 DEF WellPaired, Grounded
      <4>3. PICK b \in 1..Len(d) : id \in d[b].uses
        BY <1>4, <3>5 DEF Uses
      <4>4. b \in 2..Len(d) /\ o + b \in 1..Len(c) /\ id \in c[o + b].uses
        BY <1>3, <1>4, <1>7, <4>3
      <4>5. a \in 1..Len(c) /\ id \in c[a].uses /\ UsersBehind(c, a, p)
        BY <1>4, <4>1, <4>2 DEF Asker
      <4>6. a = o + b
        BY <4>4, <4>5 DEF WellPaired, Apart
      <4>7. b \in 1..(i - 1)
        BY <1>3, <4>2, <4>4, <4>6
      <4>8. UsersBehind(e, b, i)
        BY <1>8, <3>3, <4>4, <4>5, <4>6
      <4>9. id \in e[b].uses
        BY <1>5, <4>3
      <4> QED
        BY <4>7, <4>8, <4>9 DEF Asker
    <3> QED
      BY <3>2, <3>4, <3>5
  <2>3. Answered(e, {})
    <3> SUFFICES ASSUME NEW a \in 1..Len(d), NEW id \in e[a].uses
                 PROVE  \E i \in (a + 1)..Len(d) : Replier(e, a, i, id)
      BY <1>6 DEF Answered
    <3>1. id \in d[a].uses /\ id \in Uses(d)
      BY <1>4, <1>5 DEF Uses
    <3>2. a \in 2..Len(d) /\ o + a \in 1..Len(c) /\ id \in c[o + a].uses
      BY <1>3, <1>4, <1>7, <3>1
    <3> DEFINE p == o + a
    <3>3. PICK j \in (p + 1)..Len(c) : Replier(c, p, j, id)
      BY <3>2 DEF WellPaired, Answered
    <3>4. PICK i \in (a + 1)..Len(d) : j = o + i
      <4>1. j - o \in (a + 1)..Len(d) /\ j = o + (j - o)
        BY <1>3, <1>4, <3>2, <3>3
      <4> QED
        BY <4>1
    <3>5. i \in 2..Len(d) /\ i \in 1..Len(d) /\ j \in 1..Len(c)
      BY <1>3, <1>4, <3>2, <3>4
    <3>6. id \in d[i].results /\ IsUser(d[i])
      BY <1>3, <3>3, <3>4, <3>5 DEF Replier, WellPaired, Shape
    <3>7. id \in e[i].results
      BY <1>5, <3>1, <3>5, <3>6
    <3>8. UsersBehind(e, a, i)
      BY <1>8, <3>2, <3>3, <3>4, <3>5 DEF Replier
    <3> QED
      BY <3>7, <3>8 DEF Replier
  <2>4. Apart(e)
    <3> SUFFICES ASSUME NEW a \in 1..Len(d), NEW b \in 1..Len(d), a # b
                 PROVE  d[a].uses \cap d[b].uses = {}
      BY <1>5, <1>6 DEF Apart
    <3>1. CASE a = 1 \/ b = 1
      BY <1>7, <3>1
    <3>2. CASE a \in 2..Len(d) /\ b \in 2..Len(d)
      <4>1. o + a # o + b
        BY <1>3, <3>2
      <4> QED
        BY <1>3, <3>2, <4>1 DEF WellPaired, Apart
    <3> QED
      BY <1>4, <3>1, <3>2
  <2>5. Known(e, n)
    <3> SUFFICES ASSUME NEW a \in 1..Len(d), NEW id \in d[a].uses PROVE id[1] <= n
      BY <1>5, <1>6 DEF Known
    <3>1. a \in 2..Len(d)
      BY <1>4, <1>7
    <3> QED
      BY <1>3, <3>1 DEF WellPaired, Known
  <2> QED
    BY <2>1, <2>2, <2>3, <2>4, <2>5 DEF WellPaired, Held
<1>10. ASSUME NEW i \in 1..Len(e)
       PROVE  /\ q[i] \in Seq(Messages) /\ Len(q[i]) <= 1
              /\ q[i] # <<>> => q[i][1] = e[i]
              /\ e[i].uses # {} \/ e[i].results # {} => q[i] # <<>>
  <2>1. q[i] = IfContent(e[i]) /\ e[i] \in Messages
    BY <1>5, <1>6
  <2>2. <<e[i]>> # <<>> /\ <<e[i]>>[1] = e[i] /\ Len(<<e[i]>>) = 1
    OBVIOUS
  <2>3. e[i].uses # {} => ~IsUser(e[i])
    BY <1>9 DEF WellPaired, Shape, IsUser, IsAssistant
  <2> HIDE DEF q
  <2> QED
    BY <2>1, <2>2, <2>3 DEF IfContent, HasContent
<1>11. q \in Seq(Seq(Messages)) /\ Len(q) = Len(e)
  <2>1. DOMAIN q = 1..Len(e)
    BY <1>6
  <2>2. q = [i \in 1..Len(e) |-> q[i]]
    BY <2>1
  <2> HIDE DEF q
  <2> QED
    BY <1>4, <1>6, <1>10, <2>1, <2>2
<1> HIDE DEF q, e
<1>12. PICK h : Picks(q, r, h)
  BY <1>2, <1>10, <1>11, FlattenPicks
<1>13. LeavesOut(e, r, h)
  <2>1. /\ h \in [1..Len(r) -> 1..Len(e)]
        /\ \A j \in 1..Len(r) : q[h[j]] # <<>> /\ r[j] = q[h[j]][1]
        /\ \A j, k \in 1..Len(r) : j < k => h[j] < h[k]
        /\ \A i \in 1..Len(e) : q[i] # <<>> => \E j \in 1..Len(r) : h[j] = i
    BY <1>11, <1>12 DEF Picks
  <2>2. \A j \in 1..Len(r) : h[j] \in 1..Len(e)
    BY <2>1
  <2>3. \A j \in 1..Len(r) : r[j] = e[h[j]]
    BY <1>10, <2>1, <2>2
  <2>4. \A i \in 1..Len(e) :
           e[i].uses # {} \/ e[i].results # {} => \E j \in 1..Len(r) : h[j] = i
    BY <1>10, <2>1
  <2> QED
    BY <2>1, <2>3, <2>4 DEF LeavesOut
<1>14. WellPaired(r, {}, n)
  BY <1>1, <1>6, <1>9, <1>13, DroppedPairs
<1> QED
  BY <1>14 DEF r

-----------------------------------------------------------------------------
(* A request.                                                              *)

\* What merging adds to what it has merged.
Grown(acc, m) ==
    IF acc # <<>> /\ Last(acc).role = m.role
    THEN [acc EXCEPT ![Len(acc)] = Joined(@, m)]
    ELSE Append(acc, m)

\* Merging is adding the messages one by one.
LEMMA MergedIs ==
    ASSUME NEW c \in Seq(Messages)
    PROVE  \E f : /\ f[0] = <<>> /\ Merged(c) = f[Len(c)]
                  /\ \A k \in 1..Len(c) : f[k] = Grown(f[k - 1], c[k])
<1> DEFINE G == CHOOSE f : f = [n \in 0..Len(c) |->
                                   IF n = 0 THEN <<>> ELSE Grown(f[n - 1], c[n])]
           P(m) == \E f : f = [n \in 0..m |-> IF n = 0 THEN <<>> ELSE Grown(f[n - 1], c[n])]
           S == {m \in Nat : P(m)}
<1>1. 0 \in S
  <2>1. [n \in 0..0 |-> <<>>] = [n \in 0..0 |-> IF n = 0 THEN <<>>
                                               ELSE Grown([k \in 0..0 |-> <<>>][n - 1], c[n])]
    OBVIOUS
  <2>2. P(0)
    BY <2>1
  <2> QED
    BY <2>2
<1>2. ASSUME NEW m \in Nat, m \in S PROVE m + 1 \in S
  <2>1. PICK f : f = [n \in 0..m |-> IF n = 0 THEN <<>> ELSE Grown(f[n - 1], c[n])]
    BY <1>2
  <2> DEFINE x == Grown(f[m], c[m + 1])
             g == [n \in 0..(m + 1) |-> IF n = m + 1 THEN x ELSE f[n]]
  <2>2. \A n \in 0..(m + 1) : g[n] = IF n = 0 THEN <<>> ELSE Grown(g[n - 1], c[n])
    <3> TAKE n \in 0..(m + 1)
    <3> HIDE DEF x
    <3>1. CASE n = m + 1
      <4>1. g[n] = x /\ n # 0 /\ n - 1 = m /\ n - 1 \in 0..(m + 1) /\ n - 1 # m + 1
        BY <3>1
      <4>2. g[n - 1] = f[m]
        BY <4>1
      <4> QED
        BY <3>1, <4>1, <4>2 DEF x
    <3>2. CASE n # m + 1
      <4>1. n \in 0..m /\ (n # 0 => n - 1 \in 0..m /\ n - 1 # m + 1)
        BY <3>2
      <4>2. g[n] = f[n] /\ (n # 0 => g[n - 1] = f[n - 1])
        BY <3>2, <4>1
      <4>3. f[n] = IF n = 0 THEN <<>> ELSE Grown(f[n - 1], c[n])
        BY <2>1, <4>1
      <4> QED
        BY <4>2, <4>3
    <3> QED
      BY <3>1, <3>2
  <2>3. g = [n \in 0..(m + 1) |-> g[n]]
    OBVIOUS
  <2> HIDE DEF g
  <2>4. g = [n \in 0..(m + 1) |-> IF n = 0 THEN <<>> ELSE Grown(g[n - 1], c[n])]
    BY <2>2, <2>3
  <2>5. P(m + 1) /\ m + 1 \in Nat
    BY <2>4
  <2> QED
    BY <2>5, Zenon
<1>3. Len(c) \in S
  <2>1. Nat \subseteq S
    <3> HIDE DEF S
    <3> QED
      BY <1>1, <1>2, SetInduction
  <2> HIDE DEF S
  <2> QED
    BY <2>1, LenProperties
<1>4. G = [n \in 0..Len(c) |-> IF n = 0 THEN <<>> ELSE Grown(G[n - 1], c[n])]
  BY <1>3
<1>5. Merged(c) = G[Len(c)]
  BY DEF Merged, Grown
<1> HIDE DEF G
<1>6. Len(c) \in Nat
  BY LenProperties
<1>7. G[0] = <<>> /\ \A k \in 1..Len(c) : G[k] = Grown(G[k - 1], c[k])
  <2>1. 0 \in 0..Len(c) /\ \A k \in 1..Len(c) : k \in 0..Len(c) /\ k # 0
    BY <1>6
  <2> QED
    BY <1>4, <2>1
<1> QED
  BY <1>5, <1>7

\* The block of each message, in what the first n messages are merged to.
Blocks(c, n, M, b) ==
    /\ M \in Seq(Messages) /\ b \in [1..n -> 1..Len(M)]
    /\ n = 0 => M = <<>>
    /\ n # 0 => b[n] = Len(M)
    /\ \A i \in 1..n : M[b[i]].role = c[i].role
    /\ \A i \in 1..n : i # n =>
          b[i + 1] = IF c[i + 1].role = c[i].role THEN b[i] ELSE b[i] + 1
    /\ \A j \in 1..Len(M) :
          /\ \A id \in M[j].uses : \E i \in 1..n : b[i] = j /\ id \in c[i].uses
          /\ \A id \in M[j].results : \E i \in 1..n : b[i] = j /\ id \in c[i].results
    /\ \A i \in 1..n : c[i].uses \subseteq M[b[i]].uses /\ c[i].results \subseteq M[b[i]].results

\* One message more goes into the last block or makes a new one.
LEMMA BlocksGrow ==
    ASSUME NEW c \in Seq(Messages), NEW n \in Nat, n + 1 \in 1..Len(c),
           NEW M, NEW b, Blocks(c, n, M, b)
    PROVE  \E g : Blocks(c, n + 1, Grown(M, c[n + 1]), g)
<1> DEFINE m == c[n + 1]
           l == Len(M)
           g == [i \in 1..(n + 1) |-> IF i = n + 1 THEN Len(Grown(M, m)) ELSE b[i]]
           N == Grown(M, m)
<1>1. m \in Messages /\ \A i \in 1..n : c[i] \in Messages
  BY ElementOfSeq, LenProperties
<1>2. /\ M \in Seq(Messages) /\ l \in Nat /\ (\A j \in 1..l : M[j] \in Messages)
      /\ \A i \in 1..n : b[i] \in 1..l
      /\ M = <<>> <=> l = 0
  BY LenProperties, ElementOfSeq, EmptySeq DEF Blocks
<1>3. n # 0 => l # 0 /\ b[n] = l /\ n \in 1..n
  BY <1>2 DEF Blocks
<1>4. n = 0 => l = 0
  BY EmptySeq DEF Blocks
<1>5. \A i \in 1..(n + 1) : i = n + 1 \/ (i \in 1..n /\ i # n + 1)
  OBVIOUS
<1>6. CASE l # 0 /\ M[l].role = m.role
  <2> DEFINE x == Joined(M[l], m)
  <2>1. N = [M EXCEPT ![l] = x]
    BY <1>2, <1>6 DEF Grown, Last
  <2>2. l \in 1..l /\ M[l] \in Messages
    BY <1>2, <1>6
  <2>3. /\ x \in Messages /\ x.role = M[l].role /\ x.uses = M[l].uses \cup m.uses
        /\ x.results = M[l].results \cup m.results
    BY <1>1, <2>2 DEF Joined, Messages
  <2> HIDE DEF x
  <2>4. /\ N \in Seq(Messages) /\ Len(N) = l /\ N[l] = x
        /\ \A j \in 1..l : j # l => N[j] = M[j]
    BY <1>2, <2>1, <2>2, <2>3, ExceptSeq
  <2> HIDE DEF N, l, m
  <2>5. g = [i \in 1..(n + 1) |-> IF i = n + 1 THEN l ELSE b[i]]
    BY <2>4 DEF N
  <2> HIDE DEF g
  <2>6. g[n + 1] = l /\ n + 1 \in 1..(n + 1) /\ \A i \in 1..n : g[i] = b[i] /\ i \in 1..(n + 1)
    BY <2>5
  <2>7. g \in [1..(n + 1) -> 1..l]
    BY <1>2, <1>5, <2>2, <2>5
  <2>8. \A j \in 1..l : /\ N[j].role = M[j].role
                        /\ M[j].uses \subseteq N[j].uses /\ M[j].results \subseteq N[j].results
    BY <2>3, <2>4
  <2>9. \A i \in 1..(n + 1) : N[g[i]].role = c[i].role
    <3>1. \A i \in 1..n : N[g[i]].role = c[i].role
      BY <1>2, <2>6, <2>8 DEF Blocks
    <3>2. N[g[n + 1]].role = c[n + 1].role
      BY <1>6, <2>2, <2>6, <2>8 DEF m
    <3> QED
      BY <1>5, <3>1, <3>2
  <2>10. \A i \in 1..(n + 1) : i # n + 1 =>
            g[i + 1] = IF c[i + 1].role = c[i].role THEN g[i] ELSE g[i] + 1
    <3> SUFFICES ASSUME NEW i \in 1..n
                 PROVE  g[i + 1] = IF c[i + 1].role = c[i].role THEN g[i] ELSE g[i] + 1
      BY <1>5
    <3>1. CASE i = n
      <4>1. n # 0 /\ b[n] = l
        BY <1>3, <3>1
      <4>2. c[n].role = M[l].role
        BY <1>3, <4>1 DEF Blocks
      <4>3. g[n] = l /\ g[n + 1] = l /\ c[n + 1].role = c[n].role
        BY <1>3, <1>6, <2>6, <4>1, <4>2 DEF m
      <4> QED
        BY <3>1, <4>3
    <3>2. CASE i # n
      <4>1. i + 1 \in 1..n
        BY <3>2
      <4> QED
        BY <2>6, <3>2, <4>1 DEF Blocks
    <3> QED
      BY <3>1, <3>2
  <2>11. ASSUME NEW j \in 1..l
         PROVE  /\ \A id \in N[j].uses : \E i \in 1..(n + 1) : g[i] = j /\ id \in c[i].uses
                /\ \A id \in N[j].results : \E i \in 1..(n + 1) : g[i] = j /\ id \in c[i].results
    <3>0. /\ \A id \in M[j].uses : \E i \in 1..n : b[i] = j /\ id \in c[i].uses
          /\ \A id \in M[j].results : \E i \in 1..n : b[i] = j /\ id \in c[i].results
      BY DEF Blocks, l
    <3>1. /\ \A id \in M[j].uses : \E i \in 1..(n + 1) : g[i] = j /\ id \in c[i].uses
          /\ \A id \in M[j].results : \E i \in 1..(n + 1) : g[i] = j /\ id \in c[i].results
      BY <2>6, <3>0
    <3>2. CASE j # l
      BY <2>4, <3>1, <3>2
    <3>3. CASE j = l
      <4>1. N[j].uses = M[j].uses \cup c[n + 1].uses /\ N[j].results = M[j].results \cup c[n + 1].results
        BY <2>3, <2>4, <3>3 DEF m
      <4> QED
        BY <2>6, <3>1, <3>3, <4>1
    <3> QED
      BY <3>2, <3>3
  <2>12. \A i \in 1..(n + 1) : c[i].uses \subseteq N[g[i]].uses /\ c[i].results \subseteq N[g[i]].results
    <3>1. \A i \in 1..n : c[i].uses \subseteq N[g[i]].uses /\ c[i].results \subseteq N[g[i]].results
      BY <1>2, <2>6, <2>8 DEF Blocks
    <3>2. c[n + 1].uses \subseteq N[l].uses /\ c[n + 1].results \subseteq N[l].results
      BY <2>3, <2>4 DEF m
    <3> QED
      BY <1>5, <2>6, <3>1, <3>2
  <2>13. Blocks(c, n + 1, N, g)
    BY <2>4, <2>6, <2>7, <2>9, <2>10, <2>11, <2>12 DEF Blocks
  <2> QED
    BY <2>13 DEF N, m
<1>7. CASE ~(l # 0 /\ M[l].role = m.role)
  <2>1. N = Append(M, m)
    BY <1>2, <1>7 DEF Grown, Last
  <2>2. /\ N \in Seq(Messages) /\ Len(N) = l + 1 /\ N[l + 1] = m
        /\ \A j \in 1..l : N[j] = M[j]
    BY <1>1, <1>2, <2>1, AppendProperties
  <2> HIDE DEF N, l, m
  <2>3. g = [i \in 1..(n + 1) |-> IF i = n + 1 THEN l + 1 ELSE b[i]]
    BY <2>2 DEF N
  <2> HIDE DEF g
  <2>4. /\ g[n + 1] = l + 1 /\ n + 1 \in 1..(n + 1)
        /\ \A i \in 1..n : g[i] = b[i] /\ i \in 1..(n + 1)
    BY <2>3
  <2>5. g \in [1..(n + 1) -> 1..(l + 1)]
    <3>1. \A i \in 1..n : b[i] \in 1..(l + 1)
      BY <1>2
    <3>2. l + 1 \in 1..(l + 1)
      BY <1>2
    <3> QED
      BY <1>5, <2>3, <3>1, <3>2
  <2>6. \A i \in 1..(n + 1) : N[g[i]].role = c[i].role
    <3>0. \A i \in 1..n : N[g[i]] = M[b[i]]
      BY <1>2, <2>2, <2>4
    <3>1. \A i \in 1..n : N[g[i]].role = c[i].role
      BY <3>0 DEF Blocks
    <3>2. N[g[n + 1]].role = c[n + 1].role
      BY <2>2, <2>4 DEF m
    <3> QED
      BY <1>5, <3>1, <3>2
  <2>7. \A i \in 1..(n + 1) : i # n + 1 =>
            g[i + 1] = IF c[i + 1].role = c[i].role THEN g[i] ELSE g[i] + 1
    <3> SUFFICES ASSUME NEW i \in 1..n
                 PROVE  g[i + 1] = IF c[i + 1].role = c[i].role THEN g[i] ELSE g[i] + 1
      BY <1>5
    <3>1. CASE i = n
      <4>1. n # 0 /\ b[n] = l /\ l # 0 /\ n \in 1..n
        BY <1>3, <3>1
      <4>2. c[n].role = M[l].role
        BY <4>1 DEF Blocks
      <4>3. g[n] = l /\ g[n + 1] = l + 1 /\ c[n + 1].role # c[n].role
        BY <1>7, <2>4, <4>1, <4>2 DEF m
      <4> QED
        BY <3>1, <4>3
    <3>2. CASE i # n
      <4>1. i + 1 \in 1..n
        BY <3>2
      <4> QED
        BY <2>4, <3>2, <4>1 DEF Blocks
    <3> QED
      BY <3>1, <3>2
  <2>8. ASSUME NEW j \in 1..(l + 1)
        PROVE  /\ \A id \in N[j].uses : \E i \in 1..(n + 1) : g[i] = j /\ id \in c[i].uses
               /\ \A id \in N[j].results : \E i \in 1..(n + 1) : g[i] = j /\ id \in c[i].results
    <3>1. CASE j \in 1..l
      <4>0. /\ \A id \in M[j].uses : \E i \in 1..n : b[i] = j /\ id \in c[i].uses
            /\ \A id \in M[j].results : \E i \in 1..n : b[i] = j /\ id \in c[i].results
        BY <3>1 DEF Blocks, l
      <4>1. /\ \A id \in M[j].uses : \E i \in 1..(n + 1) : g[i] = j /\ id \in c[i].uses
            /\ \A id \in M[j].results : \E i \in 1..(n + 1) : g[i] = j /\ id \in c[i].results
        BY <2>4, <4>0
      <4> QED
        BY <2>2, <3>1, <4>1
    <3>2. CASE j = l + 1
      BY <2>2, <2>4, <3>2 DEF m
    <3>3. j \in 1..l \/ j = l + 1
      BY <1>2
    <3> QED
      BY <3>1, <3>2, <3>3
  <2>9. \A i \in 1..(n + 1) : c[i].uses \subseteq N[g[i]].uses /\ c[i].results \subseteq N[g[i]].results
    <3>0. \A i \in 1..n : N[g[i]] = M[b[i]]
      BY <1>2, <2>2, <2>4
    <3>1. \A i \in 1..n : c[i].uses \subseteq N[g[i]].uses /\ c[i].results \subseteq N[g[i]].results
      BY <3>0 DEF Blocks
    <3>2. c[n + 1].uses \subseteq N[l + 1].uses /\ c[n + 1].results \subseteq N[l + 1].results
      BY <2>2 DEF m
    <3> QED
      BY <1>5, <2>4, <3>1, <3>2
  <2>10. Blocks(c, n + 1, N, g)
    BY <2>2, <2>4, <2>5, <2>6, <2>7, <2>8, <2>9 DEF Blocks
  <2> QED
    BY <2>10 DEF N, m
<1> QED
  BY <1>6, <1>7

\* So every merged chain has its blocks.
LEMMA MergedBlocks ==
    ASSUME NEW c \in Seq(Messages)
    PROVE  \E b : Blocks(c, Len(c), Merged(c), b)
<1>1. PICK f : /\ f[0] = <<>> /\ Merged(c) = f[Len(c)]
               /\ \A k \in 1..Len(c) : f[k] = Grown(f[k - 1], c[k])
  BY MergedIs
<1>2. Len(c) \in Nat
  BY LenProperties
<1> DEFINE S == {m \in Nat : m <= Len(c) => \E b : Blocks(c, m, f[m], b)}
<1>3. 0 \in S
  <2> DEFINE b == [i \in 1..0 |-> 0]
  <2>1. <<>> \in Seq(Messages) /\ Len(<<>>) = 0 /\ b \in [1..0 -> 1..0]
    OBVIOUS
  <2> HIDE DEF b
  <2>2. Blocks(c, 0, <<>>, b)
    BY <2>1 DEF Blocks
  <2> QED
    BY <1>1, <2>2
<1>4. ASSUME NEW m \in Nat, m \in S PROVE m + 1 \in S
  <2>1. ASSUME m + 1 <= Len(c) PROVE \E b : Blocks(c, m + 1, f[m + 1], b)
    <3>1. m + 1 \in 1..Len(c) /\ m <= Len(c) /\ (m + 1) - 1 = m
      BY <1>2, <2>1
    <3>2. PICK b : Blocks(c, m, f[m], b)
      BY <1>4, <3>1
    <3>3. f[m + 1] = Grown(f[m], c[m + 1])
      BY <1>1, <3>1
    <3> QED
      BY <3>1, <3>2, <3>3, BlocksGrow
  <2>2. m + 1 \in Nat
    OBVIOUS
  <2> QED
    BY <2>1, <2>2, Zenon
<1>5. Nat \subseteq S
  <2> HIDE DEF S
  <2> QED
    BY <1>3, <1>4, SetInduction
<1>6. Len(c) <= Len(c)
  BY <1>2
<1>7. \E b : Blocks(c, Len(c), f[Len(c)], b)
  BY <1>2, <1>5, <1>6
<1> QED
  BY <1>1, <1>7

\* The messages of the user that follow one of another role are one block.
LEMMA RunSame ==
    ASSUME NEW c \in Seq(Messages), NEW M, NEW b, Blocks(c, Len(c), M, b),
           NEW i \in 1..Len(c), ~IsUser(c[i]), NEW k \in (i + 1)..Len(c),
           UsersBehind(c, i, k)
    PROVE  b[k] = b[i] + 1
<1>1. Len(c) \in Nat
  BY LenProperties
<1> DEFINE S == {d \in Nat : i + 1 + d <= k => b[i + 1 + d] = b[i] + 1}
<1>2. \A m \in (i + 1)..k : c[m].role = "user"
  BY DEF UsersBehind, IsUser
<1>3. \A m \in 1..Len(c) : m # Len(c) =>
         b[m + 1] = IF c[m + 1].role = c[m].role THEN b[m] ELSE b[m] + 1
  BY DEF Blocks
<1>4. 0 \in S
  <2>1. i # Len(c) /\ i + 1 \in (i + 1)..k /\ i + 1 + 0 = i + 1
    BY <1>1
  <2>2. c[i + 1].role # c[i].role
    BY <1>2, <2>1 DEF IsUser
  <2>3. b[i + 1] = b[i] + 1
    BY <1>3, <2>1, <2>2
  <2> QED
    BY <2>1, <2>3
<1>5. ASSUME NEW d \in Nat, d \in S PROVE d + 1 \in S
  <2>1. ASSUME i + 1 + (d + 1) <= k PROVE b[i + 1 + (d + 1)] = b[i] + 1
    <3>1. PICK m \in Nat : m = i + 1 + d
      BY <1>1
    <3>2. /\ m \in (i + 1)..k /\ m + 1 \in (i + 1)..k /\ m \in 1..Len(c) /\ m # Len(c)
          /\ i + 1 + (d + 1) = m + 1
      BY <1>1, <2>1, <3>1
    <3>3. b[m] = b[i] + 1
      BY <1>5, <3>1, <3>2
    <3>4. c[m + 1].role = c[m].role
      BY <1>2, <3>2
    <3>5. b[m + 1] = b[m]
      BY <1>3, <3>2, <3>4
    <3> QED
      BY <3>2, <3>3, <3>5
  <2>2. d + 1 \in Nat
    OBVIOUS
  <2> QED
    BY <2>1, <2>2, Zenon
<1>6. Nat \subseteq S
  <2> HIDE DEF S
  <2> QED
    BY <1>4, <1>5, SetInduction
<1>7. PICK d \in Nat : i + 1 + d = k
  <2>1. k - (i + 1) \in Nat /\ i + 1 + (k - (i + 1)) = k
    BY <1>1
  <2> QED
    BY <2>1
<1>8. i + 1 + d <= k
  BY <1>1, <1>7
<1>9. b[i + 1 + d] = b[i] + 1
  BY <1>6, <1>8
<1> QED
  BY <1>7, <1>9

\* Calls and results answer each other across neighbours.
Crossed(s) ==
    \A j \in 1..Len(s) :
        /\ \A id \in s[j].uses : j + 1 \in 1..Len(s) /\ id \in s[j + 1].results
        /\ \A id \in s[j].results : j - 1 \in 1..Len(s) /\ id \in s[j - 1].uses

\* In a paired chain that is merged, calls and results are neighbours.
LEMMA MergedCrosses ==
    ASSUME NEW n \in Nat, NEW c \in Seq(Messages), WellPaired(c, {}, n)
    PROVE  Merged(c) \in Seq(Messages) /\ Shape(Merged(c)) /\ Crossed(Merged(c))
<1> DEFINE M == Merged(c)
<1>1. PICK b : Blocks(c, Len(c), M, b)
  BY MergedBlocks
<1> HIDE DEF M
<1>2. /\ Len(c) \in Nat /\ M \in Seq(Messages) /\ Len(M) \in Nat
      /\ \A i \in 1..Len(c) : b[i] \in 1..Len(M) /\ c[i] \in Messages
  BY <1>1, LenProperties, ElementOfSeq DEF Blocks
<1>3. ASSUME NEW j \in 1..Len(M)
      PROVE  /\ \A id \in M[j].uses : \E i \in 1..Len(c) : b[i] = j /\ id \in c[i].uses
             /\ \A id \in M[j].results : \E i \in 1..Len(c) : b[i] = j /\ id \in c[i].results
  BY <1>1 DEF Blocks
<1>4. \A i \in 1..Len(c) : c[i].uses # {} => ~IsUser(c[i])
  BY DEF WellPaired, Shape, IsUser, IsAssistant
<1>5. Shape(M)
  <2> SUFFICES ASSUME NEW j \in 1..Len(M)
               PROVE  /\ M[j].uses # {} => IsAssistant(M[j])
                      /\ M[j].results # {} => IsUser(M[j])
    BY DEF Shape
  <2>1. ASSUME NEW id \in M[j].uses PROVE IsAssistant(M[j])
    <3>1. PICK i \in 1..Len(c) : b[i] = j /\ id \in c[i].uses
      BY <1>3
    <3>2. IsAssistant(c[i]) /\ M[j].role = c[i].role
      BY <1>1, <3>1 DEF WellPaired, Shape, Blocks
    <3> QED
      BY <3>2 DEF IsAssistant
  <2>2. ASSUME NEW id \in M[j].results PROVE IsUser(M[j])
    <3>1. PICK i \in 1..Len(c) : b[i] = j /\ id \in c[i].results
      BY <1>3
    <3>2. IsUser(c[i]) /\ M[j].role = c[i].role
      BY <1>1, <3>1 DEF WellPaired, Shape, Blocks
    <3> QED
      BY <3>2 DEF IsUser
  <2> QED
    BY <2>1, <2>2
<1>6. Crossed(M)
  <2> SUFFICES ASSUME NEW j \in 1..Len(M)
      PROVE  /\ \A id \in M[j].uses : j + 1 \in 1..Len(M) /\ id \in M[j + 1].results
             /\ \A id \in M[j].results : j - 1 \in 1..Len(M) /\ id \in M[j - 1].uses
    BY DEF Crossed
  <2>1. ASSUME NEW id \in M[j].uses PROVE j + 1 \in 1..Len(M) /\ id \in M[j + 1].results
    <3>1. PICK i \in 1..Len(c) : b[i] = j /\ id \in c[i].uses
      BY <1>3
    <3>2. PICK k \in (i + 1)..Len(c) : Replier(c, i, k, id)
      BY <3>1 DEF WellPaired, Answered
    <3>3. b[k] = j + 1
      BY <1>1, <1>4, <3>1, <3>2, RunSame DEF Replier
    <3>4. k \in 1..Len(c)
      BY <1>2
    <3>5. c[k].results \subseteq M[b[k]].results
      BY <1>1, <3>4 DEF Blocks
    <3> QED
      BY <1>2, <3>2, <3>3, <3>4, <3>5 DEF Replier
  <2>2. ASSUME NEW id \in M[j].results PROVE j - 1 \in 1..Len(M) /\ id \in M[j - 1].uses
    <3>1. PICK i \in 1..Len(c) : b[i] = j /\ id \in c[i].results
      BY <1>3
    <3>2. PICK a \in 1..(i - 1) : Asker(c, a, i, id)
      BY <3>1 DEF WellPaired, Grounded
    <3>3. a \in 1..Len(c) /\ i \in (a + 1)..Len(c)
      BY <1>2
    <3>4. j = b[a] + 1
      BY <1>1, <1>4, <3>1, <3>2, <3>3, RunSame DEF Asker
    <3>5. b[a] = j - 1
      BY <1>2, <3>3, <3>4
    <3>6. c[a].uses \subseteq M[b[a]].uses
      BY <1>1, <3>3 DEF Blocks
    <3> QED
      BY <1>2, <3>2, <3>3, <3>5, <3>6 DEF Asker
  <2> QED
    BY <2>1, <2>2
<1> QED
  BY <1>2, <1>5, <1>6 DEF M

\* What a call without input takes with it is its result.
LEMMA CleanedCrosses ==
    ASSUME NEW s \in Seq(Messages), Shape(s), Crossed(s)
    PROVE  Cleaned(s) \in Seq(Messages) /\ Shape(Cleaned(s)) /\ Crossed(Cleaned(s))
<1> DEFINE asking == SelectLastInSeq(s, LAMBDA m : m.uses # {})
           gone == (Uses(s) \cap Blank) \ (IF asking = 0 THEN {} ELSE s[asking].uses)
           Without(m) ==
               [m EXCEPT !.uses = @ \ gone, !.results = @ \ gone,
                         !.says = IF m.uses # {} /\ m.uses \subseteq gone /\ @ = {}
                                  THEN {Placeholder} ELSE @]
           N == [i \in DOMAIN s |-> Without(s[i])]
<1>1. Cleaned(s) = N
  BY DEF Cleaned
<1> HIDE DEF gone
<1>2. DOMAIN s = 1..Len(s) /\ Len(s) \in Nat /\ \A i \in 1..Len(s) : s[i] \in Messages
  BY LenProperties, ElementOfSeq
<1>3. \A m \in Messages :
         /\ Without(m) \in Messages /\ Without(m).role = m.role
         /\ Without(m).uses = m.uses \ gone /\ Without(m).results = m.results \ gone
  BY DEF Messages, Labels
<1>4. \A i \in 1..Len(s) : N[i] = Without(s[i])
  BY <1>2
<1> HIDE DEF Without
<1>5. N \in Seq(Messages) /\ Len(N) = Len(s)
  BY <1>2, <1>3
<1> HIDE DEF N
<1>6. \A i \in 1..Len(s) : /\ N[i].role = s[i].role /\ N[i].uses = s[i].uses \ gone
                           /\ N[i].results = s[i].results \ gone
  BY <1>2, <1>3, <1>4
<1>7. Shape(N)
  BY <1>5, <1>6 DEF Shape, IsUser, IsAssistant
<1>8. Crossed(N)
  <2> SUFFICES ASSUME NEW j \in 1..Len(s)
      PROVE  /\ \A id \in N[j].uses : j + 1 \in 1..Len(s) /\ id \in N[j + 1].results
             /\ \A id \in N[j].results : j - 1 \in 1..Len(s) /\ id \in N[j - 1].uses
    BY <1>5 DEF Crossed
  <2>1. ASSUME NEW id \in N[j].uses PROVE j + 1 \in 1..Len(s) /\ id \in N[j + 1].results
    <3>1. id \in s[j].uses /\ id \notin gone
      BY <1>6
    <3>2. j + 1 \in 1..Len(s) /\ id \in s[j + 1].results
      BY <3>1 DEF Crossed
    <3> QED
      BY <1>6, <3>1, <3>2
  <2>2. ASSUME NEW id \in N[j].results PROVE j - 1 \in 1..Len(s) /\ id \in N[j - 1].uses
    <3>1. id \in s[j].results /\ id \notin gone
      BY <1>6
    <3>2. j - 1 \in 1..Len(s) /\ id \in s[j - 1].uses
      BY <3>1 DEF Crossed
    <3> QED
      BY <1>6, <3>1, <3>2
  <2> QED
    BY <2>1, <2>2
<1> QED
  BY <1>1, <1>5, <1>7, <1>8

\* Neighbours that answer each other are paired as the APIs demand.
LEMMA CrossedPairs ==
    ASSUME NEW s \in Seq(Messages), Crossed(s)
    PROVE  Paired(s)
<1>1. DOMAIN s = 1..Len(s) /\ Len(s) \in Nat
  BY LenProperties
<1> SUFFICES ASSUME NEW i \in 1..Len(s)
    PROVE  /\ s[i].uses # {} => i + 1 \in 1..Len(s) /\ s[i].uses = s[i + 1].results
           /\ s[i].results # {} => i - 1 \in 1..Len(s) /\ s[i].results = s[i - 1].uses
  BY <1>1 DEF Paired
<1>2. ASSUME s[i].uses # {}
      PROVE  i + 1 \in 1..Len(s) /\ s[i].uses = s[i + 1].results
  <2>1. i + 1 \in 1..Len(s) /\ (i + 1) - 1 = i
    BY <1>2 DEF Crossed
  <2>2. /\ \A id \in s[i].uses : id \in s[i + 1].results
        /\ \A id \in s[i + 1].results : id \in s[i].uses
    BY <2>1 DEF Crossed
  <2> QED
    BY <2>1, <2>2
<1>3. ASSUME s[i].results # {}
      PROVE  i - 1 \in 1..Len(s) /\ s[i].results = s[i - 1].uses
  <2>1. i - 1 \in 1..Len(s) /\ (i - 1) + 1 = i
    BY <1>3 DEF Crossed
  <2>2. /\ \A id \in s[i].results : id \in s[i - 1].uses
        /\ \A id \in s[i - 1].uses : id \in s[i].results
    BY <2>1 DEF Crossed
  <2> QED
    BY <2>1, <2>2
<1> QED
  BY <1>2, <1>3

\* Each message is sent as one item, or as none when it neither calls nor answers.
OneItem(m, x) ==
    /\ x \in Seq(Messages) /\ Len(x) <= 1
    /\ x # <<>> => x[1].uses = m.uses /\ x[1].results = m.results
    /\ m.uses # {} \/ m.results # {} => x # <<>>
OneItemEach(s, q) ==
    /\ q \in Seq(Seq(Messages)) /\ Len(q) = Len(s)
    /\ \A i \in 1..Len(s) : OneItem(s[i], q[i])

\* Items made so of neighbours that answer each other are paired.
LEMMA ItemsPair ==
    ASSUME NEW s \in Seq(Messages), Crossed(s), NEW q, OneItemEach(s, q)
    PROVE  Paired(FlattenSeq(q))
<1> DEFINE r == FlattenSeq(q)
<1>1. q \in Seq(Seq(Messages)) /\ Len(q) = Len(s) /\ \A i \in 1..Len(q) : Len(q[i]) <= 1
  BY DEF OneItemEach, OneItem
<1>2. r \in Seq(Messages) /\ \E h : Picks(q, r, h)
  BY <1>1, FlattenPicks
<1> HIDE DEF r
<1>3. PICK h : Picks(q, r, h)
  BY <1>2
<1>4. /\ Len(s) \in Nat /\ Len(r) \in Nat
      /\ \A j \in 1..Len(r) : h[j] \in 1..Len(s)
      /\ \A j, k \in 1..Len(r) : j < k => h[j] < h[k]
  BY <1>1, <1>2, <1>3, LenProperties DEF Picks
<1>5. \A j \in 1..Len(r) : r[j].uses = s[h[j]].uses /\ r[j].results = s[h[j]].results
  BY <1>1, <1>3 DEF Picks, OneItemEach, OneItem
<1>6. \A i \in 1..Len(s) :
         s[i].uses # {} \/ s[i].results # {} => \E j \in 1..Len(r) : h[j] = i
  BY <1>1, <1>3 DEF Picks, OneItemEach, OneItem
<1>7. ASSUME NEW j \in 1..Len(r), NEW k \in 1..Len(r), h[k] = h[j] + 1 PROVE k = j + 1
  <2>1. \A a, d \in 1..Len(r) : h[a] < h[d] => a < d
    <3> SUFFICES ASSUME NEW a \in 1..Len(r), NEW d \in 1..Len(r), h[a] < h[d], ~(a < d)
                 PROVE  FALSE
      OBVIOUS
    <3>1. a = d \/ d < a
      BY <1>4
    <3>2. h[a] = h[d] \/ h[d] < h[a]
      BY <1>4, <3>1
    <3> QED
      BY <1>4, <3>2
  <2>2. j < k
    BY <1>4, <1>7, <2>1
  <2>3. ASSUME j + 1 < k PROVE FALSE
    <3>1. j + 1 \in 1..Len(r) /\ j < j + 1
      BY <1>4, <2>3
    <3>2. h[j] < h[j + 1] /\ h[j + 1] < h[k]
      BY <1>4, <2>3, <3>1
    <3> QED
      BY <1>4, <1>7, <3>1, <3>2
  <2> QED
    BY <1>4, <2>2, <2>3
<1>8. Crossed(r)
  <2> SUFFICES ASSUME NEW j \in 1..Len(r)
      PROVE  /\ \A id \in r[j].uses : j + 1 \in 1..Len(r) /\ id \in r[j + 1].results
             /\ \A id \in r[j].results : j - 1 \in 1..Len(r) /\ id \in r[j - 1].uses
    BY DEF Crossed
  <2>1. ASSUME NEW id \in r[j].uses PROVE j + 1 \in 1..Len(r) /\ id \in r[j + 1].results
    <3>1. id \in s[h[j]].uses /\ h[j] \in 1..Len(s)
      BY <1>4, <1>5
    <3>2. h[j] + 1 \in 1..Len(s) /\ id \in s[h[j] + 1].results
      BY <3>1 DEF Crossed
    <3>3. PICK k \in 1..Len(r) : h[k] = h[j] + 1
      BY <1>6, <3>2
    <3>4. k = j + 1
      BY <1>7, <3>3
    <3> QED
      BY <1>5, <3>2, <3>3, <3>4
  <2>2. ASSUME NEW id \in r[j].results PROVE j - 1 \in 1..Len(r) /\ id \in r[j - 1].uses
    <3>1. id \in s[h[j]].results /\ h[j] \in 1..Len(s)
      BY <1>4, <1>5
    <3>2. h[j] - 1 \in 1..Len(s) /\ id \in s[h[j] - 1].uses
      BY <3>1 DEF Crossed
    <3>3. PICK k \in 1..Len(r) : h[k] = h[j] - 1
      BY <1>6, <3>2
    <3>4. j = k + 1
      BY <1>4, <1>7, <3>3
    <3>5. j - 1 = k
      BY <1>4, <3>4
    <3> QED
      BY <1>5, <3>2, <3>3, <3>5
  <2> QED
    BY <2>1, <2>2
<1> QED
  BY <1>2, <1>8, CrossedPairs DEF r

\* A sequence of parts is one item each when each part is.
LEMMA PartsAre ==
    ASSUME NEW s \in Seq(Messages), NEW q, q = [i \in DOMAIN s |-> q[i]],
           \A i \in 1..Len(s) : OneItem(s[i], q[i])
    PROVE  OneItemEach(s, q)
<1>1. DOMAIN s = 1..Len(s) /\ Len(s) \in Nat
  BY LenProperties
<1>2. q \in [1..Len(s) -> Seq(Messages)]
  BY <1>1 DEF OneItem
<1>3. q \in Seq(Seq(Messages)) /\ Len(q) = Len(s)
  BY <1>1, <1>2
<1> QED
  BY <1>3 DEF OneItemEach

\* Sequences of one message and of none.
LEMMA Items ==
    /\ \A m \in Messages : /\ <<m>> \in Seq(Messages) /\ Len(<<m>>) = 1
                           /\ <<m>> # <<>> /\ <<m>>[1] = m
    /\ <<>> \in Seq(Messages) /\ Len(<<>>) = 0
  OBVIOUS

\* A message with a note has no calls and no results beside it.
LEMMA PartsOfOne ==
    ASSUME NEW m \in Messages, m.says = {} \/ m.uses \cup m.results = {},
           m.uses = {} \/ m.results = {}, NEW x,
           x = TextOf(m) \o CallsOf(m) \o ResultsOf(m)
           \/ (m.uses = {} /\ x = TextOf(m) \o ResultsOf(m))
    PROVE  OneItem(m, x)
<1> DEFINE t == [m EXCEPT !.uses = {}, !.results = {}]
           a == Assistant(m.uses)
           u == Answer(m.results)
<1>1. /\ t \in Messages /\ t.uses = {} /\ t.results = {}
      /\ a \in Messages /\ a.uses = m.uses /\ a.results = {}
      /\ u \in Messages /\ u.uses = {} /\ u.results = m.results
  BY DEF Messages, Assistant, Answer
<1>2. /\ m.says = {} => TextOf(m) = <<>>
      /\ m.says # {} => TextOf(m) = <<t>>
      /\ m.uses = {} => CallsOf(m) = <<>>
      /\ m.uses # {} => CallsOf(m) = <<a>>
      /\ m.results = {} => ResultsOf(m) = <<>>
      /\ m.results # {} => ResultsOf(m) = <<u>>
  BY DEF TextOf, CallsOf, ResultsOf
<1> HIDE DEF t, a, u
<1>3. \A y \in Seq(Messages) : <<>> \o y = y /\ y \o <<>> = y
  OBVIOUS
<1>4. CASE m.says # {}
  <2>1. m.uses = {} /\ m.results = {}
    BY <1>4
  <2>2. x = <<t>>
    BY <1>1, <1>2, <1>3, <1>4, <2>1, Items
  <2> QED
    BY <1>1, <2>1, <2>2, Items DEF OneItem
<1>5. CASE m.says = {} /\ m.uses # {}
  <2>1. m.results = {}
    BY <1>5
  <2>2. x = <<a>>
    BY <1>1, <1>2, <1>3, <1>5, <2>1, Items
  <2> QED
    BY <1>1, <2>1, <2>2, Items DEF OneItem
<1>6. CASE m.says = {} /\ m.uses = {} /\ m.results # {}
  <2>1. x = <<u>>
    BY <1>1, <1>2, <1>3, <1>6, Items
  <2> QED
    BY <1>1, <1>6, <2>1, Items DEF OneItem
<1>7. CASE m.says = {} /\ m.uses = {} /\ m.results = {}
  <2>1. x = <<>>
    BY <1>2, <1>3, <1>7, Items
  <2> QED
    BY <1>7, <2>1, Items DEF OneItem
<1> QED
  BY <1>4, <1>5, <1>6, <1>7

OpenAIParts(m) ==
    CASE IsAssistant(m) -> <<m>>
      [] IsUser(m) -> TextOf(m) \o ResultsOf(m)
      [] OTHER -> <<>>
ResponsesParts(m) == TextOf(m) \o CallsOf(m) \o ResultsOf(m)

\* What each provider sends of a paired chain is paired.
LEMMA WellPairedIsPaired ==
    ASSUME NEW n \in Nat, NEW c \in Seq(Messages), WellPaired(c, {}, n)
    PROVE  PairedForAll(c)
<1> DEFINE N == NormalizeMessages(c)
<1>1. N \in Seq(Messages) /\ Shape(N) /\ Crossed(N)
  BY MergedCrosses, CleanedCrosses DEF NormalizeMessages
<1> DEFINE g == [i \in DOMAIN N |-> IfContent(N[i])]
           o == [i \in DOMAIN N |-> OpenAIParts(N[i])]
           r == [i \in DOMAIN N |-> ResponsesParts(N[i])]
<1>2. /\ AnthropicItems(c) = N /\ GenAIItems(c) = FlattenSeq(g)
      /\ OpenAIItems(c) = FlattenSeq(o) /\ ResponsesItems(c) = FlattenSeq(r)
  BY DEF AnthropicItems, GenAIItems, OpenAIItems, ResponsesItems, Emit, OpenAIParts,
         ResponsesParts
<1>3. DOMAIN N = 1..Len(N) /\ Len(N) \in Nat /\ \A i \in 1..Len(N) : N[i] \in Messages
  BY <1>1, LenProperties, ElementOfSeq
<1>4. \A i \in 1..Len(N) : /\ N[i].uses # {} => IsAssistant(N[i]) /\ ~IsUser(N[i])
                           /\ N[i].results # {} => IsUser(N[i]) /\ ~IsAssistant(N[i])
  BY <1>1 DEF Shape, IsUser, IsAssistant
<1>5. NoNoteAmongResults(N) =>
         \A i \in 1..Len(N) : N[i].says = {} \/ N[i].uses \cup N[i].results = {}
  BY <1>3 DEF NoNoteAmongResults
<1> HIDE DEF N
<1>6. Paired(GenAIItems(c))
  <2>1. ASSUME NEW i \in 1..Len(N)
        PROVE  OneItem(N[i], g[i])
    <3>1. g[i] = IfContent(N[i]) /\ N[i] \in Messages
      BY <1>3
    <3> HIDE DEF g
    <3> QED
      BY <1>4, <3>1, Items DEF IfContent, HasContent, OneItem
  <2>2. g = [i \in DOMAIN N |-> g[i]]
    OBVIOUS
  <2> HIDE DEF g
  <2>3. OneItemEach(N, g)
    BY <1>1, <2>1, <2>2, PartsAre
  <2>4. Paired(FlattenSeq(g))
    BY <1>1, <2>3, ItemsPair
  <2> QED
    BY <1>2, <2>4
<1>7. ASSUME NoNoteAmongResults(N) PROVE Paired(OpenAIItems(c))
  <2>1. ASSUME NEW i \in 1..Len(N)
        PROVE  OneItem(N[i], o[i])
    <3>1. o[i] = OpenAIParts(N[i]) /\ N[i] \in Messages
      BY <1>3
    <3> HIDE DEF o
    <3>2. CASE IsAssistant(N[i])
      <4>1. ~IsUser(N[i])
        BY <3>2 DEF IsUser, IsAssistant
      <4>2. o[i] = <<N[i]>>
        BY <3>1, <3>2, <4>1 DEF OpenAIParts
      <4> QED
        BY <3>1, <4>2, Items DEF OneItem
    <3>3. CASE IsUser(N[i])
      <4>1. ~IsAssistant(N[i]) /\ N[i].uses = {}
        BY <1>4, <3>3 DEF IsUser, IsAssistant
      <4>2. o[i] = TextOf(N[i]) \o ResultsOf(N[i])
        BY <3>1, <3>3, <4>1 DEF OpenAIParts
      <4> QED
        BY <1>5, <1>7, <3>1, <4>1, <4>2, PartsOfOne
    <3>4. CASE ~IsAssistant(N[i]) /\ ~IsUser(N[i])
      <4>1. o[i] = <<>> /\ N[i].uses = {} /\ N[i].results = {}
        BY <1>4, <3>1, <3>4 DEF OpenAIParts
      <4> QED
        BY <4>1, Items DEF OneItem
    <3> QED
      BY <3>2, <3>3, <3>4
  <2>2. o = [i \in DOMAIN N |-> o[i]]
    OBVIOUS
  <2> HIDE DEF o
  <2>3. OneItemEach(N, o)
    BY <1>1, <2>1, <2>2, PartsAre
  <2>4. Paired(FlattenSeq(o))
    BY <1>1, <2>3, ItemsPair
  <2> QED
    BY <1>2, <2>4
<1>8. ASSUME NoNoteAmongResults(N) PROVE Paired(ResponsesItems(c))
  <2>1. ASSUME NEW i \in 1..Len(N)
        PROVE  OneItem(N[i], r[i])
    <3>1. r[i] = TextOf(N[i]) \o CallsOf(N[i]) \o ResultsOf(N[i]) /\ N[i] \in Messages
      BY <1>3 DEF ResponsesParts
    <3> HIDE DEF r
    <3> QED
      BY <1>4, <1>5, <1>8, <3>1, PartsOfOne
  <2>2. r = [i \in DOMAIN N |-> r[i]]
    OBVIOUS
  <2> HIDE DEF r
  <2>3. OneItemEach(N, r)
    BY <1>1, <2>1, <2>2, PartsAre
  <2>4. Paired(FlattenSeq(r))
    BY <1>1, <2>3, ItemsPair
  <2> QED
    BY <1>2, <2>4
<1>9. Paired(AnthropicItems(c))
  BY <1>1, <1>2, CrossedPairs
<1> QED
  BY <1>6, <1>7, <1>8, <1>9 DEF PairedForAll, N

\* The message that asks for a summary comes last.
LEMMA InstructionPairs ==
    ASSUME NEW n \in Nat, NEW c \in Seq(Messages), WellPaired(c, {}, n)
    PROVE  PairedForAll(WithInstruction(c))
<1> DEFINE m == Text("user", Summary)
<1>1. m \in Messages /\ IsUser(m) /\ m.uses = {} /\ m.results = {}
  BY Notes DEF Text
<1> HIDE DEF m
<1>2. WellPaired(Append(c, m), {} \ m.results, n)
  BY <1>1, UserPairs
<1>3. {} \ m.results = {} /\ Append(c, m) \in Seq(Messages)
  BY <1>1, ChainAppend
<1>4. PairedForAll(Append(c, m))
  BY <1>2, <1>3, WellPairedIsPaired
<1> QED
  BY <1>4 DEF WithInstruction, m

-----------------------------------------------------------------------------
(* Every chain and every transcript that is resumed is paired.              *)

\* Nothing is lost: no crash, no failed write, no result taken out.
Lossless == Env \cap {"crash", "io", "media"} = {}

\* Calls are in hand from a reply to its answer; those that have no result on
\* file are open there.
CountsFit ==
    /\ answered <= asked
    /\ pc \notin {"tools", "persist", "handle"} => asked = 0
    /\ pc = "tools" => answered = 0
    /\ pc = "handle" => answered = asked

OpenOnFile == {Call(k) : k \in (answered + 1)..asked}

LoadedPairs(f, open, n) ==
    \A entries \in PostBoundary(f) : WellPaired(RebuildMessages(entries), open, n)

PairInv ==
    /\ CountsFit
    /\ Lossless => /\ WellPaired(chain, CallsInHand, replies)
                   /\ LoadedPairs(file, OpenOnFile, replies)

\* Every step keeps the calls in hand and their count together.
LEMMA CountsKeep == ASSUME IInv, CountsFit, [Next]_vars PROVE CountsFit'
<1>1. asked \in Nat /\ answered \in Nat
  BY DEF IInv, FileOK
<1>2. ASSUME asked' = 0, answered' = 0 PROVE CountsFit'
  BY <1>2 DEF CountsFit
<1>3. ASSUME pc' = pc \/ (pc \notin {"tools", "persist", "handle"}
                          /\ pc' \notin {"tools", "persist", "handle"}),
             UNCHANGED <<asked, answered>>
      PROVE  CountsFit'
  BY <1>3 DEF CountsFit
<1>4. CASE \/ \E p \in Prompts : Start(p)
           \/ \E p \in Prompts, forks \in BOOLEAN : Resume(p, forks)
  BY <1>3, <1>4 DEF Start, Resume, Boot
<1>5. CASE SubmitFails \/ Halt \/ OverLimit \/ RespondFails \/ CallRefused \/ CallFails
           \/ PersistFails \/ Finish \/ OutOfTokens \/ Crash
  BY <1>2, <1>5 DEF SubmitFails, Halt, OverLimit, RespondFails, CallRefused, CallFails,
     PersistFails, Finish, OutOfTokens, Crash, Exit
<1>6. CASE Submit \/ Changes \/ Freeze \/ (\E note \in BOOLEAN : TakeTurn(note))
           \/ SkipCompaction \/ Compact \/ CompactFails \/ ReinjectSkills \/ MediaRetry
  <2>1. UNCHANGED <<asked, answered>>
    BY <1>6 DEF Submit, Changes, Freeze, TakeTurn, SkipCompaction, Compact, CompactFails,
       ReinjectSkills, MediaRetry, memory
  <2>2. /\ pc \notin {"tools", "persist", "handle"}
        /\ pc' \notin {"tools", "persist", "handle"}
    BY <1>6 DEF Submit, Changes, Freeze, TakeTurn, SkipCompaction, Compact, CompactFails,
       ReinjectSkills, MediaRetry, Goto
  <2> QED
    BY <1>3, <2>1, <2>2
<1>7. ASSUME NEW n \in 0..MaxUses, NEW reason \in StopReasons, Respond(n, reason)
      PROVE  CountsFit'
  BY <1>7 DEF Respond, TakeReply, CountsFit
<1>8. ASSUME NEW reason \in StopReasons, RespondEmpty(reason) PROVE CountsFit'
  BY <1>8 DEF RespondEmpty, TakeReply, CountsFit
<1>9. CASE RunTools
  BY <1>1, <1>9 DEF RunTools, Goto, CountsFit
<1>10. CASE NoTools
  BY <1>1, <1>10 DEF NoTools, Goto, memory, CountsFit
<1>11. CASE PersistResult
  BY <1>1, <1>11 DEF PersistResult, Goto, CountsFit
<1>12. CASE ResultsDone
  BY <1>1, <1>12 DEF ResultsDone, Goto, CountsFit
<1>13. CASE Continue
  BY <1>2, <1>13 DEF Continue
<1>14. CASE Cancel \/ UNCHANGED vars
  BY <1>3, <1>14 DEF Cancel, vars, memory
<1> QED
  BY <1>4, <1>5, <1>6, <1>7, <1>8, <1>9, <1>10, <1>11, <1>12, <1>13, <1>14 DEF Next, Progress

\* What a resume finds paired stays so when an entry is appended.
LEMMA LoadedPairsGrow ==
    ASSUME NEW n \in Nat, NEW f \in Seq(Entries), NEW open, LoadedPairs(f, open, n)
    PROVE  /\ \A e \in Entries : e.type \in {"user", "system_reminder", "state"} =>
                 LoadedPairs(Append(f, e), open, n)
           /\ \A id \in CallIds : id \in open =>
                 LoadedPairs(Append(f, ResultEntry(id)), open \ {id}, n)
           /\ \A S \in SUBSET CallIds : open = {} /\ (\A id \in S : id[1] = n + 1) =>
                 LoadedPairs(Append(f, AssistantEntry(S)), S, n + 1)
           /\ LoadedPairs(Append(f, BoundaryEntry), {}, n)
<1>1. ASSUME NEW e \in Entries, ~IsBoundary(e), NEW entries \in PostBoundary(Append(f, e))
      PROVE  \E old \in Seq(Entries) :
                /\ WellPaired(RebuildMessages(old), open, n)
                /\ RebuildMessages(old) \in Seq(Messages)
                /\ RebuildMessages(entries) = RebuildMessages(old) \o MessagesOf(e)
  <2>1. PICK old \in PostBoundary(f) : old \in Seq(Entries) /\ entries = Append(old, e)
    BY <1>1, LoadedAppend
  <2> QED
    BY <2>1, RebuildAppend DEF LoadedPairs
<1>2. ASSUME NEW c \in Seq(Messages), NEW m \in Messages
      PROVE  c \o <<m>> = Append(c, m) /\ c \o <<>> = c
  OBVIOUS
<1>3. ASSUME NEW e \in Entries, e.type \in {"user", "system_reminder", "state"}
      PROVE  LoadedPairs(Append(f, e), open, n)
  <2> SUFFICES ASSUME NEW entries \in PostBoundary(Append(f, e))
               PROVE  WellPaired(RebuildMessages(entries), open, n)
    BY DEF LoadedPairs
  <2>1. ~IsBoundary(e)
    BY <1>3 DEF IsBoundary
  <2>2. PICK old \in Seq(Entries) :
           /\ WellPaired(RebuildMessages(old), open, n)
           /\ RebuildMessages(old) \in Seq(Messages)
           /\ RebuildMessages(entries) = RebuildMessages(old) \o MessagesOf(e)
    BY <1>1, <2>1
  <2>3. CASE e.type = "state"
    <3>1. MessagesOf(e) = <<>>
      BY <2>3, MessageTyped
    <3>2. RebuildMessages(old) \o <<>> = RebuildMessages(old)
      BY <2>2
    <3> QED
      BY <2>2, <3>1, <3>2
  <2>4. CASE e.type # "state"
    <3> DEFINE m == MessageOf(e)
    <3>1. MessagesOf(e) = <<m>> /\ m \in Messages
      BY <2>4, MessageTyped
    <3>2. IsUser(m) /\ m.uses = {} /\ m.results = {}
      BY <1>3, <2>4 DEF MessageOf, Text, IsUser
    <3> HIDE DEF m
    <3>3. RebuildMessages(entries) = Append(RebuildMessages(old), m)
      BY <1>2, <2>2, <3>1
    <3>4. open \ m.results = open /\ m.results \subseteq open
      BY <3>2
    <3>5. WellPaired(Append(RebuildMessages(old), m), open \ m.results, n)
      BY <2>2, <3>1, <3>2, <3>4, UserPairs
    <3> QED
      BY <3>3, <3>4, <3>5
  <2> QED
    BY <2>3, <2>4
<1>4. ASSUME NEW id \in CallIds, id \in open
      PROVE  LoadedPairs(Append(f, ResultEntry(id)), open \ {id}, n)
  <2> DEFINE e == ResultEntry(id)
             m == Answer({id})
  <2> SUFFICES ASSUME NEW entries \in PostBoundary(Append(f, e))
               PROVE  WellPaired(RebuildMessages(entries), open \ {id}, n)
    BY DEF LoadedPairs
  <2>1. e \in Entries /\ ~IsBoundary(e)
    BY PlainEntries DEF IsBoundary, Plain
  <2>2. PICK old \in Seq(Entries) :
           /\ WellPaired(RebuildMessages(old), open, n)
           /\ RebuildMessages(old) \in Seq(Messages)
           /\ RebuildMessages(entries) = RebuildMessages(old) \o MessagesOf(e)
    BY <1>1, <2>1
  <2>3. MessagesOf(e) = <<m>>
    BY DEF MessagesOf, MessageOf, ResultEntry, MessageTypes, ChainTypes
  <2>4. m \in Messages /\ IsUser(m) /\ m.uses = {} /\ m.results = {id}
    <3>1. {id} \in SUBSET CallIds
      OBVIOUS
    <3> QED
      BY <3>1, Notes DEF Answer
  <2> HIDE DEF m, e
  <2>5. RebuildMessages(entries) = Append(RebuildMessages(old), m)
    BY <1>2, <2>2, <2>3, <2>4
  <2>6. m.results \subseteq open
    BY <1>4, <2>4
  <2>7. WellPaired(Append(RebuildMessages(old), m), open \ m.results, n)
    BY <2>2, <2>4, <2>6, UserPairs
  <2> QED
    BY <2>4, <2>5, <2>7
<1>5. ASSUME NEW S \in SUBSET CallIds, open = {}, \A id \in S : id[1] = n + 1
      PROVE  LoadedPairs(Append(f, AssistantEntry(S)), S, n + 1)
  <2> DEFINE e == AssistantEntry(S)
             m == Assistant(S)
  <2> SUFFICES ASSUME NEW entries \in PostBoundary(Append(f, e))
               PROVE  WellPaired(RebuildMessages(entries), S, n + 1)
    BY DEF LoadedPairs
  <2>1. e \in Entries /\ ~IsBoundary(e)
    BY DEF AssistantEntry, Entries, IsBoundary
  <2>2. PICK old \in Seq(Entries) :
           /\ WellPaired(RebuildMessages(old), open, n)
           /\ RebuildMessages(old) \in Seq(Messages)
           /\ RebuildMessages(entries) = RebuildMessages(old) \o MessagesOf(e)
    BY <1>1, <2>1
  <2>3. MessagesOf(e) = <<m>>
    BY DEF MessagesOf, MessageOf, AssistantEntry, MessageTypes, ChainTypes
  <2>4. m \in Messages /\ IsAssistant(m) /\ m.uses = S /\ m.results = {}
    BY Notes DEF Assistant, IsAssistant
  <2> HIDE DEF m, e
  <2>5. RebuildMessages(entries) = Append(RebuildMessages(old), m)
    BY <1>2, <2>2, <2>3, <2>4
  <2>6. WellPaired(Append(RebuildMessages(old), m), m.uses, n + 1)
    BY <1>5, <2>2, <2>4, ReplyPairs
  <2> QED
    BY <2>4, <2>5, <2>6
<1>6. LoadedPairs(Append(f, BoundaryEntry), {}, n)
  <2> SUFFICES ASSUME NEW entries \in PostBoundary(Append(f, BoundaryEntry))
               PROVE  WellPaired(RebuildMessages(entries), {}, n)
    BY DEF LoadedPairs
  <2>1. BoundaryEntry \in Entries /\ IsBoundary(BoundaryEntry)
    BY DEF BoundaryEntry, Entries, IsBoundary
  <2>2. entries = <<BoundaryEntry>>
    BY <2>1, LoadedAppend
  <2>3. <<>> \in Seq(Entries) /\ Append(<<>>, BoundaryEntry) = <<BoundaryEntry>>
    BY <2>1
  <2>4. RebuildMessages(entries) = <<>> \o MessagesOf(BoundaryEntry)
    BY <2>1, <2>2, <2>3, RebuildAppend, OfNothing
  <2>5. MessagesOf(BoundaryEntry) = <<Text("system", Summary)>>
    BY DEF MessagesOf, MessageOf, BoundaryEntry, MessageTypes, ChainTypes
  <2>6. <<>> \o <<Text("system", Summary)>> = <<Text("system", Summary)>>
    OBVIOUS
  <2> QED
    BY <2>4, <2>5, <2>6, NothingPairs
<1> QED
  BY <1>3, <1>4, <1>5, <1>6

\* A step that neither calls nor answers.
LEMMA QuietPairs ==
    ASSUME IInv, TailInv, PairInv, Lossless,
           \/ UNCHANGED chain
           \/ \E l \in Labels : chain' = Append(chain, Text("user", l)),
           \/ UNCHANGED file
           \/ \E e \in Entries : e.type \in {"user", "system_reminder", "state"} /\ Record(e)
    PROVE  /\ WellPaired(chain', CallsInHand, replies)
           /\ LoadedPairs(file', OpenOnFile, replies)
<1>1. /\ file \in Seq(Entries) /\ chain \in Seq(Messages) /\ replies \in Nat
      /\ WellPaired(chain, CallsInHand, replies) /\ LoadedPairs(file, OpenOnFile, replies)
  BY DEF IInv, FileOK, TailInv, PairInv
<1>2. WellPaired(chain', CallsInHand, replies)
  <2>1. ASSUME NEW l \in Labels
        PROVE  WellPaired(Append(chain, Text("user", l)), CallsInHand, replies)
    <3> DEFINE m == Text("user", l)
    <3>1. m \in Messages /\ IsUser(m) /\ m.uses = {} /\ m.results = {}
      BY Notes DEF Text
    <3> HIDE DEF m
    <3>2. m.results \subseteq CallsInHand /\ CallsInHand \ m.results = CallsInHand
      BY <3>1
    <3>3. WellPaired(Append(chain, m), CallsInHand \ m.results, replies)
      BY <1>1, <3>1, <3>2, UserPairs
    <3> QED
      BY <3>2, <3>3 DEF m
  <2> QED
    BY <1>1, <2>1
<1>3. LoadedPairs(file', OpenOnFile, replies)
  BY <1>1, LoadedPairsGrow DEF Record
<1> QED
  BY <1>2, <1>3

\* Such a step keeps the invariant when it leaves the calls alone.
LEMMA QuietPairsKept ==
    ASSUME IInv, TailInv, PairInv, CountsFit', UNCHANGED <<asked, answered, replies>>,
           Lossless =>
              /\ \/ UNCHANGED chain
                 \/ \E l \in Labels : chain' = Append(chain, Text("user", l))
              /\ \/ UNCHANGED file
                 \/ \E e \in Entries : e.type \in {"user", "system_reminder", "state"} /\ Record(e)
    PROVE  PairInv'
<1>1. CallsInHand' = CallsInHand /\ OpenOnFile' = OpenOnFile /\ replies' = replies
  BY DEF CallsInHand, OpenOnFile, Call
<1>2. ASSUME Lossless
      PROVE  WellPaired(chain', CallsInHand, replies) /\ LoadedPairs(file', OpenOnFile, replies)
  BY <1>2, QuietPairs
<1>3. Lossless' = Lossless
  BY DEF Lossless
<1> QED
  BY <1>1, <1>2, <1>3 DEF PairInv

\* The entries that neither call nor answer.
LEMMA QuietEntries ==
    /\ ReminderEntry \in Entries /\ ReminderEntry.type = "system_reminder"
    /\ \A q \in Prompts : UserEntry(q) \in Entries /\ UserEntry(q).type = "user"
    /\ \A about \in {"prompt", "tasks", "count"}, n \in Nat :
          StateEntry(about, n) \in Entries /\ StateEntry(about, n).type = "state"
  BY DEF ReminderEntry, UserEntry, StateEntry, Entries

\* Nothing asked, no call in hand; everything answered, none open.
LEMMA NoCalls ==
    /\ asked \in Nat /\ answered \in Nat
    => /\ asked = 0 => CallsInHand = {}
       /\ answered = asked => OpenOnFile = {}
  BY DEF CallsInHand, OpenOnFile

\* Every step keeps chain and transcript paired.
LEMMA PairsKeep == ASSUME IInv, TailInv, PairInv, [Next]_vars PROVE PairInv'
<1>1. /\ file \in Seq(Entries) /\ chain \in Seq(Messages) /\ replies \in Nat
      /\ asked \in Nat /\ answered \in Nat /\ fail \in Nat
      /\ pc \in Phases /\ (pc # "off" => prompt \in Prompts)
  BY DEF IInv, FileOK, TailInv
<1>2. CountsFit /\ CountsFit'
  BY CountsKeep DEF PairInv
<1>3. Lossless' = Lossless
  BY DEF Lossless
<1>4. /\ pc \notin {"tools", "persist", "handle"} =>
            CallsInHand = {} /\ OpenOnFile = {} /\ asked = 0 /\ answered = 0
      /\ pc = "handle" => OpenOnFile = {}
  BY <1>1, <1>2, NoCalls DEF CountsFit
<1>5. ASSUME Lossless
      PROVE  /\ WellPaired(chain, CallsInHand, replies) /\ LoadedPairs(file, OpenOnFile, replies)
             /\ ~May("crash") /\ ~May("io") /\ ~May("media")
  BY <1>5 DEF PairInv, Lossless, May
<1>6. ASSUME asked' = 0, answered' = 0
      PROVE  CallsInHand' = {} /\ OpenOnFile' = {}
  <2>1. \A k \in 1..asked' : FALSE
    BY <1>6
  <2>2. \A k \in (answered' + 1)..asked' : FALSE
    BY <1>6
  <2> QED
    BY <2>1, <2>2 DEF CallsInHand, OpenOnFile
<1>7. ASSUME asked' = 0, answered' = 0, UNCHANGED replies,
             Lossless => WellPaired(chain', {}, replies) /\ LoadedPairs(file', {}, replies)
      PROVE  PairInv'
  BY <1>2, <1>3, <1>6, <1>7 DEF PairInv
<1>8. ASSUME NEW p \in Prompts, Start(p) PROVE PairInv'
  <2>1. /\ file' = <<>> /\ chain' = <<>> /\ asked' = 0 /\ answered' = 0 /\ UNCHANGED replies
    BY <1>4, <1>8 DEF Start, Boot
  <2>2. PostBoundary(<<>>) = {<<>>}
    BY DEF PostBoundary
  <2>3. WellPaired(chain', {}, replies) /\ LoadedPairs(file', {}, replies)
    BY <1>1, <2>1, <2>2, OfNothing, NothingPairs DEF LoadedPairs
  <2> QED
    BY <1>7, <2>1, <2>3
<1>9. ASSUME NEW p \in Prompts, NEW forks \in BOOLEAN, Resume(p, forks) PROVE PairInv'
  <2>1. PICK entries \in PostBoundary(file) :
           file' = (IF forks THEN entries ELSE file) /\ chain' = RebuildMessages(entries)
    BY <1>9 DEF Resume, Boot
  <2>2. asked' = 0 /\ answered' = 0 /\ UNCHANGED replies /\ OpenOnFile = {}
    BY <1>4, <1>9 DEF Resume, Boot
  <2>3. \A h \in PostBoundary(file') : h = entries
    BY <1>1, <2>1, LoadedAgain
  <2>4. ASSUME Lossless PROVE WellPaired(chain', {}, replies) /\ LoadedPairs(file', {}, replies)
    <3>1. WellPaired(RebuildMessages(entries), {}, replies)
      BY <1>5, <2>2, <2>4 DEF LoadedPairs
    <3> QED
      BY <2>1, <2>3, <3>1 DEF LoadedPairs
  <2> QED
    BY <1>7, <2>2, <2>4
<1>10. CASE SubmitFails \/ RespondFails \/ PersistFails \/ Crash
  <2>1. ~Lossless /\ asked' = 0 /\ answered' = 0 /\ UNCHANGED replies
    BY <1>5, <1>10 DEF SubmitFails, RespondFails, PersistFails, Crash, Exit
  <2> QED
    BY <1>7, <2>1
<1>11. CASE Halt \/ OverLimit \/ CallRefused \/ CallFails \/ Finish \/ OutOfTokens
  <2>1. /\ asked' = 0 /\ answered' = 0 /\ UNCHANGED replies /\ chain' = <<>>
        /\ pc \in {"top", "window", "call", "handle"}
    BY <1>11 DEF Halt, OverLimit, CallRefused, CallFails, Finish, OutOfTokens, Exit
  <2>2. \/ UNCHANGED file
        \/ \E n \in Nat : Record(StateEntry("count", n))
    <3>1. fail + 1 \in Nat /\ 0 \in Nat
      BY <1>1
    <3> QED
      BY <1>11, <3>1 DEF Halt, OverLimit, CallRefused, CallFails, Finish, OutOfTokens, TryRecord
  <2>3. OpenOnFile = {}
    BY <1>4, <2>1
  <2>4. ASSUME Lossless PROVE WellPaired(chain', {}, replies) /\ LoadedPairs(file', {}, replies)
    <3>1. LoadedPairs(file, {}, replies)
      BY <1>5, <2>3, <2>4
    <3>2. LoadedPairs(file', {}, replies)
      BY <1>1, <2>2, <3>1, QuietEntries, LoadedPairsGrow DEF Record
    <3> QED
      BY <1>1, <2>1, <3>2, NothingPairs
  <2> QED
    BY <1>7, <2>1, <2>4
<1>12. CASE Submit
  <2>1. /\ pc # "off" /\ UNCHANGED <<chain, asked, answered, replies>>
        /\ UNCHANGED file \/ Record(UserEntry(prompt))
    BY <1>12 DEF Submit, Goto, memory
  <2> QED
    BY <1>1, <1>2, <2>1, QuietEntries, QuietPairsKept
<1>13. CASE Changes
  <2>1. PICK history \in {chain, Append(chain, Text("user", Reminder))} :
           chain' = Append(history, Text("user", prompt))
    BY <1>13 DEF Changes
  <2>2. /\ prompt \in Prompts /\ UNCHANGED <<asked, answered, replies>>
        /\ UNCHANGED file \/ Record(ReminderEntry)
        /\ pc = "changes"
    BY <1>1, <1>13 DEF Changes, TryRecord, Goto
  <2>3. ASSUME Lossless PROVE WellPaired(chain', {}, replies) /\ LoadedPairs(file', {}, replies)
    <3> DEFINE m == Text("user", prompt)
               w == Text("user", Reminder)
    <3>1. /\ m \in Messages /\ IsUser(m) /\ m.uses = {} /\ m.results = {}
          /\ w \in Messages /\ IsUser(w) /\ w.uses = {} /\ w.results = {}
      BY <2>2, Notes DEF Text
    <3>2. WellPaired(chain, {}, replies) /\ LoadedPairs(file, {}, replies)
      BY <1>4, <1>5, <2>2, <2>3
    <3>3. history \in {chain, Append(chain, w)} /\ chain' = Append(history, m)
      BY <2>1
    <3> HIDE DEF m, w
    <3>4. {} \ m.results = {} /\ {} \ w.results = {} /\ m.results \subseteq {} /\ w.results \subseteq {}
      BY <3>1
    <3>5. WellPaired(Append(chain, w), {} \ w.results, replies) /\ Append(chain, w) \in Seq(Messages)
      BY <1>1, <3>1, <3>2, <3>4, UserPairs, ChainAppend
    <3>6. WellPaired(history, {}, replies) /\ history \in Seq(Messages)
      BY <1>1, <3>2, <3>3, <3>4, <3>5
    <3>7. WellPaired(Append(history, m), {} \ m.results, replies)
      BY <1>1, <3>1, <3>4, <3>6, UserPairs
    <3>8. LoadedPairs(file', {}, replies)
      BY <1>1, <2>2, <3>2, QuietEntries, LoadedPairsGrow DEF Record
    <3> QED
      BY <3>3, <3>4, <3>7, <3>8
  <2> QED
    BY <1>4, <1>7, <2>2, <2>3
<1>14. CASE Freeze \/ CompactFails \/ RunTools
  <2>1. /\ UNCHANGED <<chain, asked, answered, replies>>
        /\ \/ UNCHANGED file
           \/ \E about \in {"prompt", "tasks", "count"}, n \in Nat : Record(StateEntry(about, n))
    <3>1. fail + 1 \in Nat /\ 0 \in Nat
      BY <1>1
    <3> QED
      BY <1>14, <3>1 DEF Freeze, CompactFails, RunTools, TryRecord, Goto
  <2> QED
    BY <1>2, <2>1, QuietEntries, QuietPairsKept
<1>15. ASSUME NEW note \in BOOLEAN, TakeTurn(note) PROVE PairInv'
  <2>1. /\ UNCHANGED <<file, asked, answered, replies>>
        /\ chain' \in {chain, Append(chain, Text("user", TaskNote))}
    BY <1>15 DEF TakeTurn, Goto
  <2> QED
    BY <1>2, <2>1, Notes, QuietPairsKept
<1>16. CASE ReinjectSkills \/ ResultsDone
  <2>1. /\ UNCHANGED <<asked, answered, replies>>
        /\ chain' \in {chain, Append(chain, Text("user", Reminder))}
        /\ UNCHANGED file \/ Record(ReminderEntry)
    BY <1>16 DEF ReinjectSkills, ResultsDone, Remind, TryRecord, Goto
  <2> QED
    BY <1>2, <2>1, Notes, QuietEntries, QuietPairsKept
<1>17. CASE Compact
  <2>1. /\ chain' = NormalizedCompactedChain(chain) /\ TryRecord(BoundaryEntry)
        /\ pc = "window" /\ UNCHANGED <<asked, answered, replies>>
    BY <1>17 DEF Compact, Goto
  <2>2. ASSUME Lossless PROVE WellPaired(chain', {}, replies) /\ LoadedPairs(file', {}, replies)
    <3>1. /\ WellPaired(chain, {}, replies) /\ LoadedPairs(file, {}, replies)
          /\ file' = Append(file, BoundaryEntry)
      BY <1>4, <1>5, <2>1, <2>2 DEF TryRecord, Record
    <3> QED
      BY <1>1, <2>1, <3>1, CompactionPairs, LoadedPairsGrow
  <2> QED
    BY <1>4, <1>7, <2>1, <2>2
<1>18. ASSUME NEW n \in 0..MaxUses, NEW reason \in StopReasons, Respond(n, reason)
       PROVE  PairInv'
  <2> DEFINE S == {<<replies + 1, k>> : k \in 1..n}
  <2>1. /\ chain' = Append(chain, Assistant(S)) /\ file' = Append(file, AssistantEntry(S))
        /\ replies' = replies + 1 /\ asked' = n /\ answered' = 0 /\ pc = "call"
    BY <1>18 DEF Respond, Record, TakeReply
  <2>2. CallsInHand' = S /\ OpenOnFile' = S
    BY <2>1 DEF CallsInHand, OpenOnFile, Call
  <2>3. S \in SUBSET CallIds /\ \A id \in S : id[1] = replies + 1
    BY <1>1 DEF CallIds
  <2> HIDE DEF S
  <2>4. ASSUME Lossless PROVE WellPaired(chain', S, replies') /\ LoadedPairs(file', S, replies')
    <3> DEFINE m == Assistant(S)
    <3>1. WellPaired(chain, {}, replies) /\ LoadedPairs(file, {}, replies)
      BY <1>4, <1>5, <2>1, <2>4
    <3>2. m \in Messages /\ IsAssistant(m) /\ m.uses = S /\ m.results = {}
      BY <2>3, Notes DEF Assistant, IsAssistant
    <3>3. chain' = Append(chain, m)
      BY <2>1
    <3> HIDE DEF m
    <3>4. WellPaired(Append(chain, m), m.uses, replies + 1)
      BY <1>1, <2>3, <3>1, <3>2, ReplyPairs
    <3>5. LoadedPairs(Append(file, AssistantEntry(S)), S, replies + 1)
      BY <1>1, <2>3, <3>1, LoadedPairsGrow
    <3> QED
      BY <2>1, <3>2, <3>3, <3>4, <3>5
  <2> QED
    BY <1>2, <1>3, <2>2, <2>4 DEF PairInv
<1>19. ASSUME NEW reason \in StopReasons, RespondEmpty(reason) PROVE PairInv'
  <2>1. /\ UNCHANGED <<file, chain, replies>> /\ asked' = 0 /\ answered' = 0 /\ pc = "call"
    BY <1>19 DEF RespondEmpty, TakeReply
  <2> QED
    BY <1>4, <1>5, <1>7, <2>1
<1>20. CASE MediaRetry
  <2>1. ~Lossless /\ UNCHANGED <<asked, answered, replies>>
    BY <1>5, <1>20 DEF MediaRetry, Goto
  <2> QED
    BY <1>2, <1>3, <2>1 DEF PairInv
<1>21. CASE PersistResult
  <2> DEFINE id == Call(answered + 1)
  <2>1. /\ UNCHANGED <<chain, asked, replies>> /\ answered' = answered + 1 /\ answered < asked
        /\ file' = Append(file, ResultEntry(id))
    BY <1>21 DEF PersistResult, Record, Goto, Call
  <2>2. id \in CallIds /\ id \in OpenOnFile
    <3>1. answered + 1 \in (answered + 1)..asked
      BY <1>1, <2>1
    <3> QED
      BY <1>1, <3>1 DEF OpenOnFile, Call, CallIds
  <2>3. OpenOnFile' = OpenOnFile \ {id}
    <3>1. \A k \in (answered' + 1)..asked' : k \in (answered + 1)..asked /\ k # answered + 1
      BY <1>1, <2>1
    <3>2. \A k \in (answered + 1)..asked : k # answered + 1 => k \in (answered' + 1)..asked'
      BY <1>1, <2>1
    <3>3. \A k : Call(k)' = Call(k)
      BY <2>1 DEF Call
    <3>4. \A k : Call(k) = Call(answered + 1) => k = answered + 1
      BY DEF Call
    <3> QED
      BY <2>1, <3>1, <3>2, <3>4 DEF OpenOnFile, Call
  <2>4. CallsInHand' = CallsInHand
    BY <2>1 DEF CallsInHand, Call
  <2> HIDE DEF id
  <2>5. ASSUME Lossless PROVE LoadedPairs(file', OpenOnFile \ {id}, replies)
    <3>1. LoadedPairs(file, OpenOnFile, replies)
      BY <1>5, <2>5
    <3> QED
      BY <1>1, <2>1, <2>2, <3>1, LoadedPairsGrow
  <2> QED
    BY <1>2, <1>3, <1>5, <2>1, <2>3, <2>4, <2>5 DEF PairInv
<1>22. CASE Continue
  <2>1. /\ UNCHANGED <<file, replies>> /\ asked' = 0 /\ answered' = 0 /\ pc = "handle"
        /\ chain' = IF asked > 0 THEN Append(chain, Answer(CallsInHand)) ELSE chain
    BY <1>22 DEF Continue, Goto
  <2>2. ASSUME Lossless PROVE WellPaired(chain', {}, replies) /\ LoadedPairs(file', {}, replies)
    <3>1. LoadedPairs(file', {}, replies) /\ WellPaired(chain, CallsInHand, replies)
      BY <1>4, <1>5, <2>1, <2>2
    <3>2. CASE asked > 0
      <4> DEFINE m == Answer(CallsInHand)
      <4>1. CallsInHand \in SUBSET CallIds
        BY <1>1 DEF CallsInHand, Call, CallIds
      <4>2. m \in Messages /\ IsUser(m) /\ m.uses = {} /\ m.results = CallsInHand
        BY <4>1, Notes DEF Answer
      <4>3. chain' = Append(chain, m)
        BY <2>1, <3>2
      <4> HIDE DEF m
      <4>4. WellPaired(Append(chain, m), CallsInHand \ m.results, replies)
        BY <1>1, <3>1, <4>2, UserPairs
      <4>5. CallsInHand \ m.results = {}
        BY <4>2
      <4> QED
        BY <3>1, <4>3, <4>4, <4>5
    <3>3. CASE ~(asked > 0)
      <4>1. asked = 0
        BY <1>1, <3>3
      <4> QED
        BY <1>1, <2>1, <3>1, <3>3, <4>1, NoCalls
    <3> QED
      BY <3>2, <3>3
  <2> QED
    BY <1>7, <2>1, <2>2
<1>23. ASSUME SkipCompaction \/ NoTools \/ Cancel \/ UNCHANGED vars
       PROVE  PairInv'
  <2>1. UNCHANGED <<file, chain, asked, answered, replies>>
    BY <1>23 DEF SkipCompaction, NoTools, Cancel, Goto, memory, vars
  <2> QED
    BY <1>2, <2>1, QuietPairsKept
<1> QED
  BY <1>8, <1>9, <1>10, <1>11, <1>12, <1>13, <1>14, <1>15, <1>16, <1>17, <1>18, <1>19, <1>20,
     <1>21, <1>22, <1>23 DEF Next, Progress

\* In every behaviour.
LEMMA PairInvariant == Spec => []PairInv
<1>1. Init => PairInv
  <2> SUFFICES ASSUME Init PROVE PairInv
    OBVIOUS
  <2>1. /\ chain = <<>> /\ file = <<>> /\ asked = 0 /\ answered = 0 /\ replies = 0
    BY DEF Init
  <2>2. CountsFit
    BY DEF Init, CountsFit
  <2>3. CallsInHand = {} /\ OpenOnFile = {}
    BY <2>1, NoCalls
  <2>4. PostBoundary(<<>>) = {<<>>}
    BY DEF PostBoundary
  <2> QED
    BY <2>1, <2>2, <2>3, <2>4, OfNothing, NothingPairs DEF PairInv, LoadedPairs
<1>2. IInv /\ TailInv /\ PairInv /\ [Next]_vars => PairInv'
  BY PairsKeep
<1> QED
  BY <1>1, <1>2, Inductive, TailInvariant, PTL DEF Spec

-----------------------------------------------------------------------------
\* On file a tool result always comes after the assistant message that asked
\* for it, with no compaction boundary in between: a resume or a fork, which
\* start at the last boundary, find both or neither (persistence order of
\* runLoop, LoadPostBoundaryMessages).
THEOREM ResultsStayGrounded == Spec => []ResultsFollowUses
<1>1. IInv => ResultsFollowUses
  BY DEF IInv
<1> QED
  BY <1>1, Inductive, PTL

\* The prompt is on file whenever the model is called to answer it, also when
\* a resume found it there and did not persist it again (SubmitMessage).
THEOREM PromptWrittenAhead == Spec => []PromptOnFile
<1>1. IInv => PromptOnFile
  BY DEF IInv, PromptKept, PromptOnFile
<1> QED
  BY <1>1, Inductive, PTL

\* The failures of compaction a process counts are those the last count on its
\* file says, for any sequence of resumes and forks; or none, when an entry
\* about something else came last.  (persistCompactFailCount,
\* LoadCompactFailCount)
THEOREM BreakerIsKept == Spec => []BreakerSurvives
<1>1. BreakerInv => BreakerSurvives
  <2> SUFFICES ASSUME BreakerInv, pc # "off", ~May("io")
               PROVE  fail \in CountsOnFile \/ (fail = 0 /\ Overlaid)
    BY DEF BreakerSurvives
  <2>1. CountFits(file, fail)
    BY DEF BreakerInv
  <2>2. LastCountIs(file, fail) => fail \in CountsOnFile
    BY DEF LastCountIs, CountsOnFile, LastOf, IsCount
  <2>3. CountIsOverlaid(file) => Overlaid
    BY DEF CountIsOverlaid, Overlaid, LastOf
  <2> QED
    BY <2>1, <2>2, <2>3 DEF CountFits
<1> QED
  BY <1>1, BreakerInvariant, PTL

\* What a resume would bring back of the model's replies is the end of what the
\* running process holds, for any number of compactions, resumes and forks: what
\* a compaction has cut off stays cut off.  (LoadPostBoundaryMessages and
\* RebuildMessages against buildCompactedChain)
THEOREM NothingIsUndone == Spec => []NothingComesBack
<1>1. TailInv => NothingComesBack
  BY DEF TailInv, NothingComesBack
<1> QED
  BY <1>1, TailInvariant, PTL

\* Every request that is sent, and every one for a summary, pairs tool calls with
\* their results for each of the four providers, across compactions, resumes and
\* forks, reminders and notes, unless calls or results were lost.
\* (ensureToolResultPairing, MergeConsecutiveSameRole,
\* removeEmptyInputToolPairsNonFinal and the providers' buildMessages)
THEOREM RequestsArePaired == Spec => []RequestPaired
<1>1. TailInv /\ PairInv /\ IInv => RequestPaired
  <2> SUFFICES ASSUME TailInv, PairInv, IInv, Lossless, pc \in {"window", "call"}
               PROVE  PairedForAll(chain) /\ PairedForAll(WithInstruction(chain))
    BY DEF RequestPaired, Lossless
  <2>1. chain \in Seq(Messages) /\ replies \in Nat /\ asked \in Nat /\ answered \in Nat
    BY DEF IInv, FileOK, TailInv
  <2>2. CallsInHand = {}
    BY <2>1, NoCalls DEF PairInv, CountsFit
  <2>3. WellPaired(chain, {}, replies)
    BY <2>2 DEF PairInv
  <2> QED
    BY <2>1, <2>3, WellPairedIsPaired, InstructionPairs
<1> QED
  BY <1>1, Inductive, TailInvariant, PairInvariant, PTL
=============================================================================
