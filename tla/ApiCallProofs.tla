--------------------------- MODULE ApiCallProofs ---------------------------
(***************************************************************************)
(* Theorems about ApiCall, for any answers, errors and limits.             *)
(*                                                                         *)
(* The requests: where the goroutine is says how many its series has       *)
(* made (Counted) and bounds the overloads at their end (Bounded); on its  *)
(* way to a request no refusal for good is behind it, unless it looks for  *)
(* the model elsewhere (Hopeful).                                          *)
(*                                                                         *)
(* The source: every block of the accumulator is of the stream, every      *)
(* block of a reply is of the reply; what the engine took, and what it     *)
(* can still take, is of one of the two (Sources).                         *)
(*                                                                         *)
(* The channel and the result: the accumulator is the fold of Process      *)
(* over the chunks read, and these with the pipe and the wire are the      *)
(* answer's (Reads, Splits).  By induction over the answer the fold is     *)
(* known between any two blocks (Border), so also before the last chunk,   *)
(* after which what was sent is what finalize builds (Complete).           *)
(***************************************************************************)
EXTENDS ApiCall, SequenceTheorems, WellFoundedInduction, TLAPS

Outcomes == {"sent", "answer", "overloaded", "refused", "failed"}

TypeOK ==
    /\ log \in Seq(Outcomes)
    /\ tries \in Nat /\ overloads \in Nat

\* The stream is one request.  A series has made as many as it has tries, and
\* one more while it waits for the last or for the next.
Counted ==
    /\ ~Waiting => Len(log) <= MaxRetries + 1
    /\ pc = "send" => Len(log) = tries /\ tries <= MaxRetries
    /\ pc = "wait" => Len(log) = tries + 1 /\ tries <= MaxRetries /\ log[Len(log)] = "sent"
    /\ pc = "backoff" => Len(log) = tries + 1 /\ tries < MaxRetries

\* The overloads in a row at the end, and those before the last request.
AtMost(k) == \A n \in 1..Len(log) : Overloads(n) => n <= k
Before(k) ==
    \A n \in 1..Len(log) - 1 :
        (\A i \in Len(log) - n .. Len(log) - 1 : log[i] = "overloaded") => n <= k
Bounded ==
    /\ ~Waiting => AtMost(Max529 + 1)
    /\ pc \in {"send", "backoff"} => AtMost(overloads) /\ overloads <= Max529
    /\ pc = "wait" => Before(overloads) /\ overloads <= Max529

Lost(e) == e # None /\ IsPermanent(e)
Elsewhere == asking = "again" /\ Category(refusal) = "model_not_found"
Hopeful ==
    /\ pc \in {"ask", "headers"} => refusal = None
    /\ Waiting /\ Lost(refusal) => Elsewhere

Inv == TypeOK /\ Counted /\ Bounded /\ Hopeful

-----------------------------------------------------------------------------
(* The initial state, and the steps that do not touch the requests.        *)

LEMMA Initial == Init => Inv
<1> SUFFICES ASSUME Init PROVE Inv
  OBVIOUS
<1>1. TypeOK
  <2>1. log = << >> /\ tries = 0 /\ overloads = 0
    BY DEF Init
  <2> QED
    BY <2>1 DEF TypeOK
<1>2. Counted /\ Bounded
  <2>1. log = << >> /\ Len(log) = 0 /\ pc = "ask"
    BY DEF Init
  <2> QED
    BY <2>1, ApiAssumption DEF Counted, Bounded, AtMost, Waiting
<1>3. Hopeful
  BY DEF Init, Hopeful, Waiting
<1> QED
  BY <1>1, <1>2, <1>3 DEF Inv

\* A step of the stream or of the world: no request is made.
LEMMA AsideKeeps ==
    ASSUME Inv, UNCHANGED <<retry, asking, pc, refusal>>
    PROVE  Inv'
  BY DEF Inv, TypeOK, Counted, Bounded, AtMost, Before, Overloads, Hopeful, Elsewhere,
     retry, Waiting

\* A step that ends the stream, the series or the question.
LEMMA EndKeeps ==
    ASSUME Inv, UNCHANGED retry, pc' \in {"read", "assess", "decide", "done"}, pc # "wait"
    PROVE  Inv'
<1>1. TypeOK'
  BY DEF Inv, TypeOK, retry
<1>2. Counted'
  BY ApiAssumption DEF Inv, TypeOK, Counted, retry, Waiting
<1>3. Bounded'
  BY ApiAssumption DEF Inv, TypeOK, Counted, Bounded, AtMost, Overloads, retry, Waiting
<1>4. Hopeful'
  BY DEF Hopeful, Waiting
<1> QED
  BY <1>1, <1>2, <1>3, <1>4 DEF Inv

\* A new series: the fallback, or the one that looks elsewhere.
LEMMA RequestKeeps ==
    ASSUME Inv, NEW series, Request(series, "send"), Lost(refusal)' => Elsewhere'
    PROVE  Inv'
<1>1. tries' = 0 /\ overloads' = 0 /\ log' = << >> /\ pc' = "send" /\ Len(<< >>) = 0
  BY DEF Request
<1>2. TypeOK'
  BY <1>1 DEF TypeOK
<1>3. Counted'
  BY <1>1, ApiAssumption DEF Counted, Waiting
<1>4. Bounded'
  BY <1>1, ApiAssumption DEF Bounded, AtMost, Waiting
<1>5. Hopeful'
  BY <1>1 DEF Hopeful, Waiting
<1> QED
  BY <1>2, <1>3, <1>4, <1>5 DEF Inv

-----------------------------------------------------------------------------
(* sendWithRetry.                                                          *)

LEMMA AskKeeps == ASSUME Inv, AskStream PROVE Inv'
<1>1. CASE cancelled
  BY <1>1, EndKeeps DEF AskStream, Finished, retry
<1>2. CASE ~cancelled
  <2>1. /\ pc' = "headers" /\ log' = <<"sent">> /\ UNCHANGED <<tries, overloads, refusal>>
        /\ pc = "ask"
    BY <1>2 DEF AskStream
  <2>2. Len(log') = 1 /\ log'[1] = "sent"
    BY <2>1
  <2>3. TypeOK'
    BY <2>1 DEF Inv, TypeOK, Outcomes
  <2>4. Counted' /\ Hopeful'
    BY <2>1, <2>2, ApiAssumption DEF Inv, Counted, Hopeful, Waiting
  <2>5. Bounded'
    BY <2>1, <2>2, ApiAssumption DEF Bounded, AtMost, Waiting
  <2> QED
    BY <2>3, <2>4, <2>5 DEF Inv
<1> QED
  BY <1>1, <1>2

LEMMA AttemptKeeps == ASSUME Inv, Attempt PROVE Inv'
<1>1. CASE Gone
  BY <1>1, EndKeeps DEF Attempt, GivesUp, retry
<1>2. CASE ~Gone
  <2>1. /\ pc = "send" /\ pc' = "wait" /\ log' = Append(log, "sent")
        /\ UNCHANGED <<tries, overloads, refusal, asking>>
    BY <1>2 DEF Attempt
  <2>2. log \in Seq(Outcomes) /\ Len(log) \in Nat /\ "sent" \in Outcomes
    BY DEF Inv, TypeOK, Outcomes
  <2>3. /\ log' \in Seq(Outcomes) /\ Len(log') = Len(log) + 1 /\ log'[Len(log')] = "sent"
        /\ \A i \in 1..Len(log) : log'[i] = log[i]
    BY <2>1, <2>2
  <2>4. TypeOK'
    BY <2>1, <2>3 DEF Inv, TypeOK
  <2>5. Counted' /\ Hopeful'
    BY <2>1, <2>2, <2>3 DEF Inv, TypeOK, Counted, Hopeful, Elsewhere, Waiting
  <2>6. Bounded'
    <3>1. AtMost(overloads) /\ overloads <= Max529
      BY <2>1 DEF Inv, Bounded, Waiting
    <3>2. ASSUME NEW n \in 1..Len(log),
                 \A i \in Len(log) + 1 - n .. Len(log) : log'[i] = "overloaded"
          PROVE  n <= overloads
      <4>1. \A i \in Len(log) - n + 1 .. Len(log) : log[i] = "overloaded"
        BY <2>2, <2>3, <3>2
      <4> QED
        BY <3>1, <4>1 DEF AtMost, Overloads
    <3>3. Before(overloads)'
      BY <2>1, <2>2, <2>3, <3>2 DEF Before
    <3> QED
      BY <2>1, <3>1, <3>3 DEF Bounded, Waiting
  <2> QED
    BY <2>4, <2>5, <2>6 DEF Inv
<1> QED
  BY <1>1, <1>2

\* What a request came to takes the place of its entry.
LEMMA CameToCounts ==
    ASSUME Inv, pc = "wait", NEW what \in Outcomes, CameTo(what)
    PROVE  /\ log' \in Seq(Outcomes) /\ Len(log') = Len(log)
           /\ Len(log) = tries + 1 /\ tries <= MaxRetries /\ overloads <= Max529
           /\ \A n \in 1..Len(log') : Overloads(n)' => what = "overloaded" /\ n <= overloads + 1
<1>1. log \in Seq(Outcomes) /\ Len(log) \in Nat /\ overloads \in Nat
  BY DEF Inv, TypeOK
<1>2. Len(log) = tries + 1 /\ tries <= MaxRetries /\ overloads <= Max529 /\ Before(overloads)
  BY DEF Inv, Counted, Bounded, Waiting
<1>3. Len(log) \in 1..Len(log)
  BY <1>1, <1>2 DEF Inv, TypeOK
<1>4. /\ log' \in Seq(Outcomes) /\ Len(log') = Len(log) /\ log'[Len(log)] = what
      /\ \A i \in 1..Len(log) - 1 : log'[i] = log[i]
  BY <1>1, <1>3 DEF CameTo
<1>5. ASSUME NEW n \in 1..Len(log), Overloads(n)' PROVE what = "overloaded" /\ n <= overloads + 1
  <2>1. \A i \in Len(log) - n + 1 .. Len(log) : log'[i] = "overloaded"
    BY <1>4, <1>5 DEF Overloads
  <2>2. what = "overloaded"
    BY <1>1, <1>3, <1>4, <2>1
  <2>3. CASE n = 1
    BY <1>1, <2>2, <2>3
  <2>4. CASE n # 1
    <3>1. n - 1 \in 1..Len(log) - 1
      BY <1>1, <2>4
    <3>2. \A i \in Len(log) - (n - 1) .. Len(log) - 1 : log[i] = "overloaded"
      BY <1>1, <1>4, <2>1, <3>1
    <3>3. n - 1 <= overloads
      BY <1>2, <3>1, <3>2 DEF Before
    <3> QED
      BY <1>1, <2>2, <3>1, <3>3
  <2> QED
    BY <2>2, <2>3, <2>4
<1> QED
  BY <1>2, <1>4, <1>5

LEMMA RepliedKeeps == ASSUME Inv, Replied PROVE Inv'
<1>1. /\ pc = "wait" /\ CameTo("answer") /\ UNCHANGED <<tries, overloads, refusal>>
      /\ pc' \in {"decide", "done"} /\ "answer" \in Outcomes
  BY DEF Replied, Outcomes
<1>2. /\ log' \in Seq(Outcomes) /\ Len(log') = Len(log) /\ Len(log) = tries + 1
      /\ tries <= MaxRetries /\ \A n \in 1..Len(log') : ~Overloads(n)'
  BY <1>1, CameToCounts
<1>3. TypeOK' /\ Hopeful'
  BY <1>1, <1>2 DEF Inv, TypeOK, Hopeful, Waiting
<1>4. Counted'
  BY <1>1, <1>2, ApiAssumption DEF Inv, TypeOK, Counted, Waiting
<1>5. Bounded'
  BY <1>1, <1>2 DEF Bounded, AtMost, Waiting
<1> QED
  BY <1>3, <1>4, <1>5 DEF Inv

LEMMA RejectedKeeps == ASSUME Inv, NEW e \in Errors, Rejected(e) PROVE Inv'
<1> DEFINE what == IF Overloaded(e) THEN "overloaded" ELSE "refused"
<1>1. /\ pc = "wait" /\ CameTo(what) /\ what \in Outcomes /\ UNCHANGED <<tries, refusal, asking>>
      /\ overloads' = IF Overloaded(e) THEN overloads + 1 ELSE 0
      /\ what = "overloaded" <=> Overloaded(e)
  BY DEF Rejected, Outcomes
<1>2. \/ pc' \in {"decide", "done"}
      \/ pc' = "backoff" /\ tries < MaxRetries /\ overloads' <= Max529
  <2>1. tries \in Nat /\ overloads' \in Nat
    BY <1>1 DEF Inv, TypeOK
  <2>2. CASE GivesUp
    BY <2>2 DEF GivesUp
  <2>3. CASE ~(overloads' > Max529) /\ Again
    BY <2>1, <2>2, <2>3, ApiAssumption DEF Again
  <2> QED
    BY <2>2, <2>3 DEF Rejected
<1> HIDE DEF what
<1>3. /\ log' \in Seq(Outcomes) /\ Len(log') = Len(log) /\ Len(log) = tries + 1
      /\ tries <= MaxRetries /\ overloads <= Max529
      /\ \A n \in 1..Len(log') : Overloads(n)' => what = "overloaded" /\ n <= overloads + 1
  BY <1>1, CameToCounts
<1>4. TypeOK'
  BY <1>1, <1>3 DEF Inv, TypeOK
<1>5. Counted'
  BY <1>1, <1>2, <1>3, ApiAssumption DEF Inv, TypeOK, Counted, Waiting
<1>6. Bounded'
  <2>1. AtMost(overloads)' /\ AtMost(Max529 + 1)'
    BY <1>1, <1>3, ApiAssumption DEF Inv, TypeOK, AtMost
  <2> QED
    BY <1>2, <2>1 DEF Bounded, Waiting
<1>7. Hopeful'
  BY <1>1, <1>2 DEF Inv, Hopeful, Elsewhere, Waiting
<1> QED
  BY <1>4, <1>5, <1>6, <1>7 DEF Inv

LEMMA FailedKeeps == ASSUME Inv, Failed PROVE Inv'
<1>1. /\ pc = "wait" /\ CameTo("failed") /\ UNCHANGED <<tries, overloads, refusal, asking>>
      /\ "failed" \in Outcomes
  BY DEF Failed, Outcomes
<1>2. pc' \in {"decide", "done"} \/ (pc' = "backoff" /\ tries < MaxRetries)
  <2>1. CASE GivesUp
    BY <2>1 DEF GivesUp
  <2>2. CASE Again
    BY <2>1, <2>2 DEF Again
  <2> QED
    BY <2>1, <2>2 DEF Failed
<1>3. /\ log' \in Seq(Outcomes) /\ Len(log') = Len(log) /\ Len(log) = tries + 1
      /\ tries <= MaxRetries /\ overloads <= Max529 /\ \A n \in 1..Len(log') : ~Overloads(n)'
  BY <1>1, CameToCounts
<1>4. TypeOK'
  BY <1>1, <1>3 DEF Inv, TypeOK
<1>5. Counted'
  BY <1>1, <1>2, <1>3, ApiAssumption DEF Inv, TypeOK, Counted, Waiting
<1>6. Bounded'
  BY <1>1, <1>2, <1>3 DEF Bounded, AtMost, Waiting
<1>7. Hopeful'
  BY <1>1, <1>2 DEF Inv, Hopeful, Elsewhere, Waiting
<1> QED
  BY <1>4, <1>5, <1>6, <1>7 DEF Inv

LEMMA BackoffKeeps == ASSUME Inv, Backoff PROVE Inv'
<1>1. pc = "backoff" /\ UNCHANGED <<log, overloads, refusal, asking>>
  BY DEF Backoff
<1>2. CASE pc' = "send" /\ tries' = tries + 1
  <2>1. TypeOK' /\ Counted' /\ Hopeful'
    BY <1>1, <1>2, ApiAssumption DEF Inv, TypeOK, Counted, Hopeful, Elsewhere, Waiting
  <2>2. Bounded'
    BY <1>1, <1>2 DEF Inv, Bounded, AtMost, Overloads, Waiting
  <2> QED
    BY <2>1, <2>2 DEF Inv
<1>3. CASE GivesUp /\ UNCHANGED tries
  BY <1>1, <1>3, EndKeeps DEF GivesUp, retry
<1> QED
  BY <1>2, <1>3 DEF Backoff

-----------------------------------------------------------------------------
(* The client's decision and the engine's.                                 *)

LEMMA AssessKeeps == ASSUME Inv, Assess PROVE Inv'
<1>1. CASE ~(refusal # None /\ IsPermanent(refusal)) /\ Request("fallback", "send")
  BY <1>1, RequestKeeps DEF Assess, Lost
<1>2. CASE pc' = "decide" /\ UNCHANGED <<asking, retry>>
  BY <1>2, EndKeeps DEF Assess
<1> QED
  BY <1>1, <1>2 DEF Assess

LEMMA DecideKeeps == ASSUME Inv, Decide PROVE Inv'
<1>1. CASE refusal # None /\ Category(refusal) = "model_not_found" /\ Request("again", "send")
  <2>1. UNCHANGED refusal
    BY DEF Decide, result
  <2> QED
    BY <1>1, <2>1, RequestKeeps DEF Request, Elsewhere
<1>2. CASE pc' = "done" /\ UNCHANGED retry
  BY <1>2, EndKeeps DEF Decide
<1> QED
  BY <1>1, <1>2 DEF Decide

LEMMA StreamKeeps ==
    ASSUME Inv,
           \/ Accepted \/ NoHeaders \/ Serve \/ Hangup \/ ReadChunk \/ EndOfStream
           \/ ReadCancelled \/ DogFires \/ DogWrites \/ DogCloses \/ Cancel \/ Expire
           \/ UNCHANGED vars \/ \E e \in Errors : Refused(e)
    PROVE  Inv'
<1>1. CASE Accepted \/ NoHeaders \/ \E e \in Errors : Refused(e)
  BY <1>1, EndKeeps DEF Accepted, NoHeaders, Refused, Finished
<1>2. CASE EndOfStream \/ ReadCancelled
  BY <1>2, EndKeeps DEF EndOfStream, ReadCancelled, Closing, Finished
<1>3. CASE Serve \/ Hangup \/ ReadChunk
  BY <1>3, AsideKeeps DEF Serve, Hangup, ReadChunk, result
<1>4. CASE DogFires \/ DogWrites \/ DogCloses
  BY <1>4, AsideKeeps DEF DogFires, DogWrites, DogCloses, result
<1>5. CASE Cancel \/ Expire \/ UNCHANGED vars
  BY <1>5, AsideKeeps DEF Cancel, Expire, vars, result
<1> QED
  BY <1>1, <1>2, <1>3, <1>4, <1>5

LEMMA Inductive == Inv /\ [Next]_vars => Inv'
  BY StreamKeeps, AskKeeps, AttemptKeeps, RepliedKeeps, RejectedKeeps, FailedKeeps,
     BackoffKeeps, AssessKeeps, DecideKeeps DEF Next, Done

LEMMA Invariant == Spec => []Inv
  BY Initial, Inductive, PTL DEF Spec

-----------------------------------------------------------------------------

\* No series makes more requests than the configuration allows, nor goes on
\* after more overloads in a row, for any limits, errors and answers.
\* (sendWithRetry)
THEOREM RequestsBounded == Spec => []WithinLimits
<1>1. Inv => WithinLimits
  <2> SUFFICES ASSUME Inv PROVE WithinLimits
    OBVIOUS
  <2>1. Len(log) <= MaxRetries + 1
    BY ApiAssumption DEF Inv, TypeOK, Counted, Waiting
  <2>2. \A n \in 1..Len(log) : Overloads(n) => n <= Max529 + 1
    <3>1. CASE pc = "wait"
      BY <3>1 DEF Inv, TypeOK, Counted, Overloads
    <3>2. CASE pc \in {"send", "backoff"}
      BY <3>2, ApiAssumption DEF Inv, TypeOK, Bounded, AtMost
    <3>3. CASE ~Waiting
      BY <3>3 DEF Inv, Bounded, AtMost
    <3> QED
      BY <3>1, <3>2, <3>3 DEF Waiting
  <2>3. pc = "backoff" => \A n \in 1..Len(log) : Overloads(n) => n <= Max529
    BY ApiAssumption DEF Inv, TypeOK, Bounded, AtMost
  <2> QED
    BY <2>1, <2>2, <2>3 DEF WithinLimits
<1> QED
  BY <1>1, Invariant, PTL

\* A request goes out only while the user wants the answer, and after a refusal
\* for good only to look for the model elsewhere.
THEOREM RequestsWanted == Spec => OnlyWanted
<1> DEFINE A == Sends => ~cancelled
                       /\ (refusal # None /\ IsPermanent(refusal) =>
                              asking = "again" /\ Category(refusal) = "model_not_found")
<1>1. ASSUME Inv, Next, Sends PROVE A
  <2>1. AskStream \/ Attempt
    BY <1>1 DEF Next, Sends, Accepted, NoHeaders, Serve, Hangup, ReadChunk, EndOfStream,
       ReadCancelled, Closing, Finished, DogFires, DogWrites, DogCloses, Assess, Request,
       GivesUp, Again, Replied, Rejected, Failed, Backoff, Decide, Cancel, Expire, Done,
       Refused, vars
  <2>2. CASE AskStream
    BY <1>1, <2>2 DEF AskStream, Finished, Sends, Inv, Hopeful
  <2>3. CASE Attempt
    BY <1>1, <2>3 DEF Attempt, GivesUp, Gone, Sends, Inv, Hopeful, Waiting, Lost, Elsewhere
  <2> QED
    BY <2>1, <2>2, <2>3
<1>2. Inv /\ [Next]_vars => [A]_vars
  BY <1>1
<1> QED
  BY <1>2, Invariant, PTL DEF Spec, OnlyWanted

-----------------------------------------------------------------------------
(* Sequences that are joined: they keep their types.                       *)

\* Induction over the naturals, for sets.
LEMMA SetInduction ==
    ASSUME NEW S, 0 \in S, \A n \in Nat : n \in S => n + 1 \in S
    PROVE  Nat \subseteq S
<1> SUFFICES ASSUME Nat \ S # {} PROVE FALSE
  OBVIOUS
<1>1. PICK n \in Nat \ S : \A k \in Nat \ S : ~ (<<k, n>> \in OpToRel(<, Nat))
  BY NatLessThanWellFounded, WFMin, Zenon
<1>2. \A k \in Nat \ S : n <= k
  <2>1. TAKE k \in Nat \ S
  <2>2. ~ (<<k, n>> \in {p \in Nat \X Nat : p[1] < p[2]})
    BY <1>1 DEF OpToRel
  <2> QED
    BY <2>2
<1>3. n # 0 /\ n - 1 \in Nat /\ n - 1 + 1 = n
  OBVIOUS
<1>4. n - 1 \in S
  BY <1>2, <1>3
<1> QED
  BY <1>3, <1>4

\* What FlattenSeq is made of.
Joins(q, f) ==
  /\ DOMAIN f = 1..Len(q)
  /\ \A i \in 1..Len(q) : f[i] = IF i = 1 THEN q[i] ELSE f[i-1] \o q[i]

\* The running concatenation of a sequence of sequences exists...
LEMMA JoinExists ==
   ASSUME NEW T, NEW q \in Seq(Seq(T)), q # <<>>
   PROVE \E f : f = [i \in 1..Len(q) |-> IF i = 1 THEN q[i] ELSE f[i-1] \o q[i]]
<1> DEFINE P(m) == \E f : f = [i \in 1..m |-> IF i = 1 THEN q[i] ELSE f[i-1] \o q[i]]
           S == {m \in Nat : P(m)}
<1>1. 0 \in S
  <2>1. \A i \in 1..0 : FALSE
    OBVIOUS
  <2>2. << >> = [i \in 1..0 |-> IF i = 1 THEN q[i] ELSE << >>[i-1] \o q[i]]
    BY <2>1
  <2> QED BY <2>2
<1>2. ASSUME NEW n \in Nat, n \in S PROVE n + 1 \in S
  <2>1. PICK f : f = [i \in 1..n |-> IF i = 1 THEN q[i] ELSE f[i-1] \o q[i]]
    BY <1>2
  <2> DEFINE x == IF n + 1 = 1 THEN q[n+1] ELSE f[n] \o q[n+1]
             g == [i \in 1..(n+1) |-> IF i = n + 1 THEN x ELSE f[i]]
  <2>2. \A i \in 1..(n+1) : g[i] = IF i = 1 THEN q[i] ELSE g[i-1] \o q[i]
    <3> TAKE i \in 1..(n+1)
    <3> HIDE DEF x
    <3>1. CASE i = n + 1
      <4>1. g[i] = x
        BY <3>1
      <4>2. i # 1 => i - 1 = n /\ i - 1 \in 1..(n+1) /\ i - 1 # n + 1
        BY <3>1
      <4>3. i # 1 => g[i-1] = f[n]
        BY <4>2
      <4> QED BY <4>1, <4>3, <3>1 DEF x
    <3>2. CASE i # n + 1
      <4>1. i \in 1..n /\ (i # 1 => i - 1 \in 1..n /\ i - 1 # n + 1)
        BY <3>2
      <4>2. g[i] = f[i] /\ (i # 1 => g[i-1] = f[i-1])
        BY <3>2, <4>1
      <4>3. f[i] = IF i = 1 THEN q[i] ELSE f[i-1] \o q[i]
        BY <2>1, <4>1
      <4> QED BY <4>2, <4>3
    <3> QED BY <3>1, <3>2
  <2>3. g = [i \in 1..(n+1) |-> IF i = 1 THEN q[i] ELSE g[i-1] \o q[i]]
    <3>1. g = [i \in 1..(n+1) |-> g[i]]
      OBVIOUS
    <3> HIDE DEF g
    <3> QED BY <2>2, <3>1
  <2> HIDE DEF g
  <2>4. \E f_1 : f_1 = [i \in 1..(n+1) |-> IF i = 1 THEN q[i] ELSE f_1[i-1] \o q[i]]
    BY <2>3
  <2>5. n + 1 \in Nat
    OBVIOUS
  <2> QED BY <2>4, <2>5, Zenon
<1>3. Nat \subseteq S
  <2> HIDE DEF S
  <2> QED BY <1>1, <1>2, SetInduction
<1>4. Len(q) \in S
  <2> HIDE DEF S
  <2> QED BY <1>3, LenProperties
<1> QED BY <1>4

\* ...and FlattenSeq is the last of it.
LEMMA FlattenIs ==
   ASSUME NEW T, NEW q \in Seq(Seq(T)), q # <<>>
   PROVE \E f : Joins(q, f) /\ FlattenSeq(q) = f[Len(q)]
<1> DEFINE G == CHOOSE f : f = [i \in 1..Len(q) |-> IF i = 1 THEN q[i] ELSE f[i-1] \o q[i]]
<1>1. G = [i \in 1..Len(q) |-> IF i = 1 THEN q[i] ELSE G[i-1] \o q[i]]
  BY JoinExists
<1>2. FlattenSeq(q) = G[Len(q)]
  BY  DEF FlattenSeq
<1> HIDE DEF G
<1>3. Joins(q, G)
  <2>1. DOMAIN G = 1..Len(q)
    BY <1>1
  <2>2. \A i \in 1..Len(q) : G[i] = IF i = 1 THEN q[i] ELSE G[i-1] \o q[i]
    BY <1>1
  <2> QED BY <2>1, <2>2 DEF Joins
<1> QED BY <1>2, <1>3

\* A list of things of a type.
LEMMA Listed ==
    ASSUME NEW T, NEW n \in Nat, NEW g, g = [i \in 1..n |-> g[i]], \A i \in 1..n : g[i] \in T
    PROVE  g \in Seq(T)
  BY SeqDef

\* Of no parts comes nothing.
LEMMA FlattenEmpty == \A q : Len(q) = 0 => FlattenSeq(q) = q
  BY DEF FlattenSeq

\* It depends on no more than the parts it has joined.
LEMMA JoinsAgree ==
  ASSUME NEW T, NEW q \in Seq(Seq(T)), NEW p \in Seq(Seq(T)), Len(q) <= Len(p),
     \A i \in 1..Len(q) : p[i] = q[i],
     NEW f, NEW g, Joins(q, f), Joins(p, g)
  PROVE  \A i \in 1..Len(q) : f[i] = g[i] /\ f[i] \in Seq(T)
<1> DEFINE S == {m \in Nat : m \in 1..Len(q) => f[m] = g[m] /\ f[m] \in Seq(T)}
<1>0. Len(q) \in Nat /\ Len(p) \in Nat /\ \A i \in 1..Len(q) : q[i] \in Seq(T) /\ i \in 1..Len(p)
  BY LenProperties, ElementOfSeq
<1>1. 0 \in S
  OBVIOUS
<1>2. ASSUME NEW n \in Nat, n \in S PROVE n + 1 \in S
  <2> SUFFICES ASSUME n + 1 \in 1..Len(q) PROVE f[n+1] = g[n+1] /\ f[n+1] \in Seq(T)
    OBVIOUS
  <2>0. PICK m \in 1..Len(q) : m = n + 1
    OBVIOUS
  <2>1. /\ f[m] = IF m = 1 THEN q[m] ELSE f[m-1] \o q[m]
        /\ g[m] = IF m = 1 THEN p[m] ELSE g[m-1] \o p[m]
        /\ p[m] = q[m] /\ q[m] \in Seq(T)
    BY <1>0 DEF Joins
  <2>2. CASE n = 0
    BY <2>0, <2>1, <2>2
  <2>3. CASE n # 0
    <3>1. n \in 1..Len(q) /\ m - 1 = n /\ m # 1
      BY <1>0, <2>0, <2>3
    <3>0. n \in 1..Len(q) => f[n] = g[n] /\ f[n] \in Seq(T)
      BY <1>2
    <3>2. f[n] = g[n] /\ f[n] \in Seq(T)
      BY <3>0, <3>1
    <3>3. f[m] = f[n] \o q[m] /\ g[m] = g[n] \o q[m]
      BY <2>1, <3>1
    <3>4. f[n] \o q[m] \in Seq(T)
      BY <2>1, <3>2
    <3> QED BY <2>0, <3>2, <3>3, <3>4
  <2> QED BY <2>2, <2>3
<1>3. Nat \subseteq S
  <2> HIDE DEF S
  <2> QED BY <1>1, <1>2, SetInduction
<1> QED BY <1>0, <1>3

\* A part more is joined at the end.
LEMMA FlattenAppend ==
  ASSUME NEW T, NEW q \in Seq(Seq(T)), NEW x \in Seq(T)
  PROVE  /\ FlattenSeq(q) \in Seq(T)
         /\ FlattenSeq(Append(q, x)) = FlattenSeq(q) \o x
<1> DEFINE p == Append(q, x)
<1>0. /\ p \in Seq(Seq(T)) /\ Len(p) = Len(q) + 1 /\ Len(q) \in Nat /\ p # <<>>
      /\ \A i \in 1..Len(q) : p[i] = q[i]
      /\ p[Len(q) + 1] = x
  BY AppendProperties, LenProperties, EmptySeq
<1> HIDE DEF p
<1>1. PICK g : Joins(p, g) /\ FlattenSeq(p) = g[Len(q) + 1]
  BY <1>0, FlattenIs
<1>2. CASE q = <<>>
  <2>1. Len(q) = 0 /\ FlattenSeq(q) = <<>>
    BY <1>2, FlattenEmpty, EmptySeq
  <2>2. g[1] = x
    BY <1>0, <1>1, <2>1 DEF Joins
  <2>3. <<>> \in Seq(T) /\ <<>> \o x = x
    OBVIOUS
  <2> QED BY <1>1, <2>1, <2>2, <2>3 DEF p
<1>3. CASE q # <<>>
  <2>1. PICK f : Joins(q, f) /\ FlattenSeq(q) = f[Len(q)]
    BY <1>3, FlattenIs
  <2>2. Len(q) \in 1..Len(q) /\ Len(q) + 1 \in 1..Len(p) /\ Len(q) + 1 # 1
        /\ Len(q) + 1 - 1 = Len(q)
    BY <1>0, <1>3, EmptySeq
  <2>a. Len(q) <= Len(p)
    BY <1>0
  <2>b. \A i \in 1..Len(q) : f[i] = g[i] /\ f[i] \in Seq(T)
    BY <1>0, <1>1, <2>1, <2>a, JoinsAgree
  <2>3. f[Len(q)] = g[Len(q)] /\ f[Len(q)] \in Seq(T)
    BY <2>2, <2>b
  <2>4. g[Len(q) + 1] = g[Len(q)] \o x
    <3>1. PICK m \in 1..Len(p) : m = Len(q) + 1
      BY <2>2
    <3>2. g[m] = IF m = 1 THEN p[m] ELSE g[m-1] \o p[m]
      BY <1>1 DEF Joins
    <3> QED BY <1>0, <2>2, <3>1, <3>2
  <2> QED BY <1>1, <2>1, <2>3, <2>4 DEF p
<1> QED BY <1>2, <1>3

LEMMA FlattenTyped ==
    ASSUME NEW T, NEW q \in Seq(Seq(T))
    PROVE  FlattenSeq(q) \in Seq(T)
<1>1. << >> \in Seq(T)
  OBVIOUS
<1> QED
  BY <1>1, FlattenAppend

-----------------------------------------------------------------------------
(* The types of what is assembled.                                         *)

BlocksFrom(src) == [of: Types, at: Nat, size: Nat, src: {src}]
Accumulators == [blocks: Seq(BlocksFrom("stream")), shut: SUBSET (Types \cup Nat),
                 sent: Seq(BlocksFrom("stream")), ended: BOOLEAN]

\* What a provider says of a block, and what it says of the answer.
Says(k) == CASE k \in {"anthropic", "responses"} -> {"open", "piece", "close"}
             [] k = "openai" -> {"open", "piece"}
             [] k = "genai"  -> {"piece"}
Ends(k) == CASE k = "anthropic" -> {"finish", "stop"}
             [] k = "responses" -> {"finish", "failed"}
             [] k \in {"openai", "genai"} -> {"finish"}
Spoken(k) == [is: Says(k), of: Types, at: Nat]
ChunksOf(k) == Spoken(k) \cup [is: Ends(k), of: {"none"}, at: {0}]

LEMMA SelectionsTyped ==
    ASSUME NEW B, NEW bs \in Seq(B), NEW type, NEW a, a.blocks = bs, NEW c
    PROVE  OfType(bs, type) \in Seq(B) /\ AtPlace(a, c) \in Seq(B)
<1> DEFINE typed == [i \in DOMAIN bs |-> IF bs[i].of = type THEN <<bs[i]>> ELSE << >>]
           placed == [i \in DOMAIN bs |->
                        IF bs[i].of = c.of /\ bs[i].at = c.at THEN <<bs[i]>> ELSE << >>]
<1>1. \A i \in DOMAIN bs : <<bs[i]>> \in Seq(B) /\ << >> \in Seq(B)
  <2>1. \A i \in 1..Len(bs) : bs[i] \in B
    BY ElementOfSeq
  <2>2. DOMAIN bs = 1..Len(bs)
    OBVIOUS
  <2> QED
    BY <2>1, <2>2
<1>2. typed \in Seq(Seq(B)) /\ placed \in Seq(Seq(B))
  <2>1. DOMAIN bs = 1..Len(bs) /\ Len(bs) \in Nat
    OBVIOUS
  <2>2. \A i \in 1..Len(bs) : typed[i] \in Seq(B) /\ placed[i] \in Seq(B)
    BY <1>1, <2>1
  <2>3. typed = [i \in 1..Len(bs) |-> typed[i]] /\ placed = [i \in 1..Len(bs) |-> placed[i]]
    BY <2>1
  <2> HIDE DEF typed, placed
  <2> DEFINE SB == Seq(B)
  <2>4. (\A i \in 1..Len(bs) : typed[i] \in SB) /\ \A i \in 1..Len(bs) : placed[i] \in SB
    BY <2>2
  <2> HIDE DEF SB
  <2>5. typed \in Seq(SB) /\ placed \in Seq(SB)
    BY <2>1, <2>3, <2>4, Listed
  <2> QED
    BY <2>5 DEF SB
<1>3. FlattenSeq(typed) \in Seq(B) /\ FlattenSeq(placed) \in Seq(B)
  <2> HIDE DEF typed, placed
  <2> QED
    BY <1>2, FlattenTyped
<1> QED
  BY <1>3 DEF OfType, AtPlace

LEMMA OfTypeTyped ==
    ASSUME NEW B, NEW bs \in Seq(B), NEW type
    PROVE  OfType(bs, type) \in Seq(B)
<1>1. PICK a : a.blocks = bs
  <2>1. [blocks |-> bs].blocks = bs
    OBVIOUS
  <2> QED
    BY <2>1
<1> QED
  BY <1>1, SelectionsTyped

LEMMA GrowTyped ==
    ASSUME NEW a \in Accumulators, NEW type \in Types, NEW at \in Nat
    PROVE  Begin(a, type, at) \in Accumulators /\ Grow(a, type, at) \in Accumulators
<1> DEFINE S == BlocksFrom("stream")
           has == IF Places(a, type, at) = {} THEN Begin(a, type, at) ELSE a
           i == CHOOSE j \in Places(has, type, at) : TRUE
<1>1. a.blocks \in Seq(S) /\ Block(type, at, 0, "stream") \in S
  BY DEF Accumulators, BlocksFrom, Block
<1>2. Append(a.blocks, Block(type, at, 0, "stream")) \in Seq(S)
  <2> HIDE DEF S
  <2> QED
    BY <1>1
<1>3. Begin(a, type, at) \in Accumulators
        /\ Begin(a, type, at).blocks = Append(a.blocks, Block(type, at, 0, "stream"))
  BY <1>2 DEF Accumulators, Begin
<1>4. has \in Accumulators /\ Places(has, type, at) # {}
  <2>1. CASE Places(a, type, at) = {}
    <3> DEFINE n == Len(a.blocks) + 1
    <3>1. n \in DOMAIN has.blocks /\ has.blocks[n] = Block(type, at, 0, "stream")
      <4> HIDE DEF S
      <4> QED
        BY <1>1, <1>3, <2>1
    <3>2. n \in Places(has, type, at)
      BY <3>1 DEF Places, Block
    <3> QED
      BY <1>3, <2>1, <3>2
  <2>2. CASE Places(a, type, at) # {}
    BY <2>2
  <2> QED
    BY <2>1, <2>2
<1>5. Grow(a, type, at) = [has EXCEPT !.blocks[i].size = @ + 1]
  BY DEF Grow
<1> HIDE DEF has
<1>6. i \in DOMAIN has.blocks
  BY <1>4 DEF Places
<1> HIDE DEF i
<1>7. has.blocks \in Seq(S) /\ has.blocks[i] \in S
  BY <1>4, <1>6 DEF Accumulators
<1>8. [has.blocks[i] EXCEPT !.size = @ + 1] \in S
  <2>1. PICK b \in S : b = has.blocks[i]
    BY <1>7
  <2>2. b.size + 1 \in Nat
    BY DEF BlocksFrom
  <2>3. [b EXCEPT !.size = b.size + 1] \in S
    BY <2>2 DEF BlocksFrom
  <2> QED
    BY <2>1, <2>3
<1>9. [has.blocks EXCEPT ![i] = [has.blocks[i] EXCEPT !.size = @ + 1]] \in Seq(S)
  <2> HIDE DEF S
  <2> QED
    BY <1>6, <1>7, <1>8
<1> QED
  BY <1>3, <1>4, <1>5, <1>9 DEF Accumulators

LEMMA SendTyped ==
    ASSUME NEW a \in Accumulators, NEW bs \in Seq(BlocksFrom("stream"))
    PROVE  Send(a, bs) \in Accumulators
<1>1. a.sent \o bs \in Seq(BlocksFrom("stream"))
  BY DEF Accumulators
<1> QED
  BY <1>1 DEF Send, Accumulators

LEMMA ShutTyped ==
    ASSUME NEW a \in Accumulators, NEW type \in Types
    PROVE  Shut(a, type) \in Accumulators
<1>1. [a EXCEPT !.shut = @ \cup {type}] \in Accumulators
  BY DEF Accumulators
<1>2. OfType(a.blocks, type) \in Seq(BlocksFrom("stream"))
  BY SelectionsTyped DEF Accumulators
<1> QED
  BY <1>1, <1>2, SendTyped DEF Shut

LEMMA EndedTyped ==
    ASSUME NEW a \in Accumulators
    PROVE  [a EXCEPT !.ended = TRUE] \in Accumulators
  BY DEF Accumulators

LEMMA ShutTextTyped ==
    ASSUME NEW a \in Accumulators
    PROVE  ShutText(a) \in Accumulators
<1>1. Shut(a, "thinking") \in Accumulators
  BY ShutTyped DEF Types
<1> QED
  BY <1>1, ShutTyped DEF ShutText, Types

LEMMA ProcessTyped ==
    ASSUME NEW k \in Kinds, NEW a \in Accumulators, NEW c \in ChunksOf(k)
    PROVE  Process(k, a, c) \in Accumulators
<1>1. \/ c.is \in Says(k) /\ c.of \in Types /\ c.at \in Nat
      \/ c.is \in Ends(k)
  BY DEF ChunksOf, Spoken
<1>2. AtPlace(a, c) \in Seq(BlocksFrom("stream"))
        /\ OfType(a.blocks, "tool_use") \in Seq(BlocksFrom("stream"))
  BY SelectionsTyped DEF Accumulators
<1>3. Slot(k, c.of, c.at) \in Nat \/ c.is \in Ends(k)
  BY <1>1 DEF Slot
<1>4. ShutText(a) \in Accumulators /\ Shut(a, "thinking") \in Accumulators
        /\ [a EXCEPT !.ended = TRUE] \in Accumulators
  BY ShutTextTyped, ShutTyped, EndedTyped DEF Types
<1>5. CASE k = "anthropic"
  <2>1. CASE c.is = "open" \/ c.is = "piece"
    BY <1>1, <1>5, <2>1, GrowTyped DEF Process, Anthropic, Says, Ends
  <2>2. CASE c.is = "close"
    <3>1. c.at \in Nat
      BY <1>1, <1>5, <2>2 DEF Ends
    <3>2. [a EXCEPT !.shut = @ \cup {c.at}] \in Accumulators
      BY <3>1 DEF Accumulators
    <3> QED
      BY <1>2, <1>5, <2>2, <3>2, SendTyped DEF Process, Anthropic, AnthropicClose
  <2>3. CASE c.is = "finish" \/ c.is = "stop"
    BY <1>4, <1>5, <2>3 DEF Process, Anthropic
  <2> QED
    BY <1>1, <1>5, <2>1, <2>2, <2>3 DEF Says, Ends
<1>6. CASE k = "openai"
  <2>1. CASE c.is = "open"
    BY <1>1, <1>4, <1>6, <2>1, GrowTyped DEF Process, OpenAI, OpenAIOpen, Ends
  <2>2. CASE c.is = "piece"
    <3>1. c.of \in Types /\ Slot(k, c.of, c.at) \in Nat
      BY <1>1, <1>3, <1>6, <2>2 DEF Ends
    <3>2. (IF c.of = "text" THEN Shut(a, "thinking") ELSE a) \in Accumulators
      BY <1>4
    <3> QED
      BY <1>6, <2>2, <3>1, <3>2, GrowTyped DEF Process, OpenAI, OpenAIPiece
  <2>3. CASE c.is = "finish"
    BY <1>2, <1>4, <1>6, <2>3, SendTyped, EndedTyped DEF Process, OpenAI, OpenAIFinish
  <2> QED
    BY <1>1, <1>6, <2>1, <2>2, <2>3 DEF Says, Ends
<1>7. CASE k = "responses"
  <2>1. CASE c.is = "open"
    BY <1>1, <1>7, <2>1, GrowTyped DEF Process, Responses, ResponsesOpen, Ends
  <2>2. CASE c.is = "piece"
    <3>1. c.of \in Types /\ Slot(k, c.of, c.at) \in Nat
      BY <1>1, <1>3, <1>7, <2>2 DEF Ends
    <3>2. (CASE c.of = "thinking" -> a [] c.of = "text" -> Shut(a, "thinking")
             [] c.of = "tool_use" -> ShutText(a)) \in Accumulators
      BY <1>4, <3>1 DEF Types
    <3> QED
      BY <1>7, <2>2, <3>1, <3>2, GrowTyped DEF Process, Responses, ResponsesPiece
  <2>3. CASE c.is = "close"
    BY <1>2, <1>7, <2>3, SendTyped DEF Process, Responses, ResponsesClose
  <2>4. CASE c.is = "finish" \/ c.is = "failed"
    BY <1>4, <1>7, <2>4, EndedTyped DEF Process, Responses, ResponsesFinish, ResponsesFailed
  <2> QED
    BY <1>1, <1>7, <2>1, <2>2, <2>3, <2>4 DEF Says, Ends
<1>8. CASE k = "genai"
  <2>1. CASE c.is = "piece"
    <3>1. c.of \in Types /\ c.at \in Nat /\ Slot(k, c.of, c.at) \in Nat
      BY <1>1, <1>3, <1>8, <2>1 DEF Ends
    <3>2. CASE c.of = "tool_use"
      <4> DEFINE called == Grow(ShutText(a), c.of, c.at)
      <4>1. called \in Accumulators
        BY <1>4, <3>1, GrowTyped
      <4> HIDE DEF called
      <4>2. AtPlace(called, c) \in Seq(BlocksFrom("stream"))
        BY <4>1, SelectionsTyped DEF Accumulators
      <4>3. Send(called, AtPlace(called, c)) \in Accumulators
        BY <4>1, <4>2, SendTyped
      <4> QED
        BY <1>8, <2>1, <3>2, <4>3 DEF Process, GenAI, GenAICall, called
    <3>3. CASE c.of # "tool_use"
      <4>1. (IF c.of = "text" THEN Shut(a, "thinking") ELSE a) \in Accumulators
        BY <1>4
      <4> QED
        BY <1>8, <2>1, <3>1, <3>3, <4>1, GrowTyped DEF Process, GenAI, GenAIText
    <3> QED
      BY <3>2, <3>3
  <2>2. CASE c.is = "finish"
    BY <1>4, <1>8, <2>2, EndedTyped DEF Process, GenAI, GenAIFinish
  <2> QED
    BY <1>1, <1>8, <2>1, <2>2 DEF Says, Ends
<1> QED
  BY <1>5, <1>6, <1>7, <1>8 DEF Kinds

\* Of the blocks of a result: its own, and from one answer.
LEMMA NamelessTyped ==
    ASSUME NEW src, NEW bs \in Seq(BlocksFrom(src))
    PROVE  Nameless(bs) \in Seq(BlocksFrom(src))
<1> DEFINE B == BlocksFrom(src)
           g == Nameless(bs)
<1>1. Len(bs) \in Nat /\ DOMAIN bs = 1..Len(bs)
  OBVIOUS
<1>2. ASSUME NEW i \in 1..Len(bs) PROVE g[i] \in B
  <2>1. PICK b \in B : b = bs[i]
    BY <1>2, ElementOfSeq
  <2>2. [b EXCEPT !.at = 0] \in B
    BY DEF BlocksFrom
  <2>3. g[i] = IF b.of = "tool_use" THEN [b EXCEPT !.at = 0] ELSE b
    BY <1>1, <1>2, <2>1 DEF Nameless
  <2> QED
    BY <2>2, <2>3
<1>3. g = [i \in 1..Len(bs) |-> g[i]]
  BY <1>1 DEF Nameless
<1> HIDE DEF g
<1>4. g \in Seq(B)
  BY <1>1, <1>2, <1>3, Listed
<1> QED
  BY <1>4 DEF g

LEMMA AssembledTyped ==
    ASSUME NEW k, NEW a \in Accumulators
    PROVE  Assembled(k, a) \in Seq(BlocksFrom("stream"))
<1> DEFINE B == BlocksFrom("stream")
<1>1. a.blocks \in Seq(B)
  BY DEF Accumulators
<1>2. Finalized(a) \in Seq(B)
  <2>1. /\ OfType(a.blocks, "thinking") \in Seq(B) /\ OfType(a.blocks, "text") \in Seq(B)
        /\ OfType(a.blocks, "tool_use") \in Seq(B)
    BY <1>1, SelectionsTyped
  <2> QED
    BY <2>1 DEF Finalized
<1>3. AnthropicBlocks(a) \in Seq(B)
  <2> DEFINE n == Len(a.blocks)
             g == AnthropicBlocks(a)
  <2>1. n \in Nat /\ DOMAIN a.blocks = 1..n
    BY <1>1
  <2>2. ASSUME NEW i \in 1..n PROVE g[i] \in B
    <3>1. PICK b \in B : b = a.blocks[i]
      BY <1>1, <2>2, ElementOfSeq
    <3>2. [b EXCEPT !.size = 0] \in B
      BY DEF BlocksFrom
    <3>3. g[i] = b \/ g[i] = [b EXCEPT !.size = 0]
      BY <2>1, <2>2, <3>1 DEF AnthropicBlocks
    <3> QED
      BY <3>1, <3>2, <3>3
  <2>3. g = [i \in 1..n |-> g[i]]
    BY <2>1 DEF AnthropicBlocks
  <2> HIDE DEF g
  <2>4. g \in Seq(B)
    BY <2>1, <2>2, <2>3, Listed
  <2> QED
    BY <2>4 DEF g
<1> QED
  BY <1>2, <1>3, NamelessTyped DEF Assembled

LEMMA ReplyTyped ==
    ASSUME NEW ans \in Seq(Types)
    PROVE  Reply(ans) \in Seq(BlocksFrom("reply"))
<1> DEFINE B == BlocksFrom("reply")
           g == Reply(ans)
<1>1. Len(ans) \in Nat /\ DOMAIN ans = 1..Len(ans)
  OBVIOUS
<1>2. ASSUME NEW i \in 1..Len(ans) PROVE g[i] \in B
  <2>1. ans[i] \in Types /\ i \in Nat
    BY <1>2, ElementOfSeq
  <2>2. g[i] = Block(ans[i], i, Pieces(ans[i]), "reply")
    BY <1>1, <1>2 DEF Reply
  <2> QED
    BY <2>1, <2>2 DEF Block, BlocksFrom, Pieces
<1>3. g = [i \in 1..Len(ans) |-> g[i]]
  BY <1>1 DEF Reply
<1> HIDE DEF g
<1>4. g \in Seq(B)
  BY <1>1, <1>2, <1>3, Listed
<1> QED
  BY <1>4 DEF g

LEMMA ParsedTyped ==
    ASSUME NEW k \in Kinds, NEW ans \in Seq(Types)
    PROVE  Parsed(k, ans) \in Seq(BlocksFrom("reply"))
<1> DEFINE B == BlocksFrom("reply")
           bs == Reply(ans)
           Field(type) == IF OfType(bs, type) = << >> THEN << >>
                          ELSE <<Block(type, 0, Len(OfType(bs, type)) * Pieces(type), "reply")>>
<1>1. bs \in Seq(B)
  BY ReplyTyped
<1> HIDE DEF bs
<1>2. ASSUME NEW type \in Types PROVE Field(type) \in Seq(B) /\ OfType(bs, type) \in Seq(B)
  <2>1. OfType(bs, type) \in Seq(B)
    BY <1>1, OfTypeTyped
  <2> DEFINE n == Len(OfType(bs, type)) * Pieces(type)
  <2>2. n \in Nat
    BY <2>1 DEF Pieces
  <2> HIDE DEF n
  <2>3. Block(type, 0, n, "reply") \in B
    BY <2>2 DEF Block, BlocksFrom
  <2> HIDE DEF B
  <2>4. <<Block(type, 0, n, "reply")>> \in Seq(B) /\ << >> \in Seq(B)
    BY <2>3
  <2> QED
    BY <2>1, <2>4 DEF n, B
<1>3. Field("thinking") \o Field("text") \o OfType(bs, "tool_use") \in Seq(B)
  <2>1. Field("thinking") \in Seq(B) /\ Field("text") \in Seq(B) /\ OfType(bs, "tool_use") \in Seq(B)
    BY <1>2 DEF Types
  <2> HIDE DEF B, Field
  <2> QED
    BY <2>1
<1>4. OpenAIReply(ans) \in Seq(B)
  BY <1>3 DEF OpenAIReply, bs
<1> QED
  BY <1>1, <1>4, NamelessTyped DEF Parsed, ResponsesReply, GenAIReply, Kinds, bs

\* What a server says.
LEMMA BlockChunksTyped ==
    ASSUME NEW k \in Kinds, NEW type \in Types, NEW at \in Nat
    PROVE  BlockChunks(k, type, at) \in Seq(Spoken(k))
<1> DEFINE C == Spoken(k)
           opens == IF Opens(k, type) THEN <<Chunk("open", type, at)>> ELSE << >>
           pieces == [i \in 1..Pieces(type) |-> Chunk("piece", type, at)]
           closes == IF Closes(k, type) THEN <<Chunk("close", type, at)>> ELSE << >>
<1>1. Opens(k, type) => Chunk("open", type, at) \in C
  BY DEF Chunk, Spoken, Opens, Says, Kinds
<1>2. Chunk("piece", type, at) \in C
  BY DEF Chunk, Spoken, Says, Kinds
<1>3. Closes(k, type) => Chunk("close", type, at) \in C
  BY DEF Chunk, Spoken, Closes, Says, Kinds
<1>4. Pieces(type) \in Nat
  BY DEF Pieces
<1> HIDE DEF C
<1>5. opens \in Seq(C) /\ closes \in Seq(C)
  BY <1>1, <1>3
<1>6. pieces \in Seq(C)
  BY <1>2, <1>4, Listed
<1> HIDE DEF opens, pieces, closes
<1>7. opens \o pieces \o closes \in Seq(C)
  BY <1>5, <1>6
<1> QED
  BY <1>7 DEF BlockChunks, opens, pieces, closes, C

LEMMA WireTyped ==
    ASSUME NEW k \in Kinds, NEW ans \in Seq(Types)
    PROVE  Wire(k, ans) \in Seq(ChunksOf(k))
<1> DEFINE C == ChunksOf(k)
           D == Spoken(k)
           S == Seq(D)
           q == [i \in DOMAIN ans |-> BlockChunks(k, ans[i], i)]
           stop == IF k = "anthropic" THEN Mark("stop") ELSE << >>
<1>1. Len(ans) \in Nat /\ DOMAIN ans = 1..Len(ans)
  OBVIOUS
<1>2. \A i \in 1..Len(ans) : q[i] \in S
  BY <1>1, ElementOfSeq, BlockChunksTyped
<1>3. q = [i \in 1..Len(ans) |-> q[i]]
  BY <1>1
<1>4. q \in Seq(S)
  <2> HIDE DEF q, S
  <2> QED
    BY <1>1, <1>2, <1>3, Listed
<1>5. FlattenSeq(q) \in Seq(C)
  <2>1. D \subseteq C
    BY DEF ChunksOf
  <2> HIDE DEF q, C, D
  <2>2. FlattenSeq(q) \in Seq(D)
    BY <1>4, FlattenTyped
  <2> QED
    BY <2>1, <2>2
<1>6. Chunk("finish", "none", 0) \in C /\ (k = "anthropic" => Chunk("stop", "none", 0) \in C)
  BY DEF Chunk, ChunksOf, Ends, Kinds
<1>7. Mark("finish") \in Seq(C) /\ stop \in Seq(C)
  <2> HIDE DEF C
  <2> QED
    BY <1>6 DEF Mark
<1> HIDE DEF q, stop, C
<1>8. FlattenSeq(q) \o Mark("finish") \o stop \in Seq(C)
  BY <1>5, <1>7
<1> QED
  BY <1>8 DEF Wire, q, stop, C

-----------------------------------------------------------------------------
(* What the chunks of one block do to the accumulator.                     *)

Parts == BlocksFrom("stream")
No == FALSE
Acc(bs, sh, se) == [blocks |-> bs, shut |-> sh, sent |-> se, ended |-> No]
One(b, type) == IF b.of = type THEN <<b>> ELSE << >>
Partly(type, at, n) == Block(type, at, n, "stream")

\* A block more adds itself to the blocks of its type.
LEMMA OfTypeAppend ==
    ASSUME NEW T, NEW bs \in Seq(T), NEW b \in T, NEW type
    PROVE  /\ OfType(bs, type) \in Seq(T)
           /\ OfType(Append(bs, b), type) = OfType(bs, type) \o One(b, type)
<1> DEFINE q == [i \in DOMAIN bs |-> IF bs[i].of = type THEN <<bs[i]>> ELSE << >>]
           cs == Append(bs, b)
           p == [i \in DOMAIN cs |-> IF cs[i].of = type THEN <<cs[i]>> ELSE << >>]
           n == Len(bs)
<1>1. /\ n \in Nat /\ DOMAIN bs = 1..n /\ DOMAIN cs = 1..(n+1)
      /\ cs[n+1] = b /\ \A i \in 1..n : bs[i] \in T /\ cs[i] = bs[i]
  OBVIOUS
<1>2. q = [i \in 1..n |-> q[i]] /\ \A i \in 1..n : q[i] \in Seq(T)
  BY <1>1
<1>3. q \in Seq(Seq(T)) /\ Len(q) = n
  <2> DEFINE S == Seq(T)
  <2>1. \A i \in 1..n : q[i] \in S
    BY <1>2
  <2>2. q \in Seq(S)
    <3> HIDE DEF q, S, n
    <3> QED
      BY <1>1, <1>2, <2>1, Listed
  <2>3. DOMAIN q = 1..n
    BY <1>1
  <2> HIDE DEF q
  <2> QED
    BY <1>1, <2>2, <2>3
<1>4. One(b, type) \in Seq(T)
  BY DEF One
<1>5. p = Append(q, One(b, type))
  <2> DEFINE S == Seq(T)
             r == Append(q, One(b, type))
  <2>1. q \in Seq(S) /\ One(b, type) \in S
    BY <1>3, <1>4
  <2>2. /\ r \in Seq(S) /\ Len(r) = n + 1 /\ r[n+1] = One(b, type)
        /\ \A i \in 1..n : r[i] = q[i]
    <3> HIDE DEF q, S, n
    <3> QED
      BY <1>1, <1>3, <2>1, AppendProperties
  <2>3. r = [i \in 1..(n+1) |-> r[i]]
    <3> HIDE DEF r, S
    <3> QED
      BY <1>1, <2>2
  <2>4. ASSUME NEW i \in 1..(n+1) PROVE p[i] = r[i]
    <3>1. CASE i = n + 1
      <4>1. p[n+1] = One(b, type)
        BY <1>1 DEF One
      <4> QED
        BY <2>2, <3>1, <4>1
    <3>2. CASE i # n + 1
      <4>1. i \in 1..n
        BY <1>1, <3>2
      <4>2. p[i] = q[i]
        BY <1>1, <4>1
      <4> QED
        BY <2>2, <4>1, <4>2
    <3> QED
      BY <3>1, <3>2
  <2>5. p = [i \in 1..(n+1) |-> p[i]]
    BY <1>1
  <2> HIDE DEF p, r, n
  <2>6. p = r
    BY <2>3, <2>4, <2>5
  <2> QED
    BY <2>6 DEF r
<1>6. FlattenSeq(p) = FlattenSeq(q) \o One(b, type) /\ FlattenSeq(q) \in Seq(T)
  <2> HIDE DEF p, q
  <2> QED
    BY <1>3, <1>4, <1>5, FlattenAppend
<1> QED
  BY <1>6 DEF OfType

LEMMA OfTypeNone == \A type : OfType(<< >>, type) = << >>
  BY DEF OfType, FlattenSeq

\* The one block a chunk belongs to, where it is the last.
LEMMA NoneJoined ==
    ASSUME NEW T, NEW q \in Seq(Seq(T)), \A i \in 1..Len(q) : q[i] = << >>
    PROVE  FlattenSeq(q) = << >>
<1>1. CASE q = << >>
  BY <1>1 DEF FlattenSeq
<1>2. CASE q # << >>
  <2>1. PICK f : Joins(q, f) /\ FlattenSeq(q) = f[Len(q)]
    BY <1>2, FlattenIs
  <2> DEFINE S == {m \in Nat : m \in 1..Len(q) => f[m] = << >>}
  <2>2. 0 \in S
    OBVIOUS
  <2>3. ASSUME NEW n \in Nat, n \in S PROVE n + 1 \in S
    <3> SUFFICES ASSUME n + 1 \in 1..Len(q) PROVE f[n+1] = << >>
      OBVIOUS
    <3>1. PICK m \in 1..Len(q) : m = n + 1
      OBVIOUS
    <3>2. f[m] = IF m = 1 THEN q[m] ELSE f[m-1] \o q[m]
      BY <2>1 DEF Joins
    <3>3. m # 1 => n \in 1..Len(q) /\ m - 1 = n
      BY <3>1
    <3>4. << >> \o << >> = << >>
      OBVIOUS
    <3> QED
      BY <2>3, <3>1, <3>2, <3>3, <3>4
  <2>4. Nat \subseteq S
    <3> HIDE DEF S
    <3> QED
      BY <2>2, <2>3, SetInduction
  <2> QED
    BY <1>2, <2>1, <2>4
<1> QED
  BY <1>1, <1>2

LEMMA AtPlaceLast ==
    ASSUME NEW T, NEW bs \in Seq(T), NEW b \in T, NEW a, a.blocks = Append(bs, b),
           NEW c, b.of = c.of, b.at = c.at,
           \A i \in 1..Len(bs) : ~(bs[i].of = c.of /\ bs[i].at = c.at)
    PROVE  AtPlace(a, c) = <<b>>
<1> DEFINE n == Len(bs)
           cs == Append(bs, b)
           q == [i \in 1..n |-> << >>]
           p == [i \in DOMAIN cs |->
                    IF cs[i].of = c.of /\ cs[i].at = c.at THEN <<cs[i]>> ELSE << >>]
           S == Seq(T)
<1>1. /\ n \in Nat /\ DOMAIN cs = 1..(n+1)
      /\ cs[n+1] = b /\ \A i \in 1..n : cs[i] = bs[i]
  OBVIOUS
<1>2. q \in Seq(S) /\ Len(q) = n /\ <<b>> \in S /\ << >> \in S
  <2>1. << >> \in S /\ <<b>> \in S
    OBVIOUS
  <2>2. q = [i \in 1..n |-> q[i]] /\ \A i \in 1..n : q[i] = << >>
    OBVIOUS
  <2>3. DOMAIN q = 1..n
    OBVIOUS
  <2> HIDE DEF q, S, n
  <2>4. q \in Seq(S)
    BY <1>1, <2>1, <2>2, Listed
  <2> QED
    BY <1>1, <2>1, <2>3, <2>4
<1>3. p = Append(q, <<b>>)
  <2> DEFINE r == Append(q, <<b>>)
  <2>1. /\ r \in Seq(S) /\ Len(r) = n + 1 /\ r[n+1] = <<b>>
        /\ \A i \in 1..n : r[i] = q[i]
    <3> HIDE DEF q, S, n
    <3> QED
      BY <1>1, <1>2, AppendProperties
  <2>2. r = [i \in 1..(n+1) |-> r[i]]
    <3> HIDE DEF r, S
    <3> QED
      BY <1>1, <2>1
  <2>3. ASSUME NEW i \in 1..(n+1) PROVE p[i] = r[i]
    <3>1. CASE i = n + 1
      BY <1>1, <2>1, <3>1
    <3>2. CASE i # n + 1
      <4>1. i \in 1..n
        BY <1>1, <3>2
      <4>2. p[i] = << >> /\ q[i] = << >>
        BY <1>1, <4>1
      <4> QED
        BY <2>1, <4>1, <4>2
    <3> QED
      BY <3>1, <3>2
  <2>4. p = [i \in 1..(n+1) |-> p[i]]
    BY <1>1
  <2> HIDE DEF p, r, n
  <2>5. p = r
    BY <2>2, <2>3, <2>4
  <2> QED
    BY <2>5 DEF r
<1>4. \A i \in 1..n : q[i] = << >>
  OBVIOUS
<1>5. FlattenSeq(q) = << >> /\ FlattenSeq(p) = FlattenSeq(q) \o <<b>>
  <2> HIDE DEF q, p, n
  <2> QED
    BY <1>2, <1>3, <1>4, NoneJoined, FlattenAppend DEF S
<1>6. FlattenSeq(p) = <<b>>
  <2> HIDE DEF q, p
  <2> QED
    BY <1>5
<1> QED
  BY <1>6 DEF AtPlace

\* A piece begins its block, or makes it one longer.
NotYet(bs, type, at) == \A i \in 1..Len(bs) : ~(bs[i].of = type /\ bs[i].at = at)

LEMMA GrowOn ==
    ASSUME NEW bs \in Seq(Parts), NEW type \in Types, NEW at \in Nat, NotYet(bs, type, at),
           NEW n \in Nat, NEW sh, NEW se
    PROVE  Grow(Acc(Append(bs, Partly(type, at, n)), sh, se), type, at)
                = Acc(Append(bs, Partly(type, at, n + 1)), sh, se)
<1> DEFINE b == Partly(type, at, n)
           cs == Append(bs, b)
           a == Acc(cs, sh, se)
           m == Len(bs) + 1
           i == CHOOSE j \in Places(a, type, at) : TRUE
<1>1. b \in Parts /\ Partly(type, at, n + 1) \in Parts /\ b.of = type /\ b.at = at
        /\ [b EXCEPT !.size = @ + 1] = Partly(type, at, n + 1)
  BY DEF Parts, BlocksFrom, Partly, Block
<1> HIDE DEF b
<1>2. /\ cs \in Seq(Parts) /\ Len(cs) = m /\ m \in 1..Len(cs) /\ DOMAIN cs = 1..Len(cs)
      /\ cs[m] = b /\ \A j \in 1..Len(cs) : j # m => j \in 1..Len(bs) /\ cs[j] = bs[j]
  BY <1>1
<1>3. Places(a, type, at) = {m}
  <2>1. a.blocks = cs
    BY DEF Acc
  <2> HIDE DEF a, cs
  <2> QED
    BY <1>1, <1>2, <2>1 DEF Places, NotYet
<1>4. i = m
  BY <1>3
<1>5. Grow(a, type, at) = [a EXCEPT !.blocks[m].size = @ + 1]
  <2> HIDE DEF a
  <2> QED
    BY <1>3, <1>4 DEF Grow
<1>6. [cs EXCEPT ![m] = Partly(type, at, n + 1)] = Append(bs, Partly(type, at, n + 1))
  <2> HIDE DEF cs
  <2>1. [cs EXCEPT ![m] = Partly(type, at, n + 1)] \in Seq(Parts)
    BY <1>1, <1>2
  <2> QED
    BY <1>1, <1>2, <2>1
<1>7. [a EXCEPT !.blocks[m].size = @ + 1] = Acc([cs EXCEPT ![m].size = @ + 1], sh, se)
  <2>1. a.blocks = cs
    BY DEF Acc
  <2>3. \A x : [a EXCEPT !.blocks = x] = Acc(x, sh, se)
    <3> TAKE x
    <3> HIDE DEF cs
    <3> QED
      BY DEF Acc
  <2> HIDE DEF a, cs, m
  <2> QED
    BY <2>1, <2>3
<1>8. [cs EXCEPT ![m].size = @ + 1] = [cs EXCEPT ![m] = Partly(type, at, n + 1)]
  <2> HIDE DEF cs
  <2> QED
    BY <1>1, <1>2
<1> QED
  BY <1>5, <1>6, <1>7, <1>8 DEF b

LEMMA GrowFirst ==
    ASSUME NEW bs \in Seq(Parts), NEW type \in Types, NEW at \in Nat, NotYet(bs, type, at),
           NEW sh, NEW se
    PROVE  /\ Begin(Acc(bs, sh, se), type, at)
                = Acc(Append(bs, Partly(type, at, 0)), sh, se)
           /\ Grow(Acc(bs, sh, se), type, at)
                = Acc(Append(bs, Partly(type, at, 1)), sh, se)
<1> DEFINE a == Acc(bs, sh, se)
           has == Acc(Append(bs, Partly(type, at, 0)), sh, se)
<1>1. Begin(a, type, at) = has
  <2> DEFINE x == Append(bs, Partly(type, at, 0))
  <2>1. a.blocks = bs
    BY DEF Acc
  <2>2. Begin(a, type, at) = [a EXCEPT !.blocks = x]
    BY <2>1 DEF Begin, Partly
  <2>3. [a EXCEPT !.blocks = x] = Acc(x, sh, se)
    <3> HIDE DEF x
    <3> QED
      BY DEF Acc
  <2> QED
    BY <2>2, <2>3
<1>2. Places(a, type, at) = {}
  <2>1. a.blocks = bs /\ DOMAIN bs = 1..Len(bs)
    BY DEF Acc
  <2> QED
    BY <2>1 DEF Places, NotYet
<1>3. Places(has, type, at) # {}
  <2>1. Partly(type, at, 0) \in Parts /\ Partly(type, at, 0).of = type
          /\ Partly(type, at, 0).at = at
    BY DEF Parts, BlocksFrom, Partly, Block
  <2>2. has.blocks = Append(bs, Partly(type, at, 0))
    BY DEF Acc
  <2>3. Len(bs) + 1 \in DOMAIN has.blocks /\ has.blocks[Len(bs) + 1] = Partly(type, at, 0)
    BY <2>1, <2>2
  <2> QED
    BY <2>1, <2>3 DEF Places
<1>4. Grow(a, type, at) = Grow(has, type, at)
  <2> HIDE DEF a, has
  <2> QED
    BY <1>1, <1>2, <1>3 DEF Grow
<1>5. Grow(has, type, at) = Acc(Append(bs, Partly(type, at, 0 + 1)), sh, se)
  BY GrowOn
<1> QED
  BY <1>1, <1>4, <1>5

\* What Shut sends of a type, and what it marks.
Left(bs, sh, type) == IF type \in sh THEN << >> ELSE OfType(bs, type)
Marks(bs, sh, type) == IF OfType(bs, type) = << >> THEN sh ELSE sh \cup {type}
AllMarks(bs, sh) == Marks(bs, Marks(bs, sh, "thinking"), "text")

LEMMA ShutIs ==
    ASSUME NEW bs \in Seq(Parts), NEW se \in Seq(Parts), NEW sh, NEW type
    PROVE  Shut(Acc(bs, sh, se), type)
                = Acc(bs, Marks(bs, sh, type), se \o Left(bs, sh, type))
<1> DEFINE a == Acc(bs, sh, se)
<1>1. a.blocks = bs /\ a.shut = sh
  BY DEF Acc
<1>2. CASE OfType(bs, type) = << >> \/ type \in sh
  <2>1. Left(bs, sh, type) = << >> /\ Marks(bs, sh, type) = sh
    BY <1>2 DEF Left, Marks
  <2>2. se \o << >> = se
    OBVIOUS
  <2>3. Shut(a, type) = a
    <3> HIDE DEF a
    <3> QED
      BY <1>1, <1>2 DEF Shut
  <2> QED
    BY <2>1, <2>2, <2>3
<1>3. CASE ~(OfType(bs, type) = << >> \/ type \in sh)
  <2> DEFINE b == [a EXCEPT !.shut = @ \cup {type}]
             x == OfType(bs, type)
  <2>1. b = Acc(bs, sh \cup {type}, se)
    <3> DEFINE y == sh \cup {type}
    <3>1. b = [a EXCEPT !.shut = y]
      BY <1>1
    <3>2. [a EXCEPT !.shut = y] = Acc(bs, y, se)
      <4> HIDE DEF y
      <4> QED
        BY DEF Acc
    <3> QED
      BY <3>1, <3>2
  <2>2. Shut(a, type) = Send(b, x)
    <3> HIDE DEF a
    <3> QED
      BY <1>1, <1>3 DEF Shut
  <2>3. Send(Acc(bs, sh \cup {type}, se), x) = Acc(bs, sh \cup {type}, se \o x)
    <3> DEFINE z == sh \cup {type}
               c == Acc(bs, z, se)
               y == se \o x
    <3>1. c.sent = se
      BY DEF Acc
    <3>2. [c EXCEPT !.sent = y] = Acc(bs, z, y)
      <4> HIDE DEF y, z
      <4> QED
        BY DEF Acc
    <3> HIDE DEF c, x
    <3> QED
      BY <3>1, <3>2 DEF Send, c
  <2>4. Left(bs, sh, type) = x /\ Marks(bs, sh, type) = sh \cup {type}
    BY <1>3 DEF Left, Marks
  <2> HIDE DEF a, b, x
  <2> QED
    BY <2>1, <2>2, <2>3, <2>4 DEF a
<1> QED
  BY <1>2, <1>3

LEMMA ShutTextIs ==
    ASSUME NEW bs \in Seq(Parts), NEW se \in Seq(Parts), NEW sh
    PROVE  /\ ShutText(Acc(bs, sh, se))
                = Acc(bs, AllMarks(bs, sh),
                      se \o Left(bs, sh, "thinking") \o Left(bs, sh, "text"))
           /\ Left(bs, sh, "thinking") \in Seq(Parts) /\ Left(bs, sh, "text") \in Seq(Parts)
<1> DEFINE sh1 == Marks(bs, sh, "thinking")
           se1 == se \o Left(bs, sh, "thinking")
<1>1. Left(bs, sh, "thinking") \in Seq(Parts) /\ Left(bs, sh, "text") \in Seq(Parts)
  BY OfTypeTyped DEF Left
<1>2. se1 \in Seq(Parts)
  BY <1>1
<1>3. "text" \in sh1 <=> "text" \in sh
  BY DEF Marks
<1>4. Left(bs, sh1, "text") = Left(bs, sh, "text")
  BY <1>3 DEF Left
<1>5. Shut(Acc(bs, sh, se), "thinking") = Acc(bs, sh1, se1)
  BY ShutIs
<1> HIDE DEF sh1, se1
<1>6. Shut(Acc(bs, sh1, se1), "text")
        = Acc(bs, Marks(bs, sh1, "text"), se1 \o Left(bs, sh1, "text"))
  BY <1>2, ShutIs
<1> QED
  BY <1>1, <1>4, <1>5, <1>6 DEF ShutText, AllMarks, sh1, se1

-----------------------------------------------------------------------------
(* The accumulator between two blocks.                                     *)

\* The blocks that m blocks of the answer make.
Full(k, ans, i) == Partly(ans[i], Slot(k, ans[i], i), Pieces(ans[i]))
Built(k, ans, m) == [i \in 1..m |-> Full(k, ans, i)]

\* The tools that are sent as they come.
Tools(k, bs) == IF k = "openai" THEN << >> ELSE OfType(bs, "tool_use")
Sorted(k, bs) == OfType(bs, "thinking") \o OfType(bs, "text") \o Tools(k, bs)

\* Anthropic's has sent what it has.  Of the others, what has been sent and what
\* would be sent at the end of the text is all there is, in its order; and as
\* long as there may be a text to come, nothing has been sent.
Between(k, ans, m, bs, sh, se) ==
    IF k = "anthropic" THEN sh = 1..m /\ se = bs
    ELSE /\ se \o Left(bs, sh, "thinking") \o Left(bs, sh, "text") = Sorted(k, bs)
         /\ m = 0 \/ (m = 1 /\ ans[1] = "thinking") => sh = {} /\ se = << >>
Border(k, ans, m, a) ==
    \E sh \in SUBSET (Types \cup Nat), se \in Seq(Parts) :
        /\ a = Acc(Built(k, ans, m), sh, se)
        /\ Between(k, ans, m, Built(k, ans, m), sh, se)

Usual(k, ans) == k = "anthropic" \/ InOrder(ans)

LEMMA BuiltGrows ==
    ASSUME NEW k \in Kinds, NEW ans \in Seq(Types), NEW m \in Nat, m + 1 \in 1..Len(ans)
    PROVE  /\ Built(k, ans, m) \in Seq(Parts) /\ Len(Built(k, ans, m)) = m
           /\ Full(k, ans, m + 1) \in Parts
           /\ Built(k, ans, m + 1) = Append(Built(k, ans, m), Full(k, ans, m + 1))
<1> DEFINE g == Built(k, ans, m)
           h == Built(k, ans, m + 1)
           b == Full(k, ans, m + 1)
<1>1. ASSUME NEW i \in 1..(m+1) PROVE Full(k, ans, i) \in Parts
  <2>1. i \in 1..Len(ans) /\ i \in Nat
    OBVIOUS
  <2>2. ans[i] \in Types
    BY <2>1, ElementOfSeq
  <2> QED
    BY <2>1, <2>2 DEF Full, Partly, Block, Parts, BlocksFrom, Slot, Pieces
<1>2. m + 1 \in Nat /\ m + 1 \in 1..(m+1) /\ \A i \in 1..m : i \in 1..(m+1)
  OBVIOUS
<1>3. g = [i \in 1..m |-> g[i]] /\ \A i \in 1..m : g[i] = Full(k, ans, i)
  BY DEF Built
<1>4. h = [i \in 1..(m+1) |-> h[i]] /\ \A i \in 1..(m+1) : h[i] = Full(k, ans, i)
  BY DEF Built
<1>5. DOMAIN g = 1..m
  BY DEF Built
<1> HIDE DEF g, h
<1>6. g \in Seq(Parts)
  BY <1>1, <1>2, <1>3, Listed
<1>7. Len(g) = m /\ b \in Parts
  BY <1>1, <1>2, <1>5, <1>6
<1> HIDE DEF b
<1>8. h = Append(g, b)
  <2>1. /\ Append(g, b) \in Seq(Parts) /\ Len(Append(g, b)) = m + 1
        /\ Append(g, b)[m+1] = b /\ \A i \in 1..m : Append(g, b)[i] = g[i]
    BY <1>6, <1>7, AppendProperties
  <2>2. h \in Seq(Parts) /\ DOMAIN h = 1..(m+1)
    BY <1>1, <1>2, <1>4, Listed
  <2>3. Len(h) = m + 1
    BY <1>2, <2>2
  <2>4. ASSUME NEW i \in 1..(m+1) PROVE h[i] = Append(g, b)[i]
    <3>1. CASE i = m + 1
      BY <1>4, <2>1, <3>1 DEF b
    <3>2. CASE i # m + 1
      <4>1. i \in 1..m
        BY <3>2
      <4> QED
        BY <1>3, <1>4, <2>1, <4>1
    <3> QED
      BY <3>1, <3>2
  <2> QED
    BY <2>1, <2>2, <2>3, <2>4, SeqEqual
<1> QED
  BY <1>6, <1>7, <1>8 DEF g, h, b

LEMMA NextIsNew ==
    ASSUME NEW k \in Kinds, NEW ans \in Seq(Types), NEW m \in Nat, m + 1 \in 1..Len(ans),
           Usual(k, ans)
    PROVE  /\ ans[m+1] \in Types /\ Slot(k, ans[m+1], m+1) \in Nat
           /\ NotYet(Built(k, ans, m), ans[m+1], Slot(k, ans[m+1], m+1))
           /\ k # "anthropic" /\ ans[m+1] = "thinking" => m = 0
           /\ k # "anthropic" /\ ans[m+1] = "text" => m = 0 \/ (m = 1 /\ ans[1] = "thinking")
<1>1. \A i \in 1..(m+1) : i \in 1..Len(ans) /\ i \in DOMAIN ans /\ i \in Nat
  OBVIOUS
<1>2. ans[m+1] \in Types /\ m + 1 \in 1..(m+1) /\ m + 1 \in Nat
  <2>1. m + 1 \in 1..(m+1) /\ m + 1 \in Nat
    OBVIOUS
  <2> QED
    BY <1>1, <2>1, ElementOfSeq
<1>3. ASSUME k # "anthropic", NEW i \in 1..m
      PROVE  ans[m+1] = "tool_use" \/ (ans[i] = "thinking" /\ ans[m+1] = "text")
  <2>1. InOrder(ans)
    BY <1>3 DEF Usual
  <2>2. i \in DOMAIN ans /\ m + 1 \in DOMAIN ans /\ i < m + 1
    BY <1>1
  <2> QED
    BY <2>1, <2>2 DEF InOrder
<1>4. k # "anthropic" /\ ans[m+1] = "thinking" => m = 0
  <2>1. m # 0 => 1 \in 1..m
    OBVIOUS
  <2> QED
    BY <1>3, <2>1
<1>5. k # "anthropic" /\ ans[m+1] = "text" => m = 0 \/ (m = 1 /\ ans[1] = "thinking")
  <2> SUFFICES ASSUME k # "anthropic", ans[m+1] = "text", m # 0
               PROVE  m = 1 /\ ans[1] = "thinking"
    OBVIOUS
  <2>1. 1 \in 1..m
    OBVIOUS
  <2>2. ans[1] = "thinking"
    BY <1>3, <2>1
  <2>3. ASSUME m # 1 PROVE FALSE
    <3>1. 2 \in 1..m /\ 1 < 2
      BY <2>3
    <3>2. ans[2] = "thinking"
      BY <1>3, <3>1
    <3>3. 1 \in DOMAIN ans /\ 2 \in DOMAIN ans
      BY <1>1, <2>1, <3>1
    <3> QED
      BY <2>2, <3>1, <3>2, <3>3 DEF InOrder, Usual
  <2> QED
    BY <2>2, <2>3
<1>6. ASSUME NEW i \in 1..Len(Built(k, ans, m)),
             Built(k, ans, m)[i].of = ans[m+1],
             Built(k, ans, m)[i].at = Slot(k, ans[m+1], m+1)
      PROVE  FALSE
  <2>1. i \in 1..m /\ i # m + 1 /\ i # 0 /\ m + 1 # 0
    BY BuiltGrows
  <2>2. Built(k, ans, m)[i] = Full(k, ans, i)
    BY <2>1 DEF Built
  <2>3. ans[i] = ans[m+1] /\ Slot(k, ans[i], i) = Slot(k, ans[m+1], m+1)
    BY <1>6, <2>2 DEF Full, Partly, Block
  <2>4. k # "anthropic" /\ ans[m+1] # "tool_use"
    BY <2>1, <2>3 DEF Slot
  <2> QED
    BY <1>3, <2>1, <2>3, <2>4
<1>7. Slot(k, ans[m+1], m+1) \in Nat
  BY <1>2 DEF Slot
<1> QED
  BY <1>2, <1>4, <1>5, <1>6, <1>7 DEF NotYet

\* The fields of an accumulator, one at a time.
LEMMA AccIs ==
    ASSUME NEW bs, NEW sh, NEW se
    PROVE  /\ Acc(bs, sh, se).blocks = bs /\ Acc(bs, sh, se).shut = sh
           /\ Acc(bs, sh, se).sent = se /\ Acc(bs, sh, se).ended = No
  BY DEF Acc

LEMMA AccShut ==
    ASSUME NEW bs, NEW sh, NEW se, NEW x
    PROVE  [Acc(bs, sh, se) EXCEPT !.shut = x] = Acc(bs, x, se)
  BY DEF Acc

LEMMA AccSend ==
    ASSUME NEW bs, NEW sh, NEW se, NEW x
    PROVE  Send(Acc(bs, sh, se), x) = Acc(bs, sh, se \o x)
<1> DEFINE y == se \o x
<1>1. [Acc(bs, sh, se) EXCEPT !.sent = y] = Acc(bs, sh, y)
  <2> HIDE DEF y
  <2> QED
    BY DEF Acc
<1>2. Acc(bs, sh, se).sent = se
  BY AccIs
<1> QED
  BY <1>1, <1>2 DEF Send

\* Which chunk calls what.
LEMMA ChunkIs ==
    ASSUME NEW is, NEW type, NEW at
    PROVE  /\ Chunk(is, type, at).is = is /\ Chunk(is, type, at).of = type
           /\ Chunk(is, type, at).at = at
  BY DEF Chunk

LEMMA ProcessIs ==
    ASSUME NEW a, NEW type, NEW at
    PROVE  LET O == Chunk("open", type, at)
               P == Chunk("piece", type, at)
               C == Chunk("close", type, at)
           IN  /\ Process("anthropic", a, O) = Begin(a, type, at)
               /\ Process("anthropic", a, P) = Grow(a, type, at)
               /\ Process("anthropic", a, C) = AnthropicClose(a, C)
               /\ Process("openai", a, O) = OpenAIOpen(a, O)
               /\ Process("openai", a, P) = OpenAIPiece(a, P)
               /\ Process("responses", a, O) = ResponsesOpen(a, O)
               /\ Process("responses", a, P) = ResponsesPiece(a, P)
               /\ Process("responses", a, C) = ResponsesClose(a, C)
               /\ Process("genai", a, P)
                    = IF type = "tool_use" THEN GenAICall(a, P) ELSE GenAIText(a, P)
               /\ O.of = type /\ O.at = at /\ P.of = type /\ P.at = at /\ C.of = type /\ C.at = at
<1> DEFINE O == Chunk("open", type, at)
           P == Chunk("piece", type, at)
           C == Chunk("close", type, at)
<1>1. /\ O.is = "open" /\ O.of = type /\ O.at = at
      /\ P.is = "piece" /\ P.of = type /\ P.at = at
      /\ C.is = "close" /\ C.of = type /\ C.at = at
  BY DEF Chunk
<1> HIDE DEF O, P, C
<1>2. /\ Process("anthropic", a, O) = Begin(a, type, at)
      /\ Process("anthropic", a, P) = Grow(a, type, at)
      /\ Process("anthropic", a, C) = AnthropicClose(a, C)
  BY <1>1 DEF Process, Anthropic
<1>3. Process("openai", a, O) = OpenAIOpen(a, O) /\ Process("openai", a, P) = OpenAIPiece(a, P)
  BY <1>1 DEF Process, OpenAI
<1>4. /\ Process("responses", a, O) = ResponsesOpen(a, O)
      /\ Process("responses", a, P) = ResponsesPiece(a, P)
      /\ Process("responses", a, C) = ResponsesClose(a, C)
  BY <1>1 DEF Process, Responses
<1>5. Process("genai", a, P) = IF type = "tool_use" THEN GenAICall(a, P) ELSE GenAIText(a, P)
  BY <1>1 DEF Process, GenAI
<1> QED
  BY <1>1, <1>2, <1>3, <1>4, <1>5 DEF O, P, C

LEMMA Joined ==
    ASSUME NEW x, NEW y, NEW z
    PROVE  /\ << >> \o <<y>> \o << >> = <<y>> /\ << >> \o <<y, y>> \o << >> = <<y, y>>
           /\ <<x>> \o <<y>> \o << >> = <<x, y>> /\ <<x>> \o <<y>> \o <<z>> = <<x, y, z>>
           /\ <<x>> \o <<y, y>> \o <<z>> = <<x, y, y, z>>
<1> DEFINE S == {x, y, z}
<1>1. /\ << >> \in Seq(S) /\ <<x>> \in Seq(S) /\ <<y>> \in Seq(S) /\ <<z>> \in Seq(S)
      /\ <<y, y>> \in Seq(S) /\ <<x, y>> \in Seq(S) /\ <<x, y, z>> \in Seq(S)
      /\ <<x, y, y>> \in Seq(S) /\ <<x, y, y, z>> \in Seq(S)
  OBVIOUS
<1> HIDE DEF S
<1>2. <<x>> \o <<y>> = <<x, y>>
  <2>1. Len(<<x>> \o <<y>>) = 2 /\ \A i \in 1..2 : (<<x>> \o <<y>>)[i] = <<x, y>>[i]
    BY <1>1
  <2>2. Len(<<x, y>>) = 2 /\ <<x>> \o <<y>> \in Seq(S)
    BY <1>1
  <2> QED
    BY <1>1, <2>1, <2>2, SeqEqual
<1>3. <<x, y>> \o <<z>> = <<x, y, z>>
  <2>1. Len(<<x, y>> \o <<z>>) = 3 /\ \A i \in 1..3 : (<<x, y>> \o <<z>>)[i] = <<x, y, z>>[i]
    BY <1>1
  <2>2. Len(<<x, y, z>>) = 3 /\ <<x, y>> \o <<z>> \in Seq(S)
    BY <1>1
  <2> QED
    BY <1>1, <2>1, <2>2, SeqEqual
<1>4. <<x>> \o <<y, y>> = <<x, y, y>>
  <2>1. Len(<<x>> \o <<y, y>>) = 3 /\ \A i \in 1..3 : (<<x>> \o <<y, y>>)[i] = <<x, y, y>>[i]
    BY <1>1
  <2>2. Len(<<x, y, y>>) = 3 /\ <<x>> \o <<y, y>> \in Seq(S)
    BY <1>1
  <2> QED
    BY <1>1, <2>1, <2>2, SeqEqual
<1>5. <<x, y, y>> \o <<z>> = <<x, y, y, z>>
  <2>1. Len(<<x, y, y>> \o <<z>>) = 4
          /\ \A i \in 1..4 : (<<x, y, y>> \o <<z>>)[i] = <<x, y, y, z>>[i]
    BY <1>1
  <2>2. Len(<<x, y, y, z>>) = 4 /\ <<x, y, y>> \o <<z>> \in Seq(S)
    BY <1>1
  <2> QED
    BY <1>1, <2>1, <2>2, SeqEqual
<1>6. \A t \in Seq(S) : << >> \o t = t /\ t \o << >> = t
  BY ConcatEmptySeq
<1> QED
  BY <1>1, <1>2, <1>3, <1>4, <1>5, <1>6

\* The chunks of a block, one by one.
LEMMA ChunksAre ==
    ASSUME NEW k \in Kinds, NEW type \in Types, NEW at
    PROVE  LET O == Chunk("open", type, at)
               P == Chunk("piece", type, at)
               C == Chunk("close", type, at)
               q == BlockChunks(k, type, at)
           IN  /\ k = "anthropic" /\ type = "text" => q = <<O, P, P, C>>
               /\ k = "anthropic" /\ type # "text" => q = <<O, P, C>>
               /\ k # "anthropic" /\ type = "thinking" => q = <<P>>
               /\ k # "anthropic" /\ type = "text" => q = <<P, P>>
               /\ k = "openai" /\ type = "tool_use" => q = <<O, P>>
               /\ k = "responses" /\ type = "tool_use" => q = <<O, P, C>>
               /\ k = "genai" /\ type = "tool_use" => q = <<P>>
<1> DEFINE O == Chunk("open", type, at)
           P == Chunk("piece", type, at)
           C == Chunk("close", type, at)
           ps == [i \in 1..Pieces(type) |-> P]
           os == IF Opens(k, type) THEN <<O>> ELSE << >>
           cs == IF Closes(k, type) THEN <<C>> ELSE << >>
<1>1. BlockChunks(k, type, at) = os \o ps \o cs
  BY DEF BlockChunks
<1>2. ps = IF type = "text" THEN <<P, P>> ELSE <<P>>
  <2> HIDE DEF P
  <2> QED
    BY DEF Pieces
<1> HIDE DEF O, P, C
<1>3. os = IF k = "anthropic" \/ (type = "tool_use" /\ k # "genai") THEN <<O>> ELSE << >>
  BY DEF Opens
<1>4. cs = IF k = "anthropic" \/ (type = "tool_use" /\ k = "responses") THEN <<C>> ELSE << >>
  BY DEF Closes
<1> HIDE DEF os, ps, cs
<1>5. /\ << >> \o <<P>> \o << >> = <<P>> /\ << >> \o <<P, P>> \o << >> = <<P, P>>
      /\ <<O>> \o <<P>> \o << >> = <<O, P>> /\ <<O>> \o <<P>> \o <<C>> = <<O, P, C>>
      /\ <<O>> \o <<P, P>> \o <<C>> = <<O, P, P, C>>
  BY Joined
<1>6. k = "anthropic" /\ type = "text" => BlockChunks(k, type, at) = <<O, P, P, C>>
  BY <1>1, <1>2, <1>3, <1>4, <1>5
<1>7. k = "anthropic" /\ type # "text" => BlockChunks(k, type, at) = <<O, P, C>>
  BY <1>1, <1>2, <1>3, <1>4, <1>5
<1>8. k # "anthropic" /\ type = "thinking" => BlockChunks(k, type, at) = <<P>>
  BY <1>1, <1>2, <1>3, <1>4, <1>5
<1>9. k # "anthropic" /\ type = "text" => BlockChunks(k, type, at) = <<P, P>>
  BY <1>1, <1>2, <1>3, <1>4, <1>5
<1>10. k = "openai" /\ type = "tool_use" => BlockChunks(k, type, at) = <<O, P>>
  BY <1>1, <1>2, <1>3, <1>4, <1>5
<1>11. k = "responses" /\ type = "tool_use" => BlockChunks(k, type, at) = <<O, P, C>>
  BY <1>1, <1>2, <1>3, <1>4, <1>5
<1>12. k = "genai" /\ type = "tool_use" => BlockChunks(k, type, at) = <<P>>
  BY <1>1, <1>2, <1>3, <1>4, <1>5
<1> QED
  BY <1>6, <1>7, <1>8, <1>9, <1>10, <1>11, <1>12 DEF O, P, C

\* A block that is sent as it ends, by its place.
LEMMA LastIsPlaced ==
    ASSUME NEW bs \in Seq(Parts), NEW b \in Parts, NEW c, b.of = c.of, b.at = c.at,
           NotYet(bs, c.of, c.at), NEW sh, NEW se
    PROVE  AtPlace(Acc(Append(bs, b), sh, se), c) = <<b>>
<1>1. \A i \in 1..Len(bs) : ~(bs[i].of = c.of /\ bs[i].at = c.at)
  BY DEF NotYet
<1> DEFINE cs == Append(bs, b)
           a == Acc(cs, sh, se)
<1>2. a.blocks = cs
  <2> HIDE DEF cs
  <2> QED
    BY AccIs
<1>3. ASSUME NEW x, x.blocks = Append(bs, b) PROVE AtPlace(x, c) = <<b>>
  BY <1>1, <1>3, AtPlaceLast
<1> HIDE DEF a
<1>4. AtPlace(a, c) = <<b>>
  BY <1>2, <1>3
<1> QED
  BY <1>4 DEF a

LEMMA AnthropicCloses ==
    ASSUME NEW bs \in Seq(Parts), NEW b \in Parts, NEW c, b.of = c.of, b.at = c.at,
           NotYet(bs, c.of, c.at), NEW sh, NEW se
    PROVE  AnthropicClose(Acc(Append(bs, b), sh, se), c)
             = Acc(Append(bs, b), sh \cup {c.at}, se \o <<b>>)
<1> DEFINE cs == Append(bs, b)
           a == Acc(cs, sh, se)
           x == c.at
<1>1. AtPlace(a, c) = <<b>>
  BY LastIsPlaced
<1>2. AnthropicClose(a, c) = Send([a EXCEPT !.shut = @ \cup {x}], <<b>>)
  <2> HIDE DEF a
  <2> QED
    BY <1>1 DEF AnthropicClose
<1> HIDE DEF cs, x
<1>3. [a EXCEPT !.shut = @ \cup {x}] = Acc(cs, sh \cup {x}, se)
  <2> DEFINE y == sh \cup {x}
  <2>1. a.shut = sh
    BY AccIs
  <2>2. [a EXCEPT !.shut = @ \cup {x}] = [a EXCEPT !.shut = y]
    <3> HIDE DEF a
    <3> QED
      BY <2>1
  <2>3. [a EXCEPT !.shut = y] = Acc(cs, y, se)
    <3> HIDE DEF y
    <3> QED
      BY AccShut
  <2> QED
    BY <2>2, <2>3
<1>4. Send(Acc(cs, sh \cup {x}, se), <<b>>) = Acc(cs, sh \cup {x}, se \o <<b>>)
  BY AccSend
<1> HIDE DEF a
<1> QED
  BY <1>2, <1>3, <1>4 DEF a, cs, x

\* A block of Anthropic's: opened, grown and closed where it is.
LEMMA AnthropicBlock ==
    ASSUME NEW ans \in Seq(Types), NEW m \in Nat, m + 1 \in 1..Len(ans),
           NEW q, q = BlockChunks("anthropic", ans[m+1], m+1),
           NEW g, Border("anthropic", ans, m, g[0]),
           \A i \in 1..Len(q) : g[i] = Process("anthropic", g[i-1], q[i])
    PROVE  Border("anthropic", ans, m + 1, g[Len(q)])
<1> DEFINE k == "anthropic"
           type == ans[m+1]
           at == m + 1
           bs == Built(k, ans, m)
           b == Full(k, ans, m + 1)
           O == Chunk("open", type, at)
           P == Chunk("piece", type, at)
           C == Chunk("close", type, at)
<1>1. /\ bs \in Seq(Parts) /\ Len(bs) = m /\ b \in Parts
      /\ Built(k, ans, m + 1) = Append(bs, b)
  BY BuiltGrows DEF Kinds
<1>2. type \in Types /\ at \in Nat /\ NotYet(bs, type, at)
  BY NextIsNew DEF Kinds, Usual, Slot
<1>3. b = Partly(type, at, Pieces(type))
  BY DEF Full, Slot
<1>4. PICK sh \in SUBSET (Types \cup Nat), se \in Seq(Parts) :
          g[0] = Acc(bs, sh, se) /\ sh = 1..m /\ se = bs
  BY DEF Border, Between
<1> HIDE DEF bs, b
<1>5. Process(k, g[0], O) = Acc(Append(bs, Partly(type, at, 0)), sh, se)
  <2>1. Begin(Acc(bs, sh, se), type, at) = Acc(Append(bs, Partly(type, at, 0)), sh, se)
    BY <1>1, <1>2, GrowFirst
  <2>2. Process(k, g[0], O) = Begin(g[0], type, at)
    BY ProcessIs
  <2> QED
    BY <1>4, <2>1, <2>2
<1>6. ASSUME NEW n \in Nat
      PROVE  Process(k, Acc(Append(bs, Partly(type, at, n)), sh, se), P)
                 = Acc(Append(bs, Partly(type, at, n + 1)), sh, se)
  <2> DEFINE a == Acc(Append(bs, Partly(type, at, n)), sh, se)
  <2>1. Grow(a, type, at) = Acc(Append(bs, Partly(type, at, n + 1)), sh, se)
    BY <1>1, <1>2, GrowOn
  <2>2. Process(k, a, P) = Grow(a, type, at)
    BY ProcessIs
  <2> QED
    BY <2>1, <2>2
<1>7. Process(k, Acc(Append(bs, b), sh, se), C)
          = Acc(Append(bs, b), sh \cup {m + 1}, se \o <<b>>)
  <2>1. C.of = type /\ C.at = m + 1
    BY ChunkIs
  <2>2. b.of = C.of /\ b.at = C.at
    BY <1>3, ChunkIs DEF Partly, Block
  <2>3. NotYet(bs, C.of, C.at)
    BY <1>2, <2>1
  <2>4. Process(k, Acc(Append(bs, b), sh, se), C) = AnthropicClose(Acc(Append(bs, b), sh, se), C)
    BY ProcessIs
  <2> HIDE DEF C
  <2>5. AnthropicClose(Acc(Append(bs, b), sh, se), C)
          = Acc(Append(bs, b), sh \cup {C.at}, se \o <<b>>)
    BY <1>1, <2>2, <2>3, AnthropicCloses
  <2> QED
    BY <2>1, <2>4, <2>5
<1>8. Border(k, ans, m + 1, Acc(Append(bs, b), sh \cup {m + 1}, se \o <<b>>))
  <2>1. sh \cup {m + 1} = 1..(m+1) /\ sh \cup {m + 1} \in SUBSET (Types \cup Nat)
    BY <1>4
  <2>2. se \o <<b>> = Append(bs, b) /\ se \o <<b>> \in Seq(Parts)
    BY <1>1, <1>4
  <2> QED
    BY <1>1, <2>1, <2>2 DEF Border, Between
<1>9. CASE type = "text"
  <2>1. q = <<O, P, P, C>>
    BY <1>2, <1>9, ChunksAre DEF Kinds
  <2>2. Len(q) = 4 /\ q[1] = O /\ q[2] = P /\ q[3] = P /\ q[4] = C
    <3> HIDE DEF O, P, C
    <3> QED
      BY <2>1
  <2>3. g[1] = Process(k, g[0], O) /\ g[2] = Process(k, g[1], P) /\ g[3] = Process(k, g[2], P)
          /\ g[4] = Process(k, g[3], C)
    <3> HIDE DEF O, P, C
    <3> QED
      BY <2>2
  <2>4. b = Partly(type, at, 2)
    BY <1>3, <1>9 DEF Pieces
  <2> HIDE DEF O, P, C
  <2>5. g[2] = Acc(Append(bs, Partly(type, at, 1)), sh, se)
    <3>1. Process(k, Acc(Append(bs, Partly(type, at, 0)), sh, se), P)
              = Acc(Append(bs, Partly(type, at, 0 + 1)), sh, se)
      BY <1>6
    <3> QED
      BY <1>5, <2>3, <3>1
  <2>6. g[3] = Acc(Append(bs, b), sh, se)
    <3>1. Process(k, Acc(Append(bs, Partly(type, at, 1)), sh, se), P)
              = Acc(Append(bs, Partly(type, at, 1 + 1)), sh, se)
      BY <1>6
    <3> QED
      BY <2>3, <2>4, <2>5, <3>1
  <2> QED
    BY <1>7, <1>8, <2>2, <2>3, <2>6
<1>10. CASE type # "text"
  <2>1. q = <<O, P, C>>
    BY <1>2, <1>10, ChunksAre DEF Kinds
  <2>2. Len(q) = 3 /\ q[1] = O /\ q[2] = P /\ q[3] = C
    <3> HIDE DEF O, P, C
    <3> QED
      BY <2>1
  <2>3. g[1] = Process(k, g[0], O) /\ g[2] = Process(k, g[1], P) /\ g[3] = Process(k, g[2], C)
    <3> HIDE DEF O, P, C
    <3> QED
      BY <2>2
  <2>4. b = Partly(type, at, 1)
    BY <1>3, <1>10 DEF Pieces
  <2> HIDE DEF O, P, C
  <2>5. g[2] = Acc(Append(bs, b), sh, se)
    <3>1. Process(k, Acc(Append(bs, Partly(type, at, 0)), sh, se), P)
              = Acc(Append(bs, Partly(type, at, 0 + 1)), sh, se)
      BY <1>6
    <3> QED
      BY <1>5, <2>3, <2>4, <3>1
  <2> QED
    BY <1>7, <1>8, <2>2, <2>3, <2>5
<1> QED
  BY <1>9, <1>10

\* What the other providers do with a piece.
LEMMA PieceIs ==
    ASSUME NEW a, NEW at
    PROVE  /\ \A k \in Kinds \ {"anthropic"} :
                /\ Process(k, a, Chunk("piece", "thinking", at)) = Grow(a, "thinking", 0)
                /\ Process(k, a, Chunk("piece", "text", at)) = Grow(Shut(a, "thinking"), "text", 0)
           /\ Process("openai", a, Chunk("piece", "tool_use", at)) = Grow(a, "tool_use", at)
           /\ Process("responses", a, Chunk("piece", "tool_use", at))
                = Grow(ShutText(a), "tool_use", at)
<1>1. /\ Slot("openai", "tool_use", at) = at /\ Slot("responses", "tool_use", at) = at
      /\ \A k \in Kinds \ {"anthropic"} : Slot(k, "thinking", at) = 0 /\ Slot(k, "text", at) = 0
  BY DEF Slot
<1>2. ASSUME NEW type \in Types
      PROVE  /\ Process("openai", a, Chunk("piece", type, at))
                  = Grow(IF type = "text" THEN Shut(a, "thinking") ELSE a, type,
                         Slot("openai", type, at))
             /\ Process("responses", a, Chunk("piece", type, at))
                  = Grow(CASE type = "thinking" -> a [] type = "text" -> Shut(a, "thinking")
                           [] type = "tool_use" -> ShutText(a), type, Slot("responses", type, at))
             /\ type # "tool_use" =>
                  Process("genai", a, Chunk("piece", type, at))
                      = Grow(IF type = "text" THEN Shut(a, "thinking") ELSE a, type,
                             Slot("genai", type, at))
  <2> DEFINE P == Chunk("piece", type, at)
  <2>1. P.of = type /\ P.at = at
    BY ChunkIs
  <2>2. /\ Process("openai", a, P) = OpenAIPiece(a, P)
        /\ Process("responses", a, P) = ResponsesPiece(a, P)
        /\ type # "tool_use" => Process("genai", a, P) = GenAIText(a, P)
    BY ProcessIs
  <2> HIDE DEF P
  <2> QED
    BY <2>1, <2>2 DEF OpenAIPiece, ResponsesPiece, GenAIText, P
<1>3. "thinking" \in Types /\ "text" \in Types /\ "tool_use" \in Types
  BY DEF Types
<1> QED
  BY <1>1, <1>2, <1>3 DEF Kinds

\* A block more leaves the others of other types as they are.
LEMMA OtherType ==
    ASSUME NEW bs \in Seq(Parts), NEW b \in Parts, NEW type
    PROVE  /\ OfType(bs, type) \in Seq(Parts) /\ OfType(Append(bs, b), type) \in Seq(Parts)
           /\ b.of # type => OfType(Append(bs, b), type) = OfType(bs, type)
           /\ b.of = type => OfType(Append(bs, b), type) = OfType(bs, type) \o <<b>>
<1>1. /\ OfType(bs, type) \in Seq(Parts)
      /\ OfType(Append(bs, b), type) = OfType(bs, type) \o One(b, type)
  BY OfTypeAppend
<1>2. b.of # type => OfType(bs, type) \o One(b, type) = OfType(bs, type)
  BY <1>1, ConcatEmptySeq DEF One
<1>3. OfType(Append(bs, b), type) \in Seq(Parts)
  <2> DEFINE cs == Append(bs, b)
  <2>1. cs \in Seq(Parts)
    OBVIOUS
  <2> HIDE DEF cs
  <2>2. OfType(cs, type) \in Seq(Parts)
    BY <2>1, OfTypeTyped
  <2> QED
    BY <2>2 DEF cs
<1> QED
  BY <1>1, <1>2, <1>3 DEF One

\* A reasoning comes first.
LEMMA ThinkingBlock ==
    ASSUME NEW k \in Kinds \ {"anthropic"}, NEW ans \in Seq(Types), NEW m \in Nat,
           m + 1 \in 1..Len(ans), InOrder(ans), ans[m+1] = "thinking",
           NEW a, Border(k, ans, m, a)
    PROVE  Border(k, ans, m + 1, Process(k, a, Chunk("piece", "thinking", m + 1)))
<1> DEFINE bs == Built(k, ans, m)
           b == Full(k, ans, m + 1)
           cs == Append(bs, b)
<1>1. /\ bs \in Seq(Parts) /\ Len(bs) = m /\ b \in Parts /\ Built(k, ans, m + 1) = cs
  BY BuiltGrows
<1>2. m = 0 /\ NotYet(bs, "thinking", 0)
  BY NextIsNew DEF Usual, Slot
<1>3. b = Partly("thinking", 0, 1) /\ b.of = "thinking"
  BY DEF Full, Slot, Pieces, Partly, Block
<1>4. a = Acc(bs, {}, << >>)
  BY <1>2 DEF Border, Between
<1>5. bs = << >>
  BY <1>1, <1>2
<1> HIDE DEF bs, b
<1>6. Process(k, a, Chunk("piece", "thinking", m + 1)) = Grow(a, "thinking", 0)
  BY PieceIs
<1>7. Grow(Acc(bs, {}, << >>), "thinking", 0) = Acc(cs, {}, << >>)
  <2> DEFINE none == {}
             nil == << >>
  <2>1. "thinking" \in Types
    BY DEF Types
  <2> HIDE DEF none, nil
  <2>2. Grow(Acc(bs, none, nil), "thinking", 0) = Acc(Append(bs, Partly("thinking", 0, 1)), none, nil)
    <3>1. bs \in Seq(Parts) /\ NotYet(bs, "thinking", 0) /\ 0 \in Nat
      BY <1>1, <1>2
    <3> QED
      BY <2>1, <3>1, GrowFirst
  <2> QED
    BY <1>3, <2>2 DEF none, nil
<1>8. OfType(cs, "tool_use") = << >> /\ OfType(cs, "text") = << >>
  <2>1. b.of # "tool_use" /\ b.of # "text"
    BY <1>3
  <2>2. OfType(cs, "tool_use") = OfType(bs, "tool_use") /\ OfType(cs, "text") = OfType(bs, "text")
    BY <1>1, <2>1, OtherType, Zenon
  <2> QED
    BY <1>5, <2>2, OfTypeNone
<1>9. cs \in Seq(Parts) /\ OfType(cs, "thinking") \in Seq(Parts)
  <2>1. cs \in Seq(Parts)
    BY <1>1
  <2> HIDE DEF cs
  <2> QED
    BY <2>1, OfTypeTyped
<1> HIDE DEF cs
<1>10. << >> \o Left(cs, {}, "thinking") \o Left(cs, {}, "text") = Sorted(k, cs)
  <2> DEFINE th == OfType(cs, "thinking")
  <2>1. << >> \o th \o << >> = th /\ th \o << >> \o << >> = th
    <3> HIDE DEF th
    <3> QED
      BY <1>9, ConcatEmptySeq DEF th
  <2>2. Left(cs, {}, "thinking") = th /\ Left(cs, {}, "text") = << >>
    BY <1>8 DEF Left
  <2>3. Tools(k, cs) = << >>
    BY <1>8 DEF Tools
  <2> HIDE DEF th
  <2>4. Sorted(k, cs) = th \o << >> \o << >>
    BY <1>8, <2>3 DEF Sorted, th
  <2> QED
    BY <2>1, <2>2, <2>4
<1>11. Between(k, ans, m + 1, cs, {}, << >>)
  BY <1>10 DEF Between
<1>12. Border(k, ans, m + 1, Acc(cs, {}, << >>))
  <2>1. {} \in SUBSET (Types \cup Nat) /\ << >> \in Seq(Parts)
    OBVIOUS
  <2> QED
    BY <1>1, <1>11, <2>1 DEF Border
<1> QED
  BY <1>4, <1>6, <1>7, <1>12

\* A text comes first, or after the reasoning, which it closes.
LEMMA TextBlock ==
    ASSUME NEW k \in Kinds \ {"anthropic"}, NEW ans \in Seq(Types), NEW m \in Nat,
           m + 1 \in 1..Len(ans), InOrder(ans), ans[m+1] = "text",
           NEW a, Border(k, ans, m, a), NEW P, P = Chunk("piece", "text", m + 1)
    PROVE  Border(k, ans, m + 1, Process(k, Process(k, a, P), P))
<1> DEFINE bs == Built(k, ans, m)
           b == Full(k, ans, m + 1)
           c == Partly("text", 0, 1)
           cs == Append(bs, b)
           sh == Marks(bs, {}, "thinking")
           th == OfType(bs, "thinking")
<1>1. /\ bs \in Seq(Parts) /\ Len(bs) = m /\ b \in Parts /\ Built(k, ans, m + 1) = cs
  BY BuiltGrows
<1>2. NotYet(bs, "text", 0) /\ (m = 0 \/ (m = 1 /\ ans[1] = "thinking"))
  BY NextIsNew DEF Usual, Slot
<1>3. b = Partly("text", 0, 2) /\ b.of = "text"
  BY DEF Full, Slot, Pieces, Partly, Block
<1>4. a = Acc(bs, {}, << >>)
  BY <1>2 DEF Border, Between
<1>5. OfType(bs, "tool_use") = << >> /\ OfType(bs, "text") = << >>
  <2>1. CASE m = 0
    <3>1. bs = << >>
      BY <1>1, <2>1
    <3> QED
      BY <3>1, OfTypeNone
  <2>2. CASE m = 1 /\ ans[1] = "thinking"
    <3> DEFINE e == Built(k, ans, 0)
               f == Full(k, ans, 1)
    <3>1. 0 + 1 \in 1..Len(ans)
      BY <2>2
    <3>2. e \in Seq(Parts) /\ Len(e) = 0 /\ f \in Parts /\ Built(k, ans, 1) = Append(e, f)
      <4>1. /\ Built(k, ans, 0) \in Seq(Parts) /\ Len(Built(k, ans, 0)) = 0
            /\ Full(k, ans, 0 + 1) \in Parts
            /\ Built(k, ans, 0 + 1) = Append(Built(k, ans, 0), Full(k, ans, 0 + 1))
        BY <3>1, BuiltGrows
      <4> QED
        BY <4>1
    <3>3. f.of = "thinking" /\ e = << >>
      BY <2>2, <3>2 DEF Full, Partly, Block
    <3> HIDE DEF e, f
    <3>4. OfType(Append(e, f), "tool_use") = OfType(e, "tool_use")
            /\ OfType(Append(e, f), "text") = OfType(e, "text")
      BY <3>2, <3>3, OtherType
    <3> QED
      BY <2>2, <3>2, <3>3, <3>4, OfTypeNone
  <2> QED
    BY <1>2, <2>1, <2>2
<1>6. c \in Parts /\ c.of = "text"
  BY DEF Partly, Block, Parts, BlocksFrom, Types
<1> HIDE DEF bs, b, c
<1>7. /\ th \in Seq(Parts) /\ OfType(cs, "thinking") = th
      /\ OfType(Append(bs, c), "thinking") = th /\ OfType(cs, "tool_use") = << >>
      /\ OfType(cs, "text") \in Seq(Parts)
  <2>1. th \in Seq(Parts) /\ OfType(cs, "thinking") = th
    BY <1>1, <1>3, OtherType
  <2>2. OfType(Append(bs, c), "thinking") = th
    BY <1>1, <1>6, OtherType
  <2>3. OfType(cs, "tool_use") = << >>
    BY <1>1, <1>3, <1>5, OtherType
  <2>4. OfType(cs, "text") \in Seq(Parts)
    BY <1>1, OtherType
  <2> QED
    BY <2>1, <2>2, <2>3, <2>4
<1>8. Shut(a, "thinking") = Acc(bs, sh, th)
  <2>1. Shut(Acc(bs, {}, << >>), "thinking")
           = Acc(bs, Marks(bs, {}, "thinking"), << >> \o Left(bs, {}, "thinking"))
    <3> DEFINE none == {}
               nil == << >>
    <3>1. nil \in Seq(Parts)
      OBVIOUS
    <3> HIDE DEF none, nil
    <3>2. Shut(Acc(bs, none, nil), "thinking")
             = Acc(bs, Marks(bs, none, "thinking"), nil \o Left(bs, none, "thinking"))
      BY <1>1, <3>1, ShutIs
    <3> QED
      BY <3>2 DEF none, nil
  <2>2. Left(bs, {}, "thinking") = th
    BY DEF Left
  <2>3. << >> \o th = th
    <3> HIDE DEF th
    <3> QED
      BY <1>7
  <2> QED
    BY <1>4, <2>1, <2>2, <2>3
<1>9. Process(k, a, P) = Acc(Append(bs, c), sh, th)
  <2>1. Process(k, a, P) = Grow(Shut(a, "thinking"), "text", 0)
    BY PieceIs
  <2> HIDE DEF sh, th
  <2>2. Grow(Acc(bs, sh, th), "text", 0) = Acc(Append(bs, c), sh, th)
    BY <1>1, <1>2, GrowFirst DEF Types, c
  <2> QED
    BY <1>8, <2>1, <2>2
<1>10. "text" \notin sh /\ (th # << >> => "thinking" \in sh) /\ sh \in SUBSET (Types \cup Nat)
  BY DEF Marks, Types
<1>11. Left(cs, sh, "thinking") = << >> /\ Left(Append(bs, c), sh, "thinking") = << >>
  BY <1>7, <1>10 DEF Left
<1>12. Shut(Acc(Append(bs, c), sh, th), "thinking") = Acc(Append(bs, c), sh, th)
  <2> DEFINE ds == Append(bs, c)
  <2>1. ds \in Seq(Parts)
    BY <1>1, <1>6
  <2>2. Marks(ds, sh, "thinking") = sh
    BY <1>7, <1>10 DEF Marks
  <2> HIDE DEF ds, sh, th
  <2>3. Shut(Acc(ds, sh, th), "thinking")
          = Acc(ds, Marks(ds, sh, "thinking"), th \o Left(ds, sh, "thinking"))
    BY <1>7, <2>1, ShutIs
  <2>4. th \o << >> = th
    BY <1>7
  <2> QED
    BY <1>11, <2>2, <2>3, <2>4 DEF ds
<1>13. Process(k, Process(k, a, P), P) = Acc(cs, sh, th)
  <2> HIDE DEF sh, th
  <2>1. Process(k, Acc(Append(bs, c), sh, th), P)
          = Grow(Shut(Acc(Append(bs, c), sh, th), "thinking"), "text", 0)
    BY PieceIs
  <2>2. Grow(Acc(Append(bs, Partly("text", 0, 1)), sh, th), "text", 0)
          = Acc(Append(bs, Partly("text", 0, 1 + 1)), sh, th)
    BY <1>1, <1>2, GrowOn DEF Types
  <2> QED
    BY <1>3, <1>9, <1>12, <2>1, <2>2 DEF c
<1>14. th \o Left(cs, sh, "thinking") \o Left(cs, sh, "text") = Sorted(k, cs)
  <2> DEFINE tx == OfType(cs, "text")
  <2>1. Left(cs, sh, "text") = tx
    BY <1>10 DEF Left
  <2>2. Tools(k, cs) = << >>
    BY <1>7 DEF Tools
  <2>3. Sorted(k, cs) = th \o tx \o << >>
    <3> HIDE DEF th, sh, cs
    <3> QED
      BY <1>7, <2>2 DEF Sorted
  <2> HIDE DEF th, tx, sh, cs
  <2>4. tx \in Seq(Parts)
    BY <1>7 DEF tx
  <2>5. th \o << >> = th /\ th \o tx \o << >> = th \o tx
    BY <1>7, <2>4
  <2> QED
    BY <1>11, <2>1, <2>3, <2>5
<1>15. Between(k, ans, m + 1, cs, sh, th)
  <2>1. ~(m + 1 = 0) /\ ~(m + 1 = 1 /\ ans[1] = "thinking")
    OBVIOUS
  <2> HIDE DEF cs, sh, th
  <2> QED
    BY <1>14, <2>1 DEF Between
<1>16. Border(k, ans, m + 1, Acc(cs, sh, th))
  <2> HIDE DEF cs, sh, th
  <2> QED
    BY <1>1, <1>7, <1>10, <1>15 DEF Border
<1> QED
  BY <1>13, <1>16

\* A call more is the last of what is sorted.
LEMMA CallSorts ==
    ASSUME NEW k, NEW bs \in Seq(Parts), NEW b \in Parts, b.of = "tool_use"
    PROVE  /\ Sorted(k, bs) \in Seq(Parts)
           /\ k = "openai" => Sorted(k, Append(bs, b)) = Sorted(k, bs)
           /\ k # "openai" => Sorted(k, Append(bs, b)) = Sorted(k, bs) \o <<b>>
<1> DEFINE cs == Append(bs, b)
           th == OfType(bs, "thinking")
           tx == OfType(bs, "text")
           tools == OfType(bs, "tool_use")
<1>1. b.of # "thinking" /\ b.of # "text"
  OBVIOUS
<1>2. th \in Seq(Parts) /\ tx \in Seq(Parts) /\ tools \in Seq(Parts)
  BY OtherType
<1>3. OfType(cs, "thinking") = th
  BY <1>1, OtherType
<1>4. OfType(cs, "text") = tx
  BY <1>1, OtherType
<1>5. OfType(cs, "tool_use") = tools \o <<b>>
  BY OtherType
<1> HIDE DEF cs, th, tx, tools
<1>6. <<b>> \in Seq(Parts) /\ << >> \in Seq(Parts)
  OBVIOUS
<1>7. CASE k = "openai"
  <2>1. Sorted(k, bs) = th \o tx \o << >> /\ Sorted(k, cs) = th \o tx \o << >>
    BY <1>3, <1>4, <1>7 DEF Sorted, Tools, th, tx
  <2>2. th \o tx \o << >> \in Seq(Parts)
    BY <1>2, <1>6
  <2> QED
    BY <1>7, <2>1, <2>2 DEF cs
<1>8. CASE k # "openai"
  <2> DEFINE u == th \o tx
             v == <<b>>
  <2>1. Sorted(k, bs) = u \o tools /\ Sorted(k, cs) = u \o (tools \o v)
    BY <1>3, <1>4, <1>5, <1>8 DEF Sorted, Tools, th, tx, tools
  <2>2. u \in Seq(Parts) /\ v \in Seq(Parts)
    BY <1>2, <1>6
  <2> HIDE DEF u, v
  <2>3. (u \o tools) \o v = u \o (tools \o v)
    BY <1>2, <2>2
  <2>4. u \o tools \in Seq(Parts)
    BY <1>2, <2>2
  <2> QED
    BY <1>8, <2>1, <2>3, <2>4 DEF cs, v
<1> QED
  BY <1>7, <1>8

\* Once the text is shut, a call more keeps what has been sent in order.
LEMMA CallHolds ==
    ASSUME NEW k \in Kinds \ {"anthropic"}, NEW ans \in Seq(Types), NEW m \in Nat,
           m + 1 \in 1..Len(ans), ans[m+1] = "tool_use",
           NEW bs, bs = Built(k, ans, m), NEW b, b = Full(k, ans, m + 1), b.of = "tool_use",
           NEW sh \in SUBSET (Types \cup Nat), NEW cs, cs = Append(bs, b),
           NEW se, se = IF k = "openai" THEN Sorted(k, bs) ELSE Sorted(k, bs) \o <<b>>
    PROVE  Border(k, ans, m + 1, Acc(cs, AllMarks(bs, sh), se))
<1> DEFINE th == OfType(bs, "thinking")
           tx == OfType(bs, "text")
           sh2 == AllMarks(bs, sh)
<1>1. /\ bs \in Seq(Parts) /\ b \in Parts /\ Built(k, ans, m + 1) = cs
  BY BuiltGrows
<1>2. OfType(cs, "thinking") = th /\ OfType(cs, "text") = tx
  BY <1>1, OtherType
<1>3. sh2 \in SUBSET (Types \cup Nat) /\ (th # << >> => "thinking" \in sh2)
        /\ (tx # << >> => "text" \in sh2)
  BY DEF AllMarks, Marks, Types
<1> HIDE DEF sh2, th, tx
<1>4. Left(cs, sh2, "thinking") = << >> /\ Left(cs, sh2, "text") = << >>
  BY <1>2, <1>3 DEF Left
<1>5. se = Sorted(k, cs) /\ se \in Seq(Parts)
  <2>1. <<b>> \in Seq(Parts) /\ Sorted(k, bs) \in Seq(Parts)
    BY <1>1, CallSorts
  <2>2. se \in Seq(Parts)
    BY <2>1
  <2>3. k = "openai" => Sorted(k, cs) = Sorted(k, bs)
    <3>1. k = "openai" => Sorted(k, Append(bs, b)) = Sorted(k, bs)
      BY <1>1, CallSorts, Zenon
    <3> QED
      BY <3>1
  <2>4. k # "openai" => Sorted(k, cs) = Sorted(k, bs) \o <<b>>
    BY <1>1, CallSorts
  <2> QED
    BY <2>2, <2>3, <2>4
<1>6. se \o << >> \o << >> = se
  BY <1>5
<1>7. Between(k, ans, m + 1, cs, sh2, se)
  <2>1. ~(m + 1 = 0) /\ ~(m + 1 = 1 /\ ans[1] = "thinking")
    OBVIOUS
  <2> QED
    BY <1>4, <1>5, <1>6, <2>1 DEF Between
<1> QED
  BY <1>1, <1>3, <1>5, <1>7 DEF Border, sh2

\* A call closes the text and the reasoning, and for some providers itself.
LEMMA ToolBlock ==
    ASSUME NEW k \in Kinds \ {"anthropic"}, NEW ans \in Seq(Types), NEW m \in Nat,
           m + 1 \in 1..Len(ans), InOrder(ans), ans[m+1] = "tool_use",
           NEW q, q = BlockChunks(k, "tool_use", m + 1),
           NEW g, Border(k, ans, m, g[0]), \A i \in 1..Len(q) : g[i] = Process(k, g[i-1], q[i])
    PROVE  Border(k, ans, m + 1, g[Len(q)])
<1> DEFINE bs == Built(k, ans, m)
           at == m + 1
           b == Full(k, ans, m + 1)
           d == Partly("tool_use", at, 0)
           O == Chunk("open", "tool_use", at)
           P == Chunk("piece", "tool_use", at)
           C == Chunk("close", "tool_use", at)
           cs == Append(bs, b)
           ds == Append(bs, d)
<1>1. /\ bs \in Seq(Parts) /\ Len(bs) = m /\ b \in Parts /\ at \in Nat /\ "tool_use" \in Types
  BY BuiltGrows DEF Types
<1>2. NotYet(bs, "tool_use", at)
  BY NextIsNew DEF Usual, Slot
<1>3. b = Partly("tool_use", at, 1) /\ b.of = "tool_use" /\ b.at = at
  BY DEF Full, Slot, Pieces, Partly, Block
<1>4. d \in Parts /\ d.of = "tool_use"
  BY <1>1 DEF Partly, Block, Parts, BlocksFrom
<1>5. PICK sh \in SUBSET (Types \cup Nat), se \in Seq(Parts) :
          /\ g[0] = Acc(bs, sh, se)
          /\ se \o Left(bs, sh, "thinking") \o Left(bs, sh, "text") = Sorted(k, bs)
  BY DEF Border, Between
<1> DEFINE sh2 == AllMarks(bs, sh)
           se2 == Sorted(k, bs)
<1>6. /\ O.of = "tool_use" /\ O.at = at /\ P.of = "tool_use" /\ P.at = at
      /\ C.of = "tool_use" /\ C.at = at
  BY ChunkIs
<1> HIDE DEF bs, b, d, at
<1>7. cs \in Seq(Parts) /\ ds \in Seq(Parts)
  BY <1>1, <1>4
<1>8. OfType(ds, "thinking") = OfType(bs, "thinking") /\ OfType(ds, "text") = OfType(bs, "text")
  <2>0. d.of # "thinking" /\ d.of # "text"
    BY <1>4
  <2>1. OfType(ds, "thinking") = OfType(bs, "thinking")
    BY <1>1, <1>4, <2>0, OtherType, Zenon
  <2>2. OfType(ds, "text") = OfType(bs, "text")
    BY <1>1, <1>4, <2>0, OtherType, Zenon
  <2> QED
    BY <2>1, <2>2
<1>9. ShutText(Acc(bs, sh, se)) = Acc(bs, sh2, se2)
  <2> HIDE DEF se2
  <2>1. ShutText(Acc(bs, sh, se))
          = Acc(bs, AllMarks(bs, sh), se \o Left(bs, sh, "thinking") \o Left(bs, sh, "text"))
    BY <1>1, ShutTextIs
  <2> QED
    BY <1>5, <2>1 DEF se2
<1>10. ShutText(Acc(ds, sh, se)) = Acc(ds, sh2, se2)
  <2> HIDE DEF ds
  <2>1. ShutText(Acc(ds, sh, se))
          = Acc(ds, AllMarks(ds, sh), se \o Left(ds, sh, "thinking") \o Left(ds, sh, "text"))
    BY <1>7, ShutTextIs
  <2>2. AllMarks(ds, sh) = sh2
    BY <1>8 DEF AllMarks, Marks
  <2>3. Left(ds, sh, "thinking") = Left(bs, sh, "thinking")
          /\ Left(ds, sh, "text") = Left(bs, sh, "text")
    BY <1>8 DEF Left
  <2> QED
    BY <1>5, <2>1, <2>2, <2>3
<1> DEFINE end == IF k = "openai" THEN se2 ELSE se2 \o <<b>>
<1>11. Border(k, ans, m + 1, Acc(cs, sh2, end))
  <2> HIDE DEF cs
  <2> QED
    BY <1>3, CallHolds DEF bs, b, cs
<1> HIDE DEF sh2, se2
\* Begun, grown and put in its place.
<1>12. ASSUME NEW x, NEW y
       PROVE  /\ Begin(Acc(bs, x, y), "tool_use", at) = Acc(ds, x, y)
              /\ Grow(Acc(bs, x, y), "tool_use", at) = Acc(cs, x, y)
              /\ Grow(Acc(ds, x, y), "tool_use", at) = Acc(cs, x, y)
  <2>1. /\ Begin(Acc(bs, x, y), "tool_use", at) = Acc(Append(bs, Partly("tool_use", at, 0)), x, y)
        /\ Grow(Acc(bs, x, y), "tool_use", at) = Acc(Append(bs, Partly("tool_use", at, 1)), x, y)
    BY <1>1, <1>2, GrowFirst
  <2>2. Grow(Acc(Append(bs, Partly("tool_use", at, 0)), x, y), "tool_use", at)
          = Acc(Append(bs, Partly("tool_use", at, 0 + 1)), x, y)
    BY <1>1, <1>2, GrowOn
  <2> QED
    BY <1>3, <2>1, <2>2 DEF d
<1>13. ASSUME NEW c, c.of = "tool_use", c.at = at, NEW x, NEW y
       PROVE  Send(Acc(cs, x, y), AtPlace(Acc(cs, x, y), c)) = Acc(cs, x, y \o <<b>>)
  <2>1. AtPlace(Acc(cs, x, y), c) = <<b>>
    BY <1>1, <1>2, <1>3, <1>13, LastIsPlaced
  <2> HIDE DEF cs
  <2> QED
    BY <2>1, AccSend
<1> HIDE DEF cs, ds
<1>14. CASE k = "openai"
  <2>1. q = <<O, P>>
    BY <1>1, <1>14, ChunksAre DEF at
  <2> HIDE DEF O, P, C
  <2>2. Len(q) = 2 /\ g[1] = Process(k, g[0], O) /\ g[2] = Process(k, g[1], P)
    BY <2>1
  <2>3. Process(k, g[0], O) = OpenAIOpen(g[0], O)
    BY <1>14, ProcessIs DEF O
  <2>4. g[1] = Acc(ds, sh2, se2)
    BY <1>5, <1>6, <1>9, <1>12, <2>2, <2>3 DEF OpenAIOpen
  <2>5. Process(k, g[1], P) = Grow(g[1], "tool_use", at)
    BY <1>14, PieceIs DEF P
  <2>6. g[2] = Acc(cs, sh2, se2)
    BY <1>12, <2>2, <2>4, <2>5
  <2> QED
    BY <1>11, <1>14, <2>2, <2>6
<1>15. CASE k = "responses"
  <2>1. q = <<O, P, C>>
    BY <1>1, <1>15, ChunksAre DEF at
  <2> HIDE DEF O, P, C
  <2>2. /\ Len(q) = 3 /\ g[1] = Process(k, g[0], O) /\ g[2] = Process(k, g[1], P)
        /\ g[3] = Process(k, g[2], C)
    BY <2>1
  <2>3. /\ Process(k, g[0], O) = ResponsesOpen(g[0], O)
        /\ Process(k, g[2], C) = ResponsesClose(g[2], C)
    BY <1>15, ProcessIs DEF O, C
  <2>4. g[1] = Acc(ds, sh, se)
    BY <1>5, <1>6, <1>12, <2>2, <2>3 DEF ResponsesOpen
  <2>5. Process(k, g[1], P) = Grow(ShutText(g[1]), "tool_use", at)
    BY <1>15, PieceIs DEF P
  <2>6. g[2] = Acc(cs, sh2, se2)
    BY <1>10, <1>12, <2>2, <2>4, <2>5
  <2>7. g[3] = Acc(cs, sh2, se2 \o <<b>>)
    BY <1>6, <1>13, <2>2, <2>3, <2>6 DEF ResponsesClose
  <2> QED
    BY <1>11, <1>15, <2>2, <2>7
<1>16. CASE k = "genai"
  <2>1. q = <<P>>
    BY <1>1, <1>16, ChunksAre DEF at
  <2> HIDE DEF O, P, C
  <2>2. Len(q) = 1 /\ q[1] = P
    BY <2>1
  <2>9. g[1] = Process(k, g[0], P)
    <3>1. 1 \in 1..Len(q) /\ 1 - 1 = 0
      BY <2>2
    <3> QED
      BY <2>2, <3>1
  <2>3. Process(k, g[0], P) = GenAICall(g[0], P)
    BY <1>16, ProcessIs DEF P
  <2>4. Grow(ShutText(g[0]), P.of, P.at) = Acc(cs, sh2, se2)
    BY <1>5, <1>6, <1>9, <1>12
  <2>5. g[1] = Acc(cs, sh2, se2 \o <<b>>)
    BY <1>6, <1>13, <2>3, <2>4, <2>9 DEF GenAICall
  <2> QED
    BY <1>11, <1>16, <2>2, <2>5
<1> QED
  BY <1>14, <1>15, <1>16 DEF Kinds

\* One block more, of any provider.
LEMMA BlockStep ==
    ASSUME NEW k \in Kinds, NEW ans \in Seq(Types), NEW m \in Nat, m + 1 \in 1..Len(ans),
           Usual(k, ans), NEW q, q = BlockChunks(k, ans[m+1], m + 1),
           NEW g, Border(k, ans, m, g[0]), \A i \in 1..Len(q) : g[i] = Process(k, g[i-1], q[i])
    PROVE  Border(k, ans, m + 1, g[Len(q)])
<1>1. ans[m+1] \in Types
  BY NextIsNew
<1>2. CASE k = "anthropic"
  BY <1>2, AnthropicBlock
<1>3. CASE k # "anthropic" /\ ans[m+1] = "tool_use"
  BY <1>3, ToolBlock DEF Usual
<1>4. CASE k # "anthropic" /\ ans[m+1] = "text"
  <2> DEFINE P == Chunk("piece", "text", m + 1)
  <2>1. q = <<P, P>>
    BY <1>1, <1>4, ChunksAre
  <2> HIDE DEF P
  <2>2. Len(q) = 2 /\ g[1] = Process(k, g[0], P) /\ g[2] = Process(k, g[1], P)
    BY <2>1
  <2>3. Border(k, ans, m + 1, Process(k, Process(k, g[0], P), P))
    BY <1>4, TextBlock DEF Usual, P
  <2> QED
    BY <2>2, <2>3
<1>5. CASE k # "anthropic" /\ ans[m+1] = "thinking"
  <2> DEFINE P == Chunk("piece", "thinking", m + 1)
  <2>1. q = <<P>>
    BY <1>1, <1>5, ChunksAre
  <2> HIDE DEF P
  <2>2. Len(q) = 1 /\ q[1] = P
    BY <2>1
  <2>9. g[1] = Process(k, g[0], P)
    <3>1. 1 \in 1..Len(q) /\ 1 - 1 = 0
      BY <2>2
    <3> QED
      BY <2>2, <3>1
  <2>3. Border(k, ans, m + 1, Process(k, g[0], P))
    BY <1>5, ThinkingBlock DEF Usual, P
  <2> QED
    BY <2>2, <2>3, <2>9
<1> QED
  BY <1>1, <1>2, <1>3, <1>4, <1>5 DEF Types

-----------------------------------------------------------------------------
(* From the first chunk to the last.                                       *)

\* f: the accumulators before and after each of the chunks x.
Run(k, x, f) ==
    /\ f[0] = NewAccumulator
    /\ \A i \in 1..Len(x) : f[i] = Process(k, f[i-1], x[i])

\* What is said of the first m blocks.
Said(k, ans, m) == [i \in 1..m |-> BlockChunks(k, ans[i], i)]

LEMMA SaidTyped ==
    ASSUME NEW k \in Kinds, NEW ans \in Seq(Types), NEW m \in 0..Len(ans)
    PROVE  /\ Said(k, ans, m) \in Seq(Seq(Spoken(k))) /\ Len(Said(k, ans, m)) = m
           /\ \A i \in 1..m : BlockChunks(k, ans[i], i) \in Seq(Spoken(k))
<1> DEFINE C == Seq(Spoken(k))
           g == Said(k, ans, m)
<1>1. ASSUME NEW i \in 1..m PROVE BlockChunks(k, ans[i], i) \in C
  <2>1. i \in 1..Len(ans) /\ i \in Nat
    OBVIOUS
  <2>2. ans[i] \in Types
    BY <2>1, ElementOfSeq
  <2> QED
    BY <2>1, <2>2, BlockChunksTyped
<1>2. g = [i \in 1..m |-> g[i]] /\ (\A i \in 1..m : g[i] = BlockChunks(k, ans[i], i))
        /\ DOMAIN g = 1..m /\ m \in Nat
  BY DEF Said
<1> HIDE DEF g, C
<1>3. \A i \in 1..m : g[i] \in C
  BY <1>1, <1>2
<1>4. g \in Seq(C)
  BY <1>2, <1>3, Listed
<1>5. Len(g) = m
  BY <1>2, <1>4
<1> QED
  BY <1>1, <1>4, <1>5 DEF g, C

LEMMA SaidGrows ==
    ASSUME NEW k \in Kinds, NEW ans \in Seq(Types), NEW m \in Nat, m + 1 \in 1..Len(ans)
    PROVE  Said(k, ans, m + 1) = Append(Said(k, ans, m), BlockChunks(k, ans[m+1], m + 1))
<1> DEFINE C == Seq(Spoken(k))
           g == Said(k, ans, m)
           h == Said(k, ans, m + 1)
           y == BlockChunks(k, ans[m+1], m + 1)
<1>1. m \in 0..Len(ans) /\ m + 1 \in 0..Len(ans) /\ m + 1 \in 1..(m+1)
  OBVIOUS
<1>2. g \in Seq(C) /\ Len(g) = m
  BY <1>1, SaidTyped
<1>3. h \in Seq(C) /\ Len(h) = m + 1
  BY <1>1, SaidTyped
<1>4. y \in C
  BY <1>1, SaidTyped
<1>5. (\A i \in 1..m : h[i] = g[i]) /\ h[m+1] = y
  BY <1>1 DEF Said
<1> HIDE DEF g, h, y, C
<1>6. /\ Append(g, y) \in Seq(C) /\ Len(Append(g, y)) = m + 1
      /\ Append(g, y)[m+1] = y /\ \A i \in 1..m : Append(g, y)[i] = g[i]
  BY <1>2, <1>4, AppendProperties
<1>7. ASSUME NEW i \in 1..(m+1) PROVE h[i] = Append(g, y)[i]
  <2>1. i = m + 1 \/ i \in 1..m
    OBVIOUS
  <2> QED
    BY <1>5, <1>6, <2>1
<1>8. h = Append(g, y)
  BY <1>3, <1>6, <1>7, SeqEqual
<1> QED
  BY <1>8 DEF g, h, y

\* Of no chunks comes nothing.
LEMMA FirstBorder ==
    ASSUME NEW k \in Kinds, NEW ans \in Seq(Types)
    PROVE  Border(k, ans, 0, NewAccumulator)
<1> DEFINE bs == Built(k, ans, 0)
<1>1. bs = << >>
  BY DEF Built
<1> HIDE DEF bs
<1>2. NewAccumulator = Acc(bs, {}, << >>)
  BY <1>1 DEF NewAccumulator, Acc, No
<1>3. {} \in SUBSET (Types \cup Nat) /\ << >> \in Seq(Parts)
  OBVIOUS
<1>4. \A type : OfType(bs, type) = << >>
  BY <1>1, OfTypeNone
<1>5. /\ Left(bs, {}, "thinking") = << >> /\ Left(bs, {}, "text") = << >>
      /\ OfType(bs, "thinking") = << >> /\ OfType(bs, "text") = << >> /\ Tools(k, bs) = << >>
  BY <1>4 DEF Left, Tools
<1>6. Sorted(k, bs) = << >> \o << >> \o << >>
  BY <1>5 DEF Sorted
<1>7. Between(k, ans, 0, bs, {}, << >>)
  <2>1. 1..0 = {}
    OBVIOUS
  <2> QED
    BY <1>1, <1>5, <1>6, <2>1 DEF Between
<1> QED
  BY <1>2, <1>3, <1>7 DEF Border, bs

\* What the chunks of the first blocks leave.
LEMMA RunsToBorder ==
    ASSUME NEW k \in Kinds, NEW ans \in Seq(Types), Usual(k, ans), NEW m \in 0..Len(ans),
           NEW f, Run(k, FlattenSeq(Said(k, ans, m)), f)
    PROVE  Border(k, ans, m, f[Len(FlattenSeq(Said(k, ans, m)))])
<1> DEFINE F(n) == FlattenSeq(Said(k, ans, n))
           P(n) == n \in 0..Len(ans) => \A h : Run(k, F(n), h) => Border(k, ans, n, h[Len(F(n))])
           S == {n \in Nat : P(n)}
<1>1. 0 \in S
  <2>1. ASSUME NEW h, Run(k, F(0), h) PROVE Border(k, ans, 0, h[Len(F(0))])
    <3>1. Len(Said(k, ans, 0)) = 0
      BY SaidTyped
    <3>2. F(0) = Said(k, ans, 0)
      BY <3>1, FlattenEmpty
    <3>3. Len(F(0)) = 0
      BY <3>1, <3>2
    <3> QED
      BY <2>1, <3>3, FirstBorder DEF Run
  <2> QED
    BY <2>1
<1>2. ASSUME NEW n \in Nat, n \in S PROVE n + 1 \in S
  <2>1. ASSUME n + 1 \in 0..Len(ans), NEW h, Run(k, F(n+1), h)
        PROVE  Border(k, ans, n + 1, h[Len(F(n+1))])
    <3> DEFINE x == F(n)
               y == BlockChunks(k, ans[n+1], n + 1)
               z == F(n+1)
               C == Spoken(k)
               g == [i \in 0..Len(y) |-> h[Len(x) + i]]
    <3>1. n \in 0..Len(ans) /\ n + 1 \in 1..Len(ans) /\ n + 1 \in 1..(n+1)
      BY <2>1
    <3>2. Said(k, ans, n) \in Seq(Seq(C)) /\ y \in Seq(C)
      <4>1. Said(k, ans, n) \in Seq(Seq(C))
        BY <3>1, SaidTyped
      <4>2. y \in Seq(C)
        BY <2>1, <3>1, SaidTyped
      <4> QED
        BY <4>1, <4>2
    <3>3. Said(k, ans, n + 1) = Append(Said(k, ans, n), y)
      BY <3>1, SaidGrows
    <3> HIDE DEF y, C
    <3>4. x \in Seq(C) /\ z = x \o y
      BY <3>2, <3>3, FlattenAppend
    <3>5. P(n)
      BY <1>2
    <3> HIDE DEF x, z
    <3>6. /\ Len(x) \in Nat /\ Len(y) \in Nat /\ Len(z) = Len(x) + Len(y)
          /\ \A i \in 1..Len(x) : z[i] = x[i]
          /\ \A i \in 1..Len(y) : z[Len(x) + i] = y[i]
      BY <3>2, <3>4
    <3>7. Run(k, x, h)
      BY <2>1, <3>6 DEF Run, z
    <3>8. Border(k, ans, n, h[Len(x)])
      BY <3>1, <3>5, <3>7 DEF x
    <3>9. g[0] = h[Len(x)] /\ g[Len(y)] = h[Len(z)]
      BY <3>6
    <3>10. ASSUME NEW i \in 1..Len(y) PROVE g[i] = Process(k, g[i-1], y[i])
      <4>1. /\ i \in 0..Len(y) /\ i - 1 \in 0..Len(y) /\ Len(x) + i \in 1..Len(z)
            /\ Len(x) + i - 1 = Len(x) + (i - 1)
        BY <3>6
      <4>2. g[i] = h[Len(x) + i] /\ g[i-1] = h[Len(x) + (i - 1)]
        BY <4>1
      <4>3. h[Len(x) + i] = Process(k, h[Len(x) + i - 1], z[Len(x) + i])
        BY <2>1, <4>1 DEF Run, z
      <4> QED
        BY <3>6, <4>1, <4>2, <4>3
    <3> HIDE DEF g
    <3>11. Border(k, ans, n + 1, g[Len(y)])
      BY <3>1, <3>8, <3>9, <3>10, BlockStep DEF y
    <3> QED
      BY <3>9, <3>11 DEF z
  <2> QED
    BY <2>1
<1>3. Nat \subseteq S
  <2> HIDE DEF S
  <2> QED
    BY <1>1, <1>2, SetInduction
<1>4. P(m)
  BY <1>3
<1> QED
  BY <1>4

\* What the channel carried is the result, and every block of it is whole.
Complete(k, a) ==
    Shape(a.sent) = Shape(Assembled(k, a)) /\ \A i \in DOMAIN a.sent : Whole(a.sent[i])

Fin == Chunk("finish", "none", 0)
Stop == Chunk("stop", "none", 0)

\* Ended, it holds what it held.
Closed(a) == [a EXCEPT !.ended = TRUE]
LEMMA Ending ==
    ASSUME NEW bs, NEW sh, NEW se
    PROVE  LET z == Closed(Acc(bs, sh, se)) IN z.blocks = bs /\ z.shut = sh /\ z.sent = se
<1> DEFINE yes == TRUE
           z == Closed(Acc(bs, sh, se))
<1>1. z = [Acc(bs, sh, se) EXCEPT !.ended = yes]
  BY DEF Closed
<1> HIDE DEF yes, z
<1>2. z = [blocks |-> bs, shut |-> sh, sent |-> se, ended |-> yes]
  BY <1>1 DEF Acc
<1> QED
  BY <1>2 DEF z

LEMMA FinishIs ==
    ASSUME NEW a
    PROVE  /\ Process("anthropic", a, Fin) = a
           /\ Process("anthropic", a, Stop) = Closed(a)
           /\ Process("openai", a, Fin) = OpenAIFinish(a)
           /\ Process("responses", a, Fin) = Closed(ShutText(a))
           /\ Process("genai", a, Fin) = Closed(ShutText(a))
<1>1. Fin.is = "finish" /\ Stop.is = "stop"
  BY DEF Fin, Stop, Chunk
<1>2. Process("anthropic", a, Fin) = a
  BY <1>1 DEF Process, Anthropic
<1>3. Process("anthropic", a, Stop) = Closed(a)
  BY <1>1 DEF Process, Anthropic, Closed
<1>4. Process("openai", a, Fin) = OpenAIFinish(a)
  BY <1>1 DEF Process, OpenAI
<1>5. Process("responses", a, Fin) = ResponsesFinish(a)
  BY <1>1 DEF Process, Responses
<1>6. Process("genai", a, Fin) = GenAIFinish(a)
  BY <1>1 DEF Process, GenAI
<1> QED
  BY <1>2, <1>3, <1>4, <1>5, <1>6 DEF ResponsesFinish, GenAIFinish, Closed

\* The blocks of the answer are whole.
LEMMA BuiltWhole ==
    ASSUME NEW k \in Kinds, NEW ans \in Seq(Types)
    PROVE  Built(k, ans, Len(ans)) \in Seq({b \in Parts : Whole(b)})
<1> DEFINE W == {b \in Parts : Whole(b)}
           n == Len(ans)
           g == Built(k, ans, n)
<1>1. ASSUME NEW i \in 1..n PROVE Full(k, ans, i) \in W
  <2>1. ans[i] \in Types /\ i \in Nat
    BY ElementOfSeq
  <2> QED
    BY <2>1 DEF Full, Partly, Block, Parts, BlocksFrom, Slot, Pieces, Whole
<1>2. n \in Nat /\ g = [i \in 1..n |-> g[i]] /\ \A i \in 1..n : g[i] = Full(k, ans, i)
  BY DEF Built
<1> HIDE DEF g, W
<1>3. g \in Seq(W)
  BY <1>1, <1>2, Listed
<1> QED
  BY <1>3 DEF g, W

\* Without a name a block has the shape it had.
LEMMA NamelessShape ==
    ASSUME NEW bs \in Seq(Parts)
    PROVE  Shape(Nameless(bs)) = Shape(bs)
<1> DEFINE g == Nameless(bs)
<1>1. DOMAIN g = DOMAIN bs
  BY DEF Nameless
<1>2. ASSUME NEW i \in DOMAIN bs PROVE g[i].of = bs[i].of /\ g[i].size = bs[i].size
  <2>1. PICK b \in Parts : b = bs[i]
    BY <1>2
  <2>2. [b EXCEPT !.at = 0].of = b.of /\ [b EXCEPT !.at = 0].size = b.size
    BY DEF Parts, BlocksFrom
  <2>3. g[i] = IF b.of = "tool_use" THEN [b EXCEPT !.at = 0] ELSE b
    BY <1>2, <2>1 DEF Nameless
  <2> QED
    BY <2>1, <2>2, <2>3
<1> HIDE DEF g
<1>3. Shape(g) = Shape(bs)
  BY <1>1, <1>2 DEF Shape
<1> QED
  BY <1>3 DEF g

LEMMA AnthropicComplete ==
    ASSUME NEW ans \in Seq(Types), NEW a, Border("anthropic", ans, Len(ans), a)
    PROVE  Complete("anthropic", Closed(a))
<1> DEFINE k == "anthropic"
           n == Len(ans)
           bs == Built(k, ans, n)
           z == Closed(a)
<1>1. a = Acc(bs, 1..n, bs)
  BY DEF Border, Between
<1>2. z.blocks = bs /\ z.shut = 1..n /\ z.sent = bs
  BY <1>1, Ending
<1>3. bs \in Seq({b \in Parts : Whole(b)}) /\ DOMAIN bs = 1..n
  BY BuiltWhole DEF Kinds, Built
<1>4. \A i \in 1..n : bs[i].at = i
  BY DEF Built, Full, Partly, Block, Slot
<1> HIDE DEF z, bs
<1>5. AnthropicBlocks(z) = bs
  <2>1. AnthropicBlocks(z) = [i \in 1..n |-> bs[i]]
    BY <1>2, <1>3, <1>4 DEF AnthropicBlocks
  <2> QED
    BY <1>3, <2>1
<1>6. Assembled(k, z) = bs
  BY <1>5 DEF Assembled
<1>7. \A i \in DOMAIN bs : Whole(bs[i])
  BY <1>3
<1>8. Complete(k, z)
  BY <1>2, <1>6, <1>7 DEF Complete
<1> QED
  BY <1>8 DEF z

LEMMA OthersComplete ==
    ASSUME NEW k \in Kinds \ {"anthropic"}, NEW ans \in Seq(Types), NEW a,
           Border(k, ans, Len(ans), a)
    PROVE  Complete(k, Process(k, a, Fin))
<1> DEFINE n == Len(ans)
           bs == Built(k, ans, n)
           W == {b \in Parts : Whole(b)}
           th == OfType(bs, "thinking")
           tx == OfType(bs, "text")
           tools == OfType(bs, "tool_use")
           all == th \o tx \o tools
           z == Process(k, a, Fin)
<1>1. PICK sh \in SUBSET (Types \cup Nat), se \in Seq(Parts) :
          /\ a = Acc(bs, sh, se)
          /\ se \o Left(bs, sh, "thinking") \o Left(bs, sh, "text") = Sorted(k, bs)
  BY DEF Border, Between
<1>2. bs \in Seq(W)
  BY BuiltWhole
<1>3. bs \in Seq(Parts)
  BY <1>2
<1>4. th \in Seq(W) /\ tx \in Seq(W) /\ tools \in Seq(W)
  <2> HIDE DEF bs, W
  <2> QED
    BY <1>2, OfTypeTyped
<1> DEFINE sh2 == AllMarks(bs, sh)
           se2 == Sorted(k, bs)
<1>5. ShutText(a) = Acc(bs, sh2, se2)
  <2> HIDE DEF se2, bs
  <2>1. ShutText(Acc(bs, sh, se))
          = Acc(bs, AllMarks(bs, sh), se \o Left(bs, sh, "thinking") \o Left(bs, sh, "text"))
    BY <1>3, ShutTextIs
  <2> QED
    BY <1>1, <2>1 DEF se2
<1>6. a.blocks = bs
  BY <1>1, AccIs
<1> HIDE DEF bs, sh2, z
<1>7. z.blocks = bs /\ z.sent = all
  <2>1. CASE k = "openai"
    <3> DEFINE y == se2 \o tools
    <3>1. z = Closed(Send(ShutText(a), OfType(a.blocks, "tool_use")))
      BY <2>1, FinishIs DEF OpenAIFinish, Closed, z
    <3>2. Send(Acc(bs, sh2, se2), tools) = Acc(bs, sh2, y)
      <4> HIDE DEF se2, tools
      <4> QED
        BY AccSend
    <3>3. y = all
      <4>1. se2 = th \o tx \o << >>
        BY <2>1 DEF Sorted, Tools
      <4> HIDE DEF se2, th, tx, tools, W
      <4>2. th \o tx \o << >> = th \o tx
        BY <1>4
      <4> QED
        BY <4>1, <4>2
    <3> HIDE DEF se2, tools, y, all
    <3>4. z = Closed(Acc(bs, sh2, y))
      BY <1>5, <1>6, <3>1, <3>2 DEF tools
    <3>5. z.blocks = bs /\ z.sent = y
      BY <3>4, Ending
    <3> QED
      BY <3>3, <3>5
  <2>2. CASE k # "openai"
    <3>1. z = Closed(ShutText(a))
      BY <2>2, FinishIs DEF Kinds, z
    <3>2. se2 = all
      BY <2>2 DEF Sorted, Tools
    <3> HIDE DEF se2, all
    <3>3. z = Closed(Acc(bs, sh2, se2))
      BY <1>5, <3>1
    <3>4. z.blocks = bs /\ z.sent = se2
      BY <3>3, Ending
    <3> QED
      BY <3>2, <3>4
  <2> QED
    BY <2>1, <2>2
<1>8. Finalized(z) = all
  BY <1>7 DEF Finalized
<1> HIDE DEF W, th, tx, tools
<1>9. all \in Seq(W)
  BY <1>4
<1>10. all \in Seq(Parts) /\ \A i \in DOMAIN all : Whole(all[i])
  <2> HIDE DEF all
  <2> QED
    BY <1>9 DEF W
<1> HIDE DEF all
<1>11. Shape(Assembled(k, z)) = Shape(all)
  BY <1>8, <1>10, NamelessShape DEF Assembled, Kinds
<1>12. Complete(k, z)
  BY <1>7, <1>10, <1>11 DEF Complete
<1> QED
  BY <1>12 DEF z

\* The wire, in its parts.
LEMMA WireIs ==
    ASSUME NEW k \in Kinds, NEW ans \in Seq(Types), NEW x, x = FlattenSeq(Said(k, ans, Len(ans))),
           NEW w, w = Wire(k, ans)
    PROVE  /\ x \in Seq(Spoken(k)) /\ w \in Seq(ChunksOf(k))
           /\ Len(w) = Len(x) + (IF k = "anthropic" THEN 2 ELSE 1)
           /\ \A i \in 1..Len(x) : w[i] = x[i]
           /\ w[Len(x) + 1] = Fin
           /\ k = "anthropic" => w[Len(x) + 2] = Stop
<1> DEFINE n == Len(ans)
           stop == IF k = "anthropic" THEN Mark("stop") ELSE << >>
<1>1. n \in 0..n /\ DOMAIN ans = 1..n
  OBVIOUS
<1>2. x \in Seq(Spoken(k))
  <2> DEFINE g == Said(k, ans, n)
             C == Spoken(k)
  <2>1. g \in Seq(Seq(C))
    BY <1>1, SaidTyped
  <2> HIDE DEF g, C
  <2>2. FlattenSeq(g) \in Seq(C)
    BY <2>1, FlattenTyped
  <2> QED
    BY <2>2 DEF g, C
<1>3. w \in Seq(ChunksOf(k))
  BY WireTyped
<1>4. w = x \o <<Fin>> \o stop
  <2>1. Said(k, ans, n) = [i \in DOMAIN ans |-> BlockChunks(k, ans[i], i)]
    BY <1>1 DEF Said
  <2> QED
    BY <2>1 DEF Wire, Mark, Fin
<1>5. stop = IF k = "anthropic" THEN <<Stop>> ELSE << >>
  BY DEF Mark, Stop
<1> HIDE DEF stop
<1>6. x \in Seq(Spoken(k) \cup {Fin, Stop}) /\ Len(x) \in Nat
  BY <1>2
<1> DEFINE C == Spoken(k) \cup {Fin, Stop}
           y == x \o <<Fin>>
<1>7. Fin \in C /\ Stop \in C
  OBVIOUS
<1> HIDE DEF C
<1>8. y \in Seq(C) /\ Len(y) = Len(x) + 1 /\ y[Len(x) + 1] = Fin /\ \A i \in 1..Len(x) : y[i] = x[i]
  BY <1>6, <1>7 DEF C
<1> HIDE DEF y
<1>9. CASE k = "anthropic"
  <2>1. w = y \o <<Stop>>
    BY <1>4, <1>5, <1>9 DEF y
  <2>2. Len(w) = Len(y) + 1 /\ w[Len(y) + 1] = Stop /\ \A i \in 1..Len(y) : w[i] = y[i]
    BY <1>7, <1>8, <2>1
  <2> QED
    BY <1>2, <1>3, <1>6, <1>8, <1>9, <2>2
<1>10. CASE k # "anthropic"
  <2>1. w = y \o << >>
    BY <1>4, <1>5, <1>10 DEF y
  <2>2. w = y
    BY <1>8, <2>1
  <2> QED
    BY <1>2, <1>3, <1>6, <1>8, <1>10, <2>2
<1> QED
  BY <1>9, <1>10

LEMMA WireCompletes ==
    ASSUME NEW k \in Kinds, NEW ans \in Seq(Types), Usual(k, ans), NEW f, Run(k, Wire(k, ans), f)
    PROVE  Complete(k, f[Len(Wire(k, ans))])
<1> DEFINE n == Len(ans)
           x == FlattenSeq(Said(k, ans, n))
           w == Wire(k, ans)
<1>1. /\ x \in Seq(Spoken(k)) /\ w \in Seq(ChunksOf(k))
      /\ Len(w) = Len(x) + (IF k = "anthropic" THEN 2 ELSE 1)
      /\ \A i \in 1..Len(x) : w[i] = x[i]
      /\ w[Len(x) + 1] = Fin
      /\ k = "anthropic" => w[Len(x) + 2] = Stop
  BY WireIs
<1>2. n \in 0..n
  OBVIOUS
<1> HIDE DEF x, w
<1>3. Len(x) \in Nat
  BY <1>1
<1>4. f[0] = NewAccumulator /\ \A i \in 1..Len(w) : f[i] = Process(k, f[i-1], w[i])
  BY DEF Run, w
<1>5. Run(k, x, f)
  BY <1>1, <1>3, <1>4 DEF Run
<1> DEFINE a == f[Len(x)]
<1>6. Border(k, ans, n, a)
  BY <1>2, <1>5, RunsToBorder DEF x
<1>7. f[Len(x) + 1] = Process(k, a, Fin)
  <2>1. Len(x) + 1 \in 1..Len(w) /\ Len(x) + 1 - 1 = Len(x)
    BY <1>1, <1>3
  <2> QED
    BY <1>1, <1>4, <2>1
<1>8. CASE k = "anthropic"
  <2>1. Len(w) = Len(x) + 2 /\ Len(x) + 2 \in 1..Len(w) /\ Len(x) + 2 - 1 = Len(x) + 1
    BY <1>1, <1>3, <1>8
  <2>2. f[Len(x) + 2] = Process(k, f[Len(x) + 1], Stop)
    BY <1>1, <1>4, <1>8, <2>1
  <2>3. f[Len(w)] = Closed(a)
    <3> HIDE DEF a
    <3> QED
      BY <1>7, <1>8, <2>1, <2>2, FinishIs DEF Closed
  <2>4. Border("anthropic", ans, n, a)
    BY <1>6, <1>8
  <2> HIDE DEF a
  <2>5. Complete("anthropic", Closed(a))
    BY <2>4, AnthropicComplete
  <2> QED
    BY <1>8, <2>3, <2>5 DEF w
<1>9. CASE k # "anthropic"
  <2>1. f[Len(w)] = Process(k, a, Fin)
    BY <1>1, <1>7, <1>9
  <2> HIDE DEF a
  <2>2. Complete(k, Process(k, a, Fin))
    BY <1>6, <1>9, OthersComplete
  <2> QED
    BY <2>1, <2>2 DEF w
<1> QED
  BY <1>8, <1>9

\* The chunks after which there are others.
Quiet(k) == Spoken(k) \cup (IF k = "anthropic" THEN {Fin} ELSE {})

LEMMA LastEnds ==
    ASSUME NEW k \in Kinds, NEW ans \in Seq(Types), NEW i \in 1..Len(Wire(k, ans)),
           i # Len(Wire(k, ans))
    PROVE  Wire(k, ans)[i] \in Quiet(k)
<1> DEFINE x == FlattenSeq(Said(k, ans, Len(ans)))
           w == Wire(k, ans)
<1>1. /\ x \in Seq(Spoken(k)) /\ w \in Seq(ChunksOf(k))
      /\ Len(w) = Len(x) + (IF k = "anthropic" THEN 2 ELSE 1)
      /\ \A j \in 1..Len(x) : w[j] = x[j]
      /\ w[Len(x) + 1] = Fin
  BY WireIs
<1>2. i \in 1..Len(w) /\ i # Len(w)
  OBVIOUS
<1> HIDE DEF x, w
<1>3. i \in 1..Len(x) \/ (k = "anthropic" /\ i = Len(x) + 1)
  BY <1>1, <1>2
<1>4. i \in 1..Len(x) => w[i] \in Spoken(k)
  BY <1>1
<1> QED
  BY <1>1, <1>3, <1>4 DEF Quiet, w

\* Only the last of them ends the answer.
LEMMA QuietKeeps ==
    ASSUME NEW k \in Kinds, NEW a \in Accumulators, NEW c \in Quiet(k)
    PROVE  Process(k, a, c).ended = a.ended
<1>1. ASSUME NEW b \in Accumulators, NEW x
      PROVE  /\ [b EXCEPT !.blocks = x].ended = b.ended
             /\ [b EXCEPT !.shut = x].ended = b.ended
             /\ [b EXCEPT !.sent = x].ended = b.ended
  BY DEF Accumulators
<1>2. ASSUME NEW b \in Accumulators, NEW bs PROVE Send(b, bs).ended = b.ended
  BY <1>1, <1>2 DEF Send
<1>3. ASSUME NEW b \in Accumulators, NEW type \in Types PROVE Shut(b, type).ended = b.ended
  <2> DEFINE d == [b EXCEPT !.shut = @ \cup {type}]
  <2>1. d \in Accumulators /\ d.ended = b.ended
    BY <1>1 DEF Accumulators
  <2> HIDE DEF d
  <2>2. Send(d, OfType(b.blocks, type)).ended = b.ended
    BY <1>2, <2>1
  <2> QED
    BY <2>2 DEF Shut, d
<1>4. ASSUME NEW b \in Accumulators PROVE ShutText(b).ended = b.ended
  <2>1. Shut(b, "thinking") \in Accumulators /\ "thinking" \in Types /\ "text" \in Types
    BY ShutTyped DEF Types
  <2> QED
    BY <1>3, <2>1 DEF ShutText
<1>5. ASSUME NEW b \in Accumulators, NEW type \in Types, NEW at \in Nat
      PROVE  Begin(b, type, at).ended = b.ended /\ Grow(b, type, at).ended = b.ended
  <2>1. Begin(b, type, at).ended = b.ended /\ Begin(b, type, at) \in Accumulators
    BY <1>1, GrowTyped DEF Begin
  <2> DEFINE has == IF Places(b, type, at) = {} THEN Begin(b, type, at) ELSE b
             i == CHOOSE j \in Places(has, type, at) : TRUE
  <2>2. has \in Accumulators /\ has.ended = b.ended
    BY <2>1
  <2>3. Grow(b, type, at) = [has EXCEPT !.blocks[i].size = @ + 1]
    BY DEF Grow
  <2> HIDE DEF has, i
  <2>4. Grow(b, type, at).ended = has.ended
    BY <2>2, <2>3 DEF Accumulators
  <2> QED
    BY <2>1, <2>2, <2>4
<1>6. CASE c \in Spoken(k)
  <2>1. c.is \in Says(k) /\ c.of \in Types /\ c.at \in Nat /\ Slot(k, c.of, c.at) \in Nat
    BY <1>6 DEF Spoken, Slot
  <2>2. /\ ShutText(a) \in Accumulators /\ ShutText(a).ended = a.ended
        /\ Shut(a, "thinking") \in Accumulators /\ Shut(a, "thinking").ended = a.ended
    BY <1>3, <1>4, ShutTextTyped, ShutTyped DEF Types
  <2>3. CASE k = "anthropic"
    <3>1. AnthropicClose(a, c).ended = a.ended
      <4> DEFINE d == [a EXCEPT !.shut = @ \cup {c.at}]
      <4>1. d \in Accumulators /\ d.ended = a.ended
        BY <1>1, <2>1 DEF Accumulators
      <4> HIDE DEF d
      <4> QED
        BY <1>2, <4>1 DEF AnthropicClose, d
    <3> QED
      BY <1>5, <2>1, <2>3, <3>1 DEF Process, Anthropic, Says
  <2>4. CASE k = "openai"
    <3>1. OpenAIOpen(a, c).ended = a.ended
      BY <1>5, <2>1, <2>2 DEF OpenAIOpen
    <3>2. OpenAIPiece(a, c).ended = a.ended
      BY <1>5, <2>1, <2>2, <2>4 DEF OpenAIPiece
    <3> QED
      BY <2>1, <2>4, <3>1, <3>2 DEF Process, OpenAI, Says
  <2>5. CASE k = "responses"
    <3>1. ResponsesOpen(a, c).ended = a.ended
      BY <1>5, <2>1 DEF ResponsesOpen
    <3>2. ResponsesPiece(a, c).ended = a.ended
      <4>1. c.of = "thinking" \/ c.of = "text" \/ c.of = "tool_use"
        BY <2>1 DEF Types
      <4> QED
        BY <1>5, <2>1, <2>2, <2>5, <4>1 DEF ResponsesPiece
    <3>3. ResponsesClose(a, c).ended = a.ended
      BY <1>2 DEF ResponsesClose
    <3> QED
      BY <2>1, <2>5, <3>1, <3>2, <3>3 DEF Process, Responses, Says
  <2>6. CASE k = "genai"
    <3>1. GenAICall(a, c).ended = a.ended
      <4> DEFINE d == Grow(ShutText(a), c.of, c.at)
      <4>1. d \in Accumulators /\ d.ended = a.ended
        BY <1>5, <2>1, <2>2, GrowTyped
      <4> HIDE DEF d
      <4> QED
        BY <1>2, <4>1 DEF GenAICall, d
    <3>2. GenAIText(a, c).ended = a.ended
      BY <1>5, <2>1, <2>2, <2>6 DEF GenAIText
    <3> QED
      BY <2>1, <2>6, <3>1, <3>2 DEF Process, GenAI, Says
  <2> QED
    BY <2>3, <2>4, <2>5, <2>6 DEF Kinds
<1>7. CASE k = "anthropic" /\ c = Fin
  BY <1>7, FinishIs
<1> QED
  BY <1>6, <1>7 DEF Quiet

-----------------------------------------------------------------------------
(* Where blocks come from.                                                 *)

FromStream == Seq(BlocksFrom("stream"))
FromReply == Seq(BlocksFrom("reply"))

Streamed ==
    /\ kind \in Kinds /\ answer \in Seq(Types)
    /\ acc \in Accumulators
    /\ wire \in Seq(ChunksOf(kind)) /\ pipe \in Seq(ChunksOf(kind))

\* Until the stream has been assessed the result has its blocks.  Blocks that
\* are let through are the stream's, and then so are those of the result, which
\* are not replaced any more.
Sources ==
    /\ blocks \in FromStream \cup FromReply /\ taken \in FromStream \cup FromReply
    /\ pc \in {"ask", "headers", "read", "assess"} => blocks \in FromStream
    /\ channel # << >> => /\ pc \in {"decide", "done"} /\ blocks # << >>
                          /\ channel \in FromStream /\ blocks \in FromStream
    /\ channel = << >> \/ channel \in FromStream

SourceInv == Streamed /\ Sources

LEMMA SourceInit == Init => SourceInv
<1> SUFFICES ASSUME Init PROVE SourceInv
  OBVIOUS
<1>1. answer \in Seq(Types) /\ kind \in Kinds
  BY ApiAssumption DEF Init
<1>2. wire = << >> /\ pipe = << >> /\ acc = NewAccumulator /\ blocks = << >> /\ channel = << >>
        /\ taken = << >>
  BY DEF Init
<1>3. NewAccumulator \in Accumulators
  BY DEF NewAccumulator, Accumulators
<1>4. << >> \in Seq(ChunksOf(kind)) /\ << >> \in FromStream
  BY DEF FromStream
<1> QED
  BY <1>1, <1>2, <1>3, <1>4 DEF SourceInv, Streamed, Sources

LEMMA StreamedKeeps == ASSUME SourceInv, [Next]_vars PROVE Streamed'
<1> USE DEF SourceInv, Streamed
<1>1. CASE Accepted
  BY <1>1, WireTyped DEF Accepted
<1>2. CASE Serve
  <2>1. kind = "responses" => Chunk("failed", "none", 0) \in ChunksOf(kind)
    BY DEF Chunk, ChunksOf, Ends
  <2>2. wire # << >> => Head(wire) \in ChunksOf(kind) /\ Tail(wire) \in Seq(ChunksOf(kind))
    OBVIOUS
  <2>3. /\ UNCHANGED <<kind, answer, acc>>
        /\ wire' = Tail(wire) \/ wire' = << >>
        /\ \E c \in ChunksOf(kind) : pipe' = Append(pipe, c)
    BY <1>2, <2>1, <2>2 DEF Serve
  <2>4. pipe' \in Seq(ChunksOf(kind))
    BY <2>3
  <2>5. wire' \in Seq(ChunksOf(kind))
    <3>1. << >> \in Seq(ChunksOf(kind))
      OBVIOUS
    <3>2. wire # << >>
      BY <1>2 DEF Serve
    <3> QED
      BY <2>2, <2>3, <3>1, <3>2
  <2> QED
    BY <2>3, <2>4, <2>5
<1>3. CASE ReadChunk
  <2>1. Head(pipe) \in ChunksOf(kind) /\ Tail(pipe) \in Seq(ChunksOf(kind))
    BY <1>3 DEF ReadChunk
  <2> QED
    BY <1>3, <2>1, ProcessTyped DEF ReadChunk
<1>4. CASE ReadCancelled
  <2>1. << >> \in Seq(ChunksOf(kind))
    OBVIOUS
  <2> QED
    BY <1>4, <2>1 DEF ReadCancelled
<1>5. CASE UNCHANGED <<kind, answer, acc, wire, pipe>>
  BY <1>5
<1> HIDE DEF SourceInv, Streamed
<1>6. UNCHANGED <<kind, answer, acc, wire, pipe>> \/ Accepted \/ Serve \/ ReadChunk \/ ReadCancelled
  <2>1. CASE AskStream \/ NoHeaders \/ Hangup \/ EndOfStream
    BY <2>1 DEF AskStream, NoHeaders, Hangup, EndOfStream, stream
  <2>2. CASE DogFires \/ DogWrites \/ DogCloses \/ Cancel \/ Expire \/ Done \/ UNCHANGED vars
    BY <2>2 DEF DogFires, DogWrites, DogCloses, Cancel, Expire, Done, stream, vars
  <2>3. CASE Assess \/ Attempt \/ Replied \/ Failed \/ Backoff \/ Decide
    BY <2>3 DEF Assess, Attempt, Replied, Failed, Backoff, Decide, stream
  <2>4. CASE \E e \in Errors : Refused(e) \/ Rejected(e)
    BY <2>4 DEF Refused, Rejected, stream
  <2> QED
    BY <2>1, <2>2, <2>3, <2>4 DEF Next
<1> QED
  BY <1>1, <1>2, <1>3, <1>4, <1>5, <1>6

LEMMA ActsTyped ==
    ASSUME SourceInv PROVE Acts \in FromStream \cup FromReply
<1>1. CASE channel = << >>
  <2>1. channel \o blocks = blocks
    BY <1>1 DEF SourceInv, Sources, FromStream, FromReply
  <2>2. OfType(channel, "text") \o OfType(channel, "tool_use") = << >>
    BY <1>1 DEF OfType, FlattenSeq
  <2> QED
    BY <2>1, <2>2 DEF Acts, SourceInv, Sources
<1>2. CASE channel # << >>
  <2>1. channel \in FromStream /\ blocks \in FromStream
    BY <1>2 DEF SourceInv, Sources
  <2>2. channel \o blocks \in FromStream
    BY <2>1 DEF FromStream
  <2> QED
    BY <2>1, <2>2 DEF Acts
<1> QED
  BY <1>1, <1>2

LEMMA SourcesKeep == ASSUME SourceInv, [Next]_vars PROVE Sources'
<1>1. << >> \in FromStream
  BY DEF FromStream
<1>2. Assembled(kind, acc) \in FromStream
  BY AssembledTyped DEF SourceInv, Streamed, FromStream
<1>3. Parsed(kind, answer) \in FromReply
  BY ParsedTyped DEF SourceInv, Streamed, FromReply
<1>4. Sources
  BY DEF SourceInv
<1>5. CASE UNCHANGED <<blocks, channel, taken, pc>>
  BY <1>4, <1>5 DEF Sources
<1>6. CASE AskStream \/ NoHeaders \/ \E e \in Errors : Refused(e)
  BY <1>1, <1>4, <1>6
     DEF AskStream, NoHeaders, Refused, Finished, Sources, result, ends
<1>7. CASE Accepted
  BY <1>4, <1>7 DEF Accepted, Sources, result, ends
<1>8. CASE EndOfStream \/ ReadCancelled
  BY <1>2, <1>4, <1>8 DEF EndOfStream, ReadCancelled, Closing, Finished, Sources, ends
<1>9. CASE Assess
  <2>1. acc.sent \in FromStream
    BY DEF SourceInv, Streamed, Accumulators, FromStream
  <2>2. CASE pc' = "send" /\ UNCHANGED channel
    BY <1>4, <1>9, <2>2 DEF Assess, Sources, ends
  <2>3. CASE pc' = "decide" /\ UNCHANGED channel
    BY <1>4, <1>9, <2>3 DEF Assess, Sources, ends
  <2>4. CASE ~Broken /\ pc' = "decide" /\ channel' = acc.sent
    BY <1>4, <1>9, <2>1, <2>4 DEF Assess, Broken, Sources, ends
  <2> QED
    BY <1>9, <2>2, <2>3, <2>4 DEF Assess, Request
<1>10. CASE Replied
  BY <1>3, <1>4, <1>10 DEF Replied, Sources, ends
<1>11. CASE Attempt \/ Failed \/ Backoff \/ \E e \in Errors : Rejected(e)
  <2>1. /\ pc \in {"send", "wait", "backoff"} /\ UNCHANGED <<blocks, channel, taken>>
        /\ pc' \in {"send", "wait", "backoff", "decide", "done"}
    <3>1. CASE Attempt
      BY <3>1 DEF Attempt, GivesUp, ends
    <3>2. CASE Failed
      BY <3>2 DEF Failed, GivesUp, Again, ends
    <3>3. CASE Backoff
      BY <3>3 DEF Backoff, GivesUp, ends
    <3>4. CASE \E e \in Errors : Rejected(e)
      BY <3>4 DEF Rejected, GivesUp, Again, ends
    <3> QED
      BY <1>11, <3>1, <3>2, <3>3, <3>4
  <2> QED
    BY <1>4, <2>1 DEF Sources
<1>12. CASE Decide
  <2>1. Acts \in FromStream \cup FromReply
    BY ActsTyped
  <2>2. CASE pc' = "send" /\ blocks = << >> /\ UNCHANGED ends
    BY <1>4, <1>12, <2>2 DEF Decide, Sources, result, ends
  <2>3. CASE pc' = "done" /\ (taken' = taken \/ taken' = Acts)
    BY <1>4, <1>12, <2>1, <2>3 DEF Decide, Sources, result
  <2> QED
    BY <1>12, <2>2, <2>3 DEF Decide, Request
<1>13. CASE \/ Serve \/ Hangup \/ ReadChunk \/ DogFires \/ DogWrites \/ DogCloses \/ Cancel
            \/ Expire \/ Done \/ UNCHANGED vars
  BY <1>5, <1>13 DEF Serve, Hangup, ReadChunk, DogFires, DogWrites, DogCloses, Cancel, Expire,
     Done, vars, result, ends
<1> QED
  BY <1>6, <1>7, <1>8, <1>9, <1>10, <1>11, <1>12, <1>13 DEF Next

LEMMA SourceInvariant == Spec => []SourceInv
<1>1. SourceInv /\ [Next]_vars => SourceInv'
  BY StreamedKeeps, SourcesKeep DEF SourceInv
<1> QED
  BY <1>1, SourceInit, PTL DEF Spec

\* What the engine acts on comes from one answer, for any answers of any length:
\* never the beginning of a stream and the reply to the question asked again.
\* (the blocks Client.SendMessageStream holds back, and Decide's use of them)
THEOREM ActsOnOneAnswer == Spec => []OneSource
<1>1. SourceInv => OneSource
  <2> SUFFICES ASSUME SourceInv PROVE OneSource
    OBVIOUS
  <2>1. ASSUME NEW src, taken \in Seq(BlocksFrom(src))
        PROVE  \A i \in DOMAIN taken : taken[i].src = src
    <3>1. \A i \in DOMAIN taken : taken[i] \in BlocksFrom(src)
      BY <2>1
    <3> QED
      BY <3>1 DEF BlocksFrom
  <2>2. PICK src : taken \in Seq(BlocksFrom(src))
    BY DEF SourceInv, Sources, FromStream, FromReply
  <2> QED
    BY <2>1, <2>2 DEF OneSource
<1> QED
  BY <1>1, SourceInvariant, PTL
-----------------------------------------------------------------------------
(* The channel and the result.                                             *)

\* The chunks x that were read and those to come, in the pipe p and still on the
\* wire w, are what is said of the answer; f tells what the accumulator, now a,
\* went through.
Splits(all, x, p, w) == x \o (p \o w) = all
Reads(k, ans, p, w, a) ==
    \E x \in Seq(ChunksOf(k)) :
        Splits(Wire(k, ans), x, p, w) /\ \E f : Run(k, x, f) /\ a = f[Len(x)]

\* A response that has failed: its error will be read before the end.
Failing(k, p) ==
    /\ p # << >> /\ p[Len(p)].is = "failed"
    /\ \A i \in 1..Len(p) - 1 : p[i] \in Quiet(k)

Sound ==
    /\ Reads(kind, answer, pipe, wire, acc)
    /\ acc.ended => pipe = << >> /\ wire = << >>
Doomed == wire = << >> /\ ~acc.ended /\ Failing(kind, pipe)

Agreed ==
    /\ pc \in {"ask", "headers"} => acc = NewAccumulator /\ pipe = << >>
    /\ pc = "read" /\ err = "" => Sound \/ Doomed
    /\ pc = "assess" /\ err = "" /\ acc.ended /\ Usual(kind, answer) =>
           blocks = Assembled(kind, acc) /\ Complete(kind, acc)
    /\ AsAssembled

LEMMA HeadMoves ==
    ASSUME NEW S, NEW s \in Seq(S), NEW t \in Seq(S), t # << >>
    PROVE  Append(s, Head(t)) \o Tail(t) = s \o t
<1> DEFINE u == Append(s, Head(t)) \o Tail(t)
<1>1. Head(t) \in S /\ Tail(t) \in Seq(S) /\ Len(Tail(t)) = Len(t) - 1
      /\ Len(t) \in Nat \ {0} /\ Len(s) \in Nat
  BY HeadTailProperties, EmptySeq
<1>2. Append(s, Head(t)) \in Seq(S) /\ Len(Append(s, Head(t))) = Len(s) + 1
      /\ Append(s, Head(t))[Len(s) + 1] = Head(t)
      /\ \A i \in 1..Len(s) : Append(s, Head(t))[i] = s[i]
  BY <1>1, AppendProperties
<1>3. u \in Seq(S) /\ Len(u) = Len(s) + Len(t) /\ s \o t \in Seq(S) /\ Len(s \o t) = Len(s) + Len(t)
  BY <1>1, <1>2
<1>4. ASSUME NEW i \in 1..(Len(s) + Len(t)) PROVE u[i] = (s \o t)[i]
  <2>1. CASE i \in 1..Len(s)
    BY <1>1, <1>2, <2>1
  <2>2. CASE i = Len(s) + 1
    <3>1. u[i] = Head(t) /\ (s \o t)[i] = t[1]
      BY <1>1, <1>2, <2>2
    <3> QED
      BY <3>1
  <2>3. CASE i > Len(s) + 1
    <3> DEFINE j == i - Len(s) - 1
    <3>1. j \in 1..Len(Tail(t)) /\ u[i] = Tail(t)[j]
      BY <1>1, <1>2, <2>3
    <3>2. Tail(t)[j] = t[j+1] /\ (s \o t)[i] = t[i - Len(s)] /\ j + 1 = i - Len(s)
      BY <1>1, <2>3, <3>1
    <3> QED
      BY <3>1, <3>2
  <2> QED
    BY <1>1, <2>1, <2>2, <2>3
<1> HIDE DEF u
<1>5. u = s \o t
  BY <1>3, <1>4, SeqEqual
<1> QED
  BY <1>5 DEF u

\* A chunk more.
LEMMA RunsOn ==
    ASSUME NEW k, NEW n \in Nat, NEW x, Len(x) = n, NEW y, Len(y) = n + 1, NEW f, Run(k, x, f),
           \A i \in 1..n : y[i] = x[i], NEW a, a = Process(k, f[n], y[n+1])
    PROVE  \E g : Run(k, y, g) /\ g[Len(y)] = a
<1> DEFINE g == [i \in 0..(n+1) |-> IF i = n + 1 THEN a ELSE f[i]]
<1>1. g[0] = f[0] /\ g[n+1] = a /\ \A i \in 0..n : g[i] = f[i]
  OBVIOUS
<1> HIDE DEF g
<1>2. ASSUME NEW i \in 1..(n+1) PROVE g[i] = Process(k, g[i-1], y[i])
  <2>1. i - 1 \in 0..n
    OBVIOUS
  <2>2. CASE i = n + 1
    <3>1. i - 1 = n
      BY <2>2
    <3> QED
      BY <1>1, <2>1, <2>2, <3>1
  <2>3. CASE i # n + 1
    <3>1. i \in 1..n /\ i \in 0..n
      BY <2>3
    <3> QED
      BY <1>1, <2>1, <3>1 DEF Run
  <2> QED
    BY <2>2, <2>3
<1>3. Run(k, y, g) /\ g[Len(y)] = a
  BY <1>1, <1>2 DEF Run
<1> QED
  BY <1>3

\* The second sequence is the first with one more element.
Extends(x, y) ==
    Len(x) \in Nat /\ Len(y) = Len(x) + 1 /\ \A i \in 1..Len(x) : y[i] = x[i]

\* The fold over a sequence with one more chunk is one step further.
LEMMA RunExtends ==
    ASSUME NEW k, NEW x, NEW y, Extends(x, y), NEW f, Run(k, x, f)
    PROVE  \E g : Run(k, y, g) /\ g[Len(y)] = Process(k, f[Len(x)], y[Len(y)])
<1> DEFINE n == Len(x)
           a == Process(k, f[n], y[n+1])
<1>1. n \in Nat /\ Len(y) = n + 1 /\ \A i \in 1..n : y[i] = x[i]
  BY DEF Extends
<1>2. a = Process(k, f[Len(x)], y[Len(y)])
  BY <1>1
<1> HIDE DEF a
<1>3. a = Process(k, f[n], y[n+1])
  BY DEF a
<1>4. Len(x) = n
  OBVIOUS
<1> HIDE DEF n
<1>5. \E g : Run(k, y, g) /\ g[Len(y)] = a
  BY <1>1, <1>3, <1>4, RunsOn
<1> QED
  BY <1>2, <1>5, Zenon

\* What is left of the wire is quiet up to its last chunk.
LEMMA RestIsQuiet ==
    ASSUME NEW k \in Kinds, NEW ans \in Seq(Types), NEW x \in Seq(ChunksOf(k)),
           NEW p \in Seq(ChunksOf(k)), NEW w \in Seq(ChunksOf(k)), Splits(Wire(k, ans), x, p, w),
           NEW i \in 1..Len(p), w # << >> \/ i # Len(p)
    PROVE  p[i] \in Quiet(k)
<1> DEFINE all == Wire(k, ans)
           C == ChunksOf(k)
<1>1. all \in Seq(C)
  BY WireTyped
<1>2. ASSUME NEW j \in 1..Len(all), j # Len(all) PROVE all[j] \in Quiet(k)
  BY <1>2, LastEnds
<1>3. x \o (p \o w) = all
  BY DEF Splits
<1> HIDE DEF all, C
<1>4. p \o w \in Seq(ChunksOf(k)) /\ Len(p \o w) = Len(p) + Len(w) /\ (p \o w)[i] = p[i]
      /\ Len(x) \in Nat /\ Len(p) \in Nat /\ Len(w) \in Nat /\ (w # << >> => Len(w) # 0)
      /\ i \in 1..Len(p \o w)
  BY EmptySeq
<1>5. Len(all) = Len(x) + Len(p \o w) /\ all[Len(x) + i] = (p \o w)[i]
  BY <1>3, <1>4
<1>6. Len(x) + i \in 1..Len(all) /\ Len(x) + i # Len(all)
  BY <1>4, <1>5
<1> QED
  BY <1>2, <1>4, <1>5, <1>6

\* The wire stays whole when the cut moves.
LEMMA Regroups ==
    ASSUME NEW C, NEW x \in Seq(C), NEW p \in Seq(C), NEW y \in Seq(C), NEW r \in Seq(C),
           NEW w \in Seq(C), NEW all
    PROVE  y \o r = x \o p /\ Splits(all, x, p, w) => Splits(all, y, r, w)
<1>1. (y \o r) \o w = y \o (r \o w)
  OBVIOUS
<1>2. (x \o p) \o w = x \o (p \o w)
  OBVIOUS
<1> QED
  BY <1>1, <1>2 DEF Splits

LEMMA OneMoves ==
    ASSUME NEW C, NEW x \in Seq(C), NEW p \in Seq(C), NEW w \in Seq(C), NEW all,
           Splits(all, x, p, w), p # << >>
    PROVE  Append(x, Head(p)) \in Seq(C) /\ Splits(all, Append(x, Head(p)), Tail(p), w)
<1> DEFINE y == Append(x, Head(p))
           r == Tail(p)
<1>1. Head(p) \in C /\ r \in Seq(C)
  BY HeadTailProperties
<1>2. y \in Seq(C)
  BY <1>1
<1>3. y \o r = x \o p
  BY HeadMoves, Zenon
<1> HIDE DEF y, r
<1>4. Splits(all, y, r, w)
  BY <1>1, <1>2, <1>3, Regroups
<1> QED
  BY <1>2, <1>4 DEF y, r

\* A chunk is served: it is in the pipe.
LEMMA OneServed ==
    ASSUME NEW k, NEW ans, NEW p \in Seq(ChunksOf(k)), NEW w \in Seq(ChunksOf(k)), w # << >>,
           NEW a, Reads(k, ans, p, w, a)
    PROVE  Reads(k, ans, Append(p, Head(w)), Tail(w), a)
<1>1. Append(p, Head(w)) \o Tail(w) = p \o w
  BY HeadMoves, Zenon
<1> QED
  BY <1>1, Zenon DEF Reads, Splits

\* A chunk is read; if it was not the last, the answer has not ended with it.
LEMMA OneRead ==
    ASSUME NEW k \in Kinds, NEW ans \in Seq(Types), NEW p \in Seq(ChunksOf(k)),
           NEW w \in Seq(ChunksOf(k)), p # << >>, NEW a \in Accumulators, Reads(k, ans, p, w, a)
    PROVE  /\ Reads(k, ans, Tail(p), w, Process(k, a, Head(p)))
           /\ Tail(p) # << >> \/ w # << >> => Process(k, a, Head(p)).ended = a.ended
<1> DEFINE C == ChunksOf(k)
           all == Wire(k, ans)
           c == Head(p)
           rest == Tail(p)
           b == Process(k, a, c)
<1>0. PICK x \in Seq(C) : Splits(all, x, p, w) /\ \E f : Run(k, x, f) /\ a = f[Len(x)]
  BY Zenon DEF Reads
<1>1. PICK f : Splits(all, x, p, w) /\ Run(k, x, f) /\ a = f[Len(x)]
  BY <1>0, Zenon
<1> DEFINE n == Len(x)
           y == Append(x, c)
<1>2. /\ c \in C /\ c = p[1] /\ Len(p) \in Nat \ {0} /\ rest \in Seq(C) /\ Len(rest) = Len(p) - 1
  BY HeadTailProperties, EmptySeq
<1>3. n \in Nat /\ Len(y) = n + 1 /\ y[n+1] = c /\ \A i \in 1..n : y[i] = x[i]
  BY <1>2, AppendProperties
<1>4. y \in Seq(C) /\ Splits(all, y, rest, w)
  BY <1>1, OneMoves, Zenon
<1> HIDE DEF C, all, c, rest, n, y
<1>5. PICK g : Run(k, y, g) /\ g[Len(y)] = b
  <2>1. Extends(x, y)
    BY <1>3 DEF n, Extends
  <2>2. Run(k, x, f)
    BY <1>1, Zenon
  <2>3. \E g : Run(k, y, g) /\ g[Len(y)] = Process(k, f[Len(x)], y[Len(y)])
    BY <2>1, <2>2, RunExtends
  <2>4. y[Len(y)] = c
    BY <1>3
  <2>5. Process(k, f[Len(x)], y[Len(y)]) = b
    BY <1>1, <2>4, Zenon DEF b
  <2> QED
    BY <2>3, <2>5, Zenon
<1>6. ASSUME rest # << >> \/ w # << >> PROVE p[1] \in Quiet(k)
  <2>1. rest # << >> => Len(rest) \in Nat \ {0}
    BY <1>2, EmptySeq, Zenon
  <2>2. 1 \in 1..Len(p)
    BY <1>2
  <2>3. w # << >> \/ 1 # Len(p)
    BY <1>2, <1>6, <2>1
  <2>4. x \in Seq(ChunksOf(k)) /\ Splits(Wire(k, ans), x, p, w)
    BY <1>1 DEF C, all
  <2>5. \A i \in 1..Len(p) : w # << >> \/ i # Len(p) => p[i] \in Quiet(k)
    BY <2>4, RestIsQuiet, Zenon
  <2> QED
    BY <2>2, <2>3, <2>5, Zenon
<1>7. rest # << >> \/ w # << >> => b.ended = a.ended
  BY <1>2, <1>6, QuietKeeps
<1> HIDE DEF b
<1>8. Reads(k, ans, rest, w, b)
  BY <1>4, <1>5 DEF C, all, Reads
<1> QED
  BY <1>7, <1>8 DEF rest, c, b

\* The failure comes last, and stays there.
LEMMA FailureComes ==
    ASSUME NEW k, NEW T, NEW p \in Seq(T), NEW c \in T, c.is = "failed",
           \A i \in 1..Len(p) : p[i] \in Quiet(k)
    PROVE  Failing(k, Append(p, c))
<1> DEFINE q == Append(p, c)
<1>1. /\ Len(q) = Len(p) + 1 /\ q[Len(p) + 1] = c /\ Len(p) \in Nat /\ q \in Seq(T)
      /\ \A i \in 1..Len(p) : q[i] = p[i]
  BY AppendProperties
<1> HIDE DEF q
<1>2. Len(q) # 0
  BY <1>1
<1>3. q # << >> /\ q[Len(q)] = c /\ \A i \in 1..Len(q) - 1 : q[i] \in Quiet(k)
  BY <1>1, <1>2, EmptySeq
<1> QED
  BY <1>3 DEF Failing, q

LEMMA FailureStays ==
    ASSUME NEW k, NEW T, NEW p \in Seq(T), Failing(k, p), Head(p).is # "failed"
    PROVE  Head(p) \in Quiet(k) /\ Failing(k, Tail(p))
<1> DEFINE q == Tail(p)
<1>1. /\ p # << >> /\ p[Len(p)].is = "failed" /\ \A i \in 1..Len(p) - 1 : p[i] \in Quiet(k)
  BY DEF Failing
<1>2. /\ Head(p) = p[1] /\ Len(p) \in Nat \ {0} /\ q \in Seq(T) /\ Len(q) = Len(p) - 1
      /\ \A i \in 1..Len(q) : q[i] = p[i+1]
  BY <1>1, HeadTailProperties, EmptySeq
<1>3. Len(p) # 1
  BY <1>1, <1>2
<1> HIDE DEF q
<1>4. 1 \in 1..Len(p) - 1 /\ Len(q) \in 1..Len(q) /\ Len(q) + 1 = Len(p) /\ Len(q) # 0
  BY <1>2, <1>3
<1>5. ASSUME NEW i \in 1..Len(q) - 1 PROVE q[i] \in Quiet(k)
  <2>1. i \in 1..Len(q) /\ i + 1 \in 1..Len(p) - 1
    BY <1>2
  <2> QED
    BY <1>1, <1>2, <2>1
<1>6. Head(p) \in Quiet(k) /\ q # << >> /\ q[Len(q)].is = "failed"
  BY <1>1, <1>2, <1>4, EmptySeq
<1> QED
  BY <1>5, <1>6 DEF Failing, q

LEMMA AcceptedAgrees == ASSUME SourceInv, Agreed, Accepted PROVE Sound'
<1> DEFINE w == Wire(kind, answer)
           f == [i \in {0} |-> NewAccumulator]
           nil == << >>
<1>1. /\ pc = "headers" /\ wire' = w /\ UNCHANGED <<kind, answer, pipe, acc>>
      /\ pipe = << >> /\ acc = NewAccumulator
  BY DEF Accepted, Agreed
<1>2. w \in Seq(ChunksOf(kind)) /\ nil \in Seq(ChunksOf(kind)) /\ Len(nil) = 0
  BY WireTyped DEF SourceInv, Streamed
<1> HIDE DEF w
<1>3. Splits(w, nil, nil, w)
  BY <1>2 DEF Splits
<1> HIDE DEF nil
<1>4. Run(kind, nil, f) /\ f[Len(nil)] = NewAccumulator
  BY <1>2 DEF Run
<1> HIDE DEF f
<1>5. Reads(kind, answer, nil, w, NewAccumulator)
  BY <1>2, <1>3, <1>4 DEF Reads, w
<1>6. ~NewAccumulator.ended
  BY DEF NewAccumulator
<1> QED
  BY <1>1, <1>5, <1>6 DEF Sound, nil

LEMMA ServeAgrees ==
    ASSUME SourceInv, Agreed, Serve, err = "" PROVE Sound' \/ Doomed'
<1> DEFINE C == ChunksOf(kind)
<1>1. pc = "read" /\ wire # << >> /\ UNCHANGED <<kind, answer, acc>>
  BY DEF Serve
<1>2. Sound /\ ~acc.ended
  BY <1>1 DEF Agreed, Sound, Doomed
<1>3. Reads(kind, answer, pipe, wire, acc)
  BY <1>2 DEF Sound
<1>4. /\ kind \in Kinds /\ answer \in Seq(Types) /\ acc \in Accumulators
      /\ wire \in Seq(C) /\ pipe \in Seq(C)
  BY DEF SourceInv, Streamed
<1>5. CASE wire' = Tail(wire) /\ pipe' = Append(pipe, Head(wire))
  <2>1. Reads(kind, answer, Append(pipe, Head(wire)), Tail(wire), acc)
    BY <1>1, <1>3, <1>4, OneServed, Zenon
  <2>2. Reads(kind, answer, pipe, wire, acc)'
    BY <1>1, <1>5, <2>1, Zenon
  <2> QED
    BY <1>1, <1>2, <2>2 DEF Sound
<1>6. CASE kind = "responses" /\ wire' = << >> /\ pipe' = Append(pipe, Chunk("failed", "none", 0))
  <2> DEFINE c == Chunk("failed", "none", 0)
  <2>1. c.is = "failed" /\ c \in C
    BY <1>6 DEF Chunk, ChunksOf, Ends
  <2>2. PICK x \in Seq(C) : Splits(Wire(kind, answer), x, pipe, wire)
    BY <1>3, Zenon DEF Reads
  <2>3. ASSUME NEW i \in 1..Len(pipe) PROVE pipe[i] \in Quiet(kind)
    <3>1. wire # << >> \/ i # Len(pipe)
      BY <1>1
    <3> QED
      BY <1>4, <2>2, <3>1, RestIsQuiet, Zenon
  <2> HIDE DEF c
  <2>4. Failing(kind, Append(pipe, c))
    BY <1>4, <2>1, <2>3, FailureComes, Zenon
  <2>5. Failing(kind, pipe)'
    BY <1>1, <1>6, <2>4, Zenon DEF c
  <2> QED
    BY <1>1, <1>2, <1>6, <2>5 DEF Doomed
<1> QED
  BY <1>1, <1>5, <1>6 DEF Serve

LEMMA ReadAgrees ==
    ASSUME SourceInv, Agreed, ReadChunk, err' = "" PROVE Sound' \/ Doomed'
<1> DEFINE C == ChunksOf(kind)
           c == Head(pipe)
<1>1. /\ pc = "read" /\ pipe # << >> /\ pipe' = Tail(pipe) /\ acc' = Process(kind, acc, c)
      /\ UNCHANGED <<kind, answer, wire>>
      /\ err = "" /\ c.is # "failed"
  BY DEF ReadChunk
<1>2. /\ kind \in Kinds /\ answer \in Seq(Types) /\ acc \in Accumulators
      /\ wire \in Seq(C) /\ pipe \in Seq(C)
  BY DEF SourceInv, Streamed
<1>3. Sound \/ Doomed
  BY <1>1 DEF Agreed
<1>4. CASE Sound
  <2>1. Reads(kind, answer, pipe, wire, acc)
    BY <1>4 DEF Sound
  <2>2. /\ Reads(kind, answer, Tail(pipe), wire, Process(kind, acc, c))
        /\ Tail(pipe) # << >> \/ wire # << >> => Process(kind, acc, c).ended = acc.ended
    BY <1>1, <1>2, <2>1, OneRead, Zenon
  <2>3. Reads(kind, answer, pipe, wire, acc)'
    BY <1>1, <2>2, Zenon
  <2>4. acc'.ended => pipe' = << >> /\ wire' = << >>
    BY <1>1, <1>4, <2>2 DEF Sound
  <2> QED
    BY <2>3, <2>4 DEF Sound
<1>5. CASE Doomed
  <2>1. wire = << >> /\ ~acc.ended /\ Failing(kind, pipe)
    BY <1>5 DEF Doomed
  <2>2. c \in Quiet(kind) /\ Failing(kind, Tail(pipe))
    BY <1>1, <1>2, <2>1, FailureStays, Zenon
  <2>3. acc'.ended = acc.ended
    BY <1>1, <1>2, <2>2, QuietKeeps
  <2>4. Failing(kind, pipe)'
    BY <1>1, <2>2, Zenon
  <2> QED
    BY <1>1, <2>1, <2>3, <2>4 DEF Doomed
<1> QED
  BY <1>3, <1>4, <1>5

\* A stream that is over, without an error and with its last chunk, is complete.
LEMMA OverIsComplete ==
    ASSUME SourceInv, Agreed, pc = "read", err = "", acc.ended, Usual(kind, answer)
    PROVE  Complete(kind, acc)
<1>0. Sound
  BY DEF Agreed, Doomed
<1>1. PICK x \in Seq(ChunksOf(kind)) :
          Splits(Wire(kind, answer), x, pipe, wire) /\ \E f : Run(kind, x, f) /\ acc = f[Len(x)]
  BY <1>0, Zenon DEF Sound, Reads
<1>2. PICK f : Splits(Wire(kind, answer), x, pipe, wire) /\ Run(kind, x, f) /\ acc = f[Len(x)]
  BY <1>1, Zenon
<1>3. pipe = << >> /\ wire = << >>
  BY <1>0 DEF Sound
<1>4. Splits(Wire(kind, answer), x, << >>, << >>) /\ Run(kind, x, f) /\ acc = f[Len(x)]
  BY <1>2, <1>3
<1>5. kind \in Kinds /\ answer \in Seq(Types)
  BY DEF SourceInv, Streamed
<1>6. x = Wire(kind, answer)
  <2> DEFINE C == ChunksOf(kind)
             all == Wire(kind, answer)
  <2>1. x \in Seq(C) /\ x \o (<< >> \o << >>) = all
    BY <1>2, <1>4 DEF Splits
  <2> HIDE DEF C, all
  <2>2. << >> \in Seq(C)
    BY EmptySeq, Zenon
  <2>3. << >> \o << >> = << >>
    BY <2>2, ConcatEmptySeq, Zenon
  <2>4. x \o << >> = x /\ << >> \o << >> = << >>
    BY <2>1, <2>3, ConcatEmptySeq
  <2> QED
    BY <2>1, <2>4 DEF all
<1> QED
  BY <1>4, <1>5, <1>6, WireCompletes

LEMMA AgreedInit == Init => Agreed
  BY DEF Init, Agreed, AsAssembled

LEMMA AgreedKeeps == ASSUME SourceInv, Agreed, [Next]_vars PROVE Agreed'
<1>1. pc \notin {"decide", "done"} => channel = << >>
  BY DEF SourceInv, Sources
<1>2. CASE UNCHANGED <<kind, answer, pc, wire, pipe, acc, err, blocks, channel>>
  BY <1>2 DEF Agreed, Sound, Doomed, AsAssembled
<1>3. CASE Hangup \/ DogFires \/ DogCloses \/ Cancel \/ Expire \/ Done \/ UNCHANGED vars
  BY <1>2, <1>3 DEF Hangup, DogFires, DogCloses, Cancel, Expire, Done, vars, stream, result
<1>4. CASE DogWrites
  <2>1. UNCHANGED <<kind, answer, pc, wire, pipe, acc, blocks, channel>>
    BY <1>4 DEF DogWrites
  <2>2. CASE err' = err
    BY <1>2, <2>1, <2>2
  <2>3. CASE err' = "idle"
    BY <2>1, <2>3 DEF Agreed, AsAssembled
  <2> QED
    BY <1>4, <2>2, <2>3 DEF DogWrites
\* The ways into the stream and out of it without an answer.
<1>5. CASE AskStream
  BY <1>5 DEF AskStream, Agreed, AsAssembled, Finished, stream
<1>6. CASE Accepted
  <2>1. Sound'
    BY <1>6, AcceptedAgrees
  <2>2. pc' = "read"
    BY <1>6 DEF Accepted
  <2> QED
    BY <2>1, <2>2 DEF Agreed, AsAssembled
<1>7. CASE NoHeaders \/ \E e \in Errors : Refused(e)
  <2>1. pc' = "assess" /\ err' # ""
    BY <1>7 DEF NoHeaders, Refused, Finished
  <2> QED
    BY <2>1 DEF Agreed, AsAssembled
\* The stream.
<1>8. CASE Serve \/ ReadChunk
  <2>1. pc' = "read" /\ (Serve => err' = err)
    BY <1>8 DEF Serve, ReadChunk, result
  <2>2. err' = "" => Sound' \/ Doomed'
    BY <1>8, <2>1, ServeAgrees, ReadAgrees
  <2> QED
    BY <2>1, <2>2 DEF Agreed, AsAssembled
<1>9. CASE EndOfStream \/ ReadCancelled
  <2>1. /\ pc = "read" /\ pc' = "assess" /\ (err' = "" => err = "")
        /\ blocks' = Assembled(kind, acc) /\ UNCHANGED <<kind, answer, acc>>
    <3>1. ASSUME NEW scan, Closing(scan)
          PROVE  pc' = "assess" /\ (err' = "" => err = "") /\ blocks' = Assembled(kind, acc)
      BY <3>1 DEF Closing, Finished
    <3>2. pc = "read" /\ (\E scan : Closing(scan)) /\ UNCHANGED <<kind, answer, acc>>
      BY <1>9 DEF EndOfStream, ReadCancelled
    <3> QED
      BY <3>1, <3>2
  <2>2. err' = "" /\ acc'.ended /\ Usual(kind, answer) => Complete(kind, acc)
    BY <2>1, OverIsComplete
  <2> QED
    BY <2>1, <2>2 DEF Agreed, AsAssembled
\* The decision.
<1>10. CASE Assess
  <2>1. pc = "assess" /\ UNCHANGED <<kind, answer, err, blocks>>
    BY <1>10 DEF Assess
  <2>2. CASE pc' = "send"
    BY <2>2 DEF Agreed, AsAssembled
  <2>3. CASE pc' = "decide" /\ channel' = channel
    BY <1>1, <2>1, <2>3 DEF Agreed, AsAssembled
  <2>4. CASE pc' = "decide" /\ ~Broken /\ channel' = acc.sent
    <3>1. acc.ended
      BY <2>4 DEF Broken
    <3>2. err = "" /\ Usual(kind, answer) => blocks = Assembled(kind, acc) /\ Complete(kind, acc)
      BY <2>1, <3>1 DEF Agreed
    <3>3. AsAssembled'
      BY <2>1, <2>4, <3>2 DEF AsAssembled, Complete, Usual
    <3> QED
      BY <2>4, <3>3 DEF Agreed
  <2> QED
    BY <1>10, <2>2, <2>3, <2>4 DEF Assess, Request
\* Without a stream nothing is let through.
<1>11. CASE Attempt \/ Replied \/ Failed \/ Backoff \/ \E e \in Errors : Rejected(e)
  <2>1. pc \in {"send", "wait", "backoff"}
    BY <1>11 DEF Attempt, Replied, Failed, Backoff, Rejected
  <2>2. channel' = channel
    BY <1>11 DEF Attempt, Replied, Failed, Backoff, Rejected
  <2>3. pc' \in {"send", "wait", "backoff", "decide", "done"}
    BY <1>11 DEF Attempt, Replied, Failed, Backoff, Rejected, GivesUp, Again
  <2>4. channel' = << >>
    BY <1>1, <2>1, <2>2
  <2> QED
    BY <2>3, <2>4 DEF Agreed, AsAssembled
<1>12. CASE Decide
  <2>1. pc' \in {"send", "done"}
    BY <1>12 DEF Decide, Request
  <2> QED
    BY <2>1 DEF Agreed, AsAssembled
<1> QED
  BY <1>3, <1>4, <1>5, <1>6, <1>7, <1>8, <1>9, <1>10, <1>11, <1>12 DEF Next

\* What the channel carried block by block is what the result holds, for answers
\* of any length and whatever the pieces arrive between: each block whole, and
\* the two in the same order.
\* (processStreamChunk and its like against finalize and getBlocks)
THEOREM ChannelIsResult == Spec => []AsAssembled
<1>1. Agreed => AsAssembled
  BY DEF Agreed
<1>2. SourceInv /\ Agreed /\ [Next]_vars => Agreed'
  BY AgreedKeeps
<1> QED
  BY <1>1, <1>2, AgreedInit, SourceInvariant, PTL DEF Spec
=============================================================================
