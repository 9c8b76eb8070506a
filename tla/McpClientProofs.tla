-------------------------- MODULE McpClientProofs --------------------------
(***************************************************************************)
(* McpClient implements RemoteCalls, and its cached lists are fresh, for   *)
(* any servers, callers and bounds.                                        *)
(* The argument of the first: a request is outstanding at most once, and   *)
(* only while it was not executed (Posts); a line on its way back from a   *)
(* process belongs to the request whose ID it has (Lines), and that        *)
(* request was executed; a reply says whether its post was (Replies); no   *)
(* two goroutines wait for the same request (Apart).                       *)
(***************************************************************************)
EXTENDS McpClient, SequenceTheorems, TLAPS

Fields == {"pc", "op", "srv", "of", "id", "kept", "try", "with", "again", "auth", "reply",
           "page", "first", "gen", "left"}
Line == [id : Nat, of : Nat, version : Nat]

Shapes ==
    /\ DOMAIN call = Goroutines /\ \A c \in Goroutines : DOMAIN call[c] = Fields
    /\ runs \in Seq({0, 1})
    /\ out \in [Servers -> Seq(Line)] /\ version \in [Servers -> Nat]
    /\ DOMAIN slots = Stdio /\ DOMAIN stuck = Stdio /\ DOMAIN asked = Servers

\* What a goroutine may wait for, by its place.
Clear(r) ==
    /\ r.of = 0 /\ r.id = 0 /\ r.kept = 0 /\ r.reply.status = "none"
    /\ r.pc \notin {"wait", "broken", "remove", "posted"}
Piped(r) ==
    /\ r.pc \in {"wait", "broken"} /\ r.srv \in Stdio
    /\ r.of = r.id /\ r.of \in 1..made /\ r.kept = 0 /\ r.reply.status = "none"
Leaving(r) == r.pc = "remove" /\ r.of = 0 /\ r.kept = 0 /\ r.id \in 1..made
Posted(r) ==
    /\ r.pc = "posted" /\ r.srv \in Http /\ r.id = 0
    /\ r.of \in 1..made /\ r.kept \in 0..made /\ r.kept # r.of
Calls ==
    \A c \in Goroutines : Clear(call[c]) \/ Piped(call[c]) \/ Leaving(call[c]) \/ Posted(call[c])

Apart ==
    \A c \in Goroutines : \A d \in Goroutines \ {c} :
        /\ call[c].of # 0 => call[c].of # call[d].of /\ call[c].of # call[d].kept
        /\ call[c].kept # 0 => call[c].kept # call[d].kept
        /\ call[c].id # 0 => call[c].id # call[d].id

Registered ==
    /\ \A c \in Goroutines : call[c].pc = "wait" => call[c].id \in DOMAIN slots[call[c].srv]
    /\ \A s \in Stdio : stuck[s] # << >> => stuck[s][1].id \in DOMAIN slots[s]

\* A line that brings the result of the request it names.
Genuine(l) == l.of = l.id /\ l.of \in 1..made /\ runs[l.of] = 1
Lines ==
    \A s \in Stdio :
        /\ \A k \in 1..Len(out[s]) : out[s][k].id # 0 => Genuine(out[s][k])
        /\ stuck[s] # << >> => Genuine(stuck[s][1])
        /\ \A i \in DOMAIN slots[s] :
               slots[s][i] # << >> => Genuine(slots[s][i][1]) /\ slots[s][i][1].id = i

\* What the servers have still to answer.
Owned(s, q) ==
    \A c \in Goroutines :
        /\ call[c].kept # q.of
        /\ call[c].of = q.of =>
               /\ call[c].reply.status = "none"
               /\ s \in Http => c = q.by /\ call[c].try = q.try /\ call[c].pc = "posted"
Owed(s, q) ==
    /\ q.of \in 1..made /\ runs[q.of] = 0
    /\ s \in Stdio => q.id = q.of
    /\ s \in Http => q.by \in Goroutines
    /\ Owned(s, q)
Once ==
    \A s, t \in Servers : \A q \in asked[s], p \in asked[t] : p.of = q.of => p = q /\ t = s
Posts == Once /\ \A s \in Servers : \A q \in asked[s] : Owed(s, q)

Replies ==
    \A c \in Goroutines :
        call[c].pc = "posted" =>
            /\ call[c].reply.status = "ok" => runs[call[c].of] = 1
            /\ call[c].reply.status \in {"gone", "denied"} => runs[call[c].of] = 0
            /\ call[c].kept # 0 => runs[call[c].kept] = 0

Inv == Shapes /\ Calls /\ Apart /\ Registered /\ Lines /\ Posts /\ Replies

-----------------------------------------------------------------------------
(* The records of the calls.                                               *)

LEMMA IdleIsClear == DOMAIN Idle = Fields /\ Clear(Idle)
  BY DEF Idle, NoReply, Fields, Clear

LEMMA BareIsClear ==
    ASSUME NEW r, DOMAIN r = Fields
    PROVE  /\ DOMAIN Bare(r) = Fields
           /\ Bare(r).of = 0 /\ Bare(r).id = 0 /\ Bare(r).kept = 0
           /\ Bare(r).reply.status = "none"
  BY DEF Bare, NoReply, Fields

\* A goroutine that has nothing to wait for.
Frees(c) ==
    /\ DOMAIN call' = Goroutines /\ \A d \in Goroutines \ {c} : call'[d] = call[d]
    /\ DOMAIN call'[c] = Fields /\ Clear(call'[c])

LEMMA BecomesThis ==
    ASSUME DOMAIN call = Goroutines, NEW c \in Goroutines, NEW r, Becomes(c, r)
    PROVE  /\ DOMAIN call' = Goroutines /\ call'[c] = r
           /\ \A d \in Goroutines \ {c} : call'[d] = call[d]
  BY DEF Becomes

LEMMA BecomesClear ==
    ASSUME DOMAIN call = Goroutines, NEW c \in Goroutines, NEW r, Becomes(c, r),
           DOMAIN r = Fields, Clear(r)
    PROVE  Frees(c)
  BY BecomesThis DEF Frees

LEMMA VisitIsClear ==
    ASSUME NEW r, NEW s, DOMAIN r = Fields
    PROVE  DOMAIN Visit(r, s) = Fields /\ Clear(Visit(r, s))
<1> DEFINE b == Bare(r)
<1>1. /\ DOMAIN b = Fields
      /\ b.of = 0 /\ b.id = 0 /\ b.kept = 0 /\ b.reply.status = "none"
  BY BareIsClear
<1>2. Visit(r, s) = [b EXCEPT !.pc = "lock", !.srv = s, !.left = @ \ {s}, !.page = 0]
  BY DEF Visit
<1> HIDE DEF b
<1> QED
  BY <1>1, <1>2 DEF Clear, Fields

LEMMA DoneFrees ==
    ASSUME Shapes, NEW c \in Goroutines, Done(c)
    PROVE  Frees(c)
<1>1. DOMAIN call = Goroutines /\ DOMAIN call[c] = Fields
  BY DEF Shapes
<1>2. CASE \E s \in call[c].left : Becomes(c, Visit(call[c], s))
  BY <1>1, <1>2, VisitIsClear, BecomesClear
<1>3. CASE Becomes(c, Idle)
  BY <1>1, <1>3, IdleIsClear, BecomesClear
<1> QED
  BY <1>2, <1>3 DEF Done

LEMMA FailedFrees ==
    ASSUME Shapes, NEW c \in Goroutines, Failed(c)
    PROVE  Frees(c)
<1>1. CASE Becomes(c, Idle)
  BY <1>1, IdleIsClear, BecomesClear DEF Shapes
<1>2. CASE Done(c)
  BY <1>2, DoneFrees
<1> QED
  BY <1>1, <1>2 DEF Failed

LEMMA AnsweredFrees ==
    ASSUME Shapes, NEW c \in Goroutines, Answered(c)
    PROVE  Frees(c)
<1> DEFINE r == call[c]
           first == IF r.page = 0 THEN r.reply.version ELSE r.first
           b == Bare(r)
<1>1. DOMAIN call = Goroutines /\ DOMAIN r = Fields
  BY DEF Shapes
<1>2. /\ DOMAIN b = Fields
      /\ b.of = 0 /\ b.id = 0 /\ b.kept = 0 /\ b.reply.status = "none"
  BY <1>1, BareIsClear
<1>3. \/ Becomes(c, [b EXCEPT !.pc = "ask", !.page = @ + 1, !.first = first])
      \/ Becomes(c, [b EXCEPT !.pc = "store", !.first = first])
      \/ Done(c)
  BY DEF Answered
<1> HIDE DEF b, first
<1>4. CASE Becomes(c, [b EXCEPT !.pc = "ask", !.page = @ + 1, !.first = first])
  <2> DEFINE x == [b EXCEPT !.pc = "ask", !.page = @ + 1, !.first = first]
  <2>1. DOMAIN x = Fields /\ Clear(x)
    BY <1>2 DEF Clear, Fields
  <2> QED
    BY <1>1, <1>4, <2>1, BecomesClear
<1>5. CASE Becomes(c, [b EXCEPT !.pc = "store", !.first = first])
  <2> DEFINE x == [b EXCEPT !.pc = "store", !.first = first]
  <2>1. DOMAIN x = Fields /\ Clear(x)
    BY <1>2 DEF Clear, Fields
  <2> QED
    BY <1>1, <1>5, <2>1, BecomesClear
<1> QED
  BY <1>3, <1>4, <1>5, DoneFrees

-----------------------------------------------------------------------------
(* The initial state, and the steps after which a goroutine waits for      *)
(* nothing.                                                                *)

LEMMA Initial == Init => Inv
<1> SUFFICES ASSUME Init PROVE Inv
  OBVIOUS
<1>1. Shapes
  BY IdleIsClear DEF Init, Shapes
<1>2. \A c \in Goroutines : call[c] = Idle /\ Clear(call[c])
  BY IdleIsClear DEF Init
<1>3. Calls /\ Apart /\ Registered /\ Replies
  <2>1. \A s \in Stdio : stuck[s] = << >>
    BY DEF Init
  <2> QED
    BY <1>2, <2>1 DEF Calls, Apart, Registered, Replies, Clear
<1>4. Lines /\ Posts
  BY DEF Init, Lines, Posts, Once, Servers
<1> QED
  BY <1>1, <1>3, <1>4 DEF Inv

\* The calls but one stay as they are.
Others(c) == DOMAIN call' = Goroutines /\ \A d \in Goroutines \ {c} : call'[d] = call[d]

\* The goroutine waits for nothing any more, and no channel but its own goes.
Settles(c) ==
    /\ Others(c) /\ DOMAIN call'[c] = Fields
    /\ Clear(call[c])' \/ (Leaving(call[c])' /\ call'[c].id = call[c].id)
Trims(n) ==
    /\ DOMAIN slots' = Stdio
    /\ \A t \in Stdio :
        /\ \A i \in DOMAIN slots[t] : i # n \/ stuck[t] # << >> => i \in DOMAIN slots'[t]
        /\ \A i \in DOMAIN slots'[t] :
               i \in DOMAIN slots[t] /\ (slots'[t][i] = << >> \/ slots'[t][i] = slots[t][i])

LEMMA SettlesKeeps ==
    ASSUME Inv, NEW c \in Goroutines, Settles(c), Trims(call[c].id),
           UNCHANGED <<runs, stuck, asked, out, version>>
    PROVE  Inv'
<1>0. Shapes /\ Calls /\ Apart /\ Registered /\ Lines /\ Posts /\ Replies
  BY DEF Inv
<1>2. made' = made /\ made \in Nat
  BY <1>0 DEF Shapes, made
<1>3. /\ \A d \in Goroutines \ {c} : call'[d] = call[d]
      /\ call'[c].of = 0 /\ call'[c].kept = 0 /\ call'[c].pc \notin {"wait", "posted"}
      /\ call'[c].id \in {0, call[c].id}
  BY DEF Settles, Others, Clear, Leaving
<1>4. Shapes'
  BY <1>0 DEF Shapes, Settles, Others, Trims
<1>5. Calls'
  <2>1. ASSUME NEW d \in Goroutines \ {c}
        PROVE  (Clear(call[d]) \/ Piped(call[d]) \/ Leaving(call[d]) \/ Posted(call[d]))'
    <3>1. Clear(call[d]) \/ Piped(call[d]) \/ Leaving(call[d]) \/ Posted(call[d])
      BY <1>0 DEF Calls
    <3> QED
      BY <1>2, <1>3, <3>1 DEF Clear, Piped, Leaving, Posted
  <2>2. Clear(call[c])' \/ Leaving(call[c])'
    BY DEF Settles
  <2> QED
    BY <2>1, <2>2 DEF Calls
<1>6. Apart' /\ Replies'
  BY <1>0, <1>3 DEF Apart, Replies
<1>7. Registered'
  <2>1. \A d \in Goroutines : call[d].pc = "wait" => call[d].srv \in Stdio /\ call[d].id # 0
    BY <1>0, <1>2 DEF Calls, Clear, Piped, Leaving, Posted
  <2>2. \A d \in Goroutines \ {c} : call[d].id # 0 => call[d].id # call[c].id
    BY <1>0 DEF Apart
  <2> QED
    BY <1>0, <1>3, <2>1, <2>2 DEF Registered, Trims
<1>8. Lines'
  <2>1. \A l : Genuine(l) => Genuine(l)'
    BY <1>2 DEF Genuine
  <2> QED
    BY <1>0, <2>1 DEF Lines, Trims
<1>9. Posts'
  <2> SUFFICES ASSUME NEW s \in Servers, NEW q \in asked[s],
                      Owned(s, q), q.of \in 1..made
               PROVE  Owned(s, q)'
    BY <1>0, <1>2 DEF Posts, Once, Owed
  <2>1. q.of # 0
    BY <1>2
  <2> QED
    BY <2>1, <1>3 DEF Owned
<1> QED
  BY <1>4, <1>5, <1>6, <1>7, <1>8, <1>9 DEF Inv

rest == <<runs, slots, stuck, asked, out, version>>

LEMMA FreesKeeps ==
    ASSUME Inv, NEW c \in Goroutines, Frees(c), UNCHANGED rest
    PROVE  Inv'
<1>1. UNCHANGED <<runs, slots, stuck, asked, out, version>>
  BY DEF rest
<1>2. DOMAIN slots = Stdio
  BY DEF Inv, Shapes
<1>3. Trims(call[c].id)
  BY <1>1, <1>2 DEF Trims
<1>4. Clear(call[c])'
  BY DEF Frees, Clear
<1>5. Settles(c)
  BY <1>4 DEF Frees, Settles, Others
<1> QED
  BY <1>1, <1>3, <1>5, SettlesKeeps

-----------------------------------------------------------------------------
(* A request is made.                                                      *)

Outstanding(n) == \E s \in Servers : \E q \in asked[s] : q.of = n

\* The goroutine waits for request n, which it posts in the way of its
\* server; it may keep the request it waited for.
WaitsFor(c, n) ==
    /\ Others(c) /\ DOMAIN call'[c] = Fields
    /\ call'[c].of = n /\ call'[c].id \in {0, n} /\ call'[c].reply.status = "none"
    /\ call[c].kept = 0 /\ call'[c].kept = call[c].of
    /\ call'[c].kept # 0 => runs[call[c].of] = 0 /\ ~Outstanding(call[c].of)
    /\ Piped(call[c])' \/ Posted(call[c])'
Writes(c, s, n, Q) ==
    /\ DOMAIN asked' = Servers
    /\ \A t \in Servers : \A q \in asked'[t] : q \in asked[t] \/ (t = s /\ q \in Q)
    /\ \A p, q \in Q : p = q
    /\ \A q \in Q : /\ q.of = n
                    /\ s \in Stdio => q.id = n
                    /\ s \in Http => q.by = c /\ q.try = call'[c].try /\ Posted(call[c])'
Registers(c, s, n) ==
    \/ UNCHANGED slots /\ call'[c].pc # "wait"
    \/ Channel(s, n, << >>) /\ call'[c].srv = s /\ call'[c].id = n /\ s \in Stdio

LEMMA ChannelIs ==
    ASSUME DOMAIN slots = Stdio, NEW s \in Stdio, NEW n, NEW ch, Channel(s, n, ch)
    PROVE  /\ DOMAIN slots' = Stdio
           /\ \A t \in Stdio : t # s => slots'[t] = slots[t]
           /\ DOMAIN slots'[s] = DOMAIN slots[s] \cup {n} /\ slots'[s][n] = ch
           /\ \A i \in DOMAIN slots[s] : i # n => slots'[s][i] = slots[s][i]
  BY DEF Channel

LEMMA RegistersIs ==
    ASSUME DOMAIN slots = Stdio, NEW c, NEW s, NEW n, Registers(c, s, n)
    PROVE  /\ DOMAIN slots' = Stdio
           /\ \A t \in Stdio : DOMAIN slots[t] \subseteq DOMAIN slots'[t]
           /\ \A t \in Stdio : \A i \in DOMAIN slots'[t] :
                  slots'[t][i] = << >> \/ (i \in DOMAIN slots[t] /\ slots'[t][i] = slots[t][i])
           /\ call'[c].pc = "wait" => call'[c].id \in DOMAIN slots'[call'[c].srv]
<1>1. CASE UNCHANGED slots /\ call'[c].pc # "wait"
  BY <1>1
<1>2. CASE Channel(s, n, << >>) /\ call'[c].srv = s /\ call'[c].id = n /\ s \in Stdio
  <2>1. /\ DOMAIN slots' = Stdio
        /\ \A t \in Stdio : t # s => slots'[t] = slots[t]
        /\ DOMAIN slots'[s] = DOMAIN slots[s] \cup {n} /\ slots'[s][n] = << >>
        /\ \A i \in DOMAIN slots[s] : i # n => slots'[s][i] = slots[s][i]
    BY <1>2, ChannelIs
  <2> QED
    BY <1>2, <2>1
<1> QED
  BY <1>1, <1>2 DEF Registers

LEMMA RunsGrow ==
    ASSUME Shapes, runs' = Append(runs, 0)
    PROVE  /\ made \in Nat /\ made' = made + 1 /\ runs' \in Seq({0, 1})
           /\ runs'[made + 1] = 0 /\ \A n \in 1..made : runs'[n] = runs[n]
  BY DEF Shapes, made

LEMMA GenuineStays ==
    ASSUME made \in Nat, made' \in Nat, made <= made', \A n \in 1..made : runs'[n] = runs[n],
           NEW l, Genuine(l)
    PROVE  Genuine(l)'
  BY DEF Genuine

LEMMA NumbersAre ==
    ASSUME Calls, made \in Nat, NEW d \in Goroutines
    PROVE  call[d].of \in 0..made /\ call[d].kept \in 0..made /\ call[d].id \in 0..made
  BY DEF Calls, Clear, Piped, Leaving, Posted

LEMMA MakesKeeps ==
    ASSUME Inv, NEW c \in Goroutines, NEW s \in Servers, NEW Q,
           runs' = Append(runs, 0), UNCHANGED <<out, stuck, version>>,
           WaitsFor(c, made + 1), Writes(c, s, made + 1, Q), Registers(c, s, made + 1)
    PROVE  Inv'
<1>0. Shapes /\ Calls /\ Apart /\ Registered /\ Lines /\ Posts /\ Replies
  BY DEF Inv
<1>1. /\ made \in Nat /\ made' = made + 1 /\ runs' \in Seq({0, 1})
      /\ runs'[made + 1] = 0 /\ \A n \in 1..made : runs'[n] = runs[n]
  BY <1>0, RunsGrow
<1>2. Shapes'
  <2>1. DOMAIN slots' = Stdio
    BY <1>0 DEF Shapes, Registers, Channel
  <2> QED
    BY <1>0, <1>1, <2>1 DEF Shapes, WaitsFor, Others, Writes
<1>3. \A d \in Goroutines :
          call[d].of \in 0..made /\ call[d].kept \in 0..made /\ call[d].id \in 0..made
  BY <1>0, <1>1, NumbersAre
<1>4. Calls'
  <2>1. ASSUME NEW d \in Goroutines \ {c}
        PROVE  (Clear(call[d]) \/ Piped(call[d]) \/ Leaving(call[d]) \/ Posted(call[d]))'
    <3>1. call'[d] = call[d]
      BY DEF WaitsFor, Others
    <3>2. Clear(call[d]) \/ Piped(call[d]) \/ Leaving(call[d]) \/ Posted(call[d])
      BY <1>0 DEF Calls
    <3> QED
      BY <1>1, <3>1, <3>2 DEF Clear, Piped, Leaving, Posted
  <2>2. Piped(call[c])' \/ Posted(call[c])'
    BY DEF WaitsFor
  <2> QED
    BY <2>1, <2>2 DEF Calls
<1>5. Apart'
  <2>1. /\ call'[c].of = made + 1 /\ call'[c].id \in {0, made + 1}
        /\ call[c].kept = 0 /\ call'[c].kept = call[c].of
        /\ \A d \in Goroutines \ {c} : call'[d] = call[d]
    BY DEF WaitsFor, Others
  <2>2. \A d \in Goroutines :
            /\ call[d].of # made + 1 /\ call[d].kept # made + 1 /\ call[d].id # made + 1
    BY <1>1, <1>3
  <2>3. made + 1 # 0
    BY <1>1
  <2>4. ASSUME NEW d \in Goroutines, NEW e \in Goroutines \ {d}
        PROVE  /\ call'[d].of # 0 => call'[d].of # call'[e].of /\ call'[d].of # call'[e].kept
               /\ call'[d].kept # 0 => call'[d].kept # call'[e].kept
               /\ call'[d].id # 0 => call'[d].id # call'[e].id
    <3>1. /\ call[d].of # 0 => call[d].of # call[e].of /\ call[d].of # call[e].kept
          /\ call[e].of # 0 => call[e].of # call[d].of /\ call[e].of # call[d].kept
          /\ call[d].kept # 0 => call[d].kept # call[e].kept
          /\ call[d].id # 0 => call[d].id # call[e].id
      BY <1>0 DEF Apart
    <3>2. CASE d = c
      BY <2>1, <2>2, <2>3, <3>1, <3>2
    <3>3. CASE e = c
      BY <2>1, <2>2, <2>3, <3>1, <3>3
    <3>4. CASE d # c /\ e # c
      BY <2>1, <3>1, <3>4
    <3> QED
      BY <3>2, <3>3, <3>4
  <2> QED
    BY <2>4 DEF Apart
<1>a. /\ \A t \in Stdio : DOMAIN slots[t] \subseteq DOMAIN slots'[t]
      /\ \A t \in Stdio : \A i \in DOMAIN slots'[t] :
             slots'[t][i] = << >> \/ (i \in DOMAIN slots[t] /\ slots'[t][i] = slots[t][i])
      /\ call'[c].pc = "wait" => call'[c].id \in DOMAIN slots'[call'[c].srv]
  BY <1>0, RegistersIs DEF Shapes
<1>b. /\ \A d \in Goroutines \ {c} : call'[d] = call[d]
      /\ call'[c].reply.status = "none"
      /\ call'[c].kept # 0 => call'[c].kept = call[c].of /\ runs[call[c].of] = 0
  BY DEF WaitsFor, Others
<1>6. Registered'
  <2>1. \A d \in Goroutines : call[d].pc = "wait" => call[d].srv \in Stdio
    BY <1>0 DEF Calls, Clear, Piped, Leaving, Posted
  <2> QED
    BY <1>0, <1>a, <1>b, <2>1 DEF Registered
<1>7. Lines'
  <2>1. made' \in Nat /\ made <= made'
    BY <1>1
  <2>2. \A l : Genuine(l) => Genuine(l)'
    BY <1>1, <2>1, GenuineStays
  <2> QED
    BY <1>0, <1>a, <2>2 DEF Lines
<1>8. Replies'
  <2>1. ASSUME NEW d \in Goroutines \ {c}, call[d].pc = "posted"
        PROVE  /\ runs'[call[d].of] = runs[call[d].of]
               /\ call[d].kept # 0 => runs'[call[d].kept] = runs[call[d].kept]
    <3>1. call[d].of \in 1..made /\ call[d].kept \in 0..made
      BY <1>0, <2>1 DEF Calls, Clear, Piped, Leaving, Posted
    <3>2. call[d].kept # 0 => call[d].kept \in 1..made
      BY <1>1, <3>1
    <3> QED
      BY <1>1, <3>1, <3>2
  <2>2. call'[c].kept # 0 => runs'[call'[c].kept] = 0
    <3>1. call[c].of # 0 => call[c].of \in 1..made
      BY <1>1, <1>3
    <3> QED
      BY <1>1, <1>b, <3>1
  <2>3. ASSUME NEW d \in Goroutines, call'[d].pc = "posted"
        PROVE  /\ call'[d].reply.status = "ok" => runs'[call'[d].of] = 1
               /\ call'[d].reply.status \in {"gone", "denied"} => runs'[call'[d].of] = 0
               /\ call'[d].kept # 0 => runs'[call'[d].kept] = 0
    <3>1. CASE d = c
      BY <1>b, <2>2, <3>1
    <3>2. CASE d # c
      <4>1. call'[d] = call[d] /\ call[d].pc = "posted"
        BY <1>b, <2>3, <3>2
      <4>2. /\ call[d].reply.status = "ok" => runs[call[d].of] = 1
            /\ call[d].reply.status \in {"gone", "denied"} => runs[call[d].of] = 0
            /\ call[d].kept # 0 => runs[call[d].kept] = 0
        BY <1>0, <4>1 DEF Replies
      <4> QED
        BY <2>1, <3>2, <4>1, <4>2
    <3> QED
      BY <3>1, <3>2
  <2> QED
    BY <2>3 DEF Replies
<1>9. Posts'
  <2>1. \A t \in Servers : \A q \in asked'[t] : q \in asked[t] \/ (t = s /\ q \in Q)
    BY DEF Writes
  <2>2. ASSUME NEW t \in Servers, NEW q \in asked[t]
        PROVE  Owed(t, q)' /\ q.of # made + 1
    <3>1. /\ q.of \in 1..made /\ runs[q.of] = 0 /\ Owned(t, q)
          /\ t \in Stdio => q.id = q.of
          /\ t \in Http => q.by \in Goroutines
      BY <1>0, <2>2 DEF Posts, Owed
    <3>2. call'[c].kept # q.of
      BY <3>1, <1>1, <2>2 DEF WaitsFor, Outstanding
    <3>3. Owned(t, q)'
      BY <3>1, <3>2, <1>1 DEF Owned, WaitsFor, Others
    <3>4. q.of \in 1..made' /\ q.of # made + 1
      BY <1>1, <3>1
    <3> QED
      BY <3>1, <3>3, <3>4, <1>1 DEF Owed
  <2>3. ASSUME NEW q \in Q
        PROVE  Owed(s, q)' /\ q.of = made + 1
    <3>1. Owned(s, q)'
      <4>1. \A d \in Goroutines \ {c} : call'[d].of # made + 1 /\ call'[d].kept # made + 1
        BY <1>1, <1>3 DEF WaitsFor, Others
      <4>2. call'[c].kept # made + 1
        BY <1>1, <1>3 DEF WaitsFor
      <4> QED
        BY <2>3, <4>1, <4>2 DEF Owned, WaitsFor, Writes, Posted
    <3>2. /\ q.of = made + 1
          /\ s \in Stdio => q.id = q.of
          /\ s \in Http => q.by = c
      BY <2>3 DEF Writes
    <3>3. made + 1 \in 1..made'
      BY <1>1
    <3>4. q.of \in 1..made' /\ runs'[q.of] = 0
      BY <1>1, <3>2, <3>3
    <3> QED
      BY <3>1, <3>2, <3>4 DEF Owed
  <2>4. \A p, q \in Q : p = q
    BY DEF Writes
  <2>5. Once'
    BY <1>0, <2>1, <2>2, <2>3, <2>4 DEF Posts, Once
  <2> QED
    BY <2>1, <2>2, <2>3, <2>5 DEF Posts
<1> QED
  BY <1>2, <1>4, <1>5, <1>6, <1>7, <1>8, <1>9 DEF Inv

-----------------------------------------------------------------------------
(* What RemoteCalls sees of a step.                                        *)

Implements == [Requests!Next]_(Requests!vars)

LEMMA Stutters ==
    ASSUME UNCHANGED <<runs, answered>>, DOMAIN call' = DOMAIN call, DOMAIN call = Goroutines,
           \A c \in Goroutines : call'[c].of = call[c].of /\ call'[c].kept = call[c].kept
    PROVE  Implements
<1>1. Waiting' = Waiting
  BY DEF Waiting
<1> QED
  BY <1>1 DEF Implements, Requests!vars

LEMMA Fails ==
    ASSUME UNCHANGED <<runs, answered>>, NEW c \in Goroutines, Others(c),
           call'[c].of \in {0, call[c].of}, call'[c].kept \in {0, call[c].kept}
    PROVE  Implements
<1> DEFINE S == (Waiting \ {0}) \ (Waiting' \ {0})
<1>1. Waiting' \ {0} = (Waiting \ {0}) \ S
  BY DEF Waiting, Others
<1>2. CASE S = {}
  BY <1>1, <1>2 DEF Implements, Requests!vars
<1>3. CASE S # {}
  <2>1. S \in SUBSET (Waiting \ {0})
    OBVIOUS
  <2> HIDE DEF S
  <2>2. Requests!Fail
    BY <1>1, <1>3, <2>1 DEF Requests!Fail
  <2> QED
    BY <2>2 DEF Implements, Requests!Next
<1> QED
  BY <1>2, <1>3

LEMMA Makes ==
    ASSUME UNCHANGED answered, runs' = Append(runs, 0), NEW c \in Goroutines, Others(c),
           call'[c].of = made + 1, call[c].kept = 0, call'[c].kept = call[c].of, made \in Nat
    PROVE  Implements
<1>1. Waiting' \ {0} = (Waiting \ {0}) \cup {made + 1}
  BY DEF Waiting, Others
<1>2. Requests!Make
  BY <1>1 DEF Requests!Make, made
<1> QED
  BY <1>2 DEF Implements, Requests!Next

\* One that is kept takes the place of the one that is returned.
LEMMA Returns ==
    ASSUME UNCHANGED runs, NEW c \in Goroutines, Others(c), Apart,
           NEW n \in 1..made, call[c].of = n, call[c].kept # n, runs[n] = 1,
           answered' = answered \cup {n},
           {call'[c].of, call'[c].kept} \ {0} = {call[c].kept} \ {0}
    PROVE  Implements
<1>1. n # 0 /\ n \in DOMAIN runs
  BY DEF made
<1>2. \A d \in Goroutines \ {c} : call[d].of # n /\ call[d].kept # n
  BY <1>1 DEF Apart
<1>3. Waiting' \ {0} = (Waiting \ {0}) \ {n}
  BY <1>1, <1>2 DEF Waiting, Others
<1>4. n \in Waiting \ {0}
  BY <1>1 DEF Waiting
<1>5. Requests!Return(n)
  BY <1>3, <1>4 DEF Requests!Return
<1> QED
  BY <1>1, <1>5 DEF Implements, Requests!Next

LEMMA Runs ==
    ASSUME UNCHANGED answered, DOMAIN call' = DOMAIN call, DOMAIN call = Goroutines,
           \A c \in Goroutines : call'[c].of = call[c].of /\ call'[c].kept = call[c].kept,
           NEW n \in 1..made, runs[n] = 0, runs' = [runs EXCEPT ![n] = 1]
    PROVE  Implements
<1>1. Waiting' = Waiting
  BY DEF Waiting
<1>2. Requests!Run(n)
  BY <1>1 DEF Requests!Run
<1>3. n \in DOMAIN runs
  BY DEF made
<1> QED
  BY <1>2, <1>3 DEF Implements, Requests!Next

-----------------------------------------------------------------------------
(* Steps of a goroutine that waits for nothing.                            *)

LEMMA FreesStep ==
    ASSUME Inv, NEW c \in Goroutines, Frees(c), UNCHANGED rest, UNCHANGED answered
    PROVE  Inv' /\ Implements
<1>1. Others(c) /\ call'[c].of = 0 /\ call'[c].kept = 0
  BY DEF Frees, Others, Clear
<1>2. UNCHANGED <<runs, answered>>
  BY DEF rest
<1> QED
  BY <1>1, <1>2, Fails, FreesKeeps

LEMMA AtIsClear ==
    ASSUME Inv, NEW c \in Goroutines,
           call[c].pc \notin {"wait", "broken", "remove", "posted"}
    PROVE  Clear(call[c]) /\ DOMAIN call[c] = Fields
  BY DEF Inv, Shapes, Calls, Piped, Leaving, Posted

LEMMA LockStep ==
    ASSUME Inv, NEW c \in Goroutines, Lock(c)
    PROVE  Inv' /\ Implements
<1>1. UNCHANGED rest /\ UNCHANGED answered /\ call[c].pc = "lock"
  BY DEF Lock, rest, pipe, lists, server, At
<1>2. Shapes
  BY DEF Inv
<1>3. CASE Becomes(c, [call[c] EXCEPT !.pc = "ask"])
  <2> DEFINE x == [call[c] EXCEPT !.pc = "ask"]
  <2>1. Clear(call[c]) /\ DOMAIN call[c] = Fields
    BY <1>1, AtIsClear
  <2>2. Clear(x) /\ DOMAIN x = Fields
    BY <2>1 DEF Clear, Fields
  <2> QED
    BY <1>1, <1>2, <1>3, <2>2, BecomesClear, FreesStep DEF Shapes
<1>4. CASE Done(c)
  BY <1>1, <1>2, <1>4, DoneFrees, FreesStep
<1> QED
  BY <1>3, <1>4 DEF Lock

LEMMA StoreStep ==
    ASSUME Inv, NEW c \in Goroutines, Store(c)
    PROVE  Inv' /\ Implements
<1>1. UNCHANGED rest /\ UNCHANGED answered /\ Becomes(c, Idle)
  BY DEF Store, StoreWith, rest, pipe, server
<1> QED
  BY <1>1, IdleIsClear, BecomesClear, FreesStep DEF Inv, Shapes

LEMMA BeginStep ==
    ASSUME Inv, NEW c \in Goroutines, NEW r, Begin(c, r), DOMAIN r = Fields, Clear(r)
    PROVE  Inv' /\ Implements
<1>1. UNCHANGED rest /\ UNCHANGED answered /\ Becomes(c, r)
  BY DEF Begin, rest, pipe, server
<1> QED
  BY <1>1, BecomesClear, FreesStep DEF Inv, Shapes

LEMMA AllStep ==
    ASSUME Inv, NEW c \in Goroutines, All(c)
    PROVE  Inv' /\ Implements
<1> DEFINE x == [Idle EXCEPT !.op = "templates", !.left = Servers]
<1>1. PICK s \in Servers : Begin(c, Visit(x, s))
  BY DEF All
<1>2. DOMAIN x = Fields
  BY DEF Idle, Fields
<1> HIDE DEF x
<1> QED
  BY <1>1, <1>2, VisitIsClear, BeginStep

LEMMA OperationStep ==
    ASSUME Inv, NEW c \in Goroutines, Operation(c)
    PROVE  Inv' /\ Implements
<1>1. ASSUME NEW s \in Servers, Single(c, s)
      PROVE  Inv' /\ Implements
  <2> DEFINE x == [Idle EXCEPT !.pc = "lock", !.op = "call", !.srv = s]
  <2>1. DOMAIN x = Fields /\ Clear(x)
    BY DEF Idle, Fields, Clear, NoReply
  <2>2. Begin(c, x)
    BY <1>1 DEF Single
  <2> HIDE DEF x
  <2> QED
    BY <2>1, <2>2, BeginStep
<1>2. ASSUME NEW s \in Servers, GetResources(c, s)
      PROVE  Inv' /\ Implements
  <2> DEFINE x == [Idle EXCEPT !.pc = "lock", !.op = "resources", !.srv = s, !.gen = gen]
  <2>1. DOMAIN x = Fields /\ Clear(x)
    BY DEF Idle, Fields, Clear, NoReply
  <2>2. Begin(c, x)
    BY <1>2 DEF GetResources
  <2> HIDE DEF x
  <2> QED
    BY <2>1, <2>2, BeginStep
<1>3. \/ All(c)
      \/ \E s \in Servers : Single(c, s) \/ GetResources(c, s)
  BY DEF Operation, CallTool, ReadResource, GetPrompt, SubscribeResource,
         UnsubscribeResource, ListTasks, CreateTask, GetTask, CancelTask,
         GetPrompts, GetResourceTemplates
<1> QED
  BY <1>1, <1>2, <1>3, AllStep

LEMMA ConnectStep ==
    ASSUME Inv, NEW s \in Servers, Connect(s)
    PROVE  Inv' /\ Implements
<1>1. UNCHANGED rest /\ UNCHANGED answered /\ Becomes(Main, Handshake(s)) /\ Main \in Goroutines
  BY DEF Connect, rest, pipe, server, Goroutines
<1>2. DOMAIN Handshake(s) = Fields /\ Clear(Handshake(s))
  BY DEF Handshake, Idle, Fields, Clear, NoReply
<1> QED
  BY <1>1, <1>2, BecomesClear, FreesStep DEF Inv, Shapes

LEMMA GetToolsStep ==
    ASSUME Inv, GetTools
    PROVE  Inv' /\ Implements
<1> DEFINE x == [Idle EXCEPT !.op = "tools", !.left = Servers]
<1>1. UNCHANGED rest /\ UNCHANGED answered /\ Main \in Goroutines
  BY DEF GetTools, rest, pipe, server, Goroutines
<1>2. PICK s \in Servers : Becomes(Main, Visit(x, s))
  BY DEF GetTools
<1>3. DOMAIN x = Fields
  BY DEF Idle, Fields
<1> HIDE DEF x
<1> QED
  BY <1>1, <1>2, <1>3, VisitIsClear, BecomesClear, FreesStep DEF Inv, Shapes

-----------------------------------------------------------------------------
(* A request over pipes.                                                   *)

LEMMA PipedAt ==
    ASSUME Inv, NEW c \in Goroutines, call[c].pc \in {"wait", "broken"}
    PROVE  /\ Piped(call[c]) /\ DOMAIN call = Goroutines /\ DOMAIN call[c] = Fields
           /\ made \in Nat /\ DOMAIN slots = Stdio
           /\ call[c].pc = "wait" => call[c].id \in DOMAIN slots[call[c].srv]
<1>1. made \in Nat
  BY DEF Inv, Shapes, made
<1> QED
  BY <1>1 DEF Inv, Shapes, Calls, Clear, Leaving, Posted, Registered

LEMMA SendRequestStdioStep ==
    ASSUME Inv, NEW c \in Goroutines, SendRequestStdio(c)
    PROVE  Inv' /\ Implements
<1> DEFINE s == call[c].srv
           n == made + 1
           x == [call[c] EXCEPT !.pc = "wait", !.of = n, !.id = n]
           y == [call[c] EXCEPT !.pc = "broken", !.of = n, !.id = n]
<1>1. /\ Clear(call[c]) /\ DOMAIN call[c] = Fields
      /\ DOMAIN call = Goroutines /\ made \in Nat
  <2>1. call[c].pc = "ask"
    BY DEF SendRequestStdio, At
  <2>2. Clear(call[c]) /\ DOMAIN call[c] = Fields
    BY <2>1, AtIsClear
  <2> QED
    BY <2>2 DEF Inv, Shapes, made
<1>2. /\ s \in Stdio /\ s \in Servers /\ s \notin Http /\ Channel(s, n, << >>)
      /\ runs' = Append(runs, 0) /\ UNCHANGED <<out, stuck, version, answered>>
  BY McpAssumption DEF SendRequestStdio, NextJSONID, Servers
<1>3. \/ /\ asked' = [asked EXCEPT ![s] = @ \cup {[of |-> n, id |-> n]}] /\ Becomes(c, x)
      \/ UNCHANGED asked /\ Becomes(c, y)
  BY DEF SendRequestStdio, NextJSONID
<1>4. made' = made + 1
  BY <1>2, RunsGrow DEF Inv
<1>5. /\ Others(c) /\ DOMAIN call'[c] = Fields /\ call'[c].of = n /\ call'[c].id = n
      /\ call'[c].kept = 0 /\ call'[c].reply.status = "none" /\ call'[c].srv = s
      /\ call'[c].pc \in {"wait", "broken"}
  <2>1. DOMAIN call' = Goroutines /\ \A d \in Goroutines \ {c} : call'[d] = call[d]
    BY <1>1, <1>3, BecomesThis
  <2>2. call'[c] = x \/ call'[c] = y
    BY <1>1, <1>3, BecomesThis
  <2> QED
    BY <1>1, <2>1, <2>2 DEF Others, Fields, Clear
<1>6. Piped(call[c])'
  BY <1>1, <1>2, <1>4, <1>5 DEF Piped
<1>7. WaitsFor(c, n)
  BY <1>1, <1>5, <1>6 DEF WaitsFor, Clear
<1>8. Registers(c, s, n)
  BY <1>2, <1>5 DEF Registers
<1>9. Inv'
  <2>1. CASE asked' = [asked EXCEPT ![s] = @ \cup {[of |-> n, id |-> n]}]
    <3>1. Writes(c, s, n, {[of |-> n, id |-> n]})
      BY <1>2, <2>1 DEF Writes, Inv, Shapes
    <3> QED
      BY <1>2, <1>7, <1>8, <3>1, MakesKeeps
  <2>2. CASE UNCHANGED asked
    <3>1. Writes(c, s, n, {})
      BY <2>2 DEF Writes, Inv, Shapes
    <3> QED
      BY <1>2, <1>7, <1>8, <3>1, MakesKeeps
  <2> QED
    BY <1>3, <2>1, <2>2
<1>10. Implements
  BY <1>1, <1>2, <1>5, Makes DEF Clear
<1> QED
  BY <1>9, <1>10

LEMMA ReceiveStep ==
    ASSUME Inv, NEW c \in Goroutines, Receive(c)
    PROVE  Inv' /\ Implements
<1> DEFINE r == call[c]
           l == slots[r.srv][r.id][1]
           reply == [NoReply EXCEPT !.status = "ok", !.version = l.version]
           x == [r EXCEPT !.pc = "remove", !.of = 0, !.reply = reply]
<1>1. /\ Piped(r) /\ DOMAIN call = Goroutines /\ DOMAIN r = Fields /\ r.pc = "wait"
      /\ made \in Nat /\ DOMAIN slots = Stdio /\ r.id \in DOMAIN slots[r.srv]
  BY PipedAt DEF Receive, At
<1>2. /\ Becomes(c, x) /\ Channel(r.srv, r.id, << >>)
      /\ answered' = answered \cup {l.of} /\ slots[r.srv][r.id] # << >>
      /\ UNCHANGED <<runs, stuck, asked, out, version>>
  BY <1>1 DEF Receive, Waits, At, server
<1>3. l.of = r.id /\ runs[r.id] = 1
  <2>1. r.srv \in Stdio /\ r.id \in DOMAIN slots[r.srv] /\ slots[r.srv][r.id] # << >>
    BY <1>1, <1>2 DEF Piped
  <2>2. Genuine(l) /\ l.id = r.id
    BY <2>1 DEF Inv, Lines
  <2> QED
    BY <2>2 DEF Genuine
<1> HIDE DEF reply
<1>4. /\ Others(c) /\ DOMAIN call'[c] = Fields /\ call'[c].pc = "remove"
      /\ call'[c].of = 0 /\ call'[c].kept = 0 /\ call'[c].id = r.id
  <2>1. /\ DOMAIN call' = Goroutines /\ \A d \in Goroutines \ {c} : call'[d] = call[d]
        /\ call'[c] = x
    BY <1>1, <1>2, BecomesThis
  <2> QED
    BY <1>1, <2>1 DEF Others, Fields, Piped
<1>5. made' = made
  BY <1>2 DEF made
<1>6. Settles(c)
  BY <1>1, <1>4, <1>5 DEF Settles, Leaving, Piped
<1>7. Trims(r.id)
  <2>1. r.srv \in Stdio
    BY <1>1 DEF Piped
  <2> QED
    BY <1>1, <1>2, <2>1, ChannelIs DEF Trims
<1>8. Inv'
  BY <1>2, <1>6, <1>7, SettlesKeeps
<1>9. Implements
  <2>1. r.of \in 1..made /\ r.of = r.id /\ r.kept = 0
    BY <1>1 DEF Piped
  <2>2. {call'[c].of, call'[c].kept} \ {0} = {call[c].kept} \ {0} /\ r.kept # r.of
    BY <1>1, <1>4, <2>1
  <2> QED
    BY <1>2, <1>3, <1>4, <2>1, <2>2, Returns DEF Inv
<1> QED
  BY <1>8, <1>9

LEMMA GiveUpStep ==
    ASSUME Inv, NEW c \in Goroutines, NEW place \in {"wait", "broken"}, GiveUp(c, place)
    PROVE  Inv' /\ Implements
<1> DEFINE r == call[c]
           x == [r EXCEPT !.pc = "remove", !.of = 0]
<1>1. /\ Piped(r) /\ DOMAIN call = Goroutines /\ DOMAIN r = Fields
      /\ made \in Nat /\ DOMAIN slots = Stdio
  BY PipedAt DEF GiveUp, At
<1>2. Becomes(c, x) /\ UNCHANGED <<runs, slots, stuck, asked, out, version, answered>>
  BY DEF GiveUp, pipe, server
<1>3. /\ Others(c) /\ DOMAIN call'[c] = Fields /\ call'[c].pc = "remove"
      /\ call'[c].of = 0 /\ call'[c].kept = 0 /\ call'[c].id = r.id
  <2>1. /\ DOMAIN call' = Goroutines /\ \A d \in Goroutines \ {c} : call'[d] = call[d]
        /\ call'[c] = x
    BY <1>1, <1>2, BecomesThis
  <2> QED
    BY <1>1, <2>1 DEF Others, Fields, Piped
<1>4. made' = made
  BY <1>2 DEF made
<1>5. Settles(c)
  BY <1>1, <1>3, <1>4 DEF Settles, Leaving, Piped
<1>6. Trims(r.id)
  BY <1>1, <1>2 DEF Trims
<1> QED
  BY <1>2, <1>3, <1>5, <1>6, SettlesKeeps, Fails

LEMMA RemoveStep ==
    ASSUME Inv, NEW c \in Goroutines, Remove(c)
    PROVE  Inv' /\ Implements
<1> DEFINE r == call[c]
<1>1. /\ Leaving(r) /\ DOMAIN slots = Stdio /\ Shapes
  BY DEF Remove, At, Inv, Shapes, Calls, Clear, Piped, Posted
<1>2. /\ slots' = [slots EXCEPT ![r.srv] = [i \in DOMAIN @ \ {r.id} |-> @[i]]]
      /\ UNCHANGED <<runs, stuck, asked, out, version, answered>> /\ stuck[r.srv] = << >>
  BY DEF Remove, server
<1>3. Frees(c)
  BY <1>1, AnsweredFrees, FailedFrees DEF Remove
<1>4. Others(c) /\ call'[c].of = 0 /\ call'[c].kept = 0
  BY <1>3 DEF Frees, Others, Clear
<1>5. Settles(c)
  BY <1>3, <1>4 DEF Settles, Frees, Clear
<1>6. Trims(r.id)
  BY <1>1, <1>2 DEF Trims
<1> QED
  BY <1>2, <1>4, <1>5, <1>6, SettlesKeeps, Fails

-----------------------------------------------------------------------------
(* A request over HTTP.                                                    *)

LEMMA PostedAt ==
    ASSUME Inv, NEW c \in Goroutines, call[c].pc = "posted"
    PROVE  /\ Posted(call[c]) /\ DOMAIN call = Goroutines /\ DOMAIN call[c] = Fields
           /\ made \in Nat /\ DOMAIN slots = Stdio /\ DOMAIN asked = Servers
<1>1. made \in Nat
  BY DEF Inv, Shapes, made
<1> QED
  BY <1>1 DEF Inv, Shapes, Calls, Clear, Leaving, Piped

Adds(s, q) ==
    /\ DOMAIN asked' = Servers
    /\ \A t \in Servers : \A p \in asked'[t] : p \in asked[t] \/ (t = s /\ p = q)

LEMMA PostIs ==
    ASSUME DOMAIN call = Goroutines, DOMAIN asked = Servers, NEW c \in Goroutines,
           NEW r, NEW opens, Post(c, r, opens)
    PROVE  /\ Others(c) /\ call'[c] = r /\ UNCHANGED <<out, version>>
           /\ \E q : q.of = r.of /\ q.by = c /\ q.try = r.try /\ Adds(r.srv, q)
<1> DEFINE q == [of |-> r.of, by |-> c, try |-> r.try, with |-> r.with, opens |-> opens]
<1>1. Others(c) /\ call'[c] = r /\ UNCHANGED <<out, version>>
  BY BecomesThis DEF Post, Others
<1>2. asked' = [asked EXCEPT ![r.srv] = @ \cup {q}]
  BY DEF Post
<1>3. q.of = r.of /\ q.by = c /\ q.try = r.try
  OBVIOUS
<1> HIDE DEF q
<1>4. Adds(r.srv, q)
  BY <1>2 DEF Adds
<1> QED
  BY <1>1, <1>3, <1>4

LEMMA SendRequestStep ==
    ASSUME Inv, NEW c \in Goroutines, SendRequest(c)
    PROVE  Inv' /\ Implements
<1> DEFINE s == call[c].srv
           n == made + 1
           x == [call[c] EXCEPT !.pc = "posted", !.of = n, !.try = 1, !.with = session[s]]
<1>1. Clear(call[c]) /\ DOMAIN call[c] = Fields
  <2>1. call[c].pc = "ask"
    BY DEF SendRequest, At
  <2> QED
    BY <2>1, AtIsClear
<1>2. DOMAIN call = Goroutines /\ DOMAIN asked = Servers /\ made \in Nat
  BY DEF Inv, Shapes, made
<1>3. /\ s \in Http /\ s \in Servers /\ s \notin Stdio
      /\ runs' = Append(runs, 0) /\ UNCHANGED <<slots, stuck, answered>>
      /\ \E opens : Post(c, x, opens)
  BY McpAssumption DEF SendRequest, Servers, pipe
<1>4. /\ x.of = n /\ x.id = 0 /\ x.kept = 0 /\ x.reply.status = "none" /\ x.srv = s
      /\ x.pc = "posted" /\ DOMAIN x = Fields
  BY <1>1 DEF Clear, Fields
<1> HIDE DEF x
<1>5. /\ Others(c) /\ call'[c] = x /\ UNCHANGED <<out, version>>
      /\ \E q : q.of = n /\ q.by = c /\ q.try = x.try /\ Adds(s, q)
  BY <1>2, <1>3, <1>4, PostIs
<1>6. made' = made + 1
  BY <1>3, RunsGrow DEF Inv
<1>7. n \in 1..made'
  BY <1>2, <1>6
<1>8. Posted(call[c])'
  BY <1>2, <1>3, <1>4, <1>5, <1>6, <1>7 DEF Posted
<1>9. WaitsFor(c, n)
  BY <1>1, <1>4, <1>5, <1>8 DEF WaitsFor, Clear
<1>10. Registers(c, s, n)
  BY <1>3, <1>4, <1>5 DEF Registers
<1>11. PICK q : q.of = n /\ q.by = c /\ q.try = x.try /\ Adds(s, q)
  BY <1>5
<1>12. Writes(c, s, n, {q})
  BY <1>3, <1>5, <1>8, <1>11 DEF Writes, Adds
<1> QED
  BY <1>1, <1>2, <1>3, <1>4, <1>5, <1>9, <1>10, <1>12, MakesKeeps, Makes DEF Clear

\* A request is posted again: the one that was refused, or the one that was
\* kept while the session was opened.
Again(c) ==
    \/ /\ call[c].reply.status \in {"gone", "denied"}
       /\ call'[c].of = call[c].of /\ call'[c].kept = call[c].kept
    \/ /\ call[c].kept # 0
       /\ call'[c].of = call[c].kept /\ call'[c].kept = 0

LEMMA AgainIsNew ==
    ASSUME Inv, NEW c \in Goroutines, call[c].pc = "posted", Again(c)
    PROVE  /\ call'[c].of \in 1..made /\ runs[call'[c].of] = 0
           /\ call'[c].kept # call'[c].of
           /\ call'[c].kept # 0 => runs[call'[c].kept] = 0
           /\ \A s \in Servers : \A q \in asked[s] :
                  q.of # call'[c].of /\ q.of # call'[c].kept
<1>1. Posted(call[c]) /\ made \in Nat
  BY PostedAt
<1>2. call[c].of \in 1..made /\ call[c].of # 0 /\ call[c].kept # call[c].of
  BY <1>1 DEF Posted
<1>3. call[c].kept # 0 => call[c].kept \in 1..made /\ runs[call[c].kept] = 0
  BY <1>1 DEF Posted, Inv, Replies
<1>4. call[c].reply.status \in {"gone", "denied"} => runs[call[c].of] = 0
  BY DEF Inv, Replies
<1>5. ASSUME NEW s \in Servers, NEW q \in asked[s]
      PROVE  /\ call[c].kept # q.of /\ q.of # 0
             /\ call[c].of = q.of => call[c].reply.status = "none"
  <2>1. Owned(s, q) /\ q.of \in 1..made
    BY DEF Inv, Posts, Owed
  <2> QED
    BY <1>1, <2>1 DEF Owned
<1> QED
  BY <1>2, <1>3, <1>4, <1>5 DEF Again

LEMMA AgainKeeps ==
    ASSUME Inv, NEW c \in Goroutines, NEW s \in Http, NEW q, Adds(s, q), Others(c), Again(c),
           q.of = call'[c].of, q.by = c, q.try = call'[c].try,
           DOMAIN call'[c] = Fields, call[c].pc = "posted", Posted(call[c])',
           call'[c].reply.status = "none", UNCHANGED <<runs, slots, stuck, out, version>>
    PROVE  Inv'
<1>0. Shapes /\ Calls /\ Apart /\ Registered /\ Lines /\ Posts /\ Replies
  BY DEF Inv
<1> DEFINE n == call'[c].of
<1>1. /\ n \in 1..made /\ runs[n] = 0 /\ call'[c].kept # n
      /\ call'[c].kept # 0 => runs[call'[c].kept] = 0
      /\ \A t \in Servers : \A p \in asked[t] : p.of # n /\ p.of # call'[c].kept
  BY AgainIsNew
<1>2. made' = made /\ made \in Nat /\ n # 0
  BY <1>0, <1>1 DEF Shapes, made
<1>3. /\ \A d \in Goroutines \ {c} : call'[d] = call[d]
      /\ call'[c].pc = "posted" /\ call'[c].id = 0
  BY DEF Others, Posted
<1>4. Shapes'
  BY <1>0 DEF Shapes, Others, Adds
<1>5. Calls'
  <2>1. ASSUME NEW d \in Goroutines \ {c}
        PROVE  (Clear(call[d]) \/ Piped(call[d]) \/ Leaving(call[d]) \/ Posted(call[d]))'
    <3>1. Clear(call[d]) \/ Piped(call[d]) \/ Leaving(call[d]) \/ Posted(call[d])
      BY <1>0 DEF Calls
    <3> QED
      BY <1>2, <1>3, <3>1 DEF Clear, Piped, Leaving, Posted
  <2> QED
    BY <2>1 DEF Calls
<1>6. Apart'
  <2>1. Posted(call[c])
    BY PostedAt
  <2>2. call[c].of # 0
    BY <1>2, <2>1 DEF Posted
  <2> QED
    BY <1>0, <1>2, <1>3, <2>2 DEF Apart, Again
<1>7. Registered' /\ Replies'
  BY <1>0, <1>1, <1>3 DEF Registered, Replies
<1>8. Lines'
  <2>1. \A l : Genuine(l) => Genuine(l)'
    BY <1>2 DEF Genuine
  <2> QED
    BY <1>0, <2>1 DEF Lines
<1>9. Posts'
  <2>1. ASSUME NEW t \in Servers, NEW p \in asked[t]
        PROVE  Owed(t, p)'
    <3>1. Owed(t, p)
      BY <1>0, <2>1 DEF Posts
    <3>2. p.of # n /\ p.of # call'[c].kept
      BY <1>1, <2>1
    <3>3. Owned(t, p)'
      BY <1>3, <3>1, <3>2 DEF Owed, Owned
    <3> QED
      BY <1>2, <3>1, <3>3 DEF Owed
  <2>2. Owed(s, q)'
    <3>1. \A d \in Goroutines \ {c} : call[d].of # n /\ call[d].kept # n
      <4>1. Posted(call[c])
        BY PostedAt
      <4>2. call[c].of # 0
        BY <1>2, <4>1 DEF Posted
      <4> QED
        BY <1>0, <1>2, <4>2 DEF Apart, Again
    <3>2. Owned(s, q)'
      BY <1>1, <1>3, <3>1 DEF Owned
    <3>3. s \notin Stdio
      BY McpAssumption
    <3> QED
      BY <1>1, <1>2, <3>2, <3>3 DEF Owed
  <2>3. Once'
    BY <1>0, <1>1 DEF Posts, Once, Adds
  <2> QED
    BY <2>1, <2>2, <2>3 DEF Posts, Adds
<1> QED
  BY <1>4, <1>5, <1>6, <1>7, <1>8, <1>9 DEF Inv

LEMMA RefreshTokenStep ==
    ASSUME Inv, NEW c \in Goroutines, RefreshToken(c)
    PROVE  Inv' /\ Implements
<1> DEFINE r == call[c]
           x == [r EXCEPT !.try = @ + 2, !.auth = TRUE, !.reply = NoReply]
<1>1. /\ r.pc = "posted" /\ r.reply.status = "denied"
      /\ UNCHANGED <<runs, slots, stuck, answered>> /\ \E opens : Post(c, x, opens)
  BY DEF RefreshToken, Replied, At, pipe
<1>2. /\ Posted(r) /\ DOMAIN call = Goroutines /\ DOMAIN r = Fields
      /\ DOMAIN asked = Servers
  BY <1>1, PostedAt
<1>3. /\ x.of = r.of /\ x.kept = r.kept /\ x.id = r.id /\ x.pc = r.pc /\ x.srv = r.srv
      /\ x.reply.status = "none" /\ DOMAIN x = Fields
  BY <1>2 DEF NoReply, Fields
<1> HIDE DEF x
<1>4. /\ Others(c) /\ call'[c] = x /\ UNCHANGED <<out, version>>
      /\ \E q : q.of = x.of /\ q.by = c /\ q.try = x.try /\ Adds(x.srv, q)
  BY <1>1, <1>2, PostIs
<1>5. PICK q : q.of = x.of /\ q.by = c /\ q.try = x.try /\ Adds(x.srv, q)
  BY <1>4
<1>6. made' = made
  BY <1>1 DEF made
<1>7. Posted(call[c])'
  BY <1>2, <1>3, <1>4, <1>6 DEF Posted
<1>8. Again(c)
  BY <1>1, <1>3, <1>4 DEF Again
<1>9. x.srv \in Http
  BY <1>2, <1>3 DEF Posted
<1> QED
  BY <1>1, <1>3, <1>4, <1>5, <1>7, <1>8, <1>9, AgainKeeps, Fails

LEMMA HttpOkStep ==
    ASSUME Inv, NEW c \in Goroutines, HttpOk(c)
    PROVE  Inv' /\ Implements
<1> DEFINE r == call[c]
<1>1. /\ r.pc = "posted" /\ r.reply.status = "ok" /\ answered' = answered \cup {r.of}
      /\ UNCHANGED <<runs, slots, stuck>>
  BY DEF HttpOk, Replied, At, pipe
<1>2. /\ Posted(r) /\ DOMAIN call = Goroutines /\ DOMAIN r = Fields
      /\ DOMAIN asked = Servers /\ made \in Nat
  BY <1>1, PostedAt
<1>3. r.of \in 1..made /\ r.of # 0 /\ r.kept # r.of /\ runs[r.of] = 1 /\ Apart
  BY <1>1, <1>2 DEF Posted, Inv, Replies
<1>4. CASE r.kept = 0
  <2>1. Answered(c) /\ UNCHANGED rest
    BY <1>1, <1>4 DEF HttpOk, rest, server
  <2>2. Frees(c)
    BY <2>1, AnsweredFrees DEF Inv
  <2>3. Others(c) /\ call'[c].of = 0 /\ call'[c].kept = 0
    BY <2>2 DEF Frees, Others, Clear
  <2>4. {call'[c].of, call'[c].kept} \ {0} = {r.kept} \ {0}
    BY <1>4, <2>3
  <2> QED
    BY <1>1, <1>3, <2>1, <2>2, <2>3, <2>4, FreesKeeps, Returns
<1>5. CASE r.kept # 0
  <2> DEFINE x == [r EXCEPT !.of = r.kept, !.kept = 0, !.try = 2, !.again = TRUE,
                            !.auth = FALSE, !.reply = NoReply, !.with = session'[r.srv]]
  <2>1. Post(c, x, FALSE)
    BY <1>5 DEF HttpOk
  <2>2. /\ x.of = r.kept /\ x.kept = 0 /\ x.id = r.id /\ x.pc = r.pc /\ x.srv = r.srv
        /\ x.reply.status = "none" /\ DOMAIN x = Fields
    BY <1>2 DEF NoReply, Fields
  <2> HIDE DEF x
  <2>3. /\ Others(c) /\ call'[c] = x /\ UNCHANGED <<out, version>>
        /\ \E q : q.of = x.of /\ q.by = c /\ q.try = x.try /\ Adds(x.srv, q)
    BY <1>2, <2>1, PostIs
  <2>4. PICK q : q.of = x.of /\ q.by = c /\ q.try = x.try /\ Adds(x.srv, q)
    BY <2>3
  <2>5. made' = made /\ r.kept \in 1..made
    BY <1>1, <1>2, <1>5 DEF made, Posted
  <2>6. Posted(call[c])'
    BY <1>2, <2>2, <2>3, <2>5 DEF Posted
  <2>7. Again(c)
    BY <1>5, <2>2, <2>3 DEF Again
  <2>8. x.srv \in Http
    BY <1>2, <2>2 DEF Posted
  <2>9. {call'[c].of, call'[c].kept} \ {0} = {r.kept} \ {0}
    BY <1>5, <2>2, <2>3
  <2> QED
    BY <1>1, <1>3, <2>2, <2>3, <2>4, <2>6, <2>7, <2>8, <2>9, AgainKeeps, Returns
<1> QED
  BY <1>4, <1>5

LEMMA HttpErrorStep ==
    ASSUME Inv, NEW c \in Goroutines, NEW why, HttpError(c, why)
    PROVE  Inv' /\ Implements
<1> DEFINE r == call[c]
           n == made + 1
           x == [r EXCEPT !.of = n, !.kept = r.of, !.try = 1, !.auth = FALSE,
                          !.reply = NoReply, !.with = session'[r.srv]]
<1>1. /\ r.pc = "posted" /\ UNCHANGED <<slots, stuck, answered>>
      /\ \/ /\ r.reply.status = "gone" /\ ~Opens(r)
            /\ runs' = Append(runs, 0) /\ Post(c, x, TRUE)
         \/ Failed(c) /\ UNCHANGED <<runs, server>>
  BY DEF HttpError, IsSessionExpired, At, pipe
<1>2. /\ Posted(r) /\ DOMAIN call = Goroutines /\ DOMAIN r = Fields
      /\ DOMAIN asked = Servers /\ made \in Nat
  BY <1>1, PostedAt
<1>3. CASE Failed(c) /\ UNCHANGED <<runs, server>>
  <2>1. Frees(c)
    BY <1>3, FailedFrees DEF Inv
  <2>2. UNCHANGED rest /\ UNCHANGED answered
    BY <1>1, <1>3 DEF rest, server
  <2> QED
    BY <2>1, <2>2, FreesStep
<1>4. CASE r.reply.status = "gone" /\ ~Opens(r) /\ runs' = Append(runs, 0) /\ Post(c, x, TRUE)
  <2>1. /\ x.of = n /\ x.kept = r.of /\ x.id = r.id /\ x.pc = r.pc /\ x.srv = r.srv
        /\ x.reply.status = "none" /\ DOMAIN x = Fields
    BY <1>2 DEF NoReply, Fields
  <2> HIDE DEF x
  <2>2. /\ Others(c) /\ call'[c] = x /\ UNCHANGED <<out, version>>
        /\ \E q : q.of = x.of /\ q.by = c /\ q.try = x.try /\ Adds(x.srv, q)
    BY <1>2, <1>4, PostIs
  <2>3. PICK q : q.of = x.of /\ q.by = c /\ q.try = x.try /\ Adds(x.srv, q)
    BY <2>2
  <2>4. made' = made + 1
    BY <1>4, RunsGrow DEF Inv
  <2>5. /\ n \in 1..made' /\ r.of \in 0..made' /\ r.of # n
        /\ r.srv \in Http /\ r.id = 0 /\ r.kept = 0
    BY <1>2, <1>4, <2>4 DEF Posted, Opens
  <2>6. Posted(call[c])'
    BY <1>1, <2>1, <2>2, <2>5 DEF Posted
  <2>7. runs[r.of] = 0 /\ ~Outstanding(r.of)
    <3>1. runs[r.of] = 0
      BY <1>1, <1>4 DEF Inv, Replies
    <3>2. ASSUME NEW s \in Servers, NEW p \in asked[s] PROVE p.of # r.of
      BY <1>4 DEF Inv, Posts, Owed, Owned
    <3> QED
      BY <3>1, <3>2 DEF Outstanding
  <2>8. WaitsFor(c, n)
    BY <2>1, <2>2, <2>5, <2>6, <2>7 DEF WaitsFor
  <2>9. Registers(c, r.srv, n)
    BY <1>1, <2>1, <2>2 DEF Registers
  <2>10. r.srv \in Servers /\ r.srv \notin Stdio
    BY <2>5, McpAssumption DEF Servers
  <2>11. Writes(c, r.srv, n, {q})
    BY <2>1, <2>2, <2>3, <2>6, <2>10 DEF Writes, Adds
  <2> QED
    BY <1>1, <1>2, <1>4, <2>1, <2>2, <2>5, <2>8, <2>9, <2>10, <2>11, MakesKeeps, Makes
<1> QED
  BY <1>1, <1>3, <1>4

-----------------------------------------------------------------------------
(* Steps that leave the calls alone.                                       *)

LEMMA LinesStep ==
    ASSUME Inv, UNCHANGED <<call, runs, answered>>, Shapes', Registered', Lines',
           \A s \in Servers : asked'[s] \subseteq asked[s]
    PROVE  Inv' /\ Implements
<1>0. Shapes /\ Calls /\ Apart /\ Registered /\ Lines /\ Posts /\ Replies
  BY DEF Inv
<1>1. made' = made
  BY DEF made
<1>2. Calls' /\ Apart' /\ Replies'
  BY <1>0, <1>1 DEF Calls, Apart, Replies, Clear, Piped, Leaving, Posted
<1>3. Posts'
  <2>1. \A s \in Servers : \A q \in asked[s] : Owed(s, q) => Owed(s, q)'
    BY <1>1 DEF Owed, Owned
  <2>2. Once'
    BY <1>0 DEF Posts, Once
  <2> QED
    BY <1>0, <2>1, <2>2 DEF Posts
<1>4. Implements
  BY <1>0, Stutters DEF Shapes
<1> QED
  BY <1>0, <1>2, <1>3, <1>4 DEF Inv

\* A step in which a server's lines only get fewer, or are about nothing that
\* was asked.
LEMMA OutStep ==
    ASSUME Inv, NEW s \in Servers,
           UNCHANGED <<call, runs, slots, stuck, answered>>,
           out' \in [Servers -> Seq(Line)], version' \in [Servers -> Nat],
           \A t \in Servers \ {s} : out'[t] = out[t],
           \A k \in 1..Len(out'[s]) :
               \/ out'[s][k].id = 0
               \/ \E j \in 1..Len(out[s]) : out'[s][k] = out[s][j],
           DOMAIN asked' = Servers, \A t \in Servers : asked'[t] \subseteq asked[t]
    PROVE  Inv' /\ Implements
<1>1. Shapes' /\ Registered'
  BY DEF Inv, Shapes, Registered
<1>2. Lines'
  <2>1. \A l : Genuine(l)' <=> Genuine(l)
    BY DEF Genuine, made
  <2>2. Lines /\ Stdio \subseteq Servers
    BY DEF Inv, Servers
  <2>3. \A t \in Stdio : \A k \in 1..Len(out'[t]) :
            out'[t][k].id # 0 => Genuine(out'[t][k])
    <3> SUFFICES ASSUME NEW t \in Stdio, NEW k \in 1..Len(out'[t]), out'[t][k].id # 0
                 PROVE  Genuine(out'[t][k])
      OBVIOUS
    <3>1. CASE t # s
      BY <2>2, <3>1 DEF Lines
    <3>2. CASE t = s
      <4>1. PICK j \in 1..Len(out[s]) : out'[s][k] = out[s][j]
        BY <3>2
      <4> QED
        BY <2>2, <3>2, <4>1 DEF Lines
    <3> QED
      BY <3>1, <3>2
  <2> QED
    BY <2>1, <2>2, <2>3 DEF Lines
<1> QED
  BY <1>1, <1>2, LinesStep

\* What comes behind the lines of a sequence.
LEMMA Appended ==
    ASSUME NEW S, NEW a \in Seq(S), NEW l \in S
    PROVE  /\ Append(a, l) \in Seq(S)
           /\ \A k \in 1..Len(Append(a, l)) :
                  Append(a, l)[k] = l \/ (k \in 1..Len(a) /\ Append(a, l)[k] = a[k])
<1>1. /\ Append(a, l) \in Seq(S) /\ Len(Append(a, l)) = Len(a) + 1 /\ Len(a) \in Nat
      /\ Append(a, l)[Len(a) + 1] = l
      /\ \A k \in 1..Len(a) : Append(a, l)[k] = a[k]
  OBVIOUS
<1>2. \A k \in 1..(Len(a) + 1) : k \in 1..Len(a) \/ k = Len(a) + 1
  BY <1>1
<1> QED
  BY <1>1, <1>2

LEMMA AppendedTwice ==
    ASSUME NEW S, NEW a \in Seq(S), NEW l \in S
    PROVE  /\ a \o <<l, l>> \in Seq(S)
           /\ \A k \in 1..Len(a \o <<l, l>>) :
                  (a \o <<l, l>>)[k] = l \/ (k \in 1..Len(a) /\ (a \o <<l, l>>)[k] = a[k])
<1> DEFINE t == <<l, l>>
<1>1. t \in Seq(S) /\ Len(t) = 2 /\ t[1] = l /\ t[2] = l /\ Len(a) \in Nat
  OBVIOUS
<1> HIDE DEF t
<1>2. /\ a \o t \in Seq(S) /\ Len(a \o t) = Len(a) + Len(t)
      /\ \A k \in 1..Len(a) + Len(t) :
             (a \o t)[k] = IF k <= Len(a) THEN a[k] ELSE t[k - Len(a)]
  BY <1>1, ConcatProperties
<1>3. \A k \in 1..Len(a) + 2 : k \in 1..Len(a) \/ (~(k <= Len(a)) /\ k - Len(a) \in {1, 2})
  BY <1>1
<1>4. \A k \in 1..Len(a) + 2 : (a \o t)[k] = l \/ (k \in 1..Len(a) /\ (a \o t)[k] = a[k])
  <2> SUFFICES ASSUME NEW k \in 1..Len(a) + 2
               PROVE  (a \o t)[k] = l \/ (k \in 1..Len(a) /\ (a \o t)[k] = a[k])
    OBVIOUS
  <2>1. CASE k \in 1..Len(a)
    BY <1>1, <1>2, <2>1
  <2>2. CASE ~(k <= Len(a)) /\ k - Len(a) \in {1, 2}
    BY <1>1, <1>2, <2>2
  <2> QED
    BY <1>3, <2>1, <2>2
<1> QED
  BY <1>1, <1>2, <1>4 DEF t

\* A server sends a line, or sends it twice.
LEMMA LineSent ==
    ASSUME out \in [Servers -> Seq(Line)], NEW s \in Servers, NEW line \in Line,
           \/ out' = [out EXCEPT ![s] = Append(@, line)]
           \/ out' = [out EXCEPT ![s] = @ \o <<line, line>>]
    PROVE  /\ out' \in [Servers -> Seq(Line)] /\ \A t \in Servers \ {s} : out'[t] = out[t]
           /\ \A k \in 1..Len(out'[s]) :
                  out'[s][k] = line \/ (k \in 1..Len(out[s]) /\ out'[s][k] = out[s][k])
<1> DEFINE a == out[s]
           b == Append(a, line)
           d == a \o <<line, line>>
<1>1. a \in Seq(Line)
  OBVIOUS
<1>2. /\ b \in Seq(Line)
      /\ \A k \in 1..Len(b) : b[k] = line \/ (k \in 1..Len(a) /\ b[k] = a[k])
  BY <1>1, Appended
<1>3. /\ d \in Seq(Line)
      /\ \A k \in 1..Len(d) : d[k] = line \/ (k \in 1..Len(a) /\ d[k] = a[k])
  BY <1>1, AppendedTwice
<1>4. out' = [out EXCEPT ![s] = b] \/ out' = [out EXCEPT ![s] = d]
  OBVIOUS
<1>5. a = out[s]
  OBVIOUS
<1> HIDE DEF a, b, d
<1> QED
  BY <1>2, <1>3, <1>4, <1>5

LEMMA TailLines ==
    ASSUME out \in [Servers -> Seq(Line)], NEW s \in Servers, out[s] # << >>,
           out' = [out EXCEPT ![s] = Tail(@)]
    PROVE  /\ out' \in [Servers -> Seq(Line)] /\ \A t \in Servers \ {s} : out'[t] = out[t]
           /\ Head(out[s]) = out[s][1] /\ 1 \in 1..Len(out[s]) /\ Head(out[s]) \in Line
           /\ \A k \in 1..Len(out'[s]) : \E j \in 1..Len(out[s]) : out'[s][k] = out[s][j]
<1>1. out[s] \in Seq(Line)
  OBVIOUS
<1>2. out'[s] = Tail(out[s]) /\ out'[s] \in Seq(Line)
  BY <1>1
<1>3. \A k \in 1..Len(out'[s]) : k + 1 \in 1..Len(out[s]) /\ out'[s][k] = out[s][k + 1]
  BY <1>1, <1>2
<1> QED
  BY <1>1, <1>2, <1>3

LEMMA HttpNotifiedStep ==
    ASSUME Inv, NEW s \in Servers, HttpNotified(s)
    PROVE  Inv' /\ Implements
<1>1. /\ UNCHANGED <<call, runs, slots, stuck, answered, asked, version>>
      /\ out[s] # << >> /\ out' = [out EXCEPT ![s] = Tail(@)]
  BY DEF HttpNotified, pipe
<1>2. /\ DOMAIN asked' = Servers /\ version' \in [Servers -> Nat]
      /\ out \in [Servers -> Seq(Line)]
  BY <1>1 DEF Inv, Shapes
<1>3. /\ out' \in [Servers -> Seq(Line)] /\ \A t \in Servers \ {s} : out'[t] = out[t]
      /\ \A k \in 1..Len(out'[s]) : \E j \in 1..Len(out[s]) : out'[s][k] = out[s][j]
  BY <1>1, <1>2, TailLines
<1>4. \A k \in 1..Len(out'[s]) :
          out'[s][k].id = 0 \/ \E j \in 1..Len(out[s]) : out'[s][k] = out[s][j]
  BY <1>3
<1>5. \A t \in Servers : asked'[t] \subseteq asked[t]
  BY <1>1
<1> QED
  BY <1>1, <1>2, <1>3, <1>4, <1>5, OutStep

LEMMA ListenEndsStep ==
    ASSUME Inv, NEW s \in Servers, ListenEnds(s)
    PROVE  Inv' /\ Implements
<1>1. /\ UNCHANGED <<call, runs, slots, stuck, answered, asked, version>>
      /\ out' = [out EXCEPT ![s] = << >>]
  BY DEF ListenEnds, pipe
<1>2. /\ DOMAIN asked' = Servers /\ version' \in [Servers -> Nat]
      /\ out \in [Servers -> Seq(Line)]
  BY <1>1 DEF Inv, Shapes
<1>3. out' \in [Servers -> Seq(Line)] /\ out'[s] = << >>
  BY <1>1, <1>2
<1> QED
  BY <1>1, <1>2, <1>3, OutStep

LEMMA ChangeStep ==
    ASSUME Inv, NEW s \in Servers, Change(s)
    PROVE  Inv' /\ Implements
<1> DEFINE l == [id |-> 0, of |-> 0, version |-> version[s] + 1]
<1>1. /\ UNCHANGED <<call, runs, slots, stuck, answered, asked>>
      /\ version' = [version EXCEPT ![s] = @ + 1] /\ out' = [out EXCEPT ![s] = Append(@, l)]
  BY DEF Change, Stays, pipe
<1>2. /\ DOMAIN asked' = Servers /\ version' \in [Servers -> Nat]
      /\ out \in [Servers -> Seq(Line)] /\ version[s] \in Nat
  BY <1>1 DEF Inv, Shapes
<1>3. l \in Line /\ l.id = 0
  BY <1>2 DEF Line
<1> HIDE DEF l
<1>4. /\ out' \in [Servers -> Seq(Line)] /\ \A t \in Servers \ {s} : out'[t] = out[t]
      /\ \A k \in 1..Len(out'[s]) :
             out'[s][k] = l \/ (k \in 1..Len(out[s]) /\ out'[s][k] = out[s][k])
  BY <1>1, <1>2, <1>3, LineSent
<1>5. \A k \in 1..Len(out'[s]) :
          out'[s][k].id = 0 \/ \E j \in 1..Len(out[s]) : out'[s][k] = out[s][j]
  BY <1>3, <1>4
<1> QED
  BY <1>1, <1>2, <1>4, <1>5, OutStep

\* Steps that touch nothing of all this but what a server still owes.
LEMMA OtherStep ==
    ASSUME Inv, UNCHANGED <<call, runs, slots, stuck, out, version, answered>>,
           DOMAIN asked' = Servers, \A t \in Servers : asked'[t] \subseteq asked[t]
    PROVE  Inv' /\ Implements
<1>1. Shapes' /\ Registered'
  BY DEF Inv, Shapes, Registered
<1>2. Lines'
  <2>1. \A l : Genuine(l)' <=> Genuine(l)
    BY DEF Genuine, made
  <2> QED
    BY <2>1 DEF Inv, Lines
<1> QED
  BY <1>1, <1>2, LinesStep

LEMMA QuietStep ==
    ASSUME Inv,
           \/ \E s \in Servers : Expire(s) \/ GoSilent(s) \/ StartFails(s) \/ Disconnect(s)
           \/ ShutdownAll
    PROVE  Inv' /\ Implements
<1>1. UNCHANGED <<call, runs, slots, stuck, out, version, answered>>
  BY DEF Expire, GoSilent, StartFails, Disconnect, ShutdownAll, Stays, pipe, server
<1>2. \/ UNCHANGED asked
      \/ \E s \in Servers : asked' = [asked EXCEPT ![s] = {}]
  BY DEF Expire, GoSilent, StartFails, Disconnect, ShutdownAll, server
<1>3. DOMAIN asked' = Servers /\ \A t \in Servers : asked'[t] \subseteq asked[t]
  BY <1>2 DEF Inv, Shapes
<1> QED
  BY <1>1, <1>3, OtherStep

\* A line goes into the channel of its ID.
LEMMA PutKeeps ==
    ASSUME Inv, NEW s \in Stdio, NEW ch, Genuine(ch[1]), ch[1].id \in DOMAIN slots[s],
           Channel(s, ch[1].id, ch)
    PROVE  /\ DOMAIN slots' = Stdio
           /\ \A t \in Stdio : DOMAIN slots'[t] = DOMAIN slots[t]
           /\ \A t \in Stdio : \A i \in DOMAIN slots'[t] :
                  slots'[t][i] # << >> => Genuine(slots'[t][i][1]) /\ slots'[t][i][1].id = i
<1> DEFINE n == ch[1].id
<1>1. DOMAIN slots = Stdio /\ Lines
  BY DEF Inv, Shapes
<1>2. /\ DOMAIN slots' = Stdio
      /\ \A t \in Stdio : t # s => slots'[t] = slots[t]
      /\ DOMAIN slots'[s] = DOMAIN slots[s] \cup {n} /\ slots'[s][n] = ch
      /\ \A i \in DOMAIN slots[s] : i # n => slots'[s][i] = slots[s][i]
  BY <1>1, ChannelIs
<1>3. \A t \in Stdio : DOMAIN slots'[t] = DOMAIN slots[t]
  BY <1>2
<1>4. ASSUME NEW t \in Stdio, NEW i \in DOMAIN slots[t], slots'[t][i] # << >>
      PROVE  Genuine(slots'[t][i][1]) /\ slots'[t][i][1].id = i
  <2>1. CASE t = s /\ i = n
    BY <1>2, <2>1
  <2>2. CASE ~(t = s /\ i = n)
    <3>1. slots'[t][i] = slots[t][i]
      BY <1>2, <2>2
    <3> QED
      BY <1>1, <1>4, <3>1 DEF Lines
  <2> QED
    BY <2>1, <2>2
<1> QED
  BY <1>2, <1>3, <1>4

LEMMA DeliverStep ==
    ASSUME Inv, NEW s \in Servers, Deliver(s)
    PROVE  Inv' /\ Implements
<1> DEFINE l == Head(out[s])
<1>1. /\ s \in Stdio /\ out[s] # << >> /\ out' = [out EXCEPT ![s] = Tail(@)]
      /\ UNCHANGED <<call, runs, answered, asked, version>>
  BY DEF Deliver
<1>2. \/ UNCHANGED <<slots, stuck>>
      \/ /\ l.id # 0 /\ l.id \in DOMAIN slots[s]
         /\ Channel(s, l.id, <<l>>) /\ UNCHANGED stuck
      \/ /\ l.id # 0 /\ l.id \in DOMAIN slots[s]
         /\ stuck' = [stuck EXCEPT ![s] = <<l>>] /\ UNCHANGED slots
  BY DEF Deliver, pipe
<1>3. /\ out \in [Servers -> Seq(Line)] /\ DOMAIN slots = Stdio /\ DOMAIN stuck = Stdio
      /\ DOMAIN asked = Servers /\ version \in [Servers -> Nat] /\ Stdio \subseteq Servers
  BY DEF Inv, Shapes, Servers
<1>4. /\ out' \in [Servers -> Seq(Line)] /\ \A t \in Servers \ {s} : out'[t] = out[t]
      /\ l = out[s][1] /\ 1 \in 1..Len(out[s])
      /\ \A k \in 1..Len(out'[s]) : \E j \in 1..Len(out[s]) : out'[s][k] = out[s][j]
  BY <1>1, <1>3, TailLines
<1>5. l.id # 0 => Genuine(l)
  BY <1>1, <1>4 DEF Inv, Lines
<1> HIDE DEF l
<1>6. CASE UNCHANGED <<slots, stuck>>
  BY <1>1, <1>3, <1>4, <1>6, OutStep
<1>7. \A t \in Stdio : \A k \in 1..Len(out'[t]) : out'[t][k].id # 0 => Genuine(out'[t][k])
  <2> SUFFICES ASSUME NEW t \in Stdio, NEW k \in 1..Len(out'[t]), out'[t][k].id # 0
               PROVE  Genuine(out'[t][k])
    OBVIOUS
  <2>1. CASE t # s
    BY <1>3, <1>4, <2>1 DEF Inv, Lines
  <2>2. CASE t = s
    BY <1>1, <1>4, <2>2 DEF Inv, Lines
  <2> QED
    BY <2>1, <2>2
<1>8. \A m : Genuine(m)' <=> Genuine(m)
  BY <1>1 DEF Genuine, made
<1>9. CASE l.id # 0 /\ l.id \in DOMAIN slots[s] /\ Channel(s, l.id, <<l>>) /\ UNCHANGED stuck
  <2>1. /\ DOMAIN slots' = Stdio
        /\ \A t \in Stdio : DOMAIN slots'[t] = DOMAIN slots[t]
        /\ \A t \in Stdio : \A i \in DOMAIN slots'[t] :
               slots'[t][i] # << >> => Genuine(slots'[t][i][1]) /\ slots'[t][i][1].id = i
    <3> DEFINE ch == <<l>>
    <3>1. ch[1] = l
      OBVIOUS
    <3>2. Channel(s, ch[1].id, ch)
      BY <1>9, <3>1
    <3>3. Genuine(ch[1]) /\ ch[1].id \in DOMAIN slots[s]
      BY <1>5, <1>9, <3>1 DEF Genuine
    <3> HIDE DEF ch
    <3> QED
      BY <1>1, <3>2, <3>3, PutKeeps
  <2>2. Lines'
    BY <1>7, <1>8, <1>9, <2>1 DEF Inv, Lines
  <2>3. Registered'
    <3>1. \A c \in Goroutines : call[c].pc = "wait" => call[c].srv \in Stdio
      BY DEF Inv, Calls, Clear, Piped, Leaving, Posted
    <3> QED
      BY <1>1, <1>9, <2>1, <3>1 DEF Inv, Registered
  <2>4. Shapes'
    BY <1>1, <1>3, <1>4, <1>9, <2>1 DEF Inv, Shapes
  <2> QED
    BY <1>1, <2>2, <2>3, <2>4, LinesStep
<1>10. CASE /\ l.id # 0 /\ l.id \in DOMAIN slots[s]
            /\ stuck' = [stuck EXCEPT ![s] = <<l>>] /\ UNCHANGED slots
  <2>1. \A t \in Stdio : stuck'[t] # << >> => Genuine(stuck'[t][1])
    BY <1>3, <1>5, <1>10 DEF Inv, Lines
  <2>2. Lines'
    BY <1>7, <1>8, <1>10, <2>1 DEF Inv, Lines
  <2>3. Registered' /\ Shapes'
    BY <1>1, <1>3, <1>4, <1>10 DEF Inv, Shapes, Registered
  <2> QED
    BY <1>1, <2>2, <2>3, LinesStep
<1> QED
  BY <1>2, <1>6, <1>9, <1>10

LEMMA UnblockStep ==
    ASSUME Inv, NEW s \in Stdio, Unblock(s)
    PROVE  Inv' /\ Implements
<1>1. /\ stuck[s] # << >> /\ Channel(s, stuck[s][1].id, stuck[s])
      /\ stuck' = [stuck EXCEPT ![s] = << >>]
      /\ UNCHANGED <<call, runs, answered, asked, out, version>>
  BY DEF Unblock, server
<1>2. Genuine(stuck[s][1]) /\ stuck[s][1].id \in DOMAIN slots[s]
  BY <1>1 DEF Inv, Lines, Registered
<1>3. /\ DOMAIN slots' = Stdio
      /\ \A t \in Stdio : DOMAIN slots'[t] = DOMAIN slots[t]
      /\ \A t \in Stdio : \A i \in DOMAIN slots'[t] :
             slots'[t][i] # << >> => Genuine(slots'[t][i][1]) /\ slots'[t][i][1].id = i
  BY <1>1, <1>2, PutKeeps
<1>4. \A m : Genuine(m)' <=> Genuine(m)
  BY <1>1 DEF Genuine, made
<1>5. Shapes'
  BY <1>1, <1>3 DEF Inv, Shapes
<1>6. \A t \in Stdio : stuck'[t] # << >> => t # s /\ stuck'[t] = stuck[t]
  BY <1>1 DEF Inv, Shapes
<1>7. Lines'
  BY <1>1, <1>3, <1>4, <1>6 DEF Inv, Lines
<1>8. Registered'
  <2>1. \A c \in Goroutines : call[c].pc = "wait" => call[c].srv \in Stdio
    BY DEF Inv, Calls, Clear, Piped, Leaving, Posted
  <2> QED
    BY <1>1, <1>3, <1>6, <2>1 DEF Inv, Registered
<1> QED
  BY <1>1, <1>5, <1>7, <1>8, LinesStep

-----------------------------------------------------------------------------
(* A server takes a request off its list, and executes it or not.          *)

Fixed ==
    /\ DOMAIN call' = Goroutines
    /\ \A c \in Goroutines :
        /\ DOMAIN call'[c] = Fields
        /\ call'[c].pc = call[c].pc /\ call'[c].srv = call[c].srv /\ call'[c].of = call[c].of
        /\ call'[c].id = call[c].id /\ call'[c].kept = call[c].kept
        /\ call'[c].try = call[c].try
Hears(q, status) ==
    \A c \in Goroutines :
        \/ call'[c].reply = call[c].reply
        \/ call[c].pc = "posted" /\ call[c].of = q.of /\ call'[c].reply.status = status
Takes(s, q, status) ==
    /\ asked' = [asked EXCEPT ![s] = @ \ {q}]
    /\ \/ status = "ok" /\ runs' = [runs EXCEPT ![q.of] = 1]
       \/ status \in {"gone", "denied"} /\ UNCHANGED runs

LEMMA TakesIs ==
    ASSUME Inv, NEW s \in Servers, NEW q \in asked[s], NEW status, Takes(s, q, status)
    PROVE  /\ made' = made /\ made \in Nat /\ runs' \in Seq({0, 1})
           /\ q.of \in 1..made /\ runs[q.of] = 0
           /\ \A n \in 1..made : n # q.of => runs'[n] = runs[n]
           /\ status = "ok" => runs'[q.of] = 1
           /\ status # "ok" => runs' = runs
<1>1. q.of \in 1..made /\ runs[q.of] = 0
  BY DEF Inv, Posts, Owed
<1>2. made \in Nat /\ made = Len(runs) /\ runs \in Seq({0, 1})
  BY DEF Inv, Shapes, made
<1>3. CASE runs' = [runs EXCEPT ![q.of] = 1] /\ status = "ok"
  <2>1. Len(runs') = Len(runs) /\ runs' \in Seq({0, 1})
    BY <1>1, <1>2, <1>3
  <2>2. made' = made
    BY <2>1 DEF made
  <2> QED
    BY <1>1, <1>2, <1>3, <2>1, <2>2
<1>4. CASE UNCHANGED runs /\ status \in {"gone", "denied"}
  <2>1. made' = made
    BY <1>4 DEF made
  <2> QED
    BY <1>1, <1>2, <1>4, <2>1
<1> QED
  BY <1>3, <1>4 DEF Takes

LEMMA TakesKeeps ==
    ASSUME Inv, NEW s \in Servers, NEW q \in asked[s], NEW status, Takes(s, q, status),
           Fixed, Hears(q, status), UNCHANGED <<slots, stuck, version>>,
           out' \in [Servers -> Seq(Line)], Lines'
    PROVE  Inv'
<1>0. Shapes /\ Calls /\ Apart /\ Registered /\ Posts /\ Replies
  BY DEF Inv
<1>1. /\ made' = made /\ made \in Nat /\ runs' \in Seq({0, 1})
      /\ q.of \in 1..made /\ runs[q.of] = 0
      /\ \A n \in 1..made : n # q.of => runs'[n] = runs[n]
      /\ status = "ok" => runs'[q.of] = 1
      /\ status # "ok" => runs' = runs
  BY TakesIs
<1>2. ASSUME NEW c \in Goroutines
      PROVE  /\ call[c].kept # q.of
             /\ call[c].of = q.of => call[c].reply.status = "none"
  BY <1>0 DEF Posts, Owed, Owned
<1>3. Shapes'
  BY <1>0, <1>1 DEF Shapes, Fixed, Takes
<1>4. Calls'
  <2> SUFFICES ASSUME NEW c \in Goroutines
               PROVE  (Clear(call[c]) \/ Piped(call[c]) \/ Leaving(call[c]) \/ Posted(call[c]))'
    BY DEF Calls
  <2>1. Clear(call[c]) \/ Piped(call[c]) \/ Leaving(call[c]) \/ Posted(call[c])
    BY <1>0 DEF Calls
  <2>2. call[c].pc # "posted" => call'[c].reply = call[c].reply
    BY DEF Hears
  <2> QED
    BY <1>1, <2>1, <2>2 DEF Fixed, Clear, Piped, Leaving, Posted
<1>5. Apart' /\ Registered'
  BY <1>0 DEF Apart, Registered, Fixed
<1>6. Replies'
  <2> SUFFICES ASSUME NEW c \in Goroutines, call'[c].pc = "posted"
               PROVE  /\ call'[c].reply.status = "ok" => runs'[call'[c].of] = 1
                      /\ call'[c].reply.status \in {"gone", "denied"} => runs'[call'[c].of] = 0
                      /\ call'[c].kept # 0 => runs'[call'[c].kept] = 0
    BY DEF Replies
  <2>1. /\ call[c].pc = "posted" /\ call'[c].of = call[c].of /\ call'[c].kept = call[c].kept
    BY DEF Fixed
  <2>2. Posted(call[c])
    BY <1>0, <2>1 DEF Calls, Clear, Piped, Leaving
  <2>3. call[c].of \in 1..made /\ (call[c].kept # 0 => call[c].kept \in 1..made)
    BY <1>1, <2>2 DEF Posted
  <2>4. call[c].kept # 0 => runs'[call[c].kept] = 0
    BY <1>0, <1>1, <1>2, <2>1, <2>3 DEF Replies
  <2>5. CASE call'[c].reply = call[c].reply
    <3>1. CASE call[c].of = q.of
      BY <1>2, <2>1, <2>4, <2>5, <3>1
    <3>2. CASE call[c].of # q.of
      BY <1>0, <1>1, <2>1, <2>3, <2>4, <2>5, <3>2 DEF Replies
    <3> QED
      BY <3>1, <3>2
  <2>6. CASE call[c].of = q.of /\ call'[c].reply.status = status
    BY <1>1, <2>1, <2>4, <2>6
  <2> QED
    BY <2>5, <2>6 DEF Hears
<1>7. Posts'
  <2>1. ASSUME NEW t \in Servers, NEW p \in asked'[t]
        PROVE  p \in asked[t] /\ p.of # q.of
    BY <1>0, <2>1 DEF Shapes, Takes, Posts, Once
  <2>2. ASSUME NEW t \in Servers, NEW p \in asked'[t]
        PROVE  Owed(t, p)'
    <3>1. p \in asked[t] /\ p.of # q.of
      BY <2>1
    <3>2. Owed(t, p)
      BY <1>0, <3>1 DEF Posts
    <3>3. Owned(t, p)'
      <4>1. Owned(t, p)
        BY <3>2 DEF Owed
      <4>2. ASSUME NEW c \in Goroutines
            PROVE  /\ call'[c].kept # p.of
                   /\ call'[c].of = p.of =>
                        /\ call'[c].reply.status = "none"
                        /\ t \in Http => /\ c = p.by /\ call'[c].try = p.try
                                         /\ call'[c].pc = "posted"
        <5>1. /\ call[c].kept # p.of
              /\ call[c].of = p.of =>
                   /\ call[c].reply.status = "none"
                   /\ t \in Http => c = p.by /\ call[c].try = p.try /\ call[c].pc = "posted"
          BY <4>1 DEF Owned
        <5>2. /\ call'[c].of = call[c].of /\ call'[c].kept = call[c].kept
              /\ call'[c].pc = call[c].pc /\ call'[c].try = call[c].try
          BY DEF Fixed
        <5>3. call[c].of = p.of => call'[c].reply = call[c].reply
          BY <3>1 DEF Hears
        <5> QED
          BY <5>1, <5>2, <5>3
      <4> QED
        BY <4>2 DEF Owned
    <3> QED
      BY <1>1, <3>1, <3>2, <3>3 DEF Owed
  <2>3. Once'
    BY <1>0, <2>1 DEF Posts, Once
  <2> QED
    BY <2>2, <2>3 DEF Posts
<1> QED
  BY <1>3, <1>4, <1>5, <1>6, <1>7 DEF Inv

LEMMA TakesStep ==
    ASSUME Inv, NEW s \in Servers, NEW q \in asked[s], NEW status, Takes(s, q, status),
           Fixed, Hears(q, status), UNCHANGED <<slots, stuck, version, answered>>,
           out' \in [Servers -> Seq(Line)], Lines'
    PROVE  Inv' /\ Implements
<1>1. Inv'
  BY TakesKeeps
<1>2. /\ DOMAIN call' = DOMAIN call /\ DOMAIN call = Goroutines
      /\ \A c \in Goroutines : call'[c].of = call[c].of /\ call'[c].kept = call[c].kept
  BY DEF Fixed, Inv, Shapes
<1>3. q.of \in 1..made /\ runs[q.of] = 0
  BY TakesIs
<1>4. CASE UNCHANGED runs
  BY <1>1, <1>2, <1>4, Stutters
<1>5. CASE runs' = [runs EXCEPT ![q.of] = 1]
  BY <1>1, <1>2, <1>3, <1>5, Runs
<1> QED
  BY <1>4, <1>5 DEF Takes

LEMMA OwedAt ==
    ASSUME Inv, NEW s \in Servers, NEW q \in asked[s]
    PROVE  /\ q.of \in 1..made /\ q.of \in Nat /\ runs[q.of] = 0
           /\ [runs EXCEPT ![q.of] = @ + 1] = [runs EXCEPT ![q.of] = 1]
           /\ s \in Stdio => q.id = q.of
           /\ s \in Http => q.by \in Goroutines
           /\ Owned(s, q)
<1>1. /\ q.of \in 1..made /\ runs[q.of] = 0 /\ Owned(s, q)
      /\ s \in Stdio => q.id = q.of
      /\ s \in Http => q.by \in Goroutines
  BY DEF Inv, Posts, Owed
<1>2. made \in Nat
  BY DEF Inv, Shapes, made
<1> QED
  BY <1>1, <1>2

LEMMA GenuineRemains ==
    ASSUME Inv, NEW s \in Servers, NEW q \in asked[s], NEW status, Takes(s, q, status)
    PROVE  \A l : Genuine(l) => Genuine(l)'
<1>1. /\ made' = made
      /\ \A n \in 1..made : n # q.of => runs'[n] = runs[n]
      /\ runs[q.of] = 0
  BY TakesIs
<1> QED
  BY <1>1 DEF Genuine

LEMMA AnswerStep ==
    ASSUME Inv, NEW s \in Servers, NEW q \in asked[s], Answer(s, q)
    PROVE  Inv' /\ Implements
<1> DEFINE line == [id |-> q.id, of |-> q.of, version |-> version[s]]
<1>1. /\ q.of \in 1..made /\ q.of \in Nat /\ runs[q.of] = 0
      /\ [runs EXCEPT ![q.of] = @ + 1] = [runs EXCEPT ![q.of] = 1]
      /\ s \in Stdio => q.id = q.of
  BY OwedAt
<1>2. /\ s \in Stdio /\ Takes(s, q, "ok")
      /\ UNCHANGED <<call, slots, stuck, version, answered>>
      /\ \/ out' = [out EXCEPT ![s] = Append(@, line)]
         \/ out' = [out EXCEPT ![s] = @ \o <<line, line>>]
  BY <1>1 DEF Answer, Takes, Stays, pipe
<1>3. /\ out \in [Servers -> Seq(Line)] /\ version \in [Servers -> Nat]
      /\ Fixed /\ Hears(q, "ok")
  BY <1>2 DEF Inv, Shapes, Fixed, Hears
<1>4. line \in Line /\ line.id = q.of /\ line.of = q.of
  BY <1>1, <1>2, <1>3 DEF Line
<1>5. Genuine(line)'
  <2>1. made' = made /\ runs'[q.of] = 1
    BY <1>2, TakesIs
  <2>2. line' = line
    BY <1>2
  <2> QED
    BY <1>1, <1>4, <2>1, <2>2 DEF Genuine
<1>6. line' = line
  BY <1>2
<1> HIDE DEF line
<1>7. /\ out' \in [Servers -> Seq(Line)] /\ \A t \in Servers \ {s} : out'[t] = out[t]
      /\ \A k \in 1..Len(out'[s]) :
             out'[s][k] = line \/ (k \in 1..Len(out[s]) /\ out'[s][k] = out[s][k])
  BY <1>2, <1>3, <1>4, LineSent
<1>8. Lines'
  <2>1. \A l : Genuine(l) => Genuine(l)'
    BY <1>2, GenuineRemains
  <2>2. ASSUME NEW t \in Stdio, NEW k \in 1..Len(out'[t]), out'[t][k].id # 0
        PROVE  Genuine(out[t][k])'
    <3>1. t \in Servers
      BY DEF Servers
    <3>2. CASE out'[t][k] = line
      BY <1>5, <1>6, <3>2
    <3>3. CASE k \in 1..Len(out[t]) /\ out'[t][k] = out[t][k]
      BY <2>1, <2>2, <3>3 DEF Inv, Lines
    <3> QED
      BY <1>7, <3>1, <3>2, <3>3
  <2> QED
    BY <1>2, <2>1, <2>2 DEF Inv, Lines
<1> QED
  BY <1>2, <1>3, <1>7, <1>8, TakesStep

LEMMA HandleStep ==
    ASSUME Inv, NEW s \in Servers, NEW q \in asked[s],
           NEW status \in {"ok", "gone", "denied"}, Handle(s, q, status)
    PROVE  Inv' /\ Implements
<1> DEFINE r == call[q.by]
           reply == [status |-> status, version |-> version[s],
                     session |-> IF q.opens THEN live[s] ELSE 0]
<1>1. /\ [runs EXCEPT ![q.of] = @ + 1] = [runs EXCEPT ![q.of] = 1]
      /\ s \in Http => q.by \in Goroutines
  BY OwedAt
<1>2. /\ s \in Http /\ Takes(s, q, status)
      /\ UNCHANGED <<slots, stuck, version, answered, out>>
      /\ call' = IF r.pc = "posted" /\ r.of = q.of /\ r.try = q.try
                 THEN [call EXCEPT ![q.by].reply = reply] ELSE call
  BY <1>1 DEF Handle, Takes, Stays, pipe
<1>3. reply.status = status
  OBVIOUS
<1> HIDE DEF reply
<1>4. DOMAIN call = Goroutines /\ \A c \in Goroutines : DOMAIN call[c] = Fields
  BY DEF Inv, Shapes
<1>5. ASSUME r.pc = "posted", r.of = q.of, call' = [call EXCEPT ![q.by].reply = reply]
      PROVE  Fixed /\ Hears(q, status)
  <2>1. /\ DOMAIN call' = Goroutines /\ \A c \in Goroutines \ {q.by} : call'[c] = call[c]
        /\ call'[q.by] = [r EXCEPT !.reply = reply]
    BY <1>1, <1>2, <1>4, <1>5
  <2>2. Fixed
    BY <1>4, <2>1 DEF Fixed, Fields
  <2>3. Hears(q, status)
    BY <1>1, <1>2, <1>3, <1>4, <1>5, <2>1 DEF Hears, Fields
  <2> QED
    BY <2>2, <2>3
<1>6. ASSUME call' = call
      PROVE  Fixed /\ Hears(q, status)
  BY <1>4, <1>6 DEF Fixed, Hears
<1>7. Fixed /\ Hears(q, status)
  BY <1>2, <1>5, <1>6
<1>8. out' \in [Servers -> Seq(Line)]
  BY <1>2 DEF Inv, Shapes
<1>9. Lines'
  <2>1. \A l : Genuine(l) => Genuine(l)'
    BY <1>2, GenuineRemains
  <2> QED
    BY <1>2, <2>1 DEF Inv, Lines
<1> QED
  BY <1>2, <1>7, <1>8, <1>9, TakesStep

-----------------------------------------------------------------------------
(* The end, and all of it.                                                 *)

LEMMA ExitStep ==
    ASSUME Inv, Exit
    PROVE  Inv' /\ Implements
<1>1. /\ call' = [c \in Goroutines |-> Idle]
      /\ slots' = [s \in Stdio |-> << >>] /\ stuck' = [s \in Stdio |-> << >>]
      /\ out' = [s \in Servers |-> << >>] /\ asked' = [s \in Servers |-> {}]
      /\ UNCHANGED <<runs, version, answered>>
  BY DEF Exit
<1>2. Shapes'
  BY <1>1, IdleIsClear DEF Inv, Shapes
<1>3. \A c \in Goroutines : call'[c] = Idle /\ Clear(Idle)
  BY <1>1, IdleIsClear
<1>4. Calls' /\ Apart' /\ Registered' /\ Replies'
  <2>1. \A s \in Stdio : stuck'[s] = << >>
    BY <1>1
  <2>2. Clear(Idle)' <=> Clear(Idle)
    BY DEF Clear, Idle, NoReply
  <2> QED
    BY <1>3, <2>1, <2>2 DEF Calls, Apart, Registered, Replies, Clear
<1>5. Lines' /\ Posts'
  BY <1>1 DEF Lines, Posts, Once, Servers
<1>6. Implements
  <2>1. Waiting' \ {0} = {}
    BY <1>3 DEF Waiting, Clear
  <2>2. CASE Waiting \ {0} = {}
    BY <1>1, <2>1, <2>2 DEF Implements, Requests!vars
  <2>3. CASE Waiting \ {0} # {}
    <3>1. Waiting' \ {0} = (Waiting \ {0}) \ (Waiting \ {0})
      BY <2>1
    <3>2. Requests!Fail
      BY <1>1, <2>3, <3>1 DEF Requests!Fail
    <3> QED
      BY <3>2 DEF Implements, Requests!Next
  <2> QED
    BY <2>2, <2>3
<1> QED
  BY <1>2, <1>4, <1>5, <1>6 DEF Inv

LEMMA GoroutineStep ==
    ASSUME Inv, NEW c \in Goroutines, Step(c)
    PROVE  Inv' /\ Implements
<1>1. \/ Lock(c) \/ Store(c)
      \/ SendRequestStdio(c) \/ Receive(c) \/ GiveUp(c, "broken") \/ Remove(c)
      \/ SendRequest(c) \/ HttpOk(c) \/ RefreshToken(c)
      \/ \E why : HttpError(c, why)
  BY DEF Step, HttpRefused, HttpTimeout
<1> QED
  BY <1>1, LockStep, StoreStep, SendRequestStdioStep, ReceiveStep, GiveUpStep, RemoveStep,
     SendRequestStep, HttpOkStep, RefreshTokenStep, HttpErrorStep

LEMMA CallerStep ==
    ASSUME Inv, NEW c \in Callers, Operation(c) \/ ContextDone(c)
    PROVE  Inv' /\ Implements
<1>1. c \in Goroutines
  BY DEF Goroutines
<1>2. \/ Operation(c) \/ GiveUp(c, "wait")
      \/ \E why : HttpError(c, why)
  BY DEF ContextDone
<1> QED
  BY <1>1, <1>2, OperationStep, GiveUpStep, HttpErrorStep

LEMMA ServerStep ==
    ASSUME Inv, NEW s \in Servers,
           \/ Reader(s) \/ ListenEnds(s) \/ Responds(s)
           \/ Change(s) \/ Expire(s) \/ GoSilent(s)
           \/ Connect(s) \/ StartFails(s) \/ Disconnect(s)
    PROVE  Inv' /\ Implements
<1>1. CASE Responds(s)
  BY <1>1, AnswerStep, HandleStep DEF Responds
<1>2. CASE Reader(s)
  BY <1>2, DeliverStep, HttpNotifiedStep DEF Reader
<1> QED
  BY <1>1, <1>2, ListenEndsStep, ChangeStep, ConnectStep, QuietStep

LEMMA NextStep == Inv /\ Next => Inv' /\ Implements
<1> SUFFICES ASSUME Inv, Next PROVE Inv' /\ Implements
  OBVIOUS
<1>1. \/ \E c \in Callers : Operation(c) \/ ContextDone(c)
      \/ \E c \in Goroutines : Step(c)
      \/ \E s \in Servers :
            \/ Reader(s) \/ ListenEnds(s) \/ Responds(s)
            \/ Change(s) \/ Expire(s) \/ GoSilent(s)
            \/ Connect(s) \/ StartFails(s) \/ Disconnect(s)
      \/ \E s \in Stdio : Unblock(s)
      \/ GetTools \/ ShutdownAll \/ Exit
  BY DEF Next
<1> QED
  BY <1>1, CallerStep, GoroutineStep, ServerStep, UnblockStep, GetToolsStep, QuietStep, ExitStep

LEMMA StutterStep == Inv /\ UNCHANGED vars => Inv' /\ Implements
<1> SUFFICES ASSUME Inv, UNCHANGED vars PROVE Inv' /\ Implements
  OBVIOUS
<1>1. UNCHANGED <<call, runs, slots, stuck, out, version, answered, asked>>
  BY DEF vars, pipe, server
<1>2. DOMAIN asked' = Servers
  BY <1>1 DEF Inv, Shapes
<1> QED
  BY <1>1, <1>2, OtherStep

LEMMA InitImplements == Init => Requests!Init
  BY DEF Init, Requests!Init, Waiting, Idle

\* Every request is executed at most once, through session renewals, refreshed
\* tokens and answers that come twice or too late, and what is returned to a
\* caller is the result of its own request (ImplementsRemoteCalls).
THEOREM ClientImplementsCalls == Spec => ImplementsRemoteCalls
<1>1. Inv /\ [Next]_vars => Inv' /\ Implements
  BY NextStep, StutterStep
<1>2. Init => Inv
  BY Initial
<1>3. Implements <=> [Requests!Next]_(Requests!vars)
  BY DEF Implements
<1> QED
  BY <1>1, <1>2, <1>3, InitImplements, PTL DEF Spec, ImplementsRemoteCalls, Requests!Spec

-----------------------------------------------------------------------------
(* A cached list is never older than what the client was told of.  The     *)
(* argument: whatever the client is told, the generation moves; so as long *)
(* as the generation a caller read is the current one, every line and      *)
(* reply that is on its way to it is as new as what was told (Fresh), for  *)
(* a server never answers with a list older than one it has told of        *)
(* (Sound).                                                                *)

\* What servers have sent is no newer than what they have.
Sound ==
    /\ gen \in Nat /\ DOMAIN cache = Servers /\ DOMAIN told = Servers
    /\ \A s \in Servers :
        /\ cache[s].gen \in Int /\ cache[s].gen <= gen
        /\ told[s] \in Nat /\ told[s] <= version[s]
        /\ \A k \in 1..Len(out[s]) : out[s][k].version <= version[s]

\* The answers to a request on their way through the pipe of a server are of
\* this version at least.
Since(s, id, v) ==
    /\ \A k \in 1..Len(out[s]) : out[s][k].id = id => out[s][k].version >= v
    /\ stuck[s] # << >> /\ stuck[s][1].id = id => stuck[s][1].version >= v
    /\ \A i \in DOMAIN slots[s] :
           i = id /\ slots[s][i] # << >> => slots[s][i][1].version >= v

\* What a caller has of a list, or is being sent, while the generation it read
\* is the current one.
Fresh(c) ==
    LET r == call[c] IN
    /\ r.pc = "store" => r.op = "resources"
    /\ r.op = "resources" =>
        /\ r.srv \in Servers /\ r.gen \in Nat /\ r.gen <= gen
        /\ r.gen = gen =>
            /\ r.pc = "store" \/ r.page # 0 => r.first >= told[r.srv]
            /\ r.reply.status = "ok" => r.reply.version >= told[r.srv]
            /\ r.pc = "wait" => Since(r.srv, r.id, told[r.srv])

\* A request is posted to the server it is for.
Asked ==
    \A s \in Servers : \A q \in asked[s] : \A c \in Goroutines :
        call[c].of = q.of => call[c].srv = s

FInv == Sound /\ FreshList /\ Asked /\ \A c \in Goroutines : Fresh(c)

-----------------------------------------------------------------------------
(* The records of the calls.                                               *)

LEMMA BareKeeps ==
    ASSUME NEW r, DOMAIN r = Fields
    PROVE  /\ Bare(r).op = r.op /\ Bare(r).srv = r.srv /\ Bare(r).gen = r.gen
           /\ Bare(r).page = r.page /\ Bare(r).first = r.first /\ DOMAIN Bare(r) = Fields
           /\ Bare(r).reply.status = "none"
  BY DEF Bare, NoReply, Fields

LEMMA VisitKeeps ==
    ASSUME NEW r, NEW s, DOMAIN r = Fields
    PROVE  Visit(r, s).op = r.op /\ Visit(r, s).pc = "lock"
<1> DEFINE b == Bare(r)
<1>1. b.op = r.op /\ DOMAIN b = Fields
  BY BareKeeps
<1>2. Visit(r, s) = [b EXCEPT !.pc = "lock", !.srv = s, !.left = @ \ {s}, !.page = 0]
  BY DEF Visit
<1> HIDE DEF b
<1> QED
  BY <1>1, <1>2 DEF Fields

LEMMA DoneLeaves ==
    ASSUME Shapes, NEW c \in Goroutines, Done(c)
    PROVE  call'[c].op # "resources" /\ call'[c].pc # "store"
<1>1. DOMAIN call = Goroutines /\ DOMAIN call[c] = Fields
  BY DEF Shapes
<1>2. CASE call[c].op \in Visits /\ \E s \in call[c].left : Becomes(c, Visit(call[c], s))
  BY <1>1, <1>2, VisitKeeps, BecomesThis DEF Visits
<1>3. CASE Becomes(c, Idle)
  BY <1>1, <1>3, BecomesThis DEF Idle
<1> QED
  BY <1>2, <1>3 DEF Done

LEMMA FailedLeaves ==
    ASSUME Shapes, NEW c \in Goroutines, Failed(c)
    PROVE  call'[c].op # "resources" /\ call'[c].pc # "store"
<1>1. CASE Becomes(c, Idle)
  BY <1>1, BecomesThis DEF Idle, Shapes
<1>2. CASE Done(c)
  BY <1>2, DoneLeaves
<1> QED
  BY <1>1, <1>2 DEF Failed

\* The record of a call goes on with what it has.
LEMMA GoesOn ==
    ASSUME NEW c \in Goroutines, Fresh(c), UNCHANGED <<gen, told>>,
           call'[c].op = call[c].op, call'[c].srv = call[c].srv,
           call'[c].gen = call[c].gen, call'[c].page = call[c].page,
           call'[c].first = call[c].first,
           call'[c].reply.status = "none" \/ call'[c].reply = call[c].reply,
           call'[c].pc \notin {"store", "wait"}
    PROVE  Fresh(c)'
  BY DEF Fresh

LEMMA AnsweredFresh ==
    ASSUME Inv, NEW c \in Goroutines, Fresh(c), Answered(c), UNCHANGED <<gen, told>>,
           call[c].reply.status = "ok"
    PROVE  Fresh(c)'
<1> DEFINE r == call[c]
           first == IF r.page = 0 THEN r.reply.version ELSE r.first
           b == Bare(r)
<1>1. DOMAIN call = Goroutines /\ DOMAIN r = Fields /\ Shapes
  BY DEF Inv, Shapes
<1>2. /\ b.op = r.op /\ b.srv = r.srv /\ b.gen = r.gen /\ DOMAIN b = Fields
      /\ b.reply.status = "none"
  BY <1>1, BareKeeps
<1>3. \/ Becomes(c, [b EXCEPT !.pc = "ask", !.page = @ + 1, !.first = first])
      \/ /\ r.op = "resources"
         /\ Becomes(c, [b EXCEPT !.pc = "store", !.first = first])
      \/ Done(c)
  BY DEF Answered
<1>4. r.op = "resources" /\ r.gen = gen => first >= told[r.srv]
  BY DEF Fresh
<1> HIDE DEF b, first
<1>5. ASSUME NEW x, Becomes(c, x), x.op = r.op, x.srv = r.srv, x.gen = r.gen, x.first = first,
             x.reply.status = "none", x.pc # "wait", x.pc = "store" => x.op = "resources"
      PROVE  Fresh(c)'
  <2>1. call'[c] = x
    BY <1>1, <1>5, BecomesThis
  <2> QED
    BY <1>4, <1>5, <2>1 DEF Fresh
<1>6. CASE Becomes(c, [b EXCEPT !.pc = "ask", !.page = @ + 1, !.first = first])
  <2> DEFINE x == [b EXCEPT !.pc = "ask", !.page = @ + 1, !.first = first]
  <2>1. /\ x.op = r.op /\ x.srv = r.srv /\ x.gen = r.gen /\ x.first = first
        /\ x.reply.status = "none" /\ x.pc = "ask"
    BY <1>2 DEF Fields
  <2> QED
    BY <1>5, <1>6, <2>1
<1>7. CASE r.op = "resources" /\ Becomes(c, [b EXCEPT !.pc = "store", !.first = first])
  <2> DEFINE x == [b EXCEPT !.pc = "store", !.first = first]
  <2>1. /\ x.op = r.op /\ x.srv = r.srv /\ x.gen = r.gen /\ x.first = first
        /\ x.reply.status = "none" /\ x.pc # "wait"
    BY <1>2 DEF Fields
  <2> QED
    BY <1>5, <1>7, <2>1
<1>8. CASE Done(c)
  BY <1>1, <1>8, DoneLeaves DEF Fresh
<1> QED
  BY <1>3, <1>6, <1>7, <1>8

-----------------------------------------------------------------------------
(* What a step of one call leaves as it is.                                *)

\* Nothing comes through the pipes.
Calm ==
    /\ UNCHANGED <<gen, cache, told, version, out, stuck>>
    /\ \A t \in Stdio : \A i \in DOMAIN slots'[t] :
           slots'[t][i] = << >> \/ (i \in DOMAIN slots[t] /\ slots'[t][i] = slots[t][i])

LEMMA CalmKeeps ==
    ASSUME Calm, NEW s \in Stdio, NEW id, NEW v, Since(s, id, v)
    PROVE  Since(s, id, v)'
  BY DEF Calm, Since

LEMMA WaitsForPipe ==
    ASSUME Inv, NEW c \in Goroutines, call[c].pc = "wait"
    PROVE  call[c].srv \in Stdio /\ call[c].id \in 1..made
  BY PipedAt DEF Piped

LEMMA CallKeeps ==
    ASSUME Inv, FInv, NEW c \in Goroutines, Others(c), Calm, Fresh(c)', Asked'
    PROVE  FInv'
<1>1. Sound' /\ FreshList'
  BY DEF FInv, Sound, FreshList, Hit, Calm
<1>2. ASSUME NEW d \in Goroutines \ {c}
      PROVE  Fresh(d)'
  <2>1. Fresh(d) /\ call'[d] = call[d] /\ UNCHANGED <<gen, told>>
    BY DEF FInv, Others, Calm
  <2>2. call[d].pc = "wait" /\ Since(call[d].srv, call[d].id, told[call[d].srv])
        => Since(call[d].srv, call[d].id, told[call[d].srv])'
    <3>1. call[d].pc = "wait" => call[d].srv \in Stdio
      BY WaitsForPipe
    <3> QED
      BY <2>1, <3>1, CalmKeeps
  <2> QED
    BY <2>1, <2>2 DEF Fresh
<1> QED
  BY <1>1, <1>2 DEF FInv

LEMMA AskedStays ==
    ASSUME Inv, Asked, NEW c \in Goroutines, Others(c),
           \A s \in Servers : asked'[s] \subseteq asked[s],
           call'[c].of = 0 \/ (call'[c].of = call[c].of /\ call'[c].srv = call[c].srv)
    PROVE  Asked'
<1>1. \A s \in Servers : \A q \in asked[s] : q.of # 0
  BY DEF Inv, Posts, Owed
<1> QED
  BY <1>1 DEF Asked, Others

LEMMA AskedGrows ==
    ASSUME Asked, Inv', NEW c \in Goroutines, Others(c),
           \A s \in Servers : \A q \in asked'[s] :
               q \in asked[s] \/ (s = call'[c].srv /\ q.of = call'[c].of),
           \A s \in Servers : \A q \in asked[s] : q.of # call'[c].of
    PROVE  Asked'
<1> SUFFICES ASSUME NEW s \in Servers, NEW q \in asked'[s], NEW d \in Goroutines,
                    call'[d].of = q.of
             PROVE  call'[d].srv = s
  BY DEF Asked
<1>1. q.of # 0
  BY DEF Inv, Posts, Owed
<1>2. CASE d = c
  BY <1>2
<1>3. CASE d # c
  <2>1. call'[d] = call[d]
    BY <1>3 DEF Others
  <2>2. q.of # call'[c].of
    BY <1>1, <1>3 DEF Inv, Apart
  <2> QED
    BY <2>1, <2>2 DEF Asked
<1> QED
  BY <1>2, <1>3

\* A step of a call whose request is over.
LEMMA FreesFresh ==
    ASSUME Inv, FInv, NEW c \in Goroutines, Others(c), Calm, Fresh(c)', UNCHANGED asked,
           call'[c].of = 0
    PROVE  FInv'
  BY AskedStays, CallKeeps DEF FInv

LEMMA CalmWhenUnchanged ==
    ASSUME UNCHANGED <<gen, cache, told, version, out, stuck, slots>>
    PROVE  Calm
  BY DEF Calm

-----------------------------------------------------------------------------
(* Steps of a goroutine that waits for nothing.                            *)

LEMMA LockFresh ==
    ASSUME Inv, FInv, NEW c \in Goroutines, Lock(c)
    PROVE  FInv'
<1>1. /\ UNCHANGED <<gen, cache, told, version, out, stuck, slots, asked>>
      /\ call[c].pc = "lock"
  BY DEF Lock, pipe, lists, server, At
<1>2. /\ Clear(call[c]) /\ DOMAIN call[c] = Fields /\ DOMAIN call = Goroutines
      /\ Shapes /\ Fresh(c)
  BY <1>1, AtIsClear DEF Inv, Shapes, FInv
<1>3. CASE Becomes(c, [call[c] EXCEPT !.pc = "ask"])
  <2> DEFINE x == [call[c] EXCEPT !.pc = "ask"]
  <2>1. Others(c) /\ call'[c] = x
    BY <1>2, <1>3, BecomesThis DEF Others
  <2>2. /\ x.op = call[c].op /\ x.srv = call[c].srv /\ x.gen = call[c].gen
        /\ x.page = call[c].page /\ x.first = call[c].first /\ x.reply = call[c].reply
        /\ x.pc = "ask" /\ x.of = call[c].of
    BY <1>2 DEF Fields
  <2> HIDE DEF x
  <2>3. Fresh(c)'
    BY <1>1, <1>2, <2>1, <2>2, GoesOn
  <2> QED
    BY <1>1, <1>2, <2>1, <2>2, <2>3, CalmWhenUnchanged, FreesFresh DEF Clear
<1>4. CASE Done(c)
  <2>1. Others(c) /\ call'[c].of = 0
    BY <1>2, <1>4, DoneFrees DEF Frees, Others, Clear
  <2>2. Fresh(c)'
    BY <1>2, <1>4, DoneLeaves DEF Fresh
  <2> QED
    BY <1>1, <2>1, <2>2, CalmWhenUnchanged, FreesFresh
<1> QED
  BY <1>3, <1>4 DEF Lock

LEMMA StoreFresh ==
    ASSUME Inv, FInv, NEW c \in Goroutines, Store(c)
    PROVE  FInv'
<1> DEFINE r == call[c]
<1>1. /\ r.pc = "store" /\ cache' = [cache EXCEPT ![r.srv] = [gen |-> r.gen, version |-> r.first]]
      /\ UNCHANGED <<gen, told, version, out, stuck, slots, asked>> /\ Becomes(c, Idle)
  BY DEF Store, StoreWith, pipe, server, At
<1>2. /\ r.srv \in Servers /\ r.gen \in Nat /\ r.gen <= gen
      /\ r.gen = gen => r.first >= told[r.srv]
  BY <1>1 DEF FInv, Fresh
<1>3. Others(c) /\ call'[c] = Idle
  BY <1>1, BecomesThis DEF Others, Inv, Shapes
<1>4. DOMAIN cache = Servers
  BY DEF FInv, Sound
<1>5. /\ cache'[r.srv].gen = r.gen /\ cache'[r.srv].version = r.first
      /\ DOMAIN cache' = Servers
      /\ \A s \in Servers \ {r.srv} : cache'[s] = cache[s]
  BY <1>1, <1>2, <1>4
<1>6. Sound' /\ FreshList'
  BY <1>1, <1>2, <1>5 DEF FInv, Sound, FreshList, Hit
<1>7. Asked'
  BY <1>1, <1>3, AskedStays DEF FInv, Idle
<1>8. ASSUME NEW d \in Goroutines PROVE Fresh(d)'
  <2>1. Fresh(d) /\ (d = c => call'[d].op = "none" /\ call'[d].pc = "idle") /\ (d # c => call'[d] = call[d])
    BY <1>3 DEF FInv, Others, Idle
  <2> QED
    BY <1>1, <2>1 DEF Fresh, Since
<1> QED
  BY <1>6, <1>7, <1>8 DEF FInv

LEMMA BeginFresh ==
    ASSUME Inv, FInv, NEW c \in Goroutines, NEW r, Begin(c, r), r.of = 0, r.pc = "lock",
           r.op = "resources" =>
               /\ r.srv \in Servers /\ r.gen = gen /\ r.page = 0
               /\ r.reply.status = "none"
    PROVE  FInv'
<1>1. /\ UNCHANGED <<gen, cache, told, version, out, stuck, slots, asked>>
      /\ Becomes(c, r)
  BY DEF Begin, pipe, lists, server
<1>2. Others(c) /\ call'[c] = r
  BY <1>1, BecomesThis DEF Others, Inv, Shapes
<1>3. Fresh(c)'
  BY <1>1, <1>2 DEF Fresh, FInv, Sound
<1> QED
  BY <1>1, <1>2, <1>3, CalmWhenUnchanged, FreesFresh

LEMMA OperationFresh ==
    ASSUME Inv, FInv, NEW c \in Goroutines, Operation(c)
    PROVE  FInv'
<1>1. ASSUME NEW s \in Servers, Single(c, s)
      PROVE  FInv'
  <2> DEFINE x == [Idle EXCEPT !.pc = "lock", !.op = "call", !.srv = s]
  <2>1. x.of = 0 /\ x.op = "call" /\ x.pc = "lock"
    BY DEF Idle
  <2>2. Begin(c, x)
    BY <1>1 DEF Single
  <2> HIDE DEF x
  <2> QED
    BY <2>1, <2>2, BeginFresh
<1>2. ASSUME NEW s \in Servers, GetResources(c, s)
      PROVE  FInv'
  <2> DEFINE x == [Idle EXCEPT !.pc = "lock", !.op = "resources", !.srv = s, !.gen = gen]
  <2>1. /\ x.of = 0 /\ x.srv = s /\ x.gen = gen /\ x.page = 0 /\ x.pc = "lock"
        /\ x.reply.status = "none"
    BY DEF Idle, NoReply
  <2>2. Begin(c, x)
    BY <1>2 DEF GetResources
  <2> HIDE DEF x
  <2> QED
    BY <2>1, <2>2, BeginFresh
<1>3. ASSUME All(c)
      PROVE  FInv'
  <2> DEFINE x == [Idle EXCEPT !.op = "templates", !.left = Servers]
  <2>1. PICK s \in Servers : Begin(c, Visit(x, s))
    BY <1>3 DEF All
  <2>2. DOMAIN x = Fields /\ x.op = "templates"
    BY DEF Idle, Fields
  <2> HIDE DEF x
  <2>3. Visit(x, s).of = 0 /\ Visit(x, s).op = "templates" /\ Visit(x, s).pc = "lock"
    BY <2>2, VisitIsClear, VisitKeeps DEF Clear
  <2> QED
    BY <2>1, <2>3, BeginFresh
<1>4. \/ All(c)
      \/ \E s \in Servers : Single(c, s) \/ GetResources(c, s)
  BY DEF Operation, CallTool, ReadResource, GetPrompt, SubscribeResource,
         UnsubscribeResource, ListTasks, CreateTask, GetTask, CancelTask,
         GetPrompts, GetResourceTemplates
<1> QED
  BY <1>1, <1>2, <1>3, <1>4

LEMMA ConnectFresh ==
    ASSUME Inv, FInv, NEW s \in Servers, Connect(s)
    PROVE  FInv'
<1>1. /\ UNCHANGED <<gen, cache, told, version, out, stuck, slots, asked>>
      /\ Becomes(Main, Handshake(s)) /\ Main \in Goroutines
  BY DEF Connect, pipe, lists, server, Goroutines
<1>2. Others(Main) /\ call'[Main] = Handshake(s)
  BY <1>1, BecomesThis DEF Others, Inv, Shapes
<1>3. call'[Main].op = "initialize" /\ call'[Main].of = 0 /\ call'[Main].pc = "ask"
  BY <1>2 DEF Handshake, Idle
<1>4. Fresh(Main)'
  BY <1>3 DEF Fresh
<1> QED
  BY <1>1, <1>2, <1>3, <1>4, CalmWhenUnchanged, FreesFresh

-----------------------------------------------------------------------------
(* Requests over pipes.                                                    *)

LEMMA SendRequestStdioFresh ==
    ASSUME Inv, Inv', FInv, NEW c \in Goroutines, SendRequestStdio(c)
    PROVE  FInv'
<1> DEFINE s == call[c].srv
           n == made + 1
           x == [call[c] EXCEPT !.pc = "wait", !.of = n, !.id = n]
           y == [call[c] EXCEPT !.pc = "broken", !.of = n, !.id = n]
<1>1. /\ DOMAIN call[c] = Fields /\ DOMAIN call = Goroutines /\ made \in Nat
      /\ DOMAIN slots = Stdio /\ DOMAIN asked = Servers /\ call[c].reply.status = "none"
  <2>1. call[c].pc = "ask"
    BY DEF SendRequestStdio, At
  <2>2. Clear(call[c]) /\ DOMAIN call[c] = Fields
    BY <2>1, AtIsClear
  <2> QED
    BY <2>2 DEF Inv, Shapes, made, Clear
<1>2. /\ s \in Stdio /\ s \in Servers /\ Channel(s, n, << >>)
      /\ UNCHANGED <<gen, cache, told, version, out, stuck>>
  BY DEF SendRequestStdio, NextJSONID, Servers, lists
<1>3. \/ /\ asked' = [asked EXCEPT ![s] = @ \cup {[of |-> n, id |-> n]}] /\ Becomes(c, x)
      \/ UNCHANGED asked /\ Becomes(c, y)
  BY DEF SendRequestStdio, NextJSONID
<1>4. /\ Others(c) /\ call'[c].of = n /\ call'[c].id = n /\ call'[c].srv = s
      /\ call'[c].op = call[c].op /\ call'[c].gen = call[c].gen
      /\ call'[c].page = call[c].page /\ call'[c].first = call[c].first
      /\ call'[c].reply = call[c].reply /\ call'[c].pc \in {"wait", "broken"}
  <2>1. DOMAIN call' = Goroutines /\ \A d \in Goroutines \ {c} : call'[d] = call[d]
    BY <1>1, <1>3, BecomesThis
  <2>2. call'[c] = x \/ call'[c] = y
    BY <1>1, <1>3, BecomesThis
  <2> QED
    BY <1>1, <2>1, <2>2 DEF Others, Fields
<1>5. /\ \A t \in Stdio : t # s => slots'[t] = slots[t]
      /\ DOMAIN slots'[s] = DOMAIN slots[s] \cup {n} /\ slots'[s][n] = << >>
      /\ \A i \in DOMAIN slots[s] : i # n => slots'[s][i] = slots[s][i]
  BY <1>1, <1>2, ChannelIs
<1>6. Calm
  BY <1>2, <1>5 DEF Calm
<1>7. Since(call[c].srv, call[c].id, told[call[c].srv])'
  <2>1. \A l : Genuine(l) => l.id # n
    BY <1>1 DEF Genuine
  <2>2. n # 0
    BY <1>1
  <2>3. \A k \in 1..Len(out[s]) : out[s][k].id # n
    BY <1>2, <2>1, <2>2 DEF Inv, Lines
  <2>4. stuck[s] # << >> => stuck[s][1].id # n
    BY <1>2, <2>1 DEF Inv, Lines
  <2> QED
    BY <1>2, <1>4, <1>5, <2>3, <2>4 DEF Since
<1>8. Fresh(c)'
  BY <1>1, <1>2, <1>4, <1>7 DEF FInv, Fresh
<1>9. Asked'
  <2>1. \A t \in Servers : \A q \in asked'[t] :
            q \in asked[t] \/ (t = call'[c].srv /\ q.of = call'[c].of)
    BY <1>1, <1>2, <1>3, <1>4
  <2>2. \A t \in Servers : \A q \in asked[t] : q.of # call'[c].of
    <3>1. \A m \in 1..made : m # n
      BY <1>1
    <3> QED
      BY <1>4, <3>1 DEF Inv, Posts, Owed
  <2> QED
    BY <1>4, <2>1, <2>2, AskedGrows DEF FInv
<1> QED
  BY <1>4, <1>6, <1>8, <1>9, CallKeeps

LEMMA ReceiveFresh ==
    ASSUME Inv, FInv, NEW c \in Goroutines, Receive(c)
    PROVE  FInv'
<1> DEFINE r == call[c]
           l == slots[r.srv][r.id][1]
           reply == [NoReply EXCEPT !.status = "ok", !.version = l.version]
           x == [r EXCEPT !.pc = "remove", !.of = 0, !.reply = reply]
<1>1. /\ Piped(r) /\ DOMAIN call = Goroutines /\ DOMAIN r = Fields /\ r.pc = "wait"
      /\ DOMAIN slots = Stdio /\ r.id \in DOMAIN slots[r.srv]
  BY PipedAt DEF Receive, At
<1>2. /\ Becomes(c, x) /\ Channel(r.srv, r.id, << >>) /\ slots[r.srv][r.id] # << >>
      /\ UNCHANGED <<gen, cache, told, version, out, stuck, asked>>
  BY <1>1 DEF Receive, Waits, At, server, lists
<1>3. reply.version = l.version
  BY DEF NoReply
<1>4. r.op = "resources" /\ r.gen = gen => l.version >= told[r.srv]
  BY <1>1, <1>2 DEF FInv, Fresh, Since
<1> HIDE DEF reply, l
<1>5. Others(c) /\ call'[c] = x
  BY <1>1, <1>2, BecomesThis DEF Others
<1>6. /\ x.op = r.op /\ x.srv = r.srv /\ x.gen = r.gen /\ x.page = r.page
      /\ x.first = r.first /\ x.reply = reply /\ x.pc = "remove" /\ x.of = 0
  BY <1>1 DEF Fields
<1> HIDE DEF x
<1>7. Fresh(c)'
  BY <1>2, <1>3, <1>4, <1>5, <1>6 DEF Fresh, FInv
<1>8. Calm
  <2>1. r.srv \in Stdio
    BY <1>1 DEF Piped
  <2> QED
    BY <1>1, <1>2, <2>1, ChannelIs DEF Calm
<1> QED
  BY <1>2, <1>5, <1>6, <1>7, <1>8, FreesFresh

LEMMA GiveUpFresh ==
    ASSUME Inv, FInv, NEW c \in Goroutines, NEW place \in {"wait", "broken"}, GiveUp(c, place)
    PROVE  FInv'
<1> DEFINE r == call[c]
           x == [r EXCEPT !.pc = "remove", !.of = 0]
<1>1. DOMAIN call = Goroutines /\ DOMAIN r = Fields
  BY DEF Inv, Shapes
<1>2. Becomes(c, x) /\ UNCHANGED <<gen, cache, told, version, out, stuck, slots, asked>>
  BY DEF GiveUp, pipe, server, lists
<1>3. Others(c) /\ call'[c] = x
  BY <1>1, <1>2, BecomesThis DEF Others
<1>4. /\ x.op = r.op /\ x.srv = r.srv /\ x.gen = r.gen /\ x.page = r.page
      /\ x.first = r.first /\ x.reply = r.reply /\ x.pc = "remove" /\ x.of = 0
  BY <1>1 DEF Fields
<1> HIDE DEF x
<1>5. Fresh(c)'
  BY <1>2, <1>3, <1>4, GoesOn DEF FInv
<1> QED
  BY <1>2, <1>3, <1>4, <1>5, CalmWhenUnchanged, FreesFresh

LEMMA RemoveFresh ==
    ASSUME Inv, FInv, NEW c \in Goroutines, Remove(c)
    PROVE  FInv'
<1> DEFINE r == call[c]
<1>1. DOMAIN slots = Stdio /\ Shapes /\ Fresh(c)
  BY DEF Inv, Shapes, FInv
<1>2. /\ slots' = [slots EXCEPT ![r.srv] = [i \in DOMAIN @ \ {r.id} |-> @[i]]]
      /\ UNCHANGED <<gen, cache, told, version, out, stuck, asked>>
      /\ IF r.reply.status = "ok" THEN Answered(c) ELSE Failed(c)
  BY DEF Remove, server, lists
<1>3. Others(c) /\ call'[c].of = 0
  BY <1>1, <1>2, AnsweredFrees, FailedFrees DEF Frees, Others, Clear
<1>4. Calm
  BY <1>1, <1>2 DEF Calm
<1>5. Fresh(c)'
  <2>1. CASE r.reply.status = "ok"
    BY <1>1, <1>2, <2>1, AnsweredFresh
  <2>2. CASE r.reply.status # "ok"
    BY <1>1, <1>2, <2>2, FailedLeaves DEF Fresh
  <2> QED
    BY <2>1, <2>2
<1> QED
  BY <1>2, <1>3, <1>4, <1>5, FreesFresh

-----------------------------------------------------------------------------
(* Requests over HTTP.                                                     *)

\* The call goes on with another post.
LEMMA PostFresh ==
    ASSUME Inv, Inv', FInv, NEW c \in Goroutines, NEW x, NEW opens, Post(c, x, opens),
           x.op = call[c].op, x.srv = call[c].srv, x.gen = call[c].gen,
           x.page = call[c].page, x.first = call[c].first,
           x.reply.status = "none", x.pc = "posted",
           UNCHANGED <<gen, cache, told, stuck, slots>>,
           \A s \in Servers : \A q \in asked[s] : q.of # x.of
    PROVE  FInv'
<1> DEFINE q == [of |-> x.of, by |-> c, try |-> x.try, with |-> x.with, opens |-> opens]
<1>1. Others(c) /\ call'[c] = x /\ UNCHANGED <<out, version>>
  BY BecomesThis DEF Post, Others, Inv, Shapes
<1>2. asked' = [asked EXCEPT ![x.srv] = @ \cup {q}] /\ q.of = x.of
  BY DEF Post
<1> HIDE DEF q
<1>3. \A s \in Servers : \A p \in asked'[s] : p \in asked[s] \/ (s = x.srv /\ p.of = x.of)
  BY <1>2 DEF Inv, Shapes
<1>4. Asked'
  BY <1>1, <1>3, AskedGrows DEF FInv
<1>5. Fresh(c)'
  BY <1>1, GoesOn DEF FInv
<1> QED
  BY <1>1, <1>4, <1>5, CalmWhenUnchanged, CallKeeps

LEMMA NewNumber ==
    ASSUME Inv, NEW s \in Servers, NEW q \in asked[s]
    PROVE  q.of # made + 1
<1>1. q.of \in 1..made /\ made \in Nat
  BY DEF Inv, Posts, Owed, Shapes, made
<1> QED
  BY <1>1

LEMMA SendRequestFresh ==
    ASSUME Inv, Inv', FInv, NEW c \in Goroutines, SendRequest(c)
    PROVE  FInv'
<1> DEFINE r == call[c]
           n == made + 1
           x == [r EXCEPT !.pc = "posted", !.of = n, !.try = 1, !.with = session[r.srv]]
<1>1. Clear(r) /\ DOMAIN r = Fields
  <2>1. r.pc = "ask"
    BY DEF SendRequest, At
  <2> QED
    BY <2>1, AtIsClear
<1>2. UNCHANGED <<gen, cache, told, stuck, slots>> /\ \E opens : Post(c, x, opens)
  BY DEF SendRequest, pipe, lists
<1>3. /\ x.op = r.op /\ x.srv = r.srv /\ x.gen = r.gen /\ x.page = r.page
      /\ x.first = r.first /\ x.reply.status = "none" /\ x.pc = "posted" /\ x.of = n
  BY <1>1 DEF Fields, Clear
<1> HIDE DEF x
<1> QED
  BY <1>2, <1>3, NewNumber, PostFresh

LEMMA RefreshTokenFresh ==
    ASSUME Inv, Inv', FInv, NEW c \in Goroutines, RefreshToken(c)
    PROVE  FInv'
<1> DEFINE r == call[c]
           x == [r EXCEPT !.try = @ + 2, !.auth = TRUE, !.reply = NoReply]
<1>1. /\ r.pc = "posted" /\ r.reply.status = "denied"
      /\ UNCHANGED <<gen, cache, told, stuck, slots>> /\ \E opens : Post(c, x, opens)
  BY DEF RefreshToken, Replied, At, pipe, lists
<1>2. DOMAIN call = Goroutines /\ DOMAIN r = Fields
  BY DEF Inv, Shapes
<1>3. /\ x.op = r.op /\ x.srv = r.srv /\ x.gen = r.gen /\ x.page = r.page
      /\ x.first = r.first /\ x.reply.status = "none" /\ x.pc = r.pc /\ x.of = r.of
      /\ x.kept = r.kept
  BY <1>2 DEF NoReply, Fields
<1> HIDE DEF x
<1>4. call'[c] = x
  BY <1>1, <1>2, BecomesThis DEF Post
<1>5. \A s \in Servers : \A q \in asked[s] : q.of # x.of
  BY <1>1, <1>3, <1>4, AgainIsNew DEF Again
<1> QED
  BY <1>1, <1>3, <1>5, PostFresh

LEMMA HttpOkFresh ==
    ASSUME Inv, Inv', FInv, NEW c \in Goroutines, HttpOk(c)
    PROVE  FInv'
<1> DEFINE r == call[c]
<1>1. /\ r.pc = "posted" /\ r.reply.status = "ok"
      /\ UNCHANGED <<gen, cache, told, stuck, slots>>
  BY DEF HttpOk, Replied, At, pipe, lists
<1>2. DOMAIN call = Goroutines /\ DOMAIN r = Fields /\ Shapes
  BY DEF Inv, Shapes
<1>3. CASE r.kept = 0
  <2>1. Answered(c) /\ UNCHANGED <<out, version, asked>>
    BY <1>3 DEF HttpOk, server
  <2>2. Others(c) /\ call'[c].of = 0
    BY <1>2, <2>1, AnsweredFrees DEF Frees, Others, Clear
  <2>3. Fresh(c)'
    BY <1>1, <2>1, AnsweredFresh DEF FInv
  <2> QED
    BY <1>1, <2>1, <2>2, <2>3, CalmWhenUnchanged, FreesFresh
<1>4. CASE r.kept # 0
  <2> DEFINE x == [r EXCEPT !.of = r.kept, !.kept = 0, !.try = 2, !.again = TRUE,
                            !.auth = FALSE, !.reply = NoReply, !.with = session'[r.srv]]
  <2>1. Post(c, x, FALSE)
    BY <1>4 DEF HttpOk
  <2>2. /\ x.op = r.op /\ x.srv = r.srv /\ x.gen = r.gen /\ x.page = r.page
        /\ x.first = r.first /\ x.reply.status = "none" /\ x.pc = r.pc /\ x.of = r.kept
        /\ x.kept = 0
    BY <1>2 DEF NoReply, Fields
  <2> HIDE DEF x
  <2>3. call'[c] = x
    BY <1>2, <2>1, BecomesThis DEF Post
  <2>4. \A s \in Servers : \A q \in asked[s] : q.of # x.of
    BY <1>1, <1>4, <2>2, <2>3, AgainIsNew DEF Again
  <2> QED
    BY <1>1, <2>1, <2>2, <2>4, PostFresh
<1> QED
  BY <1>3, <1>4

LEMMA HttpErrorFresh ==
    ASSUME Inv, Inv', FInv, NEW c \in Goroutines, NEW why, HttpError(c, why)
    PROVE  FInv'
<1> DEFINE r == call[c]
           n == made + 1
           x == [r EXCEPT !.of = n, !.kept = r.of, !.try = 1, !.auth = FALSE,
                          !.reply = NoReply, !.with = session'[r.srv]]
<1>1. /\ r.pc = "posted" /\ UNCHANGED <<gen, cache, told, stuck, slots>>
      /\ Post(c, x, TRUE) \/ (Failed(c) /\ UNCHANGED server)
  BY DEF HttpError, At, pipe, lists
<1>2. DOMAIN call = Goroutines /\ DOMAIN r = Fields /\ Shapes
  BY DEF Inv, Shapes
<1>3. CASE Failed(c) /\ UNCHANGED server
  <2>1. UNCHANGED <<out, version, asked>>
    BY <1>3 DEF server
  <2>2. Others(c) /\ call'[c].of = 0
    BY <1>2, <1>3, FailedFrees DEF Frees, Others, Clear
  <2>3. Fresh(c)'
    BY <1>2, <1>3, FailedLeaves DEF Fresh
  <2> QED
    BY <1>1, <2>1, <2>2, <2>3, CalmWhenUnchanged, FreesFresh
<1>4. CASE Post(c, x, TRUE)
  <2>1. /\ x.op = r.op /\ x.srv = r.srv /\ x.gen = r.gen /\ x.page = r.page
        /\ x.first = r.first /\ x.reply.status = "none" /\ x.pc = r.pc /\ x.of = n
    BY <1>2 DEF NoReply, Fields
  <2> HIDE DEF x
  <2> QED
    BY <1>1, <1>4, <2>1, NewNumber, PostFresh
<1> QED
  BY <1>1, <1>3, <1>4

-----------------------------------------------------------------------------
(* The generation moves: nothing that was read before counts any more.     *)

LEMMA GenMoves ==
    ASSUME Inv, FInv, gen' = gen + 1, UNCHANGED <<cache, version>>, DOMAIN told' = Servers,
           \A s \in Servers : told'[s] \in Nat /\ told'[s] <= version[s],
           \A s \in Servers : \A k \in 1..Len(out'[s]) : out'[s][k].version <= version[s],
           \A s \in Servers : asked'[s] \subseteq asked[s],
           \A c \in Goroutines :
               \/ call'[c] = call[c]
               \/ call'[c].op # "resources" /\ call'[c].pc # "store" /\ call'[c].of = 0
    PROVE  FInv'
<1>1. gen \in Nat
  BY DEF FInv, Sound
<1>2. Sound' /\ FreshList'
  <2>1. \A s \in Servers : cache[s].gen \in Int /\ cache[s].gen <= gen
    BY DEF FInv, Sound
  <2>2. \A s \in Servers : cache[s].gen <= gen' /\ cache[s].gen # gen'
    BY <1>1, <2>1
  <2> QED
    BY <1>1, <2>1, <2>2 DEF FInv, Sound, FreshList, Hit
<1>3. Asked'
  <2>1. \A s \in Servers : \A q \in asked[s] : q.of # 0
    BY DEF Inv, Posts, Owed
  <2> QED
    BY <2>1 DEF FInv, Asked
<1>4. ASSUME NEW c \in Goroutines, call'[c] = call[c]
      PROVE  Fresh(c)'
  <2>1. call[c].op = "resources" =>
            /\ call[c].srv \in Servers /\ call[c].gen \in Nat
            /\ call[c].gen <= gen' /\ call[c].gen # gen'
    BY <1>1 DEF FInv, Fresh
  <2>2. call[c].pc = "store" => call[c].op = "resources"
    BY DEF FInv, Fresh
  <2> QED
    BY <1>4, <2>1, <2>2 DEF Fresh
<1>5. ASSUME NEW c \in Goroutines, call'[c].op # "resources", call'[c].pc # "store"
      PROVE  Fresh(c)'
  BY <1>5 DEF Fresh
<1> QED
  BY <1>2, <1>3, <1>4, <1>5 DEF FInv

LEMMA NotifiedFresh ==
    ASSUME Inv, FInv, NEW s \in Servers, out[s] # << >>, Notified(s, Head(out[s])),
           out' = [out EXCEPT ![s] = Tail(@)], UNCHANGED <<call, asked, version>>
    PROVE  FInv'
<1>1. /\ out \in [Servers -> Seq(Line)] /\ version \in [Servers -> Nat]
  BY DEF Inv, Shapes
<1>2. /\ \A t \in Servers \ {s} : out'[t] = out[t]
      /\ Head(out[s]) = out[s][1] /\ 1 \in 1..Len(out[s]) /\ Head(out[s]) \in Line
      /\ \A k \in 1..Len(out'[s]) : \E j \in 1..Len(out[s]) : out'[s][k] = out[s][j]
  BY <1>1, TailLines
<1>3. \A t \in Servers : \A k \in 1..Len(out'[t]) : out'[t][k].version <= version[t]
  <2> SUFFICES ASSUME NEW t \in Servers, NEW k \in 1..Len(out'[t])
               PROVE  out'[t][k].version <= version[t]
    OBVIOUS
  <2>1. CASE t = s
    BY <1>2, <2>1 DEF FInv, Sound
  <2>2. CASE t # s
    BY <1>2, <2>2 DEF FInv, Sound
  <2> QED
    BY <2>1, <2>2
<1>4. Head(out[s]).version \in Nat /\ Head(out[s]).version <= version[s]
  BY <1>2 DEF Line, FInv, Sound
<1>5. gen' = gen + 1 /\ told' = [told EXCEPT ![s] = Head(out[s]).version] /\ UNCHANGED cache
  BY DEF Notified
<1>6. DOMAIN told' = Servers /\ \A t \in Servers : told'[t] \in Nat /\ told'[t] <= version[t]
  BY <1>4, <1>5 DEF FInv, Sound
<1> QED
  BY <1>3, <1>5, <1>6, GenMoves

LEMMA DisconnectFresh ==
    ASSUME Inv, FInv, NEW s \in Servers, Disconnect(s)
    PROVE  FInv'
<1>1. /\ gen' = gen + 1 /\ UNCHANGED <<cache, version, told, out, call>>
      /\ asked' = [asked EXCEPT ![s] = {}]
  BY DEF Disconnect
<1>2. \A t \in Servers : asked'[t] \subseteq asked[t]
  BY <1>1 DEF Inv, Shapes
<1> QED
  BY <1>1, <1>2, GenMoves DEF FInv, Sound

LEMMA GetToolsFresh ==
    ASSUME Inv, FInv, GetTools
    PROVE  FInv'
<1> DEFINE x == [Idle EXCEPT !.op = "tools", !.left = Servers]
<1>1. gen' = gen + 1 /\ UNCHANGED <<cache, version, told, out, asked>> /\ Main \in Goroutines
  BY DEF GetTools, server, Goroutines
<1>2. PICK s \in Servers : Becomes(Main, Visit(x, s))
  BY DEF GetTools
<1>3. DOMAIN x = Fields /\ x.op = "tools"
  BY DEF Idle, Fields
<1> HIDE DEF x
<1>4. /\ \A c \in Goroutines \ {Main} : call'[c] = call[c]
      /\ call'[Main] = Visit(x, s)
  BY <1>1, <1>2, BecomesThis DEF Inv, Shapes
<1>5. Visit(x, s).op = "tools" /\ Visit(x, s).pc = "lock" /\ Visit(x, s).of = 0
  BY <1>3, VisitKeeps, VisitIsClear DEF Clear
<1> QED
  BY <1>1, <1>4, <1>5, GenMoves DEF FInv, Sound

-----------------------------------------------------------------------------
(* What comes through the pipes.                                           *)

LEMMA LinesMove ==
    ASSUME Inv, FInv, Sound', UNCHANGED <<gen, cache, told, call>>,
           \A s \in Servers : asked'[s] \subseteq asked[s],
           \A t \in Stdio : \A id : Since(t, id, told[t]) => Since(t, id, told[t])'
    PROVE  FInv'
<1>1. FreshList' /\ Asked'
  BY DEF FInv, FreshList, Hit, Asked
<1>2. ASSUME NEW c \in Goroutines PROVE Fresh(c)'
  <2>1. call[c].pc = "wait" => call[c].srv \in Stdio
    BY WaitsForPipe
  <2>2. Fresh(c)
    BY DEF FInv
  <2>3. call[c].pc = "wait" /\ Since(call[c].srv, call[c].id, told[call[c].srv])
        => Since(call[c].srv, call[c].id, told[call[c].srv])'
    BY <2>1
  <2> QED
    BY <2>2, <2>3 DEF Fresh
<1> QED
  BY <1>1, <1>2 DEF FInv

LEMMA DeliverFresh ==
    ASSUME Inv, FInv, NEW s \in Servers, Deliver(s)
    PROVE  FInv'
<1> DEFINE l == Head(out[s])
<1>1. /\ s \in Stdio /\ out[s] # << >> /\ out' = [out EXCEPT ![s] = Tail(@)]
      /\ UNCHANGED <<call, asked, version>>
  BY DEF Deliver
<1>2. CASE l.id = 0
  <2>1. Notified(s, l)
    BY <1>2 DEF Deliver
  <2> QED
    BY <1>1, <2>1, NotifiedFresh
<1>3. CASE l.id # 0
  <2>1. /\ out \in [Servers -> Seq(Line)] /\ DOMAIN slots = Stdio /\ DOMAIN stuck = Stdio
        /\ Stdio \subseteq Servers
    BY DEF Inv, Shapes, Servers
  <2>2. /\ \A t \in Servers \ {s} : out'[t] = out[t]
        /\ l = out[s][1] /\ 1 \in 1..Len(out[s])
        /\ \A k \in 1..Len(out'[s]) : \E j \in 1..Len(out[s]) : out'[s][k] = out[s][j]
    BY <1>1, <2>1, TailLines
  <2>3. /\ UNCHANGED <<gen, cache, told>>
        /\ \/ UNCHANGED <<slots, stuck>>
           \/ l.id \in DOMAIN slots[s] /\ Channel(s, l.id, <<l>>) /\ UNCHANGED stuck
           \/ stuck' = [stuck EXCEPT ![s] = <<l>>] /\ UNCHANGED slots
    BY <1>3 DEF Deliver, lists, pipe
  <2> HIDE DEF l
  <2>4. Sound'
    <3>1. \A t \in Servers : \A k \in 1..Len(out'[t]) : out'[t][k].version <= version[t]
      <4> SUFFICES ASSUME NEW t \in Servers, NEW k \in 1..Len(out'[t])
                   PROVE  out'[t][k].version <= version[t]
        OBVIOUS
      <4>1. CASE t = s
        BY <2>2, <4>1 DEF FInv, Sound
      <4>2. CASE t # s
        BY <2>2, <4>2 DEF FInv, Sound
      <4> QED
        BY <4>1, <4>2
    <3> QED
      BY <1>1, <2>3, <3>1 DEF FInv, Sound
  <2>5. ASSUME NEW t \in Stdio, NEW id, Since(t, id, told[t])
        PROVE  Since(t, id, told[t])'
    <3> DEFINE v == told[t]
    <3>1. \A k \in 1..Len(out[t]) : out[t][k].id = id => out[t][k].version >= v
      BY <2>5 DEF Since
    <3>2. \A k \in 1..Len(out'[t]) : out'[t][k].id = id => out'[t][k].version >= v
      <4>1. CASE t = s
        BY <2>2, <3>1, <4>1
      <4>2. CASE t # s
        BY <2>1, <2>2, <3>1, <4>2
      <4> QED
        BY <4>1, <4>2
    <3>3. t = s /\ l.id = id => l.version >= v
      BY <2>2, <3>1
    <3>4. stuck'[t] # << >> /\ stuck'[t][1].id = id => stuck'[t][1].version >= v
      <4>1. CASE UNCHANGED stuck
        BY <2>5, <4>1 DEF Since
      <4>2. CASE stuck' = [stuck EXCEPT ![s] = <<l>>]
        BY <2>1, <2>5, <3>3, <4>2 DEF Since
      <4> QED
        BY <2>3, <4>1, <4>2
    <3>5. \A i \in DOMAIN slots'[t] :
              i = id /\ slots'[t][i] # << >> => slots'[t][i][1].version >= v
      <4>1. CASE UNCHANGED slots
        BY <2>5, <4>1 DEF Since
      <4>2. CASE l.id \in DOMAIN slots[s] /\ Channel(s, l.id, <<l>>)
        <5>1. /\ \A u \in Stdio : u # s => slots'[u] = slots[u]
              /\ DOMAIN slots'[s] = DOMAIN slots[s] \cup {l.id} /\ slots'[s][l.id] = <<l>>
              /\ \A i \in DOMAIN slots[s] : i # l.id => slots'[s][i] = slots[s][i]
          BY <1>1, <2>1, <4>2, ChannelIs
        <5>2. \A i \in DOMAIN slots[t] :
                  i = id /\ slots[t][i] # << >> => slots[t][i][1].version >= v
          BY <2>5 DEF Since
        <5> QED
          BY <3>3, <5>1, <5>2
      <4> QED
        BY <2>3, <4>1, <4>2
    <3>6. told' = told
      BY <2>3
    <3> QED
      BY <3>2, <3>4, <3>5, <3>6 DEF Since
  <2>6. \A u \in Servers : asked'[u] \subseteq asked[u]
    BY <1>1
  <2> QED
    BY <1>1, <2>3, <2>4, <2>5, <2>6, LinesMove
<1> QED
  BY <1>2, <1>3

LEMMA UnblockFresh ==
    ASSUME Inv, FInv, NEW s \in Stdio, Unblock(s)
    PROVE  FInv'
<1> DEFINE n == stuck[s][1].id
<1>1. /\ stuck[s] # << >> /\ Channel(s, n, stuck[s])
      /\ stuck' = [stuck EXCEPT ![s] = << >>]
      /\ UNCHANGED <<gen, cache, told, call, asked, out, version>>
  BY DEF Unblock, server, lists
<1>2. DOMAIN slots = Stdio /\ DOMAIN stuck = Stdio
  BY DEF Inv, Shapes
<1>3. /\ \A t \in Stdio : t # s => slots'[t] = slots[t]
      /\ DOMAIN slots'[s] = DOMAIN slots[s] \cup {n} /\ slots'[s][n] = stuck[s]
      /\ \A i \in DOMAIN slots[s] : i # n => slots'[s][i] = slots[s][i]
  BY <1>1, <1>2, ChannelIs
<1>4. \A t \in Stdio : stuck'[t] # << >> => stuck'[t] = stuck[t]
  BY <1>1, <1>2
<1>5. ASSUME NEW t \in Stdio, NEW id, Since(t, id, told[t])
      PROVE  Since(t, id, told[t])'
  <2>1. \A i \in DOMAIN slots'[t] :
            i = id /\ slots'[t][i] # << >> => slots'[t][i][1].version >= told[t]
    BY <1>1, <1>3, <1>5 DEF Since
  <2> QED
    BY <1>1, <1>4, <1>5, <2>1 DEF Since
<1>6. Sound'
  BY <1>1 DEF FInv, Sound
<1>7. \A u \in Servers : asked'[u] \subseteq asked[u]
  BY <1>1
<1> QED
  BY <1>1, <1>5, <1>6, <1>7, LinesMove

-----------------------------------------------------------------------------
(* The servers, and the end.                                               *)

LEMMA AnswerFresh ==
    ASSUME Inv, FInv, NEW s \in Servers, NEW q \in asked[s], Answer(s, q)
    PROVE  FInv'
<1> DEFINE line == [id |-> q.id, of |-> q.of, version |-> version[s]]
<1>1. /\ s \in Stdio /\ asked' = [asked EXCEPT ![s] = @ \ {q}]
      /\ UNCHANGED <<gen, cache, told, call, slots, stuck, version>>
      /\ \/ out' = [out EXCEPT ![s] = Append(@, line)]
         \/ out' = [out EXCEPT ![s] = @ \o <<line, line>>]
  BY DEF Answer, Stays, pipe, lists
<1>2. out \in [Servers -> Seq(Line)] /\ version \in [Servers -> Nat] /\ Stdio \subseteq Servers
  BY DEF Inv, Shapes, Servers
<1>3. line.version = version[s] /\ version[s] \in Nat /\ told[s] <= version[s] /\ told[s] \in Nat
  BY <1>2 DEF FInv, Sound
<1>a. line \in Line
  <2>1. q.id \in Nat /\ q.of \in Nat
    BY <1>1, OwedAt
  <2> QED
    BY <1>3, <2>1 DEF Line
<1> HIDE DEF line
<1>4. /\ \A t \in Servers \ {s} : out'[t] = out[t]
      /\ \A k \in 1..Len(out'[s]) :
             out'[s][k] = line \/ (k \in 1..Len(out[s]) /\ out'[s][k] = out[s][k])
  BY <1>1, <1>2, <1>a, LineSent
<1>5. Sound'
  <2>1. \A t \in Servers : \A k \in 1..Len(out'[t]) : out'[t][k].version <= version[t]
    <3> SUFFICES ASSUME NEW t \in Servers, NEW k \in 1..Len(out'[t])
                 PROVE  out'[t][k].version <= version[t]
      OBVIOUS
    <3>1. CASE t = s
      <4>1. CASE out'[s][k] = line
        BY <1>3, <3>1, <4>1
      <4>2. CASE k \in 1..Len(out[s]) /\ out'[s][k] = out[s][k]
        BY <3>1, <4>2 DEF FInv, Sound
      <4> QED
        BY <1>4, <3>1, <4>1, <4>2
    <3>2. CASE t # s
      BY <1>4, <3>2 DEF FInv, Sound
    <3> QED
      BY <3>1, <3>2
  <2> QED
    BY <1>1, <2>1 DEF FInv, Sound
<1>6. ASSUME NEW t \in Stdio, NEW id, Since(t, id, told[t])
      PROVE  Since(t, id, told[t])'
  <2>1. \A k \in 1..Len(out'[t]) : out'[t][k].id = id => out'[t][k].version >= told[t]
    <3> SUFFICES ASSUME NEW k \in 1..Len(out'[t]), out'[t][k].id = id
                 PROVE  out'[t][k].version >= told[t]
      OBVIOUS
    <3>1. CASE t = s
      <4>1. CASE out'[s][k] = line
        BY <1>3, <3>1, <4>1
      <4>2. CASE k \in 1..Len(out[s]) /\ out'[s][k] = out[s][k]
        BY <1>6, <3>1, <4>2 DEF Since
      <4> QED
        BY <1>4, <3>1, <4>1, <4>2
    <3>2. CASE t # s
      BY <1>2, <1>4, <1>6, <3>2 DEF Since
    <3> QED
      BY <3>1, <3>2
  <2> QED
    BY <1>1, <1>6, <2>1 DEF Since
<1>7. \A u \in Servers : asked'[u] \subseteq asked[u]
  BY <1>1 DEF Inv, Shapes
<1> QED
  BY <1>1, <1>5, <1>6, <1>7, LinesMove

LEMMA HandleFresh ==
    ASSUME Inv, FInv, NEW s \in Servers, NEW q \in asked[s],
           NEW status \in {"ok", "gone", "denied"}, Handle(s, q, status)
    PROVE  FInv'
<1> DEFINE r == call[q.by]
           reply == [status |-> status, version |-> version[s],
                     session |-> IF q.opens THEN live[s] ELSE 0]
<1>1. /\ s \in Http /\ asked' = [asked EXCEPT ![s] = @ \ {q}]
      /\ UNCHANGED <<gen, cache, told, slots, stuck, version, out>>
      /\ call' = IF r.pc = "posted" /\ r.of = q.of /\ r.try = q.try
                 THEN [call EXCEPT ![q.by].reply = reply] ELSE call
  BY DEF Handle, Stays, pipe, lists
<1>2. q.by \in Goroutines
  BY <1>1, OwedAt
<1>3. DOMAIN call = Goroutines /\ DOMAIN r = Fields /\ \A u \in Servers : asked'[u] \subseteq asked[u]
  BY <1>1, <1>2 DEF Inv, Shapes
<1>4. reply.version = version[s] /\ told[s] <= version[s] /\ told[s] \in Nat /\ version[s] \in Nat
  BY DEF FInv, Sound, Inv, Shapes
<1> HIDE DEF reply
<1>5. CASE call' = call
  <2>1. Sound'
    BY <1>1 DEF FInv, Sound
  <2>2. \A t \in Stdio : \A id : Since(t, id, told[t]) => Since(t, id, told[t])'
    BY <1>1 DEF Since
  <2> QED
    BY <1>1, <1>3, <1>5, <2>1, <2>2, LinesMove
<1>6. CASE r.pc = "posted" /\ r.of = q.of /\ call' = [call EXCEPT ![q.by].reply = reply]
  <2>1. r.srv = s /\ Fresh(q.by)
    BY <1>2, <1>6 DEF FInv, Asked
  <2> DEFINE x == [r EXCEPT !.reply = reply]
  <2>2. /\ DOMAIN call' = Goroutines /\ \A c \in Goroutines \ {q.by} : call'[c] = call[c]
        /\ call'[q.by] = x
    BY <1>2, <1>3, <1>6
  <2>3. /\ x.op = r.op /\ x.srv = r.srv /\ x.gen = r.gen /\ x.page = r.page
        /\ x.first = r.first /\ x.reply = reply /\ x.pc = r.pc /\ x.of = r.of
    BY <1>3 DEF Fields
  <2> HIDE DEF x
  <2>4. Others(q.by)
    BY <2>2 DEF Others
  <2>5. Fresh(q.by)'
    BY <1>1, <1>4, <1>6, <2>1, <2>2, <2>3 DEF Fresh
  <2>6. Asked'
    BY <1>2, <1>3, <2>2, <2>3, <2>4, AskedStays DEF FInv
  <2> QED
    BY <1>1, <1>2, <2>4, <2>5, <2>6, CalmWhenUnchanged, CallKeeps
<1> QED
  BY <1>1, <1>5, <1>6

LEMMA ChangeFresh ==
    ASSUME Inv, FInv, NEW s \in Servers, Change(s)
    PROVE  FInv'
<1> DEFINE l == [id |-> 0, of |-> 0, version |-> version[s] + 1]
<1>1. /\ UNCHANGED <<gen, cache, told, call, slots, stuck, asked>>
      /\ version' = [version EXCEPT ![s] = @ + 1] /\ out' = [out EXCEPT ![s] = Append(@, l)]
  BY DEF Change, Stays, pipe, lists
<1>2. out \in [Servers -> Seq(Line)] /\ version \in [Servers -> Nat]
  BY DEF Inv, Shapes
<1>3. l \in Line /\ l.id = 0 /\ l.version = version[s] + 1
  BY <1>2 DEF Line
<1> HIDE DEF l
<1>4. /\ \A t \in Servers \ {s} : out'[t] = out[t] /\ version'[t] = version[t]
      /\ version'[s] = version[s] + 1 /\ version[s] \in Nat
      /\ \A k \in 1..Len(out'[s]) :
             out'[s][k] = l \/ (k \in 1..Len(out[s]) /\ out'[s][k] = out[s][k])
  <2>1. /\ \A t \in Servers \ {s} : version'[t] = version[t]
        /\ version'[s] = version[s] + 1 /\ version[s] \in Nat
    BY <1>1, <1>2
  <2>2. /\ \A t \in Servers \ {s} : out'[t] = out[t]
        /\ \A k \in 1..Len(out'[s]) :
               out'[s][k] = l \/ (k \in 1..Len(out[s]) /\ out'[s][k] = out[s][k])
    BY <1>1, <1>2, <1>3, LineSent
  <2> QED
    BY <2>1, <2>2
<1>5. Sound'
  <2>1. \A t \in Servers : \A k \in 1..Len(out'[t]) : out'[t][k].version <= version'[t]
    <3> SUFFICES ASSUME NEW t \in Servers, NEW k \in 1..Len(out'[t])
                 PROVE  out'[t][k].version <= version'[t]
      OBVIOUS
    <3>1. CASE t = s
      <4>1. CASE out'[s][k] = l
        BY <1>3, <1>4, <3>1, <4>1
      <4>2. CASE k \in 1..Len(out[s]) /\ out'[s][k] = out[s][k]
        <5>1. out[s][k].version <= version[s] /\ out[s][k].version \in Nat
          <6>1. out[s] \in Seq(Line)
            BY <1>2
          <6>2. out[s][k] \in Line
            BY <4>2, <6>1
          <6> QED
            BY <4>2, <6>2 DEF FInv, Sound, Line
        <5> QED
          BY <1>4, <3>1, <4>2, <5>1
      <4> QED
        BY <1>4, <3>1, <4>1, <4>2
    <3>2. CASE t # s
      BY <1>4, <3>2 DEF FInv, Sound
    <3> QED
      BY <3>1, <3>2
  <2>2. \A t \in Servers : told[t] <= version'[t]
    BY <1>4 DEF FInv, Sound
  <2> QED
    BY <1>1, <2>1, <2>2 DEF FInv, Sound
<1>6. ASSUME NEW c \in Goroutines
      PROVE  Fresh(c)'
  <2>1. call[c].pc = "wait" => call[c].srv \in Stdio /\ call[c].id # 0
    <3>1. made \in Nat
      BY DEF Inv, Shapes, made
    <3> QED
      BY <3>1, WaitsForPipe
  <2>2. ASSUME call[c].pc = "wait", Since(call[c].srv, call[c].id, told[call[c].srv])
        PROVE  Since(call[c].srv, call[c].id, told[call[c].srv])'
    <3> DEFINE t == call[c].srv
               id == call[c].id
    <3>1. t \in Servers /\ id # 0
      BY <2>1, <2>2 DEF Servers
    <3>2. \A k \in 1..Len(out'[t]) : out'[t][k].id = id => out'[t][k].version >= told[t]
      <4>1. CASE t = s
        BY <1>3, <1>4, <2>2, <3>1, <4>1 DEF Since
      <4>2. CASE t # s
        BY <1>4, <2>2, <3>1, <4>2 DEF Since
      <4> QED
        BY <4>1, <4>2
    <3> QED
      BY <1>1, <2>2, <3>2 DEF Since
  <2>3. Fresh(c)
    BY DEF FInv
  <2> QED
    BY <1>1, <2>2, <2>3 DEF Fresh
<1>7. FreshList' /\ Asked'
  BY <1>1 DEF FInv, FreshList, Hit, Asked
<1> QED
  BY <1>5, <1>6, <1>7 DEF FInv

\* Steps that touch nothing of all this, or lose lines.
LEMMA QuietFresh ==
    ASSUME Inv, FInv,
           \/ \E s \in Servers : Expire(s) \/ GoSilent(s) \/ StartFails(s) \/ ListenEnds(s)
           \/ ShutdownAll
           \/ UNCHANGED vars
    PROVE  FInv'
<1>1. UNCHANGED <<gen, cache, told, call, slots, stuck, version, asked>>
  BY DEF Expire, GoSilent, StartFails, ListenEnds, ShutdownAll, Stays, pipe, lists, server, vars
<1>2. \/ UNCHANGED out
      \/ \E s \in Servers : out' = [out EXCEPT ![s] = << >>]
  BY DEF Expire, GoSilent, StartFails, ListenEnds, ShutdownAll, Stays, server, vars
<1>3. out \in [Servers -> Seq(Line)]
  BY DEF Inv, Shapes
<1>4. \A t \in Servers : \A k \in 1..Len(out'[t]) : k \in 1..Len(out[t]) /\ out'[t][k] = out[t][k]
  BY <1>2, <1>3
<1>5. Sound'
  BY <1>1, <1>4 DEF FInv, Sound
<1>6. \A t \in Stdio : \A id : Since(t, id, told[t]) => Since(t, id, told[t])'
  <2>1. Stdio \subseteq Servers
    BY DEF Servers
  <2> QED
    BY <1>1, <1>4, <2>1 DEF Since
<1>7. \A u \in Servers : asked'[u] \subseteq asked[u]
  BY <1>1
<1> QED
  BY <1>1, <1>5, <1>6, <1>7, LinesMove

LEMMA ExitFresh ==
    ASSUME Inv, FInv, Exit
    PROVE  FInv'
<1>1. /\ call' = [c \in Goroutines |-> Idle] /\ out' = [s \in Servers |-> << >>]
      /\ asked' = [s \in Servers |-> {}] /\ UNCHANGED <<gen, cache, told, version>>
  BY DEF Exit, lists
<1>2. Sound' /\ FreshList' /\ Asked'
  BY <1>1 DEF FInv, Sound, FreshList, Hit, Asked
<1>3. \A c \in Goroutines : call'[c].op = "none" /\ call'[c].pc = "idle"
  BY <1>1 DEF Idle
<1> QED
  BY <1>2, <1>3 DEF FInv, Fresh

-----------------------------------------------------------------------------

LEMMA InitialFresh == Init => FInv
<1> SUFFICES ASSUME Init PROVE FInv
  OBVIOUS
<1>1. Sound /\ FreshList
  BY DEF Init, Sound, FreshList, Hit, NoEntry
<1>2. Asked
  BY DEF Init, Asked
<1>3. \A c \in Goroutines : call[c].op = "none" /\ call[c].pc = "idle"
  BY DEF Init, Idle
<1> QED
  BY <1>1, <1>2, <1>3 DEF FInv, Fresh

LEMMA FreshStep == Inv /\ Inv' /\ FInv /\ [Next]_vars => FInv'
<1> SUFFICES ASSUME Inv, Inv', FInv, [Next]_vars PROVE FInv'
  OBVIOUS
<1>1. ASSUME NEW c \in Callers, Operation(c) \/ ContextDone(c)
      PROVE  FInv'
  <2>1. c \in Goroutines
    BY DEF Goroutines
  <2>2. Operation(c) \/ GiveUp(c, "wait") \/ \E why : HttpError(c, why)
    BY <1>1 DEF ContextDone
  <2> QED
    BY <2>1, <2>2, OperationFresh, GiveUpFresh, HttpErrorFresh
<1>2. ASSUME NEW c \in Goroutines, Step(c)
      PROVE  FInv'
  <2>1. \/ Lock(c) \/ Store(c)
        \/ SendRequestStdio(c) \/ Receive(c) \/ GiveUp(c, "broken") \/ Remove(c)
        \/ SendRequest(c) \/ HttpOk(c) \/ RefreshToken(c)
        \/ \E why : HttpError(c, why)
    BY <1>2 DEF Step, HttpRefused, HttpTimeout
  <2> QED
    BY <2>1, LockFresh, StoreFresh, SendRequestStdioFresh, ReceiveFresh, GiveUpFresh,
       RemoveFresh, SendRequestFresh, HttpOkFresh, RefreshTokenFresh, HttpErrorFresh
<1>3. ASSUME NEW s \in Servers, Reader(s) \/ Responds(s) \/ Change(s)
      PROVE  FInv'
  <2>1. CASE HttpNotified(s)
    <3>1. /\ out[s] # << >> /\ Notified(s, Head(out[s]))
          /\ out' = [out EXCEPT ![s] = Tail(@)] /\ UNCHANGED <<call, asked, version>>
      BY <2>1 DEF HttpNotified
    <3> QED
      BY <3>1, NotifiedFresh
  <2>2. CASE Responds(s)
    BY <2>2, AnswerFresh, HandleFresh DEF Responds
  <2> QED
    BY <1>3, <2>1, <2>2, DeliverFresh, ChangeFresh DEF Reader
<1>4. \/ \E c \in Callers : Operation(c) \/ ContextDone(c)
      \/ \E c \in Goroutines : Step(c)
      \/ \E s \in Servers : Reader(s) \/ Responds(s) \/ Change(s)
      \/ \E s \in Servers : Connect(s) \/ Disconnect(s)
      \/ \E s \in Stdio : Unblock(s)
      \/ GetTools \/ Exit
      \/ \E s \in Servers : Expire(s) \/ GoSilent(s) \/ StartFails(s) \/ ListenEnds(s)
      \/ ShutdownAll \/ UNCHANGED vars
  BY DEF Next
<1> QED
  BY <1>1, <1>2, <1>3, <1>4, ConnectFresh, DisconnectFresh, UnblockFresh, GetToolsFresh,
     ExitFresh, QuietFresh

\* An entry of the cache that is still served is no older than the last change
\* the client was told of (FreshList), whatever comes between the read of the
\* generation and the entry that is stored with it.
THEOREM ListsAreFresh == Spec => []FreshList
<1>1. Inv /\ [Next]_vars => Inv'
  BY NextStep, StutterStep
<1>2. Init => Inv /\ FInv
  BY Initial, InitialFresh
<1>3. FInv => FreshList
  BY DEF FInv
<1> QED
  BY <1>1, <1>2, <1>3, FreshStep, PTL DEF Spec
====
