-------------------------- MODULE FileCacheProofs --------------------------
(***************************************************************************)
(* Proofs about FileCache, for any number of overlapping calls, of changes *)
(* of the file and of restarts.                                            *)
(*                                                                         *)
(* Neither property is inductive.  What a call holds between two of its    *)
(* looks at the file is right only while nothing happened behind its back; *)
(* Holds says so for each place a call can stand at.                       *)
(***************************************************************************)
EXTENDS FileCache, TLAPS

\* The text in hand is that of the file f, or already paired with its time.
InHand(r, f) ==
    /\ r.pc \in {"record", "reread", "after"} /\ ~r.late
          => f.there /\ f.id = r.text
    /\ r.pc = "put" /\ ~r.late => r.stamp = r.text

\* Before it writes, a call bound by the contract knows what is in the file.
Prepared(r, f, s) ==
    r.pc \in {"temp", "rename", "create"} /\ ~r.late /\ f.there
    /\ (s.restricted \/ r.tool = "NotebookEdit") => Knows(r, f.id)

\* Which tool stands where; the entry a call fetched is as true as the cache.
Equipped(r) ==
    /\ r.pc \in {"check", "open", "record"} => r.tool \in Readers
    /\ r.pc = "bytes" => r.tool \in Editors
    /\ r.pc = "stale" => r.tool \notin Readers
    /\ True(r.held)

Holds(r, f, s) == InHand(r, f) /\ Prepared(r, f, s) /\ Equipped(r)

IInv ==
    TypeOK /\ EntryTrue /\ \A c \in Calls : Holds(call[c], disk, setting)

-----------------------------------------------------------------------------
\* The parts of a step keep the types.
LEMMA Pieces ==
    /\ NoFile \in [there : BOOLEAN, id : Times]
    /\ \A t \in Times : File(t) \in [there : BOOLEAN, id : Times]
    /\ \A t \in Times, k \in {"text", "empty", "printed"},
          f \in {"read", "part", "tool"} : Blank(t, k, f) \in Entry
    /\ \A t, c \in Times, f \in {"read", "part", "tool"}, b \in BOOLEAN :
          Text(t, c, f, b) \in Entry
    /\ Idle \in Call
BY MaxTimeAssumption
   DEF NoFile, File, Blank, Text, Entry, Idle, Call, Times, Places, Tools,
       Readers, Editors

\* An idle call claims nothing.
LEMMA IdleHolds == \A f, s : Holds(Idle, f, s)
BY DEF Holds, InHand, Prepared, Equipped, Idle, True, NoEntry

\* A call that missed a change claims nothing of the file any more.
LEMMA MissedHolds ==
    ASSUME NEW r \in Call, NEW f, NEW g, NEW s, Holds(r, f, s)
    PROVE  Missed(r) \in Call /\ Holds(Missed(r), g, s)
<1>1. CASE r.pc \in Relying
  <2>1. Missed(r) = [r EXCEPT !.late = TRUE]
    BY <1>1 DEF Missed
  <2> QED BY <1>1, <2>1 DEF Holds, InHand, Prepared, Equipped, Call, Relying,
             True
<1>2. CASE r.pc \notin Relying
  <2>1. Missed(r) = r
    BY <1>2 DEF Missed
  <2> QED BY <1>2, <2>1 DEF Holds, InHand, Prepared, Equipped, Call, Relying,
             True
<1> QED BY <1>1, <1>2

\* A step of one call that leaves the file alone.
LEMMA QuietStep ==
    ASSUME IInv, NEW c \in Calls, NEW r \in Call, Becomes(c, r),
           Holds(r, disk, setting), FileStays, UNCHANGED setting
    PROVE  /\ call' \in [Calls -> Call]
           /\ \A d \in Calls : Holds(call'[d], disk', setting')
BY DEF IInv, TypeOK, Becomes, FileStays

\* A step of one call that changes the file behind the backs of the others.
LEMMA LoudStep ==
    ASSUME IInv, NEW c \in Calls, NEW r \in Call, BehindBacks(c, r),
           Holds(r, disk', setting), UNCHANGED setting
    PROVE  /\ call' \in [Calls -> Call]
           /\ \A d \in Calls : Holds(call'[d], disk', setting')
<1>1. \A d \in Calls :
         Missed(call[d]) \in Call /\ Holds(Missed(call[d]), disk', setting)
  BY MissedHolds DEF IInv, TypeOK
<1> QED BY <1>1 DEF BehindBacks

-----------------------------------------------------------------------------
LEMMA Initial == Init => IInv
<1> SUFFICES ASSUME Init PROVE IInv
  OBVIOUS
<1>1. TypeOK
  BY Pieces, MaxTimeAssumption DEF Init, TypeOK, Times
<1>2. EntryTrue
  BY DEF Init, EntryTrue, True, NoEntry
<1>3. \A c \in Calls : Holds(call[c], disk, setting)
  BY IdleHolds DEF Init
<1> QED BY <1>1, <1>2, <1>3 DEF IInv

\* The clock stays within its bound.
LEMMA Ticks ==
    ASSUME TypeOK, Tick
    PROVE  Now \in Times /\ clock' \in Times
BY MaxTimeAssumption DEF TypeOK, Tick, Now, Times

\* The steps of Read.
LEMMA ReadSteps ==
    ASSUME IInv, NEW c \in Calls, NEW t \in Tools,
           ReadStat(c, t) \/ CheckAndRecord(c) \/ ReadFile(c) \/ StatAndRecord(c)
    PROVE  IInv'
<1> DEFINE r == call[c]
<1>0. r \in Call /\ Holds(r, disk, setting)
  BY DEF IInv, TypeOK
<1>1. CASE ReadStat(c, t)
  <2>1. CASE ~disk.there
    <3>1. TypeOK'
      BY <1>1, <2>1, Ticks, Pieces DEF IInv, TypeOK, ReadStat, FileStays
    <3>2. EntryTrue'
      BY <1>1, <2>1 DEF ReadStat, EntryTrue, True, Blank
    <3> QED BY <1>1, <2>1, <3>1, <3>2 DEF IInv, ReadStat, FileStays
  <2>2. CASE disk.there
    <3> DEFINE q == [Idle EXCEPT !.tool = t,
                     !.pc = IF t = "Read" THEN "check" ELSE "open"]
    <3>1. q \in Call /\ Holds(q, disk, setting)
      BY <1>1, Pieces DEF ReadStat, Call, Idle, Places, Holds, InHand, Prepared,
         Equipped, True, NoEntry
    <3>2. Becomes(c, q) /\ FileStays /\ UNCHANGED <<clock, cache, setting>>
      BY <1>1, <2>2 DEF ReadStat
    <3> QED BY <3>1, <3>2, QuietStep
            DEF IInv, TypeOK, EntryTrue, FileStays
  <2> QED BY <2>1, <2>2
<1>2. CASE CheckAndRecord(c)
  <2> DEFINE q == [r EXCEPT !.pc = "open"]
  <2>1. q \in Call /\ Holds(q, disk, setting)
    BY <1>0, <1>2 DEF CheckAndRecord, At, Call, Places, Holds, InHand, Prepared,
       Equipped
  <2>2. \E x \in {Idle, q} : Becomes(c, x)
    BY <1>2 DEF CheckAndRecord, Sized, Step, Return
  <2>3. /\ call' \in [Calls -> Call]
        /\ \A d \in Calls : Holds(call'[d], disk', setting')
    BY <1>2, <2>1, <2>2, QuietStep, IdleHolds, Pieces DEF CheckAndRecord
  <2>4. cache' = cache \/ cache' = Blank(disk.id, "empty", "read")
    BY <1>2 DEF CheckAndRecord
  <2>5. cache' \in Entry \cup {NoEntry} /\ EntryTrue'
    <3>1. CASE cache' = cache
      BY <3>1 DEF IInv, TypeOK, EntryTrue
    <3>2. CASE cache' = Blank(disk.id, "empty", "read")
      <4>1. cache' \in Entry
        BY <3>2, Pieces DEF IInv, TypeOK
      <4>2. EntryTrue'
        BY <3>2 DEF EntryTrue, True, Blank
      <4> QED BY <4>1, <4>2
    <3> QED BY <2>4, <3>1, <3>2
  <2> QED BY <1>2, <2>3, <2>5 DEF IInv, TypeOK, CheckAndRecord, FileStays
<1>3. CASE ReadFile(c)
  <2> DEFINE q == [r EXCEPT !.pc = "record", !.text = disk.id]
  <2>1. disk.there => q \in Call /\ Holds(q, disk, setting)
    BY <1>0, <1>3 DEF ReadFile, At, Call, Places, Holds, InHand, Prepared,
       Equipped, IInv, TypeOK
  <2>2. Becomes(c, Idle) \/ (disk.there /\ Becomes(c, q))
    BY <1>3 DEF ReadFile, Return
  <2>3. /\ call' \in [Calls -> Call]
        /\ \A d \in Calls : Holds(call'[d], disk', setting')
    BY <1>3, <2>1, <2>2, QuietStep, IdleHolds, Pieces DEF ReadFile
  <2> QED BY <1>3, <2>3 DEF IInv, TypeOK, ReadFile, FileStays, EntryTrue
<1>4. CASE StatAndRecord(c)
  <2>1. /\ call' \in [Calls -> Call]
        /\ \A d \in Calls : Holds(call'[d], disk', setting')
    BY <1>4, QuietStep, IdleHolds, Pieces DEF StatAndRecord, Return
  <2> DEFINE m == IF disk.there THEN disk.id ELSE 0
             f == IF r.tool = "Read" THEN "read" ELSE "part"
  <2>2. cache' = Text(m, r.text, f, r.late)
    BY <1>4 DEF StatAndRecord
  <2>3. m \in Times /\ r.text \in Times /\ r.late \in BOOLEAN
    BY <1>0, MaxTimeAssumption DEF IInv, TypeOK, Call, Times
  <2>4. cache' \in Entry
    BY <2>2, <2>3, Pieces
  <2>5. ~r.late => m = r.text
    BY <1>0, <1>4 DEF StatAndRecord, At, Holds, InHand
  <2>6. EntryTrue'
    BY <2>2, <2>5 DEF EntryTrue, True, Text
  <2> QED BY <1>4, <2>1, <2>4, <2>6 DEF IInv, TypeOK, StatAndRecord, FileStays
<1> QED BY <1>1, <1>2, <1>3, <1>4

\* A step that leaves the file, the cache and the setting alone, and takes
\* the call to a record for which all is well.
LEMMA Only ==
    ASSUME IInv, NEW c \in Calls, NEW r \in Call, Becomes(c, r),
           Holds(r, disk, setting), FileStays, UNCHANGED <<cache, setting>>,
           clock' \in Times
    PROVE  IInv'
<1>1. /\ call' \in [Calls -> Call]
      /\ \A d \in Calls : Holds(call'[d], disk', setting')
  BY QuietStep
<1> QED BY <1>1 DEF IInv, TypeOK, EntryTrue, FileStays

\* The checks ahead of a change.
LEMMA CheckSteps ==
    ASSUME IInv, NEW c \in Calls, NEW t \in Tools,
           GetRead(c, t) \/ Check(c) \/ ReadBytes(c)
    PROVE  IInv'
<1> DEFINE r == call[c]
<1>0. r \in Call /\ Holds(r, disk, setting) /\ clock \in Times
  BY DEF IInv, TypeOK
<1>i. Idle \in Call /\ Holds(Idle, disk, setting)
  BY Pieces, IdleHolds
<1>1. CASE GetRead(c, t)
  <2> DEFINE p == [Idle EXCEPT !.pc = "stale", !.tool = t, !.held = cache]
             q == [Idle EXCEPT !.pc = Continue(t), !.tool = t]
  <2>1. t \in Editors \cup {"Write", "NotebookEdit"} /\ t \notin Readers
    BY <1>1 DEF GetRead, Tools
  <2>2. p \in Call /\ Holds(p, disk, setting)
    <3>1. p \in Call
      BY <1>i DEF IInv, TypeOK, Call, Places
    <3>2. p.pc = "stale" /\ p.tool = t /\ p.held = cache
      BY DEF Idle
    <3>3. True(p.held)
      BY <3>2 DEF IInv, EntryTrue
    <3> QED BY <2>1, <3>1, <3>2, <3>3 DEF Holds, InHand, Prepared, Equipped
  <2>3. ~Checked(t) => q \in Call /\ Holds(q, disk, setting)
    BY <2>1, <1>i DEF Checked, Call, Idle, Places, Holds, InHand, Prepared,
       Equipped, Continue, Editors, Readers, True, NoEntry
  <2>4. Becomes(c, p) \/ (~Checked(t) /\ Becomes(c, q))
    BY <1>1 DEF GetRead
  <2> QED BY <1>0, <1>1, <2>2, <2>3, <2>4, Only DEF GetRead
<1>2. CASE Check(c)
  <2> DEFINE p == [r EXCEPT !.pc = "bytes", !.held = NoEntry,
                   !.stamp = r.held.mtime]
             q == [r EXCEPT !.pc = Continue(r.tool),
                   !.stamp = IF r.tool = "Write" THEN 0 ELSE r.held.mtime]
  <2>1. r.held.mtime \in Times /\ 0 \in Times /\ r.pc = "stale"
    BY <1>0, <1>2, MaxTimeAssumption
       DEF Check, At, Call, Entry, NoEntry, Times
  <2>2. r.tool \in Editors => p \in Call /\ Holds(p, disk, setting)
    BY <1>0, <2>1 DEF Call, Places, Holds, InHand, Prepared, Equipped, True,
       NoEntry
  <2>3. ASSUME r.tool \notin Editors, ~Stale(r.held)
        PROVE  q \in Call /\ Holds(q, disk, setting)
    <3>1. r.tool \in {"Write", "NotebookEdit"}
      BY <1>0, <2>1, <2>3 DEF Holds, Equipped, Call, Tools
    <3>2. Continue(r.tool) \in {"temp", "create"}
      BY <2>3, <3>1 DEF Continue
    <3>3. q \in Call
      BY <1>0, <2>1, <3>2 DEF Call, Places
    <3>4. disk.there => disk.id <= r.held.mtime
      BY <2>1, <2>3 DEF Stale, IInv, TypeOK, Times
    <3>5. disk.there => Knows(q, disk.id)
      BY <1>0, <2>3, <3>4 DEF Knows, Holds, Equipped, True, Call
    <3> QED BY <1>0, <3>2, <3>3, <3>5 DEF Holds, InHand, Prepared, Equipped,
               Call
  <2>4. \/ Becomes(c, Idle)
        \/ r.tool \in Editors /\ Becomes(c, p)
        \/ r.tool \notin Editors /\ ~Stale(r.held) /\ Becomes(c, q)
    BY <1>2 DEF Check, Return
  <2> QED BY <1>0, <1>i, <1>2, <2>2, <2>3, <2>4, Only DEF Check
<1>3. CASE ReadBytes(c)
  <2> DEFINE p == [r EXCEPT !.pc = "temp", !.base = disk.id]
             q == [r EXCEPT !.pc = "create"]
  <2>1. r.tool \in Editors
    BY <1>0, <1>3 DEF ReadBytes, At, Holds, Equipped
  <2>2. p \in Call /\ Holds(p, disk, setting)
    BY <1>0, <2>1 DEF IInv, TypeOK, Call, Places, Holds, InHand, Prepared,
       Equipped, Knows
  <2>3. ~disk.there => q \in Call /\ Holds(q, disk, setting)
    BY <1>0 DEF Call, Places, Holds, InHand, Prepared, Equipped
  <2>4. \/ Becomes(c, Idle) \/ Becomes(c, p)
        \/ ~disk.there /\ Becomes(c, q)
    BY <1>3 DEF ReadBytes, Return, Step
  <2> QED BY <1>0, <1>i, <1>3, <2>2, <2>3, <2>4, Only DEF ReadBytes
<1> QED BY <1>1, <1>2, <1>3

\* A change of the file by one call: what the others held is behind them.
LEMMA Changed ==
    ASSUME IInv, NEW c \in Calls, NEW r \in Call, NEW t \in Times,
           BehindBacks(c, r), Holds(r, File(t), setting),
           disk' = File(t), made' = made \cup {t}, clock' \in Times,
           UNCHANGED <<cache, setting>>
    PROVE  IInv'
<1>1. /\ call' \in [Calls -> Call]
      /\ \A d \in Calls : Holds(call'[d], disk', setting')
  BY LoudStep
<1> QED BY <1>1, Pieces DEF IInv, TypeOK, EntryTrue

\* A call that has written holds the text that is in the file.
LEMMA WroteHolds ==
    ASSUME NEW r \in Call, NEW t \in Times, NEW s,
           NEW p \in {"reread", "after", "fill"}
    PROVE  Wrote(r, p, t) \in Call /\ Holds(Wrote(r, p, t), File(t), s)
<1>1. /\ Wrote(r, p, t) \in Call /\ Wrote(r, p, t).pc = p
      /\ Wrote(r, p, t).text = t /\ Wrote(r, p, t).held = NoEntry
  BY Pieces DEF Wrote, Idle, Call, Places
<1> QED BY <1>1 DEF Holds, InHand, Prepared, Equipped, File, True, NoEntry

\* The steps that write.
LEMMA WriteSteps ==
    ASSUME IInv, NEW c \in Calls,
           WriteTemp(c) \/ Rename(c) \/ Truncate(c) \/ Fill(c)
    PROVE  IInv'
<1> DEFINE r == call[c]
<1>0. r \in Call /\ Holds(r, disk, setting) /\ clock \in Times /\ TypeOK
  BY DEF IInv, TypeOK
<1>1. ASSUME Fails(c), UNCHANGED <<cache, setting>> PROVE IInv'
  BY <1>0, <1>1, Only, Pieces, IdleHolds DEF Fails, Return
<1>2. CASE WriteTemp(c)
  <2> DEFINE q == [r EXCEPT !.pc = "rename", !.text = Now]
  <2>1. CASE Tick /\ FileStays /\ Becomes(c, q)
    <3>1. Now \in Times /\ clock' \in Times
      BY <1>0, <2>1, Ticks
    <3>2. q \in Call /\ Holds(q, disk, setting)
      BY <1>0, <1>2, <3>1 DEF WriteTemp, At, Call, Places, Holds, InHand,
         Prepared, Equipped, Knows
    <3> QED BY <1>2, <2>1, <3>1, <3>2, Only DEF WriteTemp
  <2> QED BY <1>1, <1>2, <2>1 DEF WriteTemp
<1>3. CASE Rename(c)
  <2> DEFINE q == Wrote(r, Behind(r.tool), r.text)
  <2>1. q \in Call /\ Holds(q, File(r.text), setting) /\ r.text \in Times
    BY <1>0, WroteHolds DEF Behind, Call
  <2> QED BY <1>0, <1>1, <1>3, <2>1, Changed DEF Rename
<1>4. CASE Truncate(c)
  <2>1. CASE /\ Tick /\ disk' = File(Now) /\ made' = made \cup {Now}
             /\ BehindBacks(c, Wrote(r, "fill", Now))
    BY <1>0, <1>4, <2>1, Ticks, WroteHolds, Changed DEF Truncate
  <2> QED BY <1>1, <1>4, <2>1 DEF Truncate
<1>5. CASE Fill(c)
  <2> DEFINE q == [r EXCEPT !.pc = "after"]
  <2>1. CASE /\ Tick /\ disk' = File(Now) /\ made' = made \cup {Now}
             /\ BehindBacks(c, Wrote(r, "after", Now))
    BY <1>0, <1>5, <2>1, Ticks, WroteHolds, Changed DEF Fill
  <2>2. CASE r.late /\ FileStays /\ UNCHANGED clock /\ Becomes(c, q)
    <3>1. q \in Call /\ Holds(q, disk, setting)
      BY <1>0, <2>2 DEF Call, Places, Holds, InHand, Prepared, Equipped
    <3> QED BY <1>0, <1>5, <2>2, <3>1, Only DEF Fill
  <2> QED BY <1>1, <1>5, <2>1, <2>2 DEF Fill
<1> QED BY <1>2, <1>3, <1>4, <1>5

\* The steps behind a change, up to the cache.
LEMMA AfterSteps ==
    ASSUME IInv, NEW c \in Calls,
           Reread(c) \/ StatAfter(c) \/ UpdateAfterWrite(c)
    PROVE  IInv'
<1> DEFINE r == call[c]
<1>0. r \in Call /\ Holds(r, disk, setting) /\ clock \in Times /\ TypeOK
  BY DEF IInv, TypeOK
<1>1. CASE Reread(c)
  <2> DEFINE p == [r EXCEPT !.pc = "after", !.text = disk.id, !.late = FALSE]
             q == [r EXCEPT !.pc = "after"]
  <2>1. disk.there => p \in Call /\ Holds(p, disk, setting)
    BY <1>0 DEF TypeOK, Call, Places, Holds, InHand, Prepared, Equipped
  <2>2. q \in Call /\ Holds(q, disk, setting)
    BY <1>0, <1>1 DEF Reread, At, Call, Places, Holds, InHand, Prepared,
       Equipped
  <2> QED BY <1>0, <1>1, <2>1, <2>2, Only DEF Reread, Step
<1>2. CASE StatAfter(c)
  <2> DEFINE m == IF disk.there THEN disk.id ELSE r.stamp
             q == [r EXCEPT !.pc = "put", !.stamp = m]
  <2>1. m \in Times /\ (~r.late => m = r.text)
    BY <1>0, <1>2 DEF StatAfter, At, TypeOK, Call, Holds, InHand
  <2>2. q \in Call /\ Holds(q, disk, setting)
    BY <1>0, <2>1 DEF Call, Places, Holds, InHand, Prepared, Equipped
  <2> QED BY <1>0, <1>2, <2>2, Only DEF StatAfter
<1>3. CASE UpdateAfterWrite(c)
  <2>1. /\ call' \in [Calls -> Call]
        /\ \A d \in Calls : Holds(call'[d], disk', setting')
    BY <1>3, QuietStep, IdleHolds, Pieces DEF UpdateAfterWrite, Return
  <2>2. cache' = Text(r.stamp, r.text, "tool", r.late)
    BY <1>3 DEF UpdateAfterWrite
  <2>3. cache' \in Entry
    BY <1>0, <2>2, Pieces DEF Call
  <2>4. ~r.late => r.stamp = r.text
    BY <1>0, <1>3 DEF UpdateAfterWrite, At, Holds, InHand
  <2>5. EntryTrue'
    BY <2>2, <2>4 DEF EntryTrue, True, Text
  <2> QED BY <1>3, <2>1, <2>3, <2>5
          DEF IInv, TypeOK, UpdateAfterWrite, FileStays
<1> QED BY <1>1, <1>2, <1>3

\* Other programs, and a new process.
LEMMA WorldSteps ==
    ASSUME IInv, Outside \/ Resume
    PROVE  IInv'
<1>1. CASE Outside
  <2>1. \A d \in Calls :
           Missed(call[d]) \in Call /\ Holds(Missed(call[d]), disk', setting)
    BY MissedHolds DEF IInv, TypeOK
  <2>2. /\ call' \in [Calls -> Call]
        /\ \A d \in Calls : Holds(call'[d], disk', setting')
    BY <1>1, <2>1 DEF Outside
  <2>3. /\ disk' \in [there : BOOLEAN, id : Times]
        /\ made' \subseteq Times /\ clock' \in Times
    BY <1>1, Ticks, Pieces DEF Outside, IInv, TypeOK
  <2> QED BY <1>1, <2>2, <2>3 DEF Outside, IInv, TypeOK, EntryTrue
<1>2. CASE Resume
  <2>1. cache' \in Entry \cup {NoEntry}
    BY <1>2, Pieces DEF Resume, IInv, TypeOK
  <2>2. EntryTrue'
    BY <1>2 DEF Resume, EntryTrue, True, Blank, NoEntry
  <2> QED BY <1>2, <2>1, <2>2, Pieces, IdleHolds
          DEF Resume, IInv, TypeOK, FileStays
<1> QED BY <1>1, <1>2

LEMMA Inductive == IInv /\ [Next]_vars => IInv'
<1> SUFFICES ASSUME IInv, [Next]_vars PROVE IInv'
  OBVIOUS
<1>1. CASE UNCHANGED vars
  BY <1>1 DEF vars, IInv, TypeOK, EntryTrue
<1>2. CASE Next
  BY <1>2, ReadSteps, CheckSteps, WriteSteps, AfterSteps, WorldSteps
     DEF Next, Tools, Readers
<1> QED BY <1>1, <1>2

LEMMA Invariance == Spec => []IInv
BY Initial, Inductive, PTL DEF Spec

\* Every reachable state is well typed (the state of readfile.go and the local
\* variables of the calls), whatever the number of calls.
THEOREM TypeCorrect == Spec => []TypeOK
BY Invariance, PTL DEF IInv

\* No tool gives an entry of the cache the time of a text it does not hold,
\* unless the file changed between its read and its stat (readfile.go).
THEOREM EntriesAreTrue == Spec => []EntryTrue
BY Invariance, PTL DEF IInv

\* A write replaces an unknown content only if that content came after the
\* check, or through an entry that was never true (write.go, edit.go).
THEOREM LossesAreLate == Spec => LostOnlyInWindow
<1> DEFINE A == \A c \in Calls :
                   Replaces(c) /\ disk.there /\ ~call[c].late
                   /\ Checked(call[c].tool) => Knows(call[c], disk.id)
<1>1. IInv => A
  BY DEF IInv, Holds, Prepared, Replaces, At, Checked
<1>2. IInv /\ [Next]_vars => [A]_vars
  BY <1>1
<1> QED BY <1>2, Invariance, PTL DEF LostOnlyInWindow, Spec
=============================================================================
