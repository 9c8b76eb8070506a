----------------------------- MODULE FileCache -----------------------------
(***************************************************************************)
(* The read-before-write contract of the file tools: ReadFileCache         *)
(* (internal/tool/readfile.go) and the Read, Write, Edit and NotebookEdit  *)
(* tools that share it, for one path.  Calls of several agents overlap     *)
(* (parallel reads of a response, subagents that inherit the cache), other *)
(* programs change the file, and the process may die and resume.           *)
(*                                                                         *)
(* Every change of the file has a time of its own, so a time stands for    *)
(* the content written at it: `id' of the file is both.  A program that    *)
(* puts an older copy back (mv, git, tar) brings its older time with it.   *)
(***************************************************************************)
EXTENDS Integers

CONSTANTS
    Calls,   \* tool calls that may overlap
    Settings,\* the kinds of path and the permission levels to consider
    MaxTime  \* bound: changes of the file and looks at the clock

ASSUME SettingsAssumption ==
    Settings \subseteq [notebook : BOOLEAN, restricted : BOOLEAN]
ASSUME MaxTimeAssumption == MaxTime \in Nat \ {0}

VARIABLES
    disk,    \* the file: whether it is there, and its content
    made,    \* contents the file has had
    clock,
    cache,   \* ReadFileCache.entries of the path
    call,    \* the tool calls, each with what it holds in local variables
    setting  \* whether the path is a notebook, and the permission level

vars == <<disk, made, clock, cache, call, setting>>

Readers == {"Read", "PartialRead"}
Editors == {"Edit", "ScopedEdit"}
Tools == Readers \cup Editors \cup {"Write", "NotebookEdit"}

Times == 0..MaxTime

\* A ReadFileEntry.  `from' is what offset, limit and IsFullRead tell apart:
\* a full read (1, 0), a partial one, an entry of a tool or the seed (0, 0).
\* `kind' says whether Content is a text of the file, with `content' the text,
\* nothing, or what a Read once printed.  `raced' is history: the file changed
\* between the read of the content and the stat that gave the time.
Entry == [mtime : Times, from : {"read", "part", "tool"},
          kind : {"text", "empty", "printed"}, content : Times,
          raced : BOOLEAN]
NoEntry == [mtime |-> 0, from |-> "none", kind |-> "empty", content |-> 0,
            raced |-> FALSE]

Blank(t, kind, from) ==
    [mtime |-> t, from |-> from, kind |-> kind, content |-> 0, raced |-> FALSE]
Text(t, c, from, raced) ==
    [mtime |-> t, from |-> from, kind |-> "text", content |-> c, raced |-> raced]

Full(e) == e.from \in {"read", "tool"}

\* A call: where it stands, the entry it fetched, the content its result is
\* built from, the text for the cache and its time.  A field no longer needed
\* is reset.  `late' is history: the file changed behind the look at it that
\* the call relies on.
Places == {"idle", "check", "open", "record", "stale", "bytes", "temp",
           "rename", "create", "fill", "reread", "after", "put"}
Idle == [pc |-> "idle", tool |-> "Read", held |-> NoEntry, base |-> 0,
         text |-> 0, stamp |-> 0, late |-> FALSE]

File(id) == [there |-> TRUE, id |-> id]
NoFile == [there |-> FALSE, id |-> 0]

Init ==
    /\ \/ disk = NoFile /\ made = {} /\ clock = 0
       \/ disk = File(1) /\ made = {1} /\ clock = 1
    /\ cache = NoEntry
    /\ call = [c \in Calls |-> Idle]
    /\ setting \in Settings

-----------------------------------------------------------------------------
(* What the steps are made of.                                             *)

At(c, place) == call[c].pc = place
Now == clock + 1
Tick == clock < MaxTime /\ clock' = clock + 1
FileStays == UNCHANGED <<disk, made>>

\* The call goes on as r; the others stay as they are.
Becomes(c, r) == call' = [call EXCEPT ![c] = r]
Step(c, place) == Becomes(c, [call[c] EXCEPT !.pc = place])
Return(c) == Becomes(c, Idle)

\* A change of the file is behind the back of every call that relies on what
\* it saw of it; a call about to fill the cache has its pair already.
Relying == {"record", "temp", "rename", "create", "fill", "reread", "after"}
Missed(r) ==
    IF r.pc \in Relying THEN [r EXCEPT !.late = TRUE] ELSE r
BehindBacks(c, r) ==
    call' = [d \in Calls |-> IF d = c THEN r ELSE Missed(call[d])]

-----------------------------------------------------------------------------
(* ReadTool.Execute.                                                       *)

\* The first stat: a file that is not there counts as read, at this time.
ReadStat(c, t) ==
    /\ At(c, "idle") /\ t \in Readers
    /\ \/ /\ ~disk.there
          /\ Tick
          /\ cache' = Blank(Now, "empty", "read")
          /\ UNCHANGED call
       \/ /\ disk.there
          /\ Becomes(c, [Idle EXCEPT !.tool = t,
                         !.pc = IF t = "Read" THEN "check" ELSE "open"])
          /\ UNCHANGED <<clock, cache>>
    /\ FileStays /\ UNCHANGED setting

Hit == cache.from = "read" /\ disk.there /\ disk.id = cache.mtime

\* A full read of more than the limit, or than max_size, is refused.
Sized(c) == Return(c) \/ Step(c, "open")

\* ReadFileCache.CheckAndRecord and the checks of size behind it.
CheckAndRecord(c) ==
    /\ At(c, "check")
    /\ \/ Hit /\ Return(c) /\ UNCHANGED cache
       \/ /\ disk.there /\ ~Hit
          /\ cache' = Blank(disk.id, "empty", "read")
          /\ Sized(c)
       \/ ~disk.there /\ Sized(c) /\ UNCHANGED cache
    /\ FileStays /\ UNCHANGED <<clock, setting>>

\* os.ReadFile, which may fail.
ReadFile(c) ==
    /\ At(c, "open")
    /\ \/ Return(c)
       \/ /\ disk.there
          /\ Becomes(c, [call[c] EXCEPT !.pc = "record", !.text = disk.id])
    /\ FileStays /\ UNCHANGED <<clock, cache, setting>>

\* ReadFileCache.StatAndRecord; a failing stat leaves the zero time.
StatAndRecord(c) ==
    /\ At(c, "record")
    /\ cache' = Text(IF disk.there THEN disk.id ELSE 0, call[c].text,
                     IF call[c].tool = "Read" THEN "read" ELSE "part",
                     call[c].late)
    /\ Return(c)
    /\ FileStays /\ UNCHANGED <<clock, setting>>

-----------------------------------------------------------------------------
(* The checks of the tools that write.                                     *)

\* Edit refuses notebooks and NotebookEdit everything else.
Fits(t) ==
    CASE t \in Editors -> ~setting.notebook
      [] t = "NotebookEdit" -> setting.notebook
      [] t = "Write" -> TRUE

\* NotebookEdit has no level at which it skips the contract.
Checked(t) == setting.restricted \/ t = "NotebookEdit"

Continue(t) ==
    CASE t \in Editors -> "bytes" [] t = "NotebookEdit" -> "create"
      [] t = "Write" -> "temp"

\* ReadFileCache.GetRead.  A call without an entry returns at once.
GetRead(c, t) ==
    /\ At(c, "idle") /\ t \in Tools \ Readers /\ Fits(t)
    /\ \/ /\ Checked(t) /\ cache # NoEntry
          /\ Becomes(c, [Idle EXCEPT !.pc = "stale", !.tool = t, !.held = cache])
       \/ /\ ~Checked(t)
          /\ Becomes(c, [Idle EXCEPT !.pc = Continue(t), !.tool = t])
    /\ FileStays /\ UNCHANGED <<clock, cache, setting>>

\* The same if an entry without text were taken for one that cannot be stale.
StaleIfText(e) == e.kind = "text" /\ disk.there /\ disk.id > e.mtime
Stale(e) == disk.there /\ disk.id > e.mtime

\* A scoped edit may follow a partial read that covers its lines; a notebook
\* is parsed out of the entry, so there must be one in it.
Admits(t, e) ==
    /\ Full(e) \/ t = "ScopedEdit"
    /\ t = "NotebookEdit" => e.kind = "text"

\* The staleness check, and the refusals that follow it.
Check(c) ==
    /\ At(c, "stale")
    /\ LET r == call[c] IN
       \/ Return(c)
       \/ /\ ~Stale(r.held) /\ Admits(r.tool, r.held)
          /\ Becomes(c, IF r.tool \in Editors
                        THEN [r EXCEPT !.pc = "bytes", !.held = NoEntry,
                              !.stamp = r.held.mtime]
                        ELSE [r EXCEPT !.pc = Continue(r.tool),
                              !.stamp = IF r.tool = "Write" THEN 0
                                        ELSE r.held.mtime])
    /\ FileStays /\ UNCHANGED <<clock, cache, setting>>

\* Edit takes the text from the file again.  Without a match it returns; an
\* edit of nothing creates a file that is missing.
ReadBytes(c) ==
    /\ At(c, "bytes")
    /\ \/ Return(c)
       \/ /\ disk.there
          /\ Becomes(c, [call[c] EXCEPT !.pc = "temp", !.base = disk.id])
       \/ ~disk.there /\ Step(c, "create")
    /\ FileStays /\ UNCHANGED <<clock, cache, setting>>

-----------------------------------------------------------------------------
(* Writing.                                                                *)

Fails(c) == Return(c) /\ FileStays /\ UNCHANGED clock

\* The temporary file gets its time here, before it has the name.
WriteTemp(c) ==
    /\ At(c, "temp")
    /\ \/ Fails(c)
       \/ /\ Tick /\ FileStays
          /\ Becomes(c, [call[c] EXCEPT !.pc = "rename", !.text = Now])
    /\ UNCHANGED <<cache, setting>>

Behind(t) == IF t = "ScopedEdit" THEN "reread" ELSE "after"

\* What the call relied on is behind it.
Wrote(r, place, text) ==
    [Idle EXCEPT !.pc = place, !.text = text, !.stamp = r.stamp]

Rename(c) ==
    /\ At(c, "rename")
    /\ LET r == call[c] IN
       \/ Fails(c)
       \/ /\ disk' = File(r.text) /\ made' = made \cup {r.text}
          /\ BehindBacks(c, Wrote(r, Behind(r.tool), r.text))
          /\ UNCHANGED clock
    /\ UNCHANGED <<cache, setting>>

\* os.WriteFile of a notebook, or of a file that an edit creates: the file is
\* truncated first.
Truncate(c) ==
    /\ At(c, "create")
    /\ \/ Fails(c)
       \/ /\ Tick
          /\ disk' = File(Now) /\ made' = made \cup {Now}
          /\ BehindBacks(c, Wrote(call[c], "fill", Now))
    /\ UNCHANGED <<cache, setting>>

\* Then it is written, to the file that was opened: another may have its name
\* by now.  Writing may fail half way.
Fill(c) ==
    /\ At(c, "fill")
    /\ LET r == call[c] IN
       \/ Fails(c)
       \/ /\ Tick /\ disk.there
          /\ disk' = File(Now) /\ made' = made \cup {Now}
          /\ BehindBacks(c, Wrote(r, "after", Now))
       \/ /\ r.late
          /\ FileStays /\ UNCHANGED clock
          /\ Becomes(c, [r EXCEPT !.pc = "after"])
    /\ UNCHANGED <<cache, setting>>

\* A scoped edit reads the file again for the cache.  If it cannot, the file
\* was removed behind its back, and what the entry says counts as raced.
Reread(c) ==
    /\ At(c, "reread")
    /\ IF disk.there
       THEN Becomes(c, [call[c] EXCEPT !.pc = "after", !.text = disk.id,
                        !.late = FALSE])
       ELSE Step(c, "after")
    /\ FileStays /\ UNCHANGED <<clock, cache, setting>>

\* The same with the time of the clock in place of the file's.
StatAfterByClock(c) ==
    /\ At(c, "after")
    /\ Becomes(c, [call[c] EXCEPT !.pc = "put", !.stamp = clock])
    /\ FileStays /\ UNCHANGED <<clock, cache, setting>>

\* The stat behind the change.  When it fails Write records the zero time and
\* the others keep the time of the entry.
StatAfter(c) ==
    /\ At(c, "after")
    /\ Becomes(c, [call[c] EXCEPT !.pc = "put", !.stamp =
            IF disk.there THEN disk.id ELSE call[c].stamp])
    /\ FileStays /\ UNCHANGED <<clock, cache, setting>>

\* The same if the entry kept the range of the one it replaces.
UpdateAfterWriteInRange(c) ==
    /\ At(c, "put")
    /\ cache' = Text(call[c].stamp, call[c].text, call[c].held.from, call[c].late)
    /\ Return(c)
    /\ FileStays /\ UNCHANGED <<clock, setting>>

\* ReadFileCache.UpdateAfterWrite of Write, RecordRead of the others.
UpdateAfterWrite(c) ==
    /\ At(c, "put")
    /\ cache' = Text(call[c].stamp, call[c].text, "tool", call[c].late)
    /\ Return(c)
    /\ FileStays /\ UNCHANGED <<clock, setting>>

-----------------------------------------------------------------------------
(* The world outside.                                                      *)

\* Another program writes the file, puts a copy back or removes it.
Outside ==
    /\ \/ Tick /\ disk' = File(Now) /\ made' = made \cup {Now}
       \/ /\ \E id \in made : disk' = File(id)
          /\ disk' # disk /\ UNCHANGED <<made, clock>>
       \/ disk.there /\ disk' = NoFile /\ UNCHANGED <<made, clock>>
    /\ call' = [d \in Calls |-> Missed(call[d])]
    /\ UNCHANGED <<cache, setting>>

\* The process dies and the session is resumed: calls and cache are gone.
\* seedReadFileCacheFromTranscript gives a file that was read, in this process
\* or an earlier one, the time it has by then; there is no entry if it was
\* not, or by a path relative to the directory.
Resume ==
    /\ call' = [c \in Calls |-> Idle]
    /\ \/ cache' = NoEntry
       \/ disk.there /\ cache' = Blank(disk.id, "printed", "tool")
    /\ FileStays /\ UNCHANGED <<clock, setting>>

Next ==
    \/ \E c \in Calls, t \in Tools : ReadStat(c, t) \/ GetRead(c, t)
    \/ \E c \in Calls :
          \/ CheckAndRecord(c) \/ ReadFile(c) \/ StatAndRecord(c)
          \/ Check(c) \/ ReadBytes(c) \/ WriteTemp(c) \/ Rename(c)
          \/ Truncate(c) \/ Fill(c) \/ Reread(c) \/ StatAfter(c)
          \/ UpdateAfterWrite(c)
    \/ Outside
    \/ Resume

Spec == Init /\ [][Next]_vars

-----------------------------------------------------------------------------
(* Properties.                                                             *)

Call == [pc : Places, tool : Tools, held : Entry \cup {NoEntry}, base : Times,
         text : Times, stamp : Times, late : BOOLEAN]

TypeOK ==
    /\ disk \in [there : BOOLEAN, id : Times]
    /\ made \subseteq Times /\ clock \in Times
    /\ cache \in Entry \cup {NoEntry}
    /\ call \in [Calls -> Call]
    /\ setting \in Settings

\* An entry with a text has the time of that text, unless the file changed
\* while the tool that made the entry was between its read and its stat: a
\* time is never taken for a text of an earlier call, of another call or of
\* a file that was replaced before (readfile.go, StatAndRecord and
\* UpdateAfterWrite, with all tools interleaved).
True(e) == e.kind = "text" /\ ~e.raced => e.content = e.mtime
EntryTrue == True(cache)

\* What a call at work knows of the content x that it replaces.
Knows(r, x) ==
    IF r.tool \in Editors THEN r.base = x
    ELSE /\ x <= r.held.mtime
         /\ x = r.held.mtime /\ r.held.kind = "text" /\ ~r.held.raced
               => r.held.content = x

Replaces(c) ==
    \/ At(c, "rename") /\ call'[c].pc \in {"reread", "after"}
    \/ At(c, "create") /\ call'[c].pc = "fill"

\* At the constrained levels a call replaces a content it was not built from,
\* and that is not in its entry, only if the file changed after its check (for
\* Edit, after its read), if its entry was made by a read that overlapped a
\* change or never gave the text, or if the content is older than the entry
\* (the contract of write.go, edit.go and notebook_edit.go).
LostOnlyInWindow ==
    [][\A c \in Calls :
          Replaces(c) /\ disk.there /\ ~call[c].late
          /\ Checked(call[c].tool) => Knows(call[c], disk.id)]_vars
=============================================================================
