---------------------------- MODULE SessionArchive ----------------------------
(***************************************************************************)
(* One session on disk, as `jenny compact` and `jenny -r` leave it         *)
(* (internal/compact, MaybeExtractArchive of internal/session): a          *)
(* directory, an archive <id>.tar.gz, or both after something was cut.     *)
(* Any number of processes work on it; there is no lock.  A process may    *)
(* die at every step.                                                      *)
(*                                                                         *)
(* Of the files of a session there are two, in the order of the walk:      *)
(* memory.md and transcript.jsonl.  The transcript is the set of the       *)
(* entries it has, numbered as they were written.                          *)
(***************************************************************************)
EXTENDS Naturals, Sequences, FiniteSets

CONSTANTS
    Workers,    \* the processes
    MaxOps,     \* bound: processes that are started
    MaxEntries, \* bound: entries that are written
    MaxCrashes  \* bound: processes that die

ArchiveAssumption ==
    MaxOps \in Nat /\ MaxEntries \in Nat \ {0} /\ MaxCrashes \in Nat
ASSUME ArchiveAssumption

VARIABLES
    dir,     \* the directory of the session
    files,   \* the files that were ever archives, or on the way to be
    tmp,     \* which of them <id>.tar.gz.tmp names, 0 for none
    archive, \* which of them <id>.tar.gz names, 0 for none
    work,    \* where each process stands
    written, \* the number of entries written
    ops, crashes,
    raced,   \* a process compacted or extracted while another was at work
    cut,     \* a process died while it filled or emptied the directory
    forced   \* an archive was removed by force after that

disk == <<dir, files, tmp, archive>>
ghosts == <<raced, cut, forced>>
vars == <<disk, work, written, ops, crashes, ghosts>>

Entries == 1..written
NoDir  == [is |-> FALSE, memory |-> FALSE, transcript |-> FALSE, entries |-> {}]
NoWork == [at |-> "idle", force |-> FALSE, keep |-> FALSE, list |-> {}, file |-> 0]
\* An archive is whole when it was closed by its only writer.
NoFile == [memory |-> FALSE, entries |-> {}, has |-> FALSE, whole |-> FALSE]

Listed(d) == (IF d.memory THEN {"memory"} ELSE {})
                 \cup (IF d.transcript THEN {"transcript"} ELSE {})

Init ==
    /\ dir = [is |-> TRUE, memory |-> TRUE, transcript |-> TRUE, entries |-> {1}]
    /\ files = <<>> /\ tmp = 0 /\ archive = 0
    /\ work = [w \in Workers |-> NoWork]
    /\ written = 1 /\ ops = 0 /\ crashes = 0
    /\ raced = FALSE /\ cut = FALSE /\ forced = FALSE

At(w, place) == work[w].at = place
Goto(w, place) == work' = [work EXCEPT ![w].at = place]
Finish(w) == work' = [work EXCEPT ![w] = NoWork]

Compacting == {"check", "open", "memory", "transcript", "close", "failed", "rename", "remove"}
Extracting == {"exMemory", "exCreate", "exCopy", "exRemove"}
Others(w) == {v \in Workers \ {w} : ~At(v, "idle")}
\* What the process is about to do, next to the others.
Race(w, alone) ==
    raced' = (raced \/ \E v \in Others(w) :
                           alone \/ work[v].at \in Compacting \cup Extracting)

-----------------------------------------------------------------------------
(* jenny compact: compactEntry, CompactOne, writeArchive.                  *)

\* A directory with a transcript is compacted, anything else is skipped.
StartCompact(w) ==
    /\ At(w, "idle") /\ ops < MaxOps
    /\ dir.is /\ dir.transcript
    /\ \E force \in BOOLEAN :
         work' = [work EXCEPT ![w] = [NoWork EXCEPT !.at = "check", !.force = force]]
    /\ ops' = ops + 1
    /\ Race(w, TRUE)
    /\ UNCHANGED <<disk, written, crashes, cut, forced>>

\* An archive that is there is kept, or removed first.
CheckArchive(w) ==
    /\ At(w, "check")
    /\ IF archive # 0 /\ ~work[w].force
       THEN Finish(w) /\ UNCHANGED <<archive, forced>>
       ELSE /\ Goto(w, "open")
            /\ archive' = 0
            /\ forced' = (forced \/ (archive # 0 /\ cut))
    /\ UNCHANGED <<dir, files, tmp, written, ops, crashes, raced, cut>>

\* The temporary file is created, or truncated when there is one: two writers
\* share it then.  The walk reads the names in the directory.
OpenTmp(w) ==
    /\ At(w, "open")
    /\ LET i == IF tmp = 0 THEN Len(files) + 1 ELSE tmp IN
       /\ tmp' = i
       /\ files' = IF tmp = 0 THEN Append(files, NoFile) ELSE [files EXCEPT ![tmp] = NoFile]
       /\ work' = [work EXCEPT ![w].at = IF dir.is THEN "memory" ELSE "failed",
                               ![w].file = i, ![w].list = Listed(dir)]
    /\ UNCHANGED <<dir, archive, written, ops, crashes, ghosts>>

\* The walk fails when a name it read is gone.
CopyMemory(w) ==
    /\ At(w, "memory")
    /\ IF "memory" \in work[w].list
       THEN IF dir.memory
            THEN /\ files' = [files EXCEPT ![work[w].file].memory = TRUE]
                 /\ Goto(w, "transcript")
            ELSE Goto(w, "failed") /\ UNCHANGED files
       ELSE Goto(w, "transcript") /\ UNCHANGED files
    /\ UNCHANGED <<dir, tmp, archive, written, ops, crashes, ghosts>>

\* An entry that comes between the header and the copy makes it too long.
CopyTranscript(w) ==
    /\ At(w, "transcript")
    /\ IF "transcript" \in work[w].list
       THEN \/ /\ dir.transcript
               /\ files' = [files EXCEPT ![work[w].file].has = TRUE,
                                         ![work[w].file].entries = dir.entries]
               /\ Goto(w, "close")
            \/ /\ ~dir.transcript \/ Others(w) # {}
               /\ Goto(w, "failed") /\ UNCHANGED files
       ELSE Goto(w, "close") /\ UNCHANGED files
    /\ UNCHANGED <<dir, tmp, archive, written, ops, crashes, ghosts>>

\* The temporary file, whoever made it, is removed.
GiveUp(w) ==
    /\ At(w, "failed")
    /\ tmp' = 0
    /\ Finish(w)
    /\ UNCHANGED <<dir, files, archive, written, ops, crashes, ghosts>>

\* The file is in order if nobody else has written to it since it was opened.
CloseTmp(w) ==
    /\ At(w, "close")
    /\ files' = [files EXCEPT ![work[w].file].whole =
                    ~\E v \in Others(w) : work[v].at \in {"memory", "transcript", "close"}
                                          /\ work[v].file = work[w].file]
    /\ Goto(w, "rename")
    /\ UNCHANGED <<dir, tmp, archive, written, ops, crashes, ghosts>>

\* The name of the archive now names what the temporary name does.
Rename(w) ==
    /\ At(w, "rename")
    /\ IF tmp = 0 THEN Finish(w) /\ UNCHANGED archive
       ELSE archive' = tmp /\ Goto(w, "remove")
    /\ tmp' = 0
    /\ UNCHANGED <<dir, files, written, ops, crashes, ghosts>>

\* os.RemoveAll: file by file in any order, and the directory.
RemoveDir(w) ==
    /\ At(w, "remove")
    /\ \/ dir.memory /\ dir' = [dir EXCEPT !.memory = FALSE] /\ UNCHANGED work
       \/ dir.transcript /\ dir' = [dir EXCEPT !.transcript = FALSE, !.entries = {}]
                         /\ UNCHANGED work
       \/ Listed(dir) = {} /\ dir' = NoDir /\ Finish(w)
    /\ UNCHANGED <<files, tmp, archive, written, ops, crashes, ghosts>>

-----------------------------------------------------------------------------
(* jenny -r: MaybeExtractArchive, ExtractArchive, and the session itself.  *)

\* The same if an archive went before the directory.
StartResumeFromArchive(w) ==
    /\ At(w, "idle") /\ ops < MaxOps
    /\ \E keep \in BOOLEAN :
         work' = [work EXCEPT ![w] = [NoWork EXCEPT !.keep = keep, !.file = archive,
                     !.at = IF archive # 0 THEN "exMemory" ELSE "load"]]
    /\ ops' = ops + 1
    /\ Race(w, archive # 0)
    /\ UNCHANGED <<disk, written, crashes, cut, forced>>

\* A directory that exists is taken as it is.
StartResume(w) ==
    /\ At(w, "idle") /\ ops < MaxOps
    /\ \E keep \in BOOLEAN :
         work' = [work EXCEPT ![w] = [NoWork EXCEPT !.keep = keep,
                     !.at = IF dir.is THEN "load"
                            ELSE IF archive # 0 THEN "exMemory" ELSE "load",
                     !.file = IF dir.is THEN 0 ELSE archive]]
    /\ ops' = ops + 1
    /\ Race(w, ~dir.is /\ archive # 0)
    /\ UNCHANGED <<disk, written, crashes, cut, forced>>

\* The reader finds a file that is not whole out where it breaks off.
Broken(w) == ~files[work[w].file].whole /\ Finish(w) /\ UNCHANGED dir

\* The same if the archive were removed as soon as it is open.
ExtractMemoryAndRemove(w) ==
    /\ At(w, "exMemory")
    /\ dir' = IF files[work[w].file].memory
              THEN [dir EXCEPT !.is = TRUE, !.memory = TRUE] ELSE dir
    /\ archive' = 0
    /\ Goto(w, "exCreate")
    /\ UNCHANGED <<files, tmp, written, ops, crashes, ghosts>>

ExtractMemory(w) ==
    /\ At(w, "exMemory")
    /\ \/ Broken(w)
       \/ /\ dir' = IF files[work[w].file].memory
                    THEN [dir EXCEPT !.is = TRUE, !.memory = TRUE] ELSE dir
          /\ Goto(w, "exCreate")
    /\ UNCHANGED <<files, tmp, archive, written, ops, crashes, ghosts>>

\* The transcript is created, or emptied, ...
ExtractCreate(w) ==
    /\ At(w, "exCreate")
    /\ \/ Broken(w)
       \/ /\ files[work[w].file].has
          /\ dir' = [dir EXCEPT !.is = TRUE, !.transcript = TRUE, !.entries = {}]
          /\ Goto(w, "exCopy")
       \/ /\ ~files[work[w].file].has
          /\ Goto(w, "exRemove") /\ UNCHANGED dir
    /\ UNCHANGED <<files, tmp, archive, written, ops, crashes, ghosts>>

\* ... and filled, if it is still there.
ExtractCopy(w) ==
    /\ At(w, "exCopy")
    /\ \/ Broken(w)
       \/ /\ dir' = IF dir.transcript
                    THEN [dir EXCEPT !.entries = files[work[w].file].entries] ELSE dir
          /\ Goto(w, "exRemove")
    /\ UNCHANGED <<files, tmp, archive, written, ops, crashes, ghosts>>

\* The archive that has the name by now is removed; it is an error when none has.
ExtractRemove(w) ==
    /\ At(w, "exRemove")
    /\ IF work[w].keep THEN Goto(w, "load") /\ UNCHANGED archive
       ELSE IF archive = 0 THEN Finish(w) /\ UNCHANGED archive
       ELSE archive' = 0 /\ Goto(w, "load")
    /\ UNCHANGED <<dir, files, tmp, written, ops, crashes, ghosts>>

\* SessionExists and HasChainMessages, after which the session runs.
Load(w) ==
    /\ At(w, "load")
    /\ IF dir.transcript /\ dir.entries # {} THEN Goto(w, "run") ELSE Finish(w)
    /\ UNCHANGED <<disk, written, ops, crashes, ghosts>>

\* AppendEntry makes what is missing of the path again.
AppendEntry(w) ==
    /\ At(w, "run") /\ written < MaxEntries
    /\ written' = written + 1
    /\ dir' = [dir EXCEPT !.is = TRUE, !.transcript = TRUE, !.entries = @ \cup {written + 1}]
    /\ UNCHANGED <<files, tmp, archive, work, ops, crashes, ghosts>>

Leave(w) ==
    /\ At(w, "run")
    /\ Finish(w)
    /\ UNCHANGED <<disk, written, ops, crashes, ghosts>>

-----------------------------------------------------------------------------

\* A process dies where it stands.
Crash(w) ==
    /\ ~At(w, "idle") /\ crashes < MaxCrashes
    /\ crashes' = crashes + 1
    /\ cut' = (cut \/ work[w].at \in Extracting \cup {"remove"})
    /\ Finish(w)
    /\ UNCHANGED <<disk, written, ops, raced, forced>>

Next ==
    \E w \in Workers :
        \/ StartCompact(w) \/ CheckArchive(w) \/ OpenTmp(w) \/ CopyMemory(w)
        \/ CopyTranscript(w) \/ GiveUp(w) \/ CloseTmp(w) \/ Rename(w) \/ RemoveDir(w)
        \/ StartResume(w) \/ ExtractMemory(w) \/ ExtractCreate(w) \/ ExtractCopy(w)
        \/ ExtractRemove(w) \/ Load(w) \/ AppendEntry(w) \/ Leave(w)
        \/ Crash(w)

Spec == Init /\ [][Next]_vars

-----------------------------------------------------------------------------

Archived == IF archive # 0 /\ files[archive].whole THEN files[archive].entries ELSE {}

\* "compact is lossless" (docs/arch/clean-compact.md:24): wherever a process
\* dies, every entry ever written is in the directory or in an archive that can
\* be read -- unless two processes were at work, or an archive was overwritten by
\* force after one of them was cut.
NothingLost == ~raced /\ ~forced => Entries \subseteq dir.entries \cup Archived

\* A resume opens the session with all that was ever written to it, however
\* often it was archived and by whichever cut compaction, and it finds it,
\* unless a process raced it or died on the directory before.
ResumesWhole ==
    [][\A w \in Workers :
         At(w, "load") /\ work'[w].at # "load" /\ crashes' = crashes /\ ~raced /\ ~cut
            => work'[w].at = "run" /\ dir.entries = Entries]_vars
=============================================================================
