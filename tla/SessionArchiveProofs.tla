------------------------ MODULE SessionArchiveProofs ------------------------
(***************************************************************************)
(* Theorems about SessionArchive, for any number of processes, entries and *)
(* crashes.  The argument: a process that compacts or extracts is alone    *)
(* (Phases), so what it knows of the disk stays true until it is done, and *)
(* at every step the entries are where the step does not reach (Kept).     *)
(***************************************************************************)
EXTENDS SessionArchive, TLAPS

Places == {"idle", "load", "run"} \cup Compacting \cup Extracting
Names  == {"memory", "transcript"}

FileType == [memory : BOOLEAN, entries : SUBSET Nat, has : BOOLEAN, whole : BOOLEAN]
DirType == [is : BOOLEAN, memory : BOOLEAN, transcript : BOOLEAN, entries : SUBSET Nat]
WorkType == [at : Places, force : BOOLEAN, keep : BOOLEAN, list : SUBSET Names, file : Nat]

TypeOK ==
    /\ dir \in DirType
    /\ files \in Seq(FileType)
    /\ tmp \in Nat /\ archive \in Nat
    /\ work \in [Workers -> WorkType]
    /\ written \in Nat \ {0} /\ ops \in Nat /\ crashes \in Nat

\* The files, whoever is at work: a name names a file, two names never name
\* the same, and what a transcript holds was written.
Files ==
    /\ tmp \in 0..Len(files) /\ archive \in 0..Len(files)
    /\ tmp # 0 => tmp # archive
    /\ \A i \in 1..Len(files) : files[i].entries \subseteq Entries
                                /\ (files[i].entries # {} => files[i].has)
Directory ==
    /\ dir.entries \subseteq Entries
    /\ dir.entries # {} => dir.transcript
    /\ dir.transcript => dir.is
Holds(w) ==
    /\ work[w].file \in 0..Len(files)
    /\ work[w].at \in {"memory", "transcript", "close"} \cup Extracting => work[w].file # 0
Held == \A w \in Workers : Holds(w)

\* A process that compacts or extracts is alone, and what it has seen of the
\* disk is still so.
Busy(w) == work[w].at \in Compacting \cup Extracting
Alone == \A w \in Workers : Busy(w) => \A v \in Workers \ {w} : At(v, "idle")
Phase(w) ==
    /\ work[w].at \in {"check", "run"} => dir.is
    /\ work[w].at \in {"open", "memory", "transcript", "close", "failed", "rename"} =>
           archive = 0
    /\ work[w].at \in {"memory", "transcript", "close", "rename"} =>
           tmp # 0 /\ work[w].file = tmp
    /\ work[w].at \in {"memory", "transcript"} => work[w].list = Listed(dir)
    /\ work[w].at \in {"close", "rename"} => dir.entries \subseteq files[tmp].entries
    /\ work[w].at = "rename" => files[tmp].whole
    /\ work[w].at \in Extracting => archive # 0 /\ work[w].file = archive
    /\ work[w].at = "exCopy" => dir.transcript
Phases ==
    ~raced => /\ Alone
              /\ archive # 0 => files[archive].whole
              /\ \A w \in Workers : Phase(w)

\* Where the entries are.
Emptied(w) == work[w].at \in Extracting \cup {"remove"}
KeptBy(w) ==
    /\ Emptied(w) => Entries \subseteq Archived
    /\ At(w, "exRemove") => Entries \subseteq dir.entries
    /\ At(w, "load") => dir.is
Kept ==
    ~raced /\ ~forced =>
        /\ Entries \subseteq dir.entries \cup Archived
        /\ \A w \in Workers : KeptBy(w)
        /\ ~cut /\ dir.is /\ (\A w \in Workers : ~Emptied(w)) => Entries \subseteq dir.entries
Forced == forced => cut

Inv == TypeOK /\ Files /\ Directory /\ Held /\ Phases /\ Kept /\ Forced

-----------------------------------------------------------------------------

LEMMA Initial == Init => Inv
<1> SUFFICES ASSUME Init PROVE Inv
  OBVIOUS
<1>1. TypeOK
  BY DEF Init, TypeOK, DirType, WorkType, NoWork, Places, Names, Compacting, Extracting
<1>2. Files /\ Directory /\ Forced
  BY DEF Init, Files, Directory, Forced, Entries
<1>5. Held
  BY DEF Init, Held, Holds, NoWork, Extracting
<1>3. Phases
  BY DEF Init, Phases, Alone, Phase, Busy, NoWork, Compacting, Extracting
<1>4. Kept
  <2>1. Entries \subseteq dir.entries
    BY DEF Init, Entries
  <2>2. \A w \in Workers : KeptBy(w)
    BY DEF Init, KeptBy, Emptied, At, NoWork, Extracting
  <2> QED
    BY <2>1, <2>2 DEF Kept
<1> QED
  BY <1>1, <1>2, <1>3, <1>4, <1>5 DEF Inv

-----------------------------------------------------------------------------
(* Types.                                                                  *)

LEMMA NoWorkType == NoWork \in WorkType
  BY DEF NoWork, WorkType, Places, Names

LEMMA NoFileType == NoFile \in FileType
  BY DEF NoFile, FileType

LEMMA PlacesAre ==
    /\ {"idle", "load", "run"} \subseteq Places
    /\ {"check", "open", "memory", "transcript", "close", "failed", "rename", "remove"} \subseteq Places
    /\ {"exMemory", "exCreate", "exCopy", "exRemove"} \subseteq Places
  BY DEF Places, Compacting, Extracting

LEMMA GotoType ==
    ASSUME work \in [Workers -> WorkType], NEW w \in Workers, NEW p \in Places, Goto(w, p)
    PROVE  work' \in [Workers -> WorkType]
  BY DEF WorkType, Goto

LEMMA FinishType ==
    ASSUME work \in [Workers -> WorkType], NEW w \in Workers, Finish(w)
    PROVE  work' \in [Workers -> WorkType]
  BY NoWorkType DEF Finish

LEMMA OpenType ==
    ASSUME work \in [Workers -> WorkType], NEW w \in Workers, NEW p \in Places, NEW i \in Nat,
           NEW d, work' = [work EXCEPT ![w].at = p, ![w].file = i, ![w].list = Listed(d)]
    PROVE  work' \in [Workers -> WorkType]
<1>1. Listed(d) \in SUBSET Names
  BY DEF Listed, Names
<1>2. [work[w] EXCEPT !.at = p, !.file = i, !.list = Listed(d)] \in WorkType
  BY <1>1 DEF WorkType
<1>3. work' = [work EXCEPT ![w] = [work[w] EXCEPT !.at = p, !.file = i, !.list = Listed(d)]]
  OBVIOUS
<1> QED
  BY <1>2, <1>3

LEMMA UpdateType ==
    ASSUME NEW s \in Seq(FileType), NEW i \in 1..Len(s), NEW f \in FileType
    PROVE  [s EXCEPT ![i] = f] \in Seq(FileType) /\ Append(s, f) \in Seq(FileType)
  OBVIOUS

-----------------------------------------------------------------------------
(* A step of a process that compacts or extracts: where nobody races it,   *)
(* the others stand still, and only what it knows itself is at stake.      *)

KeepsOwn(w) ==
    /\ Entries \subseteq dir.entries \cup Archived
    /\ KeptBy(w)
    /\ ~cut /\ dir.is /\ ~Emptied(w) => Entries \subseteq dir.entries
Knows(w) ==
    /\ Holds(w) /\ work[w] \in WorkType /\ Len(files) \in Nat
    /\ \A i \in 1..Len(files) : files[i] \in FileType
    /\ ~raced => Others(w) = {} /\ Phase(w) /\ (archive # 0 => files[archive].whole)
    /\ ~raced /\ ~forced => KeepsOwn(w)

LEMMA Lone ==
    ASSUME NEW w \in Workers, Busy(w), Phases, Kept, Held,
           \A v \in Workers \ {w} : work'[v] = work[v],
           files' = files \/ Len(files') >= Len(files), Len(files) \in Nat, Len(files') \in Nat,
           raced' = raced, forced => forced',
           Holds(w)',
           ~raced => Phase(w)' /\ (archive' # 0 => files'[archive'].whole),
           ~raced /\ ~forced' => KeepsOwn(w)'
    PROVE  Held' /\ Phases' /\ Kept'
<1>1. Held'
  BY DEF Held, Holds
<1>2. ~raced => \A v \in Workers \ {w} : work'[v].at = "idle"
  BY DEF Phases, Alone, Busy, At
<1>3. Phases'
  BY <1>2 DEF Phases, Alone, Busy, At, Phase, Compacting, Extracting
<1>4. Kept'
  BY <1>2 DEF Kept, KeepsOwn, KeptBy, Emptied, At, Extracting
<1> QED
  BY <1>1, <1>3, <1>4

\* What a process that compacts or extracts knows before the step.
LEMMA Known == ASSUME Inv, NEW w \in Workers, Busy(w) PROVE Knows(w)
<1>1. Holds(w) /\ work[w] \in WorkType /\ Len(files) \in Nat
  BY DEF Inv, TypeOK, Held
<1>2. \A i \in 1..Len(files) : files[i] \in FileType
  BY DEF Inv, TypeOK
<1>3. ~raced => Others(w) = {} /\ Phase(w) /\ (archive # 0 => files[archive].whole)
  BY DEF Inv, Phases, Alone, Others
<1>4. ASSUME ~raced, ~forced PROVE KeepsOwn(w)
  <2>1. \A v \in Workers \ {w} : ~Emptied(v)
    BY <1>4 DEF Inv, Phases, Alone, At, Emptied, Extracting
  <2> QED
    BY <1>4, <2>1 DEF Inv, Kept, KeepsOwn
<1> QED
  BY <1>1, <1>2, <1>3, <1>4 DEF Knows

LEMMA CheckArchiveKeeps == ASSUME Inv, NEW w \in Workers, CheckArchive(w) PROVE Inv'
<1>0. TypeOK /\ Files /\ Directory /\ Held /\ Phases /\ Kept /\ Forced /\ CheckArchive(w)
  BY DEF Inv
<1>1. Busy(w)
  BY <1>0 DEF CheckArchive, At, Busy, Compacting, Extracting
<1>2. Knows(w)
  BY <1>1, Known
<1>3. TypeOK'
  <2>1. work' \in [Workers -> WorkType]
    BY <1>0, <1>2, FinishType, GotoType, PlacesAre DEF TypeOK, Knows, CheckArchive
  <2>2. files' \in Seq(FileType)
    BY <1>0, <1>2, NoFileType, UpdateType DEF TypeOK, FileType, Holds, Knows, CheckArchive,
       At
  <2>3. dir' \in DirType
    BY <1>0, <1>2 DEF TypeOK, DirType, FileType, Holds, Knows, KeepsOwn, CheckArchive, At,
       Goto, Finish
  <2>4. /\ tmp' \in Nat /\ archive' \in Nat /\ written' \in Nat \ {0}
        /\ ops' \in Nat /\ crashes' \in Nat
    BY <1>0, <1>2 DEF TypeOK, Knows, KeepsOwn, CheckArchive, At, Goto, Finish
  <2> QED
    BY <2>1, <2>2, <2>3, <2>4 DEF TypeOK
<1>4. Files' /\ Len(files') \in Nat /\ Len(files') >= Len(files)
  BY <1>0, <1>2, <1>3 DEF TypeOK, Files, FileType, Entries, Holds, Directory, Knows,
     KeepsOwn, CheckArchive, At, Goto, Finish, NoWork
<1>5. Directory' /\ Forced'
  <2>1. Directory'
    BY <1>0, <1>2 DEF TypeOK, Directory, DirType, Files, Holds, FileType, Entries, Knows,
       KeepsOwn, CheckArchive, At, Goto, Finish
  <2>2. Forced'
    <3>1. forced' => forced \/ cut
      BY <1>0 DEF CheckArchive
    <3>2. cut' = cut
      BY <1>0 DEF CheckArchive
    <3> QED
      BY <1>0, <3>1, <3>2 DEF Forced
  <2> QED
    BY <2>1, <2>2
<1>6. Holds(w)' /\ \A v \in Workers \ {w} : work'[v] = work[v]
  <2>1. CASE Finish(w)
    BY <1>0, <2>1 DEF Holds, TypeOK, Finish, NoWork, Extracting, CheckArchive
  <2>2. CASE Goto(w, "open")
    BY <1>0, <1>2, <2>2 DEF Knows, Holds, TypeOK, Goto, WorkType, Extracting, CheckArchive
  <2> QED
    BY <1>0, <2>1, <2>2 DEF CheckArchive
<1>7. ~raced => Phase(w)' /\ (archive' # 0 => files'[archive'].whole)
  BY <1>0, <1>2, <1>3 DEF TypeOK, WorkType, FileType, Files, Directory, Holds, Phase,
     Compacting, Extracting, Knows, KeepsOwn, CheckArchive, At, Goto, Finish, NoWork
<1>8. ~raced /\ ~forced' => KeepsOwn(w)'
  <2> SUFFICES ASSUME ~raced, ~forced' PROVE KeepsOwn(w)'
    OBVIOUS
  <2>1. ~forced /\ dir.is /\ KeepsOwn(w)
    BY <1>0, <1>2 DEF CheckArchive, Knows, Phase, At
  <2>2. archive' = archive \/ ~cut \/ archive = 0
    BY <1>0 DEF CheckArchive
  <2>3. UNCHANGED <<dir, files, written, cut>>
    BY <1>0 DEF CheckArchive
  <2>4. work'[w].at \in {"idle", "open"}
    BY <1>0 DEF CheckArchive, Goto, Finish, NoWork, TypeOK, WorkType
  <2>5. archive' = archive \/ archive' = 0
    BY <1>0 DEF CheckArchive
  <2>6. ~cut => Entries \subseteq dir.entries
    BY <1>0, <2>1 DEF CheckArchive, KeepsOwn, Emptied, At, Extracting
  <2> QED
    BY <2>1, <2>2, <2>3, <2>4, <2>5, <2>6 DEF KeepsOwn, KeptBy, Emptied, At, Extracting,
       Entries, Archived
<1>9. raced' = raced /\ (forced => forced')
  BY <1>0 DEF CheckArchive, At, Goto, Finish
<1> QED
  BY <1>0, <1>1, <1>2, <1>3, <1>4, <1>5, <1>6, <1>7, <1>8, <1>9, Lone DEF Inv, Knows

LEMMA OpenTmpKeeps == ASSUME Inv, NEW w \in Workers, OpenTmp(w) PROVE Inv'
<1>0. TypeOK /\ Files /\ Directory /\ Held /\ Phases /\ Kept /\ Forced /\ OpenTmp(w)
  BY DEF Inv
<1>1. Busy(w)
  BY <1>0 DEF OpenTmp, At, Busy, Compacting, Extracting
<1>2. Knows(w)
  BY <1>1, Known
<1>3. TypeOK'
  <2>1. work' \in [Workers -> WorkType]
    <3> DEFINE p == IF dir.is THEN "memory" ELSE "failed"
               i == IF tmp = 0 THEN Len(files) + 1 ELSE tmp
    <3>1. work' = [work EXCEPT ![w].at = p, ![w].file = i, ![w].list = Listed(dir)]
      BY <1>0 DEF OpenTmp
    <3>2. p \in Places /\ i \in Nat
      BY <1>0, <1>2, PlacesAre DEF TypeOK, Knows
    <3> HIDE DEF p, i
    <3> QED
      BY <1>0, <3>1, <3>2, OpenType DEF TypeOK
  <2>2. files' \in Seq(FileType)
    <3>1. tmp # 0 => tmp \in 1..Len(files)
      BY <1>0 DEF TypeOK, Files
    <3> QED
      BY <1>0, <3>1, NoFileType DEF TypeOK, OpenTmp
  <2>3. dir' \in DirType
    BY <1>0, <1>2 DEF TypeOK, DirType, FileType, Holds, Knows, KeepsOwn, OpenTmp, At, ghosts
  <2>4. /\ tmp' \in Nat /\ archive' \in Nat /\ written' \in Nat \ {0}
        /\ ops' \in Nat /\ crashes' \in Nat
    BY <1>0, <1>2 DEF TypeOK, Knows, KeepsOwn, OpenTmp, At, ghosts
  <2> QED
    BY <2>1, <2>2, <2>3, <2>4 DEF TypeOK
<1>4. Files' /\ Len(files') \in Nat /\ Len(files') >= Len(files)
  BY <1>0, <1>2, <1>3 DEF TypeOK, Files, FileType, Entries, Holds, Directory, Knows,
     KeepsOwn, OpenTmp, At, ghosts, NoFile
<1>5. Directory' /\ Forced'
  <2>1. Directory'
    BY <1>0, <1>2 DEF TypeOK, Directory, DirType, Files, Holds, FileType, Entries, Knows,
       KeepsOwn, OpenTmp, At, ghosts
  <2>2. Forced'
    BY <1>0 DEF Forced, OpenTmp, At, ghosts
  <2> QED
    BY <2>1, <2>2
<1>6. Holds(w)' /\ \A v \in Workers \ {w} : work'[v] = work[v]
  BY <1>0, <1>2, <1>4 DEF Holds, Extracting, TypeOK, Files, WorkType, Knows, KeepsOwn,
     OpenTmp, At, ghosts, NoFile
<1>7. ~raced => Phase(w)' /\ (archive' # 0 => files'[archive'].whole)
  BY <1>0, <1>2, <1>3 DEF TypeOK, WorkType, FileType, Files, Directory, Holds, Phase,
     Compacting, Extracting, Knows, KeepsOwn, OpenTmp, At, ghosts, NoFile, Listed
<1>8. ~raced /\ ~forced' => KeepsOwn(w)'
  BY <1>0, <1>2, <1>3 DEF TypeOK, WorkType, FileType, Files, Directory, Holds, Phase,
     KeepsOwn, KeptBy, Emptied, Archived, Entries, Compacting, Extracting, Knows, OpenTmp,
     At, ghosts, NoFile
<1>9. raced' = raced /\ (forced => forced')
  BY <1>0 DEF OpenTmp, At, ghosts
<1> QED
  BY <1>0, <1>1, <1>2, <1>3, <1>4, <1>5, <1>6, <1>7, <1>8, <1>9, Lone DEF Inv, Knows

LEMMA CopyMemoryKeeps == ASSUME Inv, NEW w \in Workers, CopyMemory(w) PROVE Inv'
<1>0. TypeOK /\ Files /\ Directory /\ Held /\ Phases /\ Kept /\ Forced /\ CopyMemory(w)
  BY DEF Inv
<1>1. Busy(w)
  BY <1>0 DEF CopyMemory, At, Busy, Compacting, Extracting
<1>2. Knows(w)
  BY <1>1, Known
<1>3. TypeOK'
  <2>1. work' \in [Workers -> WorkType]
    BY <1>0, <1>2, FinishType, GotoType, PlacesAre DEF TypeOK, Knows, CopyMemory, ghosts
  <2>2. files' \in Seq(FileType)
    <3> DEFINE i == work[w].file
               f == [files[i] EXCEPT !.memory = TRUE]
    <3>1. i \in 1..Len(files)
      BY <1>0, <1>2 DEF CopyMemory, Knows, Holds, At
    <3>2. f \in FileType
      BY <1>0, <1>2, <3>1 DEF TypeOK, Knows, FileType, DirType
    <3>3. files' = files \/ files' = [files EXCEPT ![i] = f]
      BY <1>0, <3>1 DEF CopyMemory, TypeOK
    <3> HIDE DEF i, f
    <3> QED
      BY <1>0, <3>1, <3>2, <3>3 DEF TypeOK
  <2>3. dir' \in DirType
    BY <1>0, <1>2 DEF TypeOK, DirType, FileType, Holds, Knows, KeepsOwn, CopyMemory, At,
       Goto, ghosts
  <2>4. /\ tmp' \in Nat /\ archive' \in Nat /\ written' \in Nat \ {0}
        /\ ops' \in Nat /\ crashes' \in Nat
    BY <1>0, <1>2 DEF TypeOK, Knows, KeepsOwn, CopyMemory, At, Goto, ghosts
  <2> QED
    BY <2>1, <2>2, <2>3, <2>4 DEF TypeOK
<1>4. Files' /\ Len(files') \in Nat /\ Len(files') >= Len(files)
  <2> DEFINE i == work[w].file
             f == [files[i] EXCEPT !.memory = TRUE]
  <2>1. i \in 1..Len(files)
    BY <1>0, <1>2 DEF CopyMemory, Knows, Holds, At
  <2>2. f.entries \subseteq Entries /\ (f.entries # {} => f.has)
    BY <1>0, <1>2, <2>1 DEF Files, Directory, Knows, FileType
  <2>3. files' = files \/ files' = [files EXCEPT ![i] = f]
    BY <1>0, <2>1 DEF CopyMemory, TypeOK
  <2>4. UNCHANGED <<tmp, archive, written>>
    BY <1>0 DEF CopyMemory
  <2> HIDE DEF i, f
  <2>5. Len(files') = Len(files) /\ Len(files) \in Nat
    BY <1>0, <2>1, <2>3 DEF TypeOK
  <2>6. \A j \in 1..Len(files) : files'[j] = files[j] \/ files'[j] = f
    BY <1>0, <2>1, <2>3 DEF TypeOK
  <2> QED
    BY <1>0, <2>2, <2>4, <2>5, <2>6 DEF Files, Entries
<1>5. Directory' /\ Forced'
  <2>1. Directory'
    BY <1>0, <1>2 DEF TypeOK, Directory, DirType, Files, Holds, FileType, Entries, Knows,
       KeepsOwn, CopyMemory, At, Goto, ghosts
  <2>2. Forced'
    BY <1>0 DEF Forced, CopyMemory, At, Goto, ghosts
  <2> QED
    BY <2>1, <2>2
<1>6. Holds(w)' /\ \A v \in Workers \ {w} : work'[v] = work[v]
  BY <1>0, <1>2, <1>4 DEF Holds, Extracting, TypeOK, Files, WorkType, Knows, KeepsOwn,
     CopyMemory, At, Goto, ghosts
<1>7. ~raced => Phase(w)' /\ (archive' # 0 => files'[archive'].whole)
  BY <1>0, <1>2, <1>3 DEF TypeOK, WorkType, FileType, Files, Directory, Holds, Phase,
     Compacting, Extracting, Knows, KeepsOwn, CopyMemory, At, Goto, ghosts
<1>8. ~raced /\ ~forced' => KeepsOwn(w)'
  BY <1>0, <1>2, <1>3 DEF TypeOK, WorkType, FileType, Files, Directory, Holds, Phase,
     KeepsOwn, KeptBy, Emptied, Archived, Entries, Compacting, Extracting, Knows,
     CopyMemory, At, Goto, ghosts
<1>9. raced' = raced /\ (forced => forced')
  BY <1>0 DEF CopyMemory, At, Goto, ghosts
<1> QED
  BY <1>0, <1>1, <1>2, <1>3, <1>4, <1>5, <1>6, <1>7, <1>8, <1>9, Lone DEF Inv, Knows

LEMMA CopyTranscriptKeeps == ASSUME Inv, NEW w \in Workers, CopyTranscript(w) PROVE Inv'
<1>0. TypeOK /\ Files /\ Directory /\ Held /\ Phases /\ Kept /\ Forced /\ CopyTranscript(w)
  BY DEF Inv
<1>1. Busy(w)
  BY <1>0 DEF CopyTranscript, At, Busy, Compacting, Extracting
<1>2. Knows(w)
  BY <1>1, Known
<1>3. TypeOK'
  <2>1. work' \in [Workers -> WorkType]
    BY <1>0, <1>2, FinishType, GotoType, PlacesAre DEF TypeOK, Knows, CopyTranscript, ghosts
  <2>2. files' \in Seq(FileType)
    <3> DEFINE i == work[w].file
               f == [files[i] EXCEPT !.has = TRUE, !.entries = dir.entries]
    <3>1. i \in 1..Len(files)
      BY <1>0, <1>2 DEF CopyTranscript, Knows, Holds, At
    <3>2. f \in FileType
      BY <1>0, <1>2, <3>1 DEF TypeOK, Knows, FileType, DirType
    <3>3. files' = files \/ files' = [files EXCEPT ![i] = f]
      BY <1>0, <3>1 DEF CopyTranscript, TypeOK
    <3> HIDE DEF i, f
    <3> QED
      BY <1>0, <3>1, <3>2, <3>3 DEF TypeOK
  <2>3. dir' \in DirType
    BY <1>0, <1>2 DEF TypeOK, DirType, FileType, Holds, Knows, KeepsOwn, CopyTranscript, At,
       Goto, ghosts
  <2>4. /\ tmp' \in Nat /\ archive' \in Nat /\ written' \in Nat \ {0}
        /\ ops' \in Nat /\ crashes' \in Nat
    BY <1>0, <1>2 DEF TypeOK, Knows, KeepsOwn, CopyTranscript, At, Goto, ghosts
  <2> QED
    BY <2>1, <2>2, <2>3, <2>4 DEF TypeOK
<1>4. Files' /\ Len(files') \in Nat /\ Len(files') >= Len(files)
  <2> DEFINE i == work[w].file
             f == [files[i] EXCEPT !.has = TRUE, !.entries = dir.entries]
  <2>1. i \in 1..Len(files)
    BY <1>0, <1>2 DEF CopyTranscript, Knows, Holds, At
  <2>2. f.entries \subseteq Entries /\ (f.entries # {} => f.has)
    BY <1>0, <1>2, <2>1 DEF Files, Directory, Knows, FileType
  <2>3. files' = files \/ files' = [files EXCEPT ![i] = f]
    BY <1>0, <2>1 DEF CopyTranscript, TypeOK
  <2>4. UNCHANGED <<tmp, archive, written>>
    BY <1>0 DEF CopyTranscript
  <2> HIDE DEF i, f
  <2>5. Len(files') = Len(files) /\ Len(files) \in Nat
    BY <1>0, <2>1, <2>3 DEF TypeOK
  <2>6. \A j \in 1..Len(files) : files'[j] = files[j] \/ files'[j] = f
    BY <1>0, <2>1, <2>3 DEF TypeOK
  <2> QED
    BY <1>0, <2>2, <2>4, <2>5, <2>6 DEF Files, Entries
<1>5. Directory' /\ Forced'
  <2>1. Directory'
    BY <1>0, <1>2 DEF TypeOK, Directory, DirType, Files, Holds, FileType, Entries, Knows,
       KeepsOwn, CopyTranscript, At, Goto, ghosts
  <2>2. Forced'
    BY <1>0 DEF Forced, CopyTranscript, At, Goto, ghosts
  <2> QED
    BY <2>1, <2>2
<1>6. Holds(w)' /\ \A v \in Workers \ {w} : work'[v] = work[v]
  BY <1>0, <1>2, <1>4 DEF Holds, Extracting, TypeOK, Files, WorkType, Knows, KeepsOwn,
     CopyTranscript, At, Goto, ghosts
<1>7. ~raced => Phase(w)' /\ (archive' # 0 => files'[archive'].whole)
  BY <1>0, <1>2, <1>3 DEF TypeOK, WorkType, FileType, Files, Directory, Holds, Phase,
     Compacting, Extracting, Knows, KeepsOwn, CopyTranscript, At, Goto, ghosts, Listed
<1>8. ~raced /\ ~forced' => KeepsOwn(w)'
  BY <1>0, <1>2, <1>3 DEF TypeOK, WorkType, FileType, Files, Directory, Holds, Phase,
     KeepsOwn, KeptBy, Emptied, Archived, Entries, Compacting, Extracting, Knows,
     CopyTranscript, At, Goto, ghosts
<1>9. raced' = raced /\ (forced => forced')
  BY <1>0 DEF CopyTranscript, At, Goto, ghosts
<1> QED
  BY <1>0, <1>1, <1>2, <1>3, <1>4, <1>5, <1>6, <1>7, <1>8, <1>9, Lone DEF Inv, Knows

LEMMA GiveUpKeeps == ASSUME Inv, NEW w \in Workers, GiveUp(w) PROVE Inv'
<1>0. TypeOK /\ Files /\ Directory /\ Held /\ Phases /\ Kept /\ Forced /\ GiveUp(w)
  BY DEF Inv
<1>1. Busy(w)
  BY <1>0 DEF GiveUp, At, Busy, Compacting, Extracting
<1>2. Knows(w)
  BY <1>1, Known
<1>3. TypeOK'
  <2>1. work' \in [Workers -> WorkType]
    BY <1>0, <1>2, FinishType, GotoType, PlacesAre DEF TypeOK, Knows, GiveUp, ghosts
  <2>2. files' \in Seq(FileType)
    BY <1>0, <1>2, NoFileType, UpdateType DEF TypeOK, FileType, Holds, Knows, GiveUp, At,
       ghosts
  <2>3. dir' \in DirType
    BY <1>0, <1>2 DEF TypeOK, DirType, FileType, Holds, Knows, KeepsOwn, GiveUp, At, Finish,
       ghosts
  <2>4. /\ tmp' \in Nat /\ archive' \in Nat /\ written' \in Nat \ {0}
        /\ ops' \in Nat /\ crashes' \in Nat
    BY <1>0, <1>2 DEF TypeOK, Knows, KeepsOwn, GiveUp, At, Finish, ghosts
  <2> QED
    BY <2>1, <2>2, <2>3, <2>4 DEF TypeOK
<1>4. Files' /\ Len(files') \in Nat /\ Len(files') >= Len(files)
  BY <1>0, <1>2, <1>3 DEF TypeOK, Files, FileType, Entries, Holds, Directory, Knows,
     KeepsOwn, GiveUp, At, Finish, ghosts, NoWork
<1>5. Directory' /\ Forced'
  <2>1. Directory'
    BY <1>0, <1>2 DEF TypeOK, Directory, DirType, Files, Holds, FileType, Entries, Knows,
       KeepsOwn, GiveUp, At, Finish, ghosts
  <2>2. Forced'
    BY <1>0 DEF Forced, GiveUp, At, Finish, ghosts
  <2> QED
    BY <2>1, <2>2
<1>6. Holds(w)' /\ \A v \in Workers \ {w} : work'[v] = work[v]
  BY <1>0, <1>2, <1>4 DEF Holds, Extracting, TypeOK, Files, WorkType, Knows, KeepsOwn,
     GiveUp, At, Finish, ghosts, NoWork
<1>7. ~raced => Phase(w)' /\ (archive' # 0 => files'[archive'].whole)
  BY <1>0, <1>2, <1>3 DEF TypeOK, WorkType, FileType, Files, Directory, Holds, Phase,
     Compacting, Extracting, Knows, KeepsOwn, GiveUp, At, Finish, ghosts, NoWork
<1>8. ~raced /\ ~forced' => KeepsOwn(w)'
  BY <1>0, <1>2, <1>3 DEF TypeOK, WorkType, FileType, Files, Directory, Holds, Phase,
     KeepsOwn, KeptBy, Emptied, Archived, Entries, Compacting, Extracting, Knows, GiveUp,
     At, Finish, ghosts, NoWork
<1>9. raced' = raced /\ (forced => forced')
  BY <1>0 DEF GiveUp, At, Finish, ghosts
<1> QED
  BY <1>0, <1>1, <1>2, <1>3, <1>4, <1>5, <1>6, <1>7, <1>8, <1>9, Lone DEF Inv, Knows

LEMMA CloseTmpKeeps == ASSUME Inv, NEW w \in Workers, CloseTmp(w) PROVE Inv'
<1>0. TypeOK /\ Files /\ Directory /\ Held /\ Phases /\ Kept /\ Forced /\ CloseTmp(w)
  BY DEF Inv
<1>1. Busy(w)
  BY <1>0 DEF CloseTmp, At, Busy, Compacting, Extracting
<1>2. Knows(w)
  BY <1>1, Known
<1>3. TypeOK'
  <2>1. work' \in [Workers -> WorkType]
    BY <1>0, <1>2, FinishType, GotoType, PlacesAre DEF TypeOK, Knows, CloseTmp, ghosts
  <2>2. files' \in Seq(FileType)
    <3> DEFINE i == work[w].file
               b == ~\E v \in Others(w) : work[v].at \in {"memory", "transcript", "close"}
                                          /\ work[v].file = work[w].file
               f == [files[i] EXCEPT !.whole = b]
    <3>1. i \in 1..Len(files)
      BY <1>0, <1>2 DEF CloseTmp, Knows, Holds, At
    <3>2. f \in FileType
      <4>1. b \in BOOLEAN
        OBVIOUS
      <4> HIDE DEF b
      <4> QED
        BY <1>2, <3>1, <4>1 DEF Knows, FileType
    <3>3. files' = [files EXCEPT ![i] = f]
      BY <1>0, <3>1 DEF CloseTmp, TypeOK
    <3> HIDE DEF i, f
    <3> QED
      BY <1>0, <3>1, <3>2, <3>3 DEF TypeOK
  <2>3. dir' \in DirType
    BY <1>0, <1>2 DEF TypeOK, DirType, FileType, Holds, Knows, KeepsOwn, CloseTmp, At, Goto,
       ghosts
  <2>4. /\ tmp' \in Nat /\ archive' \in Nat /\ written' \in Nat \ {0}
        /\ ops' \in Nat /\ crashes' \in Nat
    BY <1>0, <1>2 DEF TypeOK, Knows, KeepsOwn, CloseTmp, At, Goto, ghosts
  <2> QED
    BY <2>1, <2>2, <2>3, <2>4 DEF TypeOK
<1>4. Files' /\ Len(files') \in Nat /\ Len(files') >= Len(files)
  BY <1>0, <1>2, <1>3 DEF TypeOK, Files, FileType, Entries, Holds, Directory, Knows,
     KeepsOwn, CloseTmp, At, Goto, ghosts
<1>5. Directory' /\ Forced'
  <2>1. Directory'
    BY <1>0, <1>2 DEF TypeOK, Directory, DirType, Files, Holds, FileType, Entries, Knows,
       KeepsOwn, CloseTmp, At, Goto, ghosts
  <2>2. Forced'
    BY <1>0 DEF Forced, CloseTmp, At, Goto, ghosts
  <2> QED
    BY <2>1, <2>2
<1>6. Holds(w)' /\ \A v \in Workers \ {w} : work'[v] = work[v]
  BY <1>0, <1>2, <1>4 DEF Holds, Extracting, TypeOK, Files, WorkType, Knows, KeepsOwn,
     CloseTmp, At, Goto, ghosts
<1>7. ~raced => Phase(w)' /\ (archive' # 0 => files'[archive'].whole)
  BY <1>0, <1>2, <1>3 DEF TypeOK, WorkType, FileType, Files, Directory, Holds, Phase,
     Compacting, Extracting, Knows, KeepsOwn, CloseTmp, At, Goto, ghosts
<1>8. ~raced /\ ~forced' => KeepsOwn(w)'
  BY <1>0, <1>2, <1>3 DEF TypeOK, WorkType, FileType, Files, Directory, Holds, Phase,
     KeepsOwn, KeptBy, Emptied, Archived, Entries, Compacting, Extracting, Knows, CloseTmp,
     At, Goto, ghosts
<1>9. raced' = raced /\ (forced => forced')
  BY <1>0 DEF CloseTmp, At, Goto, ghosts
<1> QED
  BY <1>0, <1>1, <1>2, <1>3, <1>4, <1>5, <1>6, <1>7, <1>8, <1>9, Lone DEF Inv, Knows

LEMMA RenameKeeps == ASSUME Inv, NEW w \in Workers, Rename(w) PROVE Inv'
<1>0. TypeOK /\ Files /\ Directory /\ Held /\ Phases /\ Kept /\ Forced /\ Rename(w)
  BY DEF Inv
<1>1. Busy(w)
  BY <1>0 DEF Rename, At, Busy, Compacting, Extracting
<1>2. Knows(w)
  BY <1>1, Known
<1>3. TypeOK'
  <2>1. work' \in [Workers -> WorkType]
    BY <1>0, <1>2, FinishType, GotoType, PlacesAre DEF TypeOK, Knows, Rename, ghosts
  <2>2. files' \in Seq(FileType)
    BY <1>0, <1>2, NoFileType, UpdateType DEF TypeOK, FileType, Holds, Knows, Rename, At,
       ghosts
  <2>3. dir' \in DirType
    BY <1>0, <1>2 DEF TypeOK, DirType, FileType, Holds, Knows, KeepsOwn, Rename, At, Goto,
       Finish, ghosts
  <2>4. /\ tmp' \in Nat /\ archive' \in Nat /\ written' \in Nat \ {0}
        /\ ops' \in Nat /\ crashes' \in Nat
    BY <1>0, <1>2 DEF TypeOK, Knows, KeepsOwn, Rename, At, Goto, Finish, ghosts
  <2> QED
    BY <2>1, <2>2, <2>3, <2>4 DEF TypeOK
<1>4. Files' /\ Len(files') \in Nat /\ Len(files') >= Len(files)
  BY <1>0, <1>2, <1>3 DEF TypeOK, Files, FileType, Entries, Holds, Directory, Knows,
     KeepsOwn, Rename, At, Goto, Finish, ghosts, NoWork
<1>5. Directory' /\ Forced'
  <2>1. Directory'
    BY <1>0, <1>2 DEF TypeOK, Directory, DirType, Files, Holds, FileType, Entries, Knows,
       KeepsOwn, Rename, At, Goto, Finish, ghosts
  <2>2. Forced'
    BY <1>0 DEF Forced, Rename, At, Goto, Finish, ghosts
  <2> QED
    BY <2>1, <2>2
<1>6. Holds(w)' /\ \A v \in Workers \ {w} : work'[v] = work[v]
  BY <1>0, <1>2, <1>4 DEF Holds, Extracting, TypeOK, Files, WorkType, Knows, KeepsOwn,
     Rename, At, Goto, Finish, ghosts, NoWork
<1>7. ~raced => Phase(w)' /\ (archive' # 0 => files'[archive'].whole)
  BY <1>0, <1>2, <1>3 DEF TypeOK, WorkType, FileType, Files, Directory, Holds, Phase,
     Compacting, Extracting, Knows, KeepsOwn, Rename, At, Goto, Finish, ghosts, NoWork
<1>8. ~raced /\ ~forced' => KeepsOwn(w)'
  BY <1>0, <1>2, <1>3 DEF TypeOK, WorkType, FileType, Files, Directory, Holds, Phase,
     KeepsOwn, KeptBy, Emptied, Archived, Entries, Compacting, Extracting, Knows, Rename,
     At, Goto, Finish, ghosts, NoWork
<1>9. raced' = raced /\ (forced => forced')
  BY <1>0 DEF Rename, At, Goto, Finish, ghosts
<1> QED
  BY <1>0, <1>1, <1>2, <1>3, <1>4, <1>5, <1>6, <1>7, <1>8, <1>9, Lone DEF Inv, Knows

LEMMA RemoveDirKeeps == ASSUME Inv, NEW w \in Workers, RemoveDir(w) PROVE Inv'
<1>0. TypeOK /\ Files /\ Directory /\ Held /\ Phases /\ Kept /\ Forced /\ RemoveDir(w)
  BY DEF Inv
<1>1. Busy(w)
  BY <1>0 DEF RemoveDir, At, Busy, Compacting, Extracting
<1>2. Knows(w)
  BY <1>1, Known
<1>3. TypeOK'
  <2>1. work' \in [Workers -> WorkType]
    BY <1>0, <1>2, FinishType, GotoType, PlacesAre DEF TypeOK, Knows, RemoveDir, ghosts
  <2>2. files' \in Seq(FileType)
    BY <1>0, <1>2, NoFileType, UpdateType DEF TypeOK, FileType, Holds, Knows, RemoveDir, At,
       ghosts
  <2>3. dir' \in DirType
    <3>1. NoDir \in DirType
      BY DEF NoDir, DirType
    <3> QED
      BY <1>0, <3>1 DEF TypeOK, DirType, RemoveDir
  <2>4. /\ tmp' \in Nat /\ archive' \in Nat /\ written' \in Nat \ {0}
        /\ ops' \in Nat /\ crashes' \in Nat
    BY <1>0, <1>2 DEF TypeOK, Knows, KeepsOwn, RemoveDir, At, Finish, ghosts, NoDir, Listed
  <2> QED
    BY <2>1, <2>2, <2>3, <2>4 DEF TypeOK
<1>4. Files' /\ Len(files') \in Nat /\ Len(files') >= Len(files)
  BY <1>0, <1>2, <1>3 DEF TypeOK, Files, FileType, Entries, Holds, Directory, Knows,
     KeepsOwn, RemoveDir, At, Finish, ghosts, NoWork
<1>5. Directory' /\ Forced'
  <2>1. Directory'
    <3>1. CASE dir' = [dir EXCEPT !.memory = FALSE]
      BY <1>0, <3>1 DEF RemoveDir, TypeOK, DirType, Directory, Entries
    <3>2. CASE dir' = [dir EXCEPT !.transcript = FALSE, !.entries = {}]
      BY <1>0, <3>2 DEF RemoveDir, TypeOK, DirType, Directory, Entries
    <3>3. CASE dir' = NoDir
      BY <1>0, <3>3 DEF NoDir, Directory
    <3> QED
      BY <1>0, <3>1, <3>2, <3>3 DEF RemoveDir
  <2>2. Forced'
    BY <1>0 DEF Forced, RemoveDir, At, Finish, ghosts, NoDir, Listed
  <2> QED
    BY <2>1, <2>2
<1>6. Holds(w)' /\ \A v \in Workers \ {w} : work'[v] = work[v]
  BY <1>0, <1>2, <1>4 DEF Holds, Extracting, TypeOK, Files, WorkType, Knows, KeepsOwn,
     RemoveDir, At, Finish, ghosts, NoWork
<1>7. ~raced => Phase(w)' /\ (archive' # 0 => files'[archive'].whole)
  BY <1>0, <1>2, <1>3 DEF TypeOK, WorkType, FileType, Files, Directory, Holds, Phase,
     Compacting, Extracting, Knows, KeepsOwn, RemoveDir, At, Finish, ghosts, NoWork, NoDir
<1>8. ~raced /\ ~forced' => KeepsOwn(w)'
  BY <1>0, <1>2, <1>3 DEF TypeOK, WorkType, FileType, Files, Directory, Holds, Phase,
     KeepsOwn, KeptBy, Emptied, Archived, Entries, Compacting, Extracting, Knows, RemoveDir,
     At, Finish, ghosts, NoWork, NoDir
<1>9. raced' = raced /\ (forced => forced')
  BY <1>0 DEF RemoveDir, At, Finish, ghosts
<1> QED
  BY <1>0, <1>1, <1>2, <1>3, <1>4, <1>5, <1>6, <1>7, <1>8, <1>9, Lone DEF Inv, Knows

LEMMA ExtractMemoryKeeps == ASSUME Inv, NEW w \in Workers, ExtractMemory(w) PROVE Inv'
<1>0. TypeOK /\ Files /\ Directory /\ Held /\ Phases /\ Kept /\ Forced /\ ExtractMemory(w)
  BY DEF Inv
<1>1. Busy(w)
  BY <1>0 DEF ExtractMemory, At, Busy, Compacting, Extracting
<1>2. Knows(w)
  BY <1>1, Known
<1>3. TypeOK'
  <2>1. work' \in [Workers -> WorkType]
    BY <1>0, <1>2, FinishType, GotoType, PlacesAre DEF TypeOK, Knows, ExtractMemory, ghosts,
       Broken
  <2>2. files' \in Seq(FileType)
    BY <1>0, <1>2, NoFileType, UpdateType DEF TypeOK, FileType, Holds, Knows, ExtractMemory,
       At, ghosts, Broken
  <2>3. dir' \in DirType
    <3>1. dir' = dir \/ dir' = [dir EXCEPT !.is = TRUE, !.memory = TRUE]
      BY <1>0 DEF ExtractMemory, Broken
    <3>2. dir \in DirType
      BY <1>0 DEF TypeOK
    <3> QED
      BY <3>1, <3>2 DEF DirType
  <2>4. /\ tmp' \in Nat /\ archive' \in Nat /\ written' \in Nat \ {0}
        /\ ops' \in Nat /\ crashes' \in Nat
    BY <1>0, <1>2 DEF TypeOK, Knows, KeepsOwn, ExtractMemory, At, Goto, Finish, ghosts,
       Broken
  <2> QED
    BY <2>1, <2>2, <2>3, <2>4 DEF TypeOK
<1>4. Files' /\ Len(files') \in Nat /\ Len(files') >= Len(files)
  BY <1>0, <1>2, <1>3 DEF TypeOK, Files, FileType, Entries, Holds, Directory, Knows,
     KeepsOwn, ExtractMemory, At, Goto, Finish, ghosts, NoWork, Broken
<1>5. Directory' /\ Forced'
  <2>1. Directory'
    <3>1. dir' = dir \/ dir' = [dir EXCEPT !.is = TRUE, !.memory = TRUE]
      BY <1>0 DEF ExtractMemory, Broken
    <3>2. dir \in DirType
      BY <1>0 DEF TypeOK
    <3>3. /\ dir'.entries = dir.entries /\ dir'.transcript = dir.transcript
          /\ dir'.is = dir.is \/ dir'.is = TRUE
      BY <3>1, <3>2 DEF DirType
    <3>4. Entries' = Entries
      BY <1>0 DEF ExtractMemory, Entries
    <3> QED
      BY <1>0, <3>3, <3>4 DEF Directory
  <2>2. Forced'
    BY <1>0 DEF Forced, ExtractMemory, At, Goto, Finish, ghosts, Broken
  <2> QED
    BY <2>1, <2>2
<1>6. Holds(w)' /\ \A v \in Workers \ {w} : work'[v] = work[v]
  BY <1>0, <1>2, <1>4 DEF Holds, Extracting, TypeOK, Files, WorkType, Knows, KeepsOwn,
     ExtractMemory, At, Goto, Finish, ghosts, NoWork, Broken
<1>7. ~raced => Phase(w)' /\ (archive' # 0 => files'[archive'].whole)
  BY <1>0, <1>2, <1>3 DEF TypeOK, WorkType, FileType, Files, Directory, Holds, Phase,
     Compacting, Extracting, Knows, KeepsOwn, ExtractMemory, At, Goto, Finish, ghosts,
     NoWork, Broken
<1>8. ~raced /\ ~forced' => KeepsOwn(w)'
  BY <1>0, <1>2, <1>3 DEF TypeOK, WorkType, FileType, Files, Directory, Holds, Phase,
     KeepsOwn, KeptBy, Emptied, Archived, Entries, Compacting, Extracting, Knows,
     ExtractMemory, At, Goto, Finish, ghosts, NoWork, Broken
<1>9. raced' = raced /\ (forced => forced')
  BY <1>0 DEF ExtractMemory, At, Goto, ghosts
<1> QED
  BY <1>0, <1>1, <1>2, <1>3, <1>4, <1>5, <1>6, <1>7, <1>8, <1>9, Lone DEF Inv, Knows

LEMMA ExtractCreateKeeps == ASSUME Inv, NEW w \in Workers, ExtractCreate(w) PROVE Inv'
<1>0. TypeOK /\ Files /\ Directory /\ Held /\ Phases /\ Kept /\ Forced /\ ExtractCreate(w)
  BY DEF Inv
<1>1. Busy(w)
  BY <1>0 DEF ExtractCreate, At, Busy, Compacting, Extracting
<1>2. Knows(w)
  BY <1>1, Known
<1>3. TypeOK'
  <2>1. work' \in [Workers -> WorkType]
    BY <1>0, <1>2, FinishType, GotoType, PlacesAre DEF TypeOK, Knows, ExtractCreate, ghosts,
       Broken
  <2>2. files' \in Seq(FileType)
    BY <1>0, <1>2, NoFileType, UpdateType DEF TypeOK, FileType, Holds, Knows, ExtractCreate,
       At, ghosts, Broken
  <2>3. dir' \in DirType
    BY <1>0, <1>2 DEF TypeOK, DirType, FileType, Holds, Knows, KeepsOwn, ExtractCreate, At,
       Goto, Finish, ghosts, Broken
  <2>4. /\ tmp' \in Nat /\ archive' \in Nat /\ written' \in Nat \ {0}
        /\ ops' \in Nat /\ crashes' \in Nat
    BY <1>0, <1>2 DEF TypeOK, Knows, KeepsOwn, ExtractCreate, At, Goto, Finish, ghosts,
       Broken
  <2> QED
    BY <2>1, <2>2, <2>3, <2>4 DEF TypeOK
<1>4. Files' /\ Len(files') \in Nat /\ Len(files') >= Len(files)
  BY <1>0, <1>2, <1>3 DEF TypeOK, Files, FileType, Entries, Holds, Directory, Knows,
     KeepsOwn, ExtractCreate, At, Goto, Finish, ghosts, NoWork, Broken
<1>5. Directory' /\ Forced'
  <2>1. Directory'
    BY <1>0, <1>2 DEF TypeOK, Directory, DirType, Files, Holds, FileType, Entries, Knows,
       KeepsOwn, ExtractCreate, At, Goto, Finish, ghosts, Broken
  <2>2. Forced'
    BY <1>0 DEF Forced, ExtractCreate, At, Goto, Finish, ghosts, Broken
  <2> QED
    BY <2>1, <2>2
<1>6. Holds(w)' /\ \A v \in Workers \ {w} : work'[v] = work[v]
  BY <1>0, <1>2, <1>4 DEF Holds, Extracting, TypeOK, Files, WorkType, Knows, KeepsOwn,
     ExtractCreate, At, Goto, Finish, ghosts, NoWork, Broken
<1>7. ~raced => Phase(w)' /\ (archive' # 0 => files'[archive'].whole)
  <2> SUFFICES ASSUME ~raced PROVE Phase(w)' /\ files'[archive'].whole
    OBVIOUS
  <2>1. archive # 0 /\ work[w].file = archive /\ files[archive].whole
    BY <1>0, <1>2 DEF Knows, Phase, ExtractCreate, At, Extracting
  <2>2. \/ dir' = [dir EXCEPT !.is = TRUE, !.transcript = TRUE, !.entries = {}] /\ Goto(w, "exCopy")
        \/ Goto(w, "exRemove")
    BY <1>0, <2>1 DEF ExtractCreate, Broken
  <2>3. UNCHANGED <<files, tmp, archive>>
    BY <1>0 DEF ExtractCreate
  <2>4. work'[w].at \in {"exCopy", "exRemove"} /\ work'[w].file = archive
    BY <1>0, <2>1, <2>2 DEF Goto, TypeOK, WorkType
  <2>5. work'[w].at = "exCopy" => dir'.transcript
    BY <1>0, <2>2 DEF Goto, TypeOK, WorkType, DirType
  <2> QED
    BY <2>1, <2>3, <2>4, <2>5 DEF Phase, Extracting
<1>8. ~raced /\ ~forced' => KeepsOwn(w)'
  BY <1>0, <1>2, <1>3 DEF TypeOK, WorkType, FileType, Files, Directory, Holds, Phase,
     KeepsOwn, KeptBy, Emptied, Archived, Entries, Compacting, Extracting, Knows,
     ExtractCreate, At, Goto, Finish, ghosts, NoWork, Broken
<1>9. raced' = raced /\ (forced => forced')
  BY <1>0 DEF ExtractCreate, At, Goto, ghosts
<1> QED
  BY <1>0, <1>1, <1>2, <1>3, <1>4, <1>5, <1>6, <1>7, <1>8, <1>9, Lone DEF Inv, Knows

LEMMA ExtractCopyKeeps == ASSUME Inv, NEW w \in Workers, ExtractCopy(w) PROVE Inv'
<1>0. TypeOK /\ Files /\ Directory /\ Held /\ Phases /\ Kept /\ Forced /\ ExtractCopy(w)
  BY DEF Inv
<1>1. Busy(w)
  BY <1>0 DEF ExtractCopy, At, Busy, Compacting, Extracting
<1>2. Knows(w)
  BY <1>1, Known
<1>3. TypeOK'
  <2>1. work' \in [Workers -> WorkType]
    BY <1>0, <1>2, FinishType, GotoType, PlacesAre DEF TypeOK, Knows, ExtractCopy, ghosts,
       Broken
  <2>2. files' \in Seq(FileType)
    BY <1>0, <1>2, NoFileType, UpdateType DEF TypeOK, FileType, Holds, Knows, ExtractCopy,
       At, ghosts, Broken
  <2>3. dir' \in DirType
    <3>1. files[work[w].file].entries \in SUBSET Nat
      BY <1>0, <1>2 DEF FileType, Knows, Holds, ExtractCopy, At, Extracting
    <3> QED
      BY <1>0, <3>1 DEF TypeOK, DirType, ExtractCopy, Broken
  <2>4. /\ tmp' \in Nat /\ archive' \in Nat /\ written' \in Nat \ {0}
        /\ ops' \in Nat /\ crashes' \in Nat
    BY <1>0, <1>2 DEF TypeOK, Knows, KeepsOwn, ExtractCopy, At, Goto, Finish, ghosts, Broken
  <2> QED
    BY <2>1, <2>2, <2>3, <2>4 DEF TypeOK
<1>4. Files' /\ Len(files') \in Nat /\ Len(files') >= Len(files)
  BY <1>0, <1>2, <1>3 DEF TypeOK, Files, FileType, Entries, Holds, Directory, Knows,
     KeepsOwn, ExtractCopy, At, Goto, Finish, ghosts, NoWork, Broken
<1>5. Directory' /\ Forced'
  <2>1. Directory'
    <3>1. files[work[w].file].entries \subseteq Entries
      BY <1>0, <1>2 DEF Files, Knows, Holds, ExtractCopy, At, Extracting
    <3>2. dir'.entries # dir.entries => dir.transcript /\ dir'.entries = files[work[w].file].entries
      BY <1>0 DEF ExtractCopy, Broken, TypeOK, DirType
    <3>3. dir'.transcript = dir.transcript /\ dir'.is = dir.is /\ written' = written
      BY <1>0 DEF ExtractCopy, Broken, TypeOK, DirType
    <3> QED
      BY <1>0, <3>1, <3>2, <3>3 DEF Directory, Entries
  <2>2. Forced'
    BY <1>0 DEF Forced, ExtractCopy, At, Goto, Finish, ghosts, Broken
  <2> QED
    BY <2>1, <2>2
<1>6. Holds(w)' /\ \A v \in Workers \ {w} : work'[v] = work[v]
  BY <1>0, <1>2, <1>4 DEF Holds, Extracting, TypeOK, Files, WorkType, Knows, KeepsOwn,
     ExtractCopy, At, Goto, Finish, ghosts, NoWork, Broken
<1>7. ~raced => Phase(w)' /\ (archive' # 0 => files'[archive'].whole)
  BY <1>0, <1>2, <1>3 DEF TypeOK, WorkType, FileType, Files, Directory, Holds, Phase,
     Compacting, Extracting, Knows, KeepsOwn, ExtractCopy, At, Goto, Finish, ghosts, NoWork,
     Broken
<1>8. ~raced /\ ~forced' => KeepsOwn(w)'
  <2> SUFFICES ASSUME ~raced, ~forced' PROVE KeepsOwn(w)'
    OBVIOUS
  <2>1. UNCHANGED <<files, archive, written, cut, forced>>
    BY <1>0 DEF ExtractCopy, ghosts
  <2>2. Phase(w) /\ At(w, "exCopy") /\ KeepsOwn(w) /\ files[archive].whole
    BY <1>0, <1>2, <2>1 DEF ExtractCopy, Knows, Phase, At, Extracting
  <2>3. archive # 0 /\ work[w].file = archive /\ dir.transcript
    BY <2>2 DEF Phase, At, Extracting
  <2>4. dir' = [dir EXCEPT !.entries = files[archive].entries] /\ Goto(w, "exRemove")
    BY <1>0, <2>2, <2>3 DEF ExtractCopy, Broken
  <2>5. Entries \subseteq Archived /\ Archived = files[archive].entries
    BY <2>2, <2>3 DEF KeepsOwn, KeptBy, Emptied, Archived, At, Extracting
  <2>6. Entries' = Entries /\ Archived' = Archived /\ dir'.entries = Archived
    BY <1>0, <2>1, <2>4, <2>5 DEF Entries, Archived, TypeOK, DirType
  <2>7. work'[w].at = "exRemove"
    BY <1>0, <2>4 DEF Goto, TypeOK, WorkType
  <2> QED
    BY <2>5, <2>6, <2>7 DEF KeepsOwn, KeptBy, At
<1>9. raced' = raced /\ (forced => forced')
  BY <1>0 DEF ExtractCopy, At, Goto, ghosts
<1> QED
  BY <1>0, <1>1, <1>2, <1>3, <1>4, <1>5, <1>6, <1>7, <1>8, <1>9, Lone DEF Inv, Knows

LEMMA ExtractRemoveKeeps == ASSUME Inv, NEW w \in Workers, ExtractRemove(w) PROVE Inv'
<1>0. TypeOK /\ Files /\ Directory /\ Held /\ Phases /\ Kept /\ Forced /\ ExtractRemove(w)
  BY DEF Inv
<1>1. Busy(w)
  BY <1>0 DEF ExtractRemove, At, Busy, Compacting, Extracting
<1>2. Knows(w)
  BY <1>1, Known
<1>3. TypeOK'
  <2>1. work' \in [Workers -> WorkType]
    BY <1>0, <1>2, FinishType, GotoType, PlacesAre DEF TypeOK, Knows, ExtractRemove, ghosts,
       Broken
  <2>2. files' \in Seq(FileType)
    BY <1>0, <1>2, NoFileType, UpdateType DEF TypeOK, FileType, Holds, Knows, ExtractRemove,
       At, ghosts, Broken
  <2>3. dir' \in DirType
    BY <1>0, <1>2 DEF TypeOK, DirType, FileType, Holds, Knows, KeepsOwn, ExtractRemove, At,
       Goto, Finish, ghosts, Broken
  <2>4. /\ tmp' \in Nat /\ archive' \in Nat /\ written' \in Nat \ {0}
        /\ ops' \in Nat /\ crashes' \in Nat
    BY <1>0, <1>2 DEF TypeOK, Knows, KeepsOwn, ExtractRemove, At, Goto, Finish, ghosts,
       Broken
  <2> QED
    BY <2>1, <2>2, <2>3, <2>4 DEF TypeOK
<1>4. Files' /\ Len(files') \in Nat /\ Len(files') >= Len(files)
  BY <1>0, <1>2, <1>3 DEF TypeOK, Files, FileType, Entries, Holds, Directory, Knows,
     KeepsOwn, ExtractRemove, At, Goto, Finish, ghosts, NoWork, Broken
<1>5. Directory' /\ Forced'
  <2>1. Directory'
    BY <1>0, <1>2 DEF TypeOK, Directory, DirType, Files, Holds, FileType, Entries, Knows,
       KeepsOwn, ExtractRemove, At, Goto, Finish, ghosts, Broken
  <2>2. Forced'
    BY <1>0 DEF Forced, ExtractRemove, At, Goto, Finish, ghosts, Broken
  <2> QED
    BY <2>1, <2>2
<1>6. Holds(w)' /\ \A v \in Workers \ {w} : work'[v] = work[v]
  BY <1>0, <1>2, <1>4 DEF Holds, Extracting, TypeOK, Files, WorkType, Knows, KeepsOwn,
     ExtractRemove, At, Goto, Finish, ghosts, NoWork, Broken
<1>7. ~raced => Phase(w)' /\ (archive' # 0 => files'[archive'].whole)
  BY <1>0, <1>2, <1>3 DEF TypeOK, WorkType, FileType, Files, Directory, Holds, Phase,
     Compacting, Extracting, Knows, KeepsOwn, ExtractRemove, At, Goto, Finish, ghosts,
     NoWork, Broken
<1>8. ~raced /\ ~forced' => KeepsOwn(w)'
  BY <1>0, <1>2, <1>3 DEF TypeOK, WorkType, FileType, Files, Directory, Holds, Phase,
     KeepsOwn, KeptBy, Emptied, Archived, Entries, Compacting, Extracting, Knows,
     ExtractRemove, At, Goto, Finish, ghosts, NoWork, Broken
<1>9. raced' = raced /\ (forced => forced')
  BY <1>0 DEF ExtractRemove, At, Goto, Finish, ghosts
<1> QED
  BY <1>0, <1>1, <1>2, <1>3, <1>4, <1>5, <1>6, <1>7, <1>8, <1>9, Lone DEF Inv, Knows

-----------------------------------------------------------------------------
(* The steps of the others: when nobody races, nobody compacts or extracts *)
(* next to a session.                                                      *)

LEMMA Calm ==
    ASSUME Inv, ~raced, NEW w \in Workers, ~At(w, "idle"), ~Busy(w)
    PROVE  \A v \in Workers : ~Busy(v) /\ ~Emptied(v)
  BY DEF Inv, Phases, Alone, Busy, At, Emptied, Compacting, Extracting

LEMMA StartCompactKeeps == ASSUME Inv, NEW w \in Workers, StartCompact(w) PROVE Inv'
<1>0. TypeOK /\ Files /\ Directory /\ Held /\ Phases /\ Kept /\ Forced /\ StartCompact(w)
  BY DEF Inv
<1>1. UNCHANGED <<dir, files, tmp, archive, written, crashes, cut, forced>> /\ ops' \in Nat
  BY <1>0 DEF StartCompact, disk, TypeOK
<1>2. PICK r \in WorkType : r.at = "check" /\ r.file = 0 /\ work' = [work EXCEPT ![w] = r]
  <2>1. \A force \in BOOLEAN : [NoWork EXCEPT !.at = "check", !.force = force] \in WorkType
    BY PlacesAre DEF NoWork, WorkType, Names
  <2> QED
    BY <1>0, <2>1 DEF StartCompact, NoWork
<1>3. \A v \in Workers : work'[v] = IF v = w THEN r ELSE work[v]
  BY <1>0, <1>2 DEF TypeOK
<1>4. TypeOK'
  BY <1>0, <1>1, <1>2 DEF TypeOK
<1>5. Files' /\ Directory' /\ Held' /\ Forced'
  BY <1>0, <1>1, <1>2, <1>3 DEF Files, Directory, Held, Holds, Forced, Entries, TypeOK,
     Extracting
<1>6. ~raced' => ~raced /\ dir.is /\ \A v \in Workers : At(v, "idle")
  BY <1>0 DEF StartCompact, Race, Others, At
<1>7. Phases'
  BY <1>0, <1>1, <1>2, <1>3, <1>6 DEF Phases, Alone, Phase, Busy, At, Compacting, Extracting
<1>8. Kept'
  BY <1>0, <1>1, <1>2, <1>3, <1>6 DEF Kept, KeptBy, Emptied, At, Extracting, Entries,
     Archived
<1> QED
  BY <1>4, <1>5, <1>7, <1>8 DEF Inv

LEMMA StartResumeKeeps == ASSUME Inv, NEW w \in Workers, StartResume(w) PROVE Inv'
<1>0. TypeOK /\ Files /\ Directory /\ Held /\ Phases /\ Kept /\ Forced /\ StartResume(w)
  BY DEF Inv
<1> DEFINE opens == ~dir.is /\ archive # 0
<1>1. UNCHANGED <<dir, files, tmp, archive, written, crashes, cut, forced>> /\ ops' \in Nat
  BY <1>0 DEF StartResume, disk, TypeOK
<1>2. PICK r \in WorkType : /\ r.at = (IF opens THEN "exMemory" ELSE "load")
                            /\ r.file = (IF opens THEN archive ELSE r.file)
                            /\ r.file \in {0, archive}
                            /\ work' = [work EXCEPT ![w] = r]
  <2>1. PICK keep \in BOOLEAN :
           work' = [work EXCEPT ![w] = [NoWork EXCEPT !.keep = keep,
                     !.at = IF dir.is THEN "load"
                            ELSE IF archive # 0 THEN "exMemory" ELSE "load",
                     !.file = IF dir.is THEN 0 ELSE archive]]
    BY <1>0 DEF StartResume
  <2>2. [NoWork EXCEPT !.keep = keep,
                     !.at = IF dir.is THEN "load"
                            ELSE IF archive # 0 THEN "exMemory" ELSE "load",
                     !.file = IF dir.is THEN 0 ELSE archive] \in WorkType
    BY <1>0, PlacesAre DEF NoWork, WorkType, Names, TypeOK
  <2> QED
    BY <2>1, <2>2 DEF NoWork
<1>3. \A v \in Workers : work'[v] = IF v = w THEN r ELSE work[v]
  BY <1>0, <1>2 DEF TypeOK
<1>4. TypeOK'
  BY <1>0, <1>1, <1>2 DEF TypeOK
<1>5. Files' /\ Directory' /\ Forced'
  BY <1>0, <1>1 DEF Files, Directory, Forced, Entries
<1>6. Held'
  BY <1>0, <1>1, <1>2, <1>3 DEF Held, Holds, Files, Extracting, TypeOK
<1>7. ~raced' => ~raced /\ \A v \in Workers : ~Busy(v) /\ (opens => At(v, "idle"))
  BY <1>0 DEF StartResume, Race, Others, At, Busy, Compacting, Extracting
<1> HIDE DEF opens
<1>8. Phases'
  <2> SUFFICES ASSUME ~raced' PROVE Alone' /\ (archive' # 0 => files'[archive'].whole)
                                   /\ \A v \in Workers : Phase(v)'
    BY DEF Phases
  <2>1. Alone'
    BY <1>2, <1>3, <1>7 DEF Alone, Busy, At, Compacting, Extracting
  <2>2. archive' # 0 => files'[archive'].whole
    BY <1>0, <1>1, <1>7 DEF Phases
  <2>3. Phase(w)'
    BY <1>1, <1>2, <1>3 DEF Phase, Extracting, opens
  <2>4. \A v \in Workers \ {w} : Phase(v)'
    BY <1>0, <1>1, <1>3, <1>7 DEF Phases, Phase
  <2> QED
    BY <2>1, <2>2, <2>3, <2>4
<1>9. Kept'
  <2> SUFFICES ASSUME ~raced', ~forced' PROVE Kept'
    BY DEF Kept
  <2>1. Entries \subseteq dir.entries \cup Archived /\ (\A v \in Workers : KeptBy(v) /\ ~Emptied(v))
    BY <1>0, <1>1, <1>7 DEF Kept, Emptied, Busy, Compacting
  <2>2. ~cut /\ dir.is => Entries \subseteq dir.entries
    BY <1>0, <1>1, <1>7, <2>1 DEF Kept
  <2>3. Entries # {}
    <3>1. written \in Nat /\ written >= 1
      BY <1>0 DEF TypeOK
    <3>2. 1 \in Entries
      BY <3>1 DEF Entries
    <3> QED
      BY <3>2
  <2>4. opens => Entries \subseteq Archived
    BY <1>0, <2>1 DEF Directory, opens
  <2>5. ~opens => dir.is
    BY <1>0, <2>1, <2>3 DEF Directory, opens, Archived
  <2>6. Entries' = Entries /\ Archived' = Archived
    BY <1>1 DEF Entries, Archived
  <2>7. KeptBy(w)'
    BY <1>1, <1>2, <1>3, <2>4, <2>5, <2>6 DEF KeptBy, Emptied, At, Extracting
  <2>8. \A v \in Workers \ {w} : KeptBy(v)'
    BY <1>1, <1>3, <2>1, <2>6 DEF KeptBy, Emptied, At
  <2> QED
    BY <1>1, <2>1, <2>2, <2>6, <2>7, <2>8 DEF Kept
<1> QED
  BY <1>4, <1>5, <1>6, <1>8, <1>9 DEF Inv

LEMMA LoadKeeps == ASSUME Inv, NEW w \in Workers, Load(w) PROVE Inv'
<1>0. TypeOK /\ Files /\ Directory /\ Held /\ Phases /\ Kept /\ Forced /\ Load(w)
  BY DEF Inv
<1>1. UNCHANGED <<disk, written, ops, crashes, ghosts>> /\ At(w, "load")
  BY <1>0 DEF Load
<1>2. work' \in [Workers -> WorkType]
  BY <1>0, FinishType, GotoType, PlacesAre DEF TypeOK, Load
<1>3. /\ \A v \in Workers \ {w} : work'[v] = work[v]
      /\ work'[w].file \in {0, work[w].file}
      /\ work'[w].at = "idle" \/ (work'[w].at = "run" /\ dir.is)
  BY <1>0 DEF TypeOK, WorkType, Load, Goto, Finish, NoWork, Directory
<1>4. TypeOK' /\ Files' /\ Directory' /\ Forced'
  BY <1>0, <1>1, <1>2 DEF TypeOK, Files, Directory, Forced, Entries, disk, ghosts
<1>5. Held'
  BY <1>0, <1>1, <1>3 DEF Held, Holds, disk, Extracting, TypeOK, Files
<1>6. ~raced => \A v \in Workers : ~Busy(v) /\ ~Emptied(v)
  BY <1>1, Calm DEF At, Busy, Compacting, Extracting
<1>7. Phases'
  BY <1>0, <1>1, <1>3, <1>6 DEF Phases, Alone, Phase, Busy, At, Compacting, Extracting,
     disk, ghosts
<1>8. Kept'
  BY <1>0, <1>1, <1>3, <1>6 DEF Kept, KeptBy, Emptied, At, Extracting, disk, ghosts,
     Entries, Archived
<1> QED
  BY <1>4, <1>5, <1>7, <1>8 DEF Inv

LEMMA LeaveKeeps == ASSUME Inv, NEW w \in Workers, Leave(w) PROVE Inv'
<1>0. TypeOK /\ Files /\ Directory /\ Held /\ Phases /\ Kept /\ Forced /\ Leave(w)
  BY DEF Inv
<1>1. UNCHANGED <<disk, written, ops, crashes, ghosts>> /\ At(w, "run")
  BY <1>0 DEF Leave
<1>2. work' \in [Workers -> WorkType]
  BY <1>0, FinishType DEF TypeOK, Leave
<1>3. (\A v \in Workers \ {w} : work'[v] = work[v]) /\ work'[w] = NoWork
  BY <1>0 DEF TypeOK, Leave, Finish
<1>4. TypeOK' /\ Files' /\ Directory' /\ Forced'
  BY <1>0, <1>1, <1>2 DEF TypeOK, Files, Directory, Forced, Entries, disk, ghosts
<1>5. Held'
  BY <1>0, <1>1, <1>3 DEF Held, Holds, disk, Extracting, NoWork, TypeOK, Files
<1>6. ~raced => \A v \in Workers : ~Busy(v) /\ ~Emptied(v)
  BY <1>1, Calm DEF At, Busy, Compacting, Extracting
<1>7. Phases'
  BY <1>0, <1>1, <1>3, <1>6 DEF Phases, Alone, Phase, Busy, At, Compacting, Extracting,
     disk, ghosts, NoWork
<1>8. Kept'
  BY <1>0, <1>1, <1>3, <1>6 DEF Kept, KeptBy, Emptied, At, Extracting, disk, ghosts,
     Entries, Archived, NoWork
<1> QED
  BY <1>4, <1>5, <1>7, <1>8 DEF Inv

LEMMA AppendEntryKeeps == ASSUME Inv, NEW w \in Workers, AppendEntry(w) PROVE Inv'
<1>0. TypeOK /\ Files /\ Directory /\ Held /\ Phases /\ Kept /\ Forced /\ AppendEntry(w)
  BY DEF Inv
<1>1. UNCHANGED <<files, tmp, archive, work, ops, crashes, raced, cut, forced>> /\ At(w, "run")
  BY <1>0 DEF AppendEntry, ghosts
<1>2. /\ written' = written + 1 /\ Entries' = Entries \cup {written + 1}
      /\ dir' = [dir EXCEPT !.is = TRUE, !.transcript = TRUE, !.entries = @ \cup {written + 1}]
  BY <1>0 DEF AppendEntry, Entries, TypeOK
<1>3. /\ dir' \in DirType /\ dir'.is /\ dir'.transcript
      /\ dir'.entries = dir.entries \cup {written + 1}
  <2>1. dir.entries \cup {written + 1} \in SUBSET Nat
    BY <1>0 DEF TypeOK, DirType
  <2> DEFINE e == dir.entries \cup {written + 1}
  <2>2. dir' = [dir EXCEPT !.is = TRUE, !.transcript = TRUE, !.entries = e]
    BY <1>2
  <2> HIDE DEF e
  <2>3. dir' \in DirType /\ dir'.is /\ dir'.transcript /\ dir'.entries = e
    BY <1>0, <2>1, <2>2 DEF TypeOK, DirType, e
  <2> QED
    BY <2>3 DEF e
<1>4. TypeOK'
  BY <1>0, <1>1, <1>2, <1>3 DEF TypeOK
<1>5. Files' /\ Directory' /\ Held' /\ Forced'
  BY <1>0, <1>1, <1>2, <1>3 DEF Files, Directory, Held, Holds, Forced
<1>6. ~raced => dir.is /\ \A v \in Workers : ~Busy(v) /\ ~Emptied(v)
  BY <1>0, <1>1, Calm DEF At, Busy, Compacting, Extracting, Phases, Phase
<1>7. Phases'
  BY <1>0, <1>1, <1>3, <1>6 DEF Phases, Alone, Phase, Busy, At, Compacting, Extracting
<1>8. Archived' = Archived
  BY <1>1 DEF Archived
<1>9. Kept'
  <2> SUFFICES ASSUME ~raced, ~forced PROVE Kept'
    BY <1>1 DEF Kept
  <2>1. Entries \subseteq dir.entries \cup Archived /\ (~cut => Entries \subseteq dir.entries)
    BY <1>0, <1>6 DEF Kept
  <2>2. \A v \in Workers : KeptBy(v)'
    BY <1>1, <1>3, <1>6 DEF KeptBy, Emptied, At, Extracting, Busy, Compacting
  <2> QED
    BY <1>1, <1>2, <1>3, <1>8, <2>1, <2>2 DEF Kept
<1> QED
  BY <1>4, <1>5, <1>7, <1>9 DEF Inv

LEMMA CrashKeeps == ASSUME Inv, NEW w \in Workers, Crash(w) PROVE Inv'
<1>0. TypeOK /\ Files /\ Directory /\ Held /\ Phases /\ Kept /\ Forced /\ Crash(w)
  BY DEF Inv
<1>1. UNCHANGED <<dir, files, tmp, archive, written, ops, raced, forced>> /\ ~At(w, "idle")
  BY <1>0 DEF Crash, disk
<1>2. (cut' => cut \/ Emptied(w)) /\ (cut \/ Emptied(w) => cut')
  BY <1>0 DEF Crash, Emptied
<1>3. work' \in [Workers -> WorkType] /\ crashes' \in Nat
  BY <1>0, FinishType DEF TypeOK, Crash
<1>4. (\A v \in Workers \ {w} : work'[v] = work[v]) /\ work'[w] = NoWork
  BY <1>0 DEF TypeOK, Crash, Finish
<1>5. TypeOK' /\ Files' /\ Directory' /\ Forced'
  BY <1>0, <1>1, <1>2, <1>3 DEF TypeOK, Files, Directory, Forced, Entries
<1>6. Held'
  BY <1>0, <1>1, <1>4 DEF Held, Holds, Extracting, NoWork, TypeOK, Files
<1>7. ~raced => \A v \in Workers \ {w} : ~Busy(v) /\ ~Emptied(v)
  BY <1>0, <1>1 DEF At, Busy, Emptied, Compacting, Extracting, Phases, Alone
<1>8. Phases'
  BY <1>0, <1>1, <1>4, <1>7 DEF Phases, Alone, Phase, Busy, At, Compacting, Extracting,
     NoWork
<1>9. Kept'
  <2> SUFFICES ASSUME ~raced, ~forced PROVE Kept'
    BY <1>1 DEF Kept
  <2>1. Entries' = Entries /\ Archived' = Archived /\ Entries \subseteq dir.entries \cup Archived
    BY <1>0, <1>1 DEF Kept, Entries, Archived
  <2>2. \A v \in Workers : KeptBy(v)'
    BY <1>0, <1>1, <1>4, <2>1 DEF Kept, KeptBy, Emptied, At, Extracting, NoWork
  <2>3. ~cut' /\ dir.is => Entries \subseteq dir.entries
    BY <1>0, <1>2, <1>7 DEF Kept
  <2> QED
    BY <1>1, <2>1, <2>2, <2>3 DEF Kept
<1> QED
  BY <1>5, <1>6, <1>8, <1>9 DEF Inv

-----------------------------------------------------------------------------

LEMMA StutterKeeps == ASSUME Inv, UNCHANGED vars PROVE Inv'
<1> USE DEF vars, disk, ghosts
<1>1. TypeOK' /\ Files' /\ Directory' /\ Forced' /\ Held'
  BY DEF Inv, TypeOK, Files, Directory, Forced, Held, Holds, Entries
<1>2. Phases'
  BY DEF Inv, Phases, Alone, Phase, Busy, At
<1>3. Kept'
  BY DEF Inv, Kept, KeptBy, Emptied, At, Entries, Archived
<1> QED
  BY <1>1, <1>2, <1>3 DEF Inv

LEMMA Inductive == Inv /\ [Next]_vars => Inv'
<1> SUFFICES ASSUME Inv, [Next]_vars PROVE Inv'
  OBVIOUS
<1>1. CASE UNCHANGED vars
  BY <1>1, StutterKeeps
<1>2. ASSUME NEW w \in Workers,
             \/ StartCompact(w) \/ CheckArchive(w) \/ OpenTmp(w) \/ CopyMemory(w)
             \/ CopyTranscript(w) \/ GiveUp(w) \/ CloseTmp(w) \/ Rename(w) \/ RemoveDir(w)
      PROVE  Inv'
  BY <1>2, StartCompactKeeps, CheckArchiveKeeps, OpenTmpKeeps, CopyMemoryKeeps,
     CopyTranscriptKeeps, GiveUpKeeps, CloseTmpKeeps, RenameKeeps, RemoveDirKeeps
<1>3. ASSUME NEW w \in Workers,
             \/ StartResume(w) \/ ExtractMemory(w) \/ ExtractCreate(w) \/ ExtractCopy(w)
             \/ ExtractRemove(w) \/ Load(w) \/ AppendEntry(w) \/ Leave(w) \/ Crash(w)
      PROVE  Inv'
  BY <1>3, StartResumeKeeps, ExtractMemoryKeeps, ExtractCreateKeeps, ExtractCopyKeeps,
     ExtractRemoveKeeps, LoadKeeps, AppendEntryKeeps, LeaveKeeps, CrashKeeps
<1> QED
  BY <1>1, <1>2, <1>3 DEF Next

LEMMA Invariant == Spec => []Inv
  BY Initial, Inductive, PTL DEF Spec

\* Every entry ever written is in the directory or in an archive that can be
\* read, at every step of compactEntry, CompactOne and ExtractArchive at which a
\* process may die, for any number of processes, entries and crashes.
THEOREM CompactIsLossless == Spec => []NothingLost
<1>1. Inv => NothingLost
  BY DEF Inv, Kept, NothingLost
<1> QED
  BY <1>1, Invariant, PTL

\* A session that MaybeExtractArchive has left to the loader opens with all that
\* was ever written to it.
THEOREM ResumesAreWhole == Spec => ResumesWhole
<1> DEFINE A == \A w \in Workers :
                  At(w, "load") /\ work'[w].at # "load" /\ crashes' = crashes /\ ~raced /\ ~cut
                     => work'[w].at = "run" /\ dir.entries = Entries
<1>1. ASSUME Inv, [Next]_vars, NEW w \in Workers,
             At(w, "load"), work'[w].at # "load", crashes' = crashes, ~raced, ~cut
      PROVE  work'[w].at = "run" /\ dir.entries = Entries
  <2>1. TypeOK /\ Directory /\ Kept /\ ~forced
    BY <1>1 DEF Inv, Forced
  <2>2. \A v \in Workers : ~Emptied(v)
    BY <1>1, Calm DEF At, Busy, Compacting, Extracting
  <2>3. dir.entries = Entries
    BY <1>1, <2>1, <2>2 DEF Kept, KeptBy, Directory
  <2>4. Load(w)
    <3>1. ~UNCHANGED vars
      BY <1>1 DEF vars, At
    <3>2. PICK v \in Workers :
             \/ StartCompact(v) \/ CheckArchive(v) \/ OpenTmp(v) \/ CopyMemory(v)
             \/ CopyTranscript(v) \/ GiveUp(v) \/ CloseTmp(v) \/ Rename(v) \/ RemoveDir(v)
             \/ StartResume(v) \/ ExtractMemory(v) \/ ExtractCreate(v) \/ ExtractCopy(v)
             \/ ExtractRemove(v) \/ Load(v) \/ AppendEntry(v) \/ Leave(v)
             \/ Crash(v)
      BY <1>1, <3>1 DEF Next
    <3>3. ~Crash(v)
      BY <1>1, <2>1 DEF Crash, TypeOK
    <3>4. ~(StartCompact(v) \/ StartResume(v) \/ AppendEntry(v) \/ Leave(v)) \/ v # w
      BY <1>1 DEF StartCompact, StartResume, AppendEntry, Leave, At
    <3>5. ~Busy(v)
      BY <1>1, <2>2, Calm DEF At, Busy, Compacting, Extracting
    <3>6. ~(CheckArchive(v) \/ OpenTmp(v) \/ CopyMemory(v) \/ CopyTranscript(v) \/ GiveUp(v)
              \/ CloseTmp(v) \/ Rename(v) \/ RemoveDir(v))
      BY <3>5 DEF Busy, At, Compacting, CheckArchive, OpenTmp, CopyMemory, CopyTranscript,
         GiveUp, CloseTmp, Rename, RemoveDir
    <3>7. ~(ExtractMemory(v) \/ ExtractCreate(v) \/ ExtractCopy(v) \/ ExtractRemove(v))
      BY <3>5 DEF Busy, At, Extracting, ExtractMemory, ExtractCreate, ExtractCopy,
         ExtractRemove
    <3>8. v = w
      <4>1. CASE StartCompact(v)
        BY <1>1, <2>1, <4>1 DEF StartCompact, TypeOK, At
      <4>2. CASE StartResume(v)
        BY <1>1, <2>1, <4>2 DEF StartResume, TypeOK, At
      <4>3. CASE Load(v) \/ AppendEntry(v) \/ Leave(v)
        BY <1>1, <2>1, <4>3 DEF Load, AppendEntry, Leave, Goto, Finish, TypeOK, At
      <4> QED
        BY <3>2, <3>3, <3>6, <3>7, <4>1, <4>2, <4>3
    <3> QED
      BY <3>2, <3>3, <3>4, <3>6, <3>7, <3>8
  <2>5. dir.entries # {} /\ dir.transcript
    <3>1. 1 \in Entries
      BY <2>1 DEF TypeOK, Entries
    <3> QED
      BY <2>1, <2>3, <3>1 DEF Directory
  <2> QED
    BY <2>1, <2>3, <2>4, <2>5 DEF Load, Goto, TypeOK, WorkType
<1>2. Inv /\ [Next]_vars => [A]_vars
  BY <1>1
<1> QED
  BY <1>2, Invariant, PTL DEF Spec, ResumesWhole
=============================================================================
