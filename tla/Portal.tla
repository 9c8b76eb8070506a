-------------------------------- MODULE Portal --------------------------------
(***************************************************************************)
(* The portal (internal/portal, cmd/jenny/portal.go): the processes that   *)
(* run `jenny portal`, the lock file by which there is to be one of them,  *)
(* the ways a portal ends, and the handlers that start, resume, kill,      *)
(* delete and watch sessions and that install packages.  The sessions are  *)
(* processes of their own: a child of the portal, or one of a terminal.    *)
(*                                                                         *)
(* The handlers run concurrently, in as many portals as are up, and meet   *)
(* in the files of the home directory and in the table of processes.  A    *)
(* child that has ended is a zombie as long as the portal that started it  *)
(* lives, since nobody waits for it: its pid stays taken, and a signal     *)
(* finds it.                                                               *)
(*                                                                         *)
(* Not here: ports, portal.url, tokens and requests without one, and the   *)
(* handlers that only read (they answer from the state below).             *)
(***************************************************************************)
EXTENDS Naturals, Sequences, FiniteSets, SequencesExt

CONSTANTS
    Kinds,       \* the requests that arrive
    Pids, NoPid, \* bound: processes at a time
    MaxPortals,  \* bound: portals that are started
    MaxRequests, \* bound: requests that arrive
    MaxSessions, \* bound: sessions that ever exist; the first is there at first
    MaxLines,    \* bound: lines of transcript that are ever written
    MaxWork      \* bound: starts of portals, requests, crashes and processes of others, together

ASSUME PortalAssumption ==
    /\ Kinds \subseteq {"start", "resume", "kill", "delete", "stream", "skill"}
    /\ NoPid \notin Pids /\ MaxPortals \in Nat /\ MaxRequests \in Nat
    /\ MaxSessions \in Nat \ {0} /\ MaxLines \in Nat /\ MaxWork \in Nat

VARIABLES
    proc,    \* the table of processes
    portal,  \* the portals: where each is, its pid and the lock file it has open
    ending,  \* how far each of a portal's two terminations has come
    path,    \* which file portal.lock names, 0 for none
    files,   \* the files that ever had that name: who locks it, the pid in it
    dir,     \* the directories of the sessions
    born,    \* sessions so far
    written, \* lines so far
    req,     \* the requests
    skill,   \* the directory of a package: "none", "part" or "whole"
    work,    \* what was begun so far
    stolen,  \* a portal removed a lock file that another one had open
    spoiled  \* an installation failed or was cut after it made its directory

locks == <<ending, path, files, stolen>>
homes == <<dir, born, written>>
packs == <<skill, spoiled>>
portalVars == <<proc, portal, locks, homes, req, packs, work>>

Portals  == 1..MaxPortals
Requests == 1..MaxRequests
SessionIds == 1..MaxSessions
Enders   == {"signal", "idle"}

Free     == [is |-> "none", live |-> FALSE, by |-> 0, on |-> 0, for |-> 0,
             begun |-> FALSE]
Off      == [at |-> "off", pid |-> NoPid, file |-> 0]
NoDir    == [is |-> FALSE, pid |-> NoPid, by |-> 0, lines |-> <<>>]
NoReq    == [at |-> "none", kind |-> "none", by |-> 0, s |-> 0, pid |-> NoPid, rec |-> 0,
             last |-> 0, size |-> 0, from |-> 0, sent |-> {}, torn |-> FALSE]
Answered == [NoReq EXCEPT !.at = "done"]

\* isProcessAlive: signal 0 reaches the process, also when it is a zombie.
isProcessAlive(p) == p # NoPid /\ proc[p].is # "none"

\* The portals that answer requests, and those of them that hold their lock.
Answering == {x \in Portals : portal[x].at = "serving"}
Serving   == {x \in Answering : portal[x].file # 0}
Running   == {x \in Portals : portal[x].at \notin {"off", "gone"}}

\* sessionExists: there is a transcript.
sessionExists(s) == dir[s].is /\ dir[s].lines # <<>>

PortalInit ==
    /\ proc = [p \in Pids |-> Free]
    /\ portal = [x \in Portals |-> Off]
    /\ ending = [x \in Portals |-> [k \in Enders |-> "no"]]
    /\ path = 0
    /\ files = <<>>
    /\ dir = [s \in SessionIds |->
                 IF s = 1 THEN [NoDir EXCEPT !.is = TRUE, !.lines = <<1>>] ELSE NoDir]
    /\ born = 1 /\ written = 1
    /\ req = [r \in Requests |-> NoReq]
    /\ skill = "none"
    /\ work = 0 /\ stolen = FALSE /\ spoiled = FALSE

-----------------------------------------------------------------------------
(* Processes.                                                              *)

\* The same if somebody waited for the children.
EndedReaped(table, p) == [table EXCEPT ![p] = Free]

\* What the table is after the process p ended: a zombie under a portal that
\* lives, and nothing otherwise.
Ended(table, p) ==
    IF table[p].by # 0
    THEN [table EXCEPT ![p].live = FALSE, ![p].begun = FALSE]
    ELSE [table EXCEPT ![p] = Free]

\* What it is after the portal x is gone: its zombies are reaped and its
\* children are nobody's.
Orphaned(table, x) ==
    [p \in Pids |->
        IF p = portal[x].pid THEN Free
        ELSE IF table[p].by # x THEN table[p]
        ELSE IF table[p].live THEN [table[p] EXCEPT !.by = 0] ELSE Free]

\* A process of the program appends to its session.  One that resumes looks for
\* the transcript first; after that AppendEntry makes a directory that is gone
\* again.
Write(p) ==
    /\ proc[p].is = "jenny" /\ proc[p].live /\ written < MaxLines
    /\ LET s == proc[p].on IN
       /\ proc[p].begun \/ proc[p].for # s \/ sessionExists(s)
       /\ dir' = [dir EXCEPT ![s].is = TRUE, ![s].lines = Append(@, written + 1)]
    /\ proc' = [proc EXCEPT ![p].begun = TRUE]
    /\ written' = written + 1
    /\ UNCHANGED <<portal, locks, born, req, packs, work>>

\* A process ends by itself.
End(p) ==
    /\ proc[p].is \in {"jenny", "other"} /\ proc[p].live
    /\ proc' = Ended(proc, p)
    /\ UNCHANGED <<portal, locks, homes, req, packs, work>>

\* Somebody else starts a process: any other one, or the program on a session
\* that exists.
Outside(p) ==
    /\ work < MaxWork /\ proc[p] = Free
    /\ \/ proc' = [proc EXCEPT ![p] = [Free EXCEPT !.is = "other", !.live = TRUE]]
       \/ \E s \in SessionIds :
            /\ sessionExists(s)
            /\ proc' = [proc EXCEPT ![p] =
                           [Free EXCEPT !.is = "jenny", !.live = TRUE, !.on = s, !.for = s]]
    /\ work' = work + 1
    /\ UNCHANGED <<portal, locks, homes, req, packs>>

-----------------------------------------------------------------------------
(* The start of a portal: startWithConfig, flock, writeLockfileWithLock.   *)

PortalAt(x, place) == portal[x].at = place
Goto(x, place) == portal' = [portal EXCEPT ![x].at = place]

\* The requests of a portal that is gone are cut where they stand.
CutRequests(x) ==
    /\ req' = [r \in Requests |-> IF req[r].by = x THEN Answered ELSE req[r]]
    /\ spoiled' = (spoiled \/ \E r \in Requests : req[r].by = x /\ req[r].at = "extract")

\* The kernel closes what the portal had open.
Unlocked(x) ==
    [i \in DOMAIN files |-> IF files[i].lock = x THEN [files[i] EXCEPT !.lock = 0] ELSE files[i]]

Gone(x) ==
    /\ portal' = [portal EXCEPT ![x] = [Off EXCEPT !.at = "gone"]]
    /\ proc' = Orphaned(proc, x)
    /\ files' = Unlocked(x)
    /\ ending' = [ending EXCEPT ![x] = [k \in Enders |-> "no"]]
    /\ CutRequests(x)

\* The server listens; portals are started in the order of their numbers.
Launch(x, p) ==
    /\ PortalAt(x, "off") /\ (\A y \in 1..(x - 1) : ~PortalAt(y, "off")) /\ proc[p] = Free
    /\ portal' = [portal EXCEPT ![x] = [Off EXCEPT !.at = "open", !.pid = p]]
    /\ proc' = [proc EXCEPT ![p] = [Free EXCEPT !.is = "portal", !.live = TRUE]]
    /\ work < MaxWork /\ work' = work + 1
    /\ UNCHANGED <<locks, homes, req, packs>>

\* flock opens the file, or creates it.
OpenLock(x) ==
    /\ PortalAt(x, "open")
    /\ LET i == IF path = 0 THEN Len(files) + 1 ELSE path IN
       /\ portal' = [portal EXCEPT ![x].at = "lock", ![x].file = i]
       /\ path' = i
    /\ files' = IF path = 0 THEN Append(files, [lock |-> 0, pid |-> NoPid]) ELSE files
    /\ UNCHANGED <<proc, ending, stolen, homes, req, packs, work>>

\* The same if the lock were a shared one.
TryLockShared(x) ==
    /\ PortalAt(x, "lock")
    /\ files' = [files EXCEPT ![portal[x].file].lock = x]
    /\ Goto(x, "check")
    /\ UNCHANGED <<proc, ending, path, stolen, homes, req, packs, work>>

\* It locks what it has opened, if nobody else has; startWithConfig shuts the
\* server down and returns when it fails, and the process ends.
TryLock(x) ==
    /\ PortalAt(x, "lock")
    /\ LET i == portal[x].file IN
       IF files[i].lock = 0
       THEN /\ files' = [files EXCEPT ![i].lock = x]
            /\ Goto(x, "check")
       ELSE /\ portal' = [portal EXCEPT ![x].at = "failed", ![x].file = 0]
            /\ UNCHANGED files
    /\ UNCHANGED <<proc, ending, path, stolen, homes, req, packs, work>>

\* The file may be of a portal that died; it is not when its pid is taken.
CheckStale(x) ==
    /\ PortalAt(x, "check")
    /\ LET i == portal[x].file IN
       IF isProcessAlive(files[i].pid)
       THEN /\ files' = [files EXCEPT ![i].lock = 0]
            /\ portal' = [portal EXCEPT ![x].at = "failed", ![x].file = 0]
       ELSE /\ files' = [files EXCEPT ![i].pid = NoPid]
            /\ Goto(x, "write")
    /\ UNCHANGED <<proc, ending, path, stolen, homes, req, packs, work>>

\* The handle stays in the Portal, and with it the lock.
WriteLockfile(x) ==
    /\ PortalAt(x, "write")
    /\ files' = [files EXCEPT ![portal[x].file].pid = portal[x].pid]
    /\ Goto(x, "serving")
    /\ UNCHANGED <<proc, ending, path, stolen, homes, req, packs, work>>

Fail(x) ==
    /\ PortalAt(x, "failed")
    /\ Gone(x)
    /\ UNCHANGED <<path, stolen, homes, skill, work>>

-----------------------------------------------------------------------------
(* Its end.  terminate runs in the goroutine of a signal (Shutdown) and in *)
(* one of the idle timer or monitor; the two do not know of each other.    *)

\* Requests that take less than the idle timeout; each resets the timer.
Brief(r) == req[r].kind \notin {"stream", "skill"}

Terminate(x, k) ==
    /\ portal[x].at \in {"serving", "draining"} /\ ending[x][k] = "no"
    /\ k = "idle" => \A r \in Requests :
                        req[r].by = x /\ req[r].at \notin {"none", "done"} => ~Brief(r)
    /\ ending' = [ending EXCEPT ![x][k] = "close"]
    /\ UNCHANGED <<proc, portal, path, files, stolen, homes, req, packs, work>>

\* The first of them closes the lock file, under the mutex.
CloseLock(x, k) ==
    /\ ending[x][k] = "close"
    /\ files' = Unlocked(x)
    /\ portal' = [portal EXCEPT ![x].file = 0]
    /\ ending' = [ending EXCEPT ![x][k] = "remove"]
    /\ UNCHANGED <<proc, path, stolen, homes, req, packs, work>>

\* Each removes the path, whatever file it names by now.  The idle one calls
\* os.Exit after it; http.Server.Shutdown waits until no request is running.
RemovesPath(x) ==
    /\ path' = 0
    /\ stolen' = (stolen \/ (path # 0 /\ \E y \in Portals \ {x} : portal[y].file = path))

RemoveLock(x) ==
    /\ ending[x]["signal"] = "remove"
    /\ RemovesPath(x)
    /\ ending' = [ending EXCEPT ![x]["signal"] = "removed"]
    /\ Goto(x, "draining")
    /\ UNCHANGED <<proc, files, homes, req, packs, work>>

RemoveLockAndExit(x) ==
    /\ ending[x]["idle"] = "remove"
    /\ RemovesPath(x)
    /\ Gone(x)
    /\ UNCHANGED <<homes, skill, work>>

Exit(x) ==
    /\ PortalAt(x, "draining")
    /\ \A r \in Requests : req[r].by # x
    /\ Gone(x)
    /\ UNCHANGED <<path, stolen, homes, skill, work>>

\* The process is killed.
Crash(x) ==
    /\ x \in Running /\ work < MaxWork
    /\ work' = work + 1
    /\ Gone(x)
    /\ UNCHANGED <<path, stolen, homes, skill>>

-----------------------------------------------------------------------------
(* Requests.                                                               *)

Is(r, kind, place) == req[r].kind = kind /\ req[r].at = place
Step(r, place) == req' = [req EXCEPT ![r].at = place]
Answer(r) == req' = [req EXCEPT ![r] = Answered]

\* withAuth lets a request in, which resets the idle timer.
Arrive(r, x, kind, s) ==
    /\ req[r].at = "none" /\ (\A q \in 1..(r - 1) : req[q].at # "none")
    /\ x \in Answering /\ s <= born
    /\ kind \in {"start", "skill"} => s = 1
    /\ kind = "start" => born + 2 <= MaxSessions
    /\ req' = [req EXCEPT ![r] = [NoReq EXCEPT !.at = "in", !.kind = kind, !.by = x, !.s = s]]
    /\ work < MaxWork /\ work' = work + 1
    /\ UNCHANGED <<proc, portal, locks, homes, packs>>

\* handleStartSession: a new id and its directory.
StartMkdir(r) ==
    /\ Is(r, "start", "in") /\ born + 2 <= MaxSessions
    /\ born' = born + 1
    /\ dir' = [dir EXCEPT ![born + 1].is = TRUE]
    /\ req' = [req EXCEPT ![r].at = "spawn", ![r].s = born + 1]
    /\ UNCHANGED <<proc, portal, locks, written, packs, work>>

\* The "resume" action: there is a transcript.
ResumeCheck(r) ==
    /\ Is(r, "resume", "in")
    /\ IF sessionExists(req[r].s) THEN Step(r, "spawn") ELSE Answer(r)
    /\ UNCHANGED <<proc, portal, locks, homes, packs, work>>

\* cmd.Start.  A resumed session is that of the request; `jenny -p` is not told
\* the id of the request and makes a session of its own.
Spawn(r) ==
    /\ req[r].at = "spawn"
    /\ \/ Answer(r) /\ UNCHANGED <<proc, born>>
       \/ \E p \in Pids :
            /\ proc[p] = Free
            /\ req[r].kind = "start" => born < MaxSessions
            /\ born' = IF req[r].kind = "start" THEN born + 1 ELSE born
            /\ proc' = [proc EXCEPT ![p] =
                   [is |-> "jenny", live |-> TRUE, by |-> req[r].by, for |-> req[r].s, begun |-> FALSE,
                    on |-> IF req[r].kind = "start" THEN born + 1 ELSE req[r].s]]
            /\ req' = [req EXCEPT ![r].at = "record", ![r].pid = p]
    /\ UNCHANGED <<portal, locks, dir, written, packs, work>>

\* The pid file, for which the directory must still be there; the child is
\* killed when it is not.
RecordPid(r) ==
    /\ req[r].at = "record"
    /\ LET s == req[r].s IN
       IF dir[s].is
       THEN /\ dir' = [dir EXCEPT ![s].pid = req[r].pid, ![s].by = req[r].by]
            /\ UNCHANGED proc
       ELSE /\ proc' = Ended(proc, req[r].pid)
            /\ UNCHANGED dir
    /\ Answer(r)
    /\ UNCHANGED <<portal, locks, born, written, packs, work>>

\* getSessionPID: the pid file; no entry of a transcript has a pid.
getSessionPID(r) ==
    /\ Is(r, "kill", "in")
    /\ LET d == dir[req[r].s] IN
       IF d.pid = NoPid THEN Answer(r)
       ELSE req' = [req EXCEPT ![r].at = "signal", ![r].pid = d.pid, ![r].rec = d.by]
    /\ UNCHANGED <<proc, portal, locks, homes, packs, work>>

\* SIGTERM to what has the pid by now: a session or another process ends; what
\* a portal does about it is Terminate.
SendSignal(r) ==
    /\ Is(r, "kill", "signal")
    /\ proc' = IF proc[req[r].pid].is \in {"jenny", "other"} /\ proc[req[r].pid].live
               THEN Ended(proc, req[r].pid) ELSE proc
    /\ Answer(r)
    /\ UNCHANGED <<portal, locks, homes, packs, work>>

\* The "delete" action: not while the recorded process lives.
DeleteCheck(r) ==
    /\ Is(r, "delete", "in")
    /\ LET d == dir[req[r].s] IN
       IF d.is /\ ~isProcessAlive(d.pid) THEN Step(r, "removeAll") ELSE Answer(r)
    /\ UNCHANGED <<proc, portal, locks, homes, packs, work>>

RemoveAll(r) ==
    /\ req[r].at = "removeAll"
    /\ dir' = [dir EXCEPT ![req[r].s] = NoDir]
    /\ req' = [q \in Requests |->
                  IF q = r THEN Answered
                  ELSE IF req[q].kind = "stream" /\ req[q].s = req[r].s
                       THEN [req[q] EXCEPT !.torn = TRUE] ELSE req[q]]
    /\ UNCHANGED <<proc, portal, locks, born, written, packs, work>>

\* handleSessionStream: only what is new from here on.
StreamOpen(r) ==
    /\ Is(r, "stream", "in")
    /\ LET ls == dir[req[r].s].lines IN
       req' = [req EXCEPT ![r].at = "wait", ![r].last = Len(ls),
                          ![r].from = IF ls = <<>> THEN 0 ELSE Last(ls)]
    /\ UNCHANGED <<proc, portal, locks, homes, packs, work>>

\* The same if the new size were taken before the reading.
StreamStatFirst(r) ==
    /\ Is(r, "stream", "wait")
    /\ LET n == Len(dir[req[r].s].lines) IN
       /\ n > req[r].last
       /\ req' = [req EXCEPT ![r].at = "read", ![r].size = n, ![r].last = n]
    /\ UNCHANGED <<proc, portal, locks, homes, packs, work>>

\* A tick finds the file longer.
StreamStat(r) ==
    /\ Is(r, "stream", "wait")
    /\ LET n == Len(dir[req[r].s].lines) IN
       /\ n > req[r].last
       /\ req' = [req EXCEPT ![r].at = "read", ![r].size = n]
    /\ UNCHANGED <<proc, portal, locks, homes, packs, work>>

\* What the file has beyond the last size is sent; the size of before becomes
\* the last one.
StreamRead(r) ==
    /\ Is(r, "stream", "read")
    /\ LET ls == dir[req[r].s].lines IN
       IF ls = <<>> THEN Answer(r)
       ELSE req' = [req EXCEPT ![r].at = "wait", ![r].last = req[r].size,
                        ![r].sent = @ \cup {ls[i] : i \in (req[r].last + 1)..Len(ls)}]
    /\ UNCHANGED <<proc, portal, locks, homes, packs, work>>

\* pollPID has no pid or finds it dead, or the browser leaves.
StreamEnd(r) ==
    /\ Is(r, "stream", "wait")
    /\ Answer(r)
    /\ UNCHANGED <<proc, portal, locks, homes, packs, work>>

\* handleMarketplaceInstall, a skill or a plugin: not twice.
InstallCheck(r) ==
    /\ Is(r, "skill", "in")
    /\ IF skill = "none" THEN Step(r, "download") ELSE Answer(r)
    /\ UNCHANGED <<proc, portal, locks, homes, packs, work>>

\* The same if the directory were made before the answer is looked at.
DownloadMkdirFirst(r) ==
    /\ Is(r, "skill", "download")
    /\ skill' = "part"
    /\ Answer(r) \/ Step(r, "extract")
    /\ UNCHANGED <<proc, portal, locks, homes, spoiled, work>>

\* downloadAndExtract: the answer has come, and the directory is made.
Download(r) ==
    /\ Is(r, "skill", "download")
    /\ \/ Answer(r) /\ UNCHANGED skill
       \/ Step(r, "extract") /\ skill' = "part"
    /\ UNCHANGED <<proc, portal, locks, homes, spoiled, work>>

\* The archive is written file by file; what is there stays when it fails.
Extract(r) ==
    /\ Is(r, "skill", "extract")
    /\ \/ skill' = "whole" /\ UNCHANGED spoiled
       \/ spoiled' = TRUE /\ UNCHANGED skill
    /\ Answer(r)
    /\ UNCHANGED <<proc, portal, locks, homes, work>>

-----------------------------------------------------------------------------

Handle(r) ==
    \/ \E x \in Portals, kind \in Kinds, s \in SessionIds : Arrive(r, x, kind, s)
    \/ StartMkdir(r) \/ ResumeCheck(r) \/ Spawn(r) \/ RecordPid(r)
    \/ getSessionPID(r) \/ SendSignal(r)
    \/ DeleteCheck(r) \/ RemoveAll(r)
    \/ StreamOpen(r) \/ StreamStat(r) \/ StreamRead(r) \/ StreamEnd(r)
    \/ InstallCheck(r) \/ Download(r) \/ Extract(r)

PortalNext ==
    \/ \E p \in Pids : Write(p) \/ End(p) \/ Outside(p)
    \/ \E x \in Portals :
         \/ \E p \in Pids : Launch(x, p)
         \/ OpenLock(x) \/ TryLock(x) \/ CheckStale(x) \/ WriteLockfile(x) \/ Fail(x)
         \/ \E k \in Enders : Terminate(x, k) \/ CloseLock(x, k)
         \/ RemoveLock(x) \/ RemoveLockAndExit(x) \/ Exit(x) \/ Crash(x)
    \/ \E r \in Requests : Handle(r)

PortalSpec == PortalInit /\ [][PortalNext]_portalVars

-----------------------------------------------------------------------------

\* One portal at a time (docs/arch/webui-portal.md, "Single Instance"): however
\* the starts interleave and whichever portal is killed, at most one serves
\* under its lock -- until a portal that ends has removed a lock file that
\* another one had open already, which its terminate does not exclude.
OnePortalUntilStolen == ~stolen => Cardinality(Serving) <= 1

\* The signal of a kill only ends a process that was started for the session,
\* as long as the portal that wrote the pid file lives: its child keeps the pid
\* even after it has ended (handleSessionAction, getSessionPID).
KillsItsOwn ==
    [][\A r \in Requests :
         LET p == req[r].pid IN
         Is(r, "kill", "signal") /\ portal' = portal /\ proc'[p] # proc[p] /\ req'[r] # req[r]
            => \/ proc[p].is = "jenny" /\ proc[p].for = req[r].s
               \/ req[r].rec \notin Running]_portalVars

\* A stream leaves out no line that was appended since it was opened, up to
\* where it says to be, whatever is appended between its look at the size and
\* its reading (handleSessionStream); only a deletion breaks this.
NoLineMissed ==
    \A r \in Requests :
        LET ls == dir[req[r].s].lines IN
        req[r].kind = "stream" /\ req[r].at \in {"wait", "read"} /\ ~req[r].torn
           => \A i \in 1..req[r].last : ls[i] > req[r].from => ls[i] \in req[r].sent

\* A package is there in part only while it is being extracted, or after an
\* archive broke or the portal died under it: an answer that is no archive, a
\* refusal and a second installation leave nothing (handleMarketplaceInstall).
PartIsSpoiled ==
    skill = "part" => spoiled \/ \E r \in Requests : Is(r, "skill", "extract")
=============================================================================
