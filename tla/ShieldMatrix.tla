--------------------------- MODULE ShieldMatrix ---------------------------
(***************************************************************************)
(* The Shield Matrix mirror: the row shield_matrix(id = 1) of the database *)
(* and the directories mirror/matrix/{ipv4,ipv6}, worked on without a      *)
(* common lock by                                                          *)
(*   - update runs (mirror.UpdateShieldMatrix), started by the scheduler   *)
(*     and by the dashboard's "update" button;                             *)
(*   - requests of the canonical file route, which first call              *)
(*     CheckAndPurgeShieldMatrixCache, serialised by shieldMatrixCheckMu;  *)
(*   - requests of the older routes (matrixHandler and                     *)
(*     shieldMatrixCloudFrontHandler), which do not.                       *)
(*                                                                         *)
(* One step is one access to what is shared: a statement on the row, a     *)
(* call on a directory or file, an answer of the upstream.  An unlock, a   *)
(* local decision and an error return belong to the step before them.      *)
(*                                                                         *)
(* Versions are numbered in release order, 0 being the empty string the    *)
(* readers of the row return for a missing row, a NULL or an error.  The   *)
(* CloudFront URL is the same for all data versions of one product         *)
(* version, so of the column cloudfront_url only "is it set" is kept.      *)
(***************************************************************************)
EXTENDS Naturals

CONSTANTS
    Updaters,    \* goroutines that run UpdateShieldMatrix
    Canonical,   \* requests of shieldMatrixCanonicalFileHandler
    Legacy,      \* requests of matrixHandler, shieldMatrixCloudFrontHandler
    Preload,     \* cfg.ShieldMatrixPreloadFiles
    NFiles,      \* threat_data_1 .. threat_data_NFiles in a family (5 in the code)
    MaxVersion,  \* bound: versions the upstream releases
    Faults       \* what the environment may do wrong

Handlers == Canonical \cup Legacy
Procs == Updaters \cup Handlers

(* "check", "none", "version", "empty", "download": the upstream fails      *)
(* check_update, answers that nothing is available, fails /version, answers *)
(* it with a blank body, fails a file.  "copy": a transfer breaks off.      *)
(* "remove", "mkdir", "db": that call fails.  "crash": the process dies.    *)
FaultKinds == {"check", "none", "version", "empty", "download", "copy",
               "remove", "mkdir", "db", "crash"}

ASSUME ProcsAssumption ==
    /\ Updaters \cap Handlers = {}
    /\ Canonical \cap Legacy = {}
    /\ {"none", "absent", "whole", "lost"} \cap Procs = {}
ASSUME BoundsAssumption ==
    /\ NFiles \in Nat \ {0}
    /\ MaxVersion \in Nat \ {0}
    /\ Preload \in BOOLEAN
    /\ Faults \subseteq FaultKinds

VARIABLES
    upstream,  \* the version the upstream publishes
    row,       \* version, "has a URL" and last_update_success of the row
    cache,     \* what stands at each path under mirror/matrix
    checkDue,  \* shieldMatrixLastCheck is at least shieldMatrixCheckTTL old
    checkMu,   \* owner of shieldMatrixCheckMu, or "none"
    pc, loc    \* next step and local variables of every process

vars == <<upstream, row, cache, checkDue, checkMu, pc, loc>>

Version == 0..MaxVersion
Family == {"ipv4", "ipv6"}
Path == Family \X (1..NFiles)
FilesOf(f) == {f} \X (1..NFiles)

(* vers: the versions whose bytes the file may hold.  fill: the process     *)
(* that truncated it last and still copies into it, "lost" when that copy   *)
(* broke off, "whole" when it ended.                                        *)
NoFile == [vers |-> {}, fill |-> "absent"]
Exists(path) == cache[path].fill # "absent"

(* cur and rem are currentVersion and remoteVersion; path, got and fd       *)
(* belong to a download: the file, the version of the body, and whether the *)
(* file opened is still the one at path (RemoveAll unlinks it).             *)
NoLoc == [cur |-> 0, rem |-> 0, path |-> <<"ipv4", 1>>, got |-> 0, fd |-> FALSE]

\* The process starts on a new database or on one an earlier process left.
Init ==
    /\ upstream = 1
    /\ row \in {[ver |-> 0, url |-> FALSE, ok |-> FALSE],
                [ver |-> 1, url |-> TRUE, ok |-> TRUE]}
    /\ cache = [path \in Path |-> NoFile]
    /\ checkDue = TRUE
    /\ checkMu = "none"
    /\ pc = [p \in Procs |-> "idle"]
    /\ loc = [p \in Procs |-> NoLoc]

----------------------------------------------------------------------------
(* The row.  Every writer replaces the whole row.                          *)

OrOn(fault, value) == IF fault \in Faults THEN {value} ELSE {}

VersionsRead == {row.ver} \cup OrOn("db", 0)
UrlsRead == {row.url} \cup OrOn("db", FALSE)

\* UpdateShieldMatrixVersionWithURL; with u = FALSE UpdateShieldMatrixVersion,
\* whose INSERT OR REPLACE names no cloudfront_url.
Write(v, u, s) ==
    row' \in {[ver |-> v, url |-> u, ok |-> s]} \cup OrOn("db", row)

\* What /version may answer.
VersionBodies == {upstream} \cup OrOn("empty", 0)

Goto(p, label) == pc' = [pc EXCEPT ![p] = label]

\* Return: the process may serve as the next run or request.
Return(p) ==
    /\ Goto(p, "idle")
    /\ loc' = [loc EXCEPT ![p] = NoLoc]

----------------------------------------------------------------------------
(* Removing a directory: RemoveAll of one family, and MkdirAll, which adds *)
(* nothing the model sees.  A failed RemoveAll may leave any of the files  *)
(* and is only logged.  Writers into removed files keep a detached file.   *)

RemoveFamily(f) ==
    \E gone \in IF "remove" \in Faults THEN SUBSET FilesOf(f) ELSE {FilesOf(f)} :
        /\ cache' = [path \in Path |-> IF path \in gone THEN NoFile ELSE cache[path]]
        /\ loc' = [p \in Procs |->
                      [loc[p] EXCEPT !.fd = @ /\ loc[p].path \notin gone]]

----------------------------------------------------------------------------
(* DownloadShieldMatrixFile, for a preload or for a request.               *)

\* GET: the version of the body is settled when the upstream answers.
Get(p) ==
    /\ pc[p] = "get"
    /\ loc' = [loc EXCEPT ![p].got = upstream]
    /\ Goto(p, "create")
    /\ UNCHANGED <<upstream, row, cache, checkDue, checkMu>>

\* Versions still being copied into the file at path, by others than p.
CopiedInto(path, p) ==
    {loc[q].got : q \in {q \in Procs \ {p} :
        pc[q] = "copy" /\ loc[q].fd /\ loc[q].path = path}}

\* os.Create: truncates the file in place, or makes a new one.
Create(p) ==
    LET path == loc[p].path IN
    /\ pc[p] = "create"
    /\ cache' = [cache EXCEPT ![path] =
                    [vers |-> {loc[p].got} \cup CopiedInto(path, p), fill |-> p]]
    /\ loc' = [loc EXCEPT ![p].fd = TRUE]
    /\ Goto(p, "copy")
    /\ UNCHANGED <<upstream, row, checkDue, checkMu>>

\* Mutant: the caller goes on while the body is still being written.
Filled_Async(p, outcome) == UNCHANGED cache

\* The end of p's io.Copy.  A copy begun before another process truncated
\* the file has not written the whole of it.
Filled(p, outcome) ==
    LET path == loc[p].path IN
    cache' = IF loc[p].fd /\ cache[path].fill = p
             THEN [cache EXCEPT ![path].fill = outcome]
             ELSE cache

\* PreloadShieldMatrixFiles: a family is left at its first error.
NextFamily(p) ==
    IF loc[p].path[1] = "ipv4"
    THEN /\ Goto(p, "get")
         /\ loc' = [loc EXCEPT ![p] = [@ EXCEPT !.path = <<"ipv6", 1>>,
                                                !.got = 0, !.fd = FALSE]]
    ELSE /\ Goto(p, "commit")
         /\ loc' = [loc EXCEPT ![p] = [@ EXCEPT !.got = 0, !.fd = FALSE]]

\* Mutant: one file too many.
NextFile_OffByOne(p) ==
    LET path == loc[p].path IN
    IF path[2] <= NFiles
    THEN /\ Goto(p, "get")
         /\ loc' = [loc EXCEPT ![p] = [@ EXCEPT !.path = <<path[1], path[2] + 1>>,
                                                !.got = 0, !.fd = FALSE]]
    ELSE NextFamily(p)

NextFile(p) ==
    LET path == loc[p].path IN
    IF path[2] < NFiles
    THEN /\ Goto(p, "get")
         /\ loc' = [loc EXCEPT ![p] = [@ EXCEPT !.path = <<path[1], path[2] + 1>>,
                                                !.got = 0, !.fd = FALSE]]
    ELSE NextFamily(p)

Downloaded(p) ==
    /\ pc[p] = "copy"
    /\ Filled(p, "whole")
    /\ IF p \in Updaters THEN NextFile(p) ELSE Return(p)
    /\ UNCHANGED <<upstream, row, checkDue, checkMu>>

\* Another process has removed the directory f and not made it again.
Replacing(f) ==
    \E q \in Procs :
        \/ pc[q] = "mkdir"
        \/ f = "ipv4" /\ pc[q] \in {"clean6", "purge6"}
        \/ f = "ipv6" /\ pc[q] = "record"

\* No answer, or not 200; the directory vanishes between MkdirAll and
\* os.Create; the transfer breaks off.  A preload goes on with the next
\* family, a request answers 502 or 404.
DownloadFailed(p) ==
    /\ \/ /\ pc[p] = "get" /\ "download" \in Faults
          /\ UNCHANGED cache
       \/ /\ pc[p] = "create" /\ Replacing(loc[p].path[1])
          /\ UNCHANGED cache
       \/ /\ pc[p] = "copy" /\ "copy" \in Faults
          /\ Filled(p, "lost")
    /\ IF p \in Updaters THEN NextFamily(p) ELSE Return(p)
    /\ UNCHANGED <<upstream, row, checkDue, checkMu>>

----------------------------------------------------------------------------
(* UpdateShieldMatrix, enabled and with a base URL configured.             *)

UpdateStart(u) ==
    /\ pc[u] = "idle"
    /\ \E v \in VersionsRead : loc' = [loc EXCEPT ![u].cur = v]
    /\ Goto(u, "check")
    /\ UNCHANGED <<upstream, row, cache, checkDue, checkMu>>

\* check_update says an update is available, and where.
UpdateAvailable(u) ==
    /\ pc[u] = "check"
    /\ Goto(u, "version")
    /\ UNCHANGED <<upstream, row, cache, checkDue, checkMu, loc>>

\* check_update fails, cannot be parsed or gives an empty URL; or /version fails.
UpdateFailed(u) ==
    /\ \/ pc[u] = "check" /\ "check" \in Faults
       \/ pc[u] = "version" /\ "version" \in Faults
    /\ Write(loc[u].cur, FALSE, FALSE)
    /\ Return(u)
    /\ UNCHANGED <<upstream, cache, checkDue, checkMu>>

\* check_update answers available = false.
NoUpdateAvailable(u) ==
    /\ pc[u] = "check" /\ "none" \in Faults
    /\ Write(loc[u].cur, FALSE, TRUE)
    /\ Return(u)
    /\ UNCHANGED <<upstream, cache, checkDue, checkMu>>

UpdateVersion(u) ==
    /\ pc[u] = "version"
    /\ \E r \in VersionBodies : loc' = [loc EXCEPT ![u].rem = r]
    /\ Goto(u, "decide")
    /\ UNCHANGED <<upstream, row, cache, checkDue, checkMu>>

\* checkShieldMatrixFilesExist: os.Stat only.
FilesExist == \A path \in Path : Exists(path)

UpToDate(u) ==
    /\ loc[u].rem = loc[u].cur
    /\ Preload => FilesExist

\* Mutant: the up-to-date branch records the version without the URL.
UpdateDecide_NoUrl(u) ==
    /\ pc[u] = "decide"
    /\ IF UpToDate(u)
       THEN Write(loc[u].cur, FALSE, TRUE) /\ Return(u)
       ELSE Goto(u, "clean4") /\ UNCHANGED <<row, loc>>
    /\ UNCHANGED <<upstream, cache, checkDue, checkMu>>

UpdateDecide(u) ==
    /\ pc[u] = "decide"
    /\ IF UpToDate(u)
       THEN Write(loc[u].cur, TRUE, TRUE) /\ Return(u)
       ELSE Goto(u, "clean4") /\ UNCHANGED <<row, loc>>
    /\ UNCHANGED <<upstream, cache, checkDue, checkMu>>

\* Mutant: only the ipv4 directory is emptied.
UpdateClean_OneFamily(u) ==
    /\ pc[u] = "clean4" /\ RemoveFamily("ipv4") /\ Goto(u, "mkdir")
    /\ UNCHANGED <<upstream, row, checkDue, checkMu>>

UpdateClean(u) ==
    /\ \/ pc[u] = "clean4" /\ RemoveFamily("ipv4") /\ Goto(u, "clean6")
       \/ pc[u] = "clean6" /\ RemoveFamily("ipv6") /\ Goto(u, "mkdir")
    /\ UNCHANGED <<upstream, row, checkDue, checkMu>>

UpdateMkdir(u) ==
    /\ pc[u] = "mkdir"
    /\ \/ /\ Goto(u, IF Preload THEN "get" ELSE "commit")
          /\ UNCHANGED <<row, loc>>
       \/ /\ "mkdir" \in Faults
          /\ Write(loc[u].cur, TRUE, FALSE)
          /\ Return(u)
    /\ UNCHANGED <<upstream, cache, checkDue, checkMu>>

UpdateCommit(u) ==
    /\ pc[u] = "commit"
    /\ Write(loc[u].rem, TRUE, TRUE)
    /\ Return(u)
    /\ UNCHANGED <<upstream, cache, checkDue, checkMu>>

UpdateStep(u) ==
    \/ UpdateStart(u) \/ UpdateAvailable(u) \/ UpdateFailed(u)
    \/ NoUpdateAvailable(u) \/ UpdateVersion(u) \/ UpdateDecide(u)
    \/ UpdateClean(u) \/ UpdateMkdir(u) \/ UpdateCommit(u)
    \/ Get(u) \/ Create(u) \/ Downloaded(u) \/ DownloadFailed(u)

----------------------------------------------------------------------------
(* Requests.                                                               *)

Request(h) ==
    /\ pc[h] = "idle"
    /\ \E path \in Path : loc' = [loc EXCEPT ![h].path = path]
    /\ Goto(h, IF h \in Canonical THEN "lock" ELSE "stat")
    /\ UNCHANGED <<upstream, row, cache, checkDue, checkMu>>

\* Mutant: the mutex is not taken.
CheckStart_NoMutex(h) ==
    /\ pc[h] = "lock"
    /\ IF checkDue
       THEN \E url \in UrlsRead :
                IF url
                THEN checkMu' = h /\ Goto(h, "current")
                ELSE UNCHANGED checkMu /\ Goto(h, "stat")
       ELSE UNCHANGED checkMu /\ Goto(h, "stat")
    /\ checkDue' = FALSE
    /\ UNCHANGED <<upstream, row, cache, loc>>

\* CheckAndPurgeShieldMatrixCache: lock, look at the TTL, read the URL.
CheckStart(h) ==
    /\ pc[h] = "lock" /\ checkMu = "none"
    /\ IF checkDue
       THEN \E url \in UrlsRead :
                IF url
                THEN checkMu' = h /\ Goto(h, "current")
                ELSE UNCHANGED checkMu /\ Goto(h, "stat")
       ELSE UNCHANGED checkMu /\ Goto(h, "stat")
    /\ checkDue' = FALSE
    /\ UNCHANGED <<upstream, row, cache, loc>>

\* The check returns: its locals go, the deferred Unlock runs.
CheckEnd(h) ==
    /\ checkMu' = "none"
    /\ loc' = [loc EXCEPT ![h] = [NoLoc EXCEPT !.path = loc[h].path]]
    /\ Goto(h, "stat")

CheckCurrent(h) ==
    /\ pc[h] = "current"
    /\ \E v \in VersionsRead :
          IF v = 0
          THEN CheckEnd(h)
          ELSE /\ loc' = [loc EXCEPT ![h].cur = v]
               /\ Goto(h, "remote")
               /\ UNCHANGED checkMu
    /\ UNCHANGED <<upstream, row, cache, checkDue>>

\* Mutant: no unlock when the version is the one already known.
CheckRemote_NoUnlock(h) ==
    /\ pc[h] = "remote"
    /\ \E r \in VersionBodies :
          /\ loc' = [loc EXCEPT ![h].rem = r]
          /\ Goto(h, IF r \in {0, loc[h].cur} THEN "stat" ELSE "purge4")
    /\ UNCHANGED <<upstream, row, cache, checkDue, checkMu>>

\* /version fails, is blank or is the version already known: no purge.
CheckRemote(h) ==
    /\ pc[h] = "remote"
    /\ \/ \E r \in VersionBodies :
             IF r \in {0, loc[h].cur}
             THEN CheckEnd(h)
             ELSE /\ loc' = [loc EXCEPT ![h].rem = r]
                  /\ Goto(h, "purge4")
                  /\ UNCHANGED checkMu
       \/ "version" \in Faults /\ CheckEnd(h)
    /\ UNCHANGED <<upstream, row, cache, checkDue>>

Purge(h) ==
    /\ \/ pc[h] = "purge4" /\ RemoveFamily("ipv4") /\ Goto(h, "purge6")
       \/ pc[h] = "purge6" /\ RemoveFamily("ipv6") /\ Goto(h, "record")
    /\ UNCHANGED <<upstream, row, checkDue, checkMu>>

CheckRecord(h) ==
    /\ pc[h] = "record"
    /\ Write(loc[h].rem, FALSE, TRUE)
    /\ CheckEnd(h)
    /\ UNCHANGED <<upstream, cache, checkDue>>

\* os.Stat, and the file as it stands is the answer.
ServeCached(h) ==
    /\ pc[h] = "stat" /\ Exists(loc[h].path)
    /\ Return(h)
    /\ UNCHANGED <<upstream, row, cache, checkDue, checkMu>>

Miss(h) ==
    /\ pc[h] = "stat" /\ ~Exists(loc[h].path)
    /\ Goto(h, "url")
    /\ UNCHANGED <<upstream, row, cache, checkDue, checkMu, loc>>

\* Without a URL the answer is 502 (404 on the older routes).
ReadUrl(h) ==
    /\ pc[h] = "url"
    /\ \E url \in UrlsRead :
          IF url THEN Goto(h, "get") /\ UNCHANGED loc ELSE Return(h)
    /\ UNCHANGED <<upstream, row, cache, checkDue, checkMu>>

\* What a request does once it has arrived, the lock apart.
HandlerStep(h) ==
    \/ CheckCurrent(h) \/ CheckRemote(h) \/ Purge(h) \/ CheckRecord(h)
    \/ ServeCached(h) \/ Miss(h) \/ ReadUrl(h)
    \/ Get(h) \/ Create(h) \/ Downloaded(h) \/ DownloadFailed(h)

----------------------------------------------------------------------------
(* Environment.                                                            *)

Release ==
    /\ upstream < MaxVersion
    /\ upstream' = upstream + 1
    /\ UNCHANGED <<row, cache, checkDue, checkMu, pc, loc>>

TtlExpires ==
    /\ ~checkDue
    /\ checkDue' = TRUE
    /\ UNCHANGED <<upstream, row, cache, checkMu, pc, loc>>

\* The process dies and is started again; files and row stay.
Crash ==
    /\ "crash" \in Faults
    /\ cache' = [path \in Path |->
                    IF cache[path].fill \in Procs
                    THEN [cache[path] EXCEPT !.fill = "lost"] ELSE cache[path]]
    /\ checkDue' = TRUE
    /\ checkMu' = "none"
    /\ pc' = [p \in Procs |-> "idle"]
    /\ loc' = [p \in Procs |-> NoLoc]
    /\ UNCHANGED <<upstream, row>>

Next ==
    \/ \E u \in Updaters : UpdateStep(u)
    \/ \E h \in Handlers : Request(h) \/ CheckStart(h) \/ HandlerStep(h)
    \/ Release \/ TtlExpires \/ Crash

Spec == Init /\ [][Next]_vars

(* A started run or request goes on: every call it makes is bounded (the    *)
(* client gives up after 60 s).  sync.Mutex starves no waiter.  Runs start  *)
(* again and again: the scheduler loops for ever.  Requests, releases and   *)
(* crashes need not happen.                                                 *)
Fairness ==
    /\ \A u \in Updaters : WF_vars(UpdateStep(u))
    /\ \A h \in Handlers : WF_vars(HandlerStep(h)) /\ SF_vars(CheckStart(h))

FairSpec == Spec /\ Fairness

----------------------------------------------------------------------------
(* Properties.                                                             *)

UpdateLabels == {"check", "version", "decide", "clean4", "clean6", "mkdir", "commit"}
CheckLabels == {"current", "remote", "purge4", "purge6", "record"}
RequestLabels == {"lock", "stat", "url"}
DownloadLabels == {"get", "create", "copy"}

\* The state is of the expected shape, and every process is at a step of
\* the function it runs.
TypeOK ==
    /\ upstream \in Version
    /\ row \in [ver : Version, url : BOOLEAN, ok : BOOLEAN]
    /\ cache \in [Path -> [vers : SUBSET Version,
                           fill : Procs \cup {"absent", "whole", "lost"}]]
    /\ checkDue \in BOOLEAN
    /\ checkMu \in Handlers \cup {"none"}
    /\ loc \in [Procs -> [cur : Version, rem : Version, path : Path,
                          got : Version, fd : BOOLEAN]]
    /\ pc \in [Procs -> {"idle"} \cup UpdateLabels \cup CheckLabels
                         \cup RequestLabels \cup DownloadLabels]
    /\ \A u \in Updaters : pc[u] \notin CheckLabels \cup RequestLabels
    /\ \A h \in Handlers : pc[h] \notin UpdateLabels

\* At most one request is past the lock of CheckAndPurgeShieldMatrixCache,
\* and it is the one the mutex is held for.
CheckExclusive == \A h \in Handlers : pc[h] \in CheckLabels <=> checkMu = h

\* shieldMatrixCheckMu makes read version / ask upstream / purge / record
\* one transaction as long as only requests run: what a check read at its
\* start is still the row's version when it purges and records.  (Update
\* runs do not take the mutex.)
CheckAtomic ==
    Updaters = {} /\ "db" \notin Faults =>
        \A h \in Handlers :
            pc[h] \in CheckLabels \ {"current"} => loc[h].cur = row.ver

\* A file that is not whole is being copied into, by the process that
\* truncated it last, through a descriptor that still names it; only a
\* broken transfer or a crash leaves a part of a file behind for good.
\* os.Stat takes every file for a cached one, so this bounds how long a
\* part of a file can be served.
TornHasWriter ==
    \A path \in Path :
        /\ \A w \in Procs : cache[path].fill = w =>
              pc[w] = "copy" /\ loc[w].fd /\ loc[w].path = path
        /\ cache[path].fill = "lost" => Faults \cap {"copy", "crash"} # {}

\* No file is older than the version the mirror advertises from the row:
\* directories are emptied before the version is recorded, also when a step
\* fails or the process dies in between.
NoOlderThanRow ==
    \A path \in Path : \A v \in cache[path].vers : v >= row.ver

\* Every request that arrives is answered, whoever holds the check mutex.
Answered == \A h \in Handlers : pc[h] # "idle" ~> pc[h] = "idle"

\* When the upstream has made its last release and answers, the row comes to
\* say so for good, with the URL a purge wiped, and a preloading mirror comes
\* to have every file, whatever requests and update runs did before.
Converges ==
    <>[](/\ row.ver = upstream /\ row.url
         /\ Preload => FilesExist)
===========================================================================
