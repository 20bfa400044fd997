------------------------ MODULE ShieldMatrixProofs ------------------------
(***************************************************************************)
(* What holds of ShieldMatrix for every set of processes, number of files, *)
(* bound on versions and choice of faults.                                 *)
(***************************************************************************)
EXTENDS ShieldMatrix, TLAPS

USE DEF Procs, Handlers

\* The first file of a family exists, and a preload stays on real paths.
LEMMA FirstFile ==
    /\ <<"ipv4", 1>> \in Path
    /\ <<"ipv6", 1>> \in Path
    /\ \A path \in Path : /\ path[1] \in Family
                          /\ path[2] \in 1..NFiles
                          /\ path[2] < NFiles => <<path[1], path[2] + 1>> \in Path
BY BoundsAssumption, SMT DEF Path, Family

Local == [cur : Version, rem : Version, path : Path, got : Version, fd : BOOLEAN]
Cached == [vers : SUBSET Version, fill : Procs \cup {"absent", "whole", "lost"}]
Row == [ver : Version, url : BOOLEAN, ok : BOOLEAN]
Label == {"idle"} \cup UpdateLabels \cup CheckLabels
         \cup RequestLabels \cup DownloadLabels

\* pc: every process is at a step of the function it runs.
PcOK ==
    /\ pc \in [Procs -> Label]
    /\ \A u \in Updaters : pc[u] \notin CheckLabels \cup RequestLabels
    /\ \A h \in Handlers : pc[h] \notin UpdateLabels

\* The locals of a returned process are values of their types.
LEMMA NoLocType == NoLoc \in Local
BY FirstFile, BoundsAssumption DEF NoLoc, Local, Version

LEMMA NoFileType == NoFile \in Cached
BY DEF NoFile, Cached

LEMMA TypeOKParts ==
    TypeOK <=> /\ upstream \in Version
               /\ row \in Row
               /\ cache \in [Path -> Cached]
               /\ checkDue \in BOOLEAN
               /\ checkMu \in Handlers \cup {"none"}
               /\ loc \in [Procs -> Local]
               /\ PcOK
BY DEF TypeOK, Row, Cached, Local, PcOK, Label

LEMMA TypeOKNext ==
    ASSUME upstream' \in Version, row' \in Row, cache' \in [Path -> Cached],
           checkDue' \in BOOLEAN, checkMu' \in Handlers \cup {"none"},
           loc' \in [Procs -> Local], PcOK'
    PROVE  TypeOK'
BY DEF TypeOK, Row, Cached, Local, PcOK, Label

\* A write leaves a well-formed row.
LEMMA WriteType ==
    ASSUME row \in Row, NEW v \in Version, NEW u \in BOOLEAN, NEW s \in BOOLEAN,
           Write(v, u, s)
    PROVE  row' \in Row
BY DEF Write, OrOn, Row

\* What a read of the row or of /version returns.
LEMMA ReadTypes ==
    ASSUME row \in Row, upstream \in Version
    PROVE  /\ VersionsRead \subseteq Version
           /\ UrlsRead \subseteq BOOLEAN
           /\ VersionBodies \subseteq Version
<1>1. 0 \in Version
  BY BoundsAssumption DEF Version
<1>2. row.ver \in Version /\ row.url \in BOOLEAN
  BY DEF Row
<1>3. VersionsRead \subseteq Version /\ VersionBodies \subseteq Version
  BY <1>1, <1>2 DEF VersionsRead, VersionBodies, OrOn
<1>4. UrlsRead \subseteq BOOLEAN
  BY <1>2, Zenon DEF UrlsRead, OrOn
<1> QED BY <1>3, <1>4

LEMMA RemoveType ==
    ASSUME cache \in [Path -> Cached], loc \in [Procs -> Local],
           NEW f \in Family, RemoveFamily(f)
    PROVE  cache' \in [Path -> Cached] /\ loc' \in [Procs -> Local]
<1>1. PICK gone : /\ cache' = [path \in Path |-> IF path \in gone THEN NoFile ELSE cache[path]]
                  /\ loc' = [p \in Procs |->
                                [loc[p] EXCEPT !.fd = @ /\ loc[p].path \notin gone]]
  BY DEF RemoveFamily
<1>2. cache' \in [Path -> Cached]
  BY <1>1, NoFileType
<1>3. ASSUME NEW p \in Procs
      PROVE  [loc[p] EXCEPT !.fd = @ /\ loc[p].path \notin gone] \in Local
  BY DEF Local
<1> QED BY <1>1, <1>2, <1>3

LEMMA ReturnType ==
    ASSUME PcOK, loc \in [Procs -> Local], NEW p \in Procs, Return(p)
    PROVE  PcOK' /\ loc' \in [Procs -> Local]
<1>1. loc' \in [Procs -> Local]
  BY NoLocType DEF Return
<1>2. pc' = [pc EXCEPT ![p] = "idle"]
  BY DEF Return, Goto
<1>3. PcOK'
  BY <1>2 DEF PcOK, Label, UpdateLabels, CheckLabels, RequestLabels
<1> QED BY <1>1, <1>3

LEMMA NextFileType ==
    ASSUME PcOK, loc \in [Procs -> Local], NEW u \in Updaters,
           NextFile(u) \/ NextFamily(u)
    PROVE  PcOK' /\ loc' \in [Procs -> Local]
<1>1. u \in Procs
  OBVIOUS
<1>2. \/ pc' = [pc EXCEPT ![u] = "get"]
      \/ pc' = [pc EXCEPT ![u] = "commit"]
  BY DEF NextFile, NextFamily, Goto
<1>3. PcOK'
  BY <1>2, ProcsAssumption
     DEF PcOK, Label, UpdateLabels, CheckLabels, RequestLabels, DownloadLabels
<1>4. loc[u] \in Local /\ loc[u].path \in Path
  BY DEF Local
<1>5. \E path \in Path : \/ loc' = [loc EXCEPT ![u] = [@ EXCEPT !.path = path, !.got = 0, !.fd = FALSE]]
                         \/ loc' = [loc EXCEPT ![u] = [@ EXCEPT !.got = 0, !.fd = FALSE]]
  BY <1>4, FirstFile DEF NextFile, NextFamily
<1>6. 0 \in Version
  BY BoundsAssumption DEF Version
<1>7. \A path \in Path :
         /\ [loc[u] EXCEPT !.path = path, !.got = 0, !.fd = FALSE] \in Local
         /\ [loc[u] EXCEPT !.got = 0, !.fd = FALSE] \in Local
  BY <1>4, <1>6 DEF Local
<1>8. loc' \in [Procs -> Local]
  BY <1>5, <1>7
<1> QED BY <1>3, <1>8

----------------------------------------------------------------------------
(* Type correctness, one step per action.                                  *)

\* A process moves to a step of its own function.
LEMMA GotoType ==
    ASSUME PcOK, NEW p \in Procs, NEW l \in Label, Goto(p, l),
           p \in Updaters => l \notin CheckLabels \cup RequestLabels,
           p \in Handlers => l \notin UpdateLabels
    PROVE  PcOK'
BY DEF PcOK, Goto

\* Type correctness of a step of the download, common to runs and requests.
LEMMA DownloadTypeStep ==
    ASSUME TypeOK, NEW p \in Procs,
           Get(p) \/ Create(p) \/ Downloaded(p) \/ DownloadFailed(p)
    PROVE  TypeOK'
<1> USE TypeOKParts, TypeOKNext
<1>0. /\ loc[p] \in Local /\ loc[p].path \in Path /\ loc[p].got \in Version
      /\ \A q \in Procs : loc[q].got \in Version
  BY DEF Local
<1>1. CASE Get(p)
  <2>1. PcOK'
    BY <1>1, GotoType
       DEF Get, Label, DownloadLabels, CheckLabels, RequestLabels, UpdateLabels
  <2>2. [loc[p] EXCEPT !.got = upstream] \in Local
    BY <1>0 DEF Local
  <2> QED BY <1>1, <2>1, <2>2 DEF Get
<1>2. CASE Create(p)
  <2>1. PcOK'
    BY <1>2, GotoType
       DEF Create, Label, DownloadLabels, CheckLabels, RequestLabels, UpdateLabels
  <2>2. [loc[p] EXCEPT !.fd = TRUE] \in Local
    BY <1>0 DEF Local
  <2>3. {loc[p].got} \cup CopiedInto(loc[p].path, p) \subseteq Version
    BY <1>0 DEF CopiedInto
  <2>4. [vers |-> {loc[p].got} \cup CopiedInto(loc[p].path, p), fill |-> p] \in Cached
    BY <2>3 DEF Cached
  <2>5. cache' \in [Path -> Cached]
    BY <1>0, <1>2, <2>4 DEF Create
  <2> QED BY <1>2, <2>1, <2>2, <2>5 DEF Create
<1>3. ASSUME NEW o \in {"whole", "lost"}, Filled(p, o)
      PROVE  cache' \in [Path -> Cached]
  <2>1. [cache[loc[p].path] EXCEPT !.fill = o] \in Cached
    BY <1>0 DEF Cached
  <2> QED BY <1>0, <1>3, <2>1 DEF Filled
<1>4. CASE Downloaded(p)
  <2>1. cache' \in [Path -> Cached]
    BY <1>3, <1>4 DEF Downloaded
  <2>2. PcOK' /\ loc' \in [Procs -> Local]
    BY <1>4, NextFileType, ReturnType DEF Downloaded
  <2> QED BY <1>4, <2>1, <2>2 DEF Downloaded
<1>5. CASE DownloadFailed(p)
  <2>1. cache' \in [Path -> Cached]
    BY <1>3, <1>5 DEF DownloadFailed
  <2>2. PcOK' /\ loc' \in [Procs -> Local]
    BY <1>5, NextFileType, ReturnType DEF DownloadFailed
  <2> QED BY <1>5, <2>1, <2>2 DEF DownloadFailed
<1> QED BY <1>1, <1>2, <1>4, <1>5

\* Type correctness of the other steps of an update run.
LEMMA UpdateTypeStep ==
    ASSUME TypeOK, NEW u \in Updaters, UpdateStep(u)
    PROVE  TypeOK'
<1> USE TypeOKParts, TypeOKNext
<1> USE DEF Label, DownloadLabels, CheckLabels, RequestLabels, UpdateLabels
<1>0. /\ u \in Procs /\ u \notin Handlers
      /\ loc[u] \in Local /\ loc[u].cur \in Version /\ loc[u].rem \in Version
  BY ProcsAssumption DEF Local
<1>1. CASE UpdateStart(u)
  <2>1. PICK v \in Version : loc' = [loc EXCEPT ![u].cur = v]
    BY <1>1, ReadTypes DEF UpdateStart
  <2>2. [loc[u] EXCEPT !.cur = v] \in Local
    BY <1>0 DEF Local
  <2>3. PcOK'
    BY <1>0, <1>1, GotoType DEF UpdateStart
  <2> QED BY <1>1, <2>1, <2>2, <2>3 DEF UpdateStart
<1>2. CASE UpdateAvailable(u)
  <2>1. PcOK'
    BY <1>0, <1>2, GotoType DEF UpdateAvailable
  <2> QED BY <1>2, <2>1 DEF UpdateAvailable
<1>3. CASE UpdateFailed(u)
  <2>1. row' \in Row
    BY <1>0, <1>3, WriteType DEF UpdateFailed
  <2>2. PcOK' /\ loc' \in [Procs -> Local]
    BY <1>0, <1>3, ReturnType DEF UpdateFailed
  <2> QED BY <1>3, <2>1, <2>2 DEF UpdateFailed
<1>4. CASE NoUpdateAvailable(u)
  <2>1. row' \in Row
    BY <1>0, <1>4, WriteType DEF NoUpdateAvailable
  <2>2. PcOK' /\ loc' \in [Procs -> Local]
    BY <1>0, <1>4, ReturnType DEF NoUpdateAvailable
  <2> QED BY <1>4, <2>1, <2>2 DEF NoUpdateAvailable
<1>5. CASE UpdateVersion(u)
  <2>1. PICK r \in Version : loc' = [loc EXCEPT ![u].rem = r]
    BY <1>5, ReadTypes DEF UpdateVersion
  <2>2. [loc[u] EXCEPT !.rem = r] \in Local
    BY <1>0 DEF Local
  <2>3. PcOK'
    BY <1>0, <1>5, GotoType DEF UpdateVersion
  <2> QED BY <1>5, <2>1, <2>2, <2>3 DEF UpdateVersion
<1>6. CASE UpdateDecide(u)
  <2>1. CASE UpToDate(u)
    <3>1. row' \in Row
      BY <1>0, <1>6, <2>1, WriteType DEF UpdateDecide
    <3>2. PcOK' /\ loc' \in [Procs -> Local]
      BY <1>0, <1>6, <2>1, ReturnType DEF UpdateDecide
    <3> QED BY <1>6, <3>1, <3>2 DEF UpdateDecide
  <2>2. CASE ~UpToDate(u)
    <3>1. PcOK'
      BY <1>0, <1>6, <2>2, GotoType DEF UpdateDecide
    <3> QED BY <1>6, <2>2, <3>1 DEF UpdateDecide
  <2> QED BY <2>1, <2>2
<1>7. CASE UpdateClean(u)
  <2>1. cache' \in [Path -> Cached] /\ loc' \in [Procs -> Local]
    BY <1>7, RemoveType DEF UpdateClean, Family
  <2>2. PcOK'
    BY <1>0, <1>7, GotoType DEF UpdateClean
  <2> QED BY <1>7, <2>1, <2>2 DEF UpdateClean
<1>8. CASE UpdateMkdir(u)
  <2>1. CASE UNCHANGED <<row, loc>>
    <3>1. PICK l \in {"get", "commit", "idle"} : Goto(u, l)
      BY <1>8 DEF UpdateMkdir, Return
    <3>2. PcOK'
      BY <1>0, <3>1, GotoType
    <3> QED BY <1>8, <2>1, <3>2 DEF UpdateMkdir
  <2>2. CASE Write(loc[u].cur, TRUE, FALSE) /\ Return(u)
    <3>1. row' \in Row
      BY <1>0, <2>2, WriteType
    <3>2. PcOK' /\ loc' \in [Procs -> Local]
      BY <1>0, <2>2, ReturnType
    <3> QED BY <1>8, <3>1, <3>2 DEF UpdateMkdir
  <2> QED BY <1>8, <2>1, <2>2 DEF UpdateMkdir
<1>9. CASE UpdateCommit(u)
  <2>1. row' \in Row
    BY <1>0, <1>9, WriteType DEF UpdateCommit
  <2>2. PcOK' /\ loc' \in [Procs -> Local]
    BY <1>0, <1>9, ReturnType DEF UpdateCommit
  <2> QED BY <1>9, <2>1, <2>2 DEF UpdateCommit
<1> QED BY <1>0, <1>1, <1>2, <1>3, <1>4, <1>5, <1>6, <1>7, <1>8, <1>9,
           DownloadTypeStep DEF UpdateStep

LEMMA CheckEndType ==
    ASSUME PcOK, loc \in [Procs -> Local], NEW h \in Handlers, CheckEnd(h)
    PROVE  PcOK' /\ loc' \in [Procs -> Local] /\ checkMu' = "none"
<1>1. PcOK'
  BY GotoType, ProcsAssumption
     DEF CheckEnd, Label, CheckLabels, RequestLabels, UpdateLabels
<1>2. [NoLoc EXCEPT !.path = loc[h].path] \in Local
  BY NoLocType DEF Local
<1> QED BY <1>1, <1>2 DEF CheckEnd

\* Type correctness of the steps of a request.
LEMMA RequestTypeStep ==
    ASSUME TypeOK, NEW h \in Handlers,
           Request(h) \/ CheckStart(h) \/ HandlerStep(h)
    PROVE  TypeOK'
<1> USE TypeOKParts, TypeOKNext
<1> USE DEF Label, DownloadLabels, CheckLabels, RequestLabels, UpdateLabels
<1>0. /\ h \in Procs /\ h \notin Updaters
      /\ loc[h] \in Local
  BY ProcsAssumption
<1>1. CASE Request(h)
  <2>1. PICK path \in Path : loc' = [loc EXCEPT ![h].path = path]
    BY <1>1 DEF Request
  <2>2. [loc[h] EXCEPT !.path = path] \in Local
    BY <1>0 DEF Local
  <2>3. PcOK'
    BY <1>0, <1>1, GotoType DEF Request
  <2> QED BY <1>1, <2>1, <2>2, <2>3 DEF Request
<1>2. CASE CheckStart(h)
  <2>1. PICK l \in {"current", "stat"} : Goto(h, l)
    BY <1>2 DEF CheckStart
  <2>2. PcOK'
    BY <1>0, <2>1, GotoType
  <2> QED BY <1>2, <2>2 DEF CheckStart
<1>3. CASE CheckCurrent(h)
  <2>1. PICK v \in VersionsRead :
           IF v = 0 THEN CheckEnd(h)
           ELSE /\ loc' = [loc EXCEPT ![h].cur = v]
                /\ Goto(h, "remote")
                /\ UNCHANGED checkMu
    BY <1>3 DEF CheckCurrent
  <2>2. CASE v = 0
    BY <1>3, <2>1, <2>2, CheckEndType DEF CheckCurrent
  <2>3. CASE v # 0
    <3>1. [loc[h] EXCEPT !.cur = v] \in Local
      BY <1>0, ReadTypes DEF Local
    <3>2. PcOK'
      BY <1>0, <2>1, <2>3, GotoType
    <3> QED BY <1>3, <2>1, <2>3, <3>1, <3>2 DEF CheckCurrent
  <2> QED BY <2>2, <2>3
<1>4. CASE CheckRemote(h)
  <2>1. CASE CheckEnd(h)
    BY <1>4, <2>1, CheckEndType DEF CheckRemote
  <2>2. CASE ~CheckEnd(h)
    <3>1. PICK r \in VersionBodies : /\ loc' = [loc EXCEPT ![h].rem = r]
                                     /\ Goto(h, "purge4")
                                     /\ UNCHANGED checkMu
      BY <1>4, <2>2 DEF CheckRemote
    <3>2. [loc[h] EXCEPT !.rem = r] \in Local
      BY <1>0, ReadTypes DEF Local
    <3>3. PcOK'
      BY <1>0, <3>1, GotoType
    <3> QED BY <1>4, <3>1, <3>2, <3>3 DEF CheckRemote
  <2> QED BY <2>1, <2>2
<1>5. CASE Purge(h)
  <2>1. cache' \in [Path -> Cached] /\ loc' \in [Procs -> Local]
    BY <1>5, RemoveType DEF Purge, Family
  <2>2. PcOK'
    BY <1>0, <1>5, GotoType DEF Purge
  <2> QED BY <1>5, <2>1, <2>2 DEF Purge
<1>6. CASE CheckRecord(h)
  <2>1. row' \in Row
    BY <1>0, <1>6, WriteType DEF CheckRecord, Local
  <2> QED BY <1>6, <2>1, CheckEndType DEF CheckRecord
<1>7. CASE ServeCached(h)
  BY <1>0, <1>7, ReturnType DEF ServeCached
<1>8. CASE Miss(h)
  <2>1. PcOK'
    BY <1>0, <1>8, GotoType DEF Miss
  <2> QED BY <1>8, <2>1 DEF Miss
<1>9. CASE ReadUrl(h)
  <2>1. CASE Return(h)
    BY <1>0, <1>9, <2>1, ReturnType DEF ReadUrl
  <2>2. CASE Goto(h, "get") /\ UNCHANGED loc
    <3>1. PcOK'
      BY <1>0, <2>2, GotoType
    <3> QED BY <1>9, <2>2, <3>1 DEF ReadUrl
  <2> QED BY <1>9, <2>1, <2>2 DEF ReadUrl
<1> QED BY <1>0, <1>1, <1>2, <1>3, <1>4, <1>5, <1>6, <1>7, <1>8, <1>9,
           DownloadTypeStep DEF HandlerStep

LEMMA EnvironmentTypeStep ==
    ASSUME TypeOK, Release \/ TtlExpires \/ Crash
    PROVE  TypeOK'
<1> USE TypeOKParts, TypeOKNext
<1>1. CASE Release
  <2>1. upstream' \in Version
    BY <1>1, BoundsAssumption DEF Release, Version
  <2> QED BY <1>1, <2>1 DEF Release, PcOK
<1>2. CASE TtlExpires
  BY <1>2 DEF TtlExpires, PcOK
<1>3. CASE Crash
  <2>1. \A path \in Path : [cache[path] EXCEPT !.fill = "lost"] \in Cached
    BY DEF Cached
  <2>2. cache' \in [Path -> Cached]
    BY <1>3, <2>1 DEF Crash
  <2>3. loc' \in [Procs -> Local]
    BY <1>3, NoLocType DEF Crash
  <2>4. PcOK'
    BY <1>3 DEF Crash, PcOK, Label, CheckLabels, RequestLabels, UpdateLabels
  <2> QED BY <1>3, <2>2, <2>3, <2>4 DEF Crash
<1> QED BY <1>1, <1>2, <1>3

LEMMA TypeInit == Init => TypeOK
<1> SUFFICES ASSUME Init PROVE TypeOK
  OBVIOUS
<1>1. 0 \in Version /\ 1 \in Version
  BY BoundsAssumption DEF Version
<1>2. \A v \in Version : \A b \in BOOLEAN : [ver |-> v, url |-> b, ok |-> b] \in Row
  BY DEF Row
<1>3. upstream \in Version /\ row \in Row
  BY <1>1, <1>2 DEF Init
<1>4. cache \in [Path -> Cached] /\ loc \in [Procs -> Local]
  BY NoLocType, NoFileType DEF Init
<1>5. PcOK
  BY DEF Init, PcOK, Label, CheckLabels, RequestLabels, UpdateLabels
<1> QED BY <1>3, <1>4, <1>5, TypeOKParts DEF Init

\* Every reachable state is of the expected shape.
THEOREM TypeCorrect == Spec => []TypeOK
<1>1. Init => TypeOK
  BY TypeInit
<1>2. TypeOK /\ [Next]_vars => TypeOK'
  <2> SUFFICES ASSUME TypeOK, [Next]_vars PROVE TypeOK'
    OBVIOUS
  <2>1. CASE UNCHANGED vars
    BY <2>1 DEF vars, TypeOK
  <2>2. CASE Next
    BY <2>2, UpdateTypeStep, RequestTypeStep, EnvironmentTypeStep DEF Next
  <2> QED BY <2>1, <2>2
<1> QED BY <1>1, <1>2, PTL DEF Spec

----------------------------------------------------------------------------
(* The check of CheckAndPurgeShieldMatrixCache is one transaction.         *)

\* A step of an update run touches neither the mutex nor any request.
LEMMA UpdateLeavesRequests ==
    ASSUME PcOK, NEW u \in Updaters, UpdateStep(u)
    PROVE  checkMu' = checkMu /\ \A h \in Handlers : pc'[h] = pc[h]
<1>1. u \notin Handlers
  BY ProcsAssumption
<1>2. \E l : pc' = [pc EXCEPT ![u] = l]
  BY DEF UpdateStep, UpdateStart, UpdateAvailable, UpdateFailed, NoUpdateAvailable,
         UpdateVersion, UpdateDecide, UpdateClean, UpdateMkdir, UpdateCommit,
         Get, Create, Downloaded, DownloadFailed, NextFile, NextFamily, Return, Goto
<1>3. checkMu' = checkMu
  BY DEF UpdateStep, UpdateStart, UpdateAvailable, UpdateFailed, NoUpdateAvailable,
         UpdateVersion, UpdateDecide, UpdateClean, UpdateMkdir, UpdateCommit,
         Get, Create, Downloaded, DownloadFailed
<1> QED BY <1>1, <1>2, <1>3 DEF PcOK

\* Steps of a request outside the check, and the other requests, stay outside.
PlainStep(h) ==
    Request(h) \/ ServeCached(h) \/ Miss(h) \/ ReadUrl(h)
    \/ Get(h) \/ Create(h) \/ Downloaded(h) \/ DownloadFailed(h)

LEMMA PlainStepOutside ==
    ASSUME PcOK, NEW h \in Handlers, PlainStep(h)
    PROVE  /\ checkMu' = checkMu
           /\ pc[h] \notin CheckLabels
           /\ \E l \in Label \ CheckLabels : pc' = [pc EXCEPT ![h] = l]
<1> USE DEF Label, DownloadLabels, CheckLabels, RequestLabels, UpdateLabels
<1>1. h \notin Updaters
  BY ProcsAssumption
<1>2. CASE Request(h)
  BY <1>2 DEF Request, Goto
<1>3. CASE ServeCached(h) \/ Miss(h)
  BY <1>3 DEF ServeCached, Miss, Goto, Return
<1>4. CASE ReadUrl(h)
  BY <1>4 DEF ReadUrl, Goto, Return
<1>5. CASE Get(h) \/ Create(h)
  BY <1>5 DEF Get, Create, Goto
<1>6. CASE Downloaded(h)
  BY <1>1, <1>6 DEF Downloaded, Return, Goto
<1>7. CASE DownloadFailed(h)
  BY <1>1, <1>7 DEF DownloadFailed, Return, Goto
<1> QED BY <1>2, <1>3, <1>4, <1>5, <1>6, <1>7 DEF PlainStep

\* Steps inside the check are those of the owner of the mutex.
CheckStep(h) == CheckCurrent(h) \/ CheckRemote(h) \/ Purge(h) \/ CheckRecord(h)

LEMMA CheckStepInside ==
    ASSUME PcOK, NEW h \in Handlers, CheckStep(h)
    PROVE  /\ pc[h] \in CheckLabels
           /\ \/ /\ checkMu' = checkMu
                 /\ \E l \in CheckLabels : pc' = [pc EXCEPT ![h] = l]
              \/ /\ checkMu' = "none"
                 /\ pc' = [pc EXCEPT ![h] = "stat"]
<1> USE DEF CheckLabels
<1>1. CASE CheckCurrent(h)
  BY <1>1 DEF CheckCurrent, CheckEnd, Goto
<1>2. CASE CheckRemote(h)
  BY <1>2 DEF CheckRemote, CheckEnd, Goto
<1>3. CASE Purge(h)
  BY <1>3 DEF Purge, Goto
<1>4. CASE CheckRecord(h)
  BY <1>4 DEF CheckRecord, CheckEnd, Goto
<1> QED BY <1>1, <1>2, <1>3, <1>4 DEF CheckStep

LEMMA ExclusiveStep ==
    ASSUME TypeOK, CheckExclusive, [Next]_vars
    PROVE  CheckExclusive'
<1>0. PcOK /\ pc \in [Procs -> Label] /\ "none" \notin Handlers
  BY TypeOKParts, ProcsAssumption DEF PcOK
<1>1. ASSUME NEW u \in Updaters, UpdateStep(u)
      PROVE  CheckExclusive'
  BY <1>0, <1>1, UpdateLeavesRequests DEF CheckExclusive
<1>2. ASSUME NEW h \in Handlers, PlainStep(h)
      PROVE  CheckExclusive'
  BY <1>0, <1>2, PlainStepOutside DEF CheckExclusive
<1>3. ASSUME NEW h \in Handlers, CheckStart(h)
      PROVE  CheckExclusive'
  <2>1. \/ checkMu' = h /\ pc' = [pc EXCEPT ![h] = "current"]
        \/ checkMu' = "none" /\ pc' = [pc EXCEPT ![h] = "stat"]
    BY <1>3 DEF CheckStart, Goto
  <2>2. checkMu = "none"
    BY <1>3 DEF CheckStart
  <2> QED BY <1>0, <2>1, <2>2 DEF CheckExclusive, CheckLabels
<1>4. ASSUME NEW h \in Handlers, CheckStep(h)
      PROVE  CheckExclusive'
  BY <1>0, <1>4, CheckStepInside DEF CheckExclusive, CheckLabels
<1>5. CASE Release \/ TtlExpires \/ UNCHANGED vars
  BY <1>5 DEF Release, TtlExpires, vars, CheckExclusive
<1>6. CASE Crash
  BY <1>0, <1>6 DEF Crash, CheckExclusive, CheckLabels
<1> QED BY <1>1, <1>2, <1>3, <1>4, <1>5, <1>6
        DEF Next, HandlerStep, PlainStep, CheckStep

\* At most one request at a time is inside the check, the mutex's owner.
THEOREM CheckExclusion == Spec => []CheckExclusive
<1>1. Init => CheckExclusive
  BY ProcsAssumption DEF Init, CheckExclusive, CheckLabels
<1>2. TypeOK /\ CheckExclusive /\ [Next]_vars => CheckExclusive'
  BY ExclusiveStep
<1> QED BY <1>1, <1>2, TypeCorrect, PTL DEF Spec

LEMMA AtomicStep ==
    ASSUME TypeOK, CheckExclusive, CheckAtomic, [Next]_vars
    PROVE  CheckAtomic'
<1> SUFFICES ASSUME Updaters = {}, "db" \notin Faults
             PROVE  \A h \in Handlers :
                       pc'[h] \in CheckLabels \ {"current"} => loc'[h].cur = row'.ver
  BY DEF CheckAtomic
<1>0. /\ PcOK /\ pc \in [Procs -> Label] /\ loc \in [Procs -> Local] /\ row \in Row
      /\ "none" \notin Handlers
      /\ \A h \in Handlers : pc[h] \in CheckLabels \ {"current"} => loc[h].cur = row.ver
  BY TypeOKParts, ProcsAssumption DEF PcOK, CheckAtomic
<1>1. ASSUME NEW g \in Handlers, PlainStep(g)
      PROVE  \A h \in Handlers :
                pc'[h] \in CheckLabels \ {"current"} => loc'[h].cur = row'.ver
  <2>1. row' = row
    BY <1>1 DEF PlainStep, Request, ServeCached, Miss, ReadUrl, Get, Create,
                Downloaded, DownloadFailed
  <2>2. g \notin Updaters
    OBVIOUS
  <2>3. \A h \in Handlers \ {g} : loc'[h] = loc[h]
    BY <1>0, <1>1, <2>2 DEF PlainStep, Request, ServeCached, Miss, ReadUrl, Get,
                Create, Downloaded, DownloadFailed, Return
  <2> QED BY <1>0, <1>1, <2>1, <2>3, PlainStepOutside
<1>2. ASSUME NEW g \in Handlers, CheckStart(g)
      PROVE  \A h \in Handlers :
                pc'[h] \in CheckLabels \ {"current"} => loc'[h].cur = row'.ver
  <2>1. row' = row /\ loc' = loc
    BY <1>2 DEF CheckStart
  <2>2. \E l \in {"current", "stat"} : pc' = [pc EXCEPT ![g] = l]
    BY <1>2 DEF CheckStart, Goto
  <2> QED BY <1>0, <2>1, <2>2 DEF CheckLabels
<1>3. ASSUME NEW g \in Handlers, CheckStep(g)
      PROVE  \A h \in Handlers :
                pc'[h] \in CheckLabels \ {"current"} => loc'[h].cur = row'.ver
  <2>0. pc[g] \in CheckLabels /\ \A h \in Handlers \ {g} : pc[h] \notin CheckLabels
    BY <1>3, <1>0, CheckStepInside DEF CheckExclusive
  <2>1. \A h \in Handlers \ {g} : pc'[h] \notin CheckLabels
    BY <1>0, <1>3, <2>0, CheckStepInside
  <2>2. pc'[g] \in CheckLabels \ {"current"} => loc'[g].cur = row'.ver
    <3>1. CASE CheckCurrent(g)
      <4>1. VersionsRead = {row.ver}
        BY DEF VersionsRead, OrOn
      <4>2. \/ pc' = [pc EXCEPT ![g] = "stat"]
            \/ loc' = [loc EXCEPT ![g].cur = row.ver]
        BY <3>1, <4>1 DEF CheckCurrent, CheckEnd, Goto
      <4>3. row' = row
        BY <3>1 DEF CheckCurrent
      <4> QED BY <1>0, <4>2, <4>3 DEF CheckLabels, Local
    <3>2. CASE CheckRemote(g)
      <4>1. \/ pc' = [pc EXCEPT ![g] = "stat"]
            \/ \E r : loc' = [loc EXCEPT ![g].rem = r]
        BY <3>2 DEF CheckRemote, CheckEnd, Goto
      <4>2. row' = row /\ pc[g] = "remote"
        BY <3>2 DEF CheckRemote
      <4> QED BY <1>0, <4>1, <4>2 DEF CheckLabels, Local
    <3>3. CASE Purge(g)
      <4>1. loc'[g].cur = loc[g].cur
        BY <1>0, <3>3 DEF Purge, RemoveFamily, Local
      <4>2. row' = row /\ pc[g] \in {"purge4", "purge6"}
        BY <3>3 DEF Purge
      <4> QED BY <1>0, <4>1, <4>2 DEF CheckLabels
    <3>4. CASE CheckRecord(g)
      BY <1>0, <3>4 DEF CheckRecord, CheckEnd, Goto, CheckLabels
    <3> QED BY <1>3, <3>1, <3>2, <3>3, <3>4 DEF CheckStep
  <2> QED BY <2>1, <2>2
<1>4. CASE Release \/ TtlExpires \/ UNCHANGED vars
  BY <1>0, <1>4 DEF Release, TtlExpires, vars
<1>5. CASE Crash
  BY <1>5 DEF Crash, CheckLabels
<1> QED BY <1>1, <1>2, <1>3, <1>4, <1>5 DEF Next, HandlerStep, PlainStep, CheckStep

\* Between requests the mutex makes reading the version, asking the
\* upstream, purging and recording one transaction.
THEOREM CheckTransaction == Spec => []CheckAtomic
<1>1. Init => CheckAtomic
  BY DEF Init, CheckAtomic, CheckLabels
<1>2. TypeOK /\ CheckExclusive /\ CheckAtomic /\ [Next]_vars => CheckAtomic'
  BY AtomicStep
<1> QED BY <1>1, <1>2, TypeCorrect, CheckExclusion, PTL DEF Spec

----------------------------------------------------------------------------
(* A file that is not whole has its writer.                                *)

\* Only p moves, and it is not copying: the files and their writers stay.
Aside(p) ==
    /\ pc[p] # "copy"
    /\ cache' = cache
    /\ \A q \in Procs \ {p} : pc'[q] = pc[q] /\ loc'[q] = loc[q]

LEMMA AsideKeepsWriters ==
    ASSUME TornHasWriter, NEW p \in Procs, Aside(p)
    PROVE  TornHasWriter'
BY DEF TornHasWriter, Aside

LEMMA UpdateAside ==
    ASSUME TypeOK, NEW u \in Updaters,
           \/ UpdateStart(u) \/ UpdateAvailable(u) \/ UpdateFailed(u)
           \/ NoUpdateAvailable(u) \/ UpdateVersion(u) \/ UpdateDecide(u)
           \/ UpdateMkdir(u) \/ UpdateCommit(u)
    PROVE  Aside(u)
<1>1. pc \in [Procs -> Label] /\ loc \in [Procs -> Local]
  BY TypeOKParts DEF PcOK
<1> QED BY <1>1 DEF UpdateStart, UpdateAvailable, UpdateFailed, NoUpdateAvailable,
        UpdateVersion, UpdateDecide, UpdateMkdir, UpdateCommit, Return, Goto, Aside

LEMMA RequestAside ==
    ASSUME TypeOK, NEW h \in Handlers,
           \/ Request(h) \/ CheckStart(h) \/ CheckCurrent(h) \/ CheckRemote(h)
           \/ CheckRecord(h) \/ ServeCached(h) \/ Miss(h) \/ ReadUrl(h)
    PROVE  Aside(h)
<1>1. pc \in [Procs -> Label] /\ loc \in [Procs -> Local]
  BY TypeOKParts DEF PcOK
<1> QED BY <1>1 DEF Request, CheckStart, CheckCurrent, CheckRemote, CheckRecord,
        CheckEnd, ServeCached, Miss, ReadUrl, Return, Goto, Aside

\* RemoveAll takes the files and detaches those who write into them.
LEMMA RemoveKeepsWriters ==
    ASSUME TypeOK, TornHasWriter, NEW p \in Procs, NEW f \in Family, NEW l \in Label,
           pc[p] # "copy", RemoveFamily(f), Goto(p, l)
    PROVE  TornHasWriter'
<1>1. pc \in [Procs -> Label] /\ loc \in [Procs -> Local]
  BY TypeOKParts DEF PcOK
<1>2. PICK gone : /\ cache' = [path \in Path |-> IF path \in gone THEN NoFile ELSE cache[path]]
                  /\ loc' = [q \in Procs |->
                                [loc[q] EXCEPT !.fd = @ /\ loc[q].path \notin gone]]
  BY DEF RemoveFamily
<1> SUFFICES ASSUME NEW path \in Path
             PROVE  /\ \A w \in Procs : cache'[path].fill = w =>
                           pc'[w] = "copy" /\ loc'[w].fd /\ loc'[w].path = path
                    /\ cache'[path].fill = "lost" => Faults \cap {"copy", "crash"} # {}
  BY DEF TornHasWriter
<1>3. CASE path \in gone
  BY <1>2, <1>3, ProcsAssumption DEF NoFile
<1>4. CASE path \notin gone
  <2>1. cache'[path] = cache[path]
    BY <1>2, <1>4
  <2>2. ASSUME NEW w \in Procs, cache[path].fill = w
        PROVE  pc'[w] = "copy" /\ loc'[w].fd /\ loc'[w].path = path
    <3>1. pc[w] = "copy" /\ loc[w].fd /\ loc[w].path = path
      BY <2>2 DEF TornHasWriter
    <3>2. pc'[w] = "copy"
      BY <1>1, <3>1 DEF Goto
    <3>3. loc'[w] = [loc[w] EXCEPT !.fd = @ /\ path \notin gone]
      BY <1>2, <3>1
    <3> QED BY <1>1, <1>4, <3>1, <3>2, <3>3 DEF Local
  <2> QED BY <2>1, <2>2 DEF TornHasWriter
<1> QED BY <1>3, <1>4

\* The end of a copy: afterwards no file waits for p.
LEMMA FilledKeepsWriters ==
    ASSUME TypeOK, TornHasWriter, NEW p \in Procs, NEW o \in {"whole", "lost"},
           pc[p] = "copy", Filled(p, o), o = "lost" => "copy" \in Faults,
           \A q \in Procs \ {p} : pc'[q] = pc[q] /\ loc'[q] = loc[q]
    PROVE  TornHasWriter'
<1>1. cache \in [Path -> Cached] /\ o \notin Procs
  BY TypeOKParts, ProcsAssumption
<1>2. \A path \in Path : cache'[path].fill # p
  BY <1>1 DEF TornHasWriter, Filled, Cached
<1>3. \A path \in Path : cache'[path].fill \in {cache[path].fill, o}
  BY <1>1 DEF Filled, Cached
<1> QED BY <1>1, <1>2, <1>3 DEF TornHasWriter

LEMMA DownloadKeepsWriters ==
    ASSUME TypeOK, TornHasWriter, NEW p \in Procs,
           Get(p) \/ Create(p) \/ Downloaded(p) \/ DownloadFailed(p)
    PROVE  TornHasWriter'
<1>1. /\ pc \in [Procs -> Label] /\ loc \in [Procs -> Local]
      /\ cache \in [Path -> Cached] /\ loc[p].path \in Path
  BY TypeOKParts DEF PcOK, Local
<1>2. \A q \in Procs \ {p} : pc'[q] = pc[q] /\ loc'[q] = loc[q]
  BY <1>1 DEF Get, Create, Downloaded, DownloadFailed, NextFile, NextFamily, Return, Goto
<1>3. CASE Get(p)
  <2>1. Aside(p)
    BY <1>2, <1>3 DEF Get, Aside
  <2> QED BY <2>1, AsideKeepsWriters
<1>4. CASE Create(p)
  <2>1. pc[p] # "copy" /\ pc'[p] = "copy" /\ loc'[p].fd /\ loc'[p].path = loc[p].path
    BY <1>1, <1>4 DEF Create, Goto, Local
  <2>2. \A path \in Path \ {loc[p].path} : cache'[path] = cache[path]
    BY <1>1, <1>4 DEF Create
  <2>3. cache'[loc[p].path].fill = p
    BY <1>1, <1>4 DEF Create
  <2>4. p # "lost"
    BY ProcsAssumption
  <2> QED BY <1>2, <2>1, <2>2, <2>3, <2>4 DEF TornHasWriter
<1>5. CASE Downloaded(p)
  BY <1>2, <1>5, FilledKeepsWriters DEF Downloaded
<1>6. CASE DownloadFailed(p)
  <2>1. CASE pc[p] = "copy" /\ "copy" \in Faults /\ Filled(p, "lost")
    BY <1>2, <2>1, FilledKeepsWriters
  <2>2. CASE pc[p] # "copy" /\ UNCHANGED cache
    BY <1>2, <2>2, AsideKeepsWriters DEF Aside
  <2> QED BY <1>6, <2>1, <2>2 DEF DownloadFailed
<1> QED BY <1>3, <1>4, <1>5, <1>6

\* Parts of files are always being completed, unless a transfer broke off.
THEOREM TornFilesHaveWriters == Spec => []TornHasWriter
<1>1. Init => TornHasWriter
  BY ProcsAssumption DEF Init, TornHasWriter, NoFile
<1>2. TypeOK /\ TornHasWriter /\ [Next]_vars => TornHasWriter'
  <2> SUFFICES ASSUME TypeOK, TornHasWriter, [Next]_vars
               PROVE  TornHasWriter'
    OBVIOUS
  <2>1. ASSUME NEW u \in Updaters, UpdateStep(u)
        PROVE  TornHasWriter'
    <3>1. CASE UpdateClean(u)
      BY <3>1, RemoveKeepsWriters DEF UpdateClean, Family, Label, UpdateLabels
    <3> QED BY <2>1, <3>1, UpdateAside, AsideKeepsWriters, DownloadKeepsWriters
            DEF UpdateStep
  <2>2. ASSUME NEW h \in Handlers, Request(h) \/ CheckStart(h) \/ HandlerStep(h)
        PROVE  TornHasWriter'
    <3>1. CASE Purge(h)
      BY <3>1, RemoveKeepsWriters DEF Purge, Family, Label, CheckLabels
    <3> QED BY <2>2, <3>1, RequestAside, AsideKeepsWriters, DownloadKeepsWriters
            DEF HandlerStep
  <2>3. CASE Release \/ TtlExpires \/ UNCHANGED vars
    BY <2>3 DEF Release, TtlExpires, vars, TornHasWriter
  <2>4. CASE Crash
    BY <2>4, ProcsAssumption, TypeOKParts DEF Crash, TornHasWriter, Cached
  <2> QED BY <2>1, <2>2, <2>3, <2>4 DEF Next
<1> QED BY <1>1, <1>2, TypeCorrect, PTL DEF Spec

----------------------------------------------------------------------------
(* No file older than the row.  True of one update run at a time, without  *)
(* requests and with a RemoveAll that works: a request may write what it   *)
(* got before the files were removed, another run remove what was not yet  *)
(* replaced, and a file that cannot be removed stays.                      *)

UpdaterAlone ==
    /\ Handlers = {}
    /\ \A u, w \in Updaters : u = w
    /\ "remove" \notin Faults

\* No file holds anything older than v.
NoneOlder(v) == \A path \in Path : \A w \in cache[path].vers : w >= v

Emptied(f) == \A path \in Path : path[1] = f => cache[path].vers = {}

\* What a run knows of row, upstream and files, where it is.
Renews(u) ==
    /\ loc[u].cur <= row.ver
    /\ loc[u].rem <= upstream
    /\ pc[u] = "clean6" => Emptied("ipv4")
    /\ pc[u] = "mkdir" => Emptied("ipv4") /\ Emptied("ipv6")
    /\ pc[u] \in DownloadLabels \cup {"commit"} => NoneOlder(loc[u].rem)
    /\ pc[u] = "create" => loc[u].got >= loc[u].rem /\ loc[u].got >= row.ver

AloneInv ==
    /\ TypeOK
    /\ row.ver <= upstream
    /\ NoneOlder(row.ver)
    /\ \A u \in Updaters : Renews(u)

\* The numbers compared are numbers.
LEMMA VersionsAreNumbers ==
    ASSUME TypeOK
    PROVE  /\ row.ver \in Nat /\ upstream \in Nat /\ Version \subseteq Nat
           /\ \A path \in Path : cache[path].vers \subseteq Nat
           /\ \A p \in Procs : loc[p].cur \in Nat /\ loc[p].rem \in Nat /\ loc[p].got \in Nat
<1>1. Version \subseteq Nat
  BY BoundsAssumption DEF Version
<1>2. /\ row.ver \in Version /\ upstream \in Version
      /\ \A path \in Path : cache[path].vers \subseteq Version
      /\ \A p \in Procs : loc[p].cur \in Version /\ loc[p].rem \in Version /\ loc[p].got \in Version
  BY TypeOKParts DEF Row, Cached, Local
<1> QED BY <1>1, <1>2

\* What is left to show of a step: a run that is alone is every run.
LEMMA AloneIsAll ==
    ASSUME UpdaterAlone, NEW u \in Updaters, Renews(u)'
    PROVE  \A w \in Updaters : Renews(w)'
BY DEF UpdaterAlone

\* A run returns, having written the version it began with or none.
LEMMA BackOut ==
    ASSUME UpdaterAlone, AloneInv, TypeOK', NEW u \in Updaters, Return(u),
           row'.ver <= row.ver, UNCHANGED <<upstream, cache>>
    PROVE  AloneInv'
<1>1. /\ row.ver \in Nat /\ row'.ver \in Nat /\ upstream \in Nat
      /\ \A path \in Path : cache[path].vers \subseteq Nat
  <2>1. row'.ver \in Nat
    BY BoundsAssumption DEF TypeOK, Version
  <2> QED BY <2>1, VersionsAreNumbers DEF AloneInv
<1>2. loc'[u] = NoLoc /\ pc'[u] = "idle"
  BY TypeOKParts DEF Return, Goto, AloneInv, PcOK
<1>3. Renews(u)'
  BY <1>1, <1>2 DEF Renews, NoLoc, DownloadLabels
<1>4. NoneOlder(row.ver)'
  BY <1>1 DEF AloneInv, NoneOlder
<1> QED BY <1>1, <1>3, <1>4, AloneIsAll DEF AloneInv

LEMMA WrittenVersion ==
    ASSUME NEW v, NEW u, NEW s, Write(v, u, s)
    PROVE  row'.ver \in {v, row.ver}
BY DEF Write, OrOn

\* A failure, no update, nothing new, and no directory.
LEMMA BackOutSteps ==
    ASSUME UpdaterAlone, AloneInv, TypeOK', NEW u \in Updaters, Return(u),
           NEW url, NEW ok, Write(loc[u].cur, url, ok), UNCHANGED <<upstream, cache>>
    PROVE  AloneInv'
<1>1. row'.ver \in {loc[u].cur, row.ver} /\ loc[u].cur <= row.ver /\ row.ver \in Nat
  BY WrittenVersion, VersionsAreNumbers DEF AloneInv, Renews
<1>2. row'.ver <= row.ver
  BY <1>1
<1> QED BY <1>2, BackOut

\* With RemoveAll working, a directory is empty after it and the other the same.
LEMMA RemoveEmpties ==
    ASSUME TypeOK, "remove" \notin Faults, NEW f \in Family, RemoveFamily(f)
    PROVE  /\ \A path \in Path :
                 cache'[path].vers = IF path[1] = f THEN {} ELSE cache[path].vers
           /\ \A p \in Procs : /\ loc'[p].cur = loc[p].cur /\ loc'[p].rem = loc[p].rem
                                /\ loc'[p].got = loc[p].got
<1>1. /\ cache' = [path \in Path |-> IF path \in FilesOf(f) THEN NoFile ELSE cache[path]]
      /\ loc' = [p \in Procs |-> [loc[p] EXCEPT !.fd = @ /\ loc[p].path \notin FilesOf(f)]]
  BY DEF RemoveFamily
<1>2. \A path \in Path : path \in FilesOf(f) <=> path[1] = f
  BY DEF Path, FilesOf
<1>3. loc \in [Procs -> Local]
  BY TypeOKParts
<1>4. \A p \in Procs : /\ loc'[p].cur = loc[p].cur /\ loc'[p].rem = loc[p].rem
                       /\ loc'[p].got = loc[p].got
  BY <1>1, <1>3 DEF Local
<1> QED BY <1>1, <1>2, <1>4 DEF NoFile

\* While files come in, none is older than the version to be recorded.
LEMMA DownloadRenews ==
    ASSUME UpdaterAlone, AloneInv, TypeOK', NEW u \in Updaters,
           Get(u) \/ Create(u) \/ Downloaded(u) \/ DownloadFailed(u)
    PROVE  AloneInv'
<1>0. /\ TypeOK /\ u \in Procs /\ loc[u] \in Local /\ loc[u].path \in Path /\ Renews(u)
      /\ pc \in [Procs -> Label] /\ loc \in [Procs -> Local] /\ cache \in [Path -> Cached]
      /\ row.ver \in Nat /\ upstream \in Nat /\ loc[u].rem \in Nat /\ loc[u].got \in Nat
      /\ NoneOlder(row.ver) /\ row.ver <= upstream
  BY TypeOKParts, VersionsAreNumbers DEF AloneInv, PcOK, Local
<1>1. UNCHANGED <<upstream, row>>
  BY DEF Get, Create, Downloaded, DownloadFailed
<1>2. CASE Get(u)
  <2>1. /\ loc'[u].cur = loc[u].cur /\ loc'[u].rem = loc[u].rem
        /\ loc'[u].got = upstream /\ pc'[u] = "create" /\ cache' = cache /\ pc[u] = "get"
    BY <1>0, <1>2 DEF Get, Goto, Local
  <2>2. Renews(u)'
    BY <1>0, <1>1, <2>1 DEF Renews, DownloadLabels, NoneOlder
  <2> QED BY <1>0, <1>1, <2>1, <2>2, AloneIsAll DEF AloneInv, NoneOlder
<1>3. CASE Create(u)
  <2>1. /\ loc'[u].cur = loc[u].cur /\ loc'[u].rem = loc[u].rem /\ pc'[u] = "copy"
        /\ pc[u] = "create"
    BY <1>0, <1>3 DEF Create, Goto, Local
  <2>2. CopiedInto(loc[u].path, u) = {}
    BY DEF CopiedInto, UpdaterAlone
  <2>3. \A path \in Path : cache'[path].vers \in {{loc[u].got}, cache[path].vers}
    BY <1>0, <1>3, <2>2 DEF Create
  <2>4. loc[u].got >= loc[u].rem /\ loc[u].got >= row.ver /\ NoneOlder(loc[u].rem)
    BY <1>0, <2>1 DEF Renews, DownloadLabels
  <2>5. NoneOlder(row.ver)'
    BY <1>0, <1>1, <2>3, <2>4 DEF NoneOlder
  <2>6. \A path \in Path : \A w \in cache'[path].vers : w >= loc[u].rem
    BY <1>0, <2>3, <2>4 DEF NoneOlder
  <2>7. Renews(u)'
    BY <1>0, <1>1, <2>1, <2>6 DEF Renews, NoneOlder
  <2> QED BY <1>0, <1>1, <2>5, <2>7, AloneIsAll DEF AloneInv
<1>4. CASE Downloaded(u) \/ DownloadFailed(u)
  <2>1. \A path \in Path : cache'[path].vers = cache[path].vers
    BY <1>0, <1>4 DEF Downloaded, DownloadFailed, Filled, Cached
  <2>2. NextFile(u) \/ NextFamily(u)
    BY <1>4 DEF Downloaded, DownloadFailed
  <2>3. /\ loc'[u].cur = loc[u].cur /\ loc'[u].rem = loc[u].rem
        /\ pc'[u] \in {"get", "commit"} /\ pc[u] \in DownloadLabels
    <3>1. pc[u] \in DownloadLabels
      BY <1>4 DEF Downloaded, DownloadFailed, DownloadLabels
    <3>2. pc'[u] \in {"get", "commit"}
      BY <1>0, <2>2 DEF NextFile, NextFamily, Goto
    <3>3. loc'[u].cur = loc[u].cur /\ loc'[u].rem = loc[u].rem
      <4>1. \E path : \/ loc'[u] = [loc[u] EXCEPT !.path = path, !.got = 0, !.fd = FALSE]
                      \/ loc'[u] = [loc[u] EXCEPT !.got = 0, !.fd = FALSE]
        BY <1>0, <2>2 DEF NextFile, NextFamily
      <4> QED BY <1>0, <4>1 DEF Local
    <3> QED BY <3>1, <3>2, <3>3
  <2>4. Renews(u)'
    BY <1>0, <1>1, <2>1, <2>3 DEF Renews, NoneOlder
  <2>5. NoneOlder(row.ver)'
    BY <1>0, <1>1, <2>1 DEF NoneOlder
  <2> QED BY <1>0, <1>1, <2>4, <2>5, AloneIsAll DEF AloneInv
<1> QED BY <1>2, <1>3, <1>4

\* The steps before and after the downloads.
LEMMA RunRenews ==
    ASSUME UpdaterAlone, AloneInv, TypeOK', NEW u \in Updaters, UpdateStep(u)
    PROVE  AloneInv'
<1>0. /\ TypeOK /\ u \in Procs /\ loc[u] \in Local /\ Renews(u)
      /\ pc \in [Procs -> Label] /\ loc \in [Procs -> Local]
      /\ row.ver \in Nat /\ upstream \in Nat /\ loc[u].rem \in Nat /\ loc[u].cur \in Nat
      /\ NoneOlder(row.ver) /\ row.ver <= upstream
  BY TypeOKParts, VersionsAreNumbers DEF AloneInv, PcOK
<1>1. CASE Get(u) \/ Create(u) \/ Downloaded(u) \/ DownloadFailed(u)
  BY <1>1, DownloadRenews
<1>2. CASE UpdateFailed(u) \/ NoUpdateAvailable(u)
  BY <1>2, BackOutSteps DEF UpdateFailed, NoUpdateAvailable
\* Steps that touch neither row nor files.
<1>3. ASSUME UNCHANGED <<upstream, row, cache>>, loc'[u].cur <= row.ver,
             loc'[u].rem <= upstream, pc'[u] \in {"check", "version", "decide", "clean4"}
      PROVE  AloneInv'
  <2>1. Renews(u)'
    BY <1>3 DEF Renews, DownloadLabels
  <2> QED BY <1>0, <1>3, <2>1, AloneIsAll DEF AloneInv, NoneOlder
<1>4. CASE UpdateStart(u)
  <2>1. PICK v \in {row.ver, 0} : loc' = [loc EXCEPT ![u].cur = v]
    BY <1>4 DEF UpdateStart, VersionsRead, OrOn
  <2>2. loc'[u].cur = v /\ loc'[u].rem = loc[u].rem /\ pc'[u] = "check"
    BY <1>0, <1>4, <2>1 DEF UpdateStart, Goto, Local
  <2> QED BY <1>0, <1>3, <1>4, <2>2 DEF UpdateStart, Renews
<1>5. CASE UpdateAvailable(u)
  <2>1. pc'[u] = "version" /\ loc' = loc
    BY <1>0, <1>5 DEF UpdateAvailable, Goto
  <2> QED BY <1>0, <1>3, <1>5, <2>1 DEF UpdateAvailable, Renews
<1>6. CASE UpdateVersion(u)
  <2>1. PICK r \in {upstream, 0} : loc' = [loc EXCEPT ![u].rem = r]
    BY <1>6 DEF UpdateVersion, VersionBodies, OrOn
  <2>2. loc'[u].cur = loc[u].cur /\ loc'[u].rem = r /\ pc'[u] = "decide"
    BY <1>0, <1>6, <2>1 DEF UpdateVersion, Goto, Local
  <2> QED BY <1>0, <1>3, <1>6, <2>2 DEF UpdateVersion, Renews
<1>7. CASE UpdateDecide(u)
  <2>1. CASE UpToDate(u)
    BY <1>7, <2>1, BackOutSteps DEF UpdateDecide
  <2>2. CASE ~UpToDate(u)
    <3>1. pc'[u] = "clean4" /\ loc' = loc
      BY <1>0, <1>7, <2>2 DEF UpdateDecide, Goto
    <3> QED BY <1>0, <1>3, <1>7, <2>2, <3>1 DEF UpdateDecide, Renews
  <2> QED BY <2>1, <2>2
<1>8. CASE UpdateClean(u)
  <2>1. PICK f \in Family :
           /\ RemoveFamily(f)
           /\ \/ f = "ipv4" /\ pc'[u] = "clean6"
              \/ f = "ipv6" /\ pc'[u] = "mkdir" /\ pc[u] = "clean6"
    BY <1>0, <1>8 DEF UpdateClean, Family, Goto
  <2>2. /\ \A path \in Path :
              cache'[path].vers = IF path[1] = f THEN {} ELSE cache[path].vers
        /\ loc'[u].cur = loc[u].cur /\ loc'[u].rem = loc[u].rem
    BY <1>0, <2>1, RemoveEmpties DEF UpdaterAlone
  <2>3. UNCHANGED <<upstream, row>>
    BY <1>8 DEF UpdateClean
  <2>4. Renews(u)'
    BY <1>0, <2>1, <2>2, <2>3 DEF Renews, Emptied, DownloadLabels
  <2>5. NoneOlder(row.ver)'
    BY <1>0, <2>2, <2>3 DEF NoneOlder
  <2> QED BY <1>0, <2>3, <2>4, <2>5, AloneIsAll DEF AloneInv
<1>9. CASE UpdateMkdir(u)
  <2>1. CASE Write(loc[u].cur, TRUE, FALSE) /\ Return(u)
    BY <1>9, <2>1, BackOutSteps DEF UpdateMkdir
  <2>2. CASE Goto(u, IF Preload THEN "get" ELSE "commit") /\ UNCHANGED <<row, loc>>
    <3>1. pc'[u] \in {"get", "commit"} /\ pc[u] = "mkdir" /\ UNCHANGED <<upstream, cache>>
      BY <1>0, <1>9, <2>2 DEF UpdateMkdir, Goto
    <3>2. \A path \in Path : cache[path].vers = {}
      BY <1>0, <3>1, FirstFile DEF Renews, Emptied, Family
    <3>3. Renews(u)'
      BY <1>0, <2>2, <3>1, <3>2 DEF Renews, NoneOlder
    <3> QED BY <1>0, <2>2, <3>1, <3>3, AloneIsAll DEF AloneInv, NoneOlder
  <2> QED BY <1>9, <2>1, <2>2 DEF UpdateMkdir
<1>10. CASE UpdateCommit(u)
  <2>1. row'.ver \in {loc[u].rem, row.ver} /\ UNCHANGED <<upstream, cache>>
    BY <1>10, WrittenVersion DEF UpdateCommit
  <2>2. NoneOlder(loc[u].rem)
    BY <1>0, <1>10 DEF UpdateCommit, Renews
  <2>3. loc'[u] = NoLoc /\ pc'[u] = "idle"
    BY <1>0, <1>10 DEF UpdateCommit, Return, Goto
  <2>4. Renews(u)'
    BY <1>0, <2>1, <2>3 DEF Renews, NoLoc, DownloadLabels
  <2>5. NoneOlder(row.ver)' /\ (row.ver <= upstream)'
    BY <1>0, <2>1, <2>2 DEF NoneOlder, Renews
  <2> QED BY <2>4, <2>5, AloneIsAll DEF AloneInv
<1> QED BY <1>1, <1>2, <1>4, <1>5, <1>6, <1>7, <1>8, <1>9, <1>10 DEF UpdateStep

\* The mirror never advertises a version newer than a file it has: files go
\* before the version is recorded and come from what was published since,
\* wherever the run fails or the process dies, if one update run works at a
\* time, no requests do, and RemoveAll works.
THEOREM FilesNotOlderThanRow ==
    ASSUME UpdaterAlone
    PROVE  Spec => []NoOlderThanRow
<1>1. Init => AloneInv
  <2> SUFFICES ASSUME Init PROVE AloneInv
    OBVIOUS
  <2>1. TypeOK
    BY TypeInit
  <2>2. NoneOlder(row.ver)
    BY DEF Init, NoneOlder, NoFile
  <2>3. row.ver <= upstream /\ \A u \in Updaters : Renews(u)
    BY DEF Init, Renews, NoLoc, DownloadLabels
  <2> QED BY <2>1, <2>2, <2>3 DEF AloneInv
<1>2. TypeOK' /\ AloneInv /\ [Next]_vars => AloneInv'
  <2> SUFFICES ASSUME TypeOK', AloneInv, [Next]_vars
               PROVE  AloneInv'
    OBVIOUS
  <2>1. ASSUME NEW u \in Updaters, UpdateStep(u) PROVE AloneInv'
    BY <2>1, RunRenews
  <2>2. CASE Release
    <3>1. /\ row.ver \in Nat /\ upstream \in Nat /\ upstream' = upstream + 1
          /\ \A u \in Updaters : loc[u].rem \in Nat
      BY <2>2, VersionsAreNumbers DEF Release, AloneInv
    <3>2. ASSUME NEW u \in Updaters PROVE Renews(u)'
      BY <2>2, <3>1 DEF Release, AloneInv, Renews, NoneOlder, Emptied
    <3> QED BY <2>2, <3>1, <3>2 DEF Release, AloneInv, NoneOlder
  <2>3. CASE Crash
    <3>1. cache' = [path \in Path |-> IF cache[path].fill \in Procs
                                      THEN [cache[path] EXCEPT !.fill = "lost"] ELSE cache[path]]
      BY <2>3 DEF Crash
    <3>2. cache \in [Path -> Cached]
      BY TypeOKParts DEF AloneInv
    <3>3. \A path \in Path : cache'[path].vers = cache[path].vers
      BY <3>1, <3>2 DEF Cached
    <3>4. \A u \in Updaters : Renews(u)'
      BY <2>3, VersionsAreNumbers DEF Crash, AloneInv, Renews, NoLoc, DownloadLabels
    <3> QED BY <2>3, <3>3, <3>4 DEF Crash, AloneInv, NoneOlder
  <2>4. CASE TtlExpires \/ UNCHANGED vars
    BY <2>4 DEF TtlExpires, vars, AloneInv, Renews, NoneOlder, Emptied
  <2> QED BY <2>1, <2>2, <2>3, <2>4 DEF Next, UpdaterAlone
<1>3. AloneInv => NoOlderThanRow
  BY DEF AloneInv, NoneOlder, NoOlderThanRow
<1> QED BY <1>1, <1>2, <1>3, TypeCorrect, PTL DEF Spec
----------------------------------------------------------------------------
(* The same of any number of runs and requests, which may overlap as they  *)
(* like, as long as no release comes while a body is on its way to a file. *)
(* Then whatever is put into a file is what the upstream publishes at that *)
(* moment, and "no file is older than v" is never undone by anyone, once   *)
(* it holds of a v already released.                                       *)

Settled == upstream' # upstream => \A p \in Procs : pc[p] \notin {"create", "copy"}

NoneOlderIn(f, v) == \A path \in Path : path[1] = f => \A w \in cache[path].vers : w >= v

\* Files have the bytes they had, or what is published now.
OnlyPublished == \A path \in Path : cache'[path].vers \subseteq cache[path].vers \cup {upstream}

\* What a process knows is no newer than upstream and, once it has emptied
\* the directories for the version it will record, no newer than any file.
Fresh(p) ==
    /\ loc[p].cur <= upstream /\ NoneOlder(loc[p].cur)
    /\ loc[p].rem <= upstream
    /\ pc[p] \in {"create", "copy"} => loc[p].got = upstream
    /\ pc[p] \in {"clean6", "purge6"} => NoneOlderIn("ipv4", loc[p].rem)
    /\ pc[p] \in {"mkdir", "record", "commit"} => NoneOlder(loc[p].rem)
    /\ p \in Updaters /\ pc[p] \in DownloadLabels => NoneOlder(loc[p].rem)

FreshInv ==
    /\ TypeOK
    /\ row.ver <= upstream
    /\ NoneOlder(row.ver)
    /\ \A p \in Procs : Fresh(p)

\* Bounds from below stay, whoever writes.
LEMMA BoundStays ==
    ASSUME TypeOK, OnlyPublished, NEW v \in Nat, v <= upstream
    PROVE  /\ NoneOlder(v) => NoneOlder(v)'
           /\ \A f : NoneOlderIn(f, v) => NoneOlderIn(f, v)'
<1>1. \A path \in Path : \A w \in cache'[path].vers : w \in cache[path].vers \/ w = upstream
  BY DEF OnlyPublished
<1>2. upstream >= v
  BY VersionsAreNumbers
<1> QED BY <1>1, <1>2 DEF NoneOlder, NoneOlderIn

\* A process that did not move knows no less than before.
LEMMA AsideStaysFresh ==
    ASSUME FreshInv, OnlyPublished, upstream' = upstream, NEW q \in Procs, pc'[q] = pc[q],
           loc'[q].cur = loc[q].cur, loc'[q].rem = loc[q].rem, loc'[q].got = loc[q].got
    PROVE  Fresh(q)'
<1>1. /\ loc[q].cur \in Nat /\ loc[q].rem \in Nat /\ TypeOK /\ Fresh(q)
  BY VersionsAreNumbers DEF FreshInv
<1>2. /\ NoneOlder(loc[q].cur)'
      /\ NoneOlder(loc[q].rem) => NoneOlder(loc[q].rem)'
      /\ NoneOlderIn("ipv4", loc[q].rem) => NoneOlderIn("ipv4", loc[q].rem)'
  BY <1>1, BoundStays DEF Fresh, NoneOlder, NoneOlderIn
<1> QED BY <1>1, <1>2 DEF Fresh

\* What remains to show of a step of p.
LEMMA StepStaysFresh ==
    ASSUME FreshInv, TypeOK', NEW p \in Procs, OnlyPublished, upstream' = upstream,
           \A q \in Procs \ {p} : /\ pc'[q] = pc[q] /\ loc'[q].cur = loc[q].cur
                                  /\ loc'[q].rem = loc[q].rem /\ loc'[q].got = loc[q].got,
           row'.ver = row.ver \/ (row'.ver <= upstream /\ NoneOlder(row'.ver)),
           Fresh(p)'
    PROVE  FreshInv'
<1>1. row'.ver <= upstream /\ NoneOlder(row'.ver) /\ row'.ver \in Nat
  BY BoundsAssumption DEF FreshInv, TypeOK, Version
<1>2. NoneOlder(row.ver)'
  BY <1>1, BoundStays DEF FreshInv, NoneOlder
<1>3. \A q \in Procs : Fresh(q)'
  BY AsideStaysFresh
<1> QED BY <1>1, <1>2, <1>3 DEF FreshInv

\* Labels at which nothing is claimed of the files.
Plain(p) ==
    {"idle", "check", "version", "decide", "clean4", "current", "remote", "purge4"}
        \cup RequestLabels \cup (IF p \in Updaters THEN {} ELSE {"get"})

\* Versions are learnt from the row or the upstream, or forgotten.
LEMMA PlainIsFresh ==
    ASSUME FreshInv, TypeOK', NEW p \in Procs, OnlyPublished, upstream' = upstream,
           loc'[p].cur \in {loc[p].cur, row.ver, 0},
           loc'[p].rem \in {loc[p].rem, upstream, 0},
           pc'[p] \in Plain(p)
    PROVE  Fresh(p)'
<1>1. /\ TypeOK /\ Fresh(p) /\ NoneOlder(row.ver) /\ row.ver <= upstream
      /\ row.ver \in Nat /\ upstream \in Nat /\ loc[p].cur \in Nat /\ loc[p].rem \in Nat
  BY VersionsAreNumbers DEF FreshInv
<1>2. \A path \in Path : \A w \in cache[path].vers : w >= 0
  BY <1>1, VersionsAreNumbers
<1>3. loc'[p].cur \in Nat /\ loc'[p].cur <= upstream /\ NoneOlder(loc'[p].cur)
  BY <1>1, <1>2 DEF Fresh, NoneOlder
<1>4. NoneOlder(loc[p].cur)'
  BY <1>1, <1>3, BoundStays DEF NoneOlder
<1>5. pc'[p] \notin {"create", "copy", "clean6", "purge6", "mkdir", "record", "commit"}
  BY DEF Plain, RequestLabels
<1>6. p \in Updaters => pc'[p] \notin DownloadLabels
  BY DEF Plain, RequestLabels, DownloadLabels
<1>7. loc'[p].rem <= upstream
  BY <1>1 DEF Fresh
<1> QED BY <1>3, <1>4, <1>5, <1>6, <1>7 DEF Fresh

\* A step of p to such a label.
LEMMA PlainStepFresh ==
    ASSUME FreshInv, TypeOK', NEW p \in Procs, upstream' = upstream, cache' = cache,
           \A q \in Procs \ {p} : pc'[q] = pc[q] /\ loc'[q] = loc[q],
           row'.ver \in {row.ver, loc[p].cur},
           loc'[p].cur \in {loc[p].cur, row.ver, 0},
           loc'[p].rem \in {loc[p].rem, upstream, 0},
           pc'[p] \in Plain(p)
    PROVE  FreshInv'
<1>1. OnlyPublished
  BY DEF OnlyPublished
<1>2. row'.ver = row.ver \/ (row'.ver <= upstream /\ NoneOlder(row'.ver))
  BY DEF FreshInv, Fresh
<1> QED BY <1>1, <1>2, PlainIsFresh, StepStaysFresh

\* A return, with the row as it was or as the process knew it.
LEMMA ReturnStepFresh ==
    ASSUME FreshInv, TypeOK', NEW p \in Procs, upstream' = upstream, cache' = cache,
           Return(p), row'.ver \in {row.ver, loc[p].cur}
    PROVE  FreshInv'
<1>1. /\ \A q \in Procs \ {p} : pc'[q] = pc[q] /\ loc'[q] = loc[q]
      /\ loc'[p] = NoLoc /\ pc'[p] = "idle"
  BY TypeOKParts DEF FreshInv, PcOK, Return, Goto
<1> QED BY <1>1, PlainStepFresh DEF NoLoc, Plain

\* A download never brings a file below what anyone relies on.
LEMMA DownloadStaysFresh ==
    ASSUME FreshInv, TypeOK', NEW p \in Procs,
           Get(p) \/ Create(p) \/ Downloaded(p) \/ DownloadFailed(p)
    PROVE  FreshInv'
<1>0. /\ TypeOK /\ loc[p] \in Local /\ loc[p].path \in Path /\ Fresh(p)
      /\ pc \in [Procs -> Label] /\ loc \in [Procs -> Local] /\ cache \in [Path -> Cached]
      /\ loc[p].rem \in Nat /\ loc[p].rem <= upstream
  BY TypeOKParts, VersionsAreNumbers DEF FreshInv, Fresh, PcOK, Local
<1>1. UNCHANGED <<upstream, row>>
  BY DEF Get, Create, Downloaded, DownloadFailed
<1>2. \A q \in Procs \ {p} : pc'[q] = pc[q] /\ loc'[q] = loc[q]
  BY <1>0 DEF Get, Create, Downloaded, DownloadFailed, NextFile, NextFamily, Return, Goto
<1>3. OnlyPublished
  <2>1. CASE Create(p)
    <3>1. /\ loc[p].got = upstream
          /\ \A q \in Procs : pc[q] = "copy" => loc[q].got = upstream
      BY <2>1 DEF Create, FreshInv, Fresh
    <3>2. {loc[p].got} \cup CopiedInto(loc[p].path, p) \subseteq {upstream}
      BY <3>1 DEF CopiedInto
    <3> QED BY <1>0, <2>1, <3>2 DEF Create, OnlyPublished
  <2>2. CASE Get(p)
    BY <2>2 DEF Get, OnlyPublished
  <2>3. CASE Downloaded(p) \/ DownloadFailed(p)
    BY <1>0, <2>3 DEF Downloaded, DownloadFailed, Filled, Cached, OnlyPublished
  <2> QED BY <2>1, <2>2, <2>3
<1>4. /\ NoneOlder(loc[p].rem) => \A path \in Path : \A w \in cache'[path].vers : w >= loc[p].rem
      /\ \A path \in Path : \A w \in cache'[path].vers : w >= loc[p].cur
  <2>1. loc[p].cur \in Nat /\ loc[p].cur <= upstream /\ NoneOlder(loc[p].cur)
    BY <1>0, VersionsAreNumbers DEF Fresh
  <2> QED BY <1>0, <1>3, <2>1, BoundStays DEF NoneOlder
<1>5. ASSUME pc[p] \in DownloadLabels, pc'[p] \in DownloadLabels \cup {"commit"},
             loc'[p].cur = loc[p].cur, loc'[p].rem = loc[p].rem,
             pc'[p] \in {"create", "copy"} => loc'[p].got = upstream,
             p \in Updaters \/ pc'[p] # "commit"
      PROVE  FreshInv'
  <2>1. p \in Updaters => \A path \in Path : \A w \in cache'[path].vers : w >= loc[p].rem
    BY <1>0, <1>4, <1>5 DEF Fresh
  <2>2. Fresh(p)'
    BY <1>0, <1>1, <1>4, <1>5, <2>1 DEF Fresh, NoneOlder, DownloadLabels
  <2> QED BY <1>1, <1>2, <1>3, <2>2, StepStaysFresh
<1>6. CASE Get(p)
  <2>1. /\ loc'[p].cur = loc[p].cur /\ loc'[p].rem = loc[p].rem
        /\ loc'[p].got = upstream /\ pc'[p] = "create" /\ pc[p] = "get"
    BY <1>0, <1>6 DEF Get, Goto, Local
  <2> QED BY <1>5, <2>1 DEF DownloadLabels
<1>7. CASE Create(p)
  <2>1. /\ loc'[p].cur = loc[p].cur /\ loc'[p].rem = loc[p].rem
        /\ loc'[p].got = loc[p].got /\ pc'[p] = "copy" /\ pc[p] = "create"
    BY <1>0, <1>7 DEF Create, Goto, Local
  <2> QED BY <1>0, <1>5, <2>1 DEF DownloadLabels, Fresh
<1>8. CASE Downloaded(p) \/ DownloadFailed(p)
  <2>1. pc[p] \in DownloadLabels
    BY <1>8 DEF Downloaded, DownloadFailed, DownloadLabels
  <2>2. CASE p \in Updaters
    <3>1. NextFile(p) \/ NextFamily(p)
      BY <1>8, <2>2 DEF Downloaded, DownloadFailed
    <3>2. pc'[p] \in {"get", "commit"}
      BY <1>0, <3>1 DEF NextFile, NextFamily, Goto
    <3>3. loc'[p].cur = loc[p].cur /\ loc'[p].rem = loc[p].rem
      <4>1. \E path : \/ loc'[p] = [loc[p] EXCEPT !.path = path, !.got = 0, !.fd = FALSE]
                      \/ loc'[p] = [loc[p] EXCEPT !.got = 0, !.fd = FALSE]
        BY <1>0, <3>1 DEF NextFile, NextFamily
      <4> QED BY <1>0, <4>1 DEF Local
    <3> QED BY <1>5, <2>1, <2>2, <3>2, <3>3 DEF DownloadLabels
  <2>3. CASE p \notin Updaters
    <3>1. loc'[p] = NoLoc /\ pc'[p] = "idle"
      BY <1>0, <1>8, <2>3 DEF Downloaded, DownloadFailed, Return, Goto
    <3>2. Fresh(p)'
      BY <1>1, <1>3, <3>1, PlainIsFresh DEF NoLoc, Plain
    <3> QED BY <1>1, <1>2, <1>3, <3>2, StepStaysFresh
  <2> QED BY <2>2, <2>3
<1> QED BY <1>6, <1>7, <1>8

\* Emptying the directories, by a run and by a check alike.
LEMMA RemovalStaysFresh ==
    ASSUME FreshInv, TypeOK', "remove" \notin Faults, NEW p \in Procs, NEW f \in Family,
           RemoveFamily(f), NEW label, Goto(p, label), UNCHANGED <<upstream, row>>,
           \/ f = "ipv4" /\ label \in {"clean6", "purge6"}
           \/ f = "ipv6" /\ label \in {"mkdir", "record"} /\ pc[p] \in {"clean6", "purge6"}
    PROVE  FreshInv'
<1>0. /\ TypeOK /\ Fresh(p) /\ pc \in [Procs -> Label]
  BY TypeOKParts DEF FreshInv, PcOK
<1>1. /\ \A path \in Path :
            cache'[path].vers = IF path[1] = f THEN {} ELSE cache[path].vers
      /\ \A q \in Procs : /\ loc'[q].cur = loc[q].cur /\ loc'[q].rem = loc[q].rem
                          /\ loc'[q].got = loc[q].got
  BY <1>0, RemoveEmpties
<1>2. pc'[p] = label /\ \A q \in Procs \ {p} : pc'[q] = pc[q]
  BY <1>0 DEF Goto
<1>3. OnlyPublished
  BY <1>1 DEF OnlyPublished
<1>4. NoneOlder(loc[p].cur) => NoneOlder(loc[p].cur)'
  BY <1>1 DEF NoneOlder
<1>5. label \in {"clean6", "purge6"} => NoneOlderIn("ipv4", loc[p].rem)'
  BY <1>1 DEF NoneOlderIn
<1>6. label \in {"mkdir", "record"} => NoneOlder(loc[p].rem)'
  <2> SUFFICES ASSUME label \in {"mkdir", "record"}, NEW path \in Path
               PROVE  \A w \in cache'[path].vers : w >= loc[p].rem
    BY <1>1 DEF NoneOlder
  <2>1. f = "ipv6" /\ NoneOlderIn("ipv4", loc[p].rem)
    BY <1>0 DEF Fresh
  <2>2. path[1] \in {"ipv4", "ipv6"}
    BY FirstFile DEF Family
  <2> QED BY <1>1, <2>1, <2>2 DEF NoneOlderIn
<1>7. Fresh(p)'
  BY <1>0, <1>1, <1>2, <1>4, <1>5, <1>6 DEF Fresh, DownloadLabels
<1> QED BY <1>1, <1>2, <1>3, <1>7, StepStaysFresh

\* A process records the version for which it emptied the directories.
LEMMA RecordStaysFresh ==
    ASSUME FreshInv, TypeOK', NEW p \in Procs, pc[p] \in {"record", "commit"},
           NEW url, NEW ok, Write(loc[p].rem, url, ok), UNCHANGED <<upstream, cache>>,
           \A q \in Procs \ {p} : pc'[q] = pc[q] /\ loc'[q] = loc[q],
           loc'[p].cur = 0, loc'[p].rem = 0, pc'[p] \in {"idle", "stat"}
    PROVE  FreshInv'
<1>1. row'.ver \in {loc[p].rem, row.ver}
  BY WrittenVersion
<1>2. loc[p].rem <= upstream /\ NoneOlder(loc[p].rem)
  BY DEF FreshInv, Fresh
<1>3. OnlyPublished
  BY DEF OnlyPublished
<1>4. Fresh(p)'
  BY <1>3, PlainIsFresh DEF Plain, RequestLabels
<1> QED BY <1>1, <1>2, <1>3, <1>4, StepStaysFresh

LEMMA RunStaysFresh ==
    ASSUME FreshInv, TypeOK', "remove" \notin Faults, NEW u \in Updaters, UpdateStep(u)
    PROVE  FreshInv'
<1>0. /\ TypeOK /\ u \in Procs /\ loc[u] \in Local /\ Fresh(u)
      /\ pc \in [Procs -> Label] /\ loc \in [Procs -> Local]
  BY TypeOKParts DEF FreshInv, PcOK
<1>1. CASE Get(u) \/ Create(u) \/ Downloaded(u) \/ DownloadFailed(u)
  BY <1>0, <1>1, DownloadStaysFresh
<1>2. CASE UpdateFailed(u) \/ NoUpdateAvailable(u)
  BY <1>0, <1>2, WrittenVersion, ReturnStepFresh DEF UpdateFailed, NoUpdateAvailable
\* Steps of u to a label without a claim, away from row and files.
<1>3. ASSUME UNCHANGED <<upstream, row, cache>>,
             \A q \in Procs \ {u} : pc'[q] = pc[q] /\ loc'[q] = loc[q],
             loc'[u].cur \in {loc[u].cur, row.ver, 0},
             loc'[u].rem \in {loc[u].rem, upstream, 0},
             pc'[u] \in {"check", "version", "decide", "clean4"}
      PROVE  FreshInv'
  BY <1>0, <1>3, PlainStepFresh DEF Plain
<1>4. CASE UpdateStart(u)
  <2>1. PICK v \in {row.ver, 0} : loc' = [loc EXCEPT ![u].cur = v]
    BY <1>4 DEF UpdateStart, VersionsRead, OrOn
  <2>2. loc'[u].cur = v /\ loc'[u].rem = loc[u].rem /\ pc'[u] = "check"
    BY <1>0, <1>4, <2>1 DEF UpdateStart, Goto, Local
  <2>3. \A q \in Procs \ {u} : pc'[q] = pc[q] /\ loc'[q] = loc[q]
    BY <1>0, <1>4, <2>1 DEF UpdateStart, Goto
  <2> QED BY <1>3, <1>4, <2>2, <2>3 DEF UpdateStart
<1>5. CASE UpdateAvailable(u)
  <2>1. pc'[u] = "version" /\ loc' = loc /\ \A q \in Procs \ {u} : pc'[q] = pc[q]
    BY <1>0, <1>5 DEF UpdateAvailable, Goto
  <2> QED BY <1>3, <1>5, <2>1 DEF UpdateAvailable
<1>6. CASE UpdateVersion(u)
  <2>1. PICK r \in {upstream, 0} : loc' = [loc EXCEPT ![u].rem = r]
    BY <1>6 DEF UpdateVersion, VersionBodies, OrOn
  <2>2. loc'[u].cur = loc[u].cur /\ loc'[u].rem = r /\ pc'[u] = "decide"
    BY <1>0, <1>6, <2>1 DEF UpdateVersion, Goto, Local
  <2>3. \A q \in Procs \ {u} : pc'[q] = pc[q] /\ loc'[q] = loc[q]
    BY <1>0, <1>6, <2>1 DEF UpdateVersion, Goto
  <2> QED BY <1>3, <1>6, <2>2, <2>3 DEF UpdateVersion
<1>7. CASE UpdateDecide(u)
  <2>1. CASE UpToDate(u)
    BY <1>0, <1>7, <2>1, WrittenVersion, ReturnStepFresh DEF UpdateDecide
  <2>2. CASE ~UpToDate(u)
    <3>1. pc'[u] = "clean4" /\ loc' = loc /\ \A q \in Procs \ {u} : pc'[q] = pc[q]
      BY <1>0, <1>7, <2>2 DEF UpdateDecide, Goto
    <3> QED BY <1>3, <1>7, <2>2, <3>1 DEF UpdateDecide
  <2> QED BY <2>1, <2>2
<1>8. CASE UpdateClean(u)
  BY <1>0, <1>8, RemovalStaysFresh DEF UpdateClean, Family
<1>9. CASE UpdateMkdir(u)
  <2>1. CASE Write(loc[u].cur, TRUE, FALSE) /\ Return(u)
    BY <1>0, <1>9, <2>1, WrittenVersion, ReturnStepFresh DEF UpdateMkdir
  <2>2. CASE Goto(u, IF Preload THEN "get" ELSE "commit") /\ UNCHANGED <<row, loc>>
    <3>1. /\ pc'[u] \in {"get", "commit"} /\ pc[u] = "mkdir" /\ UNCHANGED <<upstream, cache>>
          /\ \A q \in Procs \ {u} : pc'[q] = pc[q]
      BY <1>0, <1>9, <2>2 DEF UpdateMkdir, Goto
    <3>2. Fresh(u)'
      BY <1>0, <2>2, <3>1 DEF Fresh, NoneOlder
    <3>3. OnlyPublished
      BY <3>1 DEF OnlyPublished
    <3> QED BY <1>0, <2>2, <3>1, <3>2, <3>3, StepStaysFresh
  <2> QED BY <1>9, <2>1, <2>2 DEF UpdateMkdir
<1>10. CASE UpdateCommit(u)
  <2>1. /\ \A q \in Procs \ {u} : pc'[q] = pc[q] /\ loc'[q] = loc[q]
        /\ loc'[u].cur = 0 /\ loc'[u].rem = 0 /\ pc'[u] = "idle"
    BY <1>0, <1>10 DEF UpdateCommit, Return, Goto, NoLoc
  <2> QED BY <1>0, <1>10, <2>1, RecordStaysFresh DEF UpdateCommit
<1> QED BY <1>1, <1>2, <1>4, <1>5, <1>6, <1>7, <1>8, <1>9, <1>10 DEF UpdateStep

LEMMA RequestStaysFresh ==
    ASSUME FreshInv, TypeOK', "remove" \notin Faults, NEW h \in Handlers,
           Request(h) \/ CheckStart(h) \/ HandlerStep(h)
    PROVE  FreshInv'
<1>0. /\ TypeOK /\ h \in Procs /\ loc[h] \in Local /\ Fresh(h) /\ h \notin Updaters
      /\ pc \in [Procs -> Label] /\ loc \in [Procs -> Local]
  BY TypeOKParts, ProcsAssumption DEF FreshInv, PcOK
<1>1. CASE Get(h) \/ Create(h) \/ Downloaded(h) \/ DownloadFailed(h)
  BY <1>0, <1>1, DownloadStaysFresh
<1>2. CASE Purge(h)
  BY <1>0, <1>2, RemovalStaysFresh DEF Purge, Family
<1>3. CASE CheckRecord(h)
  <2>1. /\ \A q \in Procs \ {h} : pc'[q] = pc[q] /\ loc'[q] = loc[q]
        /\ loc'[h].cur = 0 /\ loc'[h].rem = 0 /\ pc'[h] = "stat"
    BY <1>0, <1>3 DEF CheckRecord, CheckEnd, Goto, NoLoc
  <2> QED BY <1>0, <1>3, <2>1, RecordStaysFresh DEF CheckRecord
\* Steps of h to a label without a claim, away from row and files.
<1>4. ASSUME UNCHANGED <<upstream, row, cache>>,
             \A q \in Procs \ {h} : pc'[q] = pc[q] /\ loc'[q] = loc[q],
             loc'[h].cur \in {loc[h].cur, row.ver, 0},
             loc'[h].rem \in {loc[h].rem, upstream, 0},
             pc'[h] \in {"idle", "current", "remote", "purge4", "get"} \cup RequestLabels
      PROVE  FreshInv'
  BY <1>0, <1>4, PlainStepFresh DEF Plain
<1>5. CASE CheckEnd(h) /\ UNCHANGED <<upstream, row, cache>>
  <2>1. /\ \A q \in Procs \ {h} : pc'[q] = pc[q] /\ loc'[q] = loc[q]
        /\ loc'[h].cur = 0 /\ loc'[h].rem = 0 /\ pc'[h] = "stat"
    BY <1>0, <1>5 DEF CheckEnd, Goto, NoLoc
  <2> QED BY <1>4, <1>5, <2>1 DEF RequestLabels
<1>6. CASE Return(h) /\ UNCHANGED <<upstream, row, cache>>
  BY <1>0, <1>6, ReturnStepFresh
<1>7. CASE Request(h)
  <2>1. PICK path \in Path : loc' = [loc EXCEPT ![h].path = path]
    BY <1>7 DEF Request
  <2>2. loc'[h].cur = loc[h].cur /\ loc'[h].rem = loc[h].rem
    BY <1>0, <2>1 DEF Local
  <2>3. /\ \A q \in Procs \ {h} : pc'[q] = pc[q] /\ loc'[q] = loc[q]
        /\ pc'[h] \in RequestLabels
    BY <1>0, <1>7, <2>1 DEF Request, Goto, RequestLabels
  <2> QED BY <1>4, <1>7, <2>2, <2>3 DEF Request
<1>8. CASE CheckStart(h) \/ Miss(h)
  <2>1. /\ \A q \in Procs \ {h} : pc'[q] = pc[q]
        /\ pc'[h] \in {"current"} \cup RequestLabels /\ loc' = loc
    BY <1>0, <1>8 DEF CheckStart, Miss, Goto, RequestLabels
  <2> QED BY <1>4, <1>8, <2>1 DEF CheckStart, Miss
<1>9. CASE CheckCurrent(h)
  <2>1. PICK v \in {row.ver, 0} :
           IF v = 0 THEN CheckEnd(h)
           ELSE loc' = [loc EXCEPT ![h].cur = v] /\ Goto(h, "remote")
    BY <1>9 DEF CheckCurrent, VersionsRead, OrOn
  <2>2. CASE v # 0
    <3>1. loc'[h].cur = v /\ loc'[h].rem = loc[h].rem
      BY <1>0, <2>1, <2>2 DEF Local
    <3>2. pc'[h] = "remote" /\ \A q \in Procs \ {h} : pc'[q] = pc[q] /\ loc'[q] = loc[q]
      BY <1>0, <2>1, <2>2 DEF Goto
    <3> QED BY <1>4, <1>9, <3>1, <3>2 DEF CheckCurrent
  <2> QED BY <1>5, <1>9, <2>1, <2>2 DEF CheckCurrent
<1>10. CASE CheckRemote(h)
  <2>1. CASE CheckEnd(h)
    BY <1>5, <1>10, <2>1 DEF CheckRemote
  <2>2. CASE \E r \in {upstream, 0} : loc' = [loc EXCEPT ![h].rem = r] /\ Goto(h, "purge4")
    <3>1. PICK r \in {upstream, 0} : loc' = [loc EXCEPT ![h].rem = r] /\ Goto(h, "purge4")
      BY <2>2
    <3>2. loc'[h].cur = loc[h].cur /\ loc'[h].rem = r
      BY <1>0, <3>1 DEF Local
    <3>3. pc'[h] = "purge4" /\ \A q \in Procs \ {h} : pc'[q] = pc[q] /\ loc'[q] = loc[q]
      BY <1>0, <3>1 DEF Goto
    <3> QED BY <1>4, <1>10, <3>2, <3>3 DEF CheckRemote
  <2> QED BY <1>10, <2>1, <2>2 DEF CheckRemote, VersionBodies, OrOn
<1>11. CASE ServeCached(h)
  BY <1>6, <1>11 DEF ServeCached
<1>12. CASE ReadUrl(h)
  <2>1. CASE Goto(h, "get") /\ UNCHANGED loc
    <3>1. pc'[h] = "get" /\ \A q \in Procs \ {h} : pc'[q] = pc[q]
      BY <1>0, <2>1 DEF Goto
    <3> QED BY <1>4, <1>12, <2>1, <3>1 DEF ReadUrl
  <2>2. Return(h) \/ (Goto(h, "get") /\ UNCHANGED loc)
    BY <1>12 DEF ReadUrl
  <2> QED BY <1>6, <1>12, <2>1, <2>2 DEF ReadUrl
<1> QED BY <1>1, <1>2, <1>3, <1>7, <1>8, <1>9, <1>10, <1>11, <1>12 DEF HandlerStep

\* Who is to blame for a file older than the row: with a RemoveAll that
\* works, and whatever else fails, any number of update runs and requests
\* interleaved in any way leave one only if the upstream releases a version
\* between the answer to some download and the end of its copy.
THEOREM OnlyReleasesMakeStale ==
    ASSUME "remove" \notin Faults
    PROVE  Spec /\ [][Settled]_vars => []NoOlderThanRow
<1>1. Init => FreshInv
  <2> SUFFICES ASSUME Init PROVE FreshInv
    OBVIOUS
  <2>1. TypeOK
    BY TypeInit
  <2>2. \A v : NoneOlder(v)
    BY DEF Init, NoneOlder, NoFile
  <2>3. row.ver <= upstream
    BY DEF Init
  <2>4. \A p \in Procs : Fresh(p)
    BY <2>2 DEF Init, Fresh, NoLoc, DownloadLabels
  <2> QED BY <2>1, <2>2, <2>3, <2>4 DEF FreshInv
<1>2. TypeOK' /\ FreshInv /\ [Next]_vars /\ [Settled]_vars => FreshInv'
  <2> SUFFICES ASSUME TypeOK', FreshInv, [Next]_vars, [Settled]_vars
               PROVE  FreshInv'
    OBVIOUS
  <2>1. CASE Release
    <3>1. /\ row.ver \in Nat /\ upstream \in Nat /\ upstream' = upstream + 1
          /\ \A p \in Procs : loc[p].rem \in Nat /\ loc[p].cur \in Nat
      BY <2>1, VersionsAreNumbers DEF Release, FreshInv
    <3>2. \A p \in Procs : pc[p] \notin {"create", "copy"}
      BY <2>1, <3>1 DEF Settled, vars
    <3>3. \A p \in Procs : Fresh(p)'
      BY <2>1, <3>1, <3>2 DEF Release, FreshInv, Fresh, NoneOlder, NoneOlderIn
    <3> QED BY <2>1, <3>1, <3>3 DEF Release, FreshInv, NoneOlder
  <2>2. CASE Crash
    <3>1. cache \in [Path -> Cached] /\ TypeOK
      BY TypeOKParts DEF FreshInv
    <3>2. \A path \in Path : cache'[path].vers = cache[path].vers
      BY <2>2, <3>1 DEF Crash, Cached
    <3>3. \A p \in Procs : loc'[p].cur = 0 /\ loc'[p].rem = 0 /\ pc'[p] = "idle"
      BY <2>2 DEF Crash, NoLoc
    <3>4. \A path \in Path : \A w \in cache'[path].vers : w >= 0
      BY <3>1, <3>2, VersionsAreNumbers
    <3>5. upstream' = upstream /\ upstream \in Nat /\ row' = row
      BY <2>2, <3>1, VersionsAreNumbers DEF Crash
    <3>6. \A p \in Procs : Fresh(p)'
      BY <3>3, <3>4, <3>5 DEF Fresh, NoneOlder, DownloadLabels
    <3> QED BY <3>2, <3>5, <3>6 DEF FreshInv, NoneOlder
  <2>3. CASE TtlExpires \/ UNCHANGED vars
    BY <2>3 DEF TtlExpires, vars, FreshInv, Fresh, NoneOlder, NoneOlderIn
  <2> QED BY <2>1, <2>2, <2>3, RunStaysFresh, RequestStaysFresh DEF Next
<1>3. FreshInv => NoOlderThanRow
  BY DEF FreshInv, NoneOlder, NoOlderThanRow
<1> QED BY <1>1, <1>2, <1>3, TypeCorrect, PTL DEF Spec

----------------------------------------------------------------------------
(* What a run or a request has left to do.                                 *)

\* Files a preload has still to come to after the one it is at.
FilesAhead(u) ==
    (IF loc[u].path[1] = "ipv4" THEN NFiles ELSE 0) + NFiles - loc[u].path[2]

\* The steps a run has left, at most; three for each file of a preload.
RunLeft(u) ==
    CASE pc[u] = "check" -> 6 * NFiles + 7
      [] pc[u] = "version" -> 6 * NFiles + 6
      [] pc[u] = "decide" -> 6 * NFiles + 5
      [] pc[u] = "clean4" -> 6 * NFiles + 4
      [] pc[u] = "clean6" -> 6 * NFiles + 3
      [] pc[u] = "mkdir" -> 6 * NFiles + 2
      [] pc[u] = "get" -> 3 * FilesAhead(u) + 4
      [] pc[u] = "create" -> 3 * FilesAhead(u) + 3
      [] pc[u] = "copy" -> 3 * FilesAhead(u) + 2
      [] pc[u] = "commit" -> 1
      [] OTHER -> 0

\* Those of a request. At "lock" it may wait, but takes no more steps for it.
RequestLeft(h) ==
    CASE pc[h] = "lock" -> 11
      [] pc[h] = "current" -> 10
      [] pc[h] = "remote" -> 9
      [] pc[h] = "purge4" -> 8
      [] pc[h] = "purge6" -> 7
      [] pc[h] = "record" -> 6
      [] pc[h] = "stat" -> 5
      [] pc[h] = "url" -> 4
      [] pc[h] = "get" -> 3
      [] pc[h] = "create" -> 2
      [] pc[h] = "copy" -> 1
      [] OTHER -> 0

\* A step that leaves process p where it is.
StaysAt(p) == pc'[p] = pc[p] /\ loc'[p].path = loc[p].path

\* A preload is at a file there is.
AtFile(u) ==
    /\ NFiles \in Nat \ {0} /\ FilesAhead(u) \in 0..(2 * NFiles - 1)
    /\ loc[u].path[1] \in {"ipv4", "ipv6"} /\ loc[u].path[2] \in 1..NFiles

LEMMA FilesAheadType == TypeOK => \A u \in Updaters : AtFile(u)
<1> SUFFICES ASSUME TypeOK, NEW u \in Updaters PROVE AtFile(u)
  OBVIOUS
<1>1. loc[u] \in Local /\ loc[u].path \in Path
  BY TypeOKParts DEF Local
<1>2. loc[u].path[1] \in Family /\ loc[u].path[2] \in 1..NFiles
  BY <1>1, FirstFile
<1> QED BY <1>2, BoundsAssumption DEF AtFile, FilesAhead, Family

LEMMA FilesAheadStays == TypeOK' => (\A u \in Updaters : AtFile(u))'
BY FilesAheadType, PTL

LEMMA RunLeftType ==
    ASSUME TypeOK, NEW u \in Updaters, pc[u] # "idle"
    PROVE  RunLeft(u) \in 1..(6 * NFiles + 7)
<1>1. pc[u] \in UpdateLabels \cup DownloadLabels
  BY TypeOKParts DEF PcOK, Label
<1>2. NFiles \in Nat /\ FilesAhead(u) \in Nat /\ FilesAhead(u) < 2 * NFiles
  BY FilesAheadType DEF AtFile
<1>3. CASE pc[u] \in DownloadLabels
  <2>1. RunLeft(u) \in {3 * FilesAhead(u) + i : i \in {2, 3, 4}}
    BY <1>3 DEF RunLeft, DownloadLabels
  <2> QED BY <1>2, <2>1
<1>4. CASE pc[u] \in UpdateLabels
  <2>1. RunLeft(u) \in {1} \cup {6 * NFiles + i : i \in {2, 3, 4, 5, 6, 7}}
    BY <1>4 DEF RunLeft, UpdateLabels
  <2> QED BY <1>2, <2>1
<1> QED BY <1>1, <1>3, <1>4

LEMMA RequestLeftType ==
    ASSUME TypeOK, NEW h \in Handlers, pc[h] # "idle"
    PROVE  RequestLeft(h) \in 1..11
<1>1. pc[h] \in CheckLabels \cup RequestLabels \cup DownloadLabels
  BY TypeOKParts DEF PcOK, Label
<1> QED BY <1>1 DEF RequestLeft, CheckLabels, RequestLabels, DownloadLabels

\* Going on to the next file or family, or to the end of the preload.
LEMMA NextFileCounts ==
    ASSUME TypeOK, NEW u \in Updaters, NextFile(u) \/ NextFamily(u), TypeOK',
           pc[u] \in DownloadLabels
    PROVE  RunLeft(u)' < RunLeft(u)
<1> DEFINE path == loc[u].path
<1>1. pc \in [Procs -> Label] /\ loc \in [Procs -> Local]
  BY TypeOKParts DEF PcOK
<1>2. /\ NFiles \in Nat \ {0} /\ FilesAhead(u) \in 0..(2 * NFiles - 1)
      /\ FilesAhead(u)' \in 0..(2 * NFiles - 1)
      /\ path[1] \in {"ipv4", "ipv6"} /\ path[2] \in 1..NFiles
  BY FilesAheadType, FilesAheadStays DEF AtFile
<1>3. RunLeft(u) \in Nat /\ 3 * FilesAhead(u) + 2 <= RunLeft(u)
  BY <1>2 DEF RunLeft, DownloadLabels
<1>4. ASSUME NEW next, loc' = [loc EXCEPT ![u] = [@ EXCEPT !.path = next, !.got = 0, !.fd = FALSE]]
      PROVE  loc'[u].path = next
  BY <1>1, <1>4 DEF Local
<1>5. CASE NextFamily(u)
  <2>1. CASE path[1] = "ipv4"
    <3>1. loc'[u].path = <<"ipv6", 1>> /\ pc'[u] = "get"
      BY <1>1, <1>4, <1>5, <2>1 DEF NextFamily, Goto
    <3>2. FilesAhead(u)' = NFiles - 1 /\ RunLeft(u)' = 3 * FilesAhead(u)' + 4
      BY <1>2, <3>1 DEF FilesAhead, RunLeft
    <3>3. FilesAhead(u) >= NFiles
      BY <1>2, <2>1 DEF FilesAhead
    <3> QED BY <1>2, <1>3, <3>2, <3>3
  <2>2. CASE path[1] # "ipv4"
    <3>1. pc'[u] = "commit"
      BY <1>1, <1>5, <2>2 DEF NextFamily, Goto
    <3>2. RunLeft(u)' = 1
      BY <3>1 DEF RunLeft
    <3> QED BY <1>2, <1>3, <3>2
  <2> QED BY <2>1, <2>2
<1>6. CASE NextFile(u) /\ path[2] < NFiles
  <2>1. loc'[u].path = <<path[1], path[2] + 1>> /\ pc'[u] = "get"
    BY <1>1, <1>4, <1>6 DEF NextFile, Goto
  <2>2. FilesAhead(u)' = FilesAhead(u) - 1 /\ RunLeft(u)' = 3 * FilesAhead(u)' + 4
    BY <1>2, <2>1 DEF FilesAhead, RunLeft
  <2> QED BY <1>2, <1>3, <2>2
<1> QED BY <1>5, <1>6 DEF NextFile

\* A step of a run takes it forward.
LEMMA RunStepCounts ==
    ASSUME TypeOK, TypeOK', NEW u \in Updaters, UpdateStep(u), pc[u] # "idle"
    PROVE  RunLeft(u)' < RunLeft(u)
<1>1. u \in Procs /\ pc \in [Procs -> Label] /\ loc \in [Procs -> Local]
  BY TypeOKParts DEF PcOK
<1>2. /\ NFiles \in Nat \ {0} /\ FilesAhead(u) \in 0..(2 * NFiles - 1)
      /\ FilesAhead(u)' \in 0..(2 * NFiles - 1)
  BY FilesAheadType, FilesAheadStays DEF AtFile
<1>3. CASE pc'[u] = "idle"
  <2>1. RunLeft(u)' = 0
    BY <1>3 DEF RunLeft
  <2> QED BY <1>2, <2>1, RunLeftType
<1>4. CASE UpdateAvailable(u) \/ UpdateVersion(u) \/ UpdateClean(u)
  <2>1. \/ pc[u] = "check" /\ pc'[u] = "version"
        \/ pc[u] = "version" /\ pc'[u] = "decide"
        \/ pc[u] = "clean4" /\ pc'[u] = "clean6"
        \/ pc[u] = "clean6" /\ pc'[u] = "mkdir"
    BY <1>1, <1>4 DEF UpdateAvailable, UpdateVersion, UpdateClean, Goto
  <2> QED BY <1>2, <2>1 DEF RunLeft
<1>5. CASE UpdateDecide(u) \/ UpdateMkdir(u)
  <2>1. \/ pc'[u] = "idle"
        \/ pc[u] = "decide" /\ pc'[u] = "clean4"
        \/ pc[u] = "mkdir" /\ pc'[u] \in {"get", "commit"}
    BY <1>1, <1>5 DEF UpdateDecide, UpdateMkdir, Goto, Return
  <2> QED BY <1>2, <1>3, <2>1 DEF RunLeft
<1>6. CASE UpdateFailed(u) \/ NoUpdateAvailable(u) \/ UpdateCommit(u)
  <2>1. pc'[u] = "idle"
    BY <1>1, <1>6 DEF UpdateFailed, NoUpdateAvailable, UpdateCommit, Goto, Return
  <2> QED BY <1>3, <2>1
<1>7. CASE Get(u) \/ Create(u)
  <2>1. \/ pc[u] = "get" /\ pc'[u] = "create"
        \/ pc[u] = "create" /\ pc'[u] = "copy"
    BY <1>1, <1>7 DEF Get, Create, Goto
  <2>2. loc'[u].path = loc[u].path
    BY <1>1, <1>7 DEF Get, Create, Local
  <2>3. FilesAhead(u)' = FilesAhead(u)
    BY <2>2 DEF FilesAhead
  <2> QED BY <1>2, <2>1, <2>3 DEF RunLeft
<1>8. CASE Downloaded(u) \/ DownloadFailed(u)
  <2>1. pc[u] \in DownloadLabels /\ (NextFile(u) \/ NextFamily(u))
    BY <1>8 DEF Downloaded, DownloadFailed, DownloadLabels
  <2> QED BY <2>1, NextFileCounts
<1>9. ~UpdateStart(u)
  BY DEF UpdateStart
<1> QED BY <1>4, <1>5, <1>6, <1>7, <1>8, <1>9 DEF UpdateStep

\* So does one of a request.
LEMMA RequestStepCounts ==
    ASSUME TypeOK, NEW h \in Handlers, CheckStart(h) \/ HandlerStep(h)
    PROVE  RequestLeft(h)' < RequestLeft(h)
<1>1. h \in Procs /\ h \notin Updaters /\ pc \in [Procs -> Label]
  BY TypeOKParts, ProcsAssumption DEF PcOK
<1>2. CASE CheckStart(h)
  <2>1. pc[h] = "lock" /\ pc'[h] \in {"current", "stat"}
    BY <1>1, <1>2 DEF CheckStart, Goto
  <2> QED BY <2>1 DEF RequestLeft
<1>3. CASE CheckCurrent(h) \/ CheckRemote(h)
  <2>1. \/ pc[h] = "current" /\ pc'[h] \in {"remote", "stat"}
        \/ pc[h] = "remote" /\ pc'[h] \in {"purge4", "stat"}
    BY <1>1, <1>3 DEF CheckCurrent, CheckRemote, CheckEnd, Goto
  <2> QED BY <2>1 DEF RequestLeft
<1>4. CASE Purge(h) \/ CheckRecord(h)
  <2>1. \/ pc[h] = "purge4" /\ pc'[h] = "purge6"
        \/ pc[h] = "purge6" /\ pc'[h] = "record"
        \/ pc[h] = "record" /\ pc'[h] = "stat"
    BY <1>1, <1>4 DEF Purge, CheckRecord, CheckEnd, Goto
  <2> QED BY <2>1 DEF RequestLeft
<1>5. CASE ServeCached(h) \/ Miss(h) \/ ReadUrl(h)
  <2>1. \/ pc[h] = "stat" /\ pc'[h] \in {"idle", "url"}
        \/ pc[h] = "url" /\ pc'[h] \in {"idle", "get"}
    BY <1>1, <1>5 DEF ServeCached, Miss, ReadUrl, Goto, Return
  <2> QED BY <2>1 DEF RequestLeft
<1>6. CASE Get(h) \/ Create(h) \/ Downloaded(h) \/ DownloadFailed(h)
  <2>1. \/ pc[h] = "get" /\ pc'[h] \in {"create", "idle"}
        \/ pc[h] = "create" /\ pc'[h] \in {"copy", "idle"}
        \/ pc[h] = "copy" /\ pc'[h] = "idle"
    BY <1>1, <1>6 DEF Get, Create, Downloaded, DownloadFailed, Goto, Return
  <2> QED BY <2>1 DEF RequestLeft
<1> QED BY <1>2, <1>3, <1>4, <1>5, <1>6 DEF HandlerStep

\* And leaves everyone else where he is, although a removal takes their files.
LEMMA StepLeavesOthers ==
    ASSUME TypeOK, NEW p \in Procs, NEW q \in Procs \ {p},
           \/ p \in Updaters /\ UpdateStep(p)
           \/ p \in Handlers /\ (Request(p) \/ CheckStart(p) \/ HandlerStep(p))
    PROVE  StaysAt(q)
<1>1. pc \in [Procs -> Label] /\ loc \in [Procs -> Local]
  BY TypeOKParts DEF PcOK
<1>2. ASSUME NEW f, RemoveFamily(f) PROVE loc'[q].path = loc[q].path
  <2>1. PICK gone : loc' = [r \in Procs |-> [loc[r] EXCEPT !.fd = @ /\ loc[r].path \notin gone]]
    BY <1>2 DEF RemoveFamily
  <2>2. loc'[q] = [loc[q] EXCEPT !.fd = @ /\ loc[q].path \notin gone] /\ loc[q] \in Local
    BY <1>1, <2>1
  <2> QED BY <2>2 DEF Local
<1>3. CASE UpdateClean(p) \/ Purge(p)
  <2>1. loc'[q].path = loc[q].path
    BY <1>2, <1>3 DEF UpdateClean, Purge
  <2>2. pc'[q] = pc[q]
    BY <1>1, <1>3 DEF UpdateClean, Purge, Goto
  <2> QED BY <2>1, <2>2 DEF StaysAt
<1>4. CASE Get(p) \/ Create(p) \/ Downloaded(p) \/ DownloadFailed(p)
  BY <1>1, <1>4 DEF Get, Create, Downloaded, DownloadFailed, NextFile, NextFamily,
     Return, Goto, StaysAt
<1>5. ASSUME p \in Updaters, UpdateStep(p), ~UpdateClean(p),
             ~(Get(p) \/ Create(p) \/ Downloaded(p) \/ DownloadFailed(p))
      PROVE  StaysAt(q)
  BY <1>1, <1>5 DEF UpdateStep, UpdateStart, UpdateAvailable, UpdateFailed,
     NoUpdateAvailable, UpdateVersion, UpdateDecide, UpdateMkdir, UpdateCommit,
     Return, Goto, StaysAt
<1>6. ASSUME Request(p) \/ CheckStart(p) \/ HandlerStep(p), ~Purge(p),
             ~(Get(p) \/ Create(p) \/ Downloaded(p) \/ DownloadFailed(p))
      PROVE  StaysAt(q)
  BY <1>1, <1>6 DEF Request, CheckStart, HandlerStep, CheckCurrent, CheckRemote, CheckEnd,
     CheckRecord, ServeCached, Miss, ReadUrl, Return, Goto, StaysAt
<1> QED BY <1>3, <1>4, <1>5, <1>6

\* Nobody is sent back, and nobody is kept going by others.
Forward ==
    /\ \A u \in Updaters : pc[u] # "idle" =>
          RunLeft(u) \in 1..(6 * NFiles + 7) /\ (RunLeft(u)' < RunLeft(u) \/ StaysAt(u))
    /\ \A h \in Handlers : pc[h] # "idle" =>
          RequestLeft(h) \in 1..11 /\ (RequestLeft(h)' < RequestLeft(h) \/ StaysAt(h))

\* Until it returns, and whatever it, the others or the environment do, a run
\* or a request stays where it is or has less left to do: a run at most seven
\* steps and three for each file of both families, a request at most eleven.
\* So whoever waits for the mutex of the check waits for so many steps of its
\* owner.
THEOREM WorkEnds == Spec => [][Forward]_vars
<1>1. TypeOK /\ TypeOK' /\ Next => Forward
  <2> SUFFICES ASSUME TypeOK, TypeOK', Next PROVE Forward
    OBVIOUS
  <2> USE DEF Forward
  <2>0. NFiles \in Nat
    BY BoundsAssumption
  <2>1. CASE Crash
    <3>1. \A p \in Procs : pc'[p] = "idle"
      BY <2>1 DEF Crash
    <3>2. /\ \A u \in Updaters : RunLeft(u)' = 0
          /\ \A h \in Handlers : RequestLeft(h)' = 0
      BY <3>1 DEF RunLeft, RequestLeft
    <3>3. ASSUME NEW u \in Updaters, pc[u] # "idle" PROVE RunLeft(u)' < RunLeft(u)
      BY <2>0, <3>2, <3>3, RunLeftType
    <3>4. ASSUME NEW h \in Handlers, pc[h] # "idle" PROVE RequestLeft(h)' < RequestLeft(h)
      BY <3>2, <3>4, RequestLeftType
    <3> QED BY <3>3, <3>4, RunLeftType, RequestLeftType
  <2>2. CASE Release \/ TtlExpires
    <3>1. \A p \in Procs : StaysAt(p)
      BY <2>2 DEF Release, TtlExpires, StaysAt
    <3> QED BY <3>1, RunLeftType, RequestLeftType
  <2>3. ASSUME NEW p \in Procs,
               \/ p \in Updaters /\ UpdateStep(p)
               \/ p \in Handlers /\ (Request(p) \/ CheckStart(p) \/ HandlerStep(p))
        PROVE  Forward
    <3>1. ASSUME NEW u \in Updaters, pc[u] # "idle"
          PROVE  RunLeft(u)' < RunLeft(u) \/ StaysAt(u)
      <4>1. CASE u = p
        <5>1. UpdateStep(u)
          BY <2>3, <4>1, ProcsAssumption
        <5> QED BY <3>1, <5>1, RunStepCounts
      <4>2. CASE u # p
        BY <2>3, <4>2, StepLeavesOthers
      <4> QED BY <4>1, <4>2
    <3>2. ASSUME NEW h \in Handlers, pc[h] # "idle"
          PROVE  RequestLeft(h)' < RequestLeft(h) \/ StaysAt(h)
      <4>1. CASE h = p
        <5>1. ~Request(h)
          BY <3>2 DEF Request
        <5>2. CheckStart(h) \/ HandlerStep(h)
          BY <2>3, <4>1, <5>1, ProcsAssumption
        <5> QED BY <5>2, RequestStepCounts
      <4>2. CASE h # p
        BY <2>3, <4>2, StepLeavesOthers
      <4> QED BY <4>1, <4>2
    <3> QED BY <3>1, <3>2, RunLeftType, RequestLeftType
  <2> QED BY <2>1, <2>2, <2>3 DEF Next
<1> QED BY <1>1, TypeCorrect, PTL DEF Spec
===========================================================================
