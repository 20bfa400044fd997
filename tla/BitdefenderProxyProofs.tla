----------------------- MODULE BitdefenderProxyProofs -----------------------
(***************************************************************************)
(* Proofs about BitdefenderProxy, for any number of requests, clean-up     *)
(* runs, directories and bodies, and any faults.  No lock orders anything  *)
(* here: what carries the proofs is that a request is disturbed by others  *)
(* only in ways that take nothing from what it knows (Frame).              *)
(***************************************************************************)
EXTENDS BitdefenderProxy, FiniteSetTheorems, TLAPS

Local == [file : File, got : 0..MaxBody, temp : BOOLEAN, out : Content,
          floor : 0..MaxBody, fresh : BOOLEAN]

Steps == {"idle", "stat", "check", "refuse", "serve", "cdn", "pass",
          "mkdir", "temp", "copy", "rename", "answered"}

----------------------------------------------------------------------------
(* Type correctness.                                                       *)

LEMMA NothingType == Nothing \in Content /\ NoLoc \in Local /\ VersionsId \in File
BY BoundsAssumption DEF Nothing, Content, NoLoc, Local, VersionsId, File

LEMMA FileDirs == \A file \in File : file[1] \in 0..NDirs
BY BoundsAssumption DEF File, Dirs, VersionsId

\* Answering leaves the shape.
LEMMA AnswerType ==
    ASSUME TypeOK, NEW r \in Requests, NEW content \in Content, Answer(r, content)
    PROVE  pc' \in [Requests -> Steps] /\ loc' \in [Requests -> Local]
BY DEF TypeOK, Answer, Goto, Steps, Local

\* So do the steps of a request that came.
LEMMA TypeStep ==
    ASSUME TypeOK, NEW r \in Requests, Step(r)
    PROVE  TypeOK'
<1> USE DEF Local, Steps, Goto
<1>0. /\ upstream \in 0..MaxBody /\ loc[r] \in Local /\ loc[r].file \in File
      BY DEF TypeOK
<1>1. CASE DropOldCopy(r)
  <2>1. cache' \in [File -> Content]
        BY <1>1, NothingType DEF DropOldCopy, Put, TypeOK
  <2> QED BY <1>1, <2>1 DEF DropOldCopy, TypeOK
<1>2. CASE Stat(r)
      BY <1>2 DEF Stat, TypeOK
<1>3. CASE Validate(r)
  <2>1. PICK fresh \in BOOLEAN, step \in {"serve", "refuse"} :
          loc' = [loc EXCEPT ![r].fresh = fresh] /\ Goto(r, step)
    <3>1. loc[r] \in Local /\ loc = [loc EXCEPT ![r].fresh = loc[r].fresh]
          BY <1>0 DEF TypeOK
    <3> QED BY <1>3, <3>1 DEF Validate
  <2> QED BY <1>3, <2>1 DEF Validate, TypeOK
<1>4. CASE Refuse(r)
  <2>1. cache' \in [File -> Content]
        BY <1>4, NothingType DEF Refuse, Put, TypeOK
  <2> QED BY <1>4, <2>1, AnswerType, NothingType DEF Refuse, TypeOK
<1>5. CASE Serve(r)
  <2>1. cache[loc[r].file] \in Content
        BY <1>0 DEF TypeOK
  <2> QED BY <1>5, <2>1, AnswerType DEF Serve, TypeOK
<1>6. CASE Fetch(r)
  <2>1. CASE Answer(r, Nothing)
        BY <1>6, <2>1, AnswerType, NothingType DEF Fetch, TypeOK
  <2>2. CASE /\ loc' = [loc EXCEPT ![r].got = upstream]
             /\ Goto(r, IF shouldCache(loc[r].file) THEN "mkdir" ELSE "pass")
        BY <1>0, <1>6, <2>2 DEF Fetch, TypeOK
  <2> QED BY <1>6, <2>1, <2>2 DEF Fetch
<1>7. CASE Pass(r)
  <2>1. PICK whole \in BOOLEAN : Answer(r, [body |-> loc[r].got, whole |-> whole])
        BY <1>7 DEF Pass
  <2>2. [body |-> loc[r].got, whole |-> whole] \in Content
        BY <1>0 DEF Content
  <2> QED BY <1>7, <2>1, <2>2, AnswerType DEF Pass, TypeOK
<1>8. CASE Mkdir(r)
  <2>1. loc[r].file[1] \in 0..NDirs
        BY <1>0, FileDirs
  <2>2. dirs' \subseteq 0..NDirs
        BY <1>8, <2>1 DEF Mkdir, TypeOK
  <2>3. pc' \in [Requests -> Steps]
        BY <1>8 DEF Mkdir, TypeOK
  <2> QED BY <1>8, <2>2, <2>3 DEF Mkdir, TypeOK
<1>9. CASE CreateTemp(r)
  <2>1. PICK step \in {"copy", "pass"} : Goto(r, step)
        BY <1>9 DEF CreateTemp
  <2>2. loc' \in [Requests -> Local]
    <3>1. CASE UNCHANGED loc
          BY <3>1 DEF TypeOK
    <3>2. CASE loc' = [loc EXCEPT ![r].temp = TRUE]
          BY <3>2 DEF TypeOK
    <3> QED BY <1>9, <3>1, <3>2 DEF CreateTemp
  <2> QED BY <1>9, <2>1, <2>2 DEF CreateTemp, TypeOK
<1>10. CASE Copy(r)
  <2>1. PICK content \in Content : loc' = [loc EXCEPT ![r].out = content]
        BY <1>0, <1>10 DEF Copy, Content
  <2>2. loc' \in [Requests -> Local]
        BY <2>1 DEF TypeOK
  <2> QED BY <1>10, <2>2 DEF Copy, TypeOK
<1>11. CASE Rename(r)
  <2>1. cache' \in [File -> Content]
        BY <1>0, <1>11 DEF Rename, Put, TypeOK
  <2>2. loc' \in [Requests -> Local]
        BY <1>11 DEF Rename, TypeOK
  <2> QED BY <1>11, <2>1, <2>2 DEF Rename, TypeOK
<1>12. CASE RenameFails(r)
      BY <1>12 DEF RenameFails, TypeOK
<1>13. CASE Return(r)
      BY <1>13, NothingType DEF Return, TypeOK
<1> QED BY <1>1, <1>2, <1>3, <1>4, <1>5, <1>6, <1>7, <1>8, <1>9, <1>10, <1>11,
           <1>12, <1>13 DEF Step

\* And the clean-up, the arrival of a request, and the environment.
LEMMA TypeNext == TypeOK /\ [Next]_vars => TypeOK'
<1> SUFFICES ASSUME TypeOK, [Next]_vars PROVE TypeOK'
    OBVIOUS
<1> USE DEF Local, Steps, Goto
<1>1. ASSUME NEW r \in Requests, Ask(r) PROVE TypeOK'
  <2>1. upstream \in 0..MaxBody /\ 0 \in 0..MaxBody
        BY BoundsAssumption DEF TypeOK
  <2>2. PICK file \in File, floor \in 0..MaxBody :
          loc' = [loc EXCEPT ![r] = [loc[r] EXCEPT !.file = file, !.floor = floor]]
        BY <1>1, <2>1 DEF Ask
  <2>3. loc' \in [Requests -> Local]
        BY <2>2 DEF TypeOK
  <2> QED BY <1>1, <2>3 DEF Ask, TypeOK
<1>2. ASSUME NEW r \in Requests, Step(r) PROVE TypeOK'
      BY <1>2, TypeStep
<1>3. ASSUME NEW c \in Cleaners, Scan(c) PROVE TypeOK'
  <2>1. OldDirs \subseteq Dirs
        BY DEF OldDirs, VersionDirs
  <2> QED BY <1>3, <2>1 DEF Scan, TypeOK
<1>4. ASSUME NEW c \in Cleaners, RemoveDir(c) PROVE TypeOK'
  <2>1. PICK d \in doomed[c], gone \in SUBSET File, lost \in SUBSET Requests :
          /\ cache' = [file \in File |-> IF file \in gone THEN Nothing ELSE cache[file]]
          /\ loc' = [r \in Requests |->
                       IF r \in lost THEN [loc[r] EXCEPT !.temp = FALSE] ELSE loc[r]]
          /\ dirs' \subseteq dirs
          /\ doomed' = [doomed EXCEPT ![c] = @ \ {d}]
          /\ UNCHANGED <<upstream, pc>>
        BY <1>4 DEF RemoveDir
  <2>2. cache' \in [File -> Content]
        BY <2>1, NothingType DEF TypeOK
  <2>3. loc' \in [Requests -> Local]
        BY <2>1 DEF TypeOK
  <2> QED BY <2>1, <2>2, <2>3 DEF TypeOK
<1>5. CASE Release
      BY <1>5, BoundsAssumption DEF Release, TypeOK
<1>6. CASE Crash
      BY <1>6, NothingType DEF Crash, TypeOK
<1>7. CASE UNCHANGED vars
      BY <1>7 DEF vars, TypeOK
<1> QED BY <1>1, <1>2, <1>3, <1>4, <1>5, <1>6, <1>7 DEF Next

LEMMA TypeInit == Init => TypeOK
<1> SUFFICES ASSUME Init PROVE TypeOK
    OBVIOUS
<1>1. [body |-> 1, whole |-> TRUE] \in Content
      BY BoundsAssumption DEF Content
<1>2. cache \in [File -> Content]
      BY <1>1, NothingType DEF Init
<1> QED BY <1>2, NothingType, BoundsAssumption DEF Init, TypeOK, Local

\* Every reachable state has the shape TypeOK gives, whatever requests,
\* clean-up runs, CDN and disk do.
THEOREM TypeCorrect == Spec => []TypeOK
BY TypeInit, TypeNext, PTL DEF Spec

----------------------------------------------------------------------------
(* What requests answer and cache.                                         *)

\* What request r knows at each step: of versions.id, that it will not answer
\* from the cache; of an engine, that the one checked is still there, or that
\* another was renamed to its name; of an answer of the CDN, that it has one.
Phase(r) ==
    /\ loc[r].floor <= upstream
    /\ loc[r].file = VersionsId => pc[r] \in {"idle", "stat", "cdn", "pass", "answered"}
    /\ pc[r] \in {"idle", "stat", "check", "refuse", "serve", "cdn"} => loc[r].got = 0
    /\ pc[r] \in {"pass", "mkdir", "temp", "copy", "rename"} => loc[r].got # 0
    /\ pc[r] = "pass" => loc[r].got >= loc[r].floor
    /\ pc[r] \in {"mkdir", "temp", "copy"} => loc[r].got >= loc[r].floor
    /\ pc[r] = "serve" /\ loc[r].file[2] = "engine" /\ loc[r].fresh =>
          cache[loc[r].file].body \notin Windows
    /\ pc[r] = "rename" => loc[r].out.body = loc[r].got /\ loc[r].out.whole
    /\ pc[r] = "answered" =>
          /\ loc[r].file = VersionsId /\ loc[r].out # Nothing => loc[r].out.body >= loc[r].floor
          /\ loc[r].got # 0 => loc[r].out.body = loc[r].got
          /\ loc[r].file[2] = "engine" /\ loc[r].got = 0 /\ loc[r].fresh =>
                loc[r].out.body \notin Windows

Inv == TypeOK /\ CachedWhole /\ \A r \in Requests : Phase(r)

\* How what others do shows to request r.
Frame(r) ==
    /\ pc'[r] = pc[r]
    /\ loc'[r].file = loc[r].file /\ loc'[r].got = loc[r].got
    /\ loc'[r].out = loc[r].out /\ loc'[r].floor = loc[r].floor
    /\ upstream <= upstream'
    /\ loc'[r].fresh =>
          loc[r].fresh /\ cache'[loc[r].file] \in {cache[loc[r].file], Nothing}

LEMMA NothingIsLinux == Nothing.body \notin Windows /\ Nothing.whole /\ Nothing.body = 0
BY BoundsAssumption DEF Nothing

LEMMA FramePhase ==
    ASSUME TypeOK, TypeOK', NEW r \in Requests, Phase(r), Frame(r)
    PROVE  Phase(r)'
<1>1. /\ upstream \in Nat /\ upstream' \in Nat /\ loc[r].floor \in Nat
      /\ loc[r].fresh \in BOOLEAN
      BY BoundsAssumption DEF TypeOK
<1>2. loc[r].floor <= upstream'
      BY <1>1 DEF Phase, Frame
<1>3. (pc[r] = "serve" /\ loc[r].file[2] = "engine" /\ loc[r].fresh =>
          cache[loc[r].file].body \notin Windows)'
      BY NothingIsLinux DEF Phase, Frame
<1> QED BY <1>2, <1>3 DEF Phase, Frame

\* A step gives the request what its next phase says.
LEMMA OwnPhase ==
    ASSUME Inv, TypeOK', NEW r \in Requests, Step(r)
    PROVE  Phase(r)'
<1>0. /\ loc[r] \in Local /\ loc[r].file \in File /\ upstream \in 1..MaxBody
      /\ cache[loc[r].file] \in Content /\ r \in DOMAIN loc /\ r \in DOMAIN pc
      /\ MaxBody \in Nat
      BY BoundsAssumption DEF Inv, TypeOK, Local
<1> USE DEF Goto, At
<1>1. CASE DropOldCopy(r)
      BY <1>0, <1>1 DEF Inv, Phase, DropOldCopy, shouldCache
<1>2. CASE Stat(r)
      BY <1>0, <1>2 DEF Inv, Phase, Stat, shouldCache
<1>3. CASE Validate(r)
      BY <1>0, <1>3 DEF Inv, Phase, Validate, Local
<1>4. CASE Refuse(r)
      BY <1>0, <1>4, NothingIsLinux DEF Inv, Phase, Refuse, Answer, Local
<1>5. CASE Serve(r)
      BY <1>0, <1>5 DEF Inv, Phase, Serve, Answer, Local
<1>6. CASE Fetch(r)
  <2>1. CASE Answer(r, Nothing)
        BY <1>0, <1>6, <2>1, NothingIsLinux DEF Inv, Phase, Fetch, Answer, Local
  <2>2. CASE /\ loc' = [loc EXCEPT ![r].got = upstream]
             /\ Goto(r, IF shouldCache(loc[r].file) THEN "mkdir" ELSE "pass")
    <3>1. /\ loc'[r] = [loc[r] EXCEPT !.got = upstream] /\ upstream' = upstream
          /\ pc'[r] = IF loc[r].file # VersionsId THEN "mkdir" ELSE "pass"
          BY <1>0, <1>6, <2>2 DEF Fetch, shouldCache
    <3>2. /\ loc'[r].got = upstream /\ loc'[r].floor = loc[r].floor
          /\ loc'[r].file = loc[r].file
          BY <1>0, <3>1 DEF Local
    <3>3. loc[r].floor <= upstream /\ loc[r].floor \in Nat
          BY <1>0 DEF Inv, Phase, Local
    <3> QED BY <1>0, <3>1, <3>2, <3>3 DEF Phase
  <2> QED BY <1>6, <2>1, <2>2 DEF Fetch
<1>7. CASE Pass(r)
  <2>1. PICK whole \in BOOLEAN :
           loc' = [loc EXCEPT ![r].out = [body |-> loc[r].got, whole |-> whole]]
        BY <1>7 DEF Pass, Answer
  <2>2. /\ loc'[r].out.body = loc[r].got /\ loc'[r].got = loc[r].got
        /\ loc'[r].floor = loc[r].floor /\ loc'[r].file = loc[r].file
        BY <1>0, <2>1 DEF Local
  <2>3. pc[r] = "pass" /\ pc'[r] = "answered" /\ upstream' = upstream
        BY <1>0, <1>7 DEF Pass, Answer
  <2> QED BY <2>2, <2>3 DEF Inv, Phase
<1>8. CASE Mkdir(r)
      BY <1>0, <1>8 DEF Inv, Phase, Mkdir
<1>9. CASE CreateTemp(r)
      BY <1>0, <1>9 DEF Inv, Phase, CreateTemp, Local
<1>10. CASE Copy(r)
  <2>1. PICK whole \in BOOLEAN :
          /\ loc' = [loc EXCEPT ![r].out = [body |-> loc[r].got, whole |-> whole]]
          /\ Goto(r, IF whole THEN "rename" ELSE "answered")
        BY <1>10 DEF Copy
  <2>2. /\ loc'[r].out.body = loc[r].got /\ loc'[r].out.whole = whole
        /\ loc'[r].got = loc[r].got
        /\ loc'[r].floor = loc[r].floor /\ loc'[r].file = loc[r].file
        BY <1>0, <2>1 DEF Local
  <2>3. /\ pc[r] = "copy" /\ upstream' = upstream
        /\ pc'[r] = IF whole THEN "rename" ELSE "answered"
        BY <1>0, <1>10, <2>1 DEF Copy
  <2> QED BY <2>2, <2>3 DEF Inv, Phase
<1>11. CASE Rename(r)
  <2>1. loc'[r] = [loc[r] EXCEPT !.temp = FALSE] /\ upstream' = upstream
        BY <1>0, <1>11 DEF Rename
  <2>2. /\ loc'[r].out = loc[r].out /\ loc'[r].got = loc[r].got
        /\ loc'[r].floor = loc[r].floor /\ loc'[r].file = loc[r].file
        BY <1>0, <2>1 DEF Local
  <2>3. pc[r] = "rename" /\ pc'[r] = "answered"
        BY <1>0, <1>11 DEF Rename
  <2> QED BY <2>1, <2>2, <2>3 DEF Inv, Phase
<1>12. CASE RenameFails(r)
      BY <1>0, <1>12 DEF Inv, Phase, RenameFails
<1>13. CASE Return(r)
      BY <1>0, <1>13 DEF Inv, Phase, Return, NoLoc
<1> QED BY <1>1, <1>2, <1>3, <1>4, <1>5, <1>6, <1>7, <1>8, <1>9, <1>10, <1>11,
           <1>12, <1>13 DEF Step

\* And it disturbs no other beyond what Frame allows.
LEMMA StepFrame ==
    ASSUME Inv, NEW r \in Requests, Step(r), NEW q \in Requests \ {r}
    PROVE  Frame(q)
<1>0. /\ upstream \in Nat /\ q \in DOMAIN loc /\ q \in DOMAIN pc /\ loc[q].file \in File
      BY BoundsAssumption DEF Inv, TypeOK
<1> USE DEF Goto, Answer, Put
<1>1. CASE Rename(r)
  <2>1. /\ cache' = [cache EXCEPT ![loc[r].file] = loc[r].out]
        /\ loc'[q] = [loc[q] EXCEPT !.fresh = @ /\ loc[q].file # loc[r].file]
        BY <1>1 DEF Rename
  <2>2. /\ loc'[q].file = loc[q].file /\ loc'[q].got = loc[q].got
        /\ loc'[q].out = loc[q].out /\ loc'[q].floor = loc[q].floor
        /\ loc'[q].fresh = (loc[q].fresh /\ loc[q].file # loc[r].file)
        BY <1>0, <2>1 DEF Inv, TypeOK
  <2>3. loc[q].file # loc[r].file => cache'[loc[q].file] = cache[loc[q].file]
        BY <1>0, <2>1 DEF Inv, TypeOK
  <2>4. pc'[q] = pc[q] /\ upstream' = upstream
        BY <1>0, <1>1 DEF Rename
  <2>5. loc'[q].fresh => loc[q].fresh /\ loc[q].file # loc[r].file
        BY <2>2
  <2> QED BY <1>0, <2>2, <2>3, <2>4, <2>5 DEF Frame
<1>2. ASSUME loc'[q] = loc[q], pc'[q] = pc[q], upstream' = upstream,
             UNCHANGED cache \/ cache' = [cache EXCEPT ![loc[r].file] = Nothing]
      PROVE  Frame(q)
      BY <1>0, <1>2 DEF Frame, Inv, TypeOK
<1>3. CASE DropOldCopy(r)
      BY <1>0, <1>2, <1>3 DEF DropOldCopy
<1>4. CASE Stat(r) \/ Validate(r)
      BY <1>0, <1>2, <1>4 DEF Stat, Validate
<1>5. CASE Refuse(r)
      BY <1>0, <1>2, <1>5 DEF Refuse
<1>6. CASE Serve(r) \/ Fetch(r)
      BY <1>0, <1>2, <1>6 DEF Serve, Fetch
<1>7. CASE Pass(r) \/ Mkdir(r)
      BY <1>0, <1>2, <1>7 DEF Pass, Mkdir
<1>8. CASE CreateTemp(r) \/ Copy(r)
      BY <1>0, <1>2, <1>8 DEF CreateTemp, Copy
<1>9. CASE RenameFails(r) \/ Return(r)
      BY <1>0, <1>2, <1>9 DEF RenameFails, Return
<1> QED BY <1>1, <1>3, <1>4, <1>5, <1>6, <1>7, <1>8, <1>9 DEF Step

\* No step puts anything broken off into the cache.
LEMMA StepWhole ==
    ASSUME Inv, NEW r \in Requests, Step(r)
    PROVE  CachedWhole'
<1>1. CASE UNCHANGED cache
      BY <1>1 DEF Inv, CachedWhole
<1>2. ASSUME NEW content, content.whole, Put(loc[r].file, content)
      PROVE  CachedWhole'
      BY <1>2 DEF Put, Inv, TypeOK, CachedWhole
<1>3. CASE Rename(r)
      BY <1>2, <1>3 DEF Rename, At, Inv, Phase
<1>4. CASE DropOldCopy(r) \/ Refuse(r)
      BY <1>1, <1>2, <1>4, NothingIsLinux DEF DropOldCopy, Refuse
<1> QED BY <1>1, <1>3, <1>4
        DEF Step, Stat, Validate, Serve, Fetch, Pass, Mkdir, CreateTemp, Copy,
            RenameFails, Return

LEMMA InvNext == Inv /\ [Next]_vars => Inv'
<1> SUFFICES ASSUME Inv, [Next]_vars PROVE Inv'
    OBVIOUS
<1>0. TypeOK' /\ upstream \in 1..MaxBody /\ upstream' \in 1..MaxBody
      BY TypeNext DEF Inv, TypeOK
<1>1. ASSUME NEW r \in Requests, Ask(r) PROVE Inv'
  <2>1. CachedWhole'
        BY <1>1 DEF Ask, Inv, CachedWhole
  <2>2. Phase(r)'
    <3>1. /\ loc[r] \in Local /\ r \in DOMAIN loc /\ r \in DOMAIN pc
          BY DEF Inv, TypeOK, Local
    <3>2. PICK file \in File :
            loc' = [loc EXCEPT ![r] = [@ EXCEPT !.file = file,
                      !.floor = IF file = VersionsId THEN upstream ELSE 0]]
          BY <1>1 DEF Ask
    <3>3. /\ loc'[r].got = loc[r].got /\ loc'[r].file = file
          /\ loc'[r].floor = IF file = VersionsId THEN upstream ELSE 0
          BY <3>1, <3>2 DEF Local
    <3>4. pc[r] = "idle" /\ pc'[r] = "stat" /\ upstream' = upstream
          BY <1>1, <3>1 DEF Ask, At, Goto
    <3>5. loc[r].got = 0
          BY <3>4 DEF Inv, Phase
    <3>6. loc'[r].floor <= upstream'
          BY <1>0, <3>3, <3>4, BoundsAssumption
    <3> QED BY <3>3, <3>4, <3>5, <3>6 DEF Phase
  <2>3. ASSUME NEW q \in Requests \ {r} PROVE Phase(q)'
    <3>1. loc'[q] = loc[q] /\ pc'[q] = pc[q] /\ UNCHANGED <<cache, upstream>>
          BY <1>1 DEF Ask, Goto, Inv, TypeOK
    <3>2. Frame(q)
          BY <1>0, <3>1, BoundsAssumption DEF Frame
    <3> QED BY <1>0, <3>2, FramePhase DEF Inv
  <2> QED BY <1>0, <2>1, <2>2, <2>3 DEF Inv
<1>2. ASSUME NEW r \in Requests, Step(r) PROVE Inv'
  <2>1. ASSUME NEW q \in Requests \ {r} PROVE Phase(q)'
        BY <1>0, <1>2, StepFrame, FramePhase DEF Inv
  <2> QED BY <1>0, <1>2, <2>1, OwnPhase, StepWhole DEF Inv
<1>3. ASSUME UNCHANGED <<cache, pc, loc>>, upstream <= upstream' PROVE Inv'
  <2>1. ASSUME NEW r \in Requests PROVE Frame(r)
        BY <1>3 DEF Frame
  <2>2. CachedWhole'
        BY <1>3 DEF Inv, CachedWhole
  <2> QED BY <1>0, <2>1, <2>2, FramePhase DEF Inv
<1>4. ASSUME NEW c \in Cleaners, Scan(c) PROVE Inv'
      BY <1>0, <1>3, <1>4, BoundsAssumption DEF Scan
<1>5. ASSUME NEW c \in Cleaners, RemoveDir(c) PROVE Inv'
  <2>1. PICK gone \in SUBSET File, lost \in SUBSET Requests :
          /\ cache' = [file \in File |-> IF file \in gone THEN Nothing ELSE cache[file]]
          /\ loc' = [r \in Requests |->
                       IF r \in lost THEN [loc[r] EXCEPT !.temp = FALSE] ELSE loc[r]]
          /\ UNCHANGED <<upstream, pc>>
        BY <1>5 DEF RemoveDir
  <2>2. CachedWhole'
        BY <2>1, NothingIsLinux DEF Inv, CachedWhole
  <2>3. ASSUME NEW r \in Requests PROVE Frame(r)
    <3>1. loc[r] \in Local /\ loc[r].file \in File
          BY DEF Inv, TypeOK, Local
    <3>2. /\ loc'[r].file = loc[r].file /\ loc'[r].got = loc[r].got
          /\ loc'[r].out = loc[r].out /\ loc'[r].floor = loc[r].floor
          /\ loc'[r].fresh = loc[r].fresh
          BY <2>1, <3>1 DEF Local
    <3>3. cache'[loc[r].file] \in {cache[loc[r].file], Nothing}
          BY <2>1, <3>1
    <3> QED BY <1>0, <2>1, <3>2, <3>3, BoundsAssumption DEF Frame
  <2> QED BY <1>0, <2>2, <2>3, FramePhase DEF Inv
<1>6. CASE Release
      BY <1>0, <1>3, <1>6, BoundsAssumption DEF Release
<1>7. CASE Crash
  <2>1. ASSUME NEW r \in Requests PROVE Phase(r)'
        BY <1>0, <1>7, <2>1, BoundsAssumption DEF Crash, Phase, NoLoc
  <2>2. CachedWhole'
        BY <1>7 DEF Crash, Inv, CachedWhole
  <2> QED BY <1>0, <2>1, <2>2 DEF Inv
<1>8. CASE UNCHANGED vars
      BY <1>0, <1>3, <1>8, BoundsAssumption DEF vars
<1> QED BY <1>1, <1>2, <1>4, <1>5, <1>6, <1>7, <1>8 DEF Next

LEMMA InvInit == Init => Inv
<1> SUFFICES ASSUME Init PROVE Inv
    OBVIOUS
<1>1. CachedWhole
      BY NothingIsLinux DEF Init, CachedWhole
<1>2. ASSUME NEW r \in Requests PROVE Phase(r)
      BY <1>2 DEF Init, Phase, NoLoc
<1> QED BY <1>1, <1>2, TypeInit DEF Inv

LEMMA InvHolds == Spec => []Inv
BY InvInit, InvNext, PTL DEF Spec

\* Whatever transfer breaks off, whichever requests fill one path and wherever
\* the process dies, the cache holds only whole bodies.
THEOREM CacheIsWhole == Spec => []CachedWhole
<1>1. Inv => CachedWhole
      BY DEF Inv
<1> QED BY <1>1, InvHolds, PTL

\* An engine is answered from the cache only as a Linux one, unless another
\* download was renamed to its name after it was checked.
THEOREM EnginesChecked == Spec => []ServedChecked
<1>1. Inv => ServedChecked
      BY DEF Inv, Phase, ServedChecked
<1> QED BY <1>1, InvHolds, PTL

\* versions.id is answered no older than it was when the request came.
THEOREM IdsFresh == Spec => []IdFresh
<1>1. Inv => IdFresh
      BY DEF Inv, Phase, IdFresh
<1> QED BY <1>1, InvHolds, PTL

\* An answer of the CDN reaches its client, whatever happens to the cache.
THEOREM AnswersReach == Spec => []ProxiedWhole
<1>1. Inv => ProxiedWhole
      BY DEF Inv, Phase, ProxiedWhole
<1> QED BY <1>1, InvHolds, PTL

----------------------------------------------------------------------------
(* What is cleaned up.                                                     *)

Kept == Max({1, KeepVersions})

\* Of every directory still to be removed, the newer ones that count stand.
DoomedOld ==
    \A c \in Cleaners : \A d \in doomed[c] : Cardinality(Newer(d, VersionDirs)) >= Kept

LEMMA KeptType == Kept \in Nat
<1>1. \E x \in {1, KeepVersions} : \A y \in {1, KeepVersions} : x >= y
      BY BoundsAssumption
<1>2. Kept \in {1, KeepVersions}
      BY <1>1 DEF Kept, Max
<1> QED BY <1>2, BoundsAssumption

\* Counting directories, and fewer of them.
LEMMA Counting ==
    ASSUME NEW S \in SUBSET (0..NDirs), NEW T \in SUBSET S
    PROVE  /\ Cardinality(S) \in Nat /\ Cardinality(T) \in Nat
           /\ Cardinality(T) <= Cardinality(S)
<1>1. IsFiniteSet(0..NDirs)
      BY FS_Interval, BoundsAssumption
<1>2. IsFiniteSet(S)
      BY <1>1, FS_Subset
<1>3. IsFiniteSet(T) /\ Cardinality(T) <= Cardinality(S)
      BY <1>2, FS_Subset
<1> QED BY <1>2, <1>3, FS_CardinalityType

\* While no directory is removed, what is doomed stays old.
LEMMA DoomedStays ==
    ASSUME TypeOK, TypeOK', DoomedOld, dirs \subseteq dirs',
           NEW c \in Cleaners, NEW d \in doomed[c]
    PROVE  Cardinality(Newer(d, VersionDirs')) >= Kept
<1>1. /\ Newer(d, VersionDirs') \in SUBSET (0..NDirs)
      /\ Newer(d, VersionDirs) \in SUBSET Newer(d, VersionDirs')
      BY DEF Newer, VersionDirs, TypeOK
<1>2. /\ Cardinality(Newer(d, VersionDirs)) \in Nat
      /\ Cardinality(Newer(d, VersionDirs')) \in Nat
      /\ Cardinality(Newer(d, VersionDirs)) <= Cardinality(Newer(d, VersionDirs'))
      BY <1>1, Counting
<1> QED BY <1>2, KeptType DEF DoomedOld

\* What is removed is doomed, and what else is doomed is older, or else as new
\* directories remain as it needs: those the removed one had.
LEMMA Removal ==
    ASSUME TypeOK, TypeOK', DoomedOld, NEW c \in Cleaners, RemoveDir(c)
    PROVE  /\ DoomedOld'
           /\ \A d \in dirs \ dirs' : Cardinality(Newer(d, dirs')) >= Kept
<1>1. PICK d \in doomed[c] :
        /\ doomed' = [doomed EXCEPT ![c] = @ \ {d}]
        /\ dirs' = dirs \/ dirs' = dirs \ {d}
      BY DEF RemoveDir
<1>2. d \in Dirs /\ Dirs \subseteq Nat /\ doomed[c] \subseteq Dirs
      BY DEF TypeOK, Dirs
<1>3. \A b \in Cleaners : doomed'[b] \subseteq doomed[b] /\ doomed[b] \subseteq Dirs
      BY <1>1 DEF TypeOK
<1>4. CASE dirs' = dirs
  <2>1. DoomedOld'
        BY <1>3, <1>4, DoomedStays DEF DoomedOld
  <2> QED BY <1>4, <2>1
<1>5. CASE dirs' = dirs \ {d}
  <2>1. Cardinality(Newer(d, VersionDirs)) >= Kept
        BY DEF DoomedOld
  <2>2. ASSUME NEW e \in Dirs, Cardinality(Newer(e, VersionDirs)) >= Kept
        PROVE  Cardinality(Newer(e, VersionDirs')) >= Kept
    <3>1. Newer(e, VersionDirs') \in SUBSET (0..NDirs)
          BY DEF Newer, VersionDirs, Dirs
    <3>2. CASE e < d
      <4>1. Newer(d, VersionDirs) \in SUBSET Newer(e, VersionDirs')
            BY <1>2, <1>5, <3>2 DEF Newer, VersionDirs, Dirs
      <4>2. /\ Cardinality(Newer(d, VersionDirs)) \in Nat
            /\ Cardinality(Newer(e, VersionDirs')) \in Nat
            /\ Cardinality(Newer(d, VersionDirs)) <= Cardinality(Newer(e, VersionDirs'))
            BY <3>1, <4>1, Counting
      <4> QED BY <2>1, <4>2, KeptType
    <3>3. CASE ~(e < d)
      <4>1. Newer(e, VersionDirs) = Newer(e, VersionDirs')
            BY <1>2, <1>5, <3>3 DEF Newer, VersionDirs, Dirs
      <4> QED BY <2>2, <4>1
    <3> QED BY <3>2, <3>3
  <2>3. DoomedOld'
        BY <1>3, <2>2 DEF DoomedOld
  <2>4. Cardinality(Newer(d, dirs')) >= Kept
    <3>1. /\ Newer(d, dirs') \in SUBSET (0..NDirs)
          /\ Newer(d, VersionDirs') \in SUBSET Newer(d, dirs')
          BY DEF Newer, VersionDirs, TypeOK
    <3>2. /\ Cardinality(Newer(d, VersionDirs')) \in Nat
          /\ Cardinality(Newer(d, dirs')) \in Nat
          /\ Cardinality(Newer(d, VersionDirs')) <= Cardinality(Newer(d, dirs'))
          BY <3>1, Counting
    <3>3. Cardinality(Newer(d, VersionDirs')) >= Kept
          BY <1>2, <2>1, <2>2
    <3> QED BY <3>2, <3>3, KeptType
  <2> QED BY <1>5, <2>3, <2>4
<1> QED BY <1>1, <1>4, <1>5

LEMMA DoomedNext ==
    ASSUME TypeOK, TypeOK', DoomedOld, [Next]_vars
    PROVE  /\ DoomedOld'
           /\ \A d \in dirs \ dirs' : Cardinality(Newer(d, dirs')) >= Kept
<1>1. ASSUME NEW c \in Cleaners, RemoveDir(c)
      PROVE  /\ DoomedOld'
             /\ \A d \in dirs \ dirs' : Cardinality(Newer(d, dirs')) >= Kept
      BY <1>1, Removal
<1>2. ASSUME dirs \subseteq dirs', \A c \in Cleaners : doomed'[c] \subseteq doomed[c]
      PROVE  /\ DoomedOld'
             /\ \A d \in dirs \ dirs' : Cardinality(Newer(d, dirs')) >= Kept
  <2>1. DoomedOld'
        BY <1>2, DoomedStays DEF DoomedOld
  <2> QED BY <1>2, <2>1
<1>3. ASSUME NEW r \in Requests, Ask(r) \/ Step(r)
      PROVE  dirs \subseteq dirs' /\ UNCHANGED doomed
      BY <1>3 DEF Ask, Step, DropOldCopy, Stat, Validate, Refuse, Serve, Fetch, Pass,
                  Mkdir, CreateTemp, Copy, Rename, RenameFails, Return
<1>4. ASSUME NEW c \in Cleaners, Scan(c)
      PROVE  DoomedOld' /\ UNCHANGED dirs
  <2>1. doomed' = [doomed EXCEPT ![c] = OldDirs] /\ UNCHANGED dirs
        BY <1>4 DEF Scan
  <2>2. \A d \in OldDirs : Cardinality(Newer(d, VersionDirs)) >= Kept
        BY DEF OldDirs, Kept
  <2>3. VersionDirs' = VersionDirs
        BY <2>1 DEF VersionDirs
  <2> QED BY <2>1, <2>2, <2>3 DEF DoomedOld, TypeOK
<1>5. CASE Release \/ UNCHANGED vars
      BY <1>2, <1>5 DEF Release, vars
<1>6. CASE Crash
      BY <1>2, <1>6 DEF Crash
<1> QED BY <1>1, <1>2, <1>3, <1>4, <1>5, <1>6 DEF Next

\* A version directory is only removed while as many newer ones as are to be
\* kept stand, also when runs clean up by listings of different age and
\* requests create directories, those just removed among them.
THEOREM NewestStay == Spec => NewestKept
<1>1. Init => DoomedOld
      BY DEF Init, DoomedOld
<1>2. TypeOK /\ TypeOK' /\ DoomedOld /\ [Next]_vars =>
        DoomedOld' /\ [\A d \in dirs \ dirs' :
                         Cardinality(Newer(d, dirs')) >= Max({1, KeepVersions})]_dirs
      BY DoomedNext DEF Kept
<1> QED BY <1>1, <1>2, TypeCorrect, PTL DEF Spec, NewestKept
=============================================================================
