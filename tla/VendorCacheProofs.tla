------------------------- MODULE VendorCacheProofs -------------------------
(***************************************************************************)
(* Proofs about VendorCache, for any number of requests and versions and   *)
(* any faults.  One induction serves all: Inv says what each phase of a    *)
(* request knows of the one file whose lock it holds.                      *)
(***************************************************************************)
EXTENDS VendorCache, TLAPS

Local == [file : File, todo : SUBSET {"dat", "id"}, body : Content, floor : Version]

----------------------------------------------------------------------------
(* Type correctness.                                                       *)

LEMMA ZeroVersion == 0 \in Version
BY BoundsAssumption DEF Version

LEMMA NoLocType == NoLoc \in Local /\ Absent \in Content
BY ZeroVersion DEF NoLoc, Local, Absent, Content, File

\* Answering leaves the shape.
LEMMA ReturnType ==
    ASSUME TypeOK, NEW r \in Requests, Return(r)
    PROVE  /\ pc' \in [Requests -> {"idle", "lock"} \cup Inside]
           /\ loc' \in [Requests -> Local]
           /\ lock' \in [File -> Requests \cup {None}]
BY NoLocType DEF TypeOK, Return, Goto, Local

\* So do the steps of a request that has its lock.
LEMMA TypeStep ==
    ASSUME TypeOK, NEW r \in Requests, Step(r)
    PROVE  TypeOK'
<1> USE DEF Local, Inside, Goto
<1>0. /\ upstream \in Version /\ manifest \in Version
      /\ loc[r] \in Local
      BY BoundsAssumption DEF TypeOK, Version
<1>1. CASE Glob(r)
      BY <1>1 DEF Glob, TypeOK, File
<1>2. CASE Purge(r)
  <2>1. CASE loc[r].todo = {} /\ Goto(r, "stat") /\ UNCHANGED <<cache, loc>>
        BY <1>2, <2>1 DEF Purge, TypeOK
  <2>2. ASSUME NEW file \in {"dat", "id"}, Put(file, Absent),
               loc' = [loc EXCEPT ![r].todo = @ \ {file}], UNCHANGED pc
        PROVE  TypeOK'
    <3>1. cache' \in [File -> Content]
          BY <2>2, NoLocType DEF Put, TypeOK, File
    <3>2. loc' \in [Requests -> Local]
          BY <2>2 DEF TypeOK
    <3> QED BY <1>2, <2>2, <3>1, <3>2 DEF Purge, TypeOK
  <2>3. CASE /\ loc' = [loc EXCEPT ![r] = [@ EXCEPT !.todo = {}, !.floor = 0]]
             /\ Goto(r, "stat") /\ UNCHANGED cache
        BY <1>2, <2>3, ZeroVersion DEF Purge, TypeOK
  <2> QED BY <1>2, <2>1, <2>2, <2>3 DEF Purge
<1>3. CASE Stat(r)
      BY <1>3 DEF Stat, Ready, TypeOK
<1>4. ASSUME NEW v \in Version, Receive(r, v),
             UNCHANGED <<upstream, cache, expired, lock, manifest>>
      PROVE  TypeOK'
  <2>1. PICK body \in Content : loc' = [loc EXCEPT ![r].body = body]
        BY <1>4 DEF Receive, Content
  <2>2. loc' \in [Requests -> Local]
        BY <2>1 DEF TypeOK
  <2> QED BY <1>4, <2>2 DEF Receive, TypeOK
<1>5. CASE Get(r) \/ GetPlain(r) \/ GetListed(r)
      BY <1>0, <1>4, <1>5 DEF Get, GetPlain, GetListed
<1>6. CASE LoadManifest(r)
      BY <1>0, <1>6 DEF LoadManifest, TypeOK
<1>7. CASE GetFails(r) \/ WriteFails(r) \/ Unlock(r)
      BY <1>7, ReturnType DEF GetFails, WriteFails, Unlock, TypeOK
<1>8. CASE Write(r)
      BY <1>8, <1>0 DEF Write, Put, TypeOK
<1>9. CASE Validate(r)
      BY <1>9 DEF Validate, TypeOK
<1>10. CASE Reject(r)
  <2>1. cache' \in [File -> Content]
        BY <1>10, NoLocType DEF Reject, Put, TypeOK
  <2> QED BY <1>10, <2>1, ReturnType DEF Reject, TypeOK
<1>11. CASE Serve(r)
      BY <1>11, <1>0 DEF Serve, TypeOK
<1> QED BY <1>1, <1>2, <1>3, <1>5, <1>6, <1>7, <1>8, <1>9, <1>10, <1>11 DEF Step

\* And the arrival of a request, its lock, and the environment.
LEMMA TypeNext == TypeOK /\ [Next]_vars => TypeOK'
<1> SUFFICES ASSUME TypeOK, [Next]_vars PROVE TypeOK'
    OBVIOUS
<1>1. ASSUME NEW r \in Requests, Request(r) PROVE TypeOK'
      BY <1>1 DEF Request, TypeOK, Goto
<1>2. ASSUME NEW r \in Requests, Lock(r) PROVE TypeOK'
      BY <1>2, BoundsAssumption DEF Lock, TypeOK, Goto, Inside, Version
<1>3. ASSUME NEW r \in Requests, Step(r) PROVE TypeOK'
      BY <1>3, TypeStep
<1>4. CASE Release
      BY <1>4, BoundsAssumption DEF Release, TypeOK
<1>5. CASE TtlExpires
      BY <1>5 DEF TtlExpires, TypeOK
<1>6. CASE Crash
      BY <1>6, NoLocType, ZeroVersion DEF Crash, TypeOK, Local
<1>7. CASE UNCHANGED vars
      BY <1>7 DEF vars, TypeOK
<1> QED BY <1>1, <1>2, <1>3, <1>4, <1>5, <1>6, <1>7 DEF Next

LEMMA TypeInit == Init => TypeOK
<1> SUFFICES ASSUME Init PROVE TypeOK
    OBVIOUS
<1>1. upstream \in 1..MaxVersion
      BY BoundsAssumption DEF Init
<1>2. loc \in [Requests -> Local] /\ cache \in [File -> Content]
      BY NoLocType DEF Init
<1> QED BY <1>1, <1>2, ZeroVersion DEF Init, TypeOK, Local

\* Every reachable state has the shape TypeOK gives, whatever requests, CDN
\* and disk do.
THEOREM TypeCorrect == Spec => []TypeOK
BY TypeInit, TypeNext, PTL DEF Spec

----------------------------------------------------------------------------
(* The invariant.                                                          *)

\* A request past lockCache holds the lock of its path.
Holds == \A r \in Requests : pc[r] \in Inside => lock[loc[r].file] = r

\* What request r may answer with: there, checked, and not older than floor.
Good(r, content) ==
    /\ loc[r].file # "dat" => content.ver # 0
    /\ loc[r].file = "engine" => content.elf
    /\ loc[r].file = "id" => content.ver >= loc[r].floor

\* What it knows at each step.  Before "get" that is what will be left of an
\* old versions.id; from "write" on, what it downloaded or found.
Phase(r) ==
    /\ loc[r].floor <= upstream
    /\ loc[r].floor # 0 => loc[r].file = "id" /\ pc[r] \in Inside
    /\ pc[r] \in {"glob", "purge"} => loc[r].file = "id"
    /\ pc[r] = "purge" /\ Exists("id") => "id" \in loc[r].todo \/ loc[r].floor = 0
    /\ pc[r] = "stat" /\ loc[r].file = "id" /\ Exists("id") =>
          cache["id"].ver >= loc[r].floor
    /\ pc[r] \in {"listed", "fresh", "check"} => loc[r].file = "engine"
    /\ pc[r] = "listed" => manifest # 0
    /\ pc[r] = "write" => loc[r].body.ver # 0 /\ loc[r].body.ver >= loc[r].floor
    /\ pc[r] = "serve" => Good(r, cache[loc[r].file])
    /\ pc[r] = "served" => Good(r, loc[r].body)

Inv == TypeOK /\ Holds /\ \A r \in Requests : Phase(r)

LEMMA InsideStep ==
    ASSUME TypeOK, NEW r \in Requests, Step(r)
    PROVE  pc[r] \in Inside
BY DEF Step, Glob, Purge, Stat, Get, GetPlain, LoadManifest, GetListed, GetFails,
   Write, WriteFails, Validate, Reject, Serve, Unlock, Inside

\* A request that answers knows nothing any more.
LEMMA PhaseReturn ==
    ASSUME TypeOK, NEW r \in Requests, Return(r), UNCHANGED upstream
    PROVE  pc'[r] = "idle" /\ Phase(r)'
<1>1. pc'[r] = "idle" /\ loc'[r] = NoLoc
      BY DEF TypeOK, Return, Goto
<1> QED BY <1>1, BoundsAssumption DEF Phase, NoLoc, TypeOK, Inside

\* A step inside touches the requests' state, the locks and the directory
\* only where the lock of its path allows, and versions.dat.gz.
LEMMA StepFrame ==
    ASSUME TypeOK, NEW r \in Requests, Step(r), Phase(r)
    PROVE  /\ UNCHANGED upstream
           /\ manifest' = manifest \/ manifest' # 0
           /\ \A q \in Requests \ {r} : pc'[q] = pc[q] /\ loc'[q] = loc[q]
           /\ \A file \in File \ {loc[r].file} : lock'[file] = lock[file]
           /\ \A file \in File \ {loc[r].file, "dat"} : cache'[file] = cache[file]
           /\ pc'[r] \in Inside => lock' = lock /\ loc'[r].file = loc[r].file
<1> USE DEF TypeOK, Goto
<1>1. CASE Glob(r) \/ Stat(r) \/ Serve(r) \/ Validate(r)
      BY <1>1 DEF Glob, Stat, Serve, Validate
<1>2. CASE Purge(r)
  <2>1. loc[r].file = "id"
        BY <1>2 DEF Purge, Phase
  <2>2. \A file \in File \ {"id", "dat"} : cache'[file] = cache[file]
        BY <1>2 DEF Purge, Put
  <2>3. \A q \in Requests \ {r} : pc'[q] = pc[q] /\ loc'[q] = loc[q]
        BY <1>2 DEF Purge
  <2>4. loc'[r].file = loc[r].file
        BY <1>2 DEF Purge
  <2> QED BY <1>2, <2>1, <2>2, <2>3, <2>4 DEF Purge
<1>3. CASE Get(r) \/ GetPlain(r) \/ GetListed(r)
  <2>1. UNCHANGED <<upstream, cache, lock, manifest>>
        BY <1>3 DEF Get, GetPlain, GetListed
  <2>2. \E v : Receive(r, v)
        BY <1>3 DEF Get, GetPlain, GetListed
  <2>3. /\ \A q \in Requests \ {r} : pc'[q] = pc[q] /\ loc'[q] = loc[q]
        /\ loc'[r].file = loc[r].file
        BY <2>2 DEF Receive
  <2> QED BY <2>1, <2>3
<1>4. CASE LoadManifest(r)
      BY <1>4 DEF LoadManifest
<1>5. CASE GetFails(r) \/ WriteFails(r) \/ Unlock(r) \/ Reject(r)
  <2>1. pc'[r] \notin Inside
        BY <1>5 DEF GetFails, WriteFails, Unlock, Reject, Return, Inside
  <2>2. Reject(r) => loc[r].file = "engine"
        BY DEF Reject, Phase
  <2> QED BY <1>5, <2>1, <2>2 DEF GetFails, WriteFails, Unlock, Reject, Return, Put
<1>6. CASE Write(r)
      BY <1>6 DEF Write, Put
<1> QED BY <1>1, <1>2, <1>3, <1>4, <1>5, <1>6 DEF Step

\* The request itself comes to know what its next phase says.
LEMMA OwnPhase ==
    ASSUME TypeOK, NEW r \in Requests, Step(r), Phase(r)
    PROVE  Phase(r)'
<1> USE DEF TypeOK, Goto
<1>0. loc[r].floor \in Nat /\ upstream \in Nat \ {0} /\ loc[r].body.ver \in Nat
      BY BoundsAssumption DEF Version, Content
<1>1. CASE Glob(r)
      BY <1>1, <1>0 DEF Glob, Phase, Inside, Exists
<1>2. CASE Purge(r)
  <2>1. loc[r].file = "id" /\ UNCHANGED <<upstream, manifest>>
        BY <1>2 DEF Purge, Phase
  <2>2. CASE loc[r].todo = {} /\ Goto(r, "stat") /\ UNCHANGED <<cache, loc>>
    <3>1. /\ pc[r] = "purge" /\ pc'[r] = "stat" /\ loc' = loc /\ cache' = cache
          /\ loc[r].todo = {}
          BY <1>2, <2>2 DEF Purge
    <3>2. Exists("id") => loc[r].floor = 0
          BY <3>1, <2>1 DEF Phase
    <3> QED BY <1>0, <2>1, <3>1, <3>2 DEF Phase, Inside, Exists, Content, File, Version
  <2>3. CASE /\ loc' = [loc EXCEPT ![r] = [@ EXCEPT !.todo = {}, !.floor = 0]]
             /\ Goto(r, "stat") /\ UNCHANGED cache
    <3>1. pc'[r] = "stat" /\ loc'[r].file = "id" /\ loc'[r].floor = 0
          BY <2>1, <2>3
    <3> QED BY <1>0, <2>1, <2>3, <3>1 DEF Phase, Inside, Version, Content, File
  <2>4. ASSUME NEW file \in {"dat", "id"}, Put(file, Absent), UNCHANGED pc,
               file = IF "dat" \in loc[r].todo THEN "dat" ELSE "id",
               loc' = [loc EXCEPT ![r].todo = @ \ {file}]
        PROVE  Phase(r)'
    <3>1. /\ pc'[r] = "purge" /\ loc'[r].file = "id"
          /\ loc'[r].floor = loc[r].floor /\ loc'[r].todo = loc[r].todo \ {file}
          BY <1>2, <2>1, <2>4 DEF Purge
    <3>2. Exists("id")' => Exists("id") /\ file # "id"
          BY <2>4 DEF Put, Exists, Absent, File
    <3> QED BY <1>0, <2>1, <3>1, <3>2, <1>2 DEF Phase, Inside, Purge
  <2> QED BY <1>2, <2>2, <2>3, <2>4 DEF Purge
<1>3. CASE Stat(r)
      BY <1>3, <1>0 DEF Stat, Ready, Phase, Inside, Exists, Good
<1>4. ASSUME NEW v \in Nat \ {0}, Receive(r, v), v >= loc[r].floor, UNCHANGED upstream,
             loc[r].floor # 0 => loc[r].file = "id"
      PROVE  Phase(r)'
      BY <1>4, <1>0 DEF Receive, Phase, Inside
<1>5. CASE Get(r) \/ GetPlain(r)
  <2>1. Receive(r, upstream) /\ UNCHANGED upstream
        BY <1>5 DEF Get, GetPlain
  <2> QED BY <1>0, <1>4, <2>1 DEF Phase
<1>6. CASE GetListed(r)
  <2>1. /\ Receive(r, manifest) /\ UNCHANGED upstream
        /\ manifest \in Nat \ {0} /\ loc[r].floor = 0
        BY <1>6 DEF GetListed, Phase, Version
  <2> QED BY <1>0, <1>4, <2>1
<1>7. CASE LoadManifest(r)
      BY <1>7, <1>0 DEF LoadManifest, Phase, Inside
<1>8. CASE GetFails(r) \/ WriteFails(r) \/ Unlock(r) \/ Reject(r)
      BY <1>8, PhaseReturn DEF GetFails, WriteFails, Unlock, Reject
<1>9. CASE Write(r)
      BY <1>9, <1>0 DEF Write, Put, Phase, Inside, Good
<1>10. CASE Validate(r)
      BY <1>10, <1>0 DEF Validate, Phase, Inside, Exists, Good
<1>11. CASE Serve(r)
      BY <1>11, <1>0 DEF Serve, Phase, Inside, Good
<1> QED BY <1>1, <1>2, <1>3, <1>5, <1>6, <1>7, <1>8, <1>9, <1>10, <1>11 DEF Step

\* What the others know stands: their files are under other locks, and of
\* versions.dat.gz nothing is known that its removal could undo.
LEMMA OtherPhase ==
    ASSUME Inv, NEW r \in Requests, Step(r), NEW q \in Requests \ {r}
    PROVE  Phase(q)'
<1>1. /\ pc'[q] = pc[q] /\ loc'[q] = loc[q] /\ UNCHANGED upstream
      /\ manifest' = manifest \/ manifest' # 0
      /\ \A file \in File \ {loc[r].file, "dat"} : cache'[file] = cache[file]
      BY StepFrame DEF Inv
<1>2. pc[q] \in Inside => loc[q].file # loc[r].file
      BY InsideStep DEF Inv, Holds
<1>3. loc[q].file \in File
      BY DEF Inv, TypeOK
<1>4. pc[q] \in Inside /\ loc[q].file # "dat" => cache'[loc[q].file] = cache[loc[q].file]
      BY <1>1, <1>2, <1>3
<1>5. Phase(q)
      BY DEF Inv
<1>6. pc[q] = "serve" => Good(q, cache[loc[q].file])'
  <2>1. CASE loc[q].file = "dat"
        BY <1>1, <2>1 DEF Good
  <2>2. CASE loc[q].file # "dat"
        BY <1>1, <1>4, <1>5, <2>2 DEF Phase, Good, Inside
  <2> QED BY <2>1, <2>2
<1>7. pc[q] \in {"purge", "stat"} /\ loc[q].file = "id" => cache'["id"] = cache["id"]
      BY <1>4 DEF Inside
<1> QED BY <1>1, <1>5, <1>6, <1>7 DEF Phase, Exists, Good

LEMMA InvStep ==
    ASSUME Inv, NEW r \in Requests, Step(r)
    PROVE  Inv'
<1>1. TypeOK'
      BY TypeStep DEF Inv
<1>2. \A q \in Requests : Phase(q)'
      BY OwnPhase, OtherPhase DEF Inv
<1>3. Holds'
  <2> SUFFICES ASSUME NEW q \in Requests, pc'[q] \in Inside
               PROVE  lock'[loc'[q].file] = q
      BY DEF Holds
  <2>1. CASE q = r
        BY <2>1, StepFrame, InsideStep DEF Inv, Holds
  <2>2. CASE q # r
    <3>1. /\ pc[q] \in Inside /\ loc'[q] = loc[q]
          /\ \A file \in File \ {loc[r].file} : lock'[file] = lock[file]
          BY <2>2, StepFrame DEF Inv
    <3>2. loc[q].file \in File \ {loc[r].file} /\ lock[loc[q].file] = q
          BY <2>2, <3>1, InsideStep DEF Inv, Holds, TypeOK
    <3> QED BY <3>1, <3>2
  <2> QED BY <2>1, <2>2
<1> QED BY <1>1, <1>2, <1>3 DEF Inv

LEMMA InvLock ==
    ASSUME Inv, NEW r \in Requests, Lock(r)
    PROVE  Inv'
<1>1. TypeOK'
      BY TypeNext DEF Inv, Next
<1>2. /\ pc[r] = "lock" /\ lock[loc[r].file] = None /\ lock' = [lock EXCEPT ![loc[r].file] = r]
      /\ \A q \in Requests \ {r} : pc'[q] = pc[q] /\ loc'[q] = loc[q]
      /\ loc'[r].file = loc[r].file /\ UNCHANGED <<upstream, cache, manifest>>
      BY DEF Lock, Goto, Inv, TypeOK
<1>3. Holds'
  <2> SUFFICES ASSUME NEW q \in Requests, pc'[q] \in Inside
               PROVE  lock'[loc'[q].file] = q
      BY DEF Holds
  <2>1. CASE q = r
        BY <1>2, <2>1 DEF Inv, TypeOK
  <2>2. CASE q # r
    <3>1. lock[loc[q].file] = q
          BY <1>2, <2>2 DEF Inv, Holds
    <3> QED BY <1>2, <2>2, <3>1, NoneAssumption DEF Inv, TypeOK
  <2> QED BY <2>1, <2>2
<1>4. \A q \in Requests \ {r} : Phase(q)'
      BY <1>2 DEF Inv, Phase, Good, Exists
<1>5. Phase(r)'
  <2>1. loc[r].floor = 0
        BY <1>2 DEF Inv, Phase, Inside
  <2>2. upstream \in Nat \ {0} /\ \A file \in File : cache[file].ver \in Nat
        BY BoundsAssumption DEF Inv, TypeOK, Content, Version
  <2>3. CASE loc[r].file = "id" /\ (expired \/ ~Exists("id"))
    <3>1. pc'[r] = "glob" /\ loc'[r].floor = upstream
          BY <2>3 DEF Lock, Goto, Inv, TypeOK
    <3> QED BY <1>2, <2>2, <2>3, <3>1 DEF Phase, Inside
  <2>4. CASE ~(loc[r].file = "id" /\ (expired \/ ~Exists("id")))
    <3>1. pc'[r] = "stat" /\ loc' = loc
          BY <2>4 DEF Lock, Goto, Inv, TypeOK
    <3> QED BY <1>2, <2>1, <2>2, <3>1 DEF Phase, Inside, Exists, File
  <2> QED BY <2>3, <2>4
<1> QED BY <1>1, <1>3, <1>4, <1>5 DEF Inv

LEMMA InvNext == Inv /\ [Next]_vars => Inv'
<1> SUFFICES ASSUME Inv, [Next]_vars PROVE Inv'
    OBVIOUS
<1>0. TypeOK'
      BY TypeNext DEF Inv
<1>1. ASSUME NEW r \in Requests, Request(r) PROVE Inv'
  <2>1. /\ pc[r] = "idle" /\ pc'[r] = "lock" /\ loc'[r].floor = loc[r].floor
        /\ \A q \in Requests \ {r} : pc'[q] = pc[q] /\ loc'[q] = loc[q]
        /\ UNCHANGED <<upstream, cache, lock, manifest>>
        BY <1>1 DEF Request, Goto, Inv, TypeOK
  <2>2. Holds'
        BY <2>1 DEF Inv, Holds, Inside
  <2>3. \A q \in Requests \ {r} : Phase(q)'
        BY <2>1 DEF Inv, Phase, Good, Exists
  <2>4. Phase(r)'
        BY <2>1 DEF Inv, Phase, Inside
  <2> QED BY <1>0, <2>2, <2>3, <2>4 DEF Inv
<1>2. ASSUME NEW r \in Requests, Lock(r) \/ Step(r) PROVE Inv'
      BY <1>2, InvLock, InvStep
<1>3. CASE Release
  <2>1. \A q \in Requests : loc[q].floor <= upstream'
        BY <1>3, BoundsAssumption DEF Release, Inv, TypeOK, Phase, Version
  <2>2. Holds'
        BY <1>3 DEF Release, Inv, Holds
  <2> QED BY <1>0, <1>3, <2>1, <2>2 DEF Release, Inv, Phase, Good, Exists
<1>4. CASE TtlExpires \/ UNCHANGED vars
      BY <1>0, <1>4 DEF TtlExpires, vars, Inv, Holds, Phase, Good, Exists
<1>5. CASE Crash
  <2>1. \A q \in Requests : pc'[q] = "idle" /\ loc'[q] = NoLoc
        BY <1>5 DEF Crash
  <2>2. Holds'
        BY <2>1 DEF Holds, Inside
  <2>3. \A q \in Requests : Phase(q)'
        BY <1>5, <2>1, BoundsAssumption DEF Crash, Phase, NoLoc, Inside, Inv, TypeOK
  <2> QED BY <1>0, <2>2, <2>3 DEF Inv
<1> QED BY <1>1, <1>2, <1>3, <1>4, <1>5 DEF Next

LEMMA Invariance == Spec => []Inv
<1>1. ASSUME Init PROVE Inv
  <2>1. TypeOK
        BY <1>1, TypeInit
  <2>2. Holds /\ \A q \in Requests : Phase(q)
        BY <1>1 DEF Init, Holds, Phase, NoLoc, Inside
  <2> QED BY <2>1, <2>2 DEF Inv
<1> QED BY <1>1, InvNext, PTL DEF Spec

----------------------------------------------------------------------------
(* The theorems.                                                           *)

\* No Windows engine, and nothing that is no engine, is ever served as one.
THEOREM EnginesChecked == Spec => []ServedEngineChecked
<1>1. Inv => ServedEngineChecked
      BY DEF Inv, Phase, Good, ServedEngineChecked
<1> QED BY <1>1, Invariance, PTL

\* What is under a request's lock is there when it answers.
THEOREM FilesPresent == Spec => []ServedPresent
<1>1. Inv => ServedPresent
      BY DEF Inv, Phase, Good, ServedPresent
<1> QED BY <1>1, Invariance, PTL

\* An expired versions.id is not answered with unless it could not be removed.
THEOREM IdRefreshed == Spec => []ServedIdRefreshed
<1>1. Inv => ServedIdRefreshed
      BY DEF Inv, Phase, Good, ServedIdRefreshed
<1> QED BY <1>1, Invariance, PTL

----------------------------------------------------------------------------
(* What of Answered is a safety property: a lock that is taken is held by  *)
(* a request that is at work, and the work of a request under its lock     *)
(* comes to an end.  That its steps are taken is for fairness to say.      *)

LocksHeld ==
    \A file \in File :
        lock[file] # None => pc[lock[file]] \in Inside /\ loc[lock[file]].file = file

\* No error, early return or crash leaves a path locked that no request works
\* on, and no request waits for one lock while it holds another.
THEOREM NoLockLeftBehind == Spec => []LocksHeld
<1>1. Init => LocksHeld
      BY DEF Init, LocksHeld
<1>2. Inv /\ LocksHeld /\ [Next]_vars => LocksHeld'
  <2> SUFFICES ASSUME Inv, LocksHeld, [Next]_vars, NEW file \in File, lock'[file] # None
               PROVE  pc'[lock'[file]] \in Inside /\ loc'[lock'[file]].file = file
      BY DEF LocksHeld
  <2>0. TypeOK /\ lock[file] \in Requests \cup {None}
        BY DEF Inv, TypeOK
  <2>1. ASSUME NEW r \in Requests, Request(r)
        PROVE  pc'[lock'[file]] \in Inside /\ loc'[lock'[file]].file = file
    <3>1. pc[r] = "idle" /\ lock' = lock
          BY <2>1 DEF Request
    <3>2. pc[lock[file]] \in Inside /\ loc[lock[file]].file = file /\ lock[file] \in Requests
          BY <2>0, <3>1 DEF LocksHeld
    <3>3. lock[file] # r
          BY <3>1, <3>2 DEF Inside
    <3> QED BY <2>0, <2>1, <3>1, <3>2, <3>3 DEF Request, Goto, TypeOK
  <2>2. ASSUME NEW r \in Requests, Lock(r)
        PROVE  pc'[lock'[file]] \in Inside /\ loc'[lock'[file]].file = file
    <3>1. /\ pc[r] = "lock" /\ pc'[r] \in Inside /\ loc'[r].file = loc[r].file
          /\ lock' = [lock EXCEPT ![loc[r].file] = r]
          /\ \A q \in Requests \ {r} : pc'[q] = pc[q] /\ loc'[q] = loc[q]
          BY <2>0, <2>2 DEF Lock, Goto, TypeOK, Inside
    <3>2. CASE file = loc[r].file
          BY <2>0, <3>1, <3>2 DEF TypeOK
    <3>3. CASE file # loc[r].file
      <4>1. lock'[file] = lock[file]
            BY <2>0, <3>1, <3>3 DEF TypeOK
      <4>2. pc[lock[file]] \in Inside /\ loc[lock[file]].file = file /\ lock[file] \in Requests
            BY <2>0, <4>1 DEF LocksHeld
      <4>3. lock[file] # r
            BY <3>1, <4>2 DEF Inside
      <4> QED BY <3>1, <4>1, <4>2, <4>3
    <3> QED BY <3>2, <3>3
  <2>3. ASSUME NEW r \in Requests, Step(r)
        PROVE  pc'[lock'[file]] \in Inside /\ loc'[lock'[file]].file = file
    <3>1. /\ \A q \in Requests \ {r} : pc'[q] = pc[q] /\ loc'[q] = loc[q]
          /\ \A f \in File \ {loc[r].file} : lock'[f] = lock[f]
          /\ pc'[r] \in Inside => lock' = lock /\ loc'[r].file = loc[r].file
          BY <2>3, StepFrame DEF Inv
    <3>2. lock[loc[r].file] = r /\ loc[r].file \in File
          BY <2>0, <2>3, InsideStep DEF Inv, Holds, TypeOK
    <3>3. CASE file = loc[r].file
      <4>1. pc'[r] \in Inside
        <5>1. pc'[r] \in Inside \/ Return(r)
              BY <2>0, <2>3 DEF Step, Glob, Purge, Stat, Get, GetPlain, LoadManifest,
                 GetListed, GetFails, Write, WriteFails, Validate, Reject, Serve, Unlock,
                 Receive, Goto, Ready, TypeOK, Inside
        <5>2. Return(r) => lock'[loc[r].file] = None
              BY <2>0, <3>2 DEF Return, TypeOK
        <5> QED BY <3>3, <5>1, <5>2
      <4> QED BY <3>1, <3>2, <3>3, <4>1
    <3>4. CASE file # loc[r].file
      <4>1. lock'[file] = lock[file]
            BY <3>1, <3>4
      <4>2. pc[lock[file]] \in Inside /\ loc[lock[file]].file = file /\ lock[file] \in Requests
            BY <2>0, <4>1 DEF LocksHeld
      <4> QED BY <3>1, <3>4, <4>1, <4>2
    <3> QED BY <3>3, <3>4
  <2>4. CASE Release \/ TtlExpires \/ UNCHANGED vars
        BY <2>4 DEF Release, TtlExpires, vars, LocksHeld
  <2>5. ~Crash
        BY DEF Crash
  <2> QED BY <2>1, <2>2, <2>3, <2>4, <2>5 DEF Next
<1> QED BY <1>1, <1>2, Invariance, PTL DEF Spec

\* What is left to do under the lock.
Left(r) ==
    CASE pc[r] = "glob" -> 12
      [] pc[r] = "purge" -> 9 + (IF "dat" \in loc[r].todo THEN 1 ELSE 0)
                              + (IF "id" \in loc[r].todo THEN 1 ELSE 0)
      [] pc[r] = "stat" -> 8
      [] pc[r] = "get" -> 7
      [] pc[r] = "listed" -> 6
      [] pc[r] = "write" -> 5
      [] pc[r] = "fresh" -> 4
      [] pc[r] = "check" -> 3
      [] pc[r] = "serve" -> 2
      [] pc[r] = "served" -> 1
      [] OTHER -> 0

LEMMA StepCounts ==
    ASSUME TypeOK, NEW r \in Requests, Step(r)
    PROVE  Left(r)' < Left(r)
<1> USE DEF TypeOK, Goto
<1>0. loc[r].todo \subseteq {"dat", "id"}
      OBVIOUS
<1>1. CASE Glob(r)
  <2>1. pc[r] = "glob" /\ pc'[r] = "purge"
        BY <1>1 DEF Glob
  <2> QED BY <2>1 DEF Left
<1>2. CASE Purge(r)
  <2>1. CASE pc'[r] = "stat"
        BY <1>2, <2>1 DEF Purge, Left
  <2>2. CASE pc'[r] # "stat"
    <3> DEFINE file == IF "dat" \in loc[r].todo THEN "dat" ELSE "id"
    <3>1. /\ pc[r] = "purge" /\ pc'[r] = "purge" /\ loc[r].todo # {}
          /\ loc'[r].todo = loc[r].todo \ {file}
          BY <1>2, <2>2 DEF Purge
    <3>2. file \in loc[r].todo
          BY <1>0, <3>1
    <3> QED BY <3>1, <3>2 DEF Left
  <2> QED BY <2>1, <2>2
<1>3. CASE Stat(r)
  <2>1. pc[r] = "stat" /\ pc'[r] \in {"check", "serve", "get"}
        BY <1>3 DEF Stat, Ready
  <2> QED BY <2>1 DEF Left
<1>4. CASE Get(r) \/ GetPlain(r) \/ LoadManifest(r) \/ GetListed(r)
  <2>1. \/ pc[r] = "get" /\ pc'[r] \in {"write", "listed"}
        \/ pc[r] = "listed" /\ pc'[r] = "write"
        BY <1>4 DEF Get, GetPlain, LoadManifest, GetListed, Receive
  <2> QED BY <2>1 DEF Left
<1>5. CASE GetFails(r) \/ WriteFails(r) \/ Reject(r) \/ Unlock(r)
  <2>1. pc[r] \in {"get", "listed", "write", "fresh", "check", "served"} /\ pc'[r] = "idle"
        BY <1>5 DEF GetFails, WriteFails, Reject, Unlock, Return
  <2> QED BY <2>1 DEF Left
<1>6. CASE Write(r)
  <2>1. pc[r] = "write" /\ pc'[r] \in {"fresh", "serve"}
        BY <1>6 DEF Write
  <2> QED BY <2>1 DEF Left
<1>7. CASE Validate(r) \/ Serve(r)
  <2>1. \/ pc[r] = "fresh" /\ pc'[r] = "check"
        \/ pc[r] = "check" /\ pc'[r] = "serve"
        \/ pc[r] = "serve" /\ pc'[r] = "served"
        BY <1>7 DEF Validate, Serve
  <2> QED BY <2>1 DEF Left
<1> QED BY <1>1, <1>2, <1>3, <1>4, <1>5, <1>6, <1>7 DEF Step

\* A request under its lock is never sent back: whatever it, the others or
\* the environment do, what it has left to do is as it was or less, and it is
\* at most twelve steps.  So who waits for a path waits for so many steps of
\* its holder.
THEOREM WorkUnderLockEnds ==
    Spec => [][\A r \in Requests :
                  pc[r] \in Inside =>
                      /\ Left(r) \in 1..12
                      /\ Left(r)' < Left(r) \/ (pc'[r] = pc[r] /\ loc'[r] = loc[r])]_vars
<1>1. Inv /\ [Next]_vars =>
         [\A r \in Requests :
             pc[r] \in Inside =>
                 /\ Left(r) \in 1..12
                 /\ Left(r)' < Left(r) \/ (pc'[r] = pc[r] /\ loc'[r] = loc[r])]_vars
  <2> SUFFICES ASSUME Inv, Next, NEW r \in Requests, pc[r] \in Inside
               PROVE  /\ Left(r) \in 1..12
                      /\ Left(r)' < Left(r) \/ (pc'[r] = pc[r] /\ loc'[r] = loc[r])
      OBVIOUS
  <2>0. TypeOK
        BY DEF Inv
  <2>1. Left(r) \in 1..12
        BY DEF Left, Inside
  <2>2. CASE Step(r)
        BY <2>0, <2>1, <2>2, StepCounts
  <2>3. ASSUME NEW q \in Requests \ {r}, Request(q) \/ Lock(q) \/ Step(q)
        PROVE  pc'[r] = pc[r] /\ loc'[r] = loc[r]
    <3>1. CASE Step(q)
          BY <3>1, StepFrame DEF Inv
    <3>2. CASE Request(q) \/ Lock(q)
          BY <2>0, <3>2 DEF Request, Lock, Goto, TypeOK
    <3> QED BY <2>3, <3>1, <3>2
  <2>4. ~Request(r) /\ ~Lock(r)
        BY DEF Request, Lock, Inside
  <2>5. CASE Release \/ TtlExpires
        BY <2>1, <2>5 DEF Release, TtlExpires
  <2>6. CASE Crash
    <3>1. pc'[r] = "idle"
          BY <2>6 DEF Crash
    <3>2. Left(r)' = 0
          BY <3>1 DEF Left
    <3> QED BY <2>1, <3>2
  <2>7. ASSUME NEW q \in Requests, Request(q) \/ Lock(q) \/ Step(q)
        PROVE  \/ Left(r)' < Left(r)
               \/ pc'[r] = pc[r] /\ loc'[r] = loc[r]
    <3>1. CASE q = r
          BY <2>2, <2>4, <2>7, <3>1
    <3>2. CASE q # r
          BY <2>3, <2>7, <3>2
    <3> QED BY <3>1, <3>2
  <2> QED BY <2>1, <2>5, <2>6, <2>7 DEF Next
<1> QED BY <1>1, Invariance, PTL DEF Spec
===========================================================================
