-------------------------- MODULE BitdefenderProxy --------------------------
(***************************************************************************)
(* BitdefenderProxyHandler and the clean-up of mirror/bitdefender in proxy *)
(* mode.  Requests fill the cache by a temporary file and a rename; unlike *)
(* the vendor cache they hold no lock, against each other or against the   *)
(* update runs that remove old version directories.                        *)
(*                                                                         *)
(* A version directory d (av64bit_<d>) has an engine (bdcore.*.gzip), which*)
(* is checked to be a Linux one when it is found in the cache.  Outside of *)
(* them, in "directory" 0, there is data, which is not checked, and        *)
(* versions.id, which is not cached, though an older release may have left *)
(* a copy.  Bodies are numbered in the order the CDN publishes them.  One  *)
(* step is one access to the disk or to the CDN.                           *)
(***************************************************************************)
EXTENDS Naturals, FiniteSets, FiniteSetsExt

CONSTANTS
    Requests,      \* requests being served at a time
    Cleaners,      \* update runs, which clean up
    NDirs,         \* bound: version directories
    KeepVersions,  \* BitdefenderKeepVersions
    MaxBody,       \* bound: bodies the CDN publishes
    Windows,       \* those of which the engine is a Windows one, or no gzip
    Faults         \* what may go wrong

(* "cdn": no CDN is known.  "get": the first attempt fails.  "cut": a       *)
(* transfer to cache or client breaks off.  "mkdir", "temp", "rename",      *)
(* "remove": that call on the disk fails.  "crash": the process dies.       *)
FaultKinds == {"cdn", "get", "cut", "mkdir", "temp", "rename", "remove", "crash"}

ASSUME BoundsAssumption ==
    /\ NDirs \in Nat /\ KeepVersions \in Nat /\ MaxBody \in Nat \ {0}
    /\ Windows \subseteq 1..MaxBody
    /\ Faults \subseteq FaultKinds

VARIABLES
    upstream,   \* the body the CDN publishes
    cache,      \* what stands at each path under mirror/bitdefender
    dirs,       \* the version directories that exist
    pc, loc,    \* next step and local variables of a request
    doomed      \* directories a clean-up run has still to remove

vars == <<upstream, cache, dirs, pc, loc, doomed>>

Dirs == 1..NDirs
VersionsId == <<0, "id">>
File == (Dirs \X {"engine"}) \cup {VersionsId, <<0, "data">>}

\* What stands at a path, or was answered; body 0 is nothing, an error status.
Content == [body : 0..MaxBody, whole : BOOLEAN]
Nothing == [body |-> 0, whole |-> TRUE]
Exists(file) == cache[file].body # 0

\* got: body of the CDN's answer; temp: its temporary file exists; out: what
\* the client was sent.  History: floor, what the CDN published when a request for
\* versions.id came; fresh, nothing was renamed to the path since it was checked.
NoLoc == [file |-> VersionsId, got |-> 0, temp |-> FALSE, out |-> Nothing,
          floor |-> 0, fresh |-> TRUE]

Init ==
    /\ upstream = 1
    /\ \E old \in {Nothing, [body |-> 1, whole |-> TRUE]} :
          cache = [file \in File |-> IF file = VersionsId THEN old ELSE Nothing]
    /\ dirs = {0}
    /\ pc = [r \in Requests |-> "idle"]
    /\ loc = [r \in Requests |-> NoLoc]
    /\ doomed = [c \in Cleaners |-> {}]

----------------------------------------------------------------------------
(* A request.                                                              *)

At(r, step) == pc[r] = step
Goto(r, step) == pc' = [pc EXCEPT ![r] = step]
Put(file, content) == cache' = [cache EXCEPT ![file] = content]

Answer(r, content) ==
    /\ loc' = [loc EXCEPT ![r].out = content]
    /\ Goto(r, "answered")

Ask(r) ==
    /\ At(r, "idle")
    /\ \E file \in File :
          loc' = [loc EXCEPT ![r] = [@ EXCEPT !.file = file,
                     !.floor = IF file = VersionsId THEN upstream ELSE 0]]
    /\ Goto(r, "stat")
    /\ UNCHANGED <<upstream, cache, dirs, doomed>>

\* Mutant: every file is cached.
shouldCache_All(file) == TRUE

shouldCache(file) == file # VersionsId

\* An old copy of what is not cached any more is removed, if that works.
DropOldCopy(r) ==
    /\ At(r, "stat") /\ ~shouldCache(loc[r].file)
    /\ \/ Put(loc[r].file, Nothing)
       \/ "remove" \in Faults /\ UNCHANGED cache
    /\ Goto(r, "cdn")
    /\ UNCHANGED <<upstream, dirs, loc, doomed>>

\* Mutant: what is in the cache is good.
Stat_Trusts(r) ==
    /\ At(r, "stat") /\ shouldCache(loc[r].file)
    /\ Goto(r, IF Exists(loc[r].file) THEN "serve" ELSE "cdn")
    /\ UNCHANGED <<upstream, cache, dirs, loc, doomed>>

Stat(r) ==
    /\ At(r, "stat") /\ shouldCache(loc[r].file)
    /\ Goto(r, IF ~Exists(loc[r].file) THEN "cdn"
               ELSE IF loc[r].file[2] = "engine" THEN "check" ELSE "serve")
    /\ UNCHANGED <<upstream, cache, dirs, loc, doomed>>

\* ValidateLinuxEngineGzip opens the file anew, by its name.
Validate(r) ==
    LET file == loc[r].file IN
    /\ At(r, "check")
    /\ IF Exists(file) /\ cache[file].body \notin Windows
       THEN Goto(r, "serve") /\ loc' = [loc EXCEPT ![r].fresh = TRUE]
       ELSE Goto(r, "refuse") /\ UNCHANGED loc
    /\ UNCHANGED <<upstream, cache, dirs, doomed>>

\* Removed by name, which may be another file by now; 502.
Refuse(r) ==
    /\ At(r, "refuse")
    /\ \/ Put(loc[r].file, Nothing)
       \/ "remove" \in Faults /\ UNCHANGED cache
    /\ Answer(r, Nothing)
    /\ UNCHANGED <<upstream, dirs, doomed>>

\* Echo's File opens the name once more (404 when it is gone).
Serve(r) ==
    /\ At(r, "serve")
    /\ Answer(r, cache[loc[r].file])
    /\ UNCHANGED <<upstream, cache, dirs, doomed>>

\* No CDN: 403.  Up to four attempts otherwise; but lastErr of a failed one is
\* never reset, so that the answer is 502 whatever the later ones bring.
Fetch(r) ==
    /\ At(r, "cdn")
    /\ \/ /\ loc' = [loc EXCEPT ![r].got = upstream]
          /\ Goto(r, IF shouldCache(loc[r].file) THEN "mkdir" ELSE "pass")
       \/ Faults \cap {"cdn", "get"} # {} /\ Answer(r, Nothing)
    /\ UNCHANGED <<upstream, cache, dirs, doomed>>

\* The body goes to the client alone.
Pass(r) ==
    /\ At(r, "pass")
    /\ \E whole \in {w \in BOOLEAN : w \/ "cut" \in Faults} :
          Answer(r, [body |-> loc[r].got, whole |-> whole])
    /\ UNCHANGED <<upstream, cache, dirs, doomed>>

Mkdir(r) ==
    /\ At(r, "mkdir")
    /\ \/ dirs' = dirs \cup {loc[r].file[1]} /\ Goto(r, "temp")
       \/ "mkdir" \in Faults /\ UNCHANGED dirs /\ Goto(r, "pass")
    /\ UNCHANGED <<upstream, cache, loc, doomed>>

\* Mutant: without a temporary file the request fails.
CreateTemp_Fails(r) ==
    /\ At(r, "temp")
    /\ \/ /\ loc[r].file[1] \in dirs
          /\ loc' = [loc EXCEPT ![r].temp = TRUE]
          /\ Goto(r, "copy")
       \/ /\ loc[r].file[1] \notin dirs \/ "temp" \in Faults
          /\ Answer(r, Nothing)
    /\ UNCHANGED <<upstream, cache, dirs, doomed>>

\* The directory may have been removed since; then nothing is cached.
CreateTemp(r) ==
    /\ At(r, "temp")
    /\ \/ /\ loc[r].file[1] \in dirs
          /\ loc' = [loc EXCEPT ![r].temp = TRUE]
          /\ Goto(r, "copy")
       \/ /\ loc[r].file[1] \notin dirs \/ "temp" \in Faults
          /\ UNCHANGED loc
          /\ Goto(r, "pass")
    /\ UNCHANGED <<upstream, cache, dirs, doomed>>

\* Mutant: an error of the copy is logged only.
Copy_Ignored(r) ==
    /\ At(r, "copy")
    /\ \E whole \in {w \in BOOLEAN : w \/ "cut" \in Faults} :
          loc' = [loc EXCEPT ![r].out = [body |-> loc[r].got, whole |-> whole]]
    /\ Goto(r, "rename")
    /\ UNCHANGED <<upstream, cache, dirs, doomed>>

\* File and client get the same bytes (io.MultiWriter).
Copy(r) ==
    /\ At(r, "copy")
    /\ \E whole \in {w \in BOOLEAN : w \/ "cut" \in Faults} :
          /\ loc' = [loc EXCEPT ![r].out = [body |-> loc[r].got, whole |-> whole]]
          /\ Goto(r, IF whole THEN "rename" ELSE "answered")
    /\ UNCHANGED <<upstream, cache, dirs, doomed>>

\* An engine is cached as it came, unchecked.
Rename(r) ==
    LET file == loc[r].file IN
    /\ At(r, "rename") /\ loc[r].temp
    /\ Put(file, loc[r].out)
    /\ loc' = [q \in Requests |->
                 IF q = r THEN [loc[r] EXCEPT !.temp = FALSE]
                 ELSE [loc[q] EXCEPT !.fresh = @ /\ loc[q].file # file]]
    /\ Goto(r, "answered")
    /\ UNCHANGED <<upstream, dirs, doomed>>

RenameFails(r) ==
    /\ At(r, "rename") /\ (~loc[r].temp \/ "rename" \in Faults)
    /\ Goto(r, "answered")
    /\ UNCHANGED <<upstream, cache, dirs, loc, doomed>>

\* The deferred removal of the temporary file.
Return(r) ==
    /\ At(r, "answered")
    /\ Goto(r, "idle")
    /\ loc' = [loc EXCEPT ![r] = NoLoc]
    /\ UNCHANGED <<upstream, cache, dirs, doomed>>

Step(r) ==
    \/ DropOldCopy(r) \/ Stat(r) \/ Validate(r) \/ Refuse(r) \/ Serve(r)
    \/ Fetch(r) \/ Pass(r) \/ Mkdir(r) \/ CreateTemp(r) \/ Copy(r)
    \/ Rename(r) \/ RenameFails(r) \/ Return(r)

----------------------------------------------------------------------------
(* Clean-up, by an update run in proxy mode.                               *)

VersionDirs == dirs \cap Dirs
Newer(d, among) == {e \in among : e > d}

\* Mutant: the directories are sorted the other way round.
OldDirs_Ascending ==
    {d \in VersionDirs : Cardinality({e \in VersionDirs : e < d}) >= Max({1, KeepVersions})}

\* Mutant: a directory without a number in its name is version 0.
OldDirs_Unnumbered ==
    {d \in dirs : Cardinality(Newer(d, dirs)) >= Max({1, KeepVersions})}

\* cleanupVersionDirs: all but the newest, of which it keeps at least one.
OldDirs ==
    {d \in VersionDirs : Cardinality(Newer(d, VersionDirs)) >= Max({1, KeepVersions})}

Scan(c) ==
    /\ doomed[c] = {} /\ OldDirs # {}
    /\ doomed' = [doomed EXCEPT ![c] = OldDirs]
    /\ UNCHANGED <<upstream, cache, dirs, pc, loc>>

\* os.RemoveAll, from the newest to the oldest, or to what stops it: an error,
\* or a file another request creates meanwhile.
RemoveDir(c) ==
    \E d \in doomed[c] :
        LET files == {file \in File : file[1] = d}
            temps == {r \in Requests : loc[r].temp /\ loc[r].file[1] = d}
        IN  /\ \A e \in doomed[c] : e <= d
            /\ doomed' = [doomed EXCEPT ![c] = @ \ {d}]
            /\ \E gone \in SUBSET files, lost \in SUBSET temps :
                  /\ cache' = [file \in File |-> IF file \in gone THEN Nothing ELSE cache[file]]
                  /\ loc' = [r \in Requests |->
                               IF r \in lost THEN [loc[r] EXCEPT !.temp = FALSE] ELSE loc[r]]
                  /\ \/ gone = files /\ lost = temps /\ dirs' = dirs \ {d}
                     \/ "remove" \in Faults /\ UNCHANGED dirs
            /\ UNCHANGED <<upstream, pc>>

----------------------------------------------------------------------------
(* Environment.                                                            *)

Release ==
    /\ upstream < MaxBody
    /\ upstream' = upstream + 1
    /\ UNCHANGED <<cache, dirs, pc, loc, doomed>>

\* The process dies and is started again on the directory it left.
Crash ==
    /\ "crash" \in Faults
    /\ pc' = [r \in Requests |-> "idle"]
    /\ loc' = [r \in Requests |-> NoLoc]
    /\ doomed' = [c \in Cleaners |-> {}]
    /\ UNCHANGED <<upstream, cache, dirs>>

Next ==
    \/ \E r \in Requests : Ask(r) \/ Step(r)
    \/ \E c \in Cleaners : Scan(c) \/ RemoveDir(c)
    \/ Release \/ Crash

Spec == Init /\ [][Next]_vars

----------------------------------------------------------------------------
(* Properties.                                                             *)

\* The state is of the expected shape.
TypeOK ==
    /\ upstream \in 1..MaxBody
    /\ cache \in [File -> Content]
    /\ dirs \subseteq 0..NDirs
    /\ pc \in [Requests -> {"idle", "stat", "check", "refuse", "serve", "cdn", "pass",
                            "mkdir", "temp", "copy", "rename", "answered"}]
    /\ loc \in [Requests -> [file : File, got : 0..MaxBody, temp : BOOLEAN, out : Content,
                             floor : 0..MaxBody, fresh : BOOLEAN]]
    /\ doomed \in [Cleaners -> SUBSET Dirs]

\* What the cache holds is whole, whatever transfer broke off, whichever
\* requests filled one path at once, and wherever the process died.
CachedWhole == \A file \in File : cache[file].whole

\* An engine answered from the cache is a Linux one, although it is checked
\* under its name and opened again under its name: unless another request's
\* download was renamed to that name in between.
ServedChecked ==
    \A r \in Requests :
        /\ pc[r] = "answered" /\ loc[r].file[2] = "engine"
        /\ loc[r].got = 0 /\ loc[r].fresh
        => loc[r].out.body \notin Windows

\* versions.id is never answered from a copy: it is no older than what the
\* CDN published when the request came, also when the copy of an older
\* release cannot be removed.
IdFresh ==
    \A r \in Requests :
        pc[r] = "answered" /\ loc[r].file = VersionsId /\ loc[r].out # Nothing
        => loc[r].out.body >= loc[r].floor

\* What was fetched reaches the client whatever happens to the cache: a
\* failing call on the disk, a clean-up that takes the directory or the
\* temporary file away, another request for the same path.
ProxiedWhole ==
    \A r \in Requests :
        pc[r] = "answered" /\ loc[r].got # 0 => loc[r].out.body = loc[r].got

\* A directory is removed only while as many newer ones as are to be kept
\* stand, also when two runs clean up by listings of different age.
NewestKept ==
    [][\A d \in dirs \ dirs' :
          Cardinality(Newer(d, dirs')) >= Max({1, KeepVersions})]_dirs
=============================================================================
