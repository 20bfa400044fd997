---------------------------- MODULE VendorCache ----------------------------
(***************************************************************************)
(* The antivirus cache: one directory of mirror/antivirus, filled by the   *)
(* requests of cachedVendorFileHandler from the vendor's CDN.              *)
(*                                                                         *)
(* Three of its files stand for the three ways a file is treated:          *)
(*   "id"      versions.id, refreshed when it is older than the TTL, which *)
(*             first removes the directory's versions.*;                   *)
(*   "dat"     versions.dat.gz, one of those; the CDN may have it plain;   *)
(*   "engine"  bdcore.*.gzip, served only when it holds an ELF binary; the *)
(*             CDN may have it elsewhere, where the v3 manifest says.      *)
(* A request holds the lock of its path, and of no other, to its end.      *)
(*                                                                         *)
(* One step is one access to what is shared: the lock, the directory, the  *)
(* manifest, an answer of the CDN.  Files are published by rename, so a    *)
(* file is there whole or not at all.  That a CDN is known is given.       *)
(***************************************************************************)
EXTENDS Naturals

CONSTANTS
    Requests,    \* requests being served at a time
    None,        \* no request
    MaxVersion,  \* bound: versions the CDN publishes
    Faults       \* what may go wrong

(* "get": the CDN does not answer, or with an error.  "missing": it has no  *)
(* such file (404).  "pe": its engine is a Windows one, or no gzip.         *)
(* "write": temporary file or rename fails.  "remove": os.Remove fails.     *)
(* "crash": the process dies.                                               *)
FaultKinds == {"get", "missing", "pe", "write", "remove", "crash"}

ASSUME NoneAssumption == None \notin Requests
ASSUME BoundsAssumption == MaxVersion \in Nat \ {0} /\ Faults \subseteq FaultKinds

VARIABLES
    upstream,  \* the version the CDN publishes
    cache,     \* the directory
    expired,   \* versions.id is as old as the TTL
    lock,      \* cacheLocks: the holder of every path's lock
    manifest,  \* kerioV3ManifestCache: the version cached, 0 for none
    pc, loc    \* next step and local variables of a request

vars == <<upstream, cache, expired, lock, manifest, pc, loc>>

File == {"id", "dat", "engine"}
Version == 0..MaxVersion

\* A file, or a body: its version, and whether an engine in it is an ELF one.
Content == [ver : Version, elf : BOOLEAN]
Absent == [ver |-> 0, elf |-> FALSE]
Exists(file) == cache[file].ver # 0

\* todo: what filepath.Glob found; body: what was downloaded, at the end what
\* is served; floor (history): what versions.id must not be older than.
NoLoc == [file |-> "id", todo |-> {}, body |-> Absent, floor |-> 0]

Init ==
    /\ upstream = 1
    /\ cache = [file \in File |-> Absent]
    /\ expired = FALSE
    /\ lock = [file \in File |-> None]
    /\ manifest = 0
    /\ pc = [r \in Requests |-> "idle"]
    /\ loc = [r \in Requests |-> NoLoc]

----------------------------------------------------------------------------
Goto(r, step) == pc' = [pc EXCEPT ![r] = step]
Put(file, content) == cache' = [cache EXCEPT ![file] = content]

\* The answer is given; the deferred unlock runs.
Return(r) ==
    /\ Goto(r, "idle")
    /\ loc' = [loc EXCEPT ![r] = NoLoc]
    /\ lock' = [lock EXCEPT ![loc[r].file] = None]

Request(r) ==
    /\ pc[r] = "idle"
    /\ \E file \in File : loc' = [loc EXCEPT ![r].file = file]
    /\ Goto(r, "lock")
    /\ UNCHANGED <<upstream, cache, expired, lock, manifest>>

\* Mutant: one lock does not exclude another holder.
Lock_NoMutex(r) ==
    LET file == loc[r].file IN
    /\ pc[r] = "lock"
    /\ lock' = [lock EXCEPT ![file] = r]
    /\ IF file = "id" /\ (expired \/ ~Exists("id"))
       THEN Goto(r, "glob") /\ loc' = [loc EXCEPT ![r].floor = upstream]
       ELSE Goto(r, "stat") /\ UNCHANGED loc
    /\ UNCHANGED <<upstream, cache, expired, manifest>>

\* lockCache, and cacheExpired for versions.id.
Lock(r) ==
    LET file == loc[r].file IN
    /\ pc[r] = "lock" /\ lock[file] = None
    /\ lock' = [lock EXCEPT ![file] = r]
    /\ IF file = "id" /\ (expired \/ ~Exists("id"))
       THEN Goto(r, "glob") /\ loc' = [loc EXCEPT ![r].floor = upstream]
       ELSE Goto(r, "stat") /\ UNCHANGED loc
    /\ UNCHANGED <<upstream, cache, expired, manifest>>

\* Mutant: the pattern misses versions.id itself.
Glob_OthersOnly(r) ==
    /\ pc[r] = "glob"
    /\ loc' = [loc EXCEPT ![r].todo = {file \in {"dat"} : Exists(file)}]
    /\ Goto(r, "purge")
    /\ UNCHANGED <<upstream, cache, expired, lock, manifest>>

\* Mutant: the pattern is *.
Glob_All(r) ==
    /\ pc[r] = "glob"
    /\ loc' = [loc EXCEPT ![r].todo = {file \in File : Exists(file)}]
    /\ Goto(r, "purge")
    /\ UNCHANGED <<upstream, cache, expired, lock, manifest>>

Glob(r) ==
    /\ pc[r] = "glob"
    /\ loc' = [loc EXCEPT ![r].todo = {file \in {"dat", "id"} : Exists(file)}]
    /\ Goto(r, "purge")
    /\ UNCHANGED <<upstream, cache, expired, lock, manifest>>

\* removeVersionSiblings goes by name and stops at a failing removal, which
\* the handler ignores: what it could not remove it takes for cached.
Purge(r) ==
    /\ pc[r] = "purge"
    /\ \/ /\ loc[r].todo = {}
          /\ Goto(r, "stat")
          /\ UNCHANGED <<cache, loc>>
       \/ LET file == IF "dat" \in loc[r].todo THEN "dat" ELSE "id" IN
          /\ loc[r].todo # {}
          /\ \/ /\ Put(file, Absent)
                /\ loc' = [loc EXCEPT ![r].todo = @ \ {file}]
                /\ UNCHANGED pc
             \/ /\ "remove" \in Faults
                /\ loc' = [loc EXCEPT ![r] = [@ EXCEPT !.todo = {}, !.floor = 0]]
                /\ Goto(r, "stat")
                /\ UNCHANGED cache
    /\ UNCHANGED <<upstream, expired, lock, manifest>>

Ready(file) == IF file = "engine" THEN "check" ELSE "serve"

\* Mutant: what is in the cache was checked when it was downloaded.
Stat_Trusts(r) ==
    /\ pc[r] = "stat"
    /\ Goto(r, IF Exists(loc[r].file) THEN "serve" ELSE "get")
    /\ UNCHANGED <<upstream, cache, expired, lock, manifest, loc>>

Stat(r) ==
    /\ pc[r] = "stat"
    /\ Goto(r, IF Exists(loc[r].file) THEN Ready(loc[r].file) ELSE "get")
    /\ UNCHANGED <<upstream, cache, expired, lock, manifest, loc>>

\* A body of version v arrives.
Receive(r, v) ==
    /\ \E elf \in BOOLEAN :
          /\ ~elf => "pe" \in Faults /\ loc[r].file = "engine"
          /\ loc' = [loc EXCEPT ![r].body = [ver |-> v, elf |-> elf]]
    /\ Goto(r, "write")

\* downloadAtomic from the requested path.
Get(r) ==
    /\ pc[r] = "get"
    /\ Receive(r, upstream)
    /\ UNCHANGED <<upstream, cache, expired, lock, manifest>>

\* A 404 for versions.dat.gz: versions.dat, and gzip around it.
GetPlain(r) ==
    /\ pc[r] = "get" /\ "missing" \in Faults /\ loc[r].file = "dat"
    /\ Receive(r, upstream)
    /\ UNCHANGED <<upstream, cache, expired, lock, manifest>>

\* A 404 for the engine: loadKerioV3Manifest, which fetches the manifest once.
LoadManifest(r) ==
    /\ pc[r] = "get" /\ "missing" \in Faults /\ loc[r].file = "engine"
    /\ manifest' = IF manifest = 0 THEN upstream ELSE manifest
    /\ Goto(r, "listed")
    /\ UNCHANGED <<upstream, cache, expired, lock, loc>>

\* The file the manifest names: of the version it was fetched for.
GetListed(r) ==
    /\ pc[r] = "listed"
    /\ Receive(r, manifest)
    /\ UNCHANGED <<upstream, cache, expired, lock, manifest>>

\* Mutant: an error of the CDN returns without unlocking.
GetFails_NoUnlock(r) ==
    /\ pc[r] \in {"get", "listed"} /\ Faults \cap {"get", "missing"} # {}
    /\ Goto(r, "idle")
    /\ loc' = [loc EXCEPT ![r] = NoLoc]
    /\ UNCHANGED <<upstream, cache, expired, lock, manifest>>

\* No answer, or a 404 with nothing to fall back to.
GetFails(r) ==
    /\ pc[r] \in {"get", "listed"} /\ Faults \cap {"get", "missing"} # {}
    /\ Return(r)
    /\ UNCHANGED <<upstream, cache, expired, manifest>>

\* writeAtomicBytes.
Write(r) ==
    LET file == loc[r].file IN
    /\ pc[r] = "write"
    /\ Put(file, loc[r].body)
    /\ expired' = (expired /\ file # "id")
    /\ Goto(r, IF file = "engine" THEN "fresh" ELSE "serve")
    /\ UNCHANGED <<upstream, lock, manifest, loc>>

WriteFails(r) ==
    /\ pc[r] = "write" /\ "write" \in Faults
    /\ Return(r)
    /\ UNCHANGED <<upstream, cache, expired, manifest>>

\* ValidateLinuxEngineGzip, for a fresh engine and again for every one.
Validate(r) ==
    /\ \/ pc[r] = "fresh" /\ Goto(r, "check")
       \/ pc[r] = "check" /\ Goto(r, "serve")
    /\ Exists("engine") /\ cache["engine"].elf
    /\ UNCHANGED <<upstream, cache, expired, lock, manifest, loc>>

Reject(r) ==
    /\ pc[r] \in {"fresh", "check"}
    /\ ~(Exists("engine") /\ cache["engine"].elf)
    /\ \/ Put("engine", Absent)
       \/ "remove" \in Faults /\ UNCHANGED cache
    /\ Return(r)
    /\ UNCHANGED <<upstream, expired, manifest>>

\* Echo's File opens the file (404 when it is not there) and copies it out.
Serve(r) ==
    /\ pc[r] = "serve"
    /\ loc' = [loc EXCEPT ![r].body = cache[loc[r].file]]
    /\ Goto(r, "served")
    /\ UNCHANGED <<upstream, cache, expired, lock, manifest>>

Unlock(r) ==
    /\ pc[r] = "served"
    /\ Return(r)
    /\ UNCHANGED <<upstream, cache, expired, manifest>>

\* What a request does when it has its lock.
Step(r) ==
    \/ Glob(r) \/ Purge(r) \/ Stat(r)
    \/ Get(r) \/ GetPlain(r) \/ LoadManifest(r) \/ GetListed(r) \/ GetFails(r)
    \/ Write(r) \/ WriteFails(r) \/ Validate(r) \/ Reject(r)
    \/ Serve(r) \/ Unlock(r)

----------------------------------------------------------------------------
(* Environment.                                                            *)

Release ==
    /\ upstream < MaxVersion
    /\ upstream' = upstream + 1
    /\ UNCHANGED <<cache, expired, lock, manifest, pc, loc>>

TtlExpires ==
    /\ ~expired
    /\ expired' = TRUE
    /\ UNCHANGED <<upstream, cache, lock, manifest, pc, loc>>

\* The process dies and is started again on the directory it left.
Crash ==
    /\ "crash" \in Faults
    /\ lock' = [file \in File |-> None]
    /\ manifest' = 0
    /\ pc' = [r \in Requests |-> "idle"]
    /\ loc' = [r \in Requests |-> NoLoc]
    /\ UNCHANGED <<upstream, cache, expired>>

Next ==
    \/ \E r \in Requests : Request(r) \/ Lock(r) \/ Step(r)
    \/ Release \/ TtlExpires \/ Crash

Spec == Init /\ [][Next]_vars

\* Requests to the CDN give up after 300 s, and sync.Mutex serves who waits.
Fairness == \A r \in Requests : WF_vars(Step(r)) /\ SF_vars(Lock(r))

FairSpec == Spec /\ Fairness

----------------------------------------------------------------------------
(* Properties.                                                             *)

Inside == {"glob", "purge", "stat", "get", "listed", "write", "fresh", "check",
           "serve", "served"}

\* The state is of the expected shape.
TypeOK ==
    /\ upstream \in 1..MaxVersion
    /\ cache \in [File -> Content]
    /\ expired \in BOOLEAN
    /\ lock \in [File -> Requests \cup {None}]
    /\ manifest \in Version
    /\ pc \in [Requests -> {"idle", "lock"} \cup Inside]
    /\ loc \in [Requests -> [file : File, todo : SUBSET {"dat", "id"},
                             body : Content, floor : Version]]

\* No engine is served that is not a Linux one, whichever request downloaded
\* it, also when that request, or the process, died before it checked it.
ServedEngineChecked ==
    \A r \in Requests :
        pc[r] = "served" /\ loc[r].file = "engine" => loc[r].body.elf

\* What a request found or fetched is there when it answers: what its lock
\* protects nobody takes away.  (versions.dat.gz is taken away by requests
\* for versions.id, which hold another lock.)
ServedPresent ==
    \A r \in Requests :
        pc[r] = "served" /\ loc[r].file # "dat" => loc[r].body.ver # 0

\* A request that finds versions.id older than the TTL answers with one the
\* CDN published no earlier than that, unless the old could not be removed.
ServedIdRefreshed ==
    \A r \in Requests :
        pc[r] = "served" /\ loc[r].file = "id" => loc[r].body.ver >= loc[r].floor

\* Every request is answered, behind whichever failures of others.
Answered == \A r \in Requests : pc[r] # "idle" ~> pc[r] = "idle"
===========================================================================
