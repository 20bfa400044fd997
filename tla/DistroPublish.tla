--------------------------- MODULE DistroPublish ---------------------------
(***************************************************************************)
(* Uploading a distribution image (handlers/distro_signing.go).  An upload *)
(* is received, synced and signed in temporary files of its own; then,     *)
(* under distroPublishMu, publishDistroPair moves the published image and  *)
(* signature to backup names, renames the new signature and the new image  *)
(* into place and removes the backups, or undoes what it did.              *)
(*                                                                         *)
(* One step is one call on the file system, because requests list and read *)
(* the directory without the mutex and because the process may die between *)
(* any two.  A failed check or write before the mutex is taken leaves      *)
(* nothing behind and is not a step.  One file name is modelled: uploads   *)
(* of different names share nothing but the mutex.                         *)
(***************************************************************************)
EXTENDS Naturals

CONSTANTS
    Uploaders,  \* concurrent upload requests
    Uploads,    \* the images uploaded, each with its signature
    None,       \* no file
    Faults,     \* calls that may fail ("remove": os.Remove while undoing,
                \* "drop": os.Remove of a backup), and "crash"
    MaxErrors   \* bound: failed calls in one publication

ASSUME UploadersAssumption == None \notin Uploads \cup Uploaders
ASSUME FaultsAssumption ==
    /\ Faults \subseteq {"stat", "rename", "remove", "drop", "crash"}
    /\ MaxErrors \in Nat

Part == {"img", "sig"}

VARIABLES
    name,     \* what stands under the published name of each part
    bak,      \* what stands under the backup names of each publication
    orphans,  \* what stands under backup names nobody remembers
    mu,       \* owner of distroPublishMu
    pc, up,   \* next call of an upload, and what it uploads
    errors,   \* failed calls of its publication so far
    before,   \* history: what was published when it took the mutex
    kept      \* history: the upload whose image was renamed into place last

vars == <<name, bak, orphans, mu, pc, up, errors, before, kept>>

Content == Uploads \cup {None}
Pair == [Part -> Content]
Nothing == [part \in Part |-> None]

\* The next call: an operation and the part it is on.
At(op, part) == <<op, part>>
Idle == At("idle", "img")
Failed == At("failed", "img")
Done == At("done", "img")

Init ==
    /\ name = Nothing
    /\ bak = [p \in Uploaders |-> Nothing]
    /\ orphans = [part \in Part |-> {}]
    /\ mu = None
    /\ pc = [p \in Uploaders |-> Idle]
    /\ up = [p \in Uploaders |-> None]
    /\ errors = [p \in Uploaders |-> 0]
    /\ before = [p \in Uploaders |-> Nothing]
    /\ kept = None

Goto(p, step) == pc' = [pc EXCEPT ![p] = step]

----------------------------------------------------------------------------
(* storeAndSignDistroAt.                                                   *)

\* Both temporary files are written, synced and closed.
Upload(p) ==
    /\ pc[p] = Idle
    /\ \E u \in Uploads : up' = [up EXCEPT ![p] = u]
    /\ Goto(p, At("ready", "img"))
    /\ UNCHANGED <<name, bak, orphans, mu, errors, before, kept>>

\* Mutant: no mutex around the publication.
Lock_NoMutex(p) ==
    /\ pc[p] = At("ready", "img")
    /\ mu' = p
    /\ before' = [before EXCEPT ![p] = name]
    /\ Goto(p, At("backup", "img"))
    /\ UNCHANGED <<name, bak, orphans, up, errors, kept>>

Lock(p) ==
    /\ pc[p] = At("ready", "img")
    /\ mu = None
    /\ mu' = p
    /\ before' = [before EXCEPT ![p] = name]
    /\ Goto(p, At("backup", "img"))
    /\ UNCHANGED <<name, bak, orphans, up, errors, kept>>

\* Mutant: the error path returns with the mutex held.
Unlock_SuccessOnly(p) ==
    /\ pc[p] = Done
    /\ mu' = None
    /\ orphans' = [part \in Part |-> orphans[part] \cup ({bak[p][part]} \ {None})]
    /\ bak' = [bak EXCEPT ![p] = Nothing]
    /\ up' = [up EXCEPT ![p] = None]
    /\ errors' = [errors EXCEPT ![p] = 0]
    /\ before' = [before EXCEPT ![p] = Nothing]
    /\ Goto(p, Idle)
    /\ UNCHANGED <<name, kept>>

\* Mutant: a backup is left behind for a file that was never there.
Unlock_Phantom(p) ==
    /\ pc[p] \in {Failed, Done}
    /\ mu' = None
    /\ orphans' = [part \in Part |-> orphans[part] \cup {bak[p][part]}]
    /\ bak' = [bak EXCEPT ![p] = Nothing]
    /\ up' = [up EXCEPT ![p] = None]
    /\ errors' = [errors EXCEPT ![p] = 0]
    /\ before' = [before EXCEPT ![p] = Nothing]
    /\ Goto(p, Idle)
    /\ UNCHANGED <<name, kept>>

\* A backup that could not be put back or removed is left behind.
Unlock(p) ==
    /\ pc[p] \in {Failed, Done}
    /\ mu' = None
    /\ orphans' = [part \in Part |-> orphans[part] \cup ({bak[p][part]} \ {None})]
    /\ bak' = [bak EXCEPT ![p] = Nothing]
    /\ up' = [up EXCEPT ![p] = None]
    /\ errors' = [errors EXCEPT ![p] = 0]
    /\ before' = [before EXCEPT ![p] = Nothing]
    /\ Goto(p, Idle)
    /\ UNCHANGED <<name, kept>>

----------------------------------------------------------------------------
(* publishDistroPair.                                                      *)

\* A call of p fails.
Fails(p, fault) ==
    /\ fault \in Faults
    /\ errors[p] < MaxErrors
    /\ errors' = [errors EXCEPT ![p] = @ + 1]

\* What restoreBackup of the part does first; nothing without a backup.
\* The signature's restore is the last call of an undone publication.
RestoreFrom(p, part) ==
    IF part = "img" /\ bak[p]["img"] # None THEN At("unlink", "img")
    ELSE IF bak[p]["sig"] # None THEN At("unlink", "sig")
    ELSE Failed

\* Mutant: the published file is removed, not moved aside.
Backup_Removes(p, part) ==
    /\ pc[p] = At("backup", part)
    /\ name' = [name EXCEPT ![part] = None]
    /\ Goto(p, IF part = "img" THEN At("backup", "sig") ELSE At("publish", "sig"))
    /\ UNCHANGED <<bak, orphans, mu, up, errors, before, kept>>

\* backupExistingFile; the name it moves the file to is p's own.
Backup(p, part) ==
    /\ pc[p] = At("backup", part)
    /\ name' = [name EXCEPT ![part] = None]
    /\ bak' = [bak EXCEPT ![p][part] = name[part]]
    /\ Goto(p, IF part = "img" THEN At("backup", "sig") ELSE At("publish", "sig"))
    /\ UNCHANGED <<orphans, mu, up, errors, before, kept>>

\* Mutant: the image is not put back when the signature cannot be moved aside.
BackupFails_NoRestore(p, part) ==
    /\ pc[p] = At("backup", part)
    /\ \/ Fails(p, "stat")
       \/ name[part] # None /\ Fails(p, "rename")
    /\ Goto(p, Failed)
    /\ UNCHANGED <<name, bak, orphans, mu, up, before, kept>>

\* The signature cannot be moved aside: only the image is put back.
BackupFails(p, part) ==
    /\ pc[p] = At("backup", part)
    /\ \/ Fails(p, "stat")
       \/ name[part] # None /\ Fails(p, "rename")
    /\ Goto(p, IF part = "img" THEN Failed ELSE RestoreFrom(p, "img"))
    /\ UNCHANGED <<name, bak, orphans, mu, up, before, kept>>

\* Signature first: with the image the pair becomes complete.
Publish(p, part) ==
    /\ pc[p] = At("publish", part)
    /\ name' = [name EXCEPT ![part] = up[p]]
    /\ kept' = IF part = "img" THEN up[p] ELSE kept
    /\ Goto(p, IF part = "sig" THEN At("publish", "img") ELSE At("drop", "img"))
    /\ UNCHANGED <<bak, orphans, mu, up, errors, before>>

PublishFails(p, part) ==
    /\ pc[p] = At("publish", part)
    /\ Fails(p, "rename")
    /\ Goto(p, At("clear", "img"))
    /\ UNCHANGED <<name, bak, orphans, mu, up, before, kept>>

\* Mutant: the new signature is left when the image cannot be published.
Clear_ImageOnly(p, part) ==
    /\ pc[p] = At("clear", part)
    /\ name' = [name EXCEPT !["img"] = None]
    /\ Goto(p, RestoreFrom(p, "img"))
    /\ UNCHANGED <<bak, orphans, mu, up, errors, before, kept>>

\* rollback: os.Remove of both published names; errors are ignored.
Clear(p, part) ==
    /\ pc[p] = At("clear", part)
    /\ \/ name' = [name EXCEPT ![part] = None] /\ UNCHANGED errors
       \/ name[part] # None /\ Fails(p, "remove") /\ UNCHANGED name
    /\ Goto(p, IF part = "img" THEN At("clear", "sig") ELSE RestoreFrom(p, "img"))
    /\ UNCHANGED <<bak, orphans, mu, up, before, kept>>

\* restoreBackup: os.Remove of the destination, then os.Rename.
Unlink(p, part) ==
    /\ pc[p] = At("unlink", part)
    /\ \/ name' = [name EXCEPT ![part] = None] /\ UNCHANGED errors
       \/ name[part] # None /\ Fails(p, "remove") /\ UNCHANGED name
    /\ Goto(p, At("restore", part))
    /\ UNCHANGED <<bak, orphans, mu, up, before, kept>>

AfterRestore(p, part) == IF part = "img" THEN RestoreFrom(p, "sig") ELSE Failed

Restore(p, part) ==
    /\ pc[p] = At("restore", part)
    /\ \/ /\ name' = [name EXCEPT ![part] = bak[p][part]]
          /\ bak' = [bak EXCEPT ![p][part] = None]
          /\ UNCHANGED errors
       \/ Fails(p, "rename") /\ UNCHANGED <<name, bak>>
    /\ Goto(p, AfterRestore(p, part))
    /\ UNCHANGED <<orphans, mu, up, before, kept>>

\* The backups go; an error is ignored.
Drop(p, part) ==
    /\ pc[p] = At("drop", part)
    /\ \/ bak' = [bak EXCEPT ![p][part] = None] /\ UNCHANGED errors
       \/ bak[p][part] # None /\ Fails(p, "drop") /\ UNCHANGED bak
    /\ Goto(p, IF part = "img" THEN At("drop", "sig") ELSE Done)
    /\ UNCHANGED <<name, orphans, mu, up, before, kept>>

\* The process dies and is started again; nothing tidies the directory.
Crash ==
    /\ "crash" \in Faults
    /\ orphans' = [part \in Part |->
                      orphans[part] \cup ({bak[p][part] : p \in Uploaders} \ {None})]
    /\ bak' = [p \in Uploaders |-> Nothing]
    /\ mu' = None
    /\ pc' = [p \in Uploaders |-> Idle]
    /\ up' = [p \in Uploaders |-> None]
    /\ errors' = [p \in Uploaders |-> 0]
    /\ before' = [p \in Uploaders |-> Nothing]
    /\ UNCHANGED <<name, kept>>

PartStep(p, part) ==
    \/ Backup(p, part) \/ BackupFails(p, part)
    \/ Publish(p, part) \/ PublishFails(p, part)
    \/ Clear(p, part) \/ Unlink(p, part) \/ Restore(p, part) \/ Drop(p, part)

Publication(p) == Unlock(p) \/ \E part \in Part : PartStep(p, part)

Next ==
    \/ \E p \in Uploaders : Upload(p) \/ Lock(p) \/ Publication(p)
    \/ Crash

Spec == Init /\ [][Next]_vars

\* A publication goes on, and sync.Mutex starves no waiter.
Fairness == \A p \in Uploaders : WF_vars(Publication(p)) /\ SF_vars(Lock(p))

FairSpec == Spec /\ Fairness

----------------------------------------------------------------------------
(* Properties.                                                             *)

Step == {Idle, Failed, Done, At("ready", "img")}
        \cup ({"backup", "publish", "clear", "unlink", "restore", "drop"} \X Part)

\* The state is of the expected shape.
TypeOK ==
    /\ name \in Pair
    /\ bak \in [Uploaders -> Pair]
    /\ orphans \in [Part -> SUBSET Uploads]
    /\ mu \in Uploaders \cup {None}
    /\ pc \in [Uploaders -> Step]
    /\ up \in [Uploaders -> Content]
    /\ errors \in [Uploaders -> 0..MaxErrors]
    /\ before \in [Uploaders -> Pair]
    /\ kept \in Content

\* os.Remove undoes what it should, or only one call of a publication fails.
RemoveCounts == "remove" \notin Faults \/ MaxErrors <= 1

Complete(pair) == \A part \in Part : pair[part] # None

\* Whenever an image and a signature stand under their published names, also
\* in the middle of a publication, of its undoing, or after a crash, they are
\* of one upload, the one published last.  listSignedDistros and the file
\* route look at the directory without the mutex.
PairMatches ==
    RemoveCounts /\ Complete(name) => \A part \in Part : name[part] = kept

\* Moving a pair aside loses nothing: image and signature of the upload
\* published last stand under their names or under a backup name, whatever
\* fails and wherever the process dies.
KeptSurvives ==
    kept # None => \A part \in Part :
        \/ name[part] = kept
        \/ \E p \in Uploaders : bak[p][part] = kept
        \/ kept \in orphans[part]

\* A publication that failed on one call has put back what it found
\* (docs/distro-signing-v0.5.1.md:102).
FailureRestores ==
    \A p \in Uploaders : pc[p] = Failed /\ errors[p] <= 1 => name = before[p]

\* An upload that reports success is the one published, alone and complete,
\* when it gives the mutex back.
SuccessPublishes ==
    \A p \in Uploaders : pc[p] = Done => \A part \in Part : name[part] = up[p]

\* An upload once received comes to its end, also behind one that failed.
UploadEnds == \A p \in Uploaders : pc[p] # Idle ~> pc[p] = Idle

shownPair == IF Complete(name) THEN <<name["img"], name["sig"]>> ELSE None

\* The directory implements the abstract pair.
SP == INSTANCE SignedPair WITH shown <- shownPair, kept <- kept
SignedPairSpec == SP!Spec
===========================================================================
