------------------------ MODULE DistroPublishProofs ------------------------
(***************************************************************************)
(* What holds of DistroPublish for every set of uploads and uploaders,     *)
(* every choice of failing calls and every bound on their number.          *)
(***************************************************************************)
EXTENDS DistroPublish, TLAPS

USE DEF Idle, Failed, Done, At, Part

----------------------------------------------------------------------------
(* Type correctness.                                                       *)

LEMMA NothingType == Nothing \in Pair
BY DEF Nothing, Pair, Content

\* Where an undone publication goes on is a step of its own.
LEMMA RestoreFromType ==
    ASSUME NEW p, NEW part \in Part
    PROVE  RestoreFrom(p, part) \in Step /\ AfterRestore(p, part) \in Step
BY DEF RestoreFrom, AfterRestore, Step

LEMMA FailsType ==
    ASSUME TypeOK, NEW p \in Uploaders, NEW fault, Fails(p, fault)
    PROVE  /\ errors' \in [Uploaders -> 0..MaxErrors]
           /\ errors' = [errors EXCEPT ![p] = errors[p] + 1]
BY FaultsAssumption DEF TypeOK, Fails

LEMMA PartTypeStep ==
    ASSUME TypeOK, NEW p \in Uploaders, NEW part \in Part, PartStep(p, part)
    PROVE  TypeOK'
<1> USE DEF Step
<1>0. /\ name[part] \in Content /\ bak[p] \in Pair /\ bak[p][part] \in Content
      /\ up[p] \in Content /\ None \in Content
  BY DEF TypeOK, Pair, Content
<1>1. CASE Backup(p, part)
  <2>1. name' \in Pair /\ bak' \in [Uploaders -> Pair]
    BY <1>0, <1>1 DEF TypeOK, Backup, Pair
  <2>2. pc' \in [Uploaders -> Step]
    BY <1>1 DEF TypeOK, Backup, Goto
  <2> QED BY <1>1, <2>1, <2>2 DEF TypeOK, Backup
<1>2. CASE BackupFails(p, part)
  <2>1. pc' \in [Uploaders -> Step]
    BY <1>2, RestoreFromType DEF TypeOK, BackupFails, Goto
  <2> QED BY <1>2, <2>1, FailsType DEF TypeOK, BackupFails
<1>3. CASE Publish(p, part)
  <2>1. name' \in Pair /\ kept' \in Content
    BY <1>0, <1>3 DEF TypeOK, Publish, Pair
  <2>2. pc' \in [Uploaders -> Step]
    BY <1>3 DEF TypeOK, Publish, Goto
  <2> QED BY <1>3, <2>1, <2>2 DEF TypeOK, Publish
<1>4. CASE PublishFails(p, part)
  <2>1. pc' \in [Uploaders -> Step]
    BY <1>4 DEF TypeOK, PublishFails, Goto
  <2> QED BY <1>4, <2>1, FailsType DEF TypeOK, PublishFails
<1>5. CASE Clear(p, part)
  <2>1. name' \in Pair
    BY <1>0, <1>5 DEF TypeOK, Clear, Pair
  <2>2. pc' \in [Uploaders -> Step]
    BY <1>5, RestoreFromType DEF TypeOK, Clear, Goto
  <2> QED BY <1>5, <2>1, <2>2, FailsType DEF TypeOK, Clear
<1>6. CASE Unlink(p, part)
  <2>1. name' \in Pair
    BY <1>0, <1>6 DEF TypeOK, Unlink, Pair
  <2>2. pc' \in [Uploaders -> Step]
    BY <1>6 DEF TypeOK, Unlink, Goto
  <2> QED BY <1>6, <2>1, <2>2, FailsType DEF TypeOK, Unlink
<1>7. CASE Restore(p, part)
  <2>a. /\ [name EXCEPT ![part] = bak[p][part]] \in Pair
        /\ [bak[p] EXCEPT ![part] = None] \in Pair
    BY <1>0 DEF TypeOK, Pair
  <2>1. name' \in Pair /\ bak' \in [Uploaders -> Pair]
    BY <1>7, <2>a DEF TypeOK, Restore
  <2>2. pc' \in [Uploaders -> Step]
    BY <1>7, RestoreFromType DEF TypeOK, Restore, Goto
  <2> QED BY <1>7, <2>1, <2>2, FailsType DEF TypeOK, Restore
<1>8. CASE Drop(p, part)
  <2>1. bak' \in [Uploaders -> Pair]
    BY <1>0, <1>8 DEF TypeOK, Drop, Pair
  <2>2. pc' \in [Uploaders -> Step]
    BY <1>8 DEF TypeOK, Drop, Goto
  <2> QED BY <1>8, <2>1, <2>2, FailsType DEF TypeOK, Drop
<1> QED BY <1>1, <1>2, <1>3, <1>4, <1>5, <1>6, <1>7, <1>8 DEF PartStep

LEMMA TypeStep ==
    ASSUME TypeOK, [Next]_vars
    PROVE  TypeOK'
<1>1. ASSUME NEW p \in Uploaders, Upload(p)
      PROVE  TypeOK'
  BY <1>1 DEF TypeOK, Upload, Goto, Step, Content
<1>2. ASSUME NEW p \in Uploaders, Lock(p)
      PROVE  TypeOK'
  BY <1>2 DEF TypeOK, Lock, Goto, Step
<1>3. ASSUME NEW p \in Uploaders, Unlock(p)
      PROVE  TypeOK'
  <2>1. orphans' \in [Part -> SUBSET Uploads]
    BY <1>3 DEF TypeOK, Unlock, Pair, Content
  <2>2. errors' \in [Uploaders -> 0..MaxErrors]
    BY <1>3, FaultsAssumption DEF TypeOK, Unlock
  <2> QED BY <1>3, <2>1, <2>2, NothingType DEF TypeOK, Unlock, Goto, Step, Content
<1>4. CASE Crash
  <2>1. orphans' \in [Part -> SUBSET Uploads]
    BY <1>4 DEF TypeOK, Crash, Pair, Content
  <2>2. errors' \in [Uploaders -> 0..MaxErrors]
    BY <1>4, FaultsAssumption DEF Crash
  <2> QED BY <1>4, <2>1, <2>2, NothingType DEF TypeOK, Crash, Step, Content
<1>5. CASE UNCHANGED vars
  BY <1>5 DEF TypeOK, vars
<1> QED BY <1>1, <1>2, <1>3, <1>4, <1>5, PartTypeStep DEF Next, Publication

\* Every reachable state is of the expected shape.
THEOREM TypeCorrect == Spec => []TypeOK
<1>1. Init => TypeOK
  BY NothingType, FaultsAssumption DEF Init, TypeOK, Step, Content
<1>2. TypeOK /\ [Next]_vars => TypeOK'
  BY TypeStep
<1> QED BY <1>1, <1>2, PTL DEF Spec

----------------------------------------------------------------------------
(* The inductive invariant: where a publication is, what it found is       *)
(* spread over the published names and its backups in one known way.       *)

Active(p) == pc[p] \notin {Idle, At("ready", "img")}

\* Only the owner of the mutex is inside publishDistroPair; the others have
\* no backups and no failed calls.
Exclusive ==
    /\ \A p \in Uploaders : Active(p) <=> mu = p
    /\ \A p \in Uploaders : ~Active(p) => bak[p] = Nothing /\ errors[p] = 0

\* No more than one call of p has failed, or removals while undoing do not.
Undoes(p) == "remove" \notin Faults \/ errors[p] <= 1

Agrees(pair) == Complete(pair) => \A part \in Part : pair[part] = kept

\* Before the first rename of a new file.
BackingUp(p) ==
    /\ errors[p] = 0
    /\ pc[p] = At("backup", "img") => name = before[p] /\ bak[p] = Nothing
    /\ pc[p] = At("backup", "sig") =>
          /\ name["img"] = None /\ name["sig"] = before[p]["sig"]
          /\ bak[p]["img"] = before[p]["img"] /\ bak[p]["sig"] = None

\* All that was found is in the backups.
BackedUp(p) ==
    /\ \A part \in Part : bak[p][part] = before[p][part]
    /\ name["img"] = None
    /\ pc[p] = At("publish", "sig") => name["sig"] = None /\ errors[p] = 0
    /\ pc[p] = At("publish", "img") => name["sig"] = up[p] /\ errors[p] = 0
    /\ pc[p][1] = "clear" => name["sig"] \in {None, up[p]} /\ errors[p] >= 1

\* The image's backup is being put back; the signature is in its backup, or
\* was never moved.
RestoringImage(p) ==
    /\ errors[p] >= 1
    /\ name["img"] = None
    /\ bak[p]["img"] = before[p]["img"] /\ bak[p]["img"] # None
    /\ \/ bak[p]["sig"] = before[p]["sig"] /\ (Undoes(p) => name["sig"] = None)
       \/ bak[p]["sig"] = None /\ name["sig"] = before[p]["sig"]

\* The image is back unless that call failed.
RestoringSignature(p) ==
    /\ errors[p] >= 1
    /\ name["img"] \in {None, before[p]["img"]}
    /\ \/ name["img"] = before[p]["img"]
       \/ bak[p]["img"] = before[p]["img"] /\ errors[p] >= 2
    /\ bak[p]["sig"] = before[p]["sig"] /\ bak[p]["sig"] # None
    /\ Undoes(p) => name["sig"] = None

Undone(p) ==
    /\ errors[p] >= 1
    /\ errors[p] = 1 => name = before[p]
    /\ name["img"] \in {None, before[p]["img"]}
    /\ "remove" \notin Faults => name["sig"] \in {None, before[p]["sig"]}
    /\ \A part \in Part : name[part] = before[p][part] \/ bak[p][part] = before[p][part]

Published(p) == \A part \in Part : name[part] = up[p] /\ kept = up[p]

Shape(p) ==
    /\ up[p] # None
    /\ pc[p][1] = "backup" => BackingUp(p)
    /\ pc[p][1] \in {"publish", "clear"} => BackedUp(p)
    /\ pc[p] \in {At("unlink", "img"), At("restore", "img")} => RestoringImage(p)
    /\ pc[p] \in {At("unlink", "sig"), At("restore", "sig")} => RestoringSignature(p)
    /\ pc[p] = Failed => Undone(p)
    /\ pc[p][1] \in {"drop", "done"} => Published(p)

\* What was found agrees with what was published last, and none of that is
\* lost but in what was found or among the files left behind.
Found(p) ==
    pc[p][1] \notin {"drop", "done"} =>
        /\ RemoveCounts => Agrees(before[p])
        /\ kept # None => \A part \in Part :
              before[p][part] = kept \/ kept \in orphans[part]

Core ==
    /\ TypeOK
    /\ Exclusive
    /\ \A p \in Uploaders : pc[p] # Idle => up[p] # None
    /\ \A p \in Uploaders : Active(p) => Shape(p) /\ Found(p)

Inv == Core /\ PairMatches /\ KeptSurvives

\* A publication that is going on answers for what is published.
LEMMA OwnerAnswers ==
    ASSUME TypeOK, NEW p \in Uploaders, Active(p), Shape(p), Found(p)
    PROVE  PairMatches /\ KeptSurvives
<1>0. /\ pc[p] \in Step \ {Idle, At("ready", "img")}
      /\ errors[p] \in 0..MaxErrors /\ MaxErrors \in Nat
      /\ name \in Pair /\ before[p] \in Pair
  BY FaultsAssumption DEF TypeOK, Active
<1>1. CASE pc[p][1] = "backup"
  <2>1. BackingUp(p)
    BY <1>1 DEF Shape
  <2>2. \/ name = before[p] /\ bak[p] = Nothing
        \/ /\ name["img"] = None /\ name["sig"] = before[p]["sig"]
           /\ bak[p]["img"] = before[p]["img"]
    BY <1>0, <1>1, <2>1 DEF BackingUp, Step
  <2> QED BY <1>1, <2>2 DEF Found, Agrees, PairMatches, KeptSurvives, Complete
<1>2. CASE pc[p][1] \in {"publish", "clear"}
  <2>1. name["img"] = None /\ \A part \in Part : bak[p][part] = before[p][part]
    BY <1>2 DEF Shape, BackedUp
  <2> QED BY <1>2, <2>1 DEF Found, PairMatches, KeptSurvives, Complete
<1>3. CASE pc[p] \in {At("unlink", "img"), At("restore", "img")}
  <2>1. RestoringImage(p)
    BY <1>3 DEF Shape
  <2> QED BY <1>3, <2>1 DEF RestoringImage, Found, PairMatches, KeptSurvives, Complete
<1>4. CASE pc[p] \in {At("unlink", "sig"), At("restore", "sig")}
  <2>1. RestoringSignature(p)
    BY <1>4 DEF Shape
  <2>2. RemoveCounts => name["sig"] = None
    BY <1>0, <2>1 DEF RestoringSignature, Undoes, RemoveCounts
  <2> QED BY <1>4, <2>1, <2>2
        DEF RestoringSignature, Found, PairMatches, KeptSurvives, Complete
<1>5. CASE pc[p] = Failed
  <2>1. Undone(p)
    BY <1>5 DEF Shape
  <2>2. RemoveCounts /\ Complete(name) => \A part \in Part : name[part] = before[p][part]
    BY <1>0, <2>1 DEF Undone, RemoveCounts, Complete
  <2> QED BY <1>5, <2>1, <2>2
        DEF Undone, Found, Agrees, PairMatches, KeptSurvives, Complete
<1>6. CASE pc[p][1] \in {"drop", "done"}
  BY <1>6 DEF Shape, Published, PairMatches, KeptSurvives
<1> QED BY <1>0, <1>1, <1>2, <1>3, <1>4, <1>5, <1>6 DEF Step

LEMMA OwnerAnswersNext ==
    ASSUME TypeOK', NEW p \in Uploaders, Active(p)', Shape(p)', Found(p)'
    PROVE  (PairMatches /\ KeptSurvives)'
BY OwnerAnswers, PTL

----------------------------------------------------------------------------
(* The steps of a publication keep its shape.                              *)

\* What every lemma below starts from.
Acts(p, part) ==
    /\ TypeOK
    /\ p \in Uploaders /\ part \in Part
    /\ Active(p) /\ Shape(p) /\ Found(p)

LEMMA Typed ==
    ASSUME NEW p, NEW part, Acts(p, part)
    PROVE  /\ p \in Uploaders /\ part \in Part
           /\ name \in Pair /\ bak[p] \in Pair /\ before[p] \in Pair
           /\ DOMAIN bak[p] = Part /\ DOMAIN bak = Uploaders /\ DOMAIN name = Part
           /\ DOMAIN pc = Uploaders /\ DOMAIN errors = Uploaders
           /\ errors[p] \in Nat /\ pc[p] \in Step /\ up[p] # None
BY FaultsAssumption DEF Acts, TypeOK, Pair, Shape

\* What was found stays what was found.
LEMMA FoundStays ==
    ASSUME NEW p, Found(p), pc[p][1] \notin {"drop", "done"},
           UNCHANGED <<orphans, before, kept>>
    PROVE  Found(p)'
BY DEF Found, Agrees, Complete, RemoveCounts

LEMMA BackupKeeps ==
    ASSUME NEW p, NEW part, Acts(p, part), Backup(p, part)
    PROVE  Shape(p)' /\ Found(p)'
<1>1. BackingUp(p)
  BY DEF Acts, Shape, Backup
<1>2. CASE part = "img"
  <2>1. pc'[p] = At("backup", "sig")
    BY <1>2, Typed DEF Backup, Goto
  <2>2. BackingUp(p)'
    BY <1>1, <1>2, <2>1, Typed DEF BackingUp, Backup, Nothing
  <2> QED BY <1>2, <2>1, <2>2, Typed, FoundStays DEF Backup, Shape, Acts
<1>3. CASE part = "sig"
  <2>1. pc'[p] = At("publish", "sig")
    BY <1>3, Typed DEF Backup, Goto
  <2>2. BackedUp(p)'
    BY <1>1, <1>3, <2>1, Typed DEF BackingUp, BackedUp, Backup, Nothing
  <2> QED BY <1>3, <2>1, <2>2, Typed, FoundStays DEF Backup, Shape, Acts
<1> QED BY <1>2, <1>3 DEF Acts

LEMMA BackupFailsKeeps ==
    ASSUME NEW p, NEW part, Acts(p, part), BackupFails(p, part)
    PROVE  Shape(p)' /\ Found(p)'
<1>1. BackingUp(p)
  BY DEF Acts, Shape, BackupFails
<1>2. errors'[p] = errors[p] + 1
  BY Typed DEF BackupFails, Fails
<1>3. CASE part = "img"
  <2>1. pc'[p] = Failed
    BY <1>3, Typed DEF BackupFails, Goto
  <2>2. Undone(p)'
    BY <1>1, <1>2, <1>3, <2>1, Typed DEF BackingUp, Undone, BackupFails
  <2> QED BY <1>3, <2>1, <2>2, Typed, FoundStays DEF BackupFails, Shape, Acts
<1>4. CASE part = "sig" /\ bak[p]["img"] # None
  <2>1. pc'[p] = At("unlink", "img")
    BY <1>4, Typed DEF BackupFails, Goto, RestoreFrom
  <2>2. RestoringImage(p)'
    BY <1>1, <1>2, <1>4, <2>1, Typed DEF BackingUp, RestoringImage, BackupFails
  <2> QED BY <1>4, <2>1, <2>2, Typed, FoundStays DEF BackupFails, Shape, Acts
<1>5. CASE part = "sig" /\ bak[p]["img"] = None
  <2>0. bak[p]["sig"] = None
    BY <1>1, <1>5, Typed DEF BackingUp, BackupFails
  <2>1. pc'[p] = Failed
    BY <1>5, <2>0, Typed DEF BackupFails, Goto, RestoreFrom
  <2>2. Undone(p)'
    BY <1>1, <1>2, <1>5, <2>1, Typed DEF BackingUp, Undone, BackupFails, Pair
  <2> QED BY <1>5, <2>1, <2>2, Typed, FoundStays DEF BackupFails, Shape, Acts
<1> QED BY <1>3, <1>4, <1>5 DEF Acts

LEMMA PublishKeeps ==
    ASSUME NEW p, NEW part, Acts(p, part), Publish(p, part)
    PROVE  Shape(p)' /\ Found(p)'
<1>1. BackedUp(p)
  BY DEF Acts, Shape, Publish
<1>2. CASE part = "sig"
  <2>1. pc'[p] = At("publish", "img")
    BY <1>1, <1>2, Typed DEF Publish, Goto
  <2>2. BackedUp(p)'
    BY <1>1, <1>2, <2>1, Typed DEF BackedUp, Publish
  <2> QED BY <1>2, <2>1, <2>2, Typed, FoundStays DEF Publish, Shape, Acts
<1>3. CASE part = "img"
  <2>1. pc'[p] = At("drop", "img")
    BY <1>3, Typed DEF Publish, Goto
  <2>2. Published(p)'
    BY <1>1, <1>3, Typed DEF BackedUp, Published, Publish
  <2> QED BY <1>3, <2>1, <2>2, Typed DEF Publish, Shape, Found, Acts
<1> QED BY <1>2, <1>3 DEF Acts

LEMMA PublishFailsKeeps ==
    ASSUME NEW p, NEW part, Acts(p, part), PublishFails(p, part)
    PROVE  Shape(p)' /\ Found(p)'
<1>1. BackedUp(p)
  BY DEF Acts, Shape, PublishFails
<1>2. errors'[p] = errors[p] + 1
  BY Typed DEF PublishFails, Fails
<1>3. pc'[p] = At("clear", "img")
  BY Typed DEF PublishFails, Goto
<1>4. BackedUp(p)'
  BY <1>1, <1>2, <1>3, Typed DEF BackedUp, PublishFails
<1> QED BY <1>3, <1>4, Typed, FoundStays DEF PublishFails, Shape, Acts

\* What an undone publication still has to put back, once both names are clear.
LEMMA RestoreBegins ==
    ASSUME NEW p, NEW part, Acts(p, part), Clear(p, part), part = "sig"
    PROVE  Shape(p)' /\ Found(p)'
<1>1. /\ BackedUp(p) /\ errors[p] >= 1
      /\ name["sig"] \in {None, up[p]}
  BY DEF Acts, Shape, Clear, BackedUp
<1>2. errors'[p] >= 1 /\ errors'[p] >= errors[p]
  BY <1>1, Typed DEF Clear, Fails
<1>3. /\ name'["img"] = None
      /\ Undoes(p)' => name'["sig"] = None
  BY <1>1, Typed DEF BackedUp, Clear, Fails, Undoes
<1>4. CASE bak[p]["img"] # None
  <2>1. pc'[p] = At("unlink", "img")
    BY <1>4, Typed DEF Clear, Goto, RestoreFrom
  <2>2. RestoringImage(p)'
    BY <1>1, <1>2, <1>3, <1>4, Typed DEF BackedUp, RestoringImage, Clear
  <2> QED BY <2>1, <2>2, Typed, FoundStays DEF Clear, Shape, Acts
<1>5. CASE bak[p]["img"] = None /\ bak[p]["sig"] # None
  <2>1. pc'[p] = At("unlink", "sig")
    BY <1>5, Typed DEF Clear, Goto, RestoreFrom
  <2>2. RestoringSignature(p)'
    BY <1>1, <1>2, <1>3, <1>5, Typed DEF BackedUp, RestoringSignature, Clear
  <2> QED BY <2>1, <2>2, Typed, FoundStays DEF Clear, Shape, Acts
<1>6. CASE bak[p]["img"] = None /\ bak[p]["sig"] = None
  <2>1. pc'[p] = Failed
    BY <1>6, Typed DEF Clear, Goto, RestoreFrom
  <2>2. before[p] = Nothing
    BY <1>1, <1>6, Typed DEF BackedUp, Nothing, Pair
  <2>3. errors'[p] = 1 \/ "remove" \notin Faults => name' = Nothing
    BY <1>1, <1>2, <1>3, Typed DEF Undoes, Nothing, Pair, Clear
  <2>4. Undone(p)'
    BY <1>1, <1>2, <1>3, <1>6, <2>2, <2>3, Typed DEF BackedUp, Undone, Nothing, Clear
  <2> QED BY <2>1, <2>4, Typed, FoundStays DEF Clear, Shape, Acts
<1> QED BY <1>4, <1>5, <1>6

LEMMA ClearKeeps ==
    ASSUME NEW p, NEW part, Acts(p, part), Clear(p, part)
    PROVE  Shape(p)' /\ Found(p)'
<1>1. CASE part = "img"
  <2>1. BackedUp(p) /\ errors[p] >= 1 /\ name["sig"] \in {None, up[p]}
    BY DEF Acts, Shape, Clear, BackedUp
  <2>2. pc'[p] = At("clear", "sig")
    BY <1>1, Typed DEF Clear, Goto
  <2>3. errors'[p] >= 1
    BY <2>1, Typed DEF Clear, Fails
  <2>4. BackedUp(p)'
    BY <1>1, <2>1, <2>2, <2>3, Typed DEF BackedUp, Clear
  <2> QED BY <2>2, <2>4, Typed, FoundStays DEF Clear, Shape, Acts
<1> QED BY <1>1, RestoreBegins DEF Acts

LEMMA UnlinkKeeps ==
    ASSUME NEW p, NEW part, Acts(p, part), Unlink(p, part)
    PROVE  Shape(p)' /\ Found(p)'
<1>1. /\ pc'[p] = At("restore", part)
      /\ \/ name' = [name EXCEPT ![part] = None] /\ errors'[p] = errors[p]
         \/ /\ UNCHANGED name /\ errors'[p] = errors[p] + 1
            /\ "remove" \in Faults
  BY Typed DEF Unlink, Goto, Fails
<1>2. CASE part = "img"
  <2>1. RestoringImage(p)
    BY <1>2 DEF Acts, Shape, Unlink
  <2>2. RestoringImage(p)'
    BY <1>1, <1>2, <2>1, Typed DEF RestoringImage, Unlink, Undoes
  <2> QED BY <1>1, <1>2, <2>2, Typed, FoundStays DEF Unlink, Shape, Acts
<1>3. CASE part = "sig"
  <2>1. RestoringSignature(p)
    BY <1>3 DEF Acts, Shape, Unlink
  <2>2. RestoringSignature(p)'
    BY <1>1, <1>3, <2>1, Typed DEF RestoringSignature, Unlink, Undoes
  <2> QED BY <1>1, <1>3, <2>2, Typed, FoundStays DEF Unlink, Shape, Acts
<1> QED BY <1>2, <1>3 DEF Acts

LEMMA RestoreKeeps ==
    ASSUME NEW p, NEW part, Acts(p, part), Restore(p, part)
    PROVE  Shape(p)' /\ Found(p)'
<1>1. \/ errors'[p] = errors[p] + 1 /\ UNCHANGED <<name, bak>>
      \/ /\ errors'[p] = errors[p]
         /\ name' = [name EXCEPT ![part] = bak[p][part]]
         /\ bak'[p] = [bak[p] EXCEPT ![part] = None]
  BY Typed DEF Restore, Fails
<1>2. CASE part = "img" /\ bak[p]["sig"] # None
  <2>1. RestoringImage(p)
    BY <1>2 DEF Acts, Shape, Restore
  <2>2. pc'[p] = At("unlink", "sig")
    BY <1>2, Typed DEF Restore, Goto, AfterRestore, RestoreFrom
  <2>3. RestoringSignature(p)'
    BY <1>1, <1>2, <2>1, Typed DEF RestoringImage, RestoringSignature, Restore, Undoes
  <2> QED BY <1>2, <2>2, <2>3, Typed, FoundStays DEF Restore, Shape, Acts
<1>3. CASE part = "img" /\ bak[p]["sig"] = None
  <2>1. RestoringImage(p)
    BY <1>3 DEF Acts, Shape, Restore
  <2>2. pc'[p] = Failed
    BY <1>3, Typed DEF Restore, Goto, AfterRestore, RestoreFrom
  <2>3. Undone(p)'
    BY <1>1, <1>3, <2>1, Typed DEF RestoringImage, Undone, Restore, Undoes, Pair
  <2> QED BY <1>3, <2>2, <2>3, Typed, FoundStays DEF Restore, Shape, Acts
<1>4. CASE part = "sig"
  <2>1. RestoringSignature(p)
    BY <1>4 DEF Acts, Shape, Restore
  <2>2. pc'[p] = Failed
    BY <1>4, Typed DEF Restore, Goto, AfterRestore
  <2>3. Undone(p)'
    BY <1>1, <1>4, <2>1, Typed DEF RestoringSignature, Undone, Restore, Undoes, Pair
  <2> QED BY <1>4, <2>2, <2>3, Typed, FoundStays DEF Restore, Shape, Acts
<1> QED BY <1>2, <1>3, <1>4 DEF Acts

LEMMA DropKeeps ==
    ASSUME NEW p, NEW part, Acts(p, part), Drop(p, part)
    PROVE  Shape(p)' /\ Found(p)'
<1>1. pc'[p] \in {At("drop", "sig"), Done}
  BY Typed DEF Drop, Goto
<1>2. Published(p)'
  BY DEF Acts, Shape, Drop, Published
<1> QED BY <1>1, <1>2, Typed DEF Drop, Shape, Found, Acts

LEMMA PublicationKeeps ==
    ASSUME NEW p, NEW part, Acts(p, part), PartStep(p, part)
    PROVE  Shape(p)' /\ Found(p)'
BY BackupKeeps, BackupFailsKeeps, PublishKeeps, PublishFailsKeeps, ClearKeeps,
   UnlinkKeeps, RestoreKeeps, DropKeeps DEF PartStep

\* It leaves the mutex and everyone else alone, and is not over yet.
LEMMA PublicationFrame ==
    ASSUME TypeOK, NEW p \in Uploaders, NEW part \in Part, PartStep(p, part)
    PROVE  /\ Active(p) /\ Active(p)'
           /\ UNCHANGED <<mu, up>>
           /\ \A q \in Uploaders \ {p} :
            pc'[q] = pc[q] /\ bak'[q] = bak[q] /\ errors'[q] = errors[q]
<1> USE DEF TypeOK, Active, Goto, PartStep
<1>1. /\ UNCHANGED <<mu, up>>
      /\ \A q \in Uploaders \ {p} :
            pc'[q] = pc[q] /\ bak'[q] = bak[q] /\ errors'[q] = errors[q]
  BY DEF Backup, BackupFails, Publish, PublishFails, Clear, Unlink, Restore, Drop, Fails
<1>2. Active(p)
  BY DEF Backup, BackupFails, Publish, PublishFails, Clear, Unlink, Restore, Drop
<1>3. pc'[p] \notin {Idle, At("ready", "img")}
  BY DEF Backup, BackupFails, Publish, PublishFails, Clear, Unlink, Restore, Drop,
         RestoreFrom, AfterRestore
<1> QED BY <1>1, <1>2, <1>3

LEMMA InvPartStep ==
    ASSUME Inv, NEW p \in Uploaders, NEW part \in Part, PartStep(p, part)
    PROVE  Inv'
<1>1. TypeOK'
  BY PartTypeStep DEF Inv, Core
<1>2. /\ Active(p) /\ Active(p)' /\ mu = p /\ mu' = p /\ up' = up
      /\ \A q \in Uploaders \ {p} :
            pc'[q] = pc[q] /\ bak'[q] = bak[q] /\ errors'[q] = errors[q]
  BY PublicationFrame DEF Inv, Core, Exclusive
<1>3. Shape(p)' /\ Found(p)'
  BY <1>2, PublicationKeeps DEF Inv, Core, Acts
<1>4. Exclusive'
  BY <1>2 DEF Inv, Core, Exclusive, Active
<1>5. \A q \in Uploaders : Active(q)' => Shape(q)' /\ Found(q)'
  BY <1>2, <1>3, <1>4 DEF Exclusive
<1>6. \A q \in Uploaders : pc'[q] # Idle => up'[q] # None
  BY <1>2 DEF Inv, Core, Active
<1> QED BY <1>1, <1>2, <1>3, <1>4, <1>5, <1>6, OwnerAnswersNext DEF Inv, Core

LEMMA InvUpload ==
    ASSUME Inv, NEW p \in Uploaders, Upload(p)
    PROVE  Inv'
<1>1. TypeOK'
  BY TypeStep DEF Inv, Core, Next
<1>2. /\ UNCHANGED <<name, bak, orphans, mu, errors, before, kept>>
      /\ pc' = [pc EXCEPT ![p] = At("ready", "img")] /\ pc[p] = Idle
      /\ up'[p] # None
      /\ \A q \in Uploaders \ {p} : pc'[q] = pc[q] /\ up'[q] = up[q]
  BY UploadersAssumption DEF Inv, Core, TypeOK, Upload, Goto
<1>3. ~Active(p) /\ ~Active(p)'
  BY <1>2 DEF Active, Inv, Core, TypeOK
<1>4. Exclusive'
  BY <1>2, <1>3 DEF Inv, Core, Exclusive, Active
<1>5. ASSUME NEW q \in Uploaders, Active(q)'
      PROVE  Shape(q)' /\ Found(q)'
  <2>1. q # p /\ Active(q) /\ Shape(q) /\ Found(q)
    BY <1>2, <1>3, <1>5 DEF Active, Inv, Core
  <2> QED BY <1>2, <2>1 DEF Shape, BackingUp, BackedUp, RestoringImage,
        RestoringSignature, Undone, Published, Undoes, Found, Agrees, Complete, RemoveCounts
<1>6. \A q \in Uploaders : pc'[q] # Idle => up'[q] # None
  BY <1>2 DEF Inv, Core
<1>7. (PairMatches /\ KeptSurvives)'
  BY <1>2 DEF Inv, PairMatches, KeptSurvives, Complete, RemoveCounts
<1> QED BY <1>1, <1>4, <1>5, <1>6, <1>7 DEF Inv, Core

\* The publication takes over a directory that answers for itself.
LEMMA InvLock ==
    ASSUME Inv, NEW p \in Uploaders, Lock(p)
    PROVE  Inv'
<1>1. TypeOK'
  BY TypeStep DEF Inv, Core, Next
<1>2. /\ UNCHANGED <<name, bak, orphans, up, errors, kept>>
      /\ mu = None /\ mu' = p /\ pc[p] = At("ready", "img")
      /\ pc'[p] = At("backup", "img") /\ before'[p] = name
      /\ \A q \in Uploaders \ {p} : pc'[q] = pc[q] /\ before'[q] = before[q]
  BY DEF Inv, Core, TypeOK, Lock, Goto
<1>3. \A q \in Uploaders : ~Active(q) /\ bak[q] = Nothing /\ errors[q] = 0
  BY <1>2, UploadersAssumption DEF Inv, Core, Exclusive
<1>4. Exclusive'
  BY <1>2, <1>3 DEF Exclusive, Active
<1>5. Active(p)' /\ up'[p] # None
  BY <1>2 DEF Active, Inv, Core
<1>6. Shape(p)'
  BY <1>2, <1>3, <1>5 DEF Shape, BackingUp
<1>7. Found(p)'
  <2>1. kept # None => \A part \in Part : name[part] = kept \/ kept \in orphans[part]
    BY <1>3 DEF Inv, KeptSurvives, Nothing
  <2> QED BY <1>2, <2>1 DEF Inv, PairMatches, Found, Agrees, Complete, RemoveCounts
<1>8. \A q \in Uploaders : Active(q)' => Shape(q)' /\ Found(q)'
  BY <1>2, <1>4, <1>6, <1>7 DEF Exclusive
<1>9. \A q \in Uploaders : pc'[q] # Idle => up'[q] # None
  BY <1>2 DEF Inv, Core
<1> QED BY <1>1, <1>4, <1>5, <1>6, <1>7, <1>8, <1>9, OwnerAnswersNext DEF Inv, Core

\* Backups still standing are left behind, not lost.
LEMMA InvUnlock ==
    ASSUME Inv, NEW p \in Uploaders, Unlock(p)
    PROVE  Inv'
<1>1. TypeOK'
  BY TypeStep DEF Inv, Core, Next, Publication
<1>2. /\ UNCHANGED <<name, kept>> /\ pc[p] \in {Failed, Done} /\ mu' = None
      /\ pc'[p] = Idle /\ bak'[p] = Nothing /\ errors'[p] = 0
      /\ \A part \in Part : orphans'[part] = orphans[part] \cup ({bak[p][part]} \ {None})
      /\ \A q \in Uploaders \ {p} : pc'[q] = pc[q] /\ up'[q] = up[q]
            /\ bak'[q] = bak[q] /\ errors'[q] = errors[q]
  BY DEF Inv, Core, TypeOK, Unlock, Goto
<1>3. /\ mu = p
      /\ \A q \in Uploaders \ {p} : ~Active(q) /\ bak[q] = Nothing /\ errors[q] = 0
  BY <1>2 DEF Inv, Core, Exclusive, Active
<1>4. \A q \in Uploaders : ~Active(q)' /\ bak'[q] = Nothing /\ errors'[q] = 0
  BY <1>2, <1>3 DEF Active
<1>5. Exclusive'
  BY <1>2, <1>4, UploadersAssumption DEF Exclusive
<1>6. \A q \in Uploaders : pc'[q] # Idle => up'[q] # None
  BY <1>2 DEF Inv, Core
<1>7. PairMatches'
  BY <1>2 DEF Inv, PairMatches, Complete, RemoveCounts
<1>8. KeptSurvives'
  <2> SUFFICES ASSUME kept # None, NEW part \in Part
               PROVE  name'[part] = kept \/ kept \in orphans'[part]
    BY <1>2 DEF KeptSurvives
  <2>1. name[part] = kept \/ kept \in orphans[part] \/ bak[p][part] = kept
    BY <1>3 DEF Inv, KeptSurvives, Nothing
  <2> QED BY <1>2, <2>1
<1> QED BY <1>1, <1>4, <1>5, <1>6, <1>7, <1>8 DEF Inv, Core

LEMMA InvCrash ==
    ASSUME Inv, Crash
    PROVE  Inv'
<1>1. TypeOK'
  BY TypeStep DEF Inv, Core, Next
<1>2. \A q \in Uploaders :
         ~Active(q)' /\ bak'[q] = Nothing /\ pc'[q] = Idle /\ errors'[q] = 0
  BY DEF Crash, Active
<1>3. Exclusive'
  BY <1>2, UploadersAssumption DEF Crash, Exclusive
<1>4. PairMatches'
  BY DEF Crash, Inv, PairMatches, Complete, RemoveCounts
<1>5. KeptSurvives'
  <2> SUFFICES ASSUME kept # None, NEW part \in Part
               PROVE  name'[part] = kept \/ kept \in orphans'[part]
    BY DEF KeptSurvives, Crash
  <2>1. orphans'[part] = orphans[part] \cup ({bak[q][part] : q \in Uploaders} \ {None})
    BY DEF Crash
  <2> QED BY <2>1 DEF Inv, KeptSurvives, Crash
<1> QED BY <1>1, <1>2, <1>3, <1>4, <1>5 DEF Inv, Core

LEMMA InvInit == Init => Inv
<1> SUFFICES ASSUME Init
             PROVE  Inv
  OBVIOUS
<1>1. TypeOK
  BY NothingType, FaultsAssumption DEF Init, TypeOK, Step, Content
<1>2. \A p \in Uploaders :
         ~Active(p) /\ bak[p] = Nothing /\ pc[p] = Idle /\ errors[p] = 0
  BY DEF Init, Active
<1>3. Exclusive
  BY <1>2, UploadersAssumption DEF Init, Exclusive
<1>4. PairMatches /\ KeptSurvives
  BY DEF Init, Nothing, PairMatches, KeptSurvives, Complete
<1> QED BY <1>1, <1>2, <1>3, <1>4 DEF Inv, Core

LEMMA InvStep == Inv /\ [Next]_vars => Inv'
<1> SUFFICES ASSUME Inv, [Next]_vars
             PROVE  Inv'
  OBVIOUS
<1>1. CASE UNCHANGED vars
  BY <1>1 DEF vars, Inv, Core, TypeOK, Exclusive, Active, Shape, BackingUp, BackedUp,
     RestoringImage, RestoringSignature, Undone, Published, Undoes, Found, Agrees,
     PairMatches, KeptSurvives, Complete, RemoveCounts
<1> QED BY <1>1, InvPartStep, InvUpload, InvLock, InvUnlock, InvCrash
        DEF Next, Publication

LEMMA Invariance == Spec => []Inv
BY InvInit, InvStep, PTL DEF Spec

----------------------------------------------------------------------------
(* The theorems.                                                           *)

\* An image and a signature listed together are of the upload published
\* last, at every moment.
THEOREM PairsMatch == Spec => []PairMatches
<1>1. Inv => PairMatches
  BY DEF Inv
<1> QED BY <1>1, Invariance, PTL

\* Whatever fails, and wherever the process dies, the pair published last is
\* still on the disk.
THEOREM NothingLost == Spec => []KeptSurvives
<1>1. Inv => KeptSurvives
  BY DEF Inv
<1> QED BY <1>1, Invariance, PTL

\* One failing call is undone completely.
THEOREM FailuresRestore == Spec => []FailureRestores
<1>1. Inv => FailureRestores
  BY DEF Inv, Core, TypeOK, Active, Shape, Undone, FailureRestores
<1> QED BY <1>1, Invariance, PTL

\* A reported success is what stands published.
THEOREM SuccessesPublish == Spec => []SuccessPublishes
<1>1. Inv => SuccessPublishes
  BY DEF Inv, Core, Active, Shape, Published, SuccessPublishes
<1> QED BY <1>1, Invariance, PTL

\* The directory implements the abstract pair: a listed pair is withdrawn and
\* comes back, or gives way to the next upload, never to an older one.
THEOREM ImplementsSignedPair ==
    ASSUME RemoveCounts
    PROVE  Spec => SignedPairSpec
<1>1. Init => SP!Init
  BY DEF Init, Nothing, Complete, shownPair, SP!Init
<1>2. Inv /\ Inv' /\ [Next]_vars => [SP!Next]_SP!pairVars
  <2> SUFFICES ASSUME Inv, Inv', [Next]_vars
               PROVE  [SP!Next]_SP!pairVars
    OBVIOUS
  <2>1. /\ shownPair \in {None, <<kept, kept>>}
        /\ shownPair' \in {None, <<kept', kept'>>}
        /\ kept = None => shownPair = None
        /\ kept' = None => shownPair' = None
    BY DEF Inv, PairMatches, Complete, shownPair, RemoveCounts
  <2>2. CASE UNCHANGED kept
    BY <2>1, <2>2 DEF SP!Next, SP!Withdraw, SP!PutBack, SP!pairVars
  <2>3. ASSUME NEW p \in Uploaders, Publish(p, "img")
        PROVE  SP!Next
    <3>1. Shape(p) /\ up[p] \in Uploads
      BY <2>3 DEF Inv, Core, Active, Publish, Shape, TypeOK, Content
    <3>2. name["sig"] = up[p]
      BY <2>3, <3>1 DEF Shape, BackedUp, Publish
    <3>3. name'["img"] = up[p] /\ name'["sig"] = up[p] /\ kept' = up[p]
      BY <2>3, <3>2 DEF Publish, Inv, Core, TypeOK, Pair
    <3>4. up[p] # None
      BY <3>1 DEF Shape
    <3>5. shownPair' = <<up[p], up[p]>>
      BY <3>3, <3>4 DEF shownPair, Complete
    <3> QED BY <3>1, <3>3, <3>5 DEF SP!Next, SP!Publish
  <2>4. UNCHANGED kept \/ \E p \in Uploaders : Publish(p, "img")
    <3>1. ASSUME NEW p \in Uploaders, NEW part \in Part, PartStep(p, part)
          PROVE  UNCHANGED kept \/ Publish(p, "img")
      BY <3>1 DEF PartStep, Backup, BackupFails, Publish, PublishFails, Clear,
         Unlink, Restore, Drop
    <3> QED BY <3>1 DEF Next, Publication, Upload, Lock, Unlock, Crash, vars
  <2> QED BY <2>2, <2>3, <2>4
<1> QED BY <1>1, <1>2, Invariance, PTL DEF Spec, SignedPairSpec, SP!Spec

----------------------------------------------------------------------------
(* What of UploadEnds is a safety property: who holds the mutex is at work *)
(* on a publication, and that comes to an end.                             *)

\* File system calls a publication still makes at most, the unlock included.
Left(p) ==
    CASE pc[p] = At("backup", "img") -> 13
      [] pc[p] = At("backup", "sig") -> 12
      [] pc[p] = At("publish", "sig") -> 11
      [] pc[p] = At("publish", "img") -> 10
      [] pc[p] = At("clear", "img") -> 9
      [] pc[p] = At("clear", "sig") -> 8
      [] pc[p] = At("unlink", "img") -> 7
      [] pc[p] = At("restore", "img") -> 6
      [] pc[p] = At("unlink", "sig") -> 5
      [] pc[p] = At("restore", "sig") -> 4
      [] pc[p] = At("drop", "img") -> 3
      [] pc[p] = At("drop", "sig") -> 2
      [] pc[p] \in {Failed, Done} -> 1
      [] OTHER -> 0

LEMMA PartStepCounts ==
    ASSUME TypeOK, NEW p \in Uploaders, NEW part \in Part, PartStep(p, part)
    PROVE  Left(p)' < Left(p)
<1> USE DEF TypeOK, Goto
<1>1. CASE Backup(p, part) \/ BackupFails(p, part)
  <2>1. \/ pc[p] = At("backup", "img") /\ pc'[p] \in {At("backup", "sig"), Failed}
        \/ /\ pc[p] = At("backup", "sig")
           /\ pc'[p] \in {At("publish", "sig"), At("unlink", "img"), At("unlink", "sig"), Failed}
    BY <1>1 DEF Backup, BackupFails, RestoreFrom
  <2> QED BY <2>1 DEF Left
<1>2. CASE Publish(p, part) \/ PublishFails(p, part)
  <2>1. \/ pc[p] = At("publish", "sig") /\ pc'[p] \in {At("publish", "img"), At("clear", "img")}
        \/ pc[p] = At("publish", "img") /\ pc'[p] \in {At("drop", "img"), At("clear", "img")}
    BY <1>2 DEF Publish, PublishFails
  <2> QED BY <2>1 DEF Left
<1>3. CASE Clear(p, part)
  <2>1. \/ pc[p] = At("clear", "img") /\ pc'[p] = At("clear", "sig")
        \/ /\ pc[p] = At("clear", "sig")
           /\ pc'[p] \in {At("unlink", "img"), At("unlink", "sig"), Failed}
    BY <1>3 DEF Clear, RestoreFrom
  <2> QED BY <2>1 DEF Left
<1>4. CASE Unlink(p, part)
  <2>1. \/ pc[p] = At("unlink", "img") /\ pc'[p] = At("restore", "img")
        \/ pc[p] = At("unlink", "sig") /\ pc'[p] = At("restore", "sig")
    BY <1>4 DEF Unlink
  <2> QED BY <2>1 DEF Left
<1>5. CASE Restore(p, part)
  <2>1. \/ pc[p] = At("restore", "img") /\ pc'[p] \in {At("unlink", "sig"), Failed}
        \/ pc[p] = At("restore", "sig") /\ pc'[p] = Failed
    BY <1>5 DEF Restore, AfterRestore, RestoreFrom
  <2> QED BY <2>1 DEF Left
<1>6. CASE Drop(p, part)
  <2>1. \/ pc[p] = At("drop", "img") /\ pc'[p] = At("drop", "sig")
        \/ pc[p] = At("drop", "sig") /\ pc'[p] = Done
    BY <1>6 DEF Drop
  <2> QED BY <2>1 DEF Left
<1> QED BY <1>1, <1>2, <1>3, <1>4, <1>5, <1>6 DEF PartStep

\* The mutex is held exactly by the upload that is inside publishDistroPair,
\* and that upload goes forward only: whatever fails, and whatever the others
\* do, it makes at most thirteen more calls, the unlock among them.  So the
\* uploads that wait for the mutex wait for so many calls each.
THEOREM PublicationsEnd ==
    Spec => [][\A p \in Uploaders :
                  /\ mu = p <=> Left(p) > 0
                  /\ Left(p) \in 0..13
                  /\ Left(p) > 0 => Left(p)' < Left(p) \/ pc'[p] = pc[p]]_vars
<1>1. Inv /\ [Next]_vars =>
         [\A p \in Uploaders :
             /\ mu = p <=> Left(p) > 0
             /\ Left(p) \in 0..13
             /\ Left(p) > 0 => Left(p)' < Left(p) \/ pc'[p] = pc[p]]_vars
  <2> SUFFICES ASSUME Inv, Next, NEW p \in Uploaders
               PROVE  /\ mu = p <=> Left(p) > 0
                      /\ Left(p) \in 0..13
                      /\ Left(p) > 0 => Left(p)' < Left(p) \/ pc'[p] = pc[p]
    OBVIOUS
  <2>0. TypeOK /\ pc[p] \in Step /\ DOMAIN pc = Uploaders
    BY DEF Inv, Core, TypeOK
  <2>1. Left(p) \in 0..13 /\ (Active(p) <=> Left(p) > 0)
    BY <2>0 DEF Left, Active, Step
  <2>2. Active(p) <=> mu = p
    BY DEF Inv, Core, Exclusive
  <2>3. ASSUME Left(p) > 0 PROVE Left(p)' < Left(p) \/ pc'[p] = pc[p]
    <3>1. CASE \E part \in Part : PartStep(p, part)
      BY <2>0, <3>1, PartStepCounts
    <3>2. CASE Unlock(p) \/ Crash
      <4>1. pc'[p] = Idle
        BY <2>0, <3>2 DEF Unlock, Crash, Goto
      <4>2. Left(p)' = 0
        BY <4>1 DEF Left
      <4> QED BY <2>1, <2>3, <4>2
    <3>3. ASSUME NEW q \in Uploaders \ {p}, Upload(q) \/ Lock(q) \/ Publication(q)
          PROVE  pc'[p] = pc[p]
      <4>1. CASE Upload(q) \/ Lock(q) \/ Unlock(q)
        BY <2>0, <4>1 DEF Upload, Lock, Unlock, Goto
      <4>2. CASE \E part \in Part : PartStep(q, part)
        BY <2>0, <4>2, PublicationFrame
      <4> QED BY <3>3, <4>1, <4>2 DEF Publication
    <3>4. ~Upload(p) /\ ~Lock(p)
      BY <2>1, <2>3 DEF Upload, Lock, Active
    <3>5. ASSUME NEW q \in Uploaders, Upload(q) \/ Lock(q) \/ Publication(q)
          PROVE  Left(p)' < Left(p) \/ pc'[p] = pc[p]
      <4>1. CASE q = p
        BY <3>1, <3>2, <3>4, <3>5, <4>1 DEF Publication
      <4>2. CASE q # p
        BY <3>3, <3>5, <4>2
      <4> QED BY <4>1, <4>2
    <3> QED BY <3>2, <3>5 DEF Next
  <2> QED BY <2>1, <2>2, <2>3
<1> QED BY <1>1, Invariance, PTL DEF Spec

----------------------------------------------------------------------------
(* When is the directory clean?                                            *)

\* What a publication has already put back or removed.
Tidy(p) ==
    /\ pc[p] \in {At("unlink", "sig"), At("restore", "sig"), At("drop", "sig"), Failed, Done} =>
          bak[p]["img"] = None
    /\ pc[p] \in {Failed, Done} => bak[p]["sig"] = None

TidyInv == orphans = [part \in Part |-> {}] /\ \A p \in Uploaders : Tidy(p)

LEMMA TidyStep ==
    ASSUME Inv, MaxErrors <= 1, "drop" \notin Faults,
           NEW p \in Uploaders, NEW part \in Part, PartStep(p, part), TidyInv
    PROVE  TidyInv'
<1>0. Acts(p, part) /\ Tidy(p)
  BY PublicationFrame DEF Inv, Core, Acts, TidyInv
<1>1. /\ orphans' = orphans
      /\ \A q \in Uploaders \ {p} : pc'[q] = pc[q] /\ bak'[q] = bak[q]
  <2>1. orphans' = orphans
    BY DEF PartStep, Backup, BackupFails, Publish, PublishFails, Clear, Unlink, Restore, Drop
  <2>2. TypeOK
    BY DEF Inv, Core
  <2> QED BY <2>1, <2>2, PublicationFrame
<1>2. ASSUME errors[p] >= 1, NEW fault, Fails(p, fault) PROVE FALSE
  <2>1. errors[p] \in Nat /\ MaxErrors \in Nat
    BY <1>0, Typed, FaultsAssumption
  <2> QED BY <1>2, <2>1 DEF Fails
<1>3. Tidy(p)'
  <2>1. CASE Backup(p, part) \/ Publish(p, part) \/ PublishFails(p, part)
    <3>1. pc'[p] \in {At("backup", "sig"), At("publish", "sig"), At("publish", "img"),
                      At("drop", "img"), At("clear", "img")}
      BY <1>0, <2>1, Typed DEF Backup, Publish, PublishFails, Goto
    <3> QED BY <3>1 DEF Tidy
  <2>2. CASE BackupFails(p, part)
    <3>1. BackingUp(p) /\ bak' = bak
      BY <1>0, <2>2 DEF Acts, Shape, BackupFails
    <3>2. CASE part = "img"
      BY <1>0, <2>2, <3>1, <3>2, Typed DEF BackupFails, BackingUp, Nothing, Tidy, Goto
    <3>3. CASE part = "sig"
      <4>1. bak[p]["sig"] = None /\ pc'[p] = RestoreFrom(p, "img")
        BY <1>0, <2>2, <3>1, <3>3, Typed DEF BackupFails, BackingUp, Goto
      <4> QED BY <3>1, <4>1 DEF RestoreFrom, Tidy
    <3> QED BY <3>2, <3>3, <1>0, Typed
  <2>3. CASE Clear(p, part)
    <3>1. bak' = bak /\ pc'[p] \in {At("clear", "sig"), RestoreFrom(p, "img")}
      BY <1>0, <2>3, Typed DEF Clear, Goto
    <3> QED BY <3>1 DEF RestoreFrom, Tidy
  <2>4. CASE Unlink(p, part)
    <3>1. bak' = bak /\ pc'[p] = At("restore", part) /\ pc[p] = At("unlink", part)
      BY <1>0, <2>4, Typed DEF Unlink, Goto
    <3> QED BY <1>0, <3>1 DEF Tidy
  <2>5. CASE Restore(p, part)
    <3>1. errors[p] >= 1 /\ pc[p] = At("restore", part)
      BY <1>0, <2>5, Typed DEF Restore, Acts, Shape, RestoringImage, RestoringSignature
    <3>2. bak' = [bak EXCEPT ![p][part] = None] /\ pc'[p] = AfterRestore(p, part)
      BY <1>0, <1>2, <2>5, <3>1, Typed DEF Restore, Goto
    <3>3. bak'[p][part] = None /\ \A other \in Part \ {part} : bak'[p][other] = bak[p][other]
      BY <1>0, <3>2, Typed
    <3>4. CASE part = "img"
      BY <3>2, <3>3, <3>4 DEF AfterRestore, RestoreFrom, Tidy
    <3>5. CASE part = "sig"
      BY <1>0, <3>1, <3>2, <3>3, <3>5 DEF AfterRestore, Tidy
    <3> QED BY <1>0, <3>4, <3>5, Typed
  <2>6. CASE Drop(p, part)
    <3>1. bak' = [bak EXCEPT ![p][part] = None] /\ pc[p] = At("drop", part)
      BY <2>6 DEF Drop, Fails
    <3>2. bak'[p][part] = None /\ \A other \in Part \ {part} : bak'[p][other] = bak[p][other]
      BY <1>0, <3>1, Typed
    <3>3. pc'[p] = IF part = "img" THEN At("drop", "sig") ELSE Done
      BY <1>0, <2>6, Typed DEF Drop, Goto
    <3>4. part \in {"img", "sig"}
      BY <1>0, Typed
    <3> QED BY <1>0, <3>1, <3>2, <3>3, <3>4 DEF Tidy
  <2> QED BY <2>1, <2>2, <2>3, <2>4, <2>5, <2>6 DEF PartStep
<1> QED BY <1>1, <1>3 DEF TidyInv, Tidy

\* One failing call in a publication, other than the removal of a backup,
\* leaves nothing in the directory that nobody will ever remove: backup names
\* outlive a publication only after a crash, a failed removal of a backup or
\* a second failure while the first is being undone.
THEOREM NoBackupLeft ==
    ASSUME MaxErrors <= 1, "drop" \notin Faults, "crash" \notin Faults
    PROVE  Spec => [](/\ orphans = [part \in Part |-> {}]
                      /\ mu = None => \A p \in Uploaders : bak[p] = Nothing)
<1>1. Init => TidyInv
  BY DEF Init, TidyInv, Tidy
<1>2. Inv /\ TidyInv /\ [Next]_vars => TidyInv'
  <2> SUFFICES ASSUME Inv, TidyInv, [Next]_vars PROVE TidyInv'
    OBVIOUS
  <2>0. TypeOK
    BY DEF Inv, Core
  <2>1. CASE UNCHANGED vars
    BY <2>1 DEF vars, TidyInv, Tidy
  <2>2. ASSUME NEW p \in Uploaders, Upload(p) \/ Lock(p) PROVE TidyInv'
    <3>1. /\ UNCHANGED <<orphans, bak>> /\ \A q \in Uploaders \ {p} : pc'[q] = pc[q]
          /\ pc'[p] \in {At("ready", "img"), At("backup", "img")}
      BY <2>0, <2>2 DEF Upload, Lock, Goto, TypeOK
    <3> QED BY <3>1 DEF TidyInv, Tidy
  <2>3. ASSUME NEW p \in Uploaders, Unlock(p) PROVE TidyInv'
    <3>1. /\ \A q \in Uploaders \ {p} : pc'[q] = pc[q] /\ bak'[q] = bak[q]
          /\ pc'[p] = Idle
      BY <2>0, <2>3 DEF Unlock, Goto, TypeOK
    <3>2. \A part \in Part : bak[p][part] = None
      BY <2>3 DEF Unlock, TidyInv, Tidy
    <3>3. orphans' = [part \in Part |-> {}]
      <4>1. orphans' = [part \in Part |-> orphans[part] \cup ({bak[p][part]} \ {None})]
        BY <2>3 DEF Unlock
      <4>2. \A part \in Part : orphans[part] \cup ({bak[p][part]} \ {None}) = {}
        BY <3>2 DEF TidyInv
      <4> QED BY <4>1, <4>2
    <3> QED BY <3>1, <3>3 DEF TidyInv, Tidy
  <2>4. ~Crash
    BY DEF Crash
  <2> QED BY <2>1, <2>2, <2>3, <2>4, TidyStep DEF Next, Publication
<1>3. Inv /\ TidyInv => /\ orphans = [part \in Part |-> {}]
                        /\ mu = None => \A p \in Uploaders : bak[p] = Nothing
  BY UploadersAssumption DEF Inv, Core, Exclusive, TidyInv
<1> QED BY <1>1, <1>2, <1>3, Invariance, PTL DEF Spec
===========================================================================
