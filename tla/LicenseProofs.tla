--------------------------- MODULE LicenseProofs ---------------------------
(***************************************************************************)
(* Proofs about License: the type invariant, and that a change of the      *)
(* license leaves no CDN of the old one, late answers apart.               *)
(***************************************************************************)
EXTENDS License, TLAPS

LEMMA ForgetType ==
    ASSUME TypeOK, NEW p \in Procs, Forget(p)
    PROVE  loc' \in [Procs -> [lic : Number, new : Licenses \cup {None},
                               key : Licenses \cup {None}]]
BY DEF TypeOK, Forget, NoLoc, Number

\* A read of the bare field yields a number.
LEMMA FieldType == ASSUME TypeOK PROVE Field \subseteq Number
BY DEF TypeOK, Field, Number

\* A fault keeps the count within its bound.
LEMMA FaultType ==
    ASSUME TypeOK, NEW kind, Fault(kind)
    PROVE  faults' \in 0..MaxFaults
BY BoundsAssumption DEF TypeOK, Fault

LEMMA SetType ==
    ASSUME TypeOK, NEW p \in Procs, Set(p)
    PROVE  TypeOK'
<1>1. CASE SetLock(p)
      BY <1>1, ForgetType DEF SetLock, TypeOK, Done, Goto
<1>2. CASE SetWrite(p)
      BY <1>2 DEF SetWrite, TypeOK, Goto, Number
<1>3. CASE SetForget(p)
      BY <1>3, ForgetType DEF SetForget, TypeOK, Done, Goto, NoCdn, Number
<1> QED BY <1>1, <1>2, <1>3 DEF Set

LEMMA LinkType ==
    ASSUME TypeOK, NEW p \in Links, LinkStart(p) \/ LinkStep(p)
    PROVE  TypeOK'
<1>0. p \in Procs
      BY DEF Procs
<1>1. CASE LinkStart(p)
      BY <1>0, <1>1 DEF LinkStart, TypeOK, Goto
<1>2. CASE LinkCdn(p)
      BY <1>0, <1>2, ForgetType DEF LinkCdn, TypeOK, Goto, End
<1>3. CASE LinkCheck(p)
      BY <1>0, <1>3, ForgetType DEF LinkCheck, TypeOK, Goto, End
<1>4. CASE LinkId(p)
  <2>1. loc' = [loc EXCEPT ![p].lic = license]
        BY <1>4 DEF LinkId, GetLicense
  <2>2. loc' \in [Procs -> [lic : Number, new : Licenses \cup {None},
                            key : Licenses \cup {None}]]
        BY <2>1 DEF TypeOK
  <2> QED BY <1>0, <1>4, <2>2 DEF LinkId, TypeOK, Goto
<1>5. CASE LinkAsk(p)
  <2>1. UNCHANGED <<license, licMu, cdn, keys, saved, valid, forms>>
        BY <1>5 DEF LinkAsk
  <2>2. \E step \in {"store", "set", "idle"} : Goto(p, step)
        BY <1>5 DEF LinkAsk, End
  <2>3. loc' = loc \/ Forget(p)
        BY <1>5 DEF LinkAsk, End
  <2>4. faults' \in 0..MaxFaults
        BY <1>5, FaultType DEF LinkAsk, TypeOK
  <2> QED BY <1>0, <2>1, <2>2, <2>3, <2>4, ForgetType DEF TypeOK, Goto
<1>6. CASE LinkStore(p)
      BY <1>0, <1>6, ForgetType DEF LinkStore, TypeOK, Goto, End
<1> QED BY <1>1, <1>2, <1>3, <1>4, <1>5, <1>6 DEF LinkStep

LEMMA ReadType ==
    ASSUME TypeOK, NEW p \in Procs, ReadField(p)
    PROVE  TypeOK'
<1>1. pc' \in [Procs -> {"idle", "set", "write", "forget", "cdn", "check", "id", "ask",
                         "store", "look", "lookup", "url", "fetch", "key", "keep",
                         "save", "file"}]
      BY DEF ReadField, FieldReads, Goto, TypeOK
<1>2. PICK n \in Number : loc' = [loc EXCEPT ![p].lic = n]
      BY FieldType DEF ReadField
<1>3. UNCHANGED <<license, licMu, cdn, keys, saved, valid, forms, faults>>
      BY DEF ReadField
<1>4. loc' \in [Procs -> [lic : Number, new : Licenses \cup {None},
                          key : Licenses \cup {None}]]
      BY <1>2 DEF TypeOK
<1> QED BY <1>1, <1>3, <1>4 DEF TypeOK

LEMMA KeyType ==
    ASSUME TypeOK, NEW p \in Keepers, KeyStart(p) \/ KeyStep(p)
    PROVE  TypeOK'
<1>0. p \in Procs
      BY DEF Procs
<1>1. CASE KeyStart(p)
      BY <1>0, <1>1 DEF KeyStart, TypeOK, Goto
<1>2. CASE ReadField(p)
      BY <1>0, <1>2, ReadType
<1>3. CASE KeyLookup(p)
      BY <1>0, <1>3, ForgetType, FaultType DEF KeyLookup, TypeOK, Goto, End
<1>4. CASE KeyFetch(p)
  <2>1. loc' \in [Procs -> [lic : Number, new : Licenses \cup {None},
                            key : Licenses \cup {None}]]
        BY <1>0, <1>4, ForgetType DEF KeyFetch, TypeOK, NoLoc, Number, End
  <2> QED BY <1>0, <1>4, <2>1, FaultType DEF KeyFetch, TypeOK, Goto, End
<1>5. CASE KeyKeep(p)
  <2>1. keys' \in [Number -> Licenses \cup {None}]
        BY <1>0, <1>5 DEF KeyKeep, TypeOK
  <2> QED BY <1>0, <1>5, <2>1, ForgetType, FaultType DEF KeyKeep, TypeOK, Goto, End
<1> QED BY <1>1, <1>2, <1>3, <1>4, <1>5 DEF KeyStep

LEMMA FormType ==
    ASSUME TypeOK, NEW p \in Admins, Submit(p) \/ FormStep(p)
    PROVE  TypeOK'
<1>0. p \in Procs
      BY DEF Procs
<1>1. CASE Submit(p)
      BY <1>0, <1>1, BoundsAssumption DEF Submit, TypeOK, Goto
<1>2. CASE ReadField(p)
      BY <1>0, <1>2, ReadType
<1>3. CASE SaveFile(p)
      BY <1>0, <1>3, ForgetType, FaultType DEF SaveFile, TypeOK, Goto, End, Number
<1> QED BY <1>1, <1>2, <1>3 DEF FormStep

\* The type invariant of License, for any sets of requests, runs and forms.
THEOREM TypeCorrect == Spec => []TypeOK
<1>1. Init => TypeOK
      BY BoundsAssumption, ConfiguredAssumption DEF Init, TypeOK, NoCdn, NoLoc, Number
<1>2. TypeOK /\ [Next]_vars => TypeOK'
  <2> SUFFICES ASSUME TypeOK, [Next]_vars PROVE TypeOK'
      OBVIOUS
  <2>1. CASE UNCHANGED vars
        BY <2>1 DEF vars, TypeOK
  <2>2. CASE Revoke
        BY <2>2 DEF Revoke, TypeOK
  <2>3. CASE TtlExpires
        BY <2>3 DEF TtlExpires, TypeOK
  <2>4. CASE Crash
        BY <2>4, FaultType DEF Crash, TypeOK, NoCdn, NoLoc, Number
  <2> QED BY <2>1, <2>2, <2>3, <2>4, SetType, LinkType, KeyType, FormType DEF Next
<1> QED BY <1>1, <1>2, PTL DEF Spec

----------------------------------------------------------------------------
(* Who is between taking and leaving the lock owns it, and only between    *)
(* writing the number and forgetting the CDN may the two disagree.         *)

Owners == \A p \in Procs : pc[p] \in {"write", "forget"} => licMu = p
Agrees ==
    \/ CdnKnown /\ ~cdn.late => cdn.of = license
    \/ licMu # None /\ pc[licMu] = "forget"
Inv == TypeOK /\ Owners /\ Agrees

\* What leaves number, lock and CDN alone, and nobody's change half done,
\* keeps the invariant.
LEMMA AgreesFrame ==
    ASSUME Inv, UNCHANGED <<license, licMu, cdn>>, NEW p \in Procs,
           pc[p] \notin {"write", "forget"}, NEW step, step \notin {"write", "forget"},
           Goto(p, step)
    PROVE  Owners' /\ Agrees'
<1>1. \A q \in Procs : pc'[q] \in {"write", "forget"} => q # p /\ pc'[q] = pc[q]
      BY DEF Goto, Inv, TypeOK
<1>2. licMu # None /\ pc[licMu] = "forget" => pc'[licMu] = "forget"
      BY DEF Goto, Inv, TypeOK
<1> QED BY <1>1, <1>2 DEF Inv, Owners, Agrees, CdnKnown

LEMMA SetAgrees ==
    ASSUME Inv, NEW p \in Procs, Set(p)
    PROVE  Owners' /\ Agrees'
<1> USE DEF Inv, TypeOK, Owners, Agrees, Goto
<1>0. p # None
      BY ProcsAssumption
<1>1. CASE SetLock(p)
  <2>1. licMu = None /\ \A q \in Procs : pc[q] \notin {"write", "forget"}
        BY <1>1, ProcsAssumption DEF SetLock
  <2>2. CdnKnown' = CdnKnown /\ cdn' = cdn /\ license' = license
        BY <1>1 DEF SetLock, CdnKnown
  <2>3. \A q \in Procs : pc'[q] \in {"write", "forget"} => q = p /\ licMu' = p
        BY <1>1, <2>1 DEF SetLock, Done
  <2> QED BY <2>1, <2>2, <2>3
<1>2. CASE SetWrite(p)
      BY <1>0, <1>2 DEF SetWrite
<1>3. CASE SetForget(p)
  <2>1. licMu = p /\ \A q \in Procs \ {p} : pc[q] \notin {"write", "forget"}
        BY <1>3 DEF SetForget
  <2>2. \A q \in Procs : pc'[q] \notin {"write", "forget"}
        BY <1>3, <2>1 DEF SetForget, Done
  <2>3. ~CdnKnown'
        BY <1>3 DEF SetForget, CdnKnown, NoCdn
  <2> QED BY <2>2, <2>3
<1> QED BY <1>1, <1>2, <1>3 DEF Set

LEMMA StoreAgrees ==
    ASSUME Inv, NEW p \in Links, LinkStore(p)
    PROVE  Owners' /\ Agrees'
<1>1. CdnKnown' /\ ~cdn'.late => cdn'.of = license'
      BY DEF LinkStore
<1>2. \A q \in Procs : pc'[q] \in {"write", "forget"} => pc[q] = pc'[q]
      BY DEF LinkStore, End, Goto, Inv, TypeOK
<1> QED BY <1>1, <1>2 DEF LinkStore, Inv, Owners, Agrees

\* After a change of the license the known CDN is the new license's, unless a
\* discovery begun with the old one stored its answer afterwards.
THEOREM CdnFollowsLicense == Spec => []CdnOfLicense
<1>1. Init => Owners /\ Agrees
      BY DEF Init, Owners, Agrees, CdnKnown, NoCdn
<1>2. Inv /\ [Next]_vars => Owners' /\ Agrees'
  <2> SUFFICES ASSUME Inv, [Next]_vars PROVE Owners' /\ Agrees'
      OBVIOUS
  <2>1. CASE UNCHANGED vars
        BY <2>1 DEF vars, Inv, Owners, Agrees, CdnKnown
  <2>2. CASE Revoke
        BY <2>2 DEF Revoke, Inv, Owners, Agrees, CdnKnown
  <2>3. CASE TtlExpires
        BY <2>3 DEF TtlExpires, Inv, TypeOK, Owners, Agrees, CdnKnown
  <2>4. CASE Crash
        BY <2>4 DEF Crash, Owners, Agrees, CdnKnown, NoCdn
  <2>5. ASSUME NEW p \in Links, LinkStart(p) \/ LinkStep(p)
        PROVE  Owners' /\ Agrees'
    <3>0. p \in Procs
          BY DEF Procs
    <3>1. CASE LinkStart(p)
      <4>1. pc[p] = "idle" /\ \E step \in {"idle", "cdn"} : Goto(p, step)
            BY <3>1 DEF LinkStart
      <4> QED BY <3>0, <3>1, <4>1, AgreesFrame DEF LinkStart
    <3>2. CASE LinkCdn(p) \/ LinkCheck(p) \/ LinkId(p) \/ LinkAsk(p)
      <4>1. /\ pc[p] \in {"cdn", "check", "id", "ask"}
            /\ \E step \in {"idle", "check", "id", "ask", "store", "set"} : Goto(p, step)
            BY <3>2 DEF LinkCdn, LinkCheck, LinkId, LinkAsk, End
      <4>2. UNCHANGED <<license, licMu, cdn>>
            BY <3>2 DEF LinkCdn, LinkCheck, LinkId, LinkAsk
      <4> QED BY <3>0, <4>1, <4>2, AgreesFrame
    <3> QED BY <2>5, <3>1, <3>2, StoreAgrees DEF LinkStep
  <2>6. ASSUME NEW p \in Procs, ReadField(p)
        PROVE  Owners' /\ Agrees'
    <3>1. /\ pc[p] \in {"look", "url", "key", "save"}
          /\ \E step \in {"lookup", "fetch", "keep", "file"} : Goto(p, step)
          BY <2>6 DEF ReadField, FieldReads
    <3> QED BY <2>6, <3>1, AgreesFrame DEF ReadField
  <2>7. ASSUME NEW p \in Keepers, KeyStart(p) \/ KeyStep(p)
        PROVE  Owners' /\ Agrees'
    <3>0. p \in Procs
          BY DEF Procs
    <3>1. CASE KeyStart(p) \/ KeyLookup(p) \/ KeyFetch(p) \/ KeyKeep(p)
      <4>1. /\ pc[p] \in {"idle", "lookup", "fetch", "keep"}
            /\ \E step \in {"idle", "look", "url", "key", "set"} : Goto(p, step)
            BY <3>1 DEF KeyStart, KeyLookup, KeyFetch, KeyKeep, End
      <4>2. UNCHANGED <<license, licMu, cdn>>
            BY <3>1 DEF KeyStart, KeyLookup, KeyFetch, KeyKeep
      <4> QED BY <3>0, <4>1, <4>2, AgreesFrame
    <3> QED BY <2>6, <2>7, <3>0, <3>1 DEF KeyStep
  <2>8. ASSUME NEW p \in Admins, Submit(p) \/ FormStep(p)
        PROVE  Owners' /\ Agrees'
    <3>0. p \in Procs
          BY DEF Procs
    <3>1. CASE Submit(p) \/ SaveFile(p)
      <4>1. /\ pc[p] \in {"idle", "file"}
            /\ \E step \in {"idle", "set"} : Goto(p, step)
            BY <3>1 DEF Submit, SaveFile, End
      <4>2. UNCHANGED <<license, licMu, cdn>>
            BY <3>1 DEF Submit, SaveFile
      <4> QED BY <3>0, <4>1, <4>2, AgreesFrame
    <3> QED BY <2>6, <2>8, <3>0, <3>1 DEF FormStep
  <2> QED BY <2>1, <2>2, <2>3, <2>4, <2>5, <2>7, <2>8, SetAgrees DEF Next
<1>3. Inv => CdnOfLicense
      BY DEF Inv, Agrees, CdnOfLicense
<1> QED BY <1>1, <1>2, <1>3, TypeCorrect, PTL DEF Spec, Inv

----------------------------------------------------------------------------
(* Who is to blame for a CDN, or a key, of another license.                *)

Moves(p) ==
    \/ Set(p)
    \/ p \in Links /\ (LinkStart(p) \/ LinkStep(p))
    \/ p \in Keepers /\ (KeyStart(p) \/ KeyStep(p))
    \/ p \in Admins /\ (Submit(p) \/ FormStep(p))

\* A step of p leaves the others where they are.
LEMMA MovesAlone ==
    ASSUME TypeOK, NEW p \in Procs, Moves(p)
    PROVE  \A q \in Procs \ {p} : pc'[q] = pc[q] /\ loc'[q] = loc[q]
<1> USE DEF TypeOK, Goto, Forget, End
<1>1. CASE Set(p)
      BY <1>1 DEF Set, SetLock, SetWrite, SetForget, Done
<1>2. CASE LinkStart(p) \/ LinkStep(p)
      BY <1>2 DEF LinkStart, LinkStep, LinkCdn, LinkCheck, LinkId, LinkAsk, LinkStore
<1>3. CASE ReadField(p)
      BY <1>3 DEF ReadField
<1>4. CASE KeyStart(p) \/ KeyLookup(p) \/ KeyFetch(p) \/ KeyKeep(p)
      BY <1>4 DEF KeyStart, KeyLookup, KeyFetch, KeyKeep
<1>5. CASE Submit(p) \/ SaveFile(p)
      BY <1>5 DEF Submit, SaveFile
<1> QED BY <1>1, <1>2, <1>3, <1>4, <1>5 DEF Moves, KeyStep, FormStep

\* All that a process does is one of these.
LEMMA NextMoves ==
    ASSUME Next
    PROVE  (\E p \in Procs : Moves(p)) \/ Revoke \/ TtlExpires \/ Crash
BY DEF Next, Moves, Procs

\* The license changes while no discovery is between reading it and storing
\* the CDN it was told.
Settled == license' # license => \A p \in Links : pc'[p] \notin {"ask", "store"}

Discovers(p) == pc[p] \in {"ask", "store"} => loc[p].lic = license

NoneLate == ~cdn.late /\ \A p \in Links : Discovers(p)

\* A discovery stores what the configured license was told, in any other case.
LEMMA NoneLateStep ==
    ASSUME TypeOK, NoneLate, Settled, NEW p \in Procs, Moves(p)
    PROVE  NoneLate'
<1> USE DEF TypeOK, Goto, Forget, End
<1>0. Links \subseteq Procs
      BY DEF Procs
<1>1. \A q \in Procs \ {p} : pc'[q] = pc[q] /\ loc'[q] = loc[q]
      BY MovesAlone
<1>2. \A q \in Links \ {p} : Discovers(q)'
      BY <1>0, <1>1 DEF NoneLate, Discovers, Settled
<1>3. CASE Set(p)
  <2>1. cdn' = cdn \/ cdn' = NoCdn
        BY <1>3 DEF Set, SetLock, SetWrite, SetForget
  <2>2. pc'[p] \notin {"ask", "store"}
        BY <1>3 DEF Set, SetLock, SetWrite, SetForget, Done
  <2> QED BY <1>2, <2>1, <2>2 DEF NoneLate, Discovers, NoCdn
<1>4. CASE p \in Links /\ (LinkStart(p) \/ LinkCdn(p) \/ LinkCheck(p))
  <2>1. UNCHANGED <<cdn, license>> /\ pc'[p] \notin {"ask", "store"}
        BY <1>4 DEF LinkStart, LinkCdn, LinkCheck
  <2> QED BY <1>2, <2>1 DEF NoneLate, Discovers
<1>5. CASE p \in Links /\ LinkId(p)
  <2>1. UNCHANGED <<cdn, license>> /\ loc'[p].lic = license
        BY <1>5 DEF LinkId, GetLicense
  <2> QED BY <1>2, <2>1 DEF NoneLate, Discovers
<1>6. CASE p \in Links /\ LinkAsk(p)
  <2>1. /\ UNCHANGED <<cdn, license>> /\ pc[p] = "ask"
        /\ \/ loc' = loc
           \/ pc'[p] \notin {"ask", "store"}
        BY <1>6 DEF LinkAsk
  <2> QED BY <1>2, <2>1 DEF NoneLate, Discovers
<1>7. CASE p \in Links /\ LinkStore(p)
  <2>1. /\ license' = license /\ pc'[p] = "idle"
        /\ cdn' = [of |-> loc[p].lic, fresh |-> TRUE, late |-> loc[p].lic # license]
        /\ loc[p].lic = license
        BY <1>7 DEF LinkStore, NoneLate, Discovers
  <2> QED BY <1>2, <2>1 DEF NoneLate, Discovers
<1>8. CASE p \notin Links /\ UNCHANGED cdn
      BY <1>2, <1>8 DEF NoneLate
<1>9. p \in Keepers \cup Admins => p \notin Links
      BY ProcsAssumption
<1>10. ASSUME KeyStart(p) \/ KeyStep(p) \/ Submit(p) \/ FormStep(p) PROVE UNCHANGED cdn
      BY <1>10 DEF KeyStart, KeyStep, KeyLookup, KeyFetch, KeyKeep, ReadField, Submit,
         FormStep, SaveFile
<1> QED BY <1>3, <1>4, <1>5, <1>6, <1>7, <1>8, <1>9, <1>10 DEF Moves, LinkStep

\* As long as the license is changed between discoveries only, and not during
\* one, the known CDN is the license's whenever no change is half done.
THEOREM OnlyChangesMakeCdnLate ==
    Spec /\ [][Settled]_vars =>
        [](~cdn.late /\ (licMu = None /\ CdnKnown => cdn.of = license))
<1>1. Init => NoneLate
      BY DEF Init, NoneLate, Discovers, NoCdn, Procs
<1>2. TypeOK /\ NoneLate /\ [Next]_vars /\ [Settled]_vars => NoneLate'
  <2> SUFFICES ASSUME TypeOK, NoneLate, [Next]_vars, [Settled]_vars
               PROVE  NoneLate'
      OBVIOUS
  <2>1. CASE UNCHANGED vars
        BY <2>1 DEF vars, NoneLate, Discovers
  <2>2. CASE Revoke \/ TtlExpires
        BY <2>2 DEF Revoke, TtlExpires, NoneLate, Discovers, TypeOK
  <2>3. CASE Crash
        BY <2>3 DEF Crash, NoneLate, Discovers, NoCdn, Procs
  <2>4. ASSUME NEW p \in Procs, Moves(p) PROVE NoneLate'
    <3>1. CASE Settled
          BY <2>4, <3>1, NoneLateStep
    <3>2. CASE UNCHANGED vars
          BY <2>1, <3>2
    <3> QED BY <3>1, <3>2
  <2> QED BY <2>1, <2>2, <2>3, <2>4, NextMoves
<1>3. NoneLate /\ CdnOfLicense => ~cdn.late /\ (licMu = None /\ CdnKnown => cdn.of = license)
      BY DEF NoneLate, CdnOfLicense
<1> QED BY <1>1, <1>2, <1>3, TypeCorrect, CdnFollowsLicense, PTL DEF Spec

KeysOwn == \A n \in Number : keys[n] \in {None, n}

Keeps(p) ==
    /\ pc[p] \in {"fetch", "keep"} => loc[p].lic = license
    /\ pc[p] \in {"key", "keep"} => loc[p].key = license

KeyInv == KeysOwn /\ \A p \in Keepers : Keeps(p)

LEMMA KeyInvStep ==
    ASSUME TypeOK, KeyInv, Apart, Apart', NEW p \in Procs, Moves(p)
    PROVE  KeyInv'
<1> USE DEF TypeOK, Goto, Forget, End
<1>0. Keepers \subseteq Procs
      BY DEF Procs
<1>1. \A q \in Procs \ {p} : pc'[q] = pc[q] /\ loc'[q] = loc[q]
      BY MovesAlone
<1>2. ASSUME license' = license
      PROVE  \A q \in Keepers \ {p} : Keeps(q)'
      BY <1>0, <1>1, <1>2 DEF KeyInv, Keeps
<1>3. CASE Set(p)
  <2>1. keys' = keys /\ pc'[p] \notin {"fetch", "key", "keep"}
        BY <1>3 DEF Set, SetLock, SetWrite, SetForget, Done
  <2>2. CASE SetWrite(p)
    <3>1. pc[p] = "write"
          BY <2>2 DEF SetWrite
    <3>2. \A q \in Keepers : pc[q] \notin {"fetch", "key", "keep"}
          BY <3>1 DEF Apart
    <3> QED BY <1>0, <1>1, <2>1, <3>2 DEF KeyInv, KeysOwn, Keeps
  <2>3. CASE ~SetWrite(p)
    <3>1. license' = license
          BY <1>3, <2>3 DEF Set, SetLock, SetForget
    <3> QED BY <1>2, <2>1, <3>1 DEF KeyInv, KeysOwn, Keeps
  <2> QED BY <2>2, <2>3
<1>4. CASE p \notin Keepers /\ UNCHANGED <<keys, license>>
      BY <1>2, <1>4 DEF KeyInv, KeysOwn
<1>5. CASE p \in Keepers /\ (KeyStart(p) \/ KeyLookup(p))
  <2>1. UNCHANGED <<keys, license>> /\ pc'[p] \notin {"fetch", "key", "keep"}
        BY <1>5 DEF KeyStart, KeyLookup
  <2> QED BY <1>2, <2>1 DEF KeyInv, KeysOwn, Keeps
<1>6. CASE p \in Keepers /\ ReadField(p)
  <2>1. /\ pc[p] \in {"look", "url", "key", "save"} /\ UNCHANGED <<keys, license>>
        /\ pc'[p] = FieldReads[pc[p]] /\ loc'[p].key = loc[p].key
        BY <1>6 DEF ReadField, FieldReads
  <2>2. pc'[p] = "keep" => pc[p] = "key"
        BY <2>1 DEF FieldReads
  <2>3. pc'[p] \in {"fetch", "keep"} => loc'[p].lic = license
    <3> SUFFICES ASSUME pc'[p] \in {"fetch", "keep"} PROVE loc'[p].lic = license
        OBVIOUS
    <3>1. \A q \in Procs \ {p} : pc[q] # "write"
          BY <1>1, <1>6 DEF Apart
    <3>2. Field = {license}
          BY <2>1, <3>1 DEF Field
    <3> QED BY <1>6, <3>2 DEF ReadField
  <2>4. pc'[p] \notin {"key"}
        BY <2>1 DEF FieldReads
  <2>5. Keeps(p)'
        BY <1>6, <2>1, <2>2, <2>3, <2>4 DEF KeyInv, Keeps
  <2> QED BY <1>2, <2>1, <2>5 DEF KeyInv, KeysOwn
<1>7. CASE p \in Keepers /\ KeyFetch(p)
  <2>1. /\ pc[p] = "fetch" /\ UNCHANGED <<keys, license>>
        /\ \/ pc'[p] = "key" /\ loc'[p].key = loc[p].lic
           \/ pc'[p] \notin {"fetch", "key", "keep"}
        BY <1>7 DEF KeyFetch, NoLoc
  <2> QED BY <1>2, <1>7, <2>1 DEF KeyInv, KeysOwn, Keeps
<1>8. CASE p \in Keepers /\ KeyKeep(p)
  <2>1. /\ pc[p] = "keep" /\ license' = license /\ pc'[p] = "idle"
        /\ keys' \in {keys, [keys EXCEPT ![loc[p].lic] = loc[p].key]}
        BY <1>8 DEF KeyKeep
  <2>2. loc[p].lic = license /\ loc[p].key = license
        BY <1>8, <2>1 DEF KeyInv, Keeps
  <2> QED BY <1>2, <2>1, <2>2 DEF KeyInv, KeysOwn, Keeps
<1>9. p \in Links \cup Admins => p \notin Keepers
      BY ProcsAssumption
<1>10. ASSUME LinkStart(p) \/ LinkStep(p) \/ Submit(p) \/ FormStep(p)
       PROVE  UNCHANGED <<keys, license>>
      BY <1>10 DEF LinkStart, LinkStep, LinkCdn, LinkCheck, LinkId, LinkAsk, LinkStore,
         Submit, FormStep, ReadField, SaveFile
<1> QED BY <1>3, <1>4, <1>5, <1>6, <1>7, <1>8, <1>9, <1>10 DEF Moves, KeyStep

\* As long as no change of the license meets a run of UpdateWebFilterKey
\* between the read it fetches a key for and the end of storing it, every
\* stored key is in the row of the license it was fetched for, although the
\* run reads the field, which is not locked, a second time for the row.
THEOREM OnlyChangesMisplaceKeys == Spec /\ []Apart => []KeysOwn
<1>1. Init => KeyInv
      BY DEF Init, KeyInv, KeysOwn, Keeps, Procs
<1>2. TypeOK /\ KeyInv /\ Apart /\ Apart' /\ [Next]_vars => KeyInv'
  <2> SUFFICES ASSUME TypeOK, KeyInv, Apart, Apart', [Next]_vars PROVE KeyInv'
      OBVIOUS
  <2>1. CASE UNCHANGED vars
        BY <2>1 DEF vars, KeyInv, KeysOwn, Keeps
  <2>2. CASE Revoke \/ TtlExpires
        BY <2>2 DEF Revoke, TtlExpires, KeyInv, KeysOwn, Keeps
  <2>3. CASE Crash
        BY <2>3 DEF Crash, KeyInv, KeysOwn, Keeps, Procs
  <2> QED BY <2>1, <2>2, <2>3, KeyInvStep, NextMoves
<1>3. KeyInv => KeysOwn
      BY DEF KeyInv
<1> QED BY <1>1, <1>2, <1>3, TypeCorrect, PTL DEF Spec

----------------------------------------------------------------------------
(* The lock.                                                               *)

LockOwned == \A p \in Procs : licMu = p <=> pc[p] \in {"write", "forget"}

\* licenseMu is held for writing by exactly the process that is between taking
\* it and the end of its change: two changes never mix, and no way out of one,
\* a death included, leaves the lock behind.
THEOREM LicenseLockOwned == Spec => []LockOwned
<1>1. Init => LockOwned
      BY ProcsAssumption DEF Init, LockOwned
<1>2. TypeOK /\ LockOwned /\ [Next]_vars => LockOwned'
  <2> SUFFICES ASSUME TypeOK, LockOwned, [Next]_vars PROVE LockOwned'
      OBVIOUS
  <2>1. CASE UNCHANGED vars \/ Revoke \/ TtlExpires
        BY <2>1 DEF vars, Revoke, TtlExpires, LockOwned
  <2>2. CASE Crash
        BY <2>2, ProcsAssumption DEF Crash, LockOwned
  <2>3. ASSUME NEW p \in Procs, Moves(p) PROVE LockOwned'
    <3> USE DEF TypeOK, Goto, Forget, End
    <3>0. \A q \in Procs \ {p} : pc'[q] = pc[q]
          BY <2>3, MovesAlone
    <3>1. CASE SetLock(p)
      <4>1. licMu = None /\ \A q \in Procs : pc[q] \notin {"write", "forget"}
            BY <3>1, ProcsAssumption DEF SetLock, LockOwned
      <4>2. \/ licMu' = p /\ pc'[p] = "write"
            \/ licMu' = None /\ pc'[p] \notin {"write", "forget"}
            BY <3>1 DEF SetLock, Done
      <4> QED BY <3>0, <4>1, <4>2, ProcsAssumption DEF LockOwned
    <3>2. CASE SetWrite(p)
          BY <3>0, <3>2 DEF SetWrite, LockOwned
    <3>3. CASE SetForget(p)
      <4>1. licMu = p /\ licMu' = None /\ pc'[p] \notin {"write", "forget"}
            BY <3>3 DEF SetForget, Done, LockOwned
      <4> QED BY <3>0, <4>1, ProcsAssumption DEF LockOwned
    <3>4. CASE ~Set(p)
      <4>1. /\ licMu' = licMu
            /\ pc[p] \notin {"write", "forget"} /\ pc'[p] \notin {"write", "forget"}
        <5>1. CASE LinkStart(p) \/ LinkStep(p)
              BY <5>1 DEF LinkStart, LinkStep, LinkCdn, LinkCheck, LinkId, LinkAsk, LinkStore
        <5>2. CASE ReadField(p)
              BY <5>2 DEF ReadField, FieldReads
        <5>3. CASE KeyStart(p) \/ KeyLookup(p) \/ KeyFetch(p) \/ KeyKeep(p)
              BY <5>3 DEF KeyStart, KeyLookup, KeyFetch, KeyKeep
        <5>4. CASE Submit(p) \/ SaveFile(p)
              BY <5>4 DEF Submit, SaveFile
        <5> QED BY <2>3, <3>4, <5>1, <5>2, <5>3, <5>4 DEF Moves, KeyStep, FormStep
      <4> QED BY <3>0, <4>1 DEF LockOwned
    <3> QED BY <3>1, <3>2, <3>3, <3>4 DEF Set
  <2> QED BY <2>1, <2>2, <2>3, NextMoves
<1> QED BY <1>1, <1>2, TypeCorrect, PTL DEF Spec
===========================================================================
