------------------------------ MODULE License ------------------------------
(***************************************************************************)
(* The license number and what hangs on it: the antivirus CDN discovered   *)
(* with it (antivirusLinkHandler), the Web Filter key fetched with it      *)
(* (UpdateWebFilterKey) and the settings form that changes it.             *)
(*                                                                         *)
(* One step is one access to what is shared: the field LicenseNumber, the  *)
(* CDN, a row of the table webfilter, the configuration file, an answer of *)
(* a vendor.  Accessors take licenseMu; the Web Filter update and Save     *)
(* read the bare field, and may meet it half written, which is a data race *)
(* and yields Torn: a number that nobody entered.                          *)
(*                                                                         *)
(* No forced Web Filter key and no license in the environment.             *)
(***************************************************************************)
EXTENDS Naturals

CONSTANTS
    Links,     \* requests for the antivirus link
    Keepers,   \* runs of UpdateWebFilterKey
    Admins,    \* posts of the settings form
    Licenses,  \* license numbers the vendor gave out
    Configured, \* the number in the configuration file at first
    None,      \* no license, no CDN, no key, no owner
    Torn,      \* what a read racing a write of the field may yield
    MaxForms,  \* bound: posts of the settings form
    MaxFaults, \* bound: faults
    Faults     \* what may go wrong

(* "get": a vendor does not answer, or with an error.  "dbread", "dbwrite":  *)
(* the statement fails.  "save": the truncated file is not written.  "crash": *)
(* the process dies.                                                        *)
FaultKinds == {"get", "dbread", "dbwrite", "save", "crash"}

Procs == Links \cup Keepers \cup Admins

ASSUME ProcsAssumption ==
    /\ Links \cap Keepers = {} /\ Admins \cap (Links \cup Keepers) = {}
    /\ None \notin Procs
ASSUME LicensesAssumption == None \notin Licenses /\ Torn \notin Licenses \cup {None}
ASSUME ConfiguredAssumption == Configured \in Licenses \cup {None}
ASSUME BoundsAssumption == MaxForms \in Nat /\ MaxFaults \in Nat /\ Faults \subseteq FaultKinds

VARIABLES
    license,  \* Config.LicenseNumber
    licMu,    \* who holds Config.licenseMu for writing
    cdn,      \* kerioCDNURL and kerioCDNExpiresAt
    keys,     \* webfilter: the license a number's key was fetched for
    saved,    \* LICENSE_NUMBER in the configuration file
    valid,    \* licenses the vendor accepts
    forms,    \* posts so far
    faults,   \* faults so far
    pc, loc   \* next step and local variables of a process

vars == <<license, licMu, cdn, keys, saved, valid, forms, faults, pc, loc>>

Number == Licenses \cup {None, Torn}

\* of: the license it was discovered with; late (history): that license was
\* no longer the configured one when the answer was stored.
NoCdn == [of |-> None, fresh |-> FALSE, late |-> FALSE]

\* GetKerioCDN.
CdnKnown == cdn.of # None /\ cdn.fresh

\* lic: the number last read; new: the number to set; key: the key received.
NoLoc == [lic |-> None, new |-> None, key |-> None]

Init ==
    /\ license = Configured
    /\ licMu = None
    /\ cdn = NoCdn
    /\ keys = [n \in Number |-> None]
    /\ saved = license
    /\ valid = Licenses
    /\ forms = 0
    /\ faults = 0
    /\ pc = [p \in Procs |-> "idle"]
    /\ loc = [p \in Procs |-> NoLoc]

----------------------------------------------------------------------------
Goto(p, step) == pc' = [pc EXCEPT ![p] = step]
Forget(p) == loc' = [loc EXCEPT ![p] = NoLoc]
End(p) == Goto(p, "idle") /\ Forget(p)

Fault(kind) ==
    /\ kind \in Faults /\ faults < MaxFaults
    /\ faults' = faults + 1

\* A reader under licenseMu waits for a writer; one of the bare field does not.
GetLicense == IF licMu = None THEN {license} ELSE {}
Field == {license} \cup {Torn : p \in {q \in Procs : pc[q] = "write"}}

----------------------------------------------------------------------------
(* SetLicenseNumber, as its last step the caller's next.                   *)

Done(p) == Goto(p, IF p \in Admins THEN "save" ELSE "idle") /\ Forget(p)

SetLock(p) ==
    /\ pc[p] = "set" /\ licMu = None
    /\ IF license = loc[p].new
       THEN Done(p) /\ UNCHANGED licMu
       ELSE Goto(p, "write") /\ licMu' = p /\ UNCHANGED loc
    /\ UNCHANGED <<license, cdn, keys, saved, valid, forms, faults>>

SetWrite(p) ==
    /\ pc[p] = "write"
    /\ license' = loc[p].new
    /\ Goto(p, "forget")
    /\ UNCHANGED <<licMu, cdn, keys, saved, valid, forms, faults, loc>>

\* Mutant: the CDN is forgotten with the license only, not with its change.
SetForget_Cleared(p) ==
    /\ pc[p] = "forget"
    /\ cdn' = IF loc[p].new = None THEN NoCdn ELSE cdn
    /\ licMu' = None
    /\ Done(p)
    /\ UNCHANGED <<license, keys, saved, valid, forms, faults>>

\* ClearKerioCDN, and the deferred unlock.
SetForget(p) ==
    /\ pc[p] = "forget"
    /\ cdn' = NoCdn
    /\ licMu' = None
    /\ Done(p)
    /\ UNCHANGED <<license, keys, saved, valid, forms, faults>>

----------------------------------------------------------------------------
(* antivirusLinkHandler and discoverKerioCDN.                              *)

LinkStart(p) ==
    /\ pc[p] = "idle"
    /\ license \in GetLicense
    /\ Goto(p, IF license = None THEN "idle" ELSE "cdn")
    /\ UNCHANGED <<license, licMu, cdn, keys, saved, valid, forms, faults, loc>>

LinkCdn(p) ==
    /\ pc[p] = "cdn"
    /\ IF CdnKnown THEN End(p) ELSE Goto(p, "check") /\ UNCHANGED loc
    /\ UNCHANGED <<license, licMu, cdn, keys, saved, valid, forms, faults>>

LinkCheck(p) ==
    /\ pc[p] = "check" /\ license \in GetLicense
    /\ IF license = None THEN End(p) ELSE Goto(p, "id") /\ UNCHANGED loc
    /\ UNCHANGED <<license, licMu, cdn, keys, saved, valid, forms, faults>>

LinkId(p) ==
    /\ pc[p] = "id"
    /\ \E n \in GetLicense : loc' = [loc EXCEPT ![p].lic = n]
    /\ Goto(p, "ask")
    /\ UNCHANGED <<license, licMu, cdn, keys, saved, valid, forms, faults>>

\* The vendor names a CDN, or calls the license invalid or expired, which
\* clears the license that is configured by now.
LinkAsk(p) ==
    /\ pc[p] = "ask"
    /\ \/ loc[p].lic \in valid /\ Goto(p, "store") /\ UNCHANGED <<loc, faults>>
       \/ loc[p].lic \notin valid /\ Goto(p, "set") /\ Forget(p) /\ UNCHANGED faults
       \/ Fault("get") /\ End(p)
    /\ UNCHANGED <<license, licMu, cdn, keys, saved, valid, forms>>

\* SetKerioCDN.
LinkStore(p) ==
    /\ pc[p] = "store"
    /\ cdn' = [of |-> loc[p].lic, fresh |-> TRUE, late |-> loc[p].lic # license]
    /\ End(p)
    /\ UNCHANGED <<license, licMu, keys, saved, valid, forms, faults>>

LinkStep(p) ==
    LinkCdn(p) \/ LinkCheck(p) \/ LinkId(p) \/ LinkAsk(p) \/ LinkStore(p)

----------------------------------------------------------------------------
(* UpdateWebFilterKey, of which every step reads the number anew.          *)

KeyStart(p) ==
    /\ pc[p] = "idle"
    /\ \E n \in Field : n # None
    /\ Goto(p, "look")
    /\ UNCHANGED <<license, licMu, cdn, keys, saved, valid, forms, faults, loc>>

\* Argument of the step that follows; of Save, too.
FieldReads == [look |-> "lookup", url |-> "fetch", key |-> "keep", save |-> "file"]

ReadField(p) ==
    /\ pc[p] \in DOMAIN FieldReads
    /\ \E n \in Field : loc' = [loc EXCEPT ![p].lic = n]
    /\ Goto(p, FieldReads[pc[p]])
    /\ UNCHANGED <<license, licMu, cdn, keys, saved, valid, forms, faults>>

\* Mutant: any row will do.
KeyLookup_Any(p) ==
    /\ pc[p] = "lookup"
    /\ \/ (\E n \in Number : keys[n] # None) /\ End(p) /\ UNCHANGED faults
       \/ (\A n \in Number : keys[n] = None) /\ Goto(p, "url") /\ Forget(p) /\ UNCHANGED faults
       \/ Fault("dbread") /\ End(p)
    /\ UNCHANGED <<license, licMu, cdn, keys, saved, valid, forms>>

KeyLookup(p) ==
    /\ pc[p] = "lookup"
    /\ \/ keys[loc[p].lic] # None /\ End(p) /\ UNCHANGED faults
       \/ keys[loc[p].lic] = None /\ Goto(p, "url") /\ Forget(p) /\ UNCHANGED faults
       \/ Fault("dbread") /\ End(p)
    /\ UNCHANGED <<license, licMu, cdn, keys, saved, valid, forms>>

KeyFetch(p) ==
    /\ pc[p] = "fetch"
    /\ \/ /\ loc[p].lic \in valid
          /\ Goto(p, "key")
          /\ loc' = [loc EXCEPT ![p] = [NoLoc EXCEPT !.key = loc[p].lic]]
          /\ UNCHANGED faults
       \/ loc[p].lic \notin valid /\ Goto(p, "set") /\ Forget(p) /\ UNCHANGED faults
       \/ Fault("get") /\ End(p)
    /\ UNCHANGED <<license, licMu, cdn, keys, saved, valid, forms>>

\* Mutant: number and key swapped.
KeyKeep_Swapped(p) ==
    /\ pc[p] = "keep"
    /\ \/ keys' = [keys EXCEPT ![loc[p].key] = loc[p].lic] /\ UNCHANGED faults
       \/ Fault("dbwrite") /\ UNCHANGED keys
    /\ End(p)
    /\ UNCHANGED <<license, licMu, cdn, saved, valid, forms>>

KeyKeep(p) ==
    /\ pc[p] = "keep"
    /\ \/ keys' = [keys EXCEPT ![loc[p].lic] = loc[p].key] /\ UNCHANGED faults
       \/ Fault("dbwrite") /\ UNCHANGED keys
    /\ End(p)
    /\ UNCHANGED <<license, licMu, cdn, saved, valid, forms>>

KeyStep(p) == ReadField(p) \/ KeyLookup(p) \/ KeyFetch(p) \/ KeyKeep(p)

----------------------------------------------------------------------------
(* The settings form: SetLicenseNumber, then Save.                         *)

Submit(p) ==
    /\ pc[p] = "idle"
    /\ forms < MaxForms /\ forms' = forms + 1
    /\ \E n \in Licenses \cup {None} : loc' = [loc EXCEPT ![p].new = n]
    /\ Goto(p, "set")
    /\ UNCHANGED <<license, licMu, cdn, keys, saved, valid, faults>>

\* viper truncates the file and writes it.
SaveFile(p) ==
    /\ pc[p] = "file"
    /\ \/ saved' = loc[p].lic /\ UNCHANGED faults
       \/ saved' = None /\ Fault("save")
    /\ End(p)
    /\ UNCHANGED <<license, licMu, cdn, keys, valid, forms>>

FormStep(p) == ReadField(p) \/ SaveFile(p)

----------------------------------------------------------------------------
(* Environment.                                                            *)

Revoke ==
    /\ \E n \in valid : valid' = valid \ {n}
    /\ UNCHANGED <<license, licMu, cdn, keys, saved, forms, faults, pc, loc>>

TtlExpires ==
    /\ cdn.fresh
    /\ cdn' = [cdn EXCEPT !.fresh = FALSE]
    /\ UNCHANGED <<license, licMu, keys, saved, valid, forms, faults, pc, loc>>

\* The process dies; Load reads the file.
Crash ==
    /\ Fault("crash")
    /\ license' = saved
    /\ licMu' = None
    /\ cdn' = NoCdn
    /\ pc' = [p \in Procs |-> "idle"]
    /\ loc' = [p \in Procs |-> NoLoc]
    /\ UNCHANGED <<keys, saved, valid, forms>>

Set(p) == SetLock(p) \/ SetWrite(p) \/ SetForget(p)

Next ==
    \/ \E p \in Procs : Set(p)
    \/ \E p \in Links : LinkStart(p) \/ LinkStep(p)
    \/ \E p \in Keepers : KeyStart(p) \/ KeyStep(p)
    \/ \E p \in Admins : Submit(p) \/ FormStep(p)
    \/ Revoke \/ TtlExpires \/ Crash

Spec == Init /\ [][Next]_vars

\* Requests to vendors give up after a while; the scheduler starts run after
\* run; the clock goes on.  Strong, as sync.RWMutex serves who waits.
Fairness ==
    /\ \A p \in Links : SF_vars(Set(p) \/ LinkStep(p))
    /\ \A p \in Keepers : SF_vars(Set(p) \/ KeyStart(p) \/ KeyStep(p))
    /\ \A p \in Admins : SF_vars(Set(p) \/ FormStep(p))
    /\ WF_vars(TtlExpires)

FairSpec == Spec /\ Fairness

----------------------------------------------------------------------------
(* Properties.                                                             *)

\* The state is of the expected shape.
TypeOK ==
    /\ license \in Number
    /\ licMu \in Procs \cup {None}
    /\ cdn \in [of : Number, fresh : BOOLEAN, late : BOOLEAN]
    /\ keys \in [Number -> Licenses \cup {None}]
    /\ saved \in Number
    /\ valid \subseteq Licenses
    /\ forms \in 0..MaxForms /\ faults \in 0..MaxFaults
    /\ pc \in [Procs -> {"idle", "set", "write", "forget", "cdn", "check", "id", "ask",
                         "store", "look", "lookup", "url", "fetch", "key", "keep",
                         "save", "file"}]
    /\ loc \in [Procs -> [lic : Number, new : Licenses \cup {None},
                          key : Licenses \cup {None}]]

\* Once a change of the license is through, the known CDN is the new license's,
\* unless a discovery begun with the old one stored its answer afterwards.
CdnOfLicense == licMu = None /\ CdnKnown /\ ~cdn.late => cdn.of = license

\* No change of the license is under way between the read of it for which a
\* key is fetched and the end of the statement that stores the key.
Apart ==
    \A p \in Keepers, q \in Procs : pc[p] \in {"fetch", "key", "keep"} => pc[q] # "write"

\* A license does not stay configured for ever without a Web Filter key: it is
\* found invalid and cleared, or comes to a key.  That is its own, fetched for
\* it, unless a license was ever changed while a run fetched and stored a key:
\* the run reads the license again for the row, and the key of one license is
\* then in the row of another, for which no run ever fetches one.
KeyOrCleared ==
    /\ []<>(license = None \/ keys[license] # None)
    /\ []<>(license = None \/ keys[license] = license) \/ <>~Apart
===========================================================================
