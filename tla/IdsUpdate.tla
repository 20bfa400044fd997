----------------------------- MODULE IdsUpdate -----------------------------
(***************************************************************************)
(* The signature databases (IDS 1-3 and 5, GeoIP as IDS 4, and the Snort   *)
(* template that goes with IDS 5): the table ids_versions and the files    *)
(* under mirror/, written by update runs (mirror.DownloadAndUpdateIDS) and *)
(* advertised to clients by the link routes.                               *)
(*                                                                         *)
(* Runs are started by the scheduler and by the dashboard's button; nothing*)
(* keeps two from overlapping.  A run takes the enabled kinds one after    *)
(* the other and goes on with the next whatever happens to one.  One step  *)
(* is one access to what is shared: a listing, a statement on the table,   *)
(* opening (truncating) a file, the end of writing it.                     *)
(*                                                                         *)
(* Versions are numbered in release order, 0 for "no row".  A version's    *)
(* file has a name of its own; of kind 4 the version is the date, and it   *)
(* is in the name.  last_update_success is not kept: every row has it TRUE.*)
(***************************************************************************)
EXTENDS Naturals, Sequences

CONSTANTS
    Runs,        \* goroutines that run DownloadAndUpdateIDS
    Kinds,       \* the enabled kinds, in the order a run takes them
    MaxVersion,  \* bound: versions (of kind 4: days)
    Faults,      \* what may go wrong
    MaxErrors    \* bound: how often something goes wrong

(* "list": the listing cannot be fetched or parsed, or no license is set.   *)
(* "stale": it shows an older version.  "download": no answer, or not 200.  *)
(* "copy": a transfer or a write breaks off.  "dbread", "dbwrite": that     *)
(* statement fails.  "crash": the process dies.                             *)
FaultKinds == {"list", "stale", "download", "copy", "dbread", "dbwrite", "crash"}

ASSUME RunsAssumption == Runs \cap {"absent", "partial", "whole"} = {}
ASSUME BoundsAssumption ==
    /\ Kinds \in Seq({"1", "2", "3", "4", "5"}) /\ Kinds # <<>>
    /\ MaxVersion \in Nat \ {0}
    /\ MaxErrors \in Nat
    /\ Faults \subseteq FaultKinds

VARIABLES
    upstream,    \* the version the vendor lists, of kind 4 today's date
    rows,        \* table ids_versions: version and filename of a kind
    disk,        \* what stands at each path
    snortOk,     \* last_update_success of snort_template
    pc, loc,     \* next step and local variables of a run
    asking,      \* a link request between its two reads
    errors,      \* faults so far
    links,       \* history: the links answered, <<kind, version, file>>
    excused      \* history: two runs have overlapped, or a read of rows failed

vars == <<upstream, rows, disk, snortOk, pc, loc, asking, errors, links, excused>>

Kind == {Kinds[i] : i \in DOMAIN Kinds}
Version == 0..MaxVersion

\* The database with its signature, the template with its checksum, the two
\* tables a GeoIP archive is made of.
Path == (Kind \X Version \X {"full", "sig"})
        \cup {<<"snort", 0, "tpl">>, <<"snort", 0, "md5">>,
              <<"csv", 0, "v4">>, <<"csv", 0, "v6">>}

\* at: place in Kinds; rem: remoteVersion; path: the file it downloads;
\* good: what it has to remember of an earlier download.
NoLoc == [at |-> 1, rem |-> 0, path |-> <<"csv", 0, "v4">>, good |-> FALSE]
NotAsking == [kind |-> "none", ver |-> 0]

Init ==
    /\ upstream = [k \in Kind |-> 1]
    /\ rows = [k \in Kind |-> [ver |-> 0, file |-> 0]]
    /\ disk = [path \in Path |-> "absent"]
    /\ snortOk = FALSE
    /\ pc = [r \in Runs |-> "idle"]
    /\ loc = [r \in Runs |-> NoLoc]
    /\ asking = NotAsking
    /\ errors = 0
    /\ links = {}
    /\ excused = FALSE

----------------------------------------------------------------------------
(* Steps of a run.                                                         *)

KindOf(r) == Kinds[loc[r].at]
Goto(r, step) == pc' = [pc EXCEPT ![r] = step]

Fails(fault) ==
    /\ fault \in Faults
    /\ errors < MaxErrors
    /\ errors' = errors + 1

\* Mutant: one kind too many.
Continue_OffByOne(r) ==
    IF loc[r].at <= Len(Kinds)
    THEN /\ Goto(r, "kind")
         /\ loc' = [loc EXCEPT ![r] = [NoLoc EXCEPT !.at = loc[r].at + 1]]
    ELSE Goto(r, "idle") /\ loc' = [loc EXCEPT ![r] = NoLoc]

\* The next kind, or the end of the run.
Continue(r) ==
    IF loc[r].at < Len(Kinds)
    THEN /\ Goto(r, "kind")
         /\ loc' = [loc EXCEPT ![r] = [NoLoc EXCEPT !.at = loc[r].at + 1]]
    ELSE Goto(r, "idle") /\ loc' = [loc EXCEPT ![r] = NoLoc]

Download(r, path, good) ==
    /\ Goto(r, "open")
    /\ loc' = [loc EXCEPT ![r] = [@ EXCEPT !.path = path, !.good = good]]

Start(r) ==
    /\ pc[r] = "idle"
    /\ Goto(r, "kind")
    /\ excused' = (excused \/ \E q \in Runs : pc[q] # "idle")
    /\ UNCHANGED <<upstream, rows, disk, snortOk, loc, asking, errors, links>>

\* The vendor's listing; GeoIP has none and is made anew in every run.
List(r) ==
    /\ pc[r] = "kind" /\ KindOf(r) # "4"
    /\ \E v \in 1..upstream[KindOf(r)] :
          /\ \/ v = upstream[KindOf(r)] /\ UNCHANGED errors
             \/ Fails("stale")
          /\ loc' = [loc EXCEPT ![r].rem = v]
    /\ Goto(r, "row")
    /\ UNCHANGED <<upstream, rows, disk, snortOk, asking, links, excused>>

ListFails(r) ==
    /\ pc[r] = "kind" /\ KindOf(r) # "4"
    /\ Fails("list")
    /\ Continue(r)
    /\ UNCHANGED <<upstream, rows, disk, snortOk, asking, links, excused>>

GeoIp(r) ==
    /\ pc[r] = "kind" /\ KindOf(r) = "4"
    /\ Download(r, <<"csv", 0, "v4">>, FALSE)
    /\ UNCHANGED <<upstream, rows, disk, snortOk, asking, errors, links, excused>>

\* Mutant: any other version than the current one is taken for a new one.
Compare_Differs(r) ==
    /\ pc[r] = "row"
    /\ IF rows[KindOf(r)].ver = loc[r].rem
       THEN Continue(r)
       ELSE Download(r, <<KindOf(r), loc[r].rem, "full">>, FALSE)
    /\ UNCHANGED <<upstream, rows, disk, snortOk, asking, errors, links, excused>>

\* GetIDSVersion, which takes an error for "no row", and the comparison.
Compare(r) ==
    /\ pc[r] = "row"
    /\ \E v \in {rows[KindOf(r)].ver, 0} :
          /\ \/ v = rows[KindOf(r)].ver /\ UNCHANGED <<errors, excused>>
             \/ v = 0 /\ Fails("dbread") /\ excused' = TRUE
          /\ IF v >= loc[r].rem
             THEN Continue(r)
             ELSE Download(r, <<KindOf(r), loc[r].rem, "full">>, FALSE)
    /\ UNCHANGED <<upstream, rows, disk, snortOk, asking, links>>

\* The answer is there: os.Create truncates the file in place.
Open(r) ==
    /\ pc[r] = "open"
    /\ disk' = [disk EXCEPT ![loc[r].path] = r]
    /\ Goto(r, "fill")
    /\ UNCHANGED <<upstream, rows, snortOk, loc, asking, errors, links, excused>>

\* What the run does after a download that went well.
Downloaded(r) ==
    LET path == loc[r].path IN
    CASE path[3] = "full" /\ path[1] # "4" ->
            Download(r, <<path[1], path[2], "sig">>, FALSE)
      [] path[3] = "full" /\ path[1] = "4" -> Goto(r, "commit") /\ UNCHANGED loc
      [] path[3] = "sig" -> Goto(r, "commit") /\ UNCHANGED loc
      [] path[3] = "tpl" -> Download(r, <<"snort", 0, "md5">>, TRUE)
      [] path[3] = "md5" -> Goto(r, "status") /\ UNCHANGED loc
      [] path[3] = "v4" -> Download(r, <<"csv", 0, "v6">>, TRUE)
      [] path[3] = "v6" ->
            IF loc[r].good
            THEN Download(r, <<"4", upstream["4"], "full">>, FALSE)
            ELSE Continue(r)

\* Mutant: a missing signature is only logged.
NotDownloaded_NoSignature(r) ==
    LET path == loc[r].path IN
    CASE path[3] = "full" -> Continue(r)
      [] path[3] = "sig" -> Goto(r, "commit") /\ UNCHANGED loc
      [] path[3] \in {"tpl", "md5"} -> Goto(r, "status") /\ UNCHANGED loc
      [] path[3] = "v4" -> Download(r, <<"csv", 0, "v6">>, FALSE)
      [] path[3] = "v6" -> Continue(r)

\* What it does after one that did not: the checksum of the template is not
\* critical, and the second GeoIP table is fetched without the first.
NotDownloaded(r) ==
    LET path == loc[r].path IN
    CASE path[3] \in {"full", "sig"} -> Continue(r)
      [] path[3] \in {"tpl", "md5"} -> Goto(r, "status") /\ UNCHANGED loc
      [] path[3] = "v4" -> Download(r, <<"csv", 0, "v6">>, FALSE)
      [] path[3] = "v6" -> Continue(r)

OpenFails(r) ==
    /\ pc[r] = "open" /\ Fails("download")
    /\ NotDownloaded(r)
    /\ UNCHANGED <<upstream, rows, disk, snortOk, asking, links, excused>>

\* The end of the writing; only who truncated the file last has it whole.
Written(r, outcome) ==
    disk' = IF disk[loc[r].path] = r THEN [disk EXCEPT ![loc[r].path] = outcome] ELSE disk

\* A GeoIP archive is as good as the tables it is made of.
Result(r) ==
    IF loc[r].path[1] = "4"
       /\ \E part \in {"v4", "v6"} : disk[<<"csv", 0, part>>] # "whole"
    THEN "partial" ELSE "whole"

Fill(r) ==
    /\ pc[r] = "fill"
    /\ Written(r, Result(r))
    /\ Downloaded(r)
    /\ UNCHANGED <<upstream, rows, snortOk, asking, errors, links, excused>>

\* Combining the tables is tried again, up to five times, when a table cannot
\* be read; that the archive cannot be written may go unnoticed.
FillFails(r) ==
    /\ pc[r] = "fill" /\ Fails("copy")
    /\ Written(r, "partial")
    /\ \/ NotDownloaded(r)
       \/ loc[r].path[1] = "4" /\ (Download(r, loc[r].path, FALSE) \/ Downloaded(r))
    /\ UNCHANGED <<upstream, rows, snortOk, asking, links, excused>>

\* Mutant: the statement does not set the filename.
Commit_NoFilename(r) ==
    /\ pc[r] = "commit"
    /\ rows' = [rows EXCEPT ![KindOf(r)].ver = loc[r].path[2]]
    /\ IF KindOf(r) = "5" THEN Download(r, <<"snort", 0, "tpl">>, FALSE)
       ELSE IF KindOf(r) = "4" THEN Continue(r)
       ELSE Goto(r, "cleanup") /\ UNCHANGED loc
    /\ UNCHANGED <<upstream, disk, snortOk, asking, errors, links, excused>>

\* UpdateIDSVersion replaces the row.  The date of a GeoIP archive is taken
\* again, after the one in its name.
Commit(r) ==
    LET k == KindOf(r) IN
    /\ pc[r] = "commit"
    /\ rows' = [rows EXCEPT ![k] =
                   [ver |-> IF k = "4" THEN upstream["4"] ELSE loc[r].rem,
                    file |-> loc[r].path[2]]]
    /\ CASE k = "5" -> Download(r, <<"snort", 0, "tpl">>, FALSE)
         [] k = "4" -> Continue(r)
         [] OTHER -> Goto(r, "cleanup") /\ UNCHANGED loc
    /\ UNCHANGED <<upstream, disk, snortOk, asking, errors, links, excused>>

CommitFails(r) ==
    /\ pc[r] = "commit" /\ Fails("dbwrite")
    /\ Continue(r)
    /\ UNCHANGED <<upstream, rows, disk, snortOk, asking, links, excused>>

\* UpdateSnortTemplateStatus: without the checksum the update is a success.
SnortStatus(r) ==
    /\ pc[r] = "status"
    /\ \/ snortOk' = (loc[r].path[3] = "md5") /\ UNCHANGED errors
       \/ Fails("dbwrite") /\ UNCHANGED snortOk
    /\ Goto(r, "cleanup")
    /\ UNCHANGED <<upstream, rows, disk, loc, asking, links, excused>>

\* GetOldIDSFiles: the filenames of the kind's rows, of which there is one,
\* that are not the filename of the kind's newest row.
OldFiles(k) == {v \in {rows[k].file} : v # rows[k].file}

Cleanup(r) ==
    /\ pc[r] = "cleanup"
    /\ disk' = [path \in Path |->
                   IF path[1] = KindOf(r) /\ path[2] \in OldFiles(KindOf(r))
                   THEN "absent" ELSE disk[path]]
    /\ Continue(r)
    /\ UNCHANGED <<upstream, rows, snortOk, asking, errors, links, excused>>

Step(r) ==
    \/ List(r) \/ ListFails(r) \/ GeoIp(r) \/ Compare(r)
    \/ Open(r) \/ OpenFails(r) \/ Fill(r) \/ FillFails(r)
    \/ Commit(r) \/ CommitFails(r) \/ SnortStatus(r) \/ Cleanup(r)

----------------------------------------------------------------------------
(* idsLinkHandler and updateKerioHandler: two statements, version first.   *)

LinkVersion(k) ==
    /\ asking = NotAsking /\ rows[k].ver # 0
    /\ asking' = [kind |-> k, ver |-> rows[k].ver]
    /\ UNCHANGED <<upstream, rows, disk, snortOk, pc, loc, errors, links, excused>>

LinkFile ==
    /\ asking # NotAsking
    /\ \/ /\ links' = links \cup {<<asking.kind, asking.ver, rows[asking.kind].file>>}
          /\ UNCHANGED errors
       \/ Fails("dbread") /\ UNCHANGED links
    /\ asking' = NotAsking
    /\ UNCHANGED <<upstream, rows, disk, snortOk, pc, loc, excused>>

\* What the file routes find: idsFileHandler looks in mirror/ and
\* controlUpdateHandler there and in mirror/custom/control-update/, while
\* GeoIP archives are in mirror/geo/.
Found(k, part) == IF k = "4" THEN {} ELSE {v \in Version : disk[<<k, v, part>>] = "whole"}

----------------------------------------------------------------------------
Release(k) ==
    /\ upstream[k] < MaxVersion
    /\ upstream' = [upstream EXCEPT ![k] = @ + 1]
    /\ UNCHANGED <<rows, disk, snortOk, pc, loc, asking, errors, links, excused>>

\* The process dies and is started again.
Crash ==
    /\ Fails("crash")
    /\ disk' = [path \in Path |-> IF disk[path] \in Runs THEN "partial" ELSE disk[path]]
    /\ pc' = [r \in Runs |-> "idle"]
    /\ loc' = [r \in Runs |-> NoLoc]
    /\ asking' = NotAsking
    /\ UNCHANGED <<upstream, rows, snortOk, links, excused>>

Next ==
    \/ \E r \in Runs : Start(r) \/ Step(r)
    \/ \E k \in Kind : LinkVersion(k) \/ Release(k)
    \/ LinkFile \/ Crash

Spec == Init /\ [][Next]_vars

\* The scheduler starts a run every day, and a run goes on: its requests give
\* up after 60 s (those for GeoIP tables do not: there the vendor is trusted
\* to answer or to hang up).
Fairness == \A r \in Runs : WF_vars(Start(r) \/ Step(r))

FairSpec == Spec /\ Fairness

----------------------------------------------------------------------------
(* Properties.                                                             *)

\* The state is of the expected shape.
TypeOK ==
    /\ upstream \in [Kind -> 1..MaxVersion]
    /\ rows \in [Kind -> [ver : Version, file : Version]]
    /\ disk \in [Path -> Runs \cup {"absent", "partial", "whole"}]
    /\ snortOk \in BOOLEAN
    /\ pc \in [Runs -> {"idle", "kind", "row", "open", "fill", "commit",
                        "status", "cleanup"}]
    /\ loc \in [Runs -> [at : DOMAIN Kinds, rem : Version, path : Path, good : BOOLEAN]]
    /\ asking \in [kind : Kind \cup {"none"}, ver : Version]
    /\ errors \in 0..MaxErrors
    /\ links \subseteq Kind \X Version \X Version
    /\ excused \in BOOLEAN

\* What a link answers now can be downloaded, database and signature, at every
\* moment of an update, after failed ones and after crashes, although files are
\* truncated in place and the row is written apart from them: unless runs
\* overlapped or a read of the table failed, which makes a run download what it
\* has.  Nothing is said of links answered before a later update.
AdvertisedServable ==
    ~excused =>
        \A k \in Kind \ {"4"} : rows[k].ver # 0 =>
            rows[k].file \in Found(k, "full") \cap Found(k, "sig")

\* The file of an answered link is of the version the link tells or newer,
\* although version and filename are read by two statements.
LinkNotOlder ==
    ~excused => \A link \in links : link[1] # "4" => link[3] >= link[2]

\* The mirror never goes back to an older version, also when the vendor's
\* listing does: unless runs overlapped or a read of the table failed.
RowsAdvance ==
    [][~excused => \A k \in Kind : rows'[k].ver >= rows[k].ver]_rows

\* Once nothing fails any more and nothing new is released, every kind comes
\* to be at the listed version for good, and its files are there unless runs
\* overlapped or a read of the table failed.
Converges ==
    <>[]\A k \in Kind :
        /\ rows[k].ver = upstream[k]
        /\ ~excused /\ k # "4" =>
              rows[k].file \in Found(k, "full") \cap Found(k, "sig")
===========================================================================
