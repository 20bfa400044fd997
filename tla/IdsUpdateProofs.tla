-------------------------- MODULE IdsUpdateProofs --------------------------
(***************************************************************************)
(* Proofs about IdsUpdate, for any runs, kinds, versions and faults.  What *)
(* carries them: a run that is alone truncates files of versions newer     *)
(* than the row's only, and every link ever answered is of a version not   *)
(* newer than the row's.                                                   *)
(***************************************************************************)
EXTENDS IdsUpdate, TLAPS

Local == [at : DOMAIN Kinds, rem : Version, path : Path, good : BOOLEAN]

Steps == {"idle", "kind", "row", "open", "fill", "commit", "status", "cleanup"}

----------------------------------------------------------------------------
(* The invariant.                                                          *)

\* A run at work on a file of a listed kind is at the version it found listed.
FileOfRun(r) ==
    /\ loc[r].path[1] = KindOf(r)
    /\ KindOf(r) # "4" => loc[r].path[2] = loc[r].rem

\* What the local variables of run r are at each step.
Shape(r) ==
    /\ loc[r].rem <= upstream[KindOf(r)]
    /\ pc[r] \in {"open", "fill"} =>
          /\ loc[r].path[3] \in {"full", "sig"} => FileOfRun(r)
          /\ loc[r].path[1] = "csv" => KindOf(r) = "4"
    /\ pc[r] = "commit" => FileOfRun(r)

\* Both files of version v of kind k can be downloaded.
Whole(k, v) == disk[<<k, v, "full">>] = "whole" /\ disk[<<k, v, "sig">>] = "whole"

\* What a run that is alone knows of the files it is about to advertise.
Ahead(r) ==
    /\ pc[r] \in {"open", "fill"} /\ KindOf(r) # "4" /\ loc[r].path[3] \in {"full", "sig"} =>
          loc[r].rem > rows[KindOf(r)].ver
    /\ pc[r] \in {"open", "fill"} /\ KindOf(r) # "4" /\ loc[r].path[3] = "sig" =>
          disk[<<KindOf(r), loc[r].rem, "full">>] = "whole"
    /\ pc[r] = "commit" /\ KindOf(r) # "4" =>
          loc[r].rem > rows[KindOf(r)].ver /\ Whole(KindOf(r), loc[r].rem)
    /\ pc[r] = "fill" => disk[loc[r].path] = r

Alone == \A q, r \in Runs : pc[q] # "idle" /\ pc[r] # "idle" => q = r

\* The row names the files of its version.
RowServable(k) ==
    k # "4" /\ rows[k].ver # 0 => rows[k].file = rows[k].ver /\ Whole(k, rows[k].ver)

AskedBefore == asking # NotAsking => asking.ver # 0 /\ asking.ver <= rows[asking.kind].ver

LinksOlder == \A link \in links : link[1] # "4" => link[2] <= link[3]

Safe ==
    /\ Alone
    /\ \A k \in Kind : RowServable(k)
    /\ AskedBefore
    /\ LinksOlder
    /\ \A r \in Runs : Ahead(r)

Typed ==
    /\ TypeOK
    /\ \A k \in Kind : rows[k].ver <= upstream[k]
    /\ \A r \in Runs : Shape(r)
    /\ asking # NotAsking => asking.kind \in Kind

Inv == Typed /\ (~excused => Safe)

----------------------------------------------------------------------------
(* The constants.                                                          *)

LEMMA KindFacts ==
    /\ Kinds \in Seq(Kind) /\ Len(Kinds) \in Nat \ {0} /\ DOMAIN Kinds = 1..Len(Kinds)
    /\ \A i \in 1..Len(Kinds) : Kinds[i] \in Kind
    /\ Kind \subseteq {"1", "2", "3", "4", "5"}
    /\ "none" \notin Kind /\ "snort" \notin Kind /\ "csv" \notin Kind
BY BoundsAssumption DEF Kind

LEMMA VersionFacts ==
    MaxVersion \in Nat \ {0} /\ 0 \in Version /\ Version = 0..MaxVersion
BY BoundsAssumption DEF Version

LEMMA PathFacts ==
    /\ \A k \in Kind, v \in Version : <<k, v, "full">> \in Path /\ <<k, v, "sig">> \in Path
    /\ <<"snort", 0, "tpl">> \in Path /\ <<"snort", 0, "md5">> \in Path
    /\ <<"csv", 0, "v4">> \in Path /\ <<"csv", 0, "v6">> \in Path
    /\ \A path \in Path :
          \/ path[1] \in Kind /\ path[2] \in Version /\ path[3] \in {"full", "sig"}
          \/ path[1] = "snort" /\ path[3] \in {"tpl", "md5"}
          \/ path[1] = "csv" /\ path[3] \in {"v4", "v6"}
BY DEF Path

LEMMA NoLocType ==
    /\ NoLoc \in Local /\ \A i \in 1..Len(Kinds) : [NoLoc EXCEPT !.at = i] \in Local
    /\ NoLoc.at = 1 /\ NoLoc.rem = 0
<1>1. <<"csv", 0, "v4">> \in Path /\ 0 \in Version /\ DOMAIN Kinds = 1..Len(Kinds)
      /\ 1 \in DOMAIN Kinds
      BY KindFacts, VersionFacts, PathFacts
<1> DEFINE csv == <<"csv", 0, "v4">>
<1>2. NoLoc = [at |-> 1, rem |-> 0, path |-> csv, good |-> FALSE] /\ csv \in Path
      BY <1>1 DEF NoLoc
<1> HIDE DEF csv
<1>3. NoLoc \in Local /\ NoLoc.at = 1 /\ NoLoc.rem = 0
      BY <1>1, <1>2 DEF Local
<1>4. \A i \in 1..Len(Kinds) : [NoLoc EXCEPT !.at = i] \in Local
      BY <1>1, <1>3 DEF Local
<1> QED BY <1>3, <1>4

LEMMA KindOfRun ==
    ASSUME TypeOK, NEW r \in Runs
    PROVE  loc[r] \in Local /\ KindOf(r) \in Kind /\ loc[r].path \in Path /\ loc[r].rem \in Version
BY KindFacts DEF TypeOK, Local, KindOf

----------------------------------------------------------------------------
(* What the pieces of a step do.                                           *)

\* Run r steps to a place with well-formed local variables, the others stay.
Moves(r, places, locals) ==
    /\ \E step \in places : pc' = [pc EXCEPT ![r] = step]
    /\ \E l \in locals : loc' = [loc EXCEPT ![r] = l]

\* Ahead of the next kind, or at the end.
Fresh == {l \in Local : l.rem = 0}

\* Downloading path next.
Fetching(r, path) == {l \in Local : l.at = loc[r].at /\ l.rem = loc[r].rem /\ l.path = path}

LEMMA ContinueMoves ==
    ASSUME TypeOK, NEW r \in Runs, Continue(r)
    PROVE  Moves(r, {"kind", "idle"}, Fresh)
<1>1. loc[r].at \in 1..Len(Kinds)
      BY KindFacts, KindOfRun DEF Local
<1>2. CASE loc[r].at < Len(Kinds)
  <2>1. [NoLoc EXCEPT !.at = loc[r].at + 1] \in Fresh
        BY <1>1, <1>2, KindFacts, NoLocType DEF Fresh, NoLoc
  <2> QED BY <1>2, <2>1 DEF Continue, Goto, Moves
<1>3. CASE ~(loc[r].at < Len(Kinds))
      BY <1>3, NoLocType DEF Continue, Goto, Moves, Fresh
<1> QED BY <1>2, <1>3

LEMMA DownloadMoves ==
    ASSUME TypeOK, NEW r \in Runs, NEW path \in Path, NEW good \in BOOLEAN,
           Download(r, path, good)
    PROVE  Moves(r, {"open"}, Fetching(r, path))
<1>1. loc' = [loc EXCEPT ![r] = [loc[r] EXCEPT !.path = path, !.good = good]]
      BY DEF Download
<1>2. [loc[r] EXCEPT !.path = path, !.good = good] \in Fetching(r, path)
      BY KindOfRun DEF Fetching, Local
<1> QED BY <1>1, <1>2 DEF Download, Goto, Moves

\* Run r stays with the variables it has.
LEMMA StayMoves ==
    ASSUME TypeOK, NEW r \in Runs, NEW step, Goto(r, step), UNCHANGED loc
    PROVE  Moves(r, {step}, {loc[r]})
BY DEF TypeOK, Goto, Moves

LEMMA MovesType ==
    ASSUME TypeOK, NEW r \in Runs, NEW places \in SUBSET Steps, NEW locals \in SUBSET Local,
           Moves(r, places, locals)
    PROVE  /\ pc' \in [Runs -> Steps] /\ loc' \in [Runs -> Local]
           /\ pc'[r] \in places /\ loc'[r] \in locals
           /\ \A q \in Runs \ {r} : pc'[q] = pc[q] /\ loc'[q] = loc[q]
BY DEF Moves, TypeOK, Steps, Local

LEMMA MovesOwn ==
    ASSUME TypeOK, NEW r \in Runs, NEW places, NEW locals, Moves(r, places, locals)
    PROVE  pc'[r] \in places /\ loc'[r] \in locals
BY DEF Moves, TypeOK

LEMMA MovesTo ==
    ASSUME TypeOK, NEW r \in Runs, NEW step, Moves(r, {step}, {loc[r]})
    PROVE  pc'[r] = step /\ loc'[r] = loc[r]
BY DEF Moves, TypeOK

LEMMA MovesToOpen ==
    ASSUME TypeOK, NEW r \in Runs, NEW path, Moves(r, {"open"}, Fetching(r, path))
    PROVE  /\ pc'[r] = "open" /\ loc'[r].path = path
           /\ loc'[r].at = loc[r].at /\ loc'[r].rem = loc[r].rem
BY DEF Moves, Fetching, TypeOK

\* The files no invariant but Shape is about: the template's, and GeoIP's.
OtherFiles(r) ==
    {path \in Path : path[1] = "snort" \/ (KindOf(r) = "4" /\ path[1] \in {"csv", "4"})}

\* Run r has nothing in hand that the invariant says something of.
Leaves(r) ==
    \/ Moves(r, {"kind", "idle"}, Fresh)
    \/ Moves(r, {"status", "cleanup"}, {loc[r]})
    \/ \E path \in OtherFiles(r) : Moves(r, {"open"}, Fetching(r, path))

LEMMA DownloadLeaves ==
    ASSUME TypeOK, NEW r \in Runs, NEW path \in OtherFiles(r), NEW good \in BOOLEAN,
           Download(r, path, good)
    PROVE  Leaves(r)
<1>1. path \in Path
      BY DEF OtherFiles
<1> QED BY <1>1, DownloadMoves DEF Leaves

LEMMA StayLeaves ==
    ASSUME TypeOK, NEW r \in Runs, NEW step \in {"status", "cleanup"}, Goto(r, step),
           UNCHANGED loc
    PROVE  Leaves(r)
BY StayMoves DEF Leaves, Moves

LEMMA ContinueLeaves ==
    ASSUME TypeOK, NEW r \in Runs, Continue(r)
    PROVE  Leaves(r)
BY ContinueMoves DEF Leaves

\* After a download that failed.
LEMMA NotDownloadedLeaves ==
    ASSUME TypeOK, NEW r \in Runs, pc[r] \in {"open", "fill"}, Shape(r), NotDownloaded(r)
    PROVE  Leaves(r)
<1> DEFINE path == loc[r].path
<1>1. path \in Path
      BY KindOfRun
<1>2. path[3] \in {"full", "sig", "tpl", "md5", "v4", "v6"}
      BY <1>1, PathFacts
<1>3. CASE path[3] \in {"full", "sig", "v6"}
      BY <1>3, ContinueLeaves DEF NotDownloaded
<1>4. CASE path[3] \in {"tpl", "md5"}
      BY <1>4, StayLeaves DEF NotDownloaded
<1>5. CASE path[3] = "v4"
  <2>1. path[1] = "csv" /\ KindOf(r) = "4"
        BY <1>1, <1>5, PathFacts DEF Shape
  <2>2. <<"csv", 0, "v6">> \in OtherFiles(r)
        BY <2>1, PathFacts DEF OtherFiles
  <2>3. Download(r, <<"csv", 0, "v6">>, FALSE)
        BY <1>5 DEF NotDownloaded
  <2> QED BY <2>2, <2>3, DownloadLeaves
<1> QED BY <1>2, <1>3, <1>4, <1>5

\* After one that went well: to the signature of a database, to the row once
\* every file is there, or to other files.
LEMMA DownloadedMoves ==
    ASSUME TypeOK, NEW r \in Runs, pc[r] = "fill", Shape(r), Downloaded(r)
    PROVE  \/ /\ loc[r].path[3] = "full" /\ KindOf(r) # "4"
              /\ Moves(r, {"open"}, Fetching(r, <<KindOf(r), loc[r].rem, "sig">>))
           \/ /\ loc[r].path[3] \in {"full", "sig"}
              /\ KindOf(r) # "4" => loc[r].path[3] = "sig"
              /\ Moves(r, {"commit"}, {loc[r]})
           \/ Leaves(r)
<1> DEFINE path == loc[r].path
<1>1. path \in Path /\ KindOf(r) \in Kind /\ loc[r].rem \in Version
      BY KindOfRun
<1>2. path[3] \in {"full", "sig", "tpl", "md5", "v4", "v6"}
      BY <1>1, PathFacts
<1>3. CASE path[3] = "full" /\ path[1] # "4"
  <2>1. path[1] = KindOf(r) /\ path[2] = loc[r].rem
        BY <1>3 DEF Shape, FileOfRun
  <2>2. Download(r, <<KindOf(r), loc[r].rem, "sig">>, FALSE)
        BY <1>3, <2>1 DEF Downloaded
  <2>3. <<KindOf(r), loc[r].rem, "sig">> \in Path
        BY <1>1, PathFacts
  <2> QED BY <1>3, <2>1, <2>2, <2>3, DownloadMoves
<1>4. CASE path[3] = "full" /\ path[1] = "4"
  <2>1. KindOf(r) = "4"
        BY <1>4 DEF Shape, FileOfRun
  <2> QED BY <1>4, <2>1, StayMoves DEF Downloaded
<1>5. CASE path[3] = "sig"
      BY <1>5, StayMoves DEF Downloaded
<1>6. CASE path[3] = "tpl"
  <2>1. <<"snort", 0, "md5">> \in OtherFiles(r)
        BY PathFacts DEF OtherFiles
  <2>2. Download(r, <<"snort", 0, "md5">>, TRUE)
        BY <1>6 DEF Downloaded
  <2> QED BY <2>1, <2>2, DownloadLeaves
<1>7. CASE path[3] = "md5"
      BY <1>7, StayLeaves DEF Downloaded
<1>8. CASE path[3] \in {"v4", "v6"}
  <2>1. path[1] = "csv" /\ KindOf(r) = "4" /\ "4" \in Kind
        BY <1>1, <1>8, PathFacts DEF Shape
  <2>2. upstream["4"] \in Version
        BY <2>1, VersionFacts DEF TypeOK
  <2>3. <<"csv", 0, "v6">> \in OtherFiles(r)
        BY <2>1, PathFacts DEF OtherFiles
  <2>4. <<"4", upstream["4"], "full">> \in OtherFiles(r)
        BY <2>1, <2>2, PathFacts DEF OtherFiles
  <2>5. CASE path[3] = "v4"
    <3>1. Download(r, <<"csv", 0, "v6">>, TRUE)
          BY <2>5 DEF Downloaded
    <3> QED BY <3>1, <2>3, DownloadLeaves
  <2>6. CASE path[3] = "v6" /\ loc[r].good
    <3>1. Download(r, <<"4", upstream["4"], "full">>, FALSE)
          BY <2>6 DEF Downloaded
    <3> QED BY <3>1, <2>4, DownloadLeaves
  <2>7. CASE path[3] = "v6" /\ ~loc[r].good
    <3>1. Continue(r)
          BY <2>7 DEF Downloaded
    <3> QED BY <3>1, ContinueLeaves
  <2> QED BY <1>8, <2>5, <2>6, <2>7
<1> QED BY <1>2, <1>3, <1>4, <1>5, <1>6, <1>7, <1>8

----------------------------------------------------------------------------
(* Type correctness.                                                       *)

\* Run r is about to download a file of the version it found listed.
FetchesFile(r, part) == Moves(r, {"open"}, Fetching(r, <<KindOf(r), loc[r].rem, part>>))

\* Run r is not yet at its files, at a version that is listed.
Listed(r) == {l \in Local : l.at = loc[r].at /\ l.rem <= upstream[KindOf(r)]}

\* All that a step does to the run that takes it.
RunMoves(r) ==
    \/ Leaves(r)
    \/ \E part \in {"full", "sig"} : FetchesFile(r, part)
    \/ pc[r] = "open" /\ Moves(r, {"fill"}, {loc[r]})
    \/ pc[r] = "fill" /\ loc[r].path[3] \in {"full", "sig"} /\ Moves(r, {"commit"}, {loc[r]})
    \/ Moves(r, {"kind", "row"}, Listed(r))

LEMMA ShapeKept ==
    ASSUME Typed, NEW r \in Runs, RunMoves(r), UNCHANGED upstream
    PROVE  /\ pc' \in [Runs -> Steps] /\ loc' \in [Runs -> Local]
           /\ \A q \in Runs : Shape(q)'
<1>0. /\ TypeOK /\ loc[r] \in Local /\ KindOf(r) \in Kind /\ loc[r].rem \in Version
      /\ loc[r].path \in Path /\ upstream \in [Kind -> 1..MaxVersion]
      /\ loc[r].rem <= upstream[KindOf(r)] /\ MaxVersion \in Nat
      BY KindOfRun, VersionFacts DEF Typed, TypeOK, Shape
<1>1. ASSUME NEW places \in SUBSET Steps, NEW locals \in SUBSET Local,
             Moves(r, places, locals), Shape(r)'
      PROVE  /\ pc' \in [Runs -> Steps] /\ loc' \in [Runs -> Local]
             /\ \A q \in Runs : Shape(q)'
  <2>1. /\ pc' \in [Runs -> Steps] /\ loc' \in [Runs -> Local]
        /\ \A q \in Runs \ {r} : pc'[q] = pc[q] /\ loc'[q] = loc[q]
        BY <1>0, <1>1, MovesType
  <2>2. ASSUME NEW q \in Runs \ {r} PROVE Shape(q)'
        BY <2>1, <2>2 DEF Typed, Shape, FileOfRun, KindOf
  <2> QED BY <1>1, <2>1, <2>2
<1>2. CASE Moves(r, {"kind", "idle"}, Fresh)
  <2>1. /\ pc'[r] \in {"kind", "idle"} /\ loc'[r] \in Local /\ loc'[r].rem = 0
        BY <1>0, <1>2, MovesOwn DEF Fresh
  <2>2. Kinds[loc'[r].at] \in Kind
        BY <2>1, KindFacts DEF Local
  <2>3. Shape(r)'
        BY <1>0, <2>1, <2>2 DEF Shape, KindOf
  <2> QED BY <1>1, <1>2, <2>3 DEF Steps, Fresh
<1>3. CASE Moves(r, {"status", "cleanup"}, {loc[r]})
  <2>1. pc'[r] \in {"status", "cleanup"} /\ loc'[r] = loc[r]
        BY <1>0, <1>3, MovesOwn
  <2>2. Shape(r)'
        BY <1>0, <2>1 DEF Shape, KindOf
  <2> QED BY <1>0, <1>1, <1>3, <2>2 DEF Steps
<1>4. ASSUME NEW path \in OtherFiles(r), Moves(r, {"open"}, Fetching(r, path)) PROVE Shape(r)'
  <2>1. /\ pc'[r] = "open" /\ loc'[r].path = path
        /\ loc'[r].at = loc[r].at /\ loc'[r].rem = loc[r].rem
        BY <1>0, <1>4, MovesToOpen
  <2>2. /\ path[3] \in {"full", "sig"} => path[1] = KindOf(r) /\ KindOf(r) = "4"
        /\ path[1] = "csv" => KindOf(r) = "4"
    <3>1. path \in Path /\ (path[1] = "snort" \/ (KindOf(r) = "4" /\ path[1] \in {"csv", "4"}))
          BY <1>4 DEF OtherFiles
    <3> QED BY <1>0, <3>1, PathFacts, KindFacts
  <2> QED BY <1>0, <2>1, <2>2 DEF Shape, FileOfRun, KindOf
<1>5. CASE \E path \in OtherFiles(r) : Moves(r, {"open"}, Fetching(r, path))
      BY <1>1, <1>4, <1>5 DEF Steps, Fetching
<1>6. ASSUME NEW part \in {"full", "sig"}, FetchesFile(r, part) PROVE Shape(r)'
  <2> DEFINE path == <<KindOf(r), loc[r].rem, part>>
  <2>1. /\ pc'[r] = "open" /\ loc'[r].path = path
        /\ loc'[r].at = loc[r].at /\ loc'[r].rem = loc[r].rem
        BY <1>0, <1>6, MovesToOpen DEF FetchesFile
  <2>2. path[1] = KindOf(r) /\ path[2] = loc[r].rem /\ path[1] # "csv"
        BY <1>0, KindFacts
  <2> QED BY <1>0, <2>1, <2>2 DEF Shape, FileOfRun, KindOf
<1>7. CASE \E part \in {"full", "sig"} : FetchesFile(r, part)
      BY <1>1, <1>6, <1>7 DEF Steps, Fetching, FetchesFile
<1>8. CASE pc[r] = "open" /\ Moves(r, {"fill"}, {loc[r]})
  <2>1. pc'[r] = "fill" /\ loc'[r] = loc[r]
        BY <1>0, <1>8, MovesTo
  <2>2. Shape(r)'
        BY <1>0, <1>8, <2>1 DEF Typed, Shape, FileOfRun, KindOf
  <2> QED BY <1>0, <1>1, <1>8, <2>2 DEF Steps
<1>9. CASE /\ pc[r] = "fill" /\ loc[r].path[3] \in {"full", "sig"}
           /\ Moves(r, {"commit"}, {loc[r]})
  <2>1. pc'[r] = "commit" /\ loc'[r] = loc[r]
        BY <1>0, <1>9, MovesTo
  <2>2. Shape(r)'
        BY <1>0, <1>9, <2>1 DEF Typed, Shape, FileOfRun, KindOf
  <2> QED BY <1>0, <1>1, <1>9, <2>2 DEF Steps
<1>10. CASE Moves(r, {"kind", "row"}, Listed(r))
  <2>1. /\ pc'[r] \in {"kind", "row"} /\ loc'[r].at = loc[r].at
        /\ loc'[r].rem <= upstream[KindOf(r)]
        BY <1>0, <1>10, MovesOwn DEF Listed
  <2>2. Shape(r)'
        BY <1>0, <2>1 DEF Shape, KindOf
  <2> QED BY <1>1, <1>10, <2>2 DEF Steps, Listed
<1> QED BY <1>2, <1>3, <1>5, <1>7, <1>8, <1>9, <1>10 DEF RunMoves, Leaves

LEMMA CompareMoves ==
    ASSUME TypeOK, NEW r \in Runs, NEW v \in Version,
           IF v >= loc[r].rem
           THEN Continue(r)
           ELSE Download(r, <<KindOf(r), loc[r].rem, "full">>, FALSE)
    PROVE  \/ Leaves(r)
           \/ v < loc[r].rem /\ FetchesFile(r, "full")
<1>0. KindOf(r) \in Kind /\ loc[r].rem \in Version
      BY KindOfRun
<1>1. /\ <<KindOf(r), loc[r].rem, "full">> \in Path
      /\ v \in Nat /\ loc[r].rem \in Nat
  <2>1. <<KindOf(r), loc[r].rem, "full">> \in Path
        BY <1>0, PathFacts
  <2>2. v \in Nat /\ loc[r].rem \in Nat
        BY <1>0, VersionFacts
  <2> QED BY <2>1, <2>2
<1>2. CASE v >= loc[r].rem
      BY <1>2, ContinueLeaves
<1>3. CASE ~(v >= loc[r].rem)
  <2>1. FetchesFile(r, "full")
        BY <1>1, <1>3, DownloadMoves DEF FetchesFile
  <2> QED BY <1>1, <1>3, <2>1
<1> QED BY <1>2, <1>3

LEMMA ListMoves ==
    ASSUME Typed, NEW r \in Runs, List(r)
    PROVE  Moves(r, {"kind", "row"}, Listed(r))
<1>1. /\ TypeOK /\ loc[r] \in Local /\ KindOf(r) \in Kind
      /\ upstream[KindOf(r)] \in 1..MaxVersion /\ MaxVersion \in Nat
      BY KindOfRun, VersionFacts DEF Typed, TypeOK
<1>2. PICK v \in 1..upstream[KindOf(r)] : loc' = [loc EXCEPT ![r].rem = v]
      BY DEF List
<1>3. [loc[r] EXCEPT !.rem = v] \in Listed(r)
  <2>1. v \in Version /\ v <= upstream[KindOf(r)]
        BY <1>1, <1>2, VersionFacts
  <2> QED BY <1>1, <2>1 DEF Listed, Local
<1>4. loc' = [loc EXCEPT ![r] = [loc[r] EXCEPT !.rem = v]]
      BY <1>1, <1>2 DEF TypeOK
<1> QED BY <1>3, <1>4 DEF List, Goto, Moves

\* The row is replaced, and the run goes on elsewhere.
LEMMA CommitLeaves ==
    ASSUME TypeOK, NEW r \in Runs, Commit(r)
    PROVE  Leaves(r)
<1>1. CASE KindOf(r) = "5"
  <2>1. Download(r, <<"snort", 0, "tpl">>, FALSE)
        BY <1>1 DEF Commit
  <2>2. <<"snort", 0, "tpl">> \in OtherFiles(r)
        BY PathFacts DEF OtherFiles
  <2> QED BY <2>1, <2>2, DownloadLeaves
<1>2. CASE KindOf(r) = "4"
      BY <1>2, ContinueLeaves DEF Commit
<1>3. CASE KindOf(r) \notin {"4", "5"}
      BY <1>3, StayLeaves DEF Commit
<1> QED BY <1>1, <1>2, <1>3

\* After a transfer that broke off, the archive is tried again or, if that it is
\* not whole goes unnoticed, advertised.
LEMMA FillFailsMoves ==
    ASSUME Typed, NEW r \in Runs, FillFails(r)
    PROVE  \/ Leaves(r)
           \/ /\ KindOf(r) = "4" /\ loc[r].path[3] \in {"full", "sig"}
              /\ Moves(r, {"commit"}, {loc[r]})
<1>1. TypeOK /\ Shape(r) /\ pc[r] = "fill" /\ loc[r].path \in Path
      BY KindOfRun DEF Typed, FillFails
<1>2. CASE NotDownloaded(r)
      BY <1>1, <1>2, NotDownloadedLeaves
<1>3. CASE loc[r].path[1] = "4"
  <2>1. loc[r].path[3] \in {"full", "sig"} /\ KindOf(r) = "4"
        BY <1>1, <1>3, PathFacts DEF Shape, FileOfRun
  <2>2. CASE Download(r, loc[r].path, FALSE)
    <3>1. loc[r].path \in OtherFiles(r)
          BY <1>1, <1>3, <2>1 DEF OtherFiles
    <3> QED BY <1>1, <2>2, <3>1, DownloadLeaves
  <2>3. CASE Downloaded(r)
        BY <1>1, <2>1, <2>3, DownloadedMoves
  <2> QED BY <1>2, <1>3, <2>2, <2>3 DEF FillFails
<1> QED BY <1>2, <1>3 DEF FillFails

LEMMA StepMoves ==
    ASSUME Typed, NEW r \in Runs, Start(r) \/ Step(r)
    PROVE  RunMoves(r) /\ UNCHANGED upstream
<1>0. TypeOK /\ Shape(r) /\ loc[r] \in Local
      BY KindOfRun DEF Typed
<1>1. CASE Start(r)
  <2>1. loc[r] \in Listed(r)
        BY <1>0 DEF Listed, Shape
  <2>2. Moves(r, {"kind"}, {loc[r]})
        BY <1>0, <1>1, StayMoves DEF Start
  <2>3. Moves(r, {"kind", "row"}, Listed(r))
        BY <2>1, <2>2 DEF Moves
  <2> QED BY <1>1, <2>3 DEF RunMoves, Start
<1>2. CASE List(r)
      BY <1>2, ListMoves DEF RunMoves, List
<1>3. CASE ListFails(r)
      BY <1>0, <1>3, ContinueLeaves DEF RunMoves, ListFails
<1>4. CASE GeoIp(r)
  <2>1. <<"csv", 0, "v4">> \in OtherFiles(r)
        BY <1>4, PathFacts DEF OtherFiles, GeoIp
  <2> QED BY <1>0, <1>4, <2>1, DownloadLeaves DEF RunMoves, GeoIp
<1>5. CASE Compare(r)
  <2>1. {rows[KindOf(r)].ver, 0} \subseteq Version
        BY <1>0, KindOfRun, VersionFacts DEF TypeOK
  <2>2. PICK v \in {rows[KindOf(r)].ver, 0} :
          IF v >= loc[r].rem
          THEN Continue(r)
          ELSE Download(r, <<KindOf(r), loc[r].rem, "full">>, FALSE)
        BY <1>5 DEF Compare
  <2> QED BY <1>0, <1>5, <2>1, <2>2, CompareMoves DEF RunMoves, Compare
<1>6. CASE Open(r)
      BY <1>0, <1>6, StayMoves DEF RunMoves, Open
<1>7. CASE OpenFails(r)
      BY <1>0, <1>7, NotDownloadedLeaves DEF RunMoves, OpenFails
<1>8. CASE Fill(r)
      BY <1>0, <1>8, DownloadedMoves DEF RunMoves, Fill, FetchesFile
<1>9. CASE FillFails(r)
  <2>1. pc[r] = "fill" /\ UNCHANGED upstream
        BY <1>9 DEF FillFails
  <2> QED BY <1>9, <2>1, FillFailsMoves DEF RunMoves
<1>10. CASE Commit(r)
      BY <1>0, <1>10, CommitLeaves DEF RunMoves, Commit
<1>11. CASE CommitFails(r)
      BY <1>0, <1>11, ContinueLeaves DEF RunMoves, CommitFails
<1>12. CASE SnortStatus(r)
      BY <1>0, <1>12, StayLeaves DEF RunMoves, SnortStatus
<1>13. CASE Cleanup(r)
      BY <1>0, <1>13, ContinueLeaves DEF RunMoves, Cleanup
<1> QED BY <1>1, <1>2, <1>3, <1>4, <1>5, <1>6, <1>7, <1>8, <1>9, <1>10, <1>11,
           <1>12, <1>13 DEF Step

\* What a step does to what runs share with the routes.
LEMMA StepOthers ==
    ASSUME TypeOK, NEW r \in Runs, Start(r) \/ Step(r)
    PROVE  /\ UNCHANGED <<asking, links>>
           /\ snortOk' \in BOOLEAN /\ errors' \in 0..MaxErrors
           /\ excused' \in BOOLEAN /\ (excused => excused')
<1>0. errors' = errors \/ (\E fault : Fails(fault)) => errors' \in 0..MaxErrors
      BY BoundsAssumption DEF TypeOK, Fails
<1>b. snortOk \in BOOLEAN /\ excused \in BOOLEAN
      BY DEF TypeOK
<1> USE <1>0, <1>b
<1>1. CASE Start(r)
      BY <1>1 DEF Start
<1>2. CASE List(r)
      BY <1>2 DEF List
<1>3. CASE ListFails(r)
      BY <1>3 DEF ListFails
<1>4. CASE GeoIp(r)
      BY <1>4 DEF GeoIp
<1>5. CASE Compare(r)
  <2>1. UNCHANGED <<snortOk, asking, links>>
        BY <1>5 DEF Compare
  <2>2. \/ UNCHANGED <<errors, excused>>
        \/ Fails("dbread") /\ excused' = TRUE
        BY <1>5 DEF Compare
  <2>3. CASE UNCHANGED <<errors, excused>>
        BY <2>1, <2>3
  <2>4. CASE Fails("dbread") /\ excused' = TRUE
        BY <2>1, <2>4
  <2> QED BY <2>2, <2>3, <2>4
<1>6. CASE Open(r) \/ OpenFails(r) \/ Fill(r) \/ FillFails(r)
      BY <1>6 DEF Open, OpenFails, Fill, FillFails
<1>7. CASE Commit(r) \/ CommitFails(r) \/ Cleanup(r)
      BY <1>7 DEF Commit, CommitFails, Cleanup
<1>8. CASE SnortStatus(r)
      BY <1>8 DEF SnortStatus
<1> QED BY <1>1, <1>2, <1>3, <1>4, <1>5, <1>6, <1>7, <1>8 DEF Step

\* It writes the file it downloads and no other; the cleanup finds no file
\* to remove.
LEMMA StepDisk ==
    ASSUME TypeOK, NEW r \in Runs, Start(r) \/ Step(r)
    PROVE  \/ disk' = disk
           \/ /\ pc[r] \in {"open", "fill"}
              /\ \E outcome \in {r, "partial", "whole"} :
                    disk' = [disk EXCEPT ![loc[r].path] = outcome]
<1>1. CASE Open(r)
      BY <1>1 DEF Open
<1>2. CASE Fill(r)
      BY <1>2 DEF Fill, Written, Result
<1>3. CASE FillFails(r)
      BY <1>3 DEF FillFails, Written
<1>4. CASE Cleanup(r)
  <2>1. OldFiles(KindOf(r)) = {}
        BY DEF OldFiles
  <2>2. disk' = [path \in Path |-> disk[path]]
        BY <1>4, <2>1 DEF Cleanup
  <2> QED BY <2>2 DEF TypeOK
<1> QED BY <1>1, <1>2, <1>3, <1>4 DEF Start, Step, List, ListFails, GeoIp, Compare,
           OpenFails, Commit, CommitFails, SnortStatus

LEMMA StepRows ==
    ASSUME TypeOK, NEW r \in Runs, Start(r) \/ Step(r)
    PROVE  rows' = rows \/ Commit(r)
BY DEF Start, Step, List, ListFails, GeoIp, Compare, Open, OpenFails, Fill, FillFails,
       CommitFails, SnortStatus, Cleanup

\* The row gets the version listed, of which there is no newer one.
LEMMA CommitRow ==
    ASSUME Typed, NEW r \in Runs, Commit(r)
    PROVE  \E row \in [ver : Version, file : Version] :
              /\ rows' = [rows EXCEPT ![KindOf(r)] = row]
              /\ row.ver <= upstream[KindOf(r)]
              /\ KindOf(r) = "4" => row.ver = upstream["4"]
              /\ KindOf(r) # "4" => row.ver = loc[r].rem /\ row.file = loc[r].rem
<1> DEFINE ver == IF KindOf(r) = "4" THEN upstream["4"] ELSE loc[r].rem
           row == [ver |-> ver, file |-> loc[r].path[2]]
<1>1. /\ TypeOK /\ KindOf(r) \in Kind /\ loc[r].rem \in Version /\ loc[r].path \in Path
      /\ pc[r] = "commit" /\ FileOfRun(r) /\ loc[r].rem <= upstream[KindOf(r)]
      BY KindOfRun DEF Typed, Shape, Commit
<1>2. upstream[KindOf(r)] \in Version /\ upstream[KindOf(r)] \in Nat
      BY <1>1, VersionFacts DEF TypeOK
<1>3. loc[r].path[2] \in Version
      BY <1>1, PathFacts, KindFacts DEF FileOfRun
<1>4. ver \in Version /\ ver <= upstream[KindOf(r)]
      BY <1>1, <1>2
<1>5. rows' = [rows EXCEPT ![KindOf(r)] = row]
      BY DEF Commit
<1>6. KindOf(r) # "4" => row.ver = loc[r].rem /\ row.file = loc[r].rem
      BY <1>1 DEF FileOfRun
<1> QED BY <1>3, <1>4, <1>5, <1>6

LEMMA TypedStep ==
    ASSUME Typed, NEW r \in Runs, Start(r) \/ Step(r)
    PROVE  Typed'
<1>1. TypeOK /\ loc[r].path \in Path /\ KindOf(r) \in Kind
      BY KindOfRun DEF Typed
<1>2. UNCHANGED upstream /\ RunMoves(r)
      BY StepMoves
<1>3. /\ pc' \in [Runs -> Steps] /\ loc' \in [Runs -> Local]
      /\ \A q \in Runs : Shape(q)'
      BY <1>2, ShapeKept
<1>4. disk' \in [Path -> Runs \cup {"absent", "partial", "whole"}]
      BY <1>1, StepDisk DEF TypeOK
<1>5. /\ rows' \in [Kind -> [ver : Version, file : Version]]
      /\ \A k \in Kind : rows'[k].ver <= upstream[k]
  <2>1. CASE rows' = rows
        BY <1>1, <2>1 DEF Typed, TypeOK
  <2>2. CASE Commit(r)
    <3>1. PICK row \in [ver : Version, file : Version] :
             /\ rows' = [rows EXCEPT ![KindOf(r)] = row]
             /\ row.ver <= upstream[KindOf(r)]
          BY <2>2, CommitRow
    <3> QED BY <1>1, <3>1 DEF Typed, TypeOK
  <2> QED BY <1>1, <2>1, <2>2, StepRows
<1> QED BY <1>1, <1>2, <1>3, <1>4, <1>5, StepOthers DEF Typed, TypeOK, Steps, Local

LEMMA FailsType ==
    ASSUME TypeOK, NEW fault, Fails(fault)
    PROVE  errors' \in 0..MaxErrors
BY BoundsAssumption DEF TypeOK, Fails

\* So do the requests, a release and a crash.
LEMMA TypedNext == Typed /\ [Next]_vars => Typed'
<1> SUFFICES ASSUME Typed, [Next]_vars PROVE Typed'
    OBVIOUS
<1>0. TypeOK
      BY DEF Typed
<1>1. ASSUME NEW r \in Runs, Start(r) \/ Step(r) PROVE Typed'
      BY <1>1, TypedStep
<1>2. ASSUME NEW k \in Kind, LinkVersion(k) PROVE Typed'
  <2>1. asking' \in [kind : Kind \cup {"none"}, ver : Version] /\ asking'.kind \in Kind
        BY <1>0, <1>2 DEF LinkVersion, TypeOK
  <2>2. \A r \in Runs : Shape(r)'
        BY <1>2 DEF LinkVersion, Typed, Shape, FileOfRun, KindOf
  <2> QED BY <1>2, <2>1, <2>2 DEF LinkVersion, Typed, TypeOK
<1>3. ASSUME NEW k \in Kind, Release(k) PROVE Typed'
  <2>1. /\ upstream' \in [Kind -> 1..MaxVersion]
        /\ \A j \in Kind : upstream[j] <= upstream'[j]
        BY <1>0, <1>3, VersionFacts DEF Release, TypeOK
  <2>2. upstream \in [Kind -> Nat] /\ upstream' \in [Kind -> Nat]
        BY <1>0, <2>1 DEF TypeOK
  <2>3. ASSUME NEW r \in Runs PROVE Shape(r)'
    <3>1. loc[r].rem \in Nat /\ KindOf(r) \in Kind /\ loc[r].rem <= upstream[KindOf(r)]
          BY <1>0, KindOfRun, VersionFacts DEF Typed, Shape
    <3>2. loc[r].rem <= upstream'[KindOf(r)]
          BY <2>1, <2>2, <3>1
    <3> QED BY <1>3, <3>2 DEF Release, Typed, Shape, FileOfRun, KindOf
  <2>4. ASSUME NEW j \in Kind PROVE rows[j].ver <= upstream'[j]
    <3>1. rows[j].ver \in Nat /\ rows[j].ver <= upstream[j]
          BY <1>0, VersionFacts DEF Typed, TypeOK
    <3> QED BY <2>1, <2>2, <3>1
  <2> QED BY <1>3, <2>1, <2>3, <2>4 DEF Release, Typed, TypeOK
<1>4. CASE LinkFile
  <2>1. asking.kind \in Kind /\ asking.ver \in Version /\ NotAsking \in [kind : {"none"}, ver : Version]
        BY <1>0, <1>4, VersionFacts DEF LinkFile, Typed, TypeOK, NotAsking
  <2>2. links' \subseteq Kind \X Version \X Version
        BY <1>0, <1>4, <2>1 DEF LinkFile, TypeOK
  <2>3. errors' \in 0..MaxErrors
        BY <1>0, <1>4, FailsType DEF LinkFile, TypeOK
  <2>4. \A r \in Runs : Shape(r)'
        BY <1>4 DEF LinkFile, Typed, Shape, FileOfRun, KindOf
  <2> QED BY <1>4, <2>1, <2>2, <2>3, <2>4 DEF LinkFile, Typed, TypeOK
<1>5. CASE Crash
  <2>1. disk' \in [Path -> Runs \cup {"absent", "partial", "whole"}]
        BY <1>0, <1>5 DEF Crash, TypeOK
  <2>2. pc' \in [Runs -> Steps] /\ loc' \in [Runs -> Local]
        BY <1>5, NoLocType DEF Crash, Steps
  <2>3. ASSUME NEW r \in Runs PROVE Shape(r)'
    <3>1. pc'[r] = "idle" /\ loc'[r] = NoLoc /\ upstream' = upstream
          BY <1>5 DEF Crash
    <3>2. Kinds[1] \in Kind
          BY KindFacts
    <3>3. 0 <= upstream[Kinds[1]]
          BY <1>0, <3>2 DEF TypeOK
    <3> QED BY <3>1, <3>3, NoLocType DEF Shape, KindOf
  <2>4. NotAsking \in [kind : {"none"}, ver : Version]
        BY VersionFacts DEF NotAsking
  <2>5. errors' \in 0..MaxErrors
        BY <1>0, <1>5, FailsType DEF Crash
  <2> QED BY <1>5, <2>1, <2>2, <2>3, <2>4, <2>5 DEF Crash, Typed, TypeOK, Steps, Local
<1>6. CASE UNCHANGED vars
  <2>1. \A r \in Runs : Shape(r)'
        BY <1>6 DEF vars, Typed, Shape, FileOfRun, KindOf
  <2> QED BY <1>6, <2>1 DEF vars, Typed, TypeOK
<1> QED BY <1>1, <1>2, <1>3, <1>4, <1>5, <1>6 DEF Next

LEMMA TypedInit == Init => Typed
<1> SUFFICES ASSUME Init PROVE Typed
    OBVIOUS
<1>1. 1 \in 1..MaxVersion /\ 0 \in Version /\ MaxErrors \in Nat
      BY VersionFacts, BoundsAssumption
<1>2. TypeOK
  <2>1. /\ upstream \in [Kind -> 1..MaxVersion]
        /\ rows \in [Kind -> [ver : Version, file : Version]]
        BY <1>1 DEF Init
  <2>2. /\ disk \in [Path -> Runs \cup {"absent", "partial", "whole"}]
        /\ snortOk \in BOOLEAN
        BY DEF Init
  <2>3. pc \in [Runs -> Steps] /\ loc \in [Runs -> Local]
        BY NoLocType DEF Init, Steps
  <2>4. asking \in [kind : Kind \cup {"none"}, ver : Version]
        BY <1>1 DEF Init, NotAsking
  <2>5. errors \in 0..MaxErrors
        BY <1>1 DEF Init
  <2>6. links \subseteq Kind \X Version \X Version /\ excused \in BOOLEAN
        BY DEF Init
  <2> QED BY <2>1, <2>2, <2>3, <2>4, <2>5, <2>6 DEF TypeOK, Steps, Local
<1>3. ASSUME NEW r \in Runs PROVE Shape(r)
  <2>1. Kinds[1] \in Kind
        BY KindFacts
  <2> QED BY <2>1, NoLocType DEF Init, Shape, KindOf
<1>4. \A k \in Kind : rows[k].ver <= upstream[k]
      BY DEF Init
<1> QED BY <1>2, <1>3, <1>4 DEF Init, Typed

\* Every reachable state has the shape TypeOK gives, whatever runs, requests,
\* vendors, network, disk and database do.  It needs Shape: a run is at GeoIP
\* tables only where GeoIP is enabled, and a request asks for enabled kinds.
THEOREM TypeCorrect == Spec => []TypeOK
<1>1. Spec => []Typed
      BY TypedInit, TypedNext, PTL DEF Spec
<1> QED BY <1>1, PTL DEF Typed

----------------------------------------------------------------------------
(* A run that is alone.                                                    *)

LEMMA RunsAreNoOutcomes == \A r \in Runs : r \notin {"absent", "partial", "whole"}
BY RunsAssumption

LEMMA OthersIdle ==
    ASSUME Typed, Alone, NEW r \in Runs, Start(r) \/ Step(r), ~excused'
    PROVE  \A q \in Runs \ {r} : pc[q] = "idle" /\ pc'[q] = "idle"
<1>1. \A q \in Runs \ {r} : pc'[q] = pc[q]
  <2>1. TypeOK
        BY DEF Typed
  <2>2. \E step \in Steps : pc' = [pc EXCEPT ![r] = step]
    <3>1. RunMoves(r)
          BY StepMoves
    <3> QED BY <3>1 DEF RunMoves, Leaves, FetchesFile, Moves, Steps
  <2> QED BY <2>1, <2>2 DEF TypeOK
<1>2. CASE Start(r)
      BY <1>1, <1>2 DEF Start
<1>3. CASE Step(r)
  <2>1. pc[r] # "idle"
        BY <1>3 DEF Step, List, ListFails, GeoIp, Compare, Open, OpenFails, Fill, FillFails,
               Commit, CommitFails, SnortStatus, Cleanup
  <2> QED BY <1>1, <2>1 DEF Alone
<1> QED BY <1>2, <1>3

\* The files of the row's version and of older ones are not touched.
LEMMA WholeKept ==
    ASSUME Typed, Safe, NEW r \in Runs, Start(r) \/ Step(r),
           NEW k \in Kind, k # "4", NEW v \in Version, v <= rows[k].ver, Whole(k, v)
    PROVE  Whole(k, v)'
<1> DEFINE path == loc[r].path
<1>1. /\ TypeOK /\ path \in Path /\ Shape(r) /\ Ahead(r)
      /\ v \in Nat /\ rows[k].ver \in Nat /\ loc[r].rem \in Nat
  <2>1. TypeOK /\ path \in Path /\ Shape(r) /\ Ahead(r) /\ loc[r].rem \in Version
        BY KindOfRun DEF Typed, Safe
  <2>2. rows[k].ver \in Version
        BY <2>1 DEF TypeOK
  <2> QED BY <2>1, <2>2, VersionFacts
<1>2. <<k, v, "full">> \in Path /\ <<k, v, "sig">> \in Path
      BY PathFacts
<1>3. CASE disk' = disk
      BY <1>3 DEF Whole
<1>4. CASE /\ pc[r] \in {"open", "fill"}
           /\ \E outcome \in {r, "partial", "whole"} : disk' = [disk EXCEPT ![path] = outcome]
  <2>1. ASSUME path[1] = k, path[3] \in {"full", "sig"} PROVE path[2] # v
    <3>1. KindOf(r) = k /\ path[2] = loc[r].rem
          BY <1>1, <1>4, <2>1 DEF Shape, FileOfRun
    <3>2. loc[r].rem > rows[k].ver
          BY <1>1, <1>4, <2>1, <3>1 DEF Ahead
    <3> QED BY <1>1, <3>1, <3>2
  <2>2. path # <<k, v, "full">> /\ path # <<k, v, "sig">>
        BY <2>1
  <2> QED BY <1>1, <1>2, <1>4, <2>2 DEF TypeOK, Whole
<1> QED BY <1>1, <1>3, <1>4, StepDisk

\* A run that leaves has nothing to know.
LEMMA LeavesAhead ==
    ASSUME TypeOK, NEW r \in Runs, Leaves(r)
    PROVE  Ahead(r)'
<1>1. CASE Moves(r, {"kind", "idle"}, Fresh)
  <2>1. pc'[r] \in {"kind", "idle"}
        BY <1>1, MovesOwn
  <2> QED BY <2>1 DEF Ahead
<1>2. CASE Moves(r, {"status", "cleanup"}, {loc[r]})
  <2>1. pc'[r] \in {"status", "cleanup"}
        BY <1>2, MovesOwn
  <2> QED BY <2>1 DEF Ahead
<1>3. ASSUME NEW path \in OtherFiles(r), Moves(r, {"open"}, Fetching(r, path)) PROVE Ahead(r)'
  <2>1. pc'[r] = "open" /\ loc'[r].path = path /\ loc'[r].at = loc[r].at
        BY <1>3, MovesToOpen
  <2>2. path[3] \in {"full", "sig"} => KindOf(r) = "4"
    <3>1. path \in Path /\ (path[1] = "snort" \/ (KindOf(r) = "4" /\ path[1] \in {"csv", "4"}))
          BY <1>3 DEF OtherFiles
    <3> QED BY <3>1, PathFacts, KindFacts
  <2> QED BY <2>1, <2>2 DEF Ahead, KindOf
<1> QED BY <1>1, <1>2, <1>3 DEF Leaves

\* It downloads only what is newer than the row.
LEMMA CompareAhead ==
    ASSUME Typed, NEW r \in Runs, Compare(r), ~excused'
    PROVE  Ahead(r)'
<1>1. TypeOK /\ rows[KindOf(r)].ver \in Version /\ rows' = rows
      BY KindOfRun DEF Typed, TypeOK, Compare
<1>2. IF rows[KindOf(r)].ver >= loc[r].rem
      THEN Continue(r)
      ELSE Download(r, <<KindOf(r), loc[r].rem, "full">>, FALSE)
      BY DEF Compare
<1>3. CASE Leaves(r)
      BY <1>1, <1>3, LeavesAhead
<1>4. CASE rows[KindOf(r)].ver < loc[r].rem /\ FetchesFile(r, "full")
  <2>1. /\ pc'[r] = "open" /\ loc'[r].path = <<KindOf(r), loc[r].rem, "full">>
        /\ loc'[r].at = loc[r].at /\ loc'[r].rem = loc[r].rem
        BY <1>1, <1>4, MovesToOpen DEF FetchesFile
  <2>2. loc[r].rem > rows[KindOf(r)].ver
    <3>1. rows[KindOf(r)].ver \in Nat /\ loc[r].rem \in Nat
          BY <1>1, KindOfRun, VersionFacts
    <3> QED BY <3>1, <1>4
  <2> QED BY <1>1, <2>1, <2>2 DEF Ahead, KindOf
<1> QED BY <1>1, <1>2, <1>3, <1>4, CompareMoves

LEMMA OpenAhead ==
    ASSUME Typed, Safe, NEW r \in Runs, Open(r)
    PROVE  Ahead(r)'
<1>1. /\ TypeOK /\ Ahead(r) /\ loc[r].path \in Path /\ rows' = rows
      /\ pc'[r] = "fill" /\ loc'[r] = loc[r] /\ pc[r] = "open"
      /\ disk' = [disk EXCEPT ![loc[r].path] = r]
      BY KindOfRun DEF Typed, TypeOK, Safe, Open, Goto
<1>2. disk'[loc[r].path] = r
      BY <1>1 DEF TypeOK
<1>3. ASSUME loc[r].path[3] = "sig"
      PROVE  disk'[<<KindOf(r), loc[r].rem, "full">>] = disk[<<KindOf(r), loc[r].rem, "full">>]
  <2>1. loc[r].path # <<KindOf(r), loc[r].rem, "full">>
        BY <1>3
  <2>2. <<KindOf(r), loc[r].rem, "full">> \in Path
        BY <1>1, KindOfRun, PathFacts
  <2> QED BY <1>1, <2>1, <2>2 DEF TypeOK
<1> QED BY <1>1, <1>2, <1>3 DEF Ahead, KindOf

\* What it has downloaded is whole: nobody else truncated it.
LEMMA FillAhead ==
    ASSUME Typed, Safe, NEW r \in Runs, Fill(r)
    PROVE  Ahead(r)'
<1> DEFINE k == KindOf(r)
           v == loc[r].rem
<1>1. /\ TypeOK /\ Ahead(r) /\ Shape(r) /\ loc[r].path \in Path /\ rows' = rows
      /\ pc[r] = "fill" /\ k \in Kind /\ v \in Version
      BY KindOfRun DEF Typed, TypeOK, Safe, Fill
<1>2. disk' = [disk EXCEPT ![loc[r].path] = Result(r)]
      BY <1>1 DEF Fill, Written, Ahead
<1>3. <<k, v, "full">> \in Path /\ <<k, v, "sig">> \in Path
      BY <1>1, PathFacts
<1>4. ASSUME k # "4", loc[r].path[3] \in {"full", "sig"}
      PROVE  /\ v > rows[k].ver
             /\ loc[r].path = <<k, v, loc[r].path[3]>>
             /\ disk'[loc[r].path] = "whole"
  <2>1. loc[r].path[1] = k /\ loc[r].path[2] = v /\ v > rows[k].ver
        BY <1>1, <1>4 DEF Ahead, Shape, FileOfRun
  <2>2. Result(r) = "whole"
        BY <1>4, <2>1 DEF Result
  <2>3. loc[r].path = <<loc[r].path[1], loc[r].path[2], loc[r].path[3]>>
        BY <1>1 DEF Path
  <2> QED BY <1>1, <1>2, <2>1, <2>2, <2>3 DEF TypeOK
<1>5. CASE /\ loc[r].path[3] = "full" /\ k # "4"
           /\ Moves(r, {"open"}, Fetching(r, <<k, v, "sig">>))
  <2>1. /\ pc'[r] = "open" /\ loc'[r].path = <<k, v, "sig">>
        /\ loc'[r].at = loc[r].at /\ loc'[r].rem = v
        BY <1>1, <1>5, MovesToOpen
  <2>2. disk'[<<k, v, "full">>] = "whole" /\ v > rows[k].ver
        BY <1>4, <1>5
  <2> QED BY <1>1, <2>1, <2>2 DEF Ahead, KindOf
<1>6. CASE /\ loc[r].path[3] \in {"full", "sig"}
           /\ k # "4" => loc[r].path[3] = "sig"
           /\ Moves(r, {"commit"}, {loc[r]})
  <2>1. pc'[r] = "commit" /\ loc'[r] = loc[r]
        BY <1>1, <1>6, MovesTo
  <2>2. ASSUME k # "4"
        PROVE  v > rows[k].ver /\ disk'[<<k, v, "full">>] = "whole" /\ disk'[<<k, v, "sig">>] = "whole"
    <3>1. v > rows[k].ver /\ disk'[<<k, v, "sig">>] = "whole" /\ loc[r].path = <<k, v, "sig">>
          BY <1>4, <1>6, <2>2
    <3>2. disk[<<k, v, "full">>] = "whole"
          BY <1>1, <1>6, <2>2 DEF Ahead
    <3>3. disk'[<<k, v, "full">>] = "whole"
      <4>1. loc[r].path # <<k, v, "full">>
            BY <3>1
      <4> QED BY <1>1, <1>2, <1>3, <3>2, <4>1 DEF TypeOK
    <3> QED BY <3>1, <3>3
  <2> QED BY <1>1, <2>1, <2>2 DEF Ahead, KindOf, Whole
<1>7. CASE Leaves(r)
      BY <1>1, <1>7, LeavesAhead
<1>8. Downloaded(r)
      BY DEF Fill
<1> QED BY <1>1, <1>5, <1>6, <1>7, <1>8, DownloadedMoves

LEMMA StepAhead ==
    ASSUME Typed, Safe, NEW r \in Runs, Start(r) \/ Step(r), ~excused'
    PROVE  Ahead(r)'
<1>0. TypeOK /\ Shape(r) /\ loc[r].path \in Path
      BY KindOfRun DEF Typed
<1>1. CASE Start(r) \/ List(r)
  <2>1. pc'[r] \in {"kind", "row"}
        BY <1>0, <1>1 DEF Start, List, Goto, TypeOK
  <2> QED BY <2>1 DEF Ahead
<1>2. CASE Leaves(r)
      BY <1>0, <1>2, LeavesAhead
<1>3. CASE GeoIp(r)
  <2>1. <<"csv", 0, "v4">> \in OtherFiles(r)
        BY <1>3, PathFacts DEF OtherFiles, GeoIp
  <2> QED BY <1>0, <1>3, <2>1, DownloadLeaves, <1>2 DEF GeoIp
<1>4. CASE ListFails(r) \/ CommitFails(r) \/ Cleanup(r)
      BY <1>0, <1>2, <1>4, ContinueLeaves DEF ListFails, CommitFails, Cleanup
<1>5. CASE OpenFails(r)
      BY <1>0, <1>2, <1>5, NotDownloadedLeaves DEF OpenFails
<1>6. CASE FillFails(r)
  <2>1. CASE KindOf(r) = "4" /\ Moves(r, {"commit"}, {loc[r]})
    <3>1. pc'[r] = "commit" /\ loc'[r] = loc[r]
          BY <1>0, <2>1, MovesTo
    <3> QED BY <2>1, <3>1 DEF Ahead, KindOf
  <2> QED BY <1>2, <1>6, <2>1, FillFailsMoves
<1>7. CASE Commit(r)
      BY <1>0, <1>2, <1>7, CommitLeaves
<1>8. CASE SnortStatus(r)
      BY <1>0, <1>2, <1>8, StayLeaves DEF SnortStatus
<1> QED BY <1>1, <1>3, <1>4, <1>5, <1>6, <1>7, <1>8, CompareAhead, OpenAhead, FillAhead DEF Step

----------------------------------------------------------------------------
(* The table, and the links answered from it.                              *)

LEMMA RowsGrow ==
    ASSUME Typed, Safe, NEW r \in Runs, Start(r) \/ Step(r)
    PROVE  \A k \in Kind : rows[k].ver <= rows'[k].ver
<1>1. /\ TypeOK /\ Ahead(r) /\ KindOf(r) \in Kind /\ loc[r].rem \in Nat
      /\ \A k \in Kind : rows[k].ver \in Nat /\ rows[k].ver <= upstream[k]
  <2>1. TypeOK /\ KindOf(r) \in Kind /\ loc[r].rem \in Version
        BY KindOfRun DEF Typed
  <2>2. \A k \in Kind : rows[k].ver \in Version
        BY <2>1 DEF TypeOK
  <2> QED BY <2>1, <2>2, VersionFacts DEF Typed, Safe
<1>2. CASE rows' = rows
      BY <1>1, <1>2
<1>3. CASE Commit(r)
  <2>1. PICK row \in [ver : Version, file : Version] :
           /\ rows' = [rows EXCEPT ![KindOf(r)] = row]
           /\ KindOf(r) = "4" => row.ver = upstream["4"]
           /\ KindOf(r) # "4" => row.ver = loc[r].rem
        BY <1>3, CommitRow
  <2>2. rows[KindOf(r)].ver <= row.ver
    <3>1. CASE KindOf(r) = "4"
          BY <1>1, <2>1, <3>1
    <3>2. CASE KindOf(r) # "4"
      <4>1. loc[r].rem > rows[KindOf(r)].ver
            BY <1>1, <1>3, <3>2 DEF Ahead, Commit
      <4> QED BY <1>1, <2>1, <3>2, <4>1
    <3> QED BY <3>1, <3>2
  <2> QED BY <1>1, <2>1, <2>2 DEF TypeOK
<1> QED BY <1>1, <1>2, <1>3, StepRows

LEMMA RowServableStep ==
    ASSUME Typed, Safe, NEW r \in Runs, Start(r) \/ Step(r), NEW k \in Kind
    PROVE  RowServable(k)'
<1>1. TypeOK /\ Ahead(r) /\ RowServable(k) /\ rows[k].ver \in Version /\ rows[k].ver \in Nat
  <2>1. TypeOK /\ Ahead(r) /\ RowServable(k)
        BY DEF Typed, Safe
  <2>2. rows[k].ver \in Version
        BY <2>1 DEF TypeOK
  <2> QED BY <2>1, <2>2, VersionFacts
<1>2. CASE rows'[k] = rows[k]
  <2>1. k # "4" /\ rows[k].ver # 0 => Whole(k, rows[k].ver) /\ rows[k].file = rows[k].ver
        BY <1>1 DEF RowServable
  <2>2. ASSUME k # "4", rows[k].ver # 0
        PROVE  disk'[<<k, rows[k].ver, "full">>] = "whole" /\ disk'[<<k, rows[k].ver, "sig">>] = "whole"
    <3>1. \A v \in Version : v <= rows[k].ver /\ Whole(k, v) =>
             disk'[<<k, v, "full">>] = "whole" /\ disk'[<<k, v, "sig">>] = "whole"
          BY <2>2, WholeKept DEF Whole
    <3> QED BY <1>1, <2>1, <2>2, <3>1
  <2> QED BY <1>2, <2>1, <2>2 DEF RowServable, Whole
<1>3. CASE rows'[k] # rows[k]
  <2>1. Commit(r)
        BY <1>1, <1>3, StepRows
  <2>2. PICK row \in [ver : Version, file : Version] :
           /\ rows' = [rows EXCEPT ![KindOf(r)] = row]
           /\ KindOf(r) # "4" => row.ver = loc[r].rem /\ row.file = loc[r].rem
        BY <2>1, CommitRow
  <2>3. KindOf(r) = k /\ rows'[k] = row
        BY <1>1, <1>3, <2>2 DEF TypeOK
  <2>4. k # "4" => Whole(k, loc[r].rem) /\ disk' = disk
        BY <1>1, <2>1, <2>3 DEF Ahead, Commit
  <2> QED BY <2>2, <2>3, <2>4 DEF RowServable, Whole
<1> QED BY <1>2, <1>3

LEMMA SafeStep ==
    ASSUME Typed, Safe, NEW r \in Runs, Start(r) \/ Step(r), ~excused'
    PROVE  Safe'
<1>1. \A q \in Runs \ {r} : pc'[q] = "idle"
      BY OthersIdle DEF Safe
<1>2. Alone'
      BY <1>1 DEF Alone
<1>3. \A q \in Runs : Ahead(q)'
  <2>1. \A q \in Runs \ {r} : Ahead(q)'
        BY <1>1 DEF Ahead
  <2> QED BY <2>1, StepAhead
<1>4. UNCHANGED <<asking, links>>
      BY StepOthers DEF Typed
<1>5. AskedBefore'
  <2>1. asking # NotAsking =>
           /\ asking.kind \in Kind /\ asking.ver # 0 /\ asking.ver <= rows[asking.kind].ver
        BY DEF Typed, Safe, AskedBefore
  <2>2. asking # NotAsking => rows[asking.kind].ver <= rows'[asking.kind].ver
        BY <2>1, RowsGrow
  <2>3. \A k \in Kind : rows[k].ver \in Nat /\ rows'[k].ver \in Nat
    <3>1. TypeOK /\ TypeOK'
          BY TypedStep DEF Typed
    <3>2. \A k \in Kind : rows[k].ver \in Version /\ rows'[k].ver \in Version
          BY <3>1 DEF TypeOK
    <3> QED BY <3>2, VersionFacts
  <2>4. asking.ver \in Nat
    <3>1. asking.ver \in Version
          BY DEF Typed, TypeOK
    <3> QED BY <3>1, VersionFacts
  <2> QED BY <1>4, <2>1, <2>2, <2>3, <2>4 DEF AskedBefore
<1>6. LinksOlder'
      BY <1>4 DEF Safe, LinksOlder
<1> QED BY <1>2, <1>3, <1>5, <1>6, RowServableStep DEF Safe

\* A request, a release: neither runs, table nor files change.
LEMMA SafeFrame ==
    ASSUME Safe, UNCHANGED <<rows, disk, pc, loc>>
    PROVE  Alone' /\ (\A k \in Kind : RowServable(k)') /\ (\A r \in Runs : Ahead(r)')
BY DEF Safe, Alone, RowServable, Ahead, Whole, KindOf

\* A crash leaves whole files whole.
LEMMA CrashKeepsWhole ==
    ASSUME Crash, NEW k \in Kind, NEW v \in Version, Whole(k, v)
    PROVE  Whole(k, v)'
BY RunsAreNoOutcomes, PathFacts DEF Crash, Whole

LEMMA SafeCrash ==
    ASSUME Typed, Safe, Crash
    PROVE  Safe'
<1>0. TypeOK
      BY DEF Typed
<1>1. \A r \in Runs : pc'[r] = "idle"
      BY DEF Crash
<1>2. Alone' /\ (\A r \in Runs : Ahead(r)') /\ AskedBefore'
      BY <1>1 DEF Alone, Ahead, AskedBefore, Crash
<1>3. ASSUME NEW k \in Kind PROVE RowServable(k)'
  <2>1. rows[k].ver \in Version
        BY <1>0 DEF TypeOK
  <2>2. \A v \in Version : Whole(k, v) =>
           disk'[<<k, v, "full">>] = "whole" /\ disk'[<<k, v, "sig">>] = "whole"
        BY CrashKeepsWhole DEF Whole
  <2>3. RowServable(k) /\ rows' = rows
        BY DEF Safe, Crash
  <2> QED BY <2>1, <2>2, <2>3 DEF RowServable, Whole
<1>4. LinksOlder'
      BY DEF Safe, LinksOlder, Crash
<1> QED BY <1>2, <1>3, <1>4 DEF Safe

\* The row read second is the first one or a newer one.
LEMMA SafeLinkFile ==
    ASSUME Typed, Safe, LinkFile
    PROVE  Safe'
<1> DEFINE k == asking.kind
           new == <<k, asking.ver, rows[k].file>>
<1>1. Alone' /\ (\A j \in Kind : RowServable(j)') /\ (\A r \in Runs : Ahead(r)')
      BY SafeFrame DEF LinkFile
<1>2. AskedBefore'
      BY DEF LinkFile, AskedBefore
<1>3. links' \subseteq links \cup {new}
      BY DEF LinkFile
<1>4. k \in Kind /\ asking.ver # 0 /\ asking.ver <= rows[k].ver
      BY DEF Typed, Safe, AskedBefore, LinkFile
<1>5. asking.ver \in Nat /\ rows[k].ver \in Nat
  <2>1. asking.ver \in Version /\ rows[k].ver \in Version
        BY <1>4 DEF Typed, TypeOK
  <2> QED BY <2>1, VersionFacts
<1>6. k # "4" => rows[k].file = rows[k].ver
      BY <1>4, <1>5 DEF Safe, RowServable
<1>7. new[1] # "4" => new[2] <= new[3]
      BY <1>4, <1>6
<1>8. LinksOlder'
      BY <1>3, <1>7 DEF Safe, LinksOlder
<1> QED BY <1>1, <1>2, <1>8 DEF Safe

LEMMA InvNext == Inv /\ [Next]_vars => Inv'
<1> SUFFICES ASSUME Inv, [Next]_vars PROVE Inv'
    OBVIOUS
<1>1. Typed /\ Typed'
      BY TypedNext DEF Inv
<1>2. SUFFICES ASSUME ~excused' PROVE Safe'
      BY <1>1 DEF Inv
<1>3. ASSUME NEW r \in Runs, Start(r) \/ Step(r) PROVE Safe'
  <2>1. ~excused
        BY <1>1, <1>2, <1>3, StepOthers DEF Typed
  <2> QED BY <1>1, <1>2, <1>3, <2>1, SafeStep DEF Inv
<1>4. ASSUME NEW k \in Kind, LinkVersion(k) PROVE Safe'
  <2>1. Safe
        BY <1>2, <1>4 DEF Inv, LinkVersion
  <2>2. rows[k].ver \in Nat
    <3>1. rows[k].ver \in Version
          BY <1>1 DEF Typed, TypeOK
    <3> QED BY <3>1, VersionFacts
  <2>3. AskedBefore'
        BY <1>4, <2>2 DEF LinkVersion, AskedBefore
  <2> QED BY <1>4, <2>1, <2>3, SafeFrame DEF LinkVersion, Safe, LinksOlder
<1>5. ASSUME NEW k \in Kind, Release(k) PROVE Safe'
  <2>1. Safe
        BY <1>2, <1>5 DEF Inv, Release
  <2>2. AskedBefore'
        BY <1>5, <2>1 DEF Release, AskedBefore, Safe
  <2> QED BY <1>5, <2>1, <2>2, SafeFrame DEF Release, Safe, LinksOlder
<1>6. CASE LinkFile
      BY <1>1, <1>2, <1>6, SafeLinkFile DEF Inv, LinkFile
<1>7. CASE Crash
      BY <1>1, <1>2, <1>7, SafeCrash DEF Inv, Crash
<1>8. CASE UNCHANGED vars
  <2>1. Safe
        BY <1>2, <1>8 DEF Inv, vars
  <2>2. AskedBefore'
        BY <1>8, <2>1 DEF vars, AskedBefore, Safe
  <2> QED BY <1>8, <2>1, <2>2, SafeFrame DEF vars, Safe, LinksOlder
<1> QED BY <1>3, <1>4, <1>5, <1>6, <1>7, <1>8 DEF Next

LEMMA InvInit == Init => Inv
<1> SUFFICES ASSUME Init PROVE Inv
    OBVIOUS
<1>1. Typed
      BY TypedInit
<1>2. Safe
      BY DEF Init, Safe, Alone, RowServable, AskedBefore, LinksOlder, Ahead
<1> QED BY <1>1, <1>2 DEF Inv

LEMMA Invariance == Spec => []Inv
BY InvInit, InvNext, PTL DEF Spec

\* What a link answers now can be downloaded, database and signature, also while
\* an update is under way, after it failed and after a crash within it, as long
\* as runs do not overlap and no read of the table fails.
THEOREM AdvertisedServed == Spec => []AdvertisedServable
<1>1. Inv => AdvertisedServable
  <2> SUFFICES ASSUME Inv, ~excused, NEW k \in Kind, k # "4", rows[k].ver # 0
               PROVE  rows[k].file \in Found(k, "full") \cap Found(k, "sig")
      BY DEF AdvertisedServable
  <2>1. rows[k].file = rows[k].ver /\ Whole(k, rows[k].ver)
        BY DEF Inv, Safe, RowServable
  <2>2. rows[k].file \in Version
        BY DEF Inv, Typed, TypeOK
  <2> QED BY <2>1, <2>2 DEF Found, Whole
<1> QED BY <1>1, Invariance, PTL

\* A link's file never comes of a version older than the one the link
\* tells, although the row may be replaced between the two statements.
THEOREM LinksNotOlder == Spec => []LinkNotOlder
<1>1. Inv => LinkNotOlder
  <2> SUFFICES ASSUME Inv, ~excused, NEW link \in links, link[1] # "4"
               PROVE  link[3] >= link[2]
      BY DEF LinkNotOlder
  <2>1. link[2] <= link[3]
        BY DEF Inv, Safe, LinksOlder
  <2>2. link[2] \in Nat /\ link[3] \in Nat
    <3>1. link[2] \in Version /\ link[3] \in Version
          BY DEF Inv, Typed, TypeOK
    <3> QED BY <3>1, VersionFacts
  <2> QED BY <2>1, <2>2
<1> QED BY <1>1, Invariance, PTL

\* The mirror never goes back to an older version of a database, whatever the
\* vendor's listing shows and wherever a run is cut off.
THEOREM VersionsAdvance == Spec => RowsAdvance
<1> DEFINE Advance == ~excused => \A k \in Kind : rows'[k].ver >= rows[k].ver
<1>1. Inv /\ [Next]_vars => [Advance]_rows
  <2> SUFFICES ASSUME Inv, [Next]_vars, ~excused, rows' # rows, NEW k \in Kind
               PROVE  rows'[k].ver >= rows[k].ver
      OBVIOUS
  <2>1. PICK r \in Runs : Start(r) \/ Step(r)
        BY DEF Next, vars, LinkVersion, Release, LinkFile, Crash
  <2>2. rows[k].ver <= rows'[k].ver
        BY <2>1, RowsGrow DEF Inv
  <2>3. rows[k].ver \in Nat /\ rows'[k].ver \in Nat
    <3>1. rows[k].ver \in Version /\ rows'[k].ver \in Version
          BY TypedNext DEF Inv, Typed, TypeOK
    <3> QED BY <3>1, VersionFacts
  <2> QED BY <2>2, <2>3
<1>2. Spec => [][Advance]_rows
      BY <1>1, Invariance, PTL DEF Spec
<1> QED BY <1>2 DEF RowsAdvance

----------------------------------------------------------------------------
(* Runs that overlap, and reads of the table that fail.                    *)

\* The row of a kind with a listing names the file of its own version.
RowNamesFile(k) == k # "4" => rows[k].file = rows[k].ver

LEMMA NamesStep ==
    ASSUME Typed, \A k \in Kind : RowNamesFile(k), [Next]_vars
    PROVE  \A k \in Kind : RowNamesFile(k)'
<1>1. CASE rows' = rows
      BY <1>1 DEF RowNamesFile
<1>2. ASSUME NEW r \in Runs, Commit(r) PROVE \A k \in Kind : RowNamesFile(k)'
  <2>1. PICK row \in [ver : Version, file : Version] :
           /\ rows' = [rows EXCEPT ![KindOf(r)] = row]
           /\ KindOf(r) # "4" => row.ver = loc[r].rem /\ row.file = loc[r].rem
        BY <1>2, CommitRow
  <2> QED BY <2>1 DEF RowNamesFile, Typed, TypeOK
<1>3. rows' = rows \/ \E r \in Runs : Commit(r)
  <2>1. ASSUME NEW r \in Runs, Start(r) \/ Step(r) PROVE rows' = rows \/ Commit(r)
        BY <2>1, StepRows DEF Typed
  <2> QED BY <2>1 DEF Next, vars, LinkVersion, Release, LinkFile, Crash
<1> QED BY <1>1, <1>2, <1>3

\* Whatever overlaps, fails or dies, the row of a database tells a version and
\* the filename of that version, and never one the vendor has not released:
\* the two columns are set by one statement, from one listing.
THEOREM RowsNameTheirFile ==
    Spec => []\A k \in Kind : RowNamesFile(k) /\ rows[k].ver <= upstream[k]
<1>1. Init => \A k \in Kind : RowNamesFile(k)
      BY DEF Init, RowNamesFile
<1>2. Typed /\ (\A k \in Kind : RowNamesFile(k)) /\ [Next]_vars => (\A k \in Kind : RowNamesFile(k))'
      BY NamesStep
<1>3. Typed /\ (\A k \in Kind : RowNamesFile(k))
      => \A k \in Kind : RowNamesFile(k) /\ rows[k].ver <= upstream[k]
      BY DEF Typed
<1>4. Inv => Typed
      BY DEF Inv
<1> QED BY <1>1, <1>2, <1>3, <1>4, Invariance, PTL DEF Spec

\* A step that takes no row of a kind back to an older version.
NoRowBack == \A k \in Kind : k # "4" => rows[k].ver <= rows'[k].ver

\* The version a request has read is still not newer than the row's.
AskedOlder ==
    asking # NotAsking /\ asking.kind # "4" => asking.ver <= rows[asking.kind].ver

LEMMA LinksOlderStep ==
    ASSUME Typed, Typed', \A k \in Kind : RowNamesFile(k), AskedOlder, LinksOlder,
           [Next]_vars, NoRowBack \/ UNCHANGED vars
    PROVE  AskedOlder' /\ LinksOlder'
<1>1. ASSUME NEW k \in Kind
      PROVE  rows[k].ver \in Nat /\ rows'[k].ver \in Nat /\ rows[k].file \in Nat
  <2>1. rows[k].ver \in Version /\ rows'[k].ver \in Version /\ rows[k].file \in Version
        BY DEF Typed, TypeOK
  <2> QED BY <2>1, VersionFacts
<1>2. asking.ver \in Nat
  <2>1. asking.ver \in Version
        BY DEF Typed, TypeOK
  <2> QED BY <2>1, VersionFacts
<1>3. CASE UNCHANGED <<asking, links>>
  <2>1. AskedOlder'
    <3>1. SUFFICES ASSUME asking # NotAsking, asking.kind # "4"
                   PROVE  asking.ver <= rows'[asking.kind].ver
          BY <1>3 DEF AskedOlder
    <3>2. asking.kind \in Kind /\ asking.ver <= rows[asking.kind].ver
          BY <3>1 DEF Typed, AskedOlder
    <3>3. rows[asking.kind].ver <= rows'[asking.kind].ver
          BY <1>1, <3>1, <3>2 DEF NoRowBack, vars
    <3> QED BY <1>1, <1>2, <3>2, <3>3
  <2> QED BY <1>3, <2>1 DEF LinksOlder
<1>4. ASSUME NEW k \in Kind, LinkVersion(k) PROVE AskedOlder' /\ LinksOlder'
  <2>1. AskedOlder'
        BY <1>1, <1>4 DEF LinkVersion, AskedOlder
  <2> QED BY <1>4, <2>1 DEF LinkVersion, LinksOlder
<1>5. CASE LinkFile
  <2> DEFINE new == <<asking.kind, asking.ver, rows[asking.kind].file>>
  <2>1. links' \subseteq links \cup {new} /\ asking' = NotAsking
        BY <1>5 DEF LinkFile
  <2>2. new[1] # "4" => new[2] <= new[3]
        BY <1>5 DEF LinkFile, Typed, AskedOlder, RowNamesFile
  <2> QED BY <2>1, <2>2 DEF AskedOlder, LinksOlder
<1>6. CASE Crash
  <2>1. asking' = NotAsking /\ links' = links
        BY <1>6 DEF Crash
  <2> QED BY <2>1 DEF AskedOlder, LinksOlder
<1>7. ASSUME NEW r \in Runs, Start(r) \/ Step(r) PROVE UNCHANGED <<asking, links>>
      BY <1>7 DEF Start, Step, List, ListFails, GeoIp, Compare, Open, OpenFails, Fill,
         FillFails, Commit, CommitFails, SnortStatus, Cleanup
<1>8. \/ UNCHANGED <<asking, links>>
      \/ \E k \in Kind : LinkVersion(k)
      \/ LinkFile \/ Crash
  <2>1. ASSUME NEW k \in Kind, Release(k) PROVE UNCHANGED <<asking, links>>
        BY <2>1 DEF Release
  <2>2. CASE UNCHANGED vars
        BY <2>2 DEF vars
  <2> QED BY <1>7, <2>1, <2>2 DEF Next
<1> QED BY <1>3, <1>4, <1>5, <1>6, <1>8

\* Also when runs overlap and reads of the table fail, a link comes of a version
\* not older than the one answered beside it, as long as no row goes back to
\* an older version: a request that reads version and filename by two
\* statements is misled by nothing else (idsLinkHandler, updateKerioHandler).
THEOREM OnlyOlderRowsMisleadLinks ==
    Spec /\ [][NoRowBack]_vars =>
        [](\A link \in links : link[1] # "4" => link[2] <= link[3])
<1>1. Init => AskedOlder /\ LinksOlder
      BY DEF Init, AskedOlder, LinksOlder
<1> DEFINE Named == \A k \in Kind : RowNamesFile(k)
<1>2. Typed /\ Typed' /\ Named /\ AskedOlder /\ LinksOlder /\ [Next]_vars /\ [NoRowBack]_vars
      => (AskedOlder /\ LinksOlder)'
      BY LinksOlderStep
<1>3. Spec => []Named
  <2>1. (\A k \in Kind : RowNamesFile(k) /\ rows[k].ver <= upstream[k]) => Named
        OBVIOUS
  <2> QED BY <2>1, RowsNameTheirFile, PTL
<1>4. Inv => Typed
      BY DEF Inv
<1>5. LinksOlder => \A link \in links : link[1] # "4" => link[2] <= link[3]
      BY DEF LinksOlder
<1> HIDE DEF Named
<1> QED BY <1>1, <1>2, <1>3, <1>4, <1>5, Invariance, PTL DEF Spec
===========================================================================
