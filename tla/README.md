# Kerio Mirror Go: TLA+ models and proofs

Kerio Mirror Go keeps a local mirror of what Kerio Control appliances download
from their vendors: intrusion-detection signatures, GeoIP tables, Shield Matrix
threat data, antivirus files and signed distribution images. This directory
models the parts of it in which several goroutines, the disk, the database and
the network meet. Paths are relative to the repository's root.

## 1. The system

One process (`cmd/server/main.go`): an HTTP server (echo, one goroutine per
request), a scheduler goroutine, and update goroutines the dashboard's button
starts. They share an SQLite file, the directory `mirror/`, and the `Config`
object. There are four mutexes (the Shield Matrix check, the distribution
publication, a lock per vendor path, the license and CDN fields) and no lock
over database, files and configuration together. The process may die anywhere;
what survives is the database and the disk.

| component | state | operations | what is hard | what makes it correct | module |
|---|---|---|---|---|---|
| Shield Matrix mirror (`mirror/shieldmatrix.go`) and its routes | row `shield_matrix`, `mirror/matrix/{ipv4,ipv6}`, `shieldMatrixCheckMu`, last check | `UpdateShieldMatrix` with preload, `CheckAndPurgeShieldMatrixCache`, on-demand fetch | updater, checks and fetches interleave; in-place writes; a purge racing a fetch; row and files committed apart | a check is a transaction; no stale or torn file for good; the mirror converges | `ShieldMatrix` |
| Distribution publication (`handlers/distro_signing.go`) | `mirror/distros`, `distroPublishMu`, backup files | `storeAndSignDistroAt`, `publishDistroPair`, listing | two renames must look like one; rollback that fails; crash | listed image and signature match; nothing published is lost | `DistroPublish`, `SignedPair` |
| IDS, GeoIP and Snort updates (`mirror/ids.go`, `geo.go`, `snort.go`) and link routes | table `ids_versions`, `snort_template`, files in `mirror/` | `DownloadAndUpdateIDS`, `UpdateGeoIPDatabases`, `idsLinkHandler` | runs overlap; in-place downloads; commit after files; two reads for one answer | what a link answers can be downloaded; versions do not go back; convergence | `IdsUpdate` |
| Vendor file cache (`handlers/protocol_routes.go`, `cachedVendorFileHandler`) | `mirror/antivirus`, lock per path, v3 manifest | serve, fetch, fall back, validate, expire | expiry of `versions.id` removes siblings that other locks protect | no unchecked engine is served; what is locked is there when served; an expired `versions.id` is refreshed | `VendorCache` |
| License, CDN, Web Filter key (`config/config.go`, `mirror/webfilter.go`) | `LicenseNumber`, CDN URL and expiry, table `webfilter` | set, clear, discover, fetch | an answer for an old license arrives after a new one was set | the CDN belongs to the license; a license gets its own key or is cleared | `License` |
| Scheduler and `Update` (`mirror/mirror.go`) | clock, `cfg.ScheduleTime`, `last_update`, row statuses | `StartScheduler`, `Update`, dashboard's button, summary | a sleep computed from a time of day; an edit of it; a run of any length; rows others write too | runs begin at the time set, and for ever; a run that has recorded a result tells it | `Scheduler` |
| Bitdefender proxy (`mirror/bitdefender_proxy.go`) and clean-up (`mirror/bitdefender.go`) | `mirror/bitdefender`, temporary files | validate, serve, fetch with retries, cache, remove old directories | no lock: requests on one path, and clean-ups that take the directory away | the cache holds whole files; what was fetched reaches its client; the newest directories stay | `BitdefenderProxy` |
| Pure algorithms (`compareVersion`, `parseKerioUpdate` and the parser of `ids.go`, `contains`, the retry loops) | none | one call | boundaries, two parsers of one format | equal to a definition without a loop | `Algorithms` |

### Not modelled

- `geoIPLinkHandler` for version 5: it downloads anew for every request, publishes
  by rename, keeps nothing, and answers what it has just renamed.
- The IP filter and the host router: a decision on one request from a table; a
  model would restate the table. So would one of the login cookie, which is a
  hash of the configured token and has no state of its own.
- Custom files and fallback routes: each file is downloaded in place at its own
  path, as in `IdsUpdate`, and routes only serve it.
- Registration proxy and emulation: text templates over one request.
- Page templates, log files, listen addresses, Telegram's texts, release
  scripts: formatting and input/output.
- Code that is never called: `downloadAndStoreBitdefender`,
  `replaceBitdefenderDirs`, `CleanupOldFiles`, `UpdateIDSUpdateStatus`.

`PROJECT.json` lists every component with its status, and under "hazards" what
can go wrong at which line, with the property that watches it or the reason
why none does.

## 2. Modules

A component is one module. Its instances for TLC are in `MC<Module>.tla` with a
`.cfg` per run; its theorems are in `<Module>Proofs.tla`. Operators named
`<Definition>_<Word>` are mutants: a definition as a plausible bug would have it,
used to show that a property can fail. They are no part of a specification.

In all modules a step is one access to what goroutines share: a statement on the
database, a call on a file or directory, a request's answer, a lock. Local
computation belongs to the step before it. What the environment may do wrong is
the constant `Faults`; an error path of the code is taken exactly when the fault
that leads to it is in the set. A request with its retries (`HTTPGetWithRetry`)
is one step. Versions are numbered in release order.

### ShieldMatrix

`upstream` is the vendor's version; `row` the database row (0 is the empty
string that readers return for a missing row and for an error alike); `cache`
what stands at each path. A file is the set of versions whose bytes it may hold
and who is filling it, because `DownloadShieldMatrixFile` truncates and copies
in place: two writers of one path mix their bytes, and `os.RemoveAll` unlinks a
file another goroutine still writes to, which then writes to nowhere (`fd`).

- `UpdateStart .. UpdateCommit` are `UpdateShieldMatrix`; with `Preload` its
  downloads (`Get`, `Create`, `Filled`) follow, file by file and family by family.
- `CheckStart .. CheckRecord` are `CheckAndPurgeShieldMatrixCache` under its
  mutex; `checkDue` is the TTL.
- `ServeCached`, `Miss`, `ReadUrl` are the file routes. A canonical request runs
  the check first, a legacy one does not.
- `Release`, `TtlExpires` and `Crash` are the environment. A crash keeps row and
  files, forgets the mutex, the TTL and the goroutines, and leaves files half written.

Both writers of the row replace all of it (`INSERT OR REPLACE`), and the one the
purge uses names no URL.

### DistroPublish and SignedPair

`name` is what stands at the two published names, `bak` what a publication moved
aside, `orphans` the backups a crash or a failing removal leaves behind. The
actions are the calls of `publishDistroPair`, each succeeding or failing:
`Backup`, `Publish`, `Drop`, and for the rollback `Clear`, `Unlink`, `Restore`.
`kept` and `before` are history: the upload published last, and what a
publication found. Contents are upload identifiers; that hash and signature of
an upload fit is taken for granted, that the *pair* on the disk is of one upload
is what is checked.

`SignedPair` is the abstract promise for one distribution: the listing shows a
matching pair or nothing, and an older pair never comes back. `SP` in
`DistroPublish` maps the directory to it.

### IdsUpdate

`rows` is `ids_versions`, `disk` what stands at each path (`absent`, `partial`,
`whole`, or the run that fills it). A run takes `Kinds` one after the other:
`List`, `Compare`, then `Open` and `Fill` for database and signature, `Commit`,
the Snort template for kind 5 (`SnortStatus`), `Cleanup`. Kind 4 is
`UpdateGeoIPDatabases`, whose version is the date, taken once for the name and
again for the row. `LinkVersion` and `LinkFile` are the two statements of
`idsLinkHandler` (and of the link half of `updateKerioHandler`). `links` and
`excused` are history: the links answered, and whether runs overlapped or a
failing read was taken for "no row". The Snort template is taken to be
configured and enabled. A version's file has a name of its own, as the vendor's
numbered files have.

### VendorCache

`cachedVendorFileHandler` for one directory of `mirror/antivirus`, with three
files for the three ways a file is treated: `id` (`versions.id`, which expires),
`dat` (`versions.dat.gz`, a sibling the expiry removes, with a plain fallback)
and `engine` (`bdcore.*.gzip`, validated, with a fallback through the v3
manifest). `Lock` is `lockCache` with the look at the expiry, `Glob` and `Purge`
are `removeVersionSiblings`, file by file; then `Stat`, one of the downloads,
`Write` (temporary file and rename), `Validate` or `Reject`, `Serve`, `Unlock`.
`Return` is every early return: the deferred unlock belongs to it. A crash keeps
the directory, also an engine not yet validated, and forgets locks and manifest.
`floor` is history: the version the CDN published when a request found
`versions.id` expired. That a CDN is known is given.

### License

`license` is the bare field `Config.LicenseNumber`, `licMu` its mutex, `cdn` the
discovered CDN with its expiry, `keys` the table `webfilter`, `saved` the number
in the configuration file. `LinkStart .. LinkStore` are `antivirusLinkHandler`
and `discoverKerioCDN`; `KeyStart .. KeyKeep` are `UpdateWebFilterKey`; `Submit`
and `SaveFile` are the settings form. All three end in `SetLock`, `SetWrite`,
`SetForget` when they change or clear the license. Link requests read by the
accessor, which waits for a writer (`GetLicense`); the Web Filter run and `Save`
read the field itself (`Field`) at every use, and a read that races a write may
yield `Torn`. `late` is history: an answer was stored for a license no longer
configured. A crash restarts with `saved`.

### BitdefenderProxy

`cache` is what stands at each path under `mirror/bitdefender`, `dirs` the
version directories that exist. Three ways a file is treated: `versions.id` is
never cached (an older release may have left a copy), an engine is validated
when it is found, data is not. A request is `Ask`, then `DropOldCopy` or `Stat`,
`Validate`, `Refuse` or `Serve` on a hit; `Fetch` with all its attempts; `Pass`
where nothing is cached; otherwise `Mkdir`, `CreateTemp`, `Copy` (file and
client at once), `Rename`. Each looks a path up anew, as the code does. `Scan`
and `RemoveDir` are `cleanupOldBitdefenderVersions` of any number of update
runs; a removal that fails half-way takes any of the files. Engines of one body
may be Windows ones, which the code refuses. `floor` and `fresh` are history:
what the CDN published when a request for `versions.id` came, and whether
another download was renamed to the path since its check.

The clean-up is entered only if table `bitdefender` has a version, and no code
that still runs writes it: only databases of an older release have one. The
model takes such a database. The two families of directories (`av64bit_`,
`as-thin-sdk-win-x86_64_`) are treated alike and one after the other; one is
modelled.

### Scheduler

`time` is the time of day in `Day` instants, `schedule` the field of the
configuration, `posting` a settings form that is writing it (a string read
meanwhile may be anything: `Readable`). `Plan` reads clock and schedule and
computes the sleep, `Tick` lets time pass, `Wake` starts the run. `Open`, `Ids`,
`Shield`, `Summary`, `Stamp` are `Update`, whose components have modules of
their own and are one step here; `Press` starts a run from the dashboard. The
only row that tells a failure is the one of Shield Matrix, so that is the one
followed into the summary; `Purge` is the record of a client's request there. The
form may disable the component or empty its URL between any two reads of them
(`"off"`): `Shield` then leaves row and `own` alone, `Summary` may say nothing.
`Jump` sets the wall clock, which a sleep does not notice. `moved` is history: the
clock jumped since it was read. A day has 24 hours; the change to summer time is
a jump.

### Algorithms

A state is a call and its result, so that TLC evaluates each function on every
argument within the bounds; each property compares with a definition that has no
loop. Versions are their runs of digits, listings their lines with key and
value, texts are over two letters, requests the outcomes of their attempts.

## 3. What the runs check

| run | instance | shows |
|---|---|---|
| `shield_requests` | two canonical requests, 2 versions, 1 file per family, six faults | `CheckAtomic`: the check-and-purge is one transaction. `Answered`: every request ends |
| `shield_mixed` | a preloading updater, a canonical and a legacy request, no faults | `TypeOK`; `TornHasWriter`: a part of a file has a live writer; `Converges`: after the last release, version, URL and files come to stay |
| `shield_preload` | an updater alone, 3 versions, 3 files, nine faults | `NoOlderThanRow`: no file is older than the advertised version |
| `shield_stale` | two requests | violation of `NoOlderThanRow`, see below |
| `distro_publish` | two uploaders, two uploads, up to two failing calls each, crashes | `PairMatches`, `KeptSurvives`, `FailureRestores`, `SuccessPublishes`, `UploadEnds`, and `SignedPairSpec`, the refinement |
| `ids_update` | one run, GeoIP and kind 5, 2 versions, two faults out of all seven | `AdvertisedServable`: what a link answers now can be downloaded at any moment of an update; `LinkNotOlder`, `RowsAdvance` |
| `ids_overlap` | two overlapping runs, one signed kind, one fault | `Converges`: version for good, files unless runs overlapped or a read failed |
| `vendor_cache` | two requests, 2 versions, all six faults without bound | `ServedEngineChecked`, `ServedPresent`, `ServedIdRefreshed`, `Answered` |
| `license` | a link request, a Web Filter run, a form, 2 licenses, one form post, one fault out of five | `CdnOfLicense`: no CDN of one license beside another; `KeyOrCleared`: a license comes to a key, its own unless changed during a fetch, or is cleared |
| `bitdefender_proxy` | two requests, two clean-ups, 2 directories, 2 bodies, all eight faults without bound | `CachedWhole`, `ServedChecked`, `IdFresh`, `ProxiedWhole`, `NewestKept` |
| `scheduler` | the scheduler and a run from the dashboard, a day of 3 instants, two times, one jump or crash, seven other faults without bound | `WakesOnSchedule`, `RecordedIsTold`: a recorded result is what the summary tells; `KeepsRunning` |
| `algorithms` | versions of up to 5 numbers, listings of up to 3 lines, texts of up to 5 letters, counts of -1 to 3 retries | `VersionOrder`, `ListingsAgree`, `ContainsIsSubstring`, `RetriesServe` |

Each property of a passing run has a mutant in `PROJECT.json` that TLC must
find violating it. All passing runs check deadlock but `algorithms`, where a call
returns and that is all.

**Bounds.** `MaxVersion` 2 is the least number at which something is stale, 3
the least at which it is stale twice (`shield_preload`). One file per family is
enough where properties speak of one path; `shield_preload` takes 3 to have a
first, an inner and a last one. Two processes of a kind are what mutual
exclusion, overlap and stale fills need. `MaxErrors` 2 lets one call fail and
then a call of the error path. Two licenses are what a change needs, and one post
of the form besides the clearings gives every process a change to race with.
A day of 3 instants has a time before, at and after each of two schedules, and a
run that ends in each. Two directories with one kept are what a clean-up needs
to remove one; two clean-ups and two requests what it needs to do so by a stale
listing. Five numbers of a version are one more than an appliance tells of its
own, and three lines let both keys be there and one of them twice. All the
requests of `bitdefender_proxy`, and all its clean-ups, are symmetric.
Fault sets are cut where the state space asks
for it: `shield_mixed`, whose question is the interleaving, has none, and
`shield_requests` leaves out the database's, under which `CheckAtomic` is not
claimed. In `shield_preload` the failing removal is left out, since
`UpdateShieldMatrix` only logs it and old files then stay.

**Fairness.** Every goroutine goes on: weak fairness of the steps of a run, a
request and a publication. Requests to vendors end by the client's 60 s timeout
(`utils/http.go:75`), those for antivirus files and the CDN by one of 300 s
(`handlers/protocol_routes.go:611`), except those for GeoIP tables (`mirror/geo.go:32`, `http.Get`
without a timeout), where the vendor is trusted to answer or hang up. Strong
fairness is assumed of taking a mutex only, as `sync.Mutex` hands over to a
waiter after a millisecond; in `License` it is written for a process as a whole,
of which nothing but that mutex ever disables a step. The CDN's TTL expires. A new update run starts ever again because the
scheduler loops (`mirror/mirror.go:168`), provided its time parses. In
`Scheduler` time passes, the scheduler plans and wakes, and a run's steps end,
except the download without a timeout (`hung`), from which nothing leads on.
Faults, releases, crashes and new requests are never assumed to happen. Where faults
are unbounded in number (`ShieldMatrix`), `Converges` is checked without them;
`IdsUpdate` and `License` bound their number, so convergence is checked with them.

### What the violation shows

`shield_stale`: a download that got its body before a release puts it into the
cache after another request has purged; it is served as the new version from then
on, against `handlers/protocol_routes.go:290`. `NoOlderThanRow` holds for update
runs alone (`shield_preload`), and with requests when no release falls into a
download (`OnlyReleasesMakeStale`, below).

### Further observations

Seen in the models or while writing them. Where the code does not do what one would
want of it, a property leaves that case out and its comment names it.

Shield Matrix. The purge of the canonical route records the new version by a
statement that wipes the CloudFront URL (`mirror/shieldmatrix.go:87`), so the
fetch it purged for is answered 502 until the next successful update run
(`Converges` holds because that run notices). Two overlapping *preloading* runs
can keep undoing each other.

IDS. Superseded files are never removed, although `mirror/ids.go:148` says "Cleanup
old files for this version" and `db/metadata.go:93` that the query "returns a list of
old IDS files": it compares the kind's only row with itself (`db/metadata.go:96`).
`Cleanup` models that. `AdvertisedServable` is about the file advertised now and holds
with a query that works, too, as TLC shows with `OldFiles` changed that way; that a link
answered before an update stays good would hold by the defect alone, and is not claimed.
Overlapping runs can leave an advertised file torn for as long as its version
is current (the reason for `excused`). The GeoIP archive is written to
`mirror/geo/` and the route of its link looks in `mirror/` (`mirror/geo.go:112`,
`handlers/protocol_routes.go:108`). `SplitKV` trims blanks and `parseKerioUpdate`
does not, so a listing with blanks is accepted by the one and read as version 0 by
the other; `ListingsAgree` is about listings without.

Distributions. While one is replaced, and after a crash there, neither the old nor
the new pair is listed (`SignedPair` allows the gap), though
`docs/distro-signing-v0.5.1.md:50` calls the publication atomic. A target version of
more than four numbers is offered for ever: an appliance tells four of its own.

License. The Web Filter run reads the license for the request and again for the
row, so the key of one is stored for the one entered meanwhile
(`mirror/webfilter.go:101`), and since its row now has a key none is ever fetched for
it: not the key "for the license" of `mirror/webfilter.go:16`. `KeyOrCleared` excepts
that one case (`<>~Apart`); without the exception TLC finds it violated. An answer
about an old license can clear a new one.

Antivirus. `versions.dat.gz` can be removed by a request for `versions.id` between
its download and its answer (`ServedPresent` leaves it out). The Bitdefender proxy
keeps `lastErr` of a failed attempt, so that a later success is answered 502
(`mirror/bitdefender_proxy.go:220`). It caches and sends an engine unvalidated on
a miss and validates it on the next hit, whereas the comment at line 32 says that
validation comes before the cache.

Runs. A schedule time that does not parse ends the scheduler until the process is
restarted, and so does a GeoIP server that never answers; `KeepsRunning` names
both. A clock set back gives two runs on one day. As rows of IDS are written on
success only, a failed run is announced with what the last good one left. So is one
that finds Shield Matrix without a URL, or disabled when it gets there and enabled when
the summary is written (`mirror/shieldmatrix.go:96`, `:101`; the form can do both): it
records nothing, and the summary tells the row of an earlier run. `RecordedIsTold` is
about runs that have recorded a result; of these others nothing is claimed, and
nothing could be.
`contains` takes exponential time (`ContainsIsSubstring` counts its calls).

## 4. What is proved

`tlapm` checks every leaf; the theorems hold for every value of the constants
under the named assumptions of the modules (`ProcsAssumption`,
`BoundsAssumption` and the like: identifiers are distinct, counts are positive).

`ShieldMatrixProofs`
- `TypeCorrect`. One lemma per process kind, on lemmas for the shared helpers
  (`WriteType`, `NextFileType`, `RemoveType`).
- `CheckExclusion`: `CheckExclusive` (the owner of the mutex, and it alone, is
  inside the check; no run, as the theorem says it all) is inductive relative to `TypeOK`. Steps are
  sorted into those outside the critical section and those inside it.
- `CheckTransaction`: `CheckAtomic` is inductive relative to the two: only the
  owner of the mutex writes the row, and it leaves the section as it does.
- `TornFilesHaveWriters`: `TornHasWriter` is inductive relative to `TypeOK`; the
  conjunct that matters is `loc[w].fd`, which a removal clears for every writer
  of the removed family.
- `FilesNotOlderThanRow`: `NoOlderThanRow`, for any number of versions and files and
  any faults but one, under `UpdaterAlone`: one update run at a time, no requests,
  and a removal that works, but releases at any time. A request that fetched its body
  before a release makes the property false (`shield_stale`), so does a second run,
  and `UpdateShieldMatrix` passes over a failing `RemoveAll`. Even so the property is
  not inductive: the row is written after the files, and what makes that right is
  where the run is. `Renews` says so: the row is not older than the version the
  run began with, the families are empty after their removals (`Emptied`), and from
  then on no file is older than the version the run is about to record (`NoneOlder`).
- `OnlyReleasesMakeStale`: the other half of the answer. With any number of runs and
  requests in any interleaving, and with every fault but a failing removal,
  `NoOlderThanRow` holds of a behaviour of `Spec` whose releases are `Settled`: none
  falls between the answer to a download and the end of its copy. So `shield_stale`
  shows the only way there is. `FreshInv` carries it: what a process knows is not
  newer than upstream and, once it has emptied the directories for the version it
  will record, not newer than any file (`Fresh`); since only what is published now
  gets into files (`OnlyPublished`), nobody can undo that.
- `WorkEnds`: what `Answered` and `Converges` rest on and is safety. `RunLeft` and
  `RequestLeft` count what a run or a request has left to do; its own steps lower the
  count, the others and the environment leave it where it is (a crash ends it). A
  request takes at most 11 steps, a run `6 * NFiles + 7`.

`DistroPublishProofs`
- `TypeCorrect`.
- `PairsMatch`, `NothingLost`, `FailuresRestore`, `SuccessesPublish` follow from
  `Inv == Core /\ PairMatches /\ KeptSurvives`. None is inductive alone: what a
  `Publish` of the signature does depends on what the earlier calls left under
  four names. `Core` says so: `Exclusive` (the owner of the mutex is the one
  publishing), `Shape` (what stands under each name at each step of a
  publication) and `Found` (what the backups hold is what the publication
  found). One lemma per call shows it keeps `Inv`.
- `ImplementsSignedPair`: under `RemoveCounts`, `Spec => SignedPairSpec`; each step
  is a `Publish`, `Withdraw`, `PutBack` or stutter of `SignedPair`.
- `PublicationsEnd`: the mutex is held exactly by the upload inside
  `publishDistroPair`, which has at most 13 calls left to make and never more than
  before: the safety half of `UploadEnds`.
- `NoBackupLeft`: after at most one failing call, other than the removal of a backup
  and a crash, no backup is left when the mutex is free. `Tidy` says what stands
  under the backup names at each step.

`RemoveCounts` is the honest limit: if `os.Remove` fails in a rollback after
another call failed, an image of one upload and a signature of another can
stand side by side.

`IdsUpdateProofs`, for any runs, list of kinds, versions and faults
- `TypeCorrect`, with `Typed`: no row is ahead of its vendor, and the locals of a run
  fit its step (`Shape`: it commits the version and the file it found listed).
- `AdvertisedServed` and `LinksNotOlder` follow from `Inv == Typed /\ (~excused => Safe)`.
  A link is two reads of the row and then a look at the disk, while a run truncates
  files in place; neither property is inductive. What carries them is that a run
  alone (`Alone`) only ever opens files of a version newer than the row's (`Ahead`),
  so that the files of the row's version stay whole (`RowServable`), and the version a request has read stays a lower bound for the
  row until its second read (`AskedBefore`). Overlapping runs and failing reads of
  the row set `excused`, from where nothing is claimed.
- `VersionsAdvance`: the action property `RowsAdvance`, from the same invariant: a
  commit records a version `Ahead` of the row.
- `RowsNameTheirFile`: without any exception, overlapping runs included, the row of a
  database names the file of its own version, a version that has been released.
- `OnlyOlderRowsMisleadLinks`: overlapping runs and failing reads make a link older
  than the version told beside it only by taking a row back. In a behaviour whose
  rows only advance (`NoRowBack`) `LinkNotOlder` needs no `excused`. That and the
  previous theorem say what `excused` stands for.

`VendorCacheProofs`
- `TypeCorrect`.
- `EnginesChecked`, `FilesPresent`, `IdRefreshed` follow from one invariant
  `Inv == TypeOK /\ Holds /\ \A r : Phase(r)`. `Holds` says that who is inside owns
  the lock of its path; `Phase` what a request knows at each of its steps. Two
  lemmas carry it: a step gives the request what its next phase says
  (`OwnPhase`), and takes from no other what that one knows, because their locks
  differ (`StepFrame`). The removal of siblings reaches past the locks, and is
  harmless as nothing but its absence is ever assumed of `versions.dat.gz`.
- `NoLockLeftBehind` and `WorkUnderLockEnds`: no error, early return or crash leaves a
  path locked that no request works on, and the work under a lock is at most 12 steps
  and only gets less (`Left`): the safety half of `Answered`.

`LicenseProofs`
- `TypeCorrect`.
- `CdnFollowsLicense`: `CdnOfLicense` is strengthened by `Owners` (who is between
  taking and leaving the mutex owns it) and `Agrees` (CDN and license differ only
  between `SetWrite` and `SetForget` of that owner).
- `OnlyChangesMakeCdnLate`: `CdnOfLicense` excuses a CDN stored late (`cdn.late`). As
  long as no license is changed during a discovery (`Settled`), none is, and the CDN is
  the license's whenever nobody is changing it.
- `OnlyChangesMisplaceKeys`: `UpdateWebFilterKey` reads the license a second time for
  the row the fetched key goes to. A key gets into a foreign row only if the license
  changes between the first read and the end of the store (`Apart` excludes it).
- `LicenseLockOwned`: `licenseMu` is held for writing exactly by the process between
  `SetLock` and `SetForget`; a death leaves nothing locked.

`BitdefenderProxyProofs`
- `TypeCorrect`.
- `CacheIsWhole`, `EnginesChecked`, `IdsFresh` and `AnswersReach` follow from
  `Inv == TypeOK /\ CachedWhole /\ \A r : Phase(r)`. There is no lock to lean on.
  `OwnPhase` says that a step gives its request what the next phase needs, `Frame`
  how little others can do to it: nothing but remove the file, or rename another
  to its name and so end `fresh`.
- `NewestStay`: strengthened by `DoomedOld`, that every directory a clean-up has
  still to remove has `KeepVersions` newer ones that stand. It survives another
  removal because what is removed had them too, and they are newer still
  (`Removal`), and new directories only add (`DoomedStays`).

`SchedulerProofs`
- `TypeCorrect`, with `UntilType`: a sleep is shorter than a day.
- `RunsOnSchedule`: `WakesOnSchedule` is inductive relative to it.
- `RecordedResultsTold`: `RecordedIsTold` is strengthened by `Tells`, that a run has a
  result only from its update to its end, and that one it has recorded is in the row
  when the summary reads it, or no longer its own.
- `OnlyTextsEndScheduler`: the safety half of `KeepsRunning`. Runs that fail, runs from
  the dashboard, clock changes and crashes never end the scheduler. What does is a
  posted text that does not parse, one read while it is written (`Orderly` excludes
  both), or a download that hangs.

`AlgorithmsProofs`, for versions, listings, texts and counts of any size
- Each function is a loop, written as a recursive function, that is `CHOOSE g : g =
  [i \in D |-> ... g[i - 1] ...]`. A theorem about it needs that there is such a `g`
  and what it holds, both by induction. The library's induction principles take an
  operator, which the provers cannot be given; the one used here is about a set
  (`Induction`: it has 0, and with `i` also `i + 1`), from the least element of a set
  of naturals (`WFMin`). Two shapes of loop are treated once: a search for the first
  `i` that ends it (`SearchExists`, `SearchFinds`), and one that carries a value
  through all lines (`CarryExists`, `CarrySteps`).
- `VersionsOrdered`: `VersionOrder`. The loop finds the first difference
  (`FirstDifference`), which decides between the values, as what follows weighs
  less than one place above it (`HigherPlace`, `LowerValue`).
- `OffersLeadForward`: `compareVersion` with swapped arguments gives the opposite, and
  being offered is asymmetric and transitive: an appliance that installs what it is
  offered never comes back to a version it had.
- `ListingsAgreed`: `ListingsAgree`. Line by line the strict parser has complained,
  or both have the same link and either the same version or none on the strict
  side (`Agree`, `LineParsed`).
- `FirstAnswerServed`: `RetriesServe`, by what `Attempts` returns (`AttemptsLoop`); of the
  Bitdefender proxy one direction only, as it gives up late successes.
- `ContainsSearches`: `ContainsIsSubstring`. A phrase is in a longer text exactly if
  it is in one of the two cuts (`OccursInCut`), by induction over the length; and where
  it is not, the calls double with every letter. The powers of two are a function of
  the module (`TwoTo`), since the provers have no facts about `^`.

The theorems that name a condition on the steps (`[][Settled]_vars`, `[][Orderly]_vars`,
`[][NoRowBack]_vars`, `[]Apart`) are about the behaviours of `Spec` that meet it. The
code does not enforce these conditions: the theorems say what goes wrong by nothing
else. Each leaves all other interleavings and faults in.

Only model-checked: the liveness properties (`Answered`, `Converges`, `UploadEnds`,
`KeyOrCleared`, `KeepsRunning`), as fairness is out of the prover's reach. What is safety
in `Answered`, `UploadEnds` and `KeepsRunning` is proved (`WorkEnds`,
`NoLockLeftBehind`, `WorkUnderLockEnds`, `PublicationsEnd`, `OnlyTextsEndScheduler`).
`NoOlderThanRow` without a condition has no theorem because it is false.

## 5. Plan

Every safety property a run checks is a theorem. What is worth adding:

1. `CdnOfLicense` carried over to `VendorCache`: files are fetched only from a CDN
   discovered with the license then configured.
2. A count for the runs of `IdsUpdate` as `RunLeft` is one for `ShieldMatrix`; it has to
   be lexicographic, as joining the GeoIP tables is tried again.
