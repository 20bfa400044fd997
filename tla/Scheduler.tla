----------------------------- MODULE Scheduler -----------------------------
(***************************************************************************)
(* StartScheduler and the update runs (mirror.Update) it and the           *)
(* dashboard's button start: when runs happen, and what a run tells of     *)
(* itself at its end (sendUpdateSummary, last_update).                     *)
(*                                                                         *)
(* The clock is the time of day, in instants; a day is long after a day    *)
(* more.  A run takes at least an instant, and may take days.  The wall    *)
(* clock may be set or change to summer time, which time.Sleep does not    *)
(* notice.  Of a run's components IdsUpdate, License and ShieldMatrix have *)
(* the steps; here a component is one.  Shield Matrix is the only one whose*)
(* row tells a failure: rows of IDS are only ever written on success, that *)
(* of Bitdefender never, and the rest has none.  Telegram is configured.   *)
(***************************************************************************)
EXTENDS Naturals, FiniteSets

CONSTANTS
    Scheduled,  \* the scheduler's runs
    Buttons,    \* runs started from the dashboard
    Day,        \* instants of a day
    Times,      \* the times of day the settings form is filled in with
    None,       \* no time: a text that does not parse, no run yet
    MaxUpsets,  \* bound: crashes and changes of the clock
    Faults      \* what may go wrong

(* "open": the database cannot be opened.  "hang": a download of GeoIP      *)
(* tables never ends.  "shield": the update of Shield Matrix fails.  "off":  *)
(* the form has Shield Matrix disabled or without a URL when that is read.  *)
(* "dbread", "dbwrite": that statement fails.  "race": the schedule is read *)
(* while the form writes it.  "clock": the wall clock jumps.  "crash": the  *)
(* process dies.                                                            *)
FaultKinds == {"open", "hang", "shield", "off", "dbread", "dbwrite", "race", "clock", "crash"}

ASSUME RunsAssumption == Scheduled \notin Buttons
ASSUME BoundsAssumption ==
    /\ Day \in Nat \ {0} /\ MaxUpsets \in Nat
    /\ Times \subseteq 0..(Day - 1) /\ Times # {} /\ None \notin 0..(Day - 1)
    /\ Faults \subseteq FaultKinds

VARIABLES
    time,        \* the wall clock
    schedule,    \* cfg.ScheduleTime
    posting,     \* what the settings form is writing there, if anything
    sleep,       \* the scheduler: what is left of its time.Sleep
    planned,     \* its targetTime
    pc,          \* next step of a run, of the scheduler for Scheduled
    row,         \* last_update_success of shield_matrix
    own,         \* the result a run's own update of Shield Matrix recorded;
                 \* "other" if another has been recorded since
    report,      \* what its summary says of it
    lastUpdate,  \* last_update: when a run last ended
    moved,       \* history: the clock jumped since the scheduler read it
    upsets       \* crashes and jumps so far

sched == <<sleep, planned>>
runs == <<row, own, report, lastUpdate>>
env == <<time, moved, upsets>>
vars == <<env, schedule, posting, sched, pc, runs>>

Runs == Buttons \cup {Scheduled}
TimeOfDay == 0..(Day - 1)
Status == {"none", "ok", "failed"}

Init ==
    /\ time \in TimeOfDay
    /\ schedule \in Times /\ posting = {}
    /\ sleep = 0 /\ planned = None
    /\ pc = [r \in Runs |-> IF r = Scheduled THEN "plan" ELSE "idle"]
    /\ row = "none"
    /\ own = [r \in Runs |-> "none"]
    /\ report = [r \in Runs |-> "none"]
    /\ lastUpdate = None
    /\ moved = FALSE /\ upsets = 0

Goto(r, step) == pc' = [pc EXCEPT ![r] = step]

----------------------------------------------------------------------------
(* The scheduler.                                                          *)

\* Mutant: a time that has passed today is not put off until tomorrow.
Until_Today(t) == IF time > t THEN 0 ELSE t - time

\* Mutant: the time that has just come has passed.
Until_AtLeast(t) == IF time >= t THEN t + Day - time ELSE t - time

\* From now to the next t; none when it is t.
Until(t) == IF time > t THEN t + Day - time ELSE t - time

\* What a read of the schedule yields: of one that is being written also parts
\* of the old and of the new.
Readable ==
    IF posting = {} \/ "race" \notin Faults THEN {schedule}
    ELSE {schedule, None} \cup posting

\* Mutant: a time that does not parse is tried again at once.
Plan_Retries ==
    /\ pc[Scheduled] = "plan"
    /\ \E t \in Readable :
          IF t = None
          THEN UNCHANGED <<sched, pc>>
          ELSE sleep' = Until(t) /\ planned' = t /\ Goto(Scheduled, "sleep")
    /\ moved' = FALSE
    /\ UNCHANGED <<time, upsets, schedule, posting, runs>>

\* A time that does not parse ends the scheduler.
Plan ==
    /\ pc[Scheduled] = "plan"
    /\ \E t \in Readable :
          IF t = None
          THEN Goto(Scheduled, "ended") /\ UNCHANGED sched
          ELSE sleep' = Until(t) /\ planned' = t /\ Goto(Scheduled, "sleep")
    /\ moved' = FALSE
    /\ UNCHANGED <<time, upsets, schedule, posting, runs>>

Wake ==
    /\ pc[Scheduled] = "sleep" /\ sleep = 0
    /\ Goto(Scheduled, "open")
    /\ UNCHANGED <<env, schedule, posting, sched, runs>>

\* updateHandler starts a run and does not look whether one is going on.
Press(b) ==
    /\ pc[b] = "idle"
    /\ Goto(b, "open")
    /\ UNCHANGED <<env, schedule, posting, sched, runs>>

----------------------------------------------------------------------------
(* A run.                                                                  *)

Finish(r) ==
    /\ Goto(r, IF r = Scheduled THEN "return" ELSE "idle")
    /\ own' = [own EXCEPT ![r] = "none"]
    /\ report' = [report EXCEPT ![r] = "none"]

Open(r) ==
    /\ pc[r] = "open"
    /\ \/ Goto(r, "ids") /\ UNCHANGED <<own, report>>
       \/ "open" \in Faults /\ Finish(r)
    /\ UNCHANGED <<env, schedule, posting, sched, row, lastUpdate>>

\* All that comes before Shield Matrix; http.Get has no timeout.
Ids(r) ==
    /\ pc[r] = "ids"
    /\ \/ Goto(r, "shield")
       \/ "hang" \in Faults /\ Goto(r, "hung")
    /\ UNCHANGED <<env, schedule, posting, sched, runs>>

\* A result in the row; it is then not, or no more, the own one of other runs.
Record(status, owner) ==
    /\ row' = status
    /\ own' = [r \in Runs |-> IF r \in owner THEN status
                              ELSE IF own[r] = "none" THEN "none" ELSE "other"]

\* Mutant: a failure is only logged.
Shield_Logged(r) ==
    /\ pc[r] = "shield"
    /\ Goto(r, "summary")
    /\ \/ Record("ok", {r})
       \/ /\ "shield" \in Faults
          /\ own' = [own EXCEPT ![r] = "failed"]
          /\ UNCHANGED row
       \/ {"off", "dbwrite"} \cap Faults # {} /\ UNCHANGED <<row, own>>
    /\ UNCHANGED <<env, schedule, posting, sched, report, lastUpdate>>

\* UpdateShieldMatrix.  Disabled or without a URL it leaves no result, and none
\* where the statement fails; the row keeps what it had.
Shield(r) ==
    /\ pc[r] = "shield"
    /\ Goto(r, "summary")
    /\ \/ Record("ok", {r})
       \/ "shield" \in Faults /\ Record("failed", {r})
       \/ {"off", "dbwrite"} \cap Faults # {} /\ UNCHANGED <<row, own>>
    /\ UNCHANGED <<env, schedule, posting, sched, report, lastUpdate>>

\* sendUpdateSummary: what the rows say, whoever wrote them; nothing where there
\* is no row, and of what is disabled when that is read again.
Summary(r) ==
    /\ pc[r] = "summary"
    /\ \E status \in {row} \cup {s \in {"none"} : {"off", "dbread"} \cap Faults # {}} :
          report' = [report EXCEPT ![r] = status]
    /\ Goto(r, "stamp")
    /\ UNCHANGED <<env, schedule, posting, sched, row, own, lastUpdate>>

\* saveLastUpdate, however the run went.
Stamp(r) ==
    /\ pc[r] = "stamp"
    /\ \/ lastUpdate' = time
       \/ "dbwrite" \in Faults /\ UNCHANGED lastUpdate
    /\ Finish(r)
    /\ UNCHANGED <<env, schedule, posting, sched, row>>

Step(r) == Open(r) \/ Ids(r) \/ Shield(r) \/ Summary(r) \/ Stamp(r)

----------------------------------------------------------------------------
(* Clock, form, requests, crashes.                                         *)

\* Planning takes no time and a sleep ends when it is over; a run takes time,
\* so that the clock is past what it was when the scheduler plans again.
Tick ==
    /\ pc[Scheduled] # "plan" /\ ~(pc[Scheduled] = "sleep" /\ sleep = 0)
    /\ time' = IF time + 1 = Day THEN 0 ELSE time + 1
    /\ sleep' = IF pc[Scheduled] = "sleep" THEN sleep - 1 ELSE sleep
    /\ pc' = [pc EXCEPT ![Scheduled] = IF @ = "return" THEN "plan" ELSE @]
    /\ UNCHANGED <<moved, upsets, schedule, posting, planned, runs>>

Upset(fault) ==
    /\ fault \in Faults /\ upsets < MaxUpsets
    /\ upsets' = upsets + 1

Jump ==
    /\ Upset("clock")
    /\ time' \in TimeOfDay \ {time}
    /\ moved' = TRUE
    /\ UNCHANGED <<schedule, posting, sched, pc, runs>>

\* The settings form assigns the text as it is entered.
Post ==
    /\ posting = {}
    /\ \E t \in Times \cup {None} : posting' = {t}
    /\ UNCHANGED <<env, schedule, sched, pc, runs>>

Posted ==
    /\ posting # {}
    /\ schedule' \in posting /\ posting' = {}
    /\ UNCHANGED <<env, sched, pc, runs>>

\* CheckAndPurgeShieldMatrixCache, on a client's request, has found a version.
Purge ==
    /\ Record("ok", {})
    /\ UNCHANGED <<env, schedule, posting, sched, pc, report, lastUpdate>>

\* The process dies and is started again; the configuration file has the old
\* schedule or the one being posted.
Crash ==
    /\ Upset("crash")
    /\ pc' = [r \in Runs |-> IF r = Scheduled THEN "plan" ELSE "idle"]
    /\ schedule' \in {schedule} \cup posting /\ posting' = {}
    /\ sleep' = 0 /\ planned' = None /\ moved' = FALSE
    /\ own' = [r \in Runs |-> "none"]
    /\ report' = [r \in Runs |-> "none"]
    /\ UNCHANGED <<time, row, lastUpdate>>

Next ==
    \/ Plan \/ Wake \/ \E r \in Runs : Step(r)
    \/ \E b \in Buttons : Press(b)
    \/ Tick \/ Jump \/ Post \/ Posted \/ Purge \/ Crash

Spec == Init /\ [][Next]_vars

\* Time goes on, the scheduler wakes, and what a run waits for ends by a
\* timeout, except where the code has none ("hang").
Fairness ==
    /\ WF_vars(Plan) /\ WF_vars(Wake) /\ WF_vars(Tick)
    /\ \A r \in Runs : WF_vars(Step(r))

FairSpec == Spec /\ Fairness

----------------------------------------------------------------------------
(* Properties.                                                             *)

\* The state is of the expected shape; a sleep is never longer than a day.
TypeOK ==
    /\ time \in TimeOfDay
    /\ schedule \in TimeOfDay \cup {None}
    /\ posting \subseteq TimeOfDay \cup {None}
    /\ sleep \in TimeOfDay
    /\ planned \in TimeOfDay \cup {None}
    /\ pc \in [Runs -> {"idle", "plan", "sleep", "ended", "open", "ids", "hung",
                        "shield", "summary", "stamp", "return"}]
    /\ row \in Status
    /\ own \in [Runs -> Status \cup {"other"}]
    /\ report \in [Runs -> Status]
    /\ lastUpdate \in TimeOfDay \cup {None}
    /\ moved \in BOOLEAN
    /\ upsets \in 0..MaxUpsets

\* A scheduled run begins at the time that was set when the scheduler planned
\* it, however long the run before took and whenever it ended: unless the
\* clock was moved meanwhile.
WakesOnSchedule ==
    pc[Scheduled] = "sleep" /\ ~moved =>
        IF time + sleep < Day THEN time + sleep = planned
        ELSE time + sleep - Day = planned

\* Scheduled runs come for ever, whatever fails in them and whatever is run
\* from the dashboard meanwhile: unless one hangs, or a time that does not
\* parse has ended the scheduler.
KeepsRunning ==
    \/ []<>(pc[Scheduled] = "stamp" \/ pc[Scheduled] = "return")
    \/ <>(pc[Scheduled] \in {"hung", "ended"})

\* A run that has recorded how its update of Shield Matrix went tells that in
\* its summary, a failure never as a success, unless another run or a client's
\* request has recorded a result in between.  A run that has recorded none (it
\* found the component disabled or without a URL, or the statement failed) is
\* told with what the row still says of an earlier one: of it nothing is claimed.
RecordedIsTold ==
    \A r \in Runs :
        pc[r] = "stamp" /\ own[r] \in {"ok", "failed"} => report[r] \in {own[r], "none"}
=============================================================================
