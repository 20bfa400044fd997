-------------------------- MODULE SchedulerProofs --------------------------
(***************************************************************************)
(* Proofs about Scheduler, for any number of runs from the dashboard, any  *)
(* length of a day and any faults.                                         *)
(***************************************************************************)
EXTENDS Scheduler, TLAPS

Steps == {"idle", "plan", "sleep", "ended", "open", "ids", "hung",
          "shield", "summary", "stamp", "return"}

LEMMA DayType ==
    /\ Scheduled \in Runs /\ Buttons \subseteq Runs
    /\ Day \in Nat /\ 0 \in TimeOfDay /\ TimeOfDay \subseteq Nat
    /\ \A t \in TimeOfDay : t < Day
    /\ Times \subseteq TimeOfDay /\ None \notin TimeOfDay
BY BoundsAssumption DEF TimeOfDay, Runs

----------------------------------------------------------------------------
(* Type correctness.                                                       *)

\* A sleep ends today or, for a time that has passed, tomorrow: within a day.
LEMMA UntilType ==
    ASSUME time \in TimeOfDay, NEW t \in TimeOfDay
    PROVE  /\ Until(t) \in TimeOfDay
           /\ IF time + Until(t) < Day THEN time + Until(t) = t
              ELSE time + Until(t) - Day = t
BY BoundsAssumption DEF Until, TimeOfDay

LEMMA StatusType == {"none", "ok", "failed"} \subseteq Status
BY DEF Status

\* A result in the row keeps the shape.
LEMMA RecordType ==
    ASSUME TypeOK, NEW status \in Status, NEW owner, Record(status, owner)
    PROVE  row' \in Status /\ own' \in [Runs -> Status \cup {"other"}]
BY StatusType DEF TypeOK, Record

\* So does the end of a run.
LEMMA FinishType ==
    ASSUME TypeOK, NEW r \in Runs, Finish(r)
    PROVE  /\ pc' \in [Runs -> Steps]
           /\ own' \in [Runs -> Status \cup {"other"}]
           /\ report' \in [Runs -> Status]
BY StatusType DEF TypeOK, Finish, Goto, Steps

\* So do its steps.
LEMMA TypeStep ==
    ASSUME TypeOK, NEW r \in Runs, Step(r)
    PROVE  TypeOK'
<1> USE DEF Goto, Steps, env, sched, runs
<1>1. CASE Open(r)
  <2>1. CASE Goto(r, "ids") /\ UNCHANGED <<own, report>>
        BY <1>1, <2>1 DEF Open, TypeOK
  <2>2. CASE Finish(r)
        BY <1>1, <2>2, FinishType DEF Open, TypeOK
  <2> QED BY <1>1, <2>1, <2>2 DEF Open
<1>2. CASE Ids(r)
      BY <1>2 DEF Ids, TypeOK
<1>3. CASE Shield(r)
  <2>1. row' \in Status /\ own' \in [Runs -> Status \cup {"other"}]
    <3>1. CASE Record("ok", {r}) \/ Record("failed", {r})
          BY <3>1, RecordType, StatusType
    <3>2. CASE UNCHANGED <<row, own>>
          BY <3>2 DEF TypeOK
    <3> QED BY <1>3, <3>1, <3>2 DEF Shield
  <2>2. pc' \in [Runs -> Steps]
        BY <1>3 DEF Shield, TypeOK
  <2> QED BY <1>3, <2>1, <2>2 DEF Shield, TypeOK
<1>4. CASE Summary(r)
  <2>1. PICK status \in Status : report' = [report EXCEPT ![r] = status]
        BY <1>4, StatusType DEF Summary, TypeOK
  <2>2. report' \in [Runs -> Status]
        BY <2>1 DEF TypeOK
  <2> QED BY <1>4, <2>2 DEF Summary, TypeOK
<1>5. CASE Stamp(r)
      BY <1>5, FinishType DEF Stamp, TypeOK
<1> QED BY <1>1, <1>2, <1>3, <1>4, <1>5 DEF Step

\* And the scheduler, the clock, the form, requests and crashes.
LEMMA TypeNext == TypeOK /\ [Next]_vars => TypeOK'
<1> SUFFICES ASSUME TypeOK, [Next]_vars PROVE TypeOK'
    OBVIOUS
<1> USE DayType DEF Goto, Steps, env, sched, runs
<1>1. CASE Plan
  <2>1. PICK t \in Readable :
          IF t = None
          THEN Goto(Scheduled, "ended") /\ UNCHANGED sched
          ELSE sleep' = Until(t) /\ planned' = t /\ Goto(Scheduled, "sleep")
        BY <1>1 DEF Plan
  <2>2. t \in TimeOfDay \cup {None}
        BY DEF Readable, TypeOK
  <2>3. t # None => Until(t) \in TimeOfDay
        BY <2>2, UntilType DEF TypeOK
  <2>4. sleep' \in TimeOfDay /\ planned' \in TimeOfDay \cup {None}
        BY <2>1, <2>2, <2>3 DEF TypeOK
  <2>5. pc' \in [Runs -> Steps]
        BY <2>1 DEF TypeOK
  <2> QED BY <1>1, <2>4, <2>5 DEF Plan, TypeOK
<1>2. CASE Wake
      BY <1>2 DEF Wake, TypeOK
<1>3. ASSUME NEW r \in Runs, Step(r) PROVE TypeOK'
      BY <1>3, TypeStep
<1>4. ASSUME NEW b \in Buttons, Press(b) PROVE TypeOK'
      BY <1>4 DEF Press, TypeOK
<1>5. CASE Tick
  <2>1. time' \in TimeOfDay
        BY <1>5 DEF Tick, TypeOK, TimeOfDay
  <2>2. sleep' \in TimeOfDay
        BY <1>5 DEF Tick, TypeOK, TimeOfDay
  <2>3. pc' \in [Runs -> Steps]
        BY <1>5 DEF Tick, TypeOK
  <2> QED BY <1>5, <2>1, <2>2, <2>3 DEF Tick, TypeOK
<1>6. CASE Jump
      BY <1>6, BoundsAssumption DEF Jump, Upset, TypeOK
<1>7. CASE Post \/ Posted
      BY <1>7 DEF Post, Posted, TypeOK
<1>8. CASE Purge
      BY <1>8, RecordType, StatusType DEF Purge, TypeOK
<1>9. CASE Crash
  <2>1. /\ pc' \in [Runs -> Steps] /\ own' \in [Runs -> Status \cup {"other"}]
        /\ report' \in [Runs -> Status]
        BY <1>9, StatusType DEF Crash, TypeOK
  <2>2. upsets' \in 0..MaxUpsets
        BY <1>9, BoundsAssumption DEF Crash, Upset, TypeOK
  <2> QED BY <1>9, <2>1, <2>2 DEF Crash, TypeOK
<1>10. CASE UNCHANGED vars
      BY <1>10 DEF vars, TypeOK
<1> QED BY <1>1, <1>2, <1>3, <1>4, <1>5, <1>6, <1>7, <1>8, <1>9, <1>10 DEF Next

LEMMA TypeInit == Init => TypeOK
<1> SUFFICES ASSUME Init PROVE TypeOK
    OBVIOUS
<1>1. time \in TimeOfDay /\ schedule \in TimeOfDay \cup {None} /\ upsets \in 0..MaxUpsets
      BY DayType, BoundsAssumption DEF Init
<1>2. pc \in [Runs -> Steps]
      BY DEF Init, Steps
<1> QED BY <1>1, <1>2, DayType, StatusType DEF Init, TypeOK, Steps

\* Every reachable state has the shape TypeOK gives; a sleep never takes a day
\* or more.
THEOREM TypeCorrect == Spec => []TypeOK
BY TypeInit, TypeNext, PTL DEF Spec

----------------------------------------------------------------------------
(* When runs begin.                                                        *)

\* The scheduler is disturbed by its own steps, the clock and a crash only.
LEMMA Undisturbed ==
    ASSUME TypeOK, [Next]_vars, ~Plan, ~Tick, ~Jump, ~Crash
    PROVE  /\ UNCHANGED <<time, sleep, planned, moved>>
           /\ pc'[Scheduled] = "sleep" => pc[Scheduled] = "sleep"
<1> USE DayType DEF Goto, env, sched, runs
<1>1. CASE Wake
      BY <1>1 DEF Wake, TypeOK
<1>2. ASSUME NEW r \in Runs, Step(r)
      PROVE  /\ UNCHANGED <<time, sleep, planned, moved>>
             /\ pc'[Scheduled] = "sleep" => pc[Scheduled] = "sleep"
      BY <1>2 DEF Step, Open, Ids, Shield, Summary, Stamp, Finish, TypeOK
<1>3. ASSUME NEW b \in Buttons, Press(b)
      PROVE  /\ UNCHANGED <<time, sleep, planned, moved>>
             /\ pc'[Scheduled] = "sleep" => pc[Scheduled] = "sleep"
      BY <1>3 DEF Press, TypeOK
<1>4. CASE Post \/ Posted \/ Purge \/ UNCHANGED vars
      BY <1>4 DEF Post, Posted, Purge, vars
<1> QED BY <1>1, <1>2, <1>3, <1>4 DEF Next

LEMMA WakesNext == TypeOK /\ WakesOnSchedule /\ [Next]_vars => WakesOnSchedule'
<1> SUFFICES ASSUME TypeOK, WakesOnSchedule, [Next]_vars PROVE WakesOnSchedule'
    OBVIOUS
<1> USE DayType DEF WakesOnSchedule
<1>1. CASE Plan
  <2>1. PICK t \in Readable :
          IF t = None
          THEN Goto(Scheduled, "ended") /\ UNCHANGED sched
          ELSE sleep' = Until(t) /\ planned' = t /\ Goto(Scheduled, "sleep")
        BY <1>1 DEF Plan
  <2>2. t \in TimeOfDay \cup {None} /\ time' = time
        BY <1>1 DEF Plan, Readable, TypeOK
  <2>3. CASE t = None
        BY <2>1, <2>3 DEF Goto, TypeOK
  <2>4. CASE t # None
    <3>1. sleep' = Until(t) /\ planned' = t
          BY <2>1, <2>4
    <3> QED BY <2>2, <2>4, <3>1, UntilType DEF TypeOK
  <2> QED BY <2>3, <2>4
<1>2. CASE Tick
  <2>1. SUFFICES ASSUME pc'[Scheduled] = "sleep", ~moved'
        PROVE  IF time' + sleep' < Day THEN time' + sleep' = planned'
               ELSE time' + sleep' - Day = planned'
        OBVIOUS
  <2>2. pc[Scheduled] = "sleep" /\ ~moved /\ planned' = planned
        BY <1>2, <2>1 DEF Tick, TypeOK
  <2>3. /\ sleep # 0 /\ sleep' = sleep - 1
        /\ time' = IF time + 1 = Day THEN 0 ELSE time + 1
        BY <1>2, <2>2 DEF Tick
  <2>4. time \in 0..(Day - 1) /\ sleep \in 1..(Day - 1)
        BY <2>3 DEF TypeOK, TimeOfDay
  <2> QED BY <2>2, <2>3, <2>4
<1>3. CASE Jump
      BY <1>3 DEF Jump
<1>4. CASE Crash
      BY <1>4 DEF Crash
<1>5. CASE ~(Plan \/ Tick \/ Jump \/ Crash)
      BY <1>5, Undisturbed
<1> QED BY <1>1, <1>2, <1>3, <1>4, <1>5

\* A scheduled run begins at the time that was set when the scheduler planned
\* it, on the same day or the next, unless the clock was moved meanwhile.
THEOREM RunsOnSchedule == Spec => []WakesOnSchedule
<1>1. Init => WakesOnSchedule
      BY DayType DEF Init, WakesOnSchedule
<1> QED BY <1>1, WakesNext, TypeCorrect, PTL DEF Spec

----------------------------------------------------------------------------
(* What a run tells of itself.                                             *)

\* A result recorded for one run is another's for all that have one already.
LEMMA RecordOwn ==
    ASSUME TypeOK, NEW status \in Status, NEW owner, Record(status, owner), NEW q \in Runs \ owner
    PROVE  own'[q] = IF own[q] = "none" THEN "none" ELSE "other"
BY DEF TypeOK, Record

\* What a step of another run, or a request, does to what a run will tell.
Passive(q) ==
    /\ pc'[q] = pc[q] /\ report'[q] = report[q]
    /\ \/ own'[q] = own[q] /\ row' = row
       \/ own'[q] = (IF own[q] = "none" THEN "none" ELSE "other")

\* A run has a result only from its update to its end.  One it has recorded is
\* in the row, or no longer its own; what it then tells is that result.
Tells(q) ==
    /\ pc[q] \notin {"summary", "stamp"} => own[q] = "none"
    /\ pc[q] = "summary" /\ own[q] \in {"ok", "failed"} => row = own[q]
    /\ pc[q] = "stamp" /\ own[q] \in {"ok", "failed"} => report[q] \in {own[q], "none"}

LEMMA PassiveTells ==
    ASSUME NEW q \in Runs, Tells(q), Passive(q)
    PROVE  Tells(q)'
BY DEF Tells, Passive

\* A step gives the run itself what it tells.
LEMMA OwnTells ==
    ASSUME TypeOK, NEW r \in Runs, Tells(r), Step(r)
    PROVE  Tells(r)'
<1> USE DEF Tells, Goto, Finish
<1>1. CASE Open(r) \/ Ids(r) \/ Stamp(r)
  <2>1. CASE Finish(r)
    <3>1. own'[r] = "none"
          BY <2>1 DEF TypeOK
    <3>2. pc'[r] \notin {"summary", "stamp"}
          BY <2>1 DEF TypeOK
    <3> QED BY <3>1, <3>2
  <2>2. CASE pc[r] \in {"open", "ids"} /\ UNCHANGED own
    <3>1. pc'[r] \notin {"summary", "stamp"}
          BY <1>1, <2>2 DEF Open, Ids, Stamp, TypeOK
    <3> QED BY <2>2, <3>1
  <2> QED BY <1>1, <2>1, <2>2 DEF Open, Ids, Stamp, runs
<1>2. CASE Shield(r)
  <2>1. pc'[r] = "summary"
        BY <1>2 DEF Shield, TypeOK
  <2>2. ASSUME NEW status \in {"ok", "failed"}, Record(status, {r})
        PROVE  own'[r] = status /\ row' = status
        BY <2>2 DEF Record
  <2>3. CASE UNCHANGED <<row, own>>
        BY <1>2, <2>1, <2>3 DEF Shield
  <2> QED BY <1>2, <2>1, <2>2, <2>3 DEF Shield
<1>3. CASE Summary(r)
  <2>1. PICK status \in {row, "none"} : report' = [report EXCEPT ![r] = status]
        BY <1>3 DEF Summary
  <2>2. pc[r] = "summary" /\ pc'[r] = "stamp" /\ UNCHANGED <<row, own>>
        BY <1>3 DEF Summary, TypeOK
  <2>3. report'[r] = status
        BY <2>1 DEF TypeOK
  <2> QED BY <2>2, <2>3
<1> QED BY <1>1, <1>2, <1>3 DEF Step

\* And disturbs no other beyond what Passive allows.
LEMMA StepPassive ==
    ASSUME TypeOK, NEW r \in Runs, Step(r), NEW q \in Runs \ {r}
    PROVE  Passive(q)
<1> USE DEF Passive, Goto, Finish
<1>1. CASE Open(r) \/ Ids(r) \/ Stamp(r)
      BY <1>1 DEF Open, Ids, Stamp, TypeOK, runs
<1>2. CASE Shield(r)
  <2>1. pc'[q] = pc[q] /\ report' = report
        BY <1>2 DEF Shield, TypeOK
  <2>2. CASE Record("ok", {r}) \/ Record("failed", {r})
        BY <2>1, <2>2, RecordOwn, StatusType
  <2>3. CASE UNCHANGED <<row, own>>
        BY <2>1, <2>3
  <2> QED BY <1>2, <2>2, <2>3 DEF Shield
<1>3. CASE Summary(r)
      BY <1>3 DEF Summary, TypeOK
<1> QED BY <1>1, <1>2, <1>3 DEF Step

LEMMA TellsNext ==
    ASSUME TypeOK, [Next]_vars, \A q \in Runs : Tells(q)
    PROVE  \A q \in Runs : Tells(q)'
<1> USE DayType DEF Goto, sched, env, runs
<1>1. ASSUME NEW r \in Runs, Step(r) PROVE \A q \in Runs : Tells(q)'
  <2>1. ASSUME NEW q \in Runs \ {r} PROVE Tells(q)'
        BY <1>1, StepPassive, PassiveTells
  <2> QED BY <1>1, <2>1, OwnTells
<1>2. ASSUME NEW r \in Runs, pc[r] \notin {"summary", "stamp"},
             pc'[r] \notin {"summary", "stamp"}, \A q \in Runs \ {r} : pc'[q] = pc[q], UNCHANGED runs
      PROVE  \A q \in Runs : Tells(q)'
      BY <1>2 DEF Tells
<1>3. CASE Plan \/ Wake
      BY <1>2, <1>3 DEF Plan, Wake, TypeOK
<1>4. ASSUME NEW b \in Buttons, Press(b) PROVE \A q \in Runs : Tells(q)'
      BY <1>2, <1>4 DEF Press, TypeOK
<1>5. CASE Tick
  <2>1. \A q \in Runs : pc'[q] = pc[q] \/ (pc[q] = "return" /\ pc'[q] = "plan")
        BY <1>5 DEF Tick, TypeOK
  <2> QED BY <1>5, <2>1 DEF Tick, Tells
<1>6. CASE Jump \/ Post \/ Posted \/ UNCHANGED vars
      BY <1>6 DEF Jump, Upset, Post, Posted, vars, Tells
<1>7. CASE Purge
  <2>1. ASSUME NEW q \in Runs PROVE Passive(q)
        BY <1>7, RecordOwn, StatusType DEF Purge, Passive
  <2> QED BY <2>1, PassiveTells
<1>8. CASE Crash
      BY <1>8 DEF Crash, Tells
<1> QED BY <1>1, <1>3, <1>4, <1>5, <1>6, <1>7, <1>8 DEF Next

\* A result of Shield Matrix that a run has recorded is what its summary tells,
\* if anything, unless another result was recorded in between.  Nothing is
\* claimed of a run that recorded none: its summary tells an earlier one's.
THEOREM RecordedResultsTold == Spec => []RecordedIsTold
<1>1. Init => \A q \in Runs : Tells(q)
      BY DEF Init, Tells
<1>2. (\A q \in Runs : Tells(q)) => RecordedIsTold
      BY DEF Tells, RecordedIsTold
<1>3. TypeOK /\ (\A q \in Runs : Tells(q)) /\ [Next]_vars => (\A q \in Runs : Tells(q))'
      BY TellsNext
<1> QED BY <1>1, <1>2, <1>3, TypeCorrect, PTL DEF Spec

----------------------------------------------------------------------------
(* What stops the scheduler.                                               *)

\* A step that posts no text that does not parse, and in which the scheduler
\* does not read the schedule while the form writes it.
Orderly == None \notin posting' /\ (Plan => posting = {})

\* The scheduler goes on, with a schedule it can plan by now and later.
GoesOn ==
    /\ pc[Scheduled] \notin {"hung", "ended"}
    /\ schedule # None /\ None \notin posting

LEMMA GoesOnStep ==
    ASSUME "hang" \notin Faults, TypeOK, GoesOn, [Next]_vars, Orderly \/ UNCHANGED vars
    PROVE  GoesOn'
<1> USE DayType DEF GoesOn, Goto, env, sched, runs
<1>1. CASE Plan
  <2>1. Readable = {schedule}
        BY <1>1 DEF Orderly, Readable, Plan, vars, TypeOK
  <2>2. Goto(Scheduled, "sleep") /\ UNCHANGED <<schedule, posting>>
        BY <1>1, <2>1 DEF Plan
  <2> QED BY <2>2 DEF TypeOK
<1>2. CASE Wake
      BY <1>2 DEF Wake, TypeOK
<1>3. ASSUME NEW r \in Runs, Step(r) PROVE GoesOn'
      BY <1>3 DEF Step, Open, Ids, Shield, Summary, Stamp, Finish, TypeOK
<1>4. ASSUME NEW b \in Buttons, Press(b) PROVE GoesOn'
      BY <1>4 DEF Press, TypeOK
<1>5. CASE Tick
      BY <1>5 DEF Tick, TypeOK
<1>6. CASE Post
  <2>1. UNCHANGED <<pc, schedule>> /\ None \notin posting'
        BY <1>6 DEF Post, Orderly, vars
  <2> QED BY <2>1
<1>7. CASE Jump \/ Posted \/ Purge
      BY <1>7 DEF Jump, Upset, Posted, Purge
<1>8. CASE Crash
      BY <1>8 DEF Crash
<1>9. CASE UNCHANGED vars
      BY <1>9 DEF vars
<1> QED BY <1>1, <1>2, <1>3, <1>4, <1>5, <1>6, <1>7, <1>8, <1>9 DEF Next

\* The scheduler never ends, whatever fails in the runs, whatever is run from
\* the dashboard and however often the process dies, as long as the form posts
\* times that parse, none of them is read while it is written and every
\* download ends: the safety half of KeepsRunning, the loop of StartScheduler.
THEOREM OnlyTextsEndScheduler ==
    ASSUME "hang" \notin Faults
    PROVE  Spec /\ [][Orderly]_vars => [](pc[Scheduled] \notin {"hung", "ended"})
<1>1. Init => GoesOn
      BY DayType DEF Init, GoesOn
<1>2. TypeOK /\ GoesOn /\ [Next]_vars /\ [Orderly]_vars => GoesOn'
      BY GoesOnStep
<1>3. GoesOn => pc[Scheduled] \notin {"hung", "ended"}
      BY DEF GoesOn
<1> QED BY <1>1, <1>2, <1>3, TypeCorrect, PTL DEF Spec
=============================================================================
