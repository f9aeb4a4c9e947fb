------------------------------- MODULE Schedule -------------------------------
(***************************************************************************)
(* Scheduled prompts (packages/schedule/schedule/src): the task rows       *)
(* (store.ts), the driver with its one timer (runtime.ts), the service and *)
(* the model's tools that change rows under it (index.ts, tools.ts,        *)
(* update.ts), and the deliverer the agent loop plugs in, which starts a   *)
(* Run (client.ts, targets.ts, core/agent-loop/src/index.ts).              *)
(*                                                                         *)
(* SQLite calls are synchronous and the process is single threaded: an     *)
(* action is what the code does between two awaits.  A drive lists the due *)
(* rows once and then awaits the deliverer for each of them.               *)
(*                                                                         *)
(* Times are ticks from now and never negative: nothing asks how long a    *)
(* task is overdue but the order of the list, which is left open.  Whether *)
(* a recurring rule is an interval, daily, weekly or cron only shows in    *)
(* how far away its next occurrence is, so that is left open too.  The     *)
(* list's limit of 100 rows is above the number of tasks here.             *)
(***************************************************************************)
EXTENDS Integers

CONSTANTS Tasks,
          None,        \* no task is being delivered
          Period,      \* ticks to the furthest occurrence
          Backoff,     \* FAILURE_RETRY_DELAY_MS
          MaxDelay,    \* MAX_TIMER_DELAY_MS, the longest setTimeout
          MaxUnnoted   \* bound: starts of one task that crashes keep from being noted

ASSUME NoneAssumption == None \notin Tasks
ASSUME TicksAssumption == /\ {Period, Backoff, MaxDelay} \subseteq Nat \ {0}
                          /\ Backoff <= Period
ASSUME UnnotedAssumption == MaxUnnoted \in Nat

VARIABLES row,        \* lfaa_schedule_tasks, and whether the task has a target row
          phase,      \* of the plugin: "up", "stopping" while dispose waits, "down"
          connected,  \* the deliverer of the agent loop is plugged in
          timer,      \* ticks to the timeout, or NoTimer
          running,    \* a drive is under way
          current,    \* the task whose delivery is awaited
          receipt,    \* and what will come of it
          left,       \* the listed tasks after it
          poke,       \* a tool has changed rows and will call requestDrive
          runs        \* Runs started for the one-shot task since it was last
                      \* activated, and crashes that came before one was noted

driveVars == <<timer, running, current, receipt, left, runs>>
vars == <<row, phase, connected, poke, driveVars>>

NoTimer  == -1
Statuses == {"active", "paused", "done", "failed"}

Row == [status : Statuses \cup {"absent", "deleted"},
        once : BOOLEAN,                \* rule.kind = "at"
        due : 0 .. Period,             \* next_fire_at
        target : BOOLEAN]              \* lfaa_schedule_targets

Count  == [started : Nat, unnoted : Nat]
NoRuns == [started |-> 0, unnoted |-> 0]

SchedTypeOK ==
    /\ row \in [Tasks -> Row]
    /\ phase \in {"up", "stopping", "down"}
    /\ connected \in BOOLEAN /\ running \in BOOLEAN /\ poke \in BOOLEAN
    /\ timer \in {NoTimer} \cup 0 .. MaxDelay
    /\ current \in Tasks \cup {None}
    /\ receipt \in {"none", "ok", "error"}
    /\ left \subseteq Tasks
    /\ runs \in [Tasks -> Count]

Init ==
    /\ row = [t \in Tasks |-> [status |-> "absent", once |-> TRUE, due |-> 0, target |-> FALSE]]
    /\ phase = "down" /\ connected = FALSE /\ poke = FALSE
    /\ timer = NoTimer /\ running = FALSE
    /\ current = None /\ receipt = "none" /\ left = {}
    /\ runs = [t \in Tasks |-> NoRuns]

Exists(t)    == row[t].status \in Statuses
Active(rows) == {t \in Tasks : rows[t].status = "active"}

\* listDueTasks
Due(rows) == {t \in Active(rows) : rows[t].due = 0}

Delays(once) == (IF once THEN 0 ELSE 1) .. Period

-----------------------------------------------------------------------------
(* The driver (runtime.ts).                                                  *)

\* Mutant of Deliver: a Run is started without looking for the target.
DeliverBlindly(rows, linked, t, outcome) ==
    outcome \in IF linked THEN {"ok", "error"} ELSE {"error"}

\* The fire handler: it fails without a deliverer and without a target row,
\* which goes with its task, and may fail for reasons of the session or the
\* account.
Deliver(rows, linked, t, outcome) ==
    outcome \in IF linked /\ rows[t].target THEN {"ok", "error"} ELSE {"error"}

Counted(counts, rows, t, outcome) ==
    IF outcome = "ok" /\ rows[t].once THEN [counts EXCEPT ![t].started = @ + 1] ELSE counts

\* The loop of drive goes on to one of the listed tasks, whatever has become
\* of its row, or comes to its end.
GoOn(rows, linked, listed, counts) ==
    \/ /\ listed = {}
       /\ current' = None /\ receipt' = "none" /\ left' = {} /\ runs' = counts
    \/ \E t \in listed, outcome \in {"ok", "error"} :
       /\ Deliver(rows, linked, t, outcome)
       /\ current' = t /\ receipt' = outcome /\ left' = listed \ {t}
       /\ runs' = Counted(counts, rows, t, outcome)

Drive(rows, linked, counts) ==
    timer' = NoTimer /\ running' = TRUE /\ GoOn(rows, linked, Due(rows), counts)

\* Mutant of RequestDrive: a second drive beside the first; of the two the
\* one just begun is followed.
RequestDriveTwice(rows, linked, counts) ==
    IF phase # "up"
    THEN runs' = counts /\ UNCHANGED <<timer, running, current, receipt, left>>
    ELSE Drive(rows, linked, counts)

\* requestDrive
RequestDrive(rows, linked, counts) ==
    CASE phase # "up" -> /\ runs' = counts
                         /\ UNCHANGED <<timer, running, current, receipt, left>>
      [] phase = "up" /\ running ->
                         /\ timer' = NoTimer /\ runs' = counts
                         /\ UNCHANGED <<running, current, receipt, left>>
      [] OTHER        -> Drive(rows, linked, counts)

\* markFired and markFiredWithRetryBackoff.  The row is read again: it may be
\* gone, or recurring by now.  No update makes a rule one-shot, so the listed
\* kind, which decides on the retry, is that of the row wherever it matters.
MarkFired(t, error, d) ==
    row' = CASE ~ Exists(t)   -> row
             [] Exists(t) /\ ~ row[t].once ->
                    [row EXCEPT ![t].status = "active", ![t].due = d]
             [] Exists(t) /\ row[t].once /\ error ->
                    [row EXCEPT ![t].status = "active", ![t].due = Backoff]
             [] OTHER         -> [row EXCEPT ![t].status = "done", ![t].due = 0]

\* The awaited delivery is over: its outcome is noted and the loop goes on.
FireReturns ==
    /\ running /\ current # None
    /\ \E d \in Delays(FALSE) : MarkFired(current, receipt = "error", d)
    /\ GoOn(row', connected, IF phase = "stopping" THEN {} ELSE left, runs)
    /\ UNCHANGED <<phase, connected, poke, timer, running>>

\* scheduleNext
ScheduleNext ==
    \/ Active(row) = {} /\ timer' = NoTimer
    \/ \E t \in Active(row) :
          /\ \A u \in Active(row) : row[t].due <= row[u].due
          /\ timer' = IF row[t].due <= MaxDelay THEN row[t].due ELSE MaxDelay

\* Mutant of DriveEnds: what was listed decides on the timer.
DriveEndsUntimed ==
    /\ running /\ current = None
    /\ running' = FALSE
    /\ timer' = NoTimer
    /\ UNCHANGED <<row, phase, connected, poke, current, receipt, left, runs>>

\* The finally of requestDrive.
DriveEnds ==
    /\ running /\ current = None
    /\ running' = FALSE
    /\ IF phase = "up" THEN ScheduleNext ELSE UNCHANGED timer
    /\ UNCHANGED <<row, phase, connected, poke, current, receipt, left, runs>>

TimerFires ==
    /\ timer = 0 /\ phase = "up"
    /\ RequestDrive(row, connected, runs)
    /\ UNCHANGED <<row, phase, connected, poke>>

-----------------------------------------------------------------------------
(* The tools and the service.                                                *)

NewRow(t, once, due, target) ==
    [row EXCEPT ![t] = [status |-> "active", once |-> once, due |-> due, target |-> target]]

\* A tool's call is over before it asks for a drive (registerScheduleTools).
ByTool ==
    /\ phase \in {"up", "stopping"}
    /\ poke' = TRUE
    /\ UNCHANGED <<phase, connected, driveVars>>

\* A call of the service asks at once.
ByService(counts) ==
    /\ phase \in {"up", "stopping"}
    /\ RequestDrive(row', connected, counts)
    /\ UNCHANGED <<phase, connected, poke>>

\* schedule_create, which binds the task to its session, and create, which
\* does not.
Create(t, once, due) ==
    /\ row[t].status = "absent" /\ due \in Delays(once)
    /\ \/ row' = NewRow(t, once, due, TRUE) /\ ByTool
       \/ row' = NewRow(t, once, due, FALSE) /\ ByService(runs)

Without(S) ==
    [t \in Tasks |-> IF t \in S THEN [row[t] EXCEPT !.status = "deleted", !.target = FALSE]
                                ELSE row[t]]

\* schedule_delete and remove; removeOwnerActive.
Delete(t) ==
    /\ Exists(t)
    /\ row' = Without({t})
    /\ ByTool \/ ByService(runs)

RemoveOwnerActive ==
    /\ Active(row) # {}
    /\ row' = Without(Active(row))
    /\ ByService(runs)

\* schedule_update: only a new rule gets through, and only a recurring one.
Update(t, due) ==
    /\ row[t].status \in {"active", "paused"} /\ due \in Delays(FALSE)
    /\ row' = [row EXCEPT ![t].once = FALSE, ![t].due = due]
    /\ phase \in {"up", "stopping"}
    /\ poke' = TRUE
    /\ runs' = [runs EXCEPT ![t] = NoRuns]
    /\ UNCHANGED <<phase, connected, timer, running, current, receipt, left>>

\* A Run was started for t and that is not noted yet.
InFlight(t) == current = t /\ receipt = "ok"

\* setStatus looks at nothing; active is also how a task is activated again.
SetStatus(t, status) ==
    /\ Exists(t)
    /\ row' = [row EXCEPT ![t].status = status]
    /\ ByService(IF status = "active" /\ ~ InFlight(t) THEN [runs EXCEPT ![t] = NoRuns] ELSE runs)

\* Mutant of Poke: the tool's call forgets the driver.
PokeNobody == poke /\ poke' = FALSE /\ UNCHANGED <<row, phase, connected, driveVars>>

Poke ==
    /\ poke /\ poke' = FALSE
    /\ RequestDrive(row, connected, runs)
    /\ UNCHANGED <<row, phase, connected>>

\* setFireHandler, by the agent loop as it comes and as it goes.
SetFireHandler(linked) ==
    /\ phase = "up" /\ connected' = linked /\ connected # linked
    /\ RequestDrive(row, linked, runs)
    /\ UNCHANGED <<row, phase, poke>>

-----------------------------------------------------------------------------
(* The plugin and the process.                                               *)

\* apply and start: the agent loop, which needs the schedule, comes later.
Boot ==
    /\ phase = "down" /\ phase' = "up"
    /\ Drive(row, FALSE, runs)
    /\ UNCHANGED <<row, connected, poke>>

Dispose ==
    /\ phase = "up" /\ phase' = "stopping"
    /\ timer' = NoTimer
    /\ UNCHANGED <<row, connected, poke, running, current, receipt, left, runs>>

\* All but the rows is lost.
Lose ==
    /\ phase' = "down" /\ connected' = FALSE /\ poke' = FALSE
    /\ timer' = NoTimer /\ running' = FALSE
    /\ current' = None /\ receipt' = "none" /\ left' = {}
    /\ UNCHANGED row

Disposed == phase = "stopping" /\ ~ running /\ Lose /\ runs' = runs

\* A Run of a delivery that is awaited was started, but the row does not know.
Crash ==
    /\ phase # "down" /\ Lose
    /\ \A t \in Tasks : InFlight(t) => runs[t].unnoted < MaxUnnoted
    /\ runs' = [t \in Tasks |-> IF InFlight(t) /\ row[t].once
                               THEN [runs[t] EXCEPT !.unnoted = @ + 1] ELSE runs[t]]

Sooner(ticks) == IF ticks > 0 THEN ticks - 1 ELSE ticks

Tick ==
    /\ row' = [t \in Tasks |-> [row[t] EXCEPT !.due = Sooner(@)]]
    /\ timer' = Sooner(timer)
    /\ UNCHANGED <<phase, connected, poke, running, current, receipt, left, runs>>

-----------------------------------------------------------------------------
Calls ==
    \/ \E t \in Tasks, once \in BOOLEAN, due \in 0 .. Period : Create(t, once, due)
    \/ \E t \in Tasks, due \in 1 .. Period : Update(t, due)
    \/ \E t \in Tasks, status \in Statuses : SetStatus(t, status)
    \/ \E t \in Tasks : Delete(t)
    \/ RemoveOwnerActive

Next ==
    \/ Calls \/ FireReturns \/ DriveEnds \/ TimerFires \/ Poke
    \/ \E linked \in BOOLEAN : SetFireHandler(linked)
    \/ Boot \/ Dispose \/ Disposed \/ Crash \/ Tick

Spec == Init /\ [][Next]_vars

\* Deliveries settle, timers go off and a call that has begun ends.  Users,
\* models and the process are under no obligation.
FairSpec ==
    /\ Spec
    /\ WF_vars(FireReturns) /\ WF_vars(DriveEnds) /\ WF_vars(TimerFires) /\ WF_vars(Poke)

-----------------------------------------------------------------------------
(* Properties.                                                               *)

\* A one-shot task starts one Run for each time it is activated, whatever
\* changes its row while it is delivered and however often the driver is asked;
\* and one more for each time the process died between the start of its Run
\* and the note of it, for then the row is delivered again (runtime.ts:94-104).
OnceOnly == \A t \in Tasks : runs[t].started <= 1 + runs[t].unnoted

\* Whenever the driver rests, its timer goes off no later than the first
\* active task is due: no change of the rows leaves it asleep (requestDrive,
\* scheduleNext and the drives asked for while one was under way).
NoWakeupLost ==
    phase = "up" /\ ~ running /\ ~ poke =>
        \A t \in Active(row) : timer # NoTimer /\ timer <= row[t].due

\* No Run starts for a task that was deleted, although the list a drive works
\* through may still hold it (getScheduleTarget and ON DELETE CASCADE).
DeletedQuiet ==
    [][\A t \in Tasks :
         row[t].status = "deleted" /\ current # t /\ current' = t => receipt' # "ok"]_vars

\* A due task is delivered, or is changed, or the plugin goes down: neither
\* the failures of others nor the calls that keep coming hold it up.
DueFires ==
    \A t \in Tasks : (t \in Due(row) /\ phase = "up")
        ~> (current = t \/ t \notin Due(row) \/ phase # "up")

-----------------------------------------------------------------------------
(* A statement of the documentation that the code does not keep.             *)

\* "Pause a task (the driver does not fire it any more)" (update.ts:54).
PausedNotFired ==
    [][\A t \in Tasks : row'[t].status = "paused" /\ current' = t => current = t]_vars
=============================================================================
