----------------------------- MODULE ScheduleProofs -----------------------------
(***************************************************************************)
(* The safety properties of Schedule for any tasks, periods and delays.    *)
(*                                                                         *)
(* That a one-shot starts one Run, but for crashes, needs to know where a  *)
(* Run that was started can still be heard of: it is in flight, or its row *)
(* is no longer active, or the row is recurring by now, or a crash made it *)
(* unheard of, which is counted; and a task still waiting in the drive's   *)
(* list has started none that is not counted so.                           *)
(***************************************************************************)
EXTENDS Schedule, TLAPS

\* A drive's variables are those of a drive, and of one.
DriveOK ==
    /\ current # None => running
    /\ current = None => left = {}
    /\ current \notin left
    /\ phase = "down" => ~ running

\* A count by which a Run may be started, and by which none may.
Free(count)    == count.started <= count.unnoted
Bounded(count) == count.started <= 1 + count.unnoted

\* Nothing is known to have been started for the one-shot row of t.
Unstarted(t) == Free(runs[t]) \/ ~ row[t].once

StartedOnce ==
    /\ OnceOnly
    /\ \A t \in Tasks : row[t].status = "active" => Unstarted(t) \/ InFlight(t)
    /\ \A t \in left : Unstarted(t)
    /\ current # None /\ receipt = "error" => Unstarted(current)

\* A row that was never made is in no list and stands for no Run.
Fresh ==
    \A t \in Tasks : row[t].status = "absent" => runs[t] = NoRuns /\ t \notin left /\ current # t

\* ON DELETE CASCADE
Targetless == \A t \in Tasks : row[t].status = "deleted" => ~ row[t].target

LEMMA CountFacts ==
    /\ NoRuns \in Count /\ Free(NoRuns)
    /\ \A n \in Count :
         /\ [n EXCEPT !.started = @ + 1] \in Count /\ [n EXCEPT !.unnoted = @ + 1] \in Count
         /\ Free(n) => Bounded(n) /\ Bounded([n EXCEPT !.started = @ + 1])
                                 /\ Free([n EXCEPT !.unnoted = @ + 1])
         /\ Bounded(n) => Free([n EXCEPT !.unnoted = @ + 1])
BY DEF Count, NoRuns, Free, Bounded

LEMMA OnceBounded ==
    /\ OnceOnly  <=> \A t \in Tasks : Bounded(runs[t])
    /\ OnceOnly' <=> \A t \in Tasks : Bounded(runs'[t])
BY DEF OnceOnly, Bounded

-----------------------------------------------------------------------------
(* Types.                                                                    *)

LEMMA DelaysTyped == ASSUME NEW once \in BOOLEAN PROVE Delays(once) \subseteq 0 .. Period
BY TicksAssumption DEF Delays

\* What the driver does with any well-formed rows and counts.
LEMMA GoOnTyped ==
    ASSUME NEW rows, NEW linked, NEW listed \in SUBSET Tasks, NEW counts \in [Tasks -> Count],
           GoOn(rows, linked, listed, counts)
    PROVE  /\ current' \in Tasks \cup {None} /\ receipt' \in {"none", "ok", "error"}
           /\ left' \subseteq Tasks /\ runs' \in [Tasks -> Count]
<1>1. CASE listed = {} /\ current' = None /\ receipt' = "none" /\ left' = {} /\ runs' = counts
      BY <1>1
<1>2. ASSUME NEW t \in listed, NEW outcome \in {"ok", "error"},
             current' = t, receipt' = outcome, left' = listed \ {t},
             runs' = Counted(counts, rows, t, outcome)
      PROVE  runs' \in [Tasks -> Count]
      BY <1>2, CountFacts DEF Counted
<1> QED  BY <1>1, <1>2 DEF GoOn

LEMMA RequestDriveTyped ==
    ASSUME SchedTypeOK, NEW rows, NEW linked, NEW counts \in [Tasks -> Count],
           RequestDrive(rows, linked, counts)
    PROVE  /\ running' \in BOOLEAN /\ timer' \in {NoTimer} \cup 0 .. MaxDelay
           /\ current' \in Tasks \cup {None} /\ receipt' \in {"none", "ok", "error"}
           /\ left' \subseteq Tasks /\ runs' \in [Tasks -> Count]
<1>1. CASE phase # "up"  BY <1>1 DEF SchedTypeOK, RequestDrive
<1>2. CASE phase = "up" /\ running  BY <1>2 DEF SchedTypeOK, RequestDrive
<1>3. CASE phase = "up" /\ ~ running
  <2>1. Drive(rows, linked, counts)  BY <1>3 DEF RequestDrive
  <2>2. Due(rows) \in SUBSET Tasks  BY DEF Due, Active
  <2> QED  BY <2>1, <2>2, GoOnTyped DEF Drive
<1> QED  BY <1>1, <1>2, <1>3

LEMMA MarkFiredTyped ==
    ASSUME SchedTypeOK, NEW t \in Tasks, NEW error, NEW d \in Delays(FALSE),
           MarkFired(t, error, d)
    PROVE  row' \in [Tasks -> Row]
<1>1. d \in 0 .. Period /\ 0 \in 0 .. Period /\ Backoff \in 0 .. Period
  <2>1. Period \in Nat /\ Backoff \in Nat /\ Backoff <= Period  BY TicksAssumption
  <2>2. d \in 0 .. Period  BY TicksAssumption DEF Delays
  <2>3. 0 \in 0 .. Period /\ Backoff \in 0 .. Period  BY <2>1
  <2> QED  BY <2>2, <2>3
<1>2. \A s \in Statuses, e \in 0 .. Period :
        [row EXCEPT ![t].status = s, ![t].due = e] \in [Tasks -> Row]
      BY DEF SchedTypeOK, Row
<1> QED  BY <1>1, <1>2 DEF MarkFired, SchedTypeOK, Statuses

LEMMA ServiceTyped ==
    ASSUME SchedTypeOK, row' \in [Tasks -> Row], NEW counts \in [Tasks -> Count],
           ByTool \/ ByService(counts)
    PROVE  SchedTypeOK'
<1>1. CASE ByTool  BY <1>1 DEF ByTool, SchedTypeOK, driveVars
<1>2. CASE ByService(counts)
  <2>1. RequestDrive(row', connected, counts)  BY <1>2 DEF ByService
  <2> QED  BY <1>2, <2>1, RequestDriveTyped DEF ByService, SchedTypeOK
<1> QED  BY <1>1, <1>2

LEMMA CallsTyped == ASSUME SchedTypeOK, Calls PROVE SchedTypeOK'
<1>1. runs \in [Tasks -> Count]  BY DEF SchedTypeOK
<1>2. ASSUME NEW t \in Tasks, NEW once \in BOOLEAN, NEW due \in 0 .. Period, Create(t, once, due)
      PROVE  SchedTypeOK'
  <2>1. ASSUME NEW target \in BOOLEAN  PROVE NewRow(t, once, due, target) \in [Tasks -> Row]
        BY DEF NewRow, SchedTypeOK, Row, Statuses
  <2>2. row' \in [Tasks -> Row]  BY <1>2, <2>1 DEF Create
  <2> QED  BY <1>1, <1>2, <2>2, ServiceTyped DEF Create
<1>3. ASSUME NEW t \in Tasks, NEW due \in 1 .. Period, Update(t, due)  PROVE SchedTypeOK'
  <2>1. due \in 0 .. Period /\ NoRuns \in Count  BY TicksAssumption, CountFacts
  <2> QED  BY <1>3, <2>1 DEF Update, SchedTypeOK, Row
<1>4. ASSUME NEW t \in Tasks, NEW status \in Statuses, SetStatus(t, status)  PROVE SchedTypeOK'
  <2>1. row' \in [Tasks -> Row]  BY <1>4 DEF SetStatus, SchedTypeOK, Row
  <2>2. (IF status = "active" /\ ~ InFlight(t) THEN [runs EXCEPT ![t] = NoRuns] ELSE runs)
          \in [Tasks -> Count]
        BY <1>1, CountFacts
  <2> QED  BY <1>4, <2>1, <2>2, ServiceTyped DEF SetStatus
<1>5. \A S : Without(S) \in [Tasks -> Row]  BY DEF Without, SchedTypeOK, Row
<1>6. ASSUME NEW t \in Tasks, Delete(t)  PROVE SchedTypeOK'
      BY <1>1, <1>5, <1>6, ServiceTyped DEF Delete
<1>7. ASSUME RemoveOwnerActive  PROVE SchedTypeOK'
      BY <1>1, <1>5, <1>7, ServiceTyped DEF RemoveOwnerActive
<1> QED  BY <1>2, <1>3, <1>4, <1>6, <1>7 DEF Calls

LEMMA FireReturnsTyped == ASSUME SchedTypeOK, FireReturns PROVE SchedTypeOK'
<1>1. PICK d \in Delays(FALSE) : MarkFired(current, receipt = "error", d)  BY DEF FireReturns
<1>2. current \in Tasks  BY DEF FireReturns, SchedTypeOK
<1>3. row' \in [Tasks -> Row]  BY <1>1, <1>2, MarkFiredTyped
<1> DEFINE listed == IF phase = "stopping" THEN {} ELSE left
<1>4. listed \in SUBSET Tasks /\ runs \in [Tasks -> Count]  BY DEF SchedTypeOK
<1>5. GoOn(row', connected, listed, runs)  BY DEF FireReturns
<1> QED  BY <1>3, <1>4, <1>5, GoOnTyped DEF FireReturns, SchedTypeOK

LEMMA NextTyped == ASSUME SchedTypeOK, [Next]_vars PROVE SchedTypeOK'
<1>1. runs \in [Tasks -> Count]  BY DEF SchedTypeOK
<1>2. CASE Calls  BY <1>2, CallsTyped
<1>3. CASE FireReturns  BY <1>3, FireReturnsTyped
<1>4. CASE DriveEnds
  <2>1. timer' \in {NoTimer} \cup 0 .. MaxDelay
    <3>1. CASE ScheduleNext
      <4>1. \A t \in Tasks : row[t].due \in Nat  BY TicksAssumption DEF SchedTypeOK, Row
      <4> QED  BY <3>1, <4>1, TicksAssumption DEF ScheduleNext, Active
    <3> QED  BY <1>4, <3>1 DEF DriveEnds, SchedTypeOK
  <2> QED  BY <1>4, <2>1 DEF DriveEnds, SchedTypeOK
<1>5. CASE TimerFires  BY <1>1, <1>5, RequestDriveTyped DEF TimerFires, SchedTypeOK
<1>6. CASE Poke  BY <1>1, <1>6, RequestDriveTyped DEF Poke, SchedTypeOK
<1>7. ASSUME NEW linked \in BOOLEAN, SetFireHandler(linked)  PROVE SchedTypeOK'
      BY <1>1, <1>7, RequestDriveTyped DEF SetFireHandler, SchedTypeOK
<1>8. CASE Boot
  <2>1. Due(row) \in SUBSET Tasks  BY DEF Due, Active
  <2> QED  BY <1>1, <1>8, <2>1, GoOnTyped DEF Boot, Drive, SchedTypeOK
<1>9. CASE Dispose  BY <1>9 DEF Dispose, SchedTypeOK
<1>10. CASE Disposed  BY <1>10 DEF Disposed, Lose, SchedTypeOK
<1>11. CASE Crash
  <2>1. runs' \in [Tasks -> Count]  BY <1>1, <1>11, CountFacts DEF Crash
  <2> QED  BY <1>11, <2>1 DEF Crash, Lose, SchedTypeOK
<1>12. CASE Tick
  <2>1. \A k \in 0 .. Period : Sooner(k) \in 0 .. Period  BY TicksAssumption DEF Sooner
  <2>2. \A k \in {NoTimer} \cup 0 .. MaxDelay : Sooner(k) \in {NoTimer} \cup 0 .. MaxDelay
        BY TicksAssumption DEF Sooner, NoTimer
  <2>3. row' \in [Tasks -> Row]  BY <1>12, <2>1 DEF Tick, SchedTypeOK, Row
  <2>4. timer' \in {NoTimer} \cup 0 .. MaxDelay  BY <1>12, <2>2 DEF Tick, SchedTypeOK
  <2> QED  BY <1>12, <2>3, <2>4 DEF Tick, SchedTypeOK
<1>13. CASE UNCHANGED vars  BY <1>13 DEF vars, driveVars, SchedTypeOK
<1> QED  BY <1>2, <1>3, <1>4, <1>5, <1>6, <1>7, <1>8, <1>9, <1>10, <1>11, <1>12, <1>13 DEF Next

LEMMA InitTyped == Init => SchedTypeOK
<1> SUFFICES ASSUME Init  PROVE SchedTypeOK
    OBVIOUS
<1>1. 0 \in 0 .. Period  BY TicksAssumption
<1>2. row \in [Tasks -> Row]  BY <1>1 DEF Init, Row
<1>3. runs \in [Tasks -> Count]  BY CountFacts DEF Init
<1>4. current \in Tasks \cup {None} /\ timer \in {NoTimer} \cup 0 .. MaxDelay  BY DEF Init
<1> QED  BY <1>2, <1>3, <1>4 DEF Init, SchedTypeOK

\* Every variable of the driver and every row keeps its type.
THEOREM SchedTypeCorrect == Spec => []SchedTypeOK
BY InitTyped, NextTyped, PTL DEF Spec

-----------------------------------------------------------------------------
(* One Run.                                                                  *)

\* Going on in a list of tasks that have started nothing, with the rows and
\* the counts as the step leaves them.
LEMMA GoOnOnce ==
    ASSUME NEW linked, NEW listed \in SUBSET Tasks, NEW counts,
           row' \in [Tasks -> Row], counts \in [Tasks -> Count],
           GoOn(row', linked, listed, counts), running', phase' # "down",
           \A t \in Tasks : Bounded(counts[t]),
           \A t \in listed : Free(counts[t]) \/ ~ row'[t].once,
           \A t \in Tasks : row'[t].status = "active" => Free(counts[t]) \/ ~ row'[t].once
    PROVE  DriveOK' /\ StartedOnce'
<1> SUFFICES ASSUME TRUE PROVE DriveOK' /\ StartedOnce'
    OBVIOUS
<1>1. CASE listed = {} /\ current' = None /\ receipt' = "none" /\ left' = {} /\ runs' = counts
      BY <1>1, OnceBounded DEF DriveOK, StartedOnce, Unstarted
<1>2. ASSUME NEW t \in listed, NEW outcome \in {"ok", "error"},
             current' = t, receipt' = outcome, left' = listed \ {t},
             runs' = Counted(counts, row', t, outcome)
      PROVE  DriveOK' /\ StartedOnce'
  <2>1. DriveOK'  BY <1>2, NoneAssumption DEF DriveOK
  <2>2. \A u \in Tasks : u # t => runs'[u] = counts[u]  BY <1>2 DEF Counted
  <2>3. Bounded(runs'[t])  BY <1>2, CountFacts DEF Counted
  <2>4. outcome = "error" => runs'[t] = counts[t]  BY <1>2 DEF Counted
  <2>5. ~ row'[t].once => runs'[t] = counts[t]  BY <1>2 DEF Counted
  <2>6. OnceOnly'
    <3>1. \A u \in Tasks : Bounded(runs'[u])  BY <2>2, <2>3
    <3> QED  BY <3>1, OnceBounded
  <2>7. \A u \in Tasks : row'[u].status = "active" => Unstarted(u)' \/ InFlight(u)'
        BY <1>2, <2>2, <2>4 DEF Unstarted, InFlight
  <2>8. \A u \in left' : Unstarted(u)'  BY <1>2, <2>2 DEF Unstarted
  <2>9. receipt' = "error" => Unstarted(t)'  BY <1>2, <2>4 DEF Unstarted
  <2>10. current' # None /\ receipt' = "error" => Unstarted(current)'  BY <1>2, <2>9 DEF Unstarted
  <2> QED  BY <2>1, <2>6, <2>7, <2>8, <2>10 DEF StartedOnce
<1> QED  BY <1>1, <1>2 DEF GoOn

\* What RequestDrive makes of rows and counts that keep the invariant for the
\* drive there is.
LEMMA RequestDriveOnce ==
    ASSUME SchedTypeOK, DriveOK, NEW linked, NEW counts,
           row' \in [Tasks -> Row], counts \in [Tasks -> Count],
           RequestDrive(row', linked, counts), phase' = phase,
           \A t \in Tasks : Bounded(counts[t]),
           \A t \in Tasks : row'[t].status = "active"
                               => Free(counts[t]) \/ ~ row'[t].once \/ InFlight(t),
           \A t \in left : Free(counts[t]) \/ ~ row'[t].once,
           current # None /\ receipt = "error" => Free(counts[current]) \/ ~ row'[current].once
    PROVE  DriveOK' /\ StartedOnce'
<1>1. CASE UNCHANGED <<running, current, receipt, left>> /\ runs' = counts
  <2>1. DriveOK'  BY <1>1 DEF DriveOK
  <2>2. \A t \in Tasks : InFlight(t)' = InFlight(t)  BY <1>1 DEF InFlight
  <2>3. OnceOnly'  BY <1>1, OnceBounded
  <2>4. \A t \in Tasks : row'[t].status = "active" => Unstarted(t)' \/ InFlight(t)'
        BY <1>1, <2>2 DEF Unstarted
  <2>5. \A t \in left' : Unstarted(t)'  BY <1>1 DEF Unstarted
  <2>6. current' # None /\ receipt' = "error" => Unstarted(current)'  BY <1>1 DEF Unstarted
  <2> QED  BY <2>1, <2>3, <2>4, <2>5, <2>6 DEF StartedOnce
<1>2. CASE phase = "up" /\ ~ running
  <2>1. Drive(row', linked, counts)  BY <1>2 DEF RequestDrive
  <2>2. current = None /\ left = {}  BY <1>2 DEF DriveOK
  <2>3. \A t \in Tasks : ~ InFlight(t)  BY <2>2, NoneAssumption DEF InFlight
  <2>4. \A t \in Tasks : row'[t].status = "active" => Free(counts[t]) \/ ~ row'[t].once
        BY <2>3
  <2>5. Due(row') \in SUBSET Tasks /\ \A t \in Due(row') : Free(counts[t]) \/ ~ row'[t].once
        BY <2>4 DEF Due, Active
  <2>6. GoOn(row', linked, Due(row'), counts) /\ running' /\ phase' # "down"
        BY <1>2, <2>1 DEF Drive
  <2> QED  BY <2>4, <2>5, <2>6, GoOnOnce
<1>3. phase # "up" \/ (phase = "up" /\ running)
         => UNCHANGED <<running, current, receipt, left>> /\ runs' = counts
      BY DEF RequestDrive
<1> QED  BY <1>1, <1>2, <1>3 DEF SchedTypeOK

\* A call of the service that leaves the counts alone and starts nothing.
LEMMA CallOnce ==
    ASSUME SchedTypeOK, DriveOK, StartedOnce, NEW counts,
           row' \in [Tasks -> Row], counts \in [Tasks -> Count],
           ByService(counts),
           \A t \in Tasks : counts[t] \in {runs[t], NoRuns},
           \A t \in Tasks : row'[t].once => row[t].once \/ counts[t] = NoRuns,
           \A t \in Tasks : row'[t].status = "active"
                               => row[t].status = "active" \/ counts[t] = NoRuns \/ InFlight(t)
    PROVE  DriveOK' /\ StartedOnce'
<1>1. \A t \in Tasks : runs[t] \in Count /\ Bounded(runs[t])
      BY OnceBounded DEF SchedTypeOK, StartedOnce
<1>2. \A t \in Tasks : Bounded(counts[t])  BY <1>1, CountFacts
<1>3. \A t \in Tasks : Unstarted(t) => Free(counts[t]) \/ ~ row'[t].once
  <2> SUFFICES ASSUME NEW t \in Tasks, Unstarted(t)
               PROVE  Free(counts[t]) \/ ~ row'[t].once
      OBVIOUS
  <2>1. CASE counts[t] = NoRuns  BY <2>1, CountFacts
  <2>2. CASE counts[t] = runs[t]
    <3>1. row'[t].once => row[t].once \/ counts[t] = NoRuns  OBVIOUS
    <3> QED  BY <2>2, <3>1, CountFacts DEF Unstarted
  <2> QED  BY <2>1, <2>2
<1>4. \A t \in Tasks : row'[t].status = "active"
                          => Free(counts[t]) \/ ~ row'[t].once \/ InFlight(t)
      BY <1>3, CountFacts DEF StartedOnce
<1>5. \A t \in left : Free(counts[t]) \/ ~ row'[t].once
      BY <1>3 DEF StartedOnce, SchedTypeOK
<1>6. current # None /\ receipt = "error" => Free(counts[current]) \/ ~ row'[current].once
      BY <1>3 DEF StartedOnce, SchedTypeOK
<1>7. RequestDrive(row', connected, counts) /\ phase' = phase  BY DEF ByService
<1> QED  BY <1>2, <1>4, <1>5, <1>6, <1>7, RequestDriveOnce

LEMMA GoOnFresh ==
    ASSUME NEW rows, NEW linked, NEW listed \in SUBSET Tasks, NEW counts \in [Tasks -> Count],
           GoOn(rows, linked, listed, counts),
           \A t \in Tasks : row'[t].status = "absent" => counts[t] = NoRuns /\ t \notin listed
    PROVE  Fresh'
<1>1. CASE listed = {} /\ current' = None /\ left' = {} /\ runs' = counts
      BY <1>1, NoneAssumption DEF Fresh
<1>2. ASSUME NEW t \in listed, NEW outcome \in {"ok", "error"}, current' = t,
             left' = listed \ {t}, runs' = Counted(counts, rows, t, outcome)
      PROVE  Fresh'
  <2>1. \A u \in Tasks : u # t => runs'[u] = counts[u]  BY <1>2 DEF Counted
  <2> QED  BY <1>2, <2>1 DEF Fresh
<1> QED  BY <1>1, <1>2 DEF GoOn

LEMMA RequestDriveFresh ==
    ASSUME Fresh, NEW linked, NEW counts \in [Tasks -> Count],
           RequestDrive(row', linked, counts),
           \A t \in Tasks : row'[t].status = "absent" => row[t].status = "absent" /\ counts[t] = NoRuns
    PROVE  Fresh'
<1>1. CASE UNCHANGED <<running, current, receipt, left>> /\ runs' = counts
      BY <1>1 DEF Fresh
<1>2. CASE Drive(row', linked, counts)
  <2>1. Due(row') \in SUBSET Tasks /\ \A t \in Due(row') : row'[t].status # "absent"
        BY DEF Due, Active
  <2> QED  BY <1>2, <2>1, GoOnFresh DEF Drive
<1> QED  BY <1>1, <1>2 DEF RequestDrive

\* No action makes an absent row but Create, and that one makes it present.
LEMMA NextFresh == ASSUME SchedTypeOK, Fresh, [Next]_vars PROVE Fresh'
<1> DEFINE Same == \A t \in Tasks : row'[t].status = "absent" => row[t].status = "absent"
<1>1. runs \in [Tasks -> Count] /\ row \in [Tasks -> Row]  BY DEF SchedTypeOK
<1>2. ASSUME NEW linked, RequestDrive(row', linked, runs), Same  PROVE Fresh'
      BY <1>1, <1>2, RequestDriveFresh DEF Fresh
<1>3. ASSUME ByTool \/ ByService(runs), Same  PROVE Fresh'
  <2>1. CASE ByTool  BY <1>3, <2>1 DEF ByTool, driveVars, Fresh
  <2>2. CASE ByService(runs)  BY <1>2, <1>3, <2>2 DEF ByService
  <2> QED  BY <1>3, <2>1, <2>2
<1>4. CASE Calls
  <2>1. ASSUME NEW t \in Tasks, NEW once \in BOOLEAN, NEW due \in 0 .. Period, Create(t, once, due)
        PROVE  Fresh'
    <3>1. Same  BY <1>1, <2>1 DEF Create, NewRow
    <3> QED  BY <1>3, <2>1, <3>1 DEF Create
  <2>2. ASSUME NEW t \in Tasks, NEW due \in 1 .. Period, Update(t, due)  PROVE Fresh'
    <3>1. Same  BY <1>1, <2>2 DEF Update, Row
    <3> QED  BY <1>1, <2>2, <3>1 DEF Update, Fresh
  <2>3. ASSUME NEW t \in Tasks, NEW status \in Statuses, SetStatus(t, status)  PROVE Fresh'
    <3>1. Same  BY <1>1, <2>3 DEF SetStatus, Row, Statuses
    <3> DEFINE counts == IF status = "active" /\ ~ InFlight(t) THEN [runs EXCEPT ![t] = NoRuns] ELSE runs
    <3>2. counts \in [Tasks -> Count]  BY <1>1, CountFacts
    <3>3. \A u \in Tasks : runs[u] = NoRuns => counts[u] = NoRuns  BY <1>1
    <3>4. ByService(counts)  BY <2>3 DEF SetStatus
    <3> HIDE DEF counts
    <3>5. \A u \in Tasks : row'[u].status = "absent" => row[u].status = "absent" /\ counts[u] = NoRuns
          BY <3>1, <3>3 DEF Fresh
    <3> QED  BY <3>2, <3>4, <3>5, RequestDriveFresh DEF ByService
  <2>4. \A S : \A t \in Tasks : Without(S)[t].status = "absent" => row[t].status = "absent"
        BY <1>1 DEF Without, Row
  <2>5. ASSUME NEW t \in Tasks, Delete(t)  PROVE Fresh'
    <3>1. Same  BY <2>4, <2>5 DEF Delete
    <3> QED  BY <1>3, <2>5, <3>1 DEF Delete
  <2>6. ASSUME RemoveOwnerActive  PROVE Fresh'
    <3>1. Same  BY <2>4, <2>6 DEF RemoveOwnerActive
    <3> QED  BY <1>3, <2>6, <3>1 DEF RemoveOwnerActive
  <2> QED  BY <1>4, <2>1, <2>2, <2>3, <2>5, <2>6 DEF Calls
<1>5. CASE FireReturns
  <2>1. PICK d \in Delays(FALSE) : MarkFired(current, receipt = "error", d)
        BY <1>5 DEF FireReturns
  <2>2. Same  BY <1>1, <2>1 DEF MarkFired, Row, Exists, Statuses
  <2> DEFINE listed == IF phase = "stopping" THEN {} ELSE left
  <2>3. listed \in SUBSET Tasks /\ listed \subseteq left  BY DEF SchedTypeOK
  <2>4. GoOn(row', connected, listed, runs)  BY <1>5 DEF FireReturns
  <2>5. \A t \in Tasks : row'[t].status = "absent" => runs[t] = NoRuns /\ t \notin listed
        BY <2>2, <2>3 DEF Fresh
  <2> QED  BY <1>1, <2>3, <2>4, <2>5, GoOnFresh
<1>6. CASE DriveEnds  BY <1>6 DEF DriveEnds, Fresh
<1>7. CASE TimerFires  BY <1>2, <1>7 DEF TimerFires
<1>8. CASE Poke  BY <1>2, <1>8 DEF Poke
<1>9. ASSUME NEW linked \in BOOLEAN, SetFireHandler(linked)  PROVE Fresh'
      BY <1>2, <1>9 DEF SetFireHandler
<1>10. CASE Boot
  <2>1. Due(row) \in SUBSET Tasks /\ \A t \in Due(row) : row[t].status # "absent"
        BY DEF Due, Active
  <2> QED  BY <1>1, <1>10, <2>1, GoOnFresh DEF Boot, Drive, Fresh
<1>11. CASE Dispose  BY <1>11 DEF Dispose, Fresh
<1>12. CASE Disposed  BY <1>12, NoneAssumption DEF Disposed, Lose, Fresh
<1>13. CASE Crash
  <2>1. \A t \in Tasks : current # t /\ runs[t] = NoRuns => runs'[t] = NoRuns
        BY <1>13 DEF Crash, InFlight
  <2> QED  BY <1>13, <2>1, NoneAssumption DEF Crash, Lose, Fresh
<1>14. CASE Tick  BY <1>1, <1>14 DEF Tick, Fresh, Row
<1>15. CASE UNCHANGED vars  BY <1>15 DEF vars, driveVars, Fresh
<1> QED  BY <1>4, <1>5, <1>6, <1>7, <1>8, <1>9, <1>10, <1>11, <1>12, <1>13, <1>14, <1>15 DEF Next

LEMMA CallsOnce ==
    ASSUME SchedTypeOK, SchedTypeOK', Fresh, DriveOK, StartedOnce, Calls
    PROVE  DriveOK' /\ StartedOnce'
<1>1. /\ row \in [Tasks -> Row] /\ row' \in [Tasks -> Row] /\ runs \in [Tasks -> Count]
      BY DEF SchedTypeOK
<1> DEFINE Kept == /\ \A t \in Tasks : row'[t].once => row[t].once \/ runs[t] = NoRuns
                   /\ \A t \in Tasks : row'[t].status = "active"
                                          => row[t].status = "active" \/ runs[t] = NoRuns
<1>2. ASSUME ByTool \/ ByService(runs), Kept  PROVE DriveOK' /\ StartedOnce'
  <2>1. CASE ByTool
    <3>1. DriveOK'  BY <2>1 DEF ByTool, driveVars, DriveOK
    <3>2. OnceOnly'  BY <2>1, OnceBounded DEF ByTool, driveVars, StartedOnce
    <3>3. \A t \in Tasks : Unstarted(t) => Unstarted(t)'
          BY <1>2, <2>1, CountFacts DEF ByTool, driveVars, Unstarted
    <3>4. \A t \in Tasks : InFlight(t)' = InFlight(t)  BY <2>1 DEF ByTool, driveVars, InFlight
    <3>5. \A t \in Tasks : row'[t].status = "active" => Unstarted(t)' \/ InFlight(t)'
      <4> SUFFICES ASSUME NEW t \in Tasks, row'[t].status = "active"
                   PROVE  Unstarted(t)' \/ InFlight(t)'
          OBVIOUS
      <4>1. CASE row[t].status = "active"  BY <3>3, <3>4, <4>1 DEF StartedOnce
      <4>2. CASE runs[t] = NoRuns  BY <2>1, <4>2, CountFacts DEF Unstarted, ByTool, driveVars
      <4> QED  BY <1>2, <4>1, <4>2
    <3> QED  BY <2>1, <3>1, <3>2, <3>3, <3>5 DEF ByTool, driveVars, StartedOnce, SchedTypeOK
  <2>2. CASE ByService(runs)  BY <1>1, <1>2, <2>2, CallOnce
  <2> QED  BY <1>2, <2>1, <2>2
<1>3. ASSUME NEW t \in Tasks, NEW once \in BOOLEAN, NEW due \in 0 .. Period, Create(t, once, due)
      PROVE  DriveOK' /\ StartedOnce'
  <2>1. runs[t] = NoRuns  BY <1>3 DEF Create, Fresh
  <2>2. \A u \in Tasks : u # t => row'[u] = row[u]  BY <1>1, <1>3 DEF Create, NewRow
  <2>3. Kept  BY <2>1, <2>2
  <2> QED  BY <1>2, <1>3, <2>3 DEF Create
<1>4. ASSUME NEW t \in Tasks, NEW due \in 1 .. Period, Update(t, due)
      PROVE  DriveOK' /\ StartedOnce'
  <2>1. \A u \in Tasks : /\ u # t => row'[u] = row[u] /\ runs'[u] = runs[u]
                         /\ u = t => runs'[u] = NoRuns
        BY <1>1, <1>4 DEF Update
  <2>2. \A u \in Tasks : (Unstarted(u) => Unstarted(u)') /\ Unstarted(t)'
        BY <2>1, CountFacts DEF Unstarted
  <2>3. \A u \in Tasks : InFlight(u)' = InFlight(u)  BY <1>4 DEF Update, InFlight
  <2>4. DriveOK'  BY <1>4 DEF Update, DriveOK
  <2>5. OnceOnly'  BY <2>1, CountFacts, OnceBounded DEF StartedOnce
  <2>6. \A u \in Tasks : row'[u].status = "active" => Unstarted(u)' \/ InFlight(u)'
        BY <2>1, <2>2, <2>3 DEF StartedOnce
  <2> QED  BY <1>4, <2>2, <2>4, <2>5, <2>6 DEF Update, StartedOnce, SchedTypeOK
<1>5. ASSUME NEW t \in Tasks, NEW status \in Statuses, SetStatus(t, status)
      PROVE  DriveOK' /\ StartedOnce'
  <2> DEFINE counts == IF status = "active" /\ ~ InFlight(t) THEN [runs EXCEPT ![t] = NoRuns] ELSE runs
  <2>1. counts \in [Tasks -> Count] /\ \A u \in Tasks : counts[u] \in {runs[u], NoRuns}
        BY <1>1, CountFacts
  <2>2. status = "active" /\ ~ InFlight(t) => counts[t] = NoRuns  BY <1>1
  <2>3. ByService(counts)  BY <1>5 DEF SetStatus
  <2> HIDE DEF counts
  <2>4. \A u \in Tasks : row'[u].once = row[u].once /\ (u # t => row'[u] = row[u])
        BY <1>1, <1>5 DEF SetStatus, Row
  <2>5. row'[t].status = status  BY <1>1, <1>5 DEF SetStatus, Row
  <2>6. \A u \in Tasks : row'[u].status = "active"
                            => row[u].status = "active" \/ counts[u] = NoRuns \/ InFlight(u)
        BY <2>2, <2>4, <2>5
  <2> QED  BY <1>1, <2>1, <2>3, <2>4, <2>6, CallOnce
<1>6. ASSUME NEW S, row' = Without(S)  PROVE Kept
      BY <1>1, <1>6 DEF Without, Row
<1>7. ASSUME NEW t \in Tasks, Delete(t)  PROVE DriveOK' /\ StartedOnce'
  <2>1. row' = Without({t}) /\ (ByTool \/ ByService(runs))  BY <1>7 DEF Delete
  <2>2. Kept  BY <1>6, <2>1
  <2> QED  BY <1>2, <2>1, <2>2
<1>8. ASSUME RemoveOwnerActive  PROVE DriveOK' /\ StartedOnce'
  <2>1. row' = Without(Active(row)) /\ ByService(runs)  BY <1>8 DEF RemoveOwnerActive
  <2>2. Kept  BY <1>6, <2>1
  <2> QED  BY <1>2, <2>1, <2>2
<1> QED  BY <1>3, <1>4, <1>5, <1>7, <1>8 DEF Calls

\* The row of a task whose Run was started is no longer active, or recurring.
LEMMA FireReturnsOnce ==
    ASSUME SchedTypeOK, SchedTypeOK', DriveOK, StartedOnce, FireReturns
    PROVE  DriveOK' /\ StartedOnce'
<1>1. current \in Tasks /\ running /\ phase # "down" /\ current \notin left
      BY DEF FireReturns, SchedTypeOK, DriveOK
<1>2. /\ row \in [Tasks -> Row] /\ row' \in [Tasks -> Row] /\ runs \in [Tasks -> Count]
      BY DEF SchedTypeOK
<1>3. PICK d \in Delays(FALSE) : MarkFired(current, receipt = "error", d)
      BY DEF FireReturns
<1>4. \A t \in Tasks : t # current => row'[t] = row[t]  BY <1>1, <1>2, <1>3 DEF MarkFired
<1>5. row'[current].status = "active" => Free(runs[current]) \/ ~ row'[current].once
  <2>1. CASE ~ Exists(current)
        BY <1>1, <1>3, <2>1 DEF MarkFired, Exists, Statuses
  <2>2. CASE Exists(current) /\ ~ row[current].once
        BY <1>1, <1>2, <1>3, <2>2 DEF MarkFired, Row
  <2>3. CASE Exists(current) /\ row[current].once /\ receipt = "error"
        BY <1>1, <2>3 DEF StartedOnce, Unstarted, DriveOK, FireReturns
  <2>4. CASE Exists(current) /\ row[current].once /\ receipt # "error"
        BY <1>1, <1>2, <1>3, <2>4 DEF MarkFired, Row
  <2> QED  BY <1>1, <1>2, <2>1, <2>2, <2>3, <2>4 DEF Row
<1>6. \A t \in Tasks : row'[t].status = "active" => Free(runs[t]) \/ ~ row'[t].once
      BY <1>4, <1>5 DEF StartedOnce, Unstarted, InFlight
<1> DEFINE listed == IF phase = "stopping" THEN {} ELSE left
<1>7. listed \in SUBSET Tasks /\ listed \subseteq left  BY DEF SchedTypeOK
<1>8. \A t \in listed : Free(runs[t]) \/ ~ row'[t].once
      BY <1>1, <1>4, <1>7 DEF StartedOnce, Unstarted
<1>9. GoOn(row', connected, listed, runs) /\ running' /\ phase' # "down"
      BY <1>1 DEF FireReturns
<1>10. \A t \in Tasks : Bounded(runs[t])  BY OnceBounded DEF StartedOnce
<1> HIDE DEF listed
<1> QED  BY <1>2, <1>6, <1>7, <1>8, <1>9, <1>10, GoOnOnce

LEMMA NextOnce ==
    ASSUME SchedTypeOK, SchedTypeOK', Fresh, DriveOK, StartedOnce, [Next]_vars
    PROVE  DriveOK' /\ StartedOnce'
<1>1. /\ row \in [Tasks -> Row] /\ row' \in [Tasks -> Row] /\ runs \in [Tasks -> Count]
      BY DEF SchedTypeOK
<1>2. CASE Calls  BY <1>2, CallsOnce
<1>3. CASE FireReturns  BY <1>3, FireReturnsOnce
<1>4. ASSUME NEW linked, RequestDrive(row', linked, runs), row' = row, phase' = phase
      PROVE  DriveOK' /\ StartedOnce'
  <2>1. \A t \in Tasks : Unstarted(t) => Free(runs[t]) \/ ~ row'[t].once  BY <1>4 DEF Unstarted
  <2> QED  BY <1>1, <1>4, <2>1, RequestDriveOnce, OnceBounded DEF StartedOnce, SchedTypeOK
<1>5. CASE TimerFires  BY <1>4, <1>5 DEF TimerFires
<1>6. CASE Poke  BY <1>4, <1>6 DEF Poke
<1>7. ASSUME NEW linked \in BOOLEAN, SetFireHandler(linked)  PROVE DriveOK' /\ StartedOnce'
      BY <1>4, <1>7 DEF SetFireHandler
<1>8. CASE Boot
  <2>1. \A t \in Tasks : ~ InFlight(t)  BY <1>8, NoneAssumption DEF Boot, DriveOK, InFlight
  <2>2. \A t \in Tasks : row[t].status = "active" => Free(runs[t]) \/ ~ row[t].once
        BY <2>1 DEF StartedOnce, Unstarted
  <2>3. Due(row) \in SUBSET Tasks /\ \A t \in Due(row) : Free(runs[t]) \/ ~ row[t].once
        BY <2>2 DEF Due, Active
  <2>4. row' = row /\ GoOn(row', FALSE, Due(row), runs) /\ running' /\ phase' # "down"
        BY <1>8 DEF Boot, Drive
  <2>5. \A t \in Tasks : Bounded(runs[t])  BY OnceBounded DEF StartedOnce
  <2> QED  BY <1>1, <2>2, <2>3, <2>4, <2>5, GoOnOnce
<1>9. ASSUME row' = row, UNCHANGED <<current, receipt, left, runs>>, DriveOK'
      PROVE  DriveOK' /\ StartedOnce'
      BY <1>9 DEF StartedOnce, OnceOnly, Unstarted, InFlight
<1>10. CASE DriveEnds  BY <1>9, <1>10 DEF DriveEnds, DriveOK
<1>11. CASE Dispose  BY <1>9, <1>11 DEF Dispose, DriveOK
<1>12. ASSUME Lose, \A t \in Tasks : runs'[t] = runs[t] \/ Free(runs'[t]),
              \A t \in Tasks : InFlight(t) => Unstarted(t)'
       PROVE  DriveOK' /\ StartedOnce'
  <2>1. DriveOK'  BY <1>12 DEF Lose, DriveOK
  <2>2. \A t \in Tasks : Unstarted(t) => Unstarted(t)'  BY <1>12 DEF Lose, Unstarted
  <2>3. OnceOnly'
    <3>1. \A t \in Tasks : Bounded(runs[t]) /\ runs'[t] \in Count
          BY OnceBounded DEF StartedOnce, SchedTypeOK
    <3>2. \A t \in Tasks : Bounded(runs'[t])  BY <1>12, <3>1, CountFacts
    <3> QED  BY <3>2, OnceBounded
  <2>4. \A t \in Tasks : row'[t].status = "active" => Unstarted(t)'
        BY <1>12, <2>2 DEF Lose, StartedOnce
  <2> QED  BY <1>12, <2>1, <2>3, <2>4 DEF Lose, StartedOnce
<1>13. CASE Disposed
  <2>1. \A t \in Tasks : ~ InFlight(t)
        BY <1>13, NoneAssumption DEF Disposed, DriveOK, InFlight
  <2> QED  BY <1>12, <1>13, <2>1 DEF Disposed
<1>14. CASE Crash
  <2>1. Lose /\ row' = row  BY <1>14 DEF Crash, Lose
  <2>2. \A t \in Tasks : IF InFlight(t) /\ row[t].once
                         THEN runs'[t] = [runs[t] EXCEPT !.unnoted = @ + 1]
                         ELSE runs'[t] = runs[t]
        BY <1>14 DEF Crash
  <2>3. \A t \in Tasks : runs[t] \in Count /\ Bounded(runs[t])
        BY OnceBounded DEF SchedTypeOK, StartedOnce
  <2>4. \A t \in Tasks : InFlight(t) /\ row[t].once => Free(runs'[t])
        BY <2>2, <2>3, CountFacts
  <2>5. \A t \in Tasks : InFlight(t) => Unstarted(t)'  BY <2>1, <2>4 DEF Unstarted
  <2>6. \A t \in Tasks : runs'[t] = runs[t] \/ Free(runs'[t])  BY <2>2, <2>4
  <2> QED  BY <1>12, <2>1, <2>5, <2>6
<1>15. CASE Tick
  <2>1. \A t \in Tasks : row'[t].status = row[t].status /\ row'[t].once = row[t].once
        BY <1>1, <1>15 DEF Tick, Row
  <2>2. \A t \in Tasks : Unstarted(t)' = Unstarted(t)  BY <1>15, <2>1 DEF Tick, Unstarted
  <2>3. \A t \in Tasks : InFlight(t)' = InFlight(t)  BY <1>15 DEF Tick, InFlight
  <2>4. DriveOK' /\ OnceOnly'  BY <1>15 DEF Tick, DriveOK, OnceOnly, StartedOnce
  <2> QED  BY <1>15, <2>1, <2>2, <2>3, <2>4 DEF Tick, StartedOnce, SchedTypeOK
<1>16. CASE UNCHANGED vars  BY <1>9, <1>16 DEF vars, driveVars, DriveOK
<1> QED  BY <1>2, <1>3, <1>5, <1>6, <1>7, <1>8, <1>10, <1>11, <1>13, <1>14, <1>15, <1>16
         DEF Next

\* A one-shot task starts one Run for each time it is activated, however the
\* calls, the deliveries, the timer and orderly restarts fall, and at most one
\* more for each crash that kept a start from being noted (requestDrive,
\* drive, markFiredWithRetryBackoff).
THEOREM StartsOnce == Spec => []OnceOnly
<1> DEFINE Inv == SchedTypeOK /\ Fresh /\ DriveOK /\ StartedOnce
<1>1. Init => Inv
  <2> SUFFICES ASSUME Init  PROVE Inv
      OBVIOUS
  <2>1. Fresh /\ DriveOK /\ StartedOnce
        BY NoneAssumption, CountFacts, OnceBounded
        DEF Init, Fresh, DriveOK, StartedOnce, Unstarted
  <2> QED  BY <2>1, InitTyped
<1>2. Inv /\ [Next]_vars => Inv'  BY NextTyped, NextFresh, NextOnce
<1>3. Inv => OnceOnly  BY DEF StartedOnce
<1> QED  BY <1>1, <1>2, <1>3, PTL DEF Spec

-----------------------------------------------------------------------------
(* The timer.                                                                *)

LEMMA NextWakes ==
    ASSUME SchedTypeOK, SchedTypeOK', NoWakeupLost, [Next]_vars  PROVE NoWakeupLost'
<1>1. /\ row \in [Tasks -> Row] /\ row' \in [Tasks -> Row]
      /\ timer \in Int /\ timer >= -1 /\ \A t \in Tasks : row[t].due \in Nat
      BY TicksAssumption DEF SchedTypeOK, Row, NoTimer
<1>2. ASSUME NEW linked, NEW counts, RequestDrive(row', linked, counts), phase' = phase
      PROVE  NoWakeupLost'
      BY <1>2 DEF RequestDrive, Drive, NoWakeupLost
<1>3. ASSUME NEW counts, ByService(counts)  PROVE NoWakeupLost'
      BY <1>2, <1>3 DEF ByService
<1>4. ASSUME poke'  PROVE NoWakeupLost'  BY <1>4 DEF NoWakeupLost
<1>5. CASE Calls
  <2>1. poke' \/ \E counts : ByService(counts)
        BY <1>5 DEF Calls, Create, Update, SetStatus, Delete, RemoveOwnerActive, ByTool
  <2> QED  BY <1>3, <1>4, <2>1
<1>6. CASE FireReturns  BY <1>6 DEF FireReturns, NoWakeupLost
<1>7. CASE DriveEnds
  <2>1. CASE ScheduleNext /\ row' = row
    <3>1. CASE Active(row') = {}  BY <3>1 DEF NoWakeupLost
    <3>2. ASSUME NEW t \in Active(row), \A u \in Active(row) : row[t].due <= row[u].due,
                 timer' = IF row[t].due <= MaxDelay THEN row[t].due ELSE MaxDelay
          PROVE  NoWakeupLost'
      <4>1. t \in Tasks /\ Active(row) \subseteq Tasks /\ MaxDelay \in Nat
            BY TicksAssumption DEF Active
      <4>2. timer' \in Nat /\ timer' <= row[t].due  BY <1>1, <3>2, <4>1
      <4>3. \A u \in Active(row) : timer' <= row[u].due  BY <1>1, <3>2, <4>1, <4>2
      <4> QED  BY <2>1, <4>2, <4>3 DEF NoWakeupLost, NoTimer
    <3> QED  BY <2>1, <3>1, <3>2 DEF ScheduleNext
  <2>2. CASE phase # "up"  BY <1>7, <2>2 DEF DriveEnds, NoWakeupLost
  <2> QED  BY <1>7, <2>1, <2>2 DEF DriveEnds
<1>8. CASE TimerFires  BY <1>2, <1>8 DEF TimerFires
<1>9. CASE Poke  BY <1>2, <1>9 DEF Poke
<1>10. ASSUME NEW linked \in BOOLEAN, SetFireHandler(linked)  PROVE NoWakeupLost'
       BY <1>2, <1>10 DEF SetFireHandler
<1>11. CASE Boot  BY <1>11 DEF Boot, Drive, NoWakeupLost
<1>12. CASE Dispose  BY <1>12 DEF Dispose, NoWakeupLost
<1>13. ASSUME Lose  PROVE NoWakeupLost'
       BY <1>13 DEF Lose, NoWakeupLost
<1>14. CASE Disposed \/ Crash  BY <1>13, <1>14 DEF Disposed, Crash
<1>15. CASE Tick
  <2>1. \A k \in Nat : Sooner(k) \in Nat  BY DEF Sooner
  <2>2. \A k, l \in Nat : k <= l => Sooner(k) <= Sooner(l)  BY DEF Sooner
  <2>3. \A t \in Tasks : row'[t].status = row[t].status /\ row'[t].due = Sooner(row[t].due)
        BY <1>1, <1>15 DEF Tick, Row
  <2>4. Active(row') = Active(row) /\ Active(row) \subseteq Tasks  BY <2>3 DEF Active
  <2>5. ASSUME phase = "up", ~ running, ~ poke, NEW t \in Active(row)
        PROVE  timer' # NoTimer /\ timer' <= row'[t].due
    <3>1. timer # NoTimer /\ timer <= row[t].due  BY <2>5 DEF NoWakeupLost
    <3>2. timer \in Nat  BY <1>1, <3>1 DEF NoTimer
    <3>3. timer' = Sooner(timer) /\ row'[t].due = Sooner(row[t].due)
          BY <1>15, <2>3, <2>4, <2>5 DEF Tick
    <3>4. timer' \in Nat  BY <2>1, <3>2, <3>3
    <3>5. timer' <= row'[t].due  BY <1>1, <2>2, <2>4, <2>5, <3>1, <3>2, <3>3
    <3> QED  BY <3>4, <3>5 DEF NoTimer
  <2> QED  BY <1>15, <2>4, <2>5 DEF Tick, NoWakeupLost
<1>16. CASE UNCHANGED vars  BY <1>16 DEF vars, driveVars, NoWakeupLost
<1> QED  BY <1>5, <1>6, <1>7, <1>8, <1>9, <1>10, <1>11, <1>12, <1>14, <1>15, <1>16 DEF Next

\* Whenever the driver rests, its timer goes off before the first active task
\* is due: nothing that changes rows leaves it asleep (requestDrive,
\* scheduleNext).
THEOREM AlwaysWakes == Spec => []NoWakeupLost
<1>1. Init => NoWakeupLost  BY DEF Init, NoWakeupLost
<1>2. SchedTypeOK /\ NoWakeupLost /\ [Next]_vars => NoWakeupLost'  BY NextTyped, NextWakes
<1> QED  BY <1>1, <1>2, SchedTypeCorrect, PTL DEF Spec

-----------------------------------------------------------------------------
(* Deleted tasks.                                                            *)

LEMMA NextTargetless ==
    ASSUME SchedTypeOK, SchedTypeOK', Targetless, [Next]_vars
    PROVE  /\ Targetless'
           /\ \A t \in Tasks : row[t].status = "deleted" => row'[t].status = "deleted"
<1> DEFINE Kept == \A t \in Tasks : row[t].status = "deleted"
                                      => row'[t].status = "deleted" /\ ~ row'[t].target
           Made == \A t \in Tasks : row'[t].status = "deleted" /\ row[t].status # "deleted"
                                      => ~ row'[t].target
<1> SUFFICES Kept /\ Made
    BY DEF Targetless
<1>1. row \in [Tasks -> Row] /\ row' \in [Tasks -> Row]  BY DEF SchedTypeOK
<1>2. ASSUME row' = row  PROVE Kept /\ Made  BY <1>2 DEF Targetless
<1>3. ASSUME NEW t \in Tasks, NEW once \in BOOLEAN, NEW due \in 0 .. Period, Create(t, once, due)
      PROVE  Kept /\ Made
      BY <1>1, <1>3 DEF Create, NewRow, Targetless
<1>4. ASSUME NEW t \in Tasks, NEW due \in 1 .. Period, Update(t, due)  PROVE Kept /\ Made
      BY <1>1, <1>4 DEF Update, Targetless, Row
<1>5. ASSUME NEW t \in Tasks, NEW status \in Statuses, SetStatus(t, status)  PROVE Kept /\ Made
      BY <1>1, <1>5 DEF SetStatus, Exists, Statuses, Targetless, Row
<1>6. ASSUME NEW S, row' = Without(S)  PROVE Kept /\ Made
      BY <1>1, <1>6 DEF Without, Targetless, Row
<1> HIDE DEF Kept, Made
<1>7. CASE Calls
      BY <1>3, <1>4, <1>5, <1>6, <1>7 DEF Calls, Delete, RemoveOwnerActive
<1>8. CASE FireReturns
  <2>1. PICK d \in Delays(FALSE) : MarkFired(current, receipt = "error", d)
        BY <1>8 DEF FireReturns
  <2>2. CASE ~ Exists(current)  BY <1>2, <2>1, <2>2 DEF MarkFired
  <2>3. CASE Exists(current)
    <3>1. \A t \in Tasks : t # current => row'[t] = row[t]
          BY <1>1, <2>1 DEF MarkFired
    <3>2. row[current].status # "deleted" /\ row'[current].status # "deleted"
          BY <1>1, <1>8, <2>1, <2>3 DEF MarkFired, Exists, Statuses, Row, FireReturns, SchedTypeOK
    <3> QED  BY <3>1, <3>2 DEF Targetless, Kept, Made
  <2> QED  BY <2>2, <2>3
<1>9. CASE Tick  BY <1>1, <1>9 DEF Tick, Targetless, Row, Kept, Made
<1>10. CASE \/ DriveEnds \/ TimerFires \/ Poke \/ Boot \/ Dispose \/ Disposed \/ Crash
            \/ \E linked \in BOOLEAN : SetFireHandler(linked)
       BY <1>2, <1>10
       DEF DriveEnds, TimerFires, Poke, Boot, Dispose, Disposed, Crash, Lose, SetFireHandler
<1>11. CASE UNCHANGED vars  BY <1>2, <1>11 DEF vars
<1> QED  BY <1>7, <1>8, <1>9, <1>10, <1>11 DEF Next

\* What is delivered next, if a Run comes of it, has its target.
LEMMA StepTarget ==
    ASSUME SchedTypeOK, [Next]_vars, NEW t \in Tasks, current # t, current' = t, receipt' = "ok"
    PROVE  row'[t].target
<1>1. ASSUME NEW linked, NEW listed, NEW counts, GoOn(row', linked, listed, counts)
      PROVE  row'[t].target
      BY <1>1, NoneAssumption DEF GoOn, Deliver
<1>2. ASSUME NEW linked, NEW counts, RequestDrive(row', linked, counts)
      PROVE  row'[t].target
      BY <1>1, <1>2 DEF RequestDrive, Drive
<1>3. CASE Calls
  <2>1. \E counts : ByService(counts)
        BY <1>3 DEF Calls, Create, Update, SetStatus, Delete, RemoveOwnerActive, ByTool, driveVars
  <2> QED  BY <1>2, <2>1 DEF ByService
<1>4. CASE FireReturns  BY <1>1, <1>4 DEF FireReturns
<1>5. CASE TimerFires  BY <1>2, <1>5 DEF TimerFires
<1>6. CASE Poke  BY <1>2, <1>6 DEF Poke
<1>7. ASSUME NEW linked \in BOOLEAN, SetFireHandler(linked)  PROVE row'[t].target
      BY <1>2, <1>7 DEF SetFireHandler
<1>8. CASE Boot  BY <1>1, <1>8 DEF Boot, Drive
<1>9. CASE DriveEnds \/ Dispose \/ Disposed \/ Crash \/ Tick \/ UNCHANGED vars
      BY <1>9, NoneAssumption
      DEF DriveEnds, Dispose, Disposed, Crash, Lose, Tick, vars, driveVars
<1> QED  BY <1>3, <1>4, <1>5, <1>6, <1>7, <1>8, <1>9 DEF Next

\* No Run starts for a task that was deleted, although a drive may still have
\* it in its list (getScheduleTarget, ON DELETE CASCADE).
THEOREM DeletedStaysQuiet == Spec => DeletedQuiet
<1> DEFINE Quiet == \A t \in Tasks :
               row[t].status = "deleted" /\ current # t /\ current' = t => receipt' # "ok"
<1>1. Init => Targetless  BY DEF Init, Targetless
<1>2. SchedTypeOK /\ Targetless /\ [Next]_vars => Targetless'
      BY NextTyped, NextTargetless
<1>3. SchedTypeOK /\ Targetless /\ [Next]_vars => Quiet
  <2> SUFFICES ASSUME SchedTypeOK, Targetless, [Next]_vars, NEW t \in Tasks,
                      row[t].status = "deleted", current # t, current' = t, receipt' = "ok"
               PROVE  FALSE
      OBVIOUS
  <2>1. ~ row'[t].target  BY NextTyped, NextTargetless DEF Targetless
  <2> QED  BY <2>1, StepTarget
<1> QED  BY <1>1, <1>2, <1>3, SchedTypeCorrect, PTL DEF Spec, DeletedQuiet
=============================================================================
