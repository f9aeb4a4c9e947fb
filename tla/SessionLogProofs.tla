--------------------------- MODULE SessionLogProofs ---------------------------
(***************************************************************************)
(* The safety properties of SessionLog for any number of turns and calls.  *)
(*                                                                         *)
(* The journal needs one fact: what was left by a failed commit is not     *)
(* appended to before a replay.  The log needs three: the turn a repair    *)
(* would end is open (Sound), a call that began is never pending without   *)
(* being dispatched (Honest), and the turn of a run under way is that      *)
(* one, which no read may take for unfinished (Runs).  That a turn ends    *)
(* with the results of its calls needs the turn at the tail to be the only *)
(* one with open calls (PairInv), and that nothing but the budget denies a *)
(* call that began needs what lies ahead of a run to be pending in the     *)
(* order of its calls (OrderInv).                                          *)
(***************************************************************************)
EXTENDS SessionLog, TLAPS

JournalKept ==
    /\ journal \in {"clean", "torn", "unknown"}
    /\ journal # "clean" => failed \/ phase = "down"
    /\ phase = "marking" => ~ failed

SoundLog(log) == log \in Log /\ (log.tail # 0 => log.turn[log.tail] = "open")

Sound(s) ==
    /\ s \in Session /\ SoundLog(s.log)
    /\ \A t \in Turns : s.log.turn[t] # "none" => s.row[t] # "absent"
    /\ \A t, u \in Turns : u < t /\ s.row[u] = "absent" => s.row[t] = "absent"

Honest(log) ==
    \A c \in began : log.result[c] = "open" => c \notin log.pending \/ c \in log.started

Queued(t)   == run[t].place \in {"waiting", "cancelled"}
UnderWay(t) == t \in Live /\ ~ Queued(t)

\* Calls begin in turns that are under way, or were.
BeganKnown ==
    \A c \in began : /\ session.row[c[1]] # "absent"
                     /\ run[c[1]] = Gone \/ (~ Queued(c[1]) /\ c[2] <= run[c[1]].given)

Runs ==
    /\ \A t \in Turns : run[t].given <= MaxCalls[t]
    /\ \A t \in Live : /\ phase = "up" /\ session.row[t] # "absent"
                       /\ \A u \in Turns : u > t => session.log.turn[u] = "none"
    /\ \A t \in Live : Queued(t) => session.log.turn[t] = "none"
    /\ \A t \in Live : UnderWay(t) =>
          /\ NoneBefore(t)
          /\ session.log.turn[t] = "open" /\ session.log.tail = t
          /\ session.row[t] = "streaming"
          /\ busy \/ \E u \in Turns : u > t /\ session.row[u] # "absent"

LogInv == SessionTypeOK /\ JournalKept /\ Sound(session) /\ Honest(session.log) /\ BeganKnown /\ Runs

-----------------------------------------------------------------------------
(* The journal.                                                              *)

LEMMA CommitKept ==
    ASSUME JournalKept, phase # "down", ~ failed, NEW passed, NEW end, Commit(passed, end)
    PROVE  journal' \in {"clean", "torn", "unknown"} /\ (journal' # "clean" => failed')
BY DEF Commit, JournalKept

LEMMA NextJournal ==
    ASSUME SessionTypeOK, JournalKept, [Next]_vars  PROVE JournalKept'
<1>1. ASSUME NEW t \in Turns, NEW passed, NEW end, NEW place, Write(t, passed, end, place)
      PROVE  JournalKept'
      BY <1>1, CommitKept DEF Write, Ready, JournalKept
<1>2. ASSUME NEW t \in Turns, TurnActs(t)  PROVE JournalKept'
  <2>1. CASE Abandon(t)  BY <2>1 DEF Abandon, JournalKept
  <2> QED  BY <1>1, <1>2, <2>1
           DEF TurnActs, CreateTurn, StartQueued, CancelQueued, QueuedEnds, Finish, Ask, StepEnds
<1>3. ASSUME NEW t \in Turns, CallActs(t)  PROVE JournalKept'
      BY <1>1, <1>3 DEF CallActs, Response, Block, Refuse, RefuseRest, OverBudget, Dispatch,
                        ToolAborted, ToolReturns
<1>4. ASSUME NEW t \in Turns, BootActs(t)  PROVE JournalKept'
      BY <1>4, CommitKept DEF BootActs, MarkInterrupted, SweepQueued, JournalKept
<1>5. CASE Read  BY <1>5, CommitKept DEF Read, Ready, JournalKept
<1>6. CASE FailElsewhere \/ Crash \/ Replay \/ Marked \/ Swept \/ UNCHANGED vars
      BY <1>6 DEF FailElsewhere, Ready, Crash, Replay, Marked, Swept, vars, JournalKept, SessionTypeOK
<1> QED  BY <1>2, <1>3, <1>4, <1>5, <1>6 DEF Next

-----------------------------------------------------------------------------
(* Events.  What the log says of a turn that has ended, or that was not      *)
(* begun, stays.                                                             *)

TurnsKept(log, next) ==
    \A t \in Turns : /\ log.turn[t] \in Endings => next.turn[t] = log.turn[t]
                     /\ log.turn[t] = "none" => next.turn[t] = "none"

LEMMA TurnedLog ==
    ASSUME NEW log \in Log, NEW t \in Turns, NEW state \in {"open"} \cup Endings,
           NEW tail \in {0} \cup Turns, NEW next, next = Turned(log, t, state, tail)
    PROVE  /\ next \in Log /\ next.turn[t] = state /\ next.tail = tail
           /\ \A u \in Turns : u # t => next.turn[u] = log.turn[u]
           /\ next.pending = {} /\ next.result = log.result
BY DEF Turned, Log

LEMMA OfferedLog ==
    ASSUME NEW log \in Log, NEW calls \in SUBSET Calls, NEW next, next = Offered(log, calls),
           began \subseteq Calls
    PROVE  /\ next \in Log /\ next.turn = log.turn /\ next.tail = log.tail
           /\ Honest(log) /\ calls \cap began = {} => Honest(next)
<1>1. next \in Log /\ next.turn = log.turn /\ next.tail = log.tail  BY DEF Offered, Log
<1>2. \A c \in Calls : c \notin calls => /\ next.result[c] = log.result[c]
                                         /\ c \in next.pending <=> c \in log.pending
                                         /\ c \in next.started <=> c \in log.started
      BY DEF Offered, Log
<1> QED  BY <1>1, <1>2 DEF Honest

LEMMA DispatchedLog ==
    ASSUME NEW log \in Log, NEW call \in Calls, NEW next, next = Dispatched(log, call)
    PROVE  /\ next \in Log /\ next.turn = log.turn /\ next.tail = log.tail
           /\ next.pending = log.pending /\ next.result = log.result
           /\ log.started \subseteq next.started
           /\ call \in next.pending => call \in next.started
BY DEF Dispatched, Log

LEMMA ResultedLog ==
    ASSUME NEW log \in Log, NEW calls, NEW state \in States, NEW next,
           next = Resulted(log, calls, state)
    PROVE  /\ next \in Log /\ next.turn = log.turn /\ next.tail = log.tail
           /\ next.pending = log.pending \ calls /\ next.started = log.started \ calls
           /\ \A c \in Calls : next.result[c] = IF c \in calls THEN state ELSE log.result[c]
BY DEF Resulted, Log

LEMMA ResultedHonest ==
    ASSUME NEW log \in Log, Honest(log), began \subseteq Calls, NEW calls, NEW state \in States
    PROVE  Honest(Resulted(log, calls, state))
BY ResultedLog DEF Honest, States

\* A repair ends the turn at the tail, which is open, and no other.
LEMMA RepairedLog ==
    ASSUME NEW log, SoundLog(log), NEW status \in Endings, NEW next, next = Repaired(log, status)
    PROVE  /\ SoundLog(next) /\ TurnsKept(log, next)
           /\ \A t \in Turns : log.turn[t] # "none" => next.turn[t] # "none"
           /\ began \subseteq Calls /\ Honest(log) => Honest(next)
<1>1. CASE log.tail = 0  BY <1>1 DEF Repaired, TurnsKept
<1>2. CASE log.tail # 0
  <2> DEFINE some == Resulted(log, log.started, "unconfirmed")
             all  == Resulted(some, log.pending \ log.started, "not_started")
  <2>1. log \in Log /\ log.tail \in Turns /\ log.turn[log.tail] = "open"
        BY <1>2 DEF SoundLog, Log
  <2>2. "unconfirmed" \in States /\ "not_started" \in States  BY DEF States
  <2>3. some \in Log /\ some.turn = log.turn  BY <2>1, <2>2, ResultedLog
  <2>4. all \in Log /\ all.turn = log.turn
        BY <2>2, <2>3, ResultedLog
  <2>5. next = Turned(all, log.tail, status, 0)  BY <1>2 DEF Repaired, TurnEnd
  <2> HIDE DEF all
  <2>a. status \in {"open"} \cup Endings /\ 0 \in {0} \cup Turns  OBVIOUS
  <2>6. /\ next \in Log /\ next.turn[log.tail] = status /\ next.tail = 0 /\ next.pending = {}
        /\ \A u \in Turns : u # log.tail => next.turn[u] = log.turn[u]
        BY <2>1, <2>4, <2>5, <2>a, TurnedLog
  <2>7. "open" \notin Endings /\ "none" \notin Endings  BY DEF Endings
  <2>8. SoundLog(next) /\ Honest(next)  BY <2>6 DEF SoundLog, Honest
  <2>9. TurnsKept(log, next)  BY <2>1, <2>6, <2>7 DEF TurnsKept
  <2>10. \A t \in Turns : log.turn[t] # "none" => next.turn[t] # "none"
         BY <2>1, <2>6, <2>7
  <2> QED  BY <2>8, <2>9, <2>10
<1> QED  BY <1>1, <1>2

\* How finishAiAssistantMessage changes the log.
FinishedLog(log, t, status) ==
    CASE log.turn[t] # "open"                       -> log
      [] log.turn[t] = "open" /\ status = "complete" -> TurnEnd(log, t, status)
      [] OTHER                                      -> Repaired(log, status)

LEMMA FinishedLogKept ==
    ASSUME NEW log, SoundLog(log), NEW t \in Turns, NEW status \in Endings,
           NEW next, next = FinishedLog(log, t, status)
    PROVE  /\ SoundLog(next) /\ TurnsKept(log, next)
           /\ \A u \in Turns : log.turn[u] # "none" => next.turn[u] # "none"
           /\ began \subseteq Calls /\ Honest(log) => Honest(next)
<1>1. CASE log.turn[t] # "open"  BY <1>1 DEF FinishedLog, TurnsKept
<1>2. CASE log.turn[t] = "open" /\ status = "complete"
  <2>1. next = Turned(log, t, status, 0)  BY <1>2 DEF FinishedLog, TurnEnd
  <2>a. status \in {"open"} \cup Endings /\ 0 \in {0} \cup Turns  OBVIOUS
  <2>2. /\ next \in Log /\ next.turn[t] = status /\ next.tail = 0 /\ next.pending = {}
        /\ \A u \in Turns : u # t => next.turn[u] = log.turn[u]
    <3>1. log \in Log  BY DEF SoundLog
    <3>2. next \in Log  BY <2>1, <2>a, <3>1, TurnedLog
    <3>3. next.turn[t] = status /\ next.tail = 0 /\ next.pending = {}  BY <2>1, <2>a, <3>1, TurnedLog
    <3>4. \A u \in Turns : u # t => next.turn[u] = log.turn[u]  BY <2>1, <2>a, <3>1, TurnedLog
    <3> QED  BY <3>2, <3>3, <3>4
  <2>3. "open" \notin Endings /\ "none" \notin Endings  BY DEF Endings
  <2>4. SoundLog(next) /\ Honest(next)  BY <2>2 DEF SoundLog, Honest
  <2> QED  BY <1>2, <2>2, <2>3, <2>4 DEF TurnsKept
<1>3. CASE log.turn[t] = "open" /\ status # "complete"
  <2>1. next = Repaired(log, status)  BY <1>3 DEF FinishedLog
  <2> QED  BY <2>1, RepairedLog
<1> QED  BY <1>1, <1>2, <1>3

-----------------------------------------------------------------------------
(* What one stretch of work makes of the session.                            *)

After(s) ==
    /\ Sound(s) /\ Honest(s.log)
    /\ \A t \in Turns : /\ session.log.turn[t] \in Endings => s.log.turn[t] = session.log.turn[t]
                        /\ session.row[t] # "absent" => s.row[t] # "absent"

Held == SessionTypeOK /\ Sound(session) /\ Honest(session.log)

LEMMA NowAfter == ASSUME Held  PROVE After(session)
BY DEF Held, After

\* Rows that exist change; the log follows.
LEMMA BothAfter ==
    ASSUME Held, NEW s, After(s), NEW row, NEW log, SoundLog(log), Honest(log),
           row \in [Turns -> {"absent", "queued", "streaming"} \cup Endings],
           \A t \in Turns : row[t] = "absent" <=> s.row[t] = "absent",
           \A t \in Turns : s.log.turn[t] = "none" => log.turn[t] = "none",
           \A t \in Turns : s.log.turn[t] \in Endings => log.turn[t] = s.log.turn[t],
           NEW next, next = [row |-> row, log |-> log]
    PROVE  After(next)
<1>1. next \in Session /\ next.row = row /\ next.log = log  BY DEF SoundLog, Session
<1>2. Sound(next)
  <2>1. \A t \in Turns : log.turn[t] # "none" => row[t] # "absent"  BY DEF After, Sound
  <2>2. \A t, u \in Turns : u < t /\ row[u] = "absent" => row[t] = "absent"  BY DEF After, Sound
  <2> QED  BY <1>1, <2>1, <2>2 DEF Sound
<1> QED  BY <1>1, <1>2 DEF After

LEMMA SessionParts ==
    ASSUME NEW s \in Session
    PROVE  /\ s = [row |-> s.row, log |-> s.log] /\ s.log \in Log
           /\ s.row \in [Turns -> {"absent", "queued", "streaming"} \cup Endings]
           /\ \A log : [s EXCEPT !.log = log] = [row |-> s.row, log |-> log]
           /\ \A t, x : [s EXCEPT !.row[t] = x] = [row |-> [s.row EXCEPT ![t] = x], log |-> s.log]
BY DEF Session

\* ensureSessionEventLog
LEMMA SeenAfter == ASSUME Held  PROVE After(Seen)
<1>1. CASE busy \/ Unfinished(session) = {}  BY <1>1, NowAfter DEF Seen, Recovered
<1>2. CASE ~ (busy \/ Unfinished(session) = {})
  <2> DEFINE row == [t \in Turns |-> IF t \in Unfinished(session) THEN "interrupted"
                                                                ELSE session.row[t]]
             log == Repaired(session.log, "interrupted")
  <2>1. Seen = [row |-> row, log |-> log]  BY <1>2 DEF Seen, Recovered
  <2>2. session \in Session /\ SoundLog(session.log) /\ Honest(session.log) /\ began \subseteq Calls
        BY DEF Held, Sound, SessionTypeOK
  <2>3. SoundLog(log) /\ Honest(log) /\ TurnsKept(session.log, log)
        BY <2>2, RepairedLog DEF Endings
  <2>4. row \in [Turns -> {"absent", "queued", "streaming"} \cup Endings]
        BY <2>2, SessionParts DEF Endings
  <2>5. \A t \in Turns : row[t] = "absent" <=> session.row[t] = "absent"
        BY DEF Unfinished
  <2> HIDE DEF row, log
  <2> QED  BY <2>1, <2>3, <2>4, <2>5, NowAfter, BothAfter DEF TurnsKept
<1> QED  BY <1>1, <1>2

\* Only the log changes, and no turn of it.
LEMMA LogAfter ==
    ASSUME Held, NEW s, After(s), NEW log \in Log, log.turn = s.log.turn, log.tail = s.log.tail,
           Honest(log), NEW next, next = [s EXCEPT !.log = log]
    PROVE  After(next)
<1>1. s \in Session /\ SoundLog(s.log)  BY DEF After, Sound
<1>2. SoundLog(log)  BY <1>1 DEF SoundLog
<1>3. next = [row |-> s.row, log |-> log]  BY <1>1, SessionParts
<1> QED  BY <1>1, <1>2, <1>3, SessionParts, BothAfter

LEMMA FinishedAfter ==
    ASSUME Held, NEW s, After(s), NEW t \in Turns, NEW status \in Endings, s.row[t] # "absent"
    PROVE  After(Finished(s, t, status))
<1>1. s \in Session /\ SoundLog(s.log) /\ Honest(s.log) /\ began \subseteq Calls
      BY DEF After, Sound, Held, SessionTypeOK
<1> DEFINE row == [s.row EXCEPT ![t] = status]
           log == FinishedLog(s.log, t, status)
<1>2. Finished(s, t, status) = [row |-> row, log |-> log]  BY DEF Finished, FinishedLog
<1>3. SoundLog(log) /\ Honest(log) /\ TurnsKept(s.log, log)  BY <1>1, FinishedLogKept
<1>4. row \in [Turns -> {"absent", "queued", "streaming"} \cup Endings]
      BY <1>1, SessionParts
<1>5. \A u \in Turns : row[u] = "absent" <=> s.row[u] = "absent"
      BY <1>1, SessionParts DEF Endings
<1> HIDE DEF row, log
<1> QED  BY <1>2, <1>3, <1>4, <1>5, BothAfter DEF TurnsKept

LEMMA CommitAfter ==
    ASSUME Held, NEW passed, NEW end, Commit(passed, end), After(end),
           \A s \in passed : After(s)
    PROVE  After(session') /\ (~ failed' => session' = end)
BY NowAfter DEF Commit

\* A read that finds an unfinished turn finds no run.
LEMMA SeenLive == ASSUME Held, Runs, Live # {}  PROVE Seen = session
<1> SUFFICES ASSUME NEW v \in Unfinished(session), ~ busy  PROVE FALSE
    BY DEF Seen, Recovered
<1>1. PICK t \in Turns : t \in Live  BY DEF Live
<1>2. session.row[t] # "absent" /\ v \in Turns /\ v \in Int /\ t \in Int
      BY <1>1, BoundsAssumption DEF Runs, Unfinished, Turns
<1>3. ~ (v < t)  BY <1>2 DEF Unfinished
<1>4. ~ (v > t)  BY <1>1, <1>2 DEF Unfinished, Runs
<1>5. v = t  BY <1>2, <1>3, <1>4
<1>6. UnderWay(t)  BY <1>1, <1>5 DEF Unfinished, Runs, UnderWay
<1> QED  BY <1>1, <1>5, <1>6 DEF Runs, Unfinished

LEMMA SeenRows ==
    ASSUME Held, NEW t \in Turns
    PROVE  session.row[t] = "absent" <=> Seen.row[t] = "absent"
BY SessionParts DEF Seen, Recovered, Unfinished, Held, Sound

\* A run goes, or goes on; only one that has begun nothing may do otherwise.
RunsOn ==
    \A t \in Turns : \/ run'[t] = Gone
                     \/ run'[t] = run[t]
                     \/ /\ run[t] # Gone /\ ~ Queued(t) /\ ~ Queued(t)'
                        /\ run'[t].given >= run[t].given
                     \/ \A c \in began : c[1] # t

LEMMA StillKnown ==
    ASSUME LogInv, After(session'), run' \in [Turns -> Run], RunsOn, NEW c \in began
    PROVE  /\ session'.row[c[1]] # "absent"
           /\ run'[c[1]] = Gone \/ (~ Queued(c[1])' /\ c[2] <= run'[c[1]].given)
<1>1. c[1] \in Turns /\ c[2] \in Int  BY DEF LogInv, SessionTypeOK, Calls
<1>2. session'.row[c[1]] # "absent"  BY <1>1 DEF After, LogInv, BeganKnown
<1>3. run[c[1]] = Gone \/ (~ Queued(c[1]) /\ c[2] <= run[c[1]].given)
      BY DEF LogInv, BeganKnown
<1>4. run[c[1]].given \in Int /\ run'[c[1]].given \in Int
      BY <1>1 DEF LogInv, SessionTypeOK, Run
<1>5. CASE run'[c[1]] = Gone  BY <1>2, <1>5
<1>6. CASE run'[c[1]] = run[c[1]]  BY <1>2, <1>3, <1>6 DEF Queued
<1>7. CASE /\ run[c[1]] # Gone /\ ~ Queued(c[1]) /\ ~ Queued(c[1])'
           /\ run'[c[1]].given >= run[c[1]].given
      BY <1>1, <1>2, <1>3, <1>4, <1>7
<1> QED  BY <1>1, <1>5, <1>6, <1>7 DEF RunsOn

\* What a step under which runs go on makes of all but Runs.
LEMMA Conclude ==
    ASSUME LogInv, JournalKept', After(session'), began' \subseteq began, RunsOn,
           run' \in [Turns -> Run], busy' \in BOOLEAN, failed' \in BOOLEAN,
           phase' \in {"down", "marking", "sweeping", "up"}
    PROVE  SessionTypeOK' /\ Sound(session)' /\ Honest(session.log)' /\ BeganKnown'
<1>1. SessionTypeOK'  BY DEF LogInv, SessionTypeOK, After, Sound, JournalKept
<1>2. Sound(session)' /\ Honest(session.log)'  BY DEF After, Sound, Honest
<1>3. BeganKnown'  BY StillKnown DEF BeganKnown
<1> QED  BY <1>1, <1>2, <1>3

Kept == /\ SessionTypeOK' /\ Sound(session)' /\ Honest(session.log)' /\ BeganKnown' /\ Runs'
        /\ After(session')

\* A read or a boot: nothing runs, or nothing changes.
LEMMA IdleKept ==
    ASSUME LogInv, JournalKept', After(session'), UNCHANGED <<run, began, busy>>,
           failed' \in BOOLEAN, phase' \in {"down", "marking", "sweeping", "up"},
           Live # {} => session' = session /\ phase' = phase
    PROVE  Kept
<1>1. Runs'
  <2>1. CASE Live = {}  BY <2>1 DEF LogInv, Runs, Live
  <2>2. CASE session' = session /\ phase' = phase
        BY <2>2 DEF LogInv, Runs, Live, Queued, UnderWay, NoneBefore
  <2> QED  BY <2>1, <2>2
<1>2. run' \in [Turns -> Run] /\ busy' \in BOOLEAN  BY DEF LogInv, SessionTypeOK
<1> QED  BY <1>1, <1>2, Conclude DEF Kept, RunsOn

\* A run goes, and with it the only one that was under way.
LEMMA GoneKept ==
    ASSUME LogInv, JournalKept', After(session'), began' = began, phase' = phase,
           busy' \in BOOLEAN, failed' \in BOOLEAN,
           NEW t \in Turns, run' = [run EXCEPT ![t] = Gone],
           \A u \in Live : u # t => Queued(u),
           \A u \in Turns : session.log.turn[u] = "none" => session'.log.turn[u] = "none"
    PROVE  Kept
<1>1. run \in [Turns -> Run] /\ Gone \in Run  BY DEF LogInv, SessionTypeOK, Gone, At, Run, Places
<1>2. \A u \in Turns : run'[u] = IF u = t THEN Gone ELSE run[u]  BY <1>1
<1>3. \A u \in Live' : u \in Live /\ u # t /\ Queued(u)' /\ ~ UnderWay(u)'
      BY <1>2 DEF Live, Queued, UnderWay
<1>4. \A u \in Turns : run'[u].given <= MaxCalls[u]
      BY <1>2, BoundsAssumption DEF LogInv, Runs, Gone, At, Turns
<1>5. \A u \in Live' : /\ phase' = "up" /\ session'.row[u] # "absent"
                       /\ \A v \in Turns : v > u => session'.log.turn[v] = "none"
  <2> SUFFICES ASSUME NEW u \in Live'
               PROVE  /\ phase' = "up" /\ session'.row[u] # "absent"
                      /\ \A v \in Turns : v > u => session'.log.turn[v] = "none"
      OBVIOUS
  <2>1. u \in Live /\ u # t /\ u \in Turns  BY <1>3 DEF Live
  <2>2. phase' = "up" /\ session'.row[u] # "absent"  BY <2>1 DEF LogInv, Runs, After
  <2>3. ASSUME NEW v \in Turns, v > u  PROVE session'.log.turn[v] = "none"
    <3>1. session.log.turn[v] = "none"  BY <2>1, <2>3 DEF LogInv, Runs
    <3> QED  BY <3>1
  <2> QED  BY <2>2, <2>3
<1>6. \A u \in Live' : Queued(u)' => session'.log.turn[u] = "none"
      BY <1>3 DEF LogInv, Runs, Live
<1>7. Runs'  BY <1>3, <1>4, <1>5, <1>6 DEF Runs
<1>8. run' \in [Turns -> Run]  BY <1>1
<1>9. phase' \in {"down", "marking", "sweeping", "up"}  BY DEF LogInv, SessionTypeOK
<1>10. RunsOn  BY <1>2 DEF RunsOn
<1> QED  BY <1>7, <1>8, <1>9, <1>10, Conclude DEF Kept

-----------------------------------------------------------------------------
(* The work of a turn that is under way.                                     *)

\* The session's rows and turns are as they were.
Calm(s) ==
    s.row = session.row /\ s.log.turn = session.log.turn /\ s.log.tail = session.log.tail

LEMMA CommitCalm ==
    ASSUME NEW passed, NEW end, Commit(passed, end), Calm(end), \A s \in passed : Calm(s)
    PROVE  Calm(session')
BY DEF Commit, Calm

LEMMA WorkRuns ==
    ASSUME LogInv, JournalKept', NEW t \in Turns, UnderWay(t),
           NEW place \in Run, place.place \notin {"waiting", "cancelled"},
           run[t].given <= place.given, place.given <= MaxCalls[t],
           NEW passed, NEW end, Write(t, passed, end, place),
           After(end), Calm(end), \A s \in passed : After(s) /\ Calm(s), busy' = busy
    PROVE  /\ Runs' /\ After(session') /\ Calm(session') /\ (~ failed' => session' = end)
           /\ run' \in [Turns -> Run] /\ failed' \in BOOLEAN /\ busy' \in BOOLEAN
           /\ phase' \in {"down", "marking", "sweeping", "up"}
           /\ run'[t] = Gone \/ run'[t] = place
           /\ RunsOn
<1>1. Held /\ Live # {} /\ Seen = session  BY SeenLive DEF LogInv, Held, UnderWay
<1>2. Commit(passed \cup {Seen}, end) /\ phase' = phase
      /\ run' = [run EXCEPT ![t] = IF failed' THEN Gone ELSE place]
      BY DEF Write
<1>3. After(session') /\ Calm(session') /\ (~ failed' => session' = end)
      BY <1>1, <1>2, CommitAfter, CommitCalm, NowAfter DEF Calm
<1>4. run \in [Turns -> Run] /\ Gone \in Run /\ run[t] # Gone /\ ~ Queued(t)
      BY DEF LogInv, SessionTypeOK, Gone, At, Run, Places, UnderWay, Live
<1>5. run' \in [Turns -> Run]  BY <1>2, <1>4
<1>6. \A u \in Turns : u # t => run'[u] = run[u]  BY <1>2, <1>4
<1>7. run'[t] = Gone \/ run'[t] = place  BY <1>2, <1>4
<1>8. Runs'
  <2>1. \A u \in Turns : run'[u].given <= MaxCalls[u]
        BY <1>6, <1>7, BoundsAssumption DEF LogInv, Runs, Gone, At, Turns
  <2>2. Live' \subseteq Live  BY <1>6, <1>4 DEF Live
  <2>3. \A u \in Live' : (Queued(u)' <=> Queued(u)) /\ (UnderWay(u)' => UnderWay(u))
        BY <1>4, <1>6, <1>7, <2>2 DEF Live, Queued, UnderWay, Gone, At
  <2>4. \A u \in Turns : NoneBefore(u) => NoneBefore(u)'  BY <2>2 DEF NoneBefore
  <2>5. Live \subseteq Turns  BY DEF Live
  <2> QED  BY <1>2, <1>3, <2>1, <2>2, <2>3, <2>4, <2>5 DEF LogInv, Runs, Calm
<1>9. failed' \in BOOLEAN /\ busy' \in BOOLEAN /\ phase' \in {"down", "marking", "sweeping", "up"}
      BY <1>2 DEF Commit, LogInv, SessionTypeOK
<1>10. RunsOn
  <2> SUFFICES ASSUME run'[t] = place
               PROVE ~ Queued(t)' /\ run'[t].given >= run[t].given
      BY <1>4, <1>6, <1>7 DEF RunsOn
  <2>1. run[t].given \in Int /\ place.given \in Int  BY <1>4 DEF Run
  <2> QED  BY <2>1 DEF Queued
<1> QED  BY <1>3, <1>5, <1>7, <1>8, <1>9, <1>10

LEMMA WorkKept ==
    ASSUME LogInv, JournalKept', NEW t \in Turns, UnderWay(t),
           NEW place \in Run, place.place \notin {"waiting", "cancelled"},
           run[t].given <= place.given, place.given <= MaxCalls[t],
           NEW passed, NEW end, Write(t, passed, end, place),
           After(end), Calm(end), \A s \in passed : After(s) /\ Calm(s),
           began' \subseteq began, busy' = busy
    PROVE  Kept
BY WorkRuns, Conclude DEF Kept

LEMMA ResultedWork ==
    ASSUME LogInv, NEW s, After(s), Calm(s), NEW calls, NEW state \in States,
           NEW next, next = [s EXCEPT !.log = Resulted(@, calls, state)]
    PROVE  After(next) /\ Calm(next)
<1>1. Held /\ s \in Session /\ s.log \in Log /\ Honest(s.log) /\ began \subseteq Calls
      BY SessionParts DEF LogInv, Held, After, Sound, SessionTypeOK
<1> DEFINE log == Resulted(s.log, calls, state)
<1>2. log \in Log /\ log.turn = s.log.turn /\ log.tail = s.log.tail  BY <1>1, ResultedLog
<1>3. Honest(log)  BY <1>1, ResultedHonest
<1>4. next = [s EXCEPT !.log = log]  OBVIOUS
<1> HIDE DEF log
<1>5. After(next)  BY <1>1, <1>2, <1>3, <1>4, LogAfter
<1>6. next.row = s.row /\ next.log = log  BY <1>1, <1>4, SessionParts
<1> QED  BY <1>2, <1>5, <1>6 DEF Calm

\* What holds wherever a turn that is under way writes.
LEMMA AtWork ==
    ASSUME LogInv, NEW t \in Turns, run[t].place \notin {"none", "waiting", "cancelled"}
    PROVE  /\ UnderWay(t) /\ Seen = session /\ After(Seen) /\ Calm(Seen)
           /\ run[t] \in Run /\ run[t].given \in Nat /\ run[t].handled \in Nat /\ run[t].from \in Nat
           /\ run[t].counted \in Nat /\ MaxCalls[t] \in Nat /\ run[t].given <= MaxCalls[t]
<1>1. UnderWay(t)  BY DEF UnderWay, Live, Queued, Gone, At
<1>2. Seen = session  BY <1>1, SeenLive DEF UnderWay, LogInv, Held
<1>3. After(Seen) /\ Calm(Seen)  BY <1>2, NowAfter DEF LogInv, Held, Calm
<1> QED  BY <1>1, <1>2, <1>3, BoundsAssumption DEF LogInv, SessionTypeOK, Run, Runs, Turns

LEMMA FromCalls ==
    ASSUME NEW t \in Turns, NEW first \in Nat, NEW last \in Nat, last <= MaxCalls[t]
    PROVE  From(t, first, last) \in SUBSET Calls
<1>1. first + 1 .. last \subseteq 1 .. MaxCalls[t]  BY BoundsAssumption DEF Turns
<1> QED  BY <1>1 DEF From, Calls

LEMMA ResponseKept ==
    ASSUME LogInv, JournalKept', NEW t \in Turns, NEW calls \in 0 .. MaxCalls[t],
           NEW dropped \in BOOLEAN, Response(t, calls, dropped)
    PROVE  Kept
<1> DEFINE r     == run[t]
           given == r.given + calls
           place == [r EXCEPT !.place = "calling", !.from = r.given, !.given = given,
                              !.handled = IF dropped THEN given ELSE @]
           log   == Offered(Seen.log, From(t, r.given, given))
           end   == [Seen EXCEPT !.log = log]
<1>1. /\ UnderWay(t) /\ Seen = session /\ After(Seen) /\ Calm(Seen) /\ r \in Run
      /\ r.given \in Nat /\ r.handled \in Nat /\ MaxCalls[t] \in Nat
      BY AtWork DEF Response
<1>2. calls \in Nat /\ given \in Nat /\ r.given <= given /\ given <= MaxCalls[t]
      BY <1>1 DEF Response
<1>3. Write(t, {}, end, place) /\ busy' = busy /\ began' = began  BY DEF Response, Same
<1>4. place \in Run /\ place.place = "calling" /\ place.given = given
      BY <1>1, <1>2 DEF Run, Places
<1>5. From(t, r.given, given) \in SUBSET Calls  BY <1>1, <1>2, FromCalls
<1>6. From(t, r.given, given) \cap began = {}
  <2> SUFFICES ASSUME NEW c \in began, c \in From(t, r.given, given)  PROVE FALSE
      OBVIOUS
  <2>1. c[1] = t /\ c[2] \in r.given + 1 .. given  BY DEF From
  <2>2. c[2] <= r.given  BY <1>1, <2>1 DEF LogInv, BeganKnown, UnderWay, Live
  <2> QED  BY <1>1, <1>2, <2>1, <2>2
<1>7. Seen \in Session /\ Seen.log \in Log /\ Honest(Seen.log) /\ began \subseteq Calls /\ Held
      BY <1>1, SessionParts DEF After, Sound, LogInv, SessionTypeOK, Held
<1>8. log \in Log /\ log.turn = Seen.log.turn /\ log.tail = Seen.log.tail /\ Honest(log)
      BY <1>5, <1>6, <1>7, OfferedLog
<1> HIDE DEF log
<1>9. After(end)  BY <1>1, <1>7, <1>8, LogAfter
<1>10. Calm(end)  BY <1>1, <1>7, <1>8, SessionParts DEF Calm
<1> HIDE DEF end, place, given
<1> QED  BY <1>1, <1>2, <1>3, <1>4, <1>9, <1>10, WorkKept

LEMMA DispatchKept ==
    ASSUME LogInv, JournalKept', NEW t \in Turns, Dispatch(t)  PROVE Kept
<1> DEFINE place == [run[t] EXCEPT !.place = "executing", !.counted = @ + 1]
           call  == Current(t)
           log   == Dispatched(Seen.log, call)
           end   == [Seen EXCEPT !.log = log]
<1>1. /\ UnderWay(t) /\ Seen = session /\ After(Seen) /\ Calm(Seen)
      /\ run[t] \in Run /\ run[t].given \in Nat /\ run[t].handled \in Nat
      /\ run[t].counted + 1 \in Nat /\ MaxCalls[t] \in Nat /\ run[t].given <= MaxCalls[t]
      BY AtWork DEF Dispatch, Open
<1>2. Write(t, {}, end, place) /\ busy' = busy
      /\ began' = IF failed' THEN began ELSE began \cup {call}
      BY DEF Dispatch
<1>3. place \in Run /\ place.place = "executing" /\ place.given = run[t].given
      BY <1>1 DEF Run, Places
<1>4. run[t].handled + 1 \in 1 .. MaxCalls[t] /\ run[t].handled + 1 <= run[t].given
      BY <1>1 DEF Dispatch, Open
<1>5. call \in Calls /\ call[1] = t /\ call[2] <= run[t].given  BY <1>4 DEF Current, Calls
<1>6. Seen \in Session /\ Seen.log \in Log /\ Honest(Seen.log) /\ began \subseteq Calls /\ Held
      BY <1>1, SessionParts DEF After, Sound, LogInv, SessionTypeOK, Held
<1>7. /\ log \in Log /\ log.turn = Seen.log.turn /\ log.tail = Seen.log.tail
      /\ log.pending = Seen.log.pending /\ log.result = Seen.log.result
      /\ Seen.log.started \subseteq log.started /\ (call \in log.pending => call \in log.started)
      BY <1>5, <1>6, DispatchedLog
<1> HIDE DEF log, call
<1>8. Honest(log)  BY <1>6, <1>7 DEF Honest
<1>9. After(end)  BY <1>1, <1>6, <1>7, <1>8, LogAfter
<1>10. Calm(end) /\ end.log = log  BY <1>1, <1>6, <1>7, SessionParts DEF Calm
<1> HIDE DEF end, place
<1>11. CASE failed'
       BY <1>1, <1>2, <1>3, <1>9, <1>10, <1>11, WorkKept
<1>12. CASE ~ failed'
  <2>1. /\ Runs' /\ After(session') /\ Calm(session') /\ session' = end
        /\ run' \in [Turns -> Run] /\ failed' \in BOOLEAN /\ busy' \in BOOLEAN
        /\ phase' \in {"down", "marking", "sweeping", "up"}
        /\ run'[t] = Gone \/ run'[t] = place
        /\ RunsOn
        BY <1>1, <1>2, <1>3, <1>9, <1>10, <1>12, WorkRuns
  <2>2. began' = began \cup {call}  BY <1>2, <1>12
  <2>3. Sound(session)'  BY <2>1 DEF After, Sound
  <2>4. SessionTypeOK'
        BY <1>5, <1>6, <2>1, <2>2, <2>3 DEF SessionTypeOK, Sound, JournalKept
  <2>5. Honest(session.log)'
        BY <1>7, <1>8, <1>10, <2>1, <2>2 DEF Honest
  <2>7. BeganKnown'
    <3>1. \A c \in began : /\ session'.row[c[1]] # "absent"
                           /\ run'[c[1]] = Gone \/ (~ Queued(c[1])' /\ c[2] <= run'[c[1]].given)
          BY <2>1, StillKnown
    <3>2. session'.row[t] # "absent"
          BY <1>1, <2>1 DEF Calm, LogInv, Runs, UnderWay
    <3>3. run'[t] = Gone \/ (~ Queued(t)' /\ call[2] <= run'[t].given)
          BY <1>3, <1>5, <2>1 DEF Queued
    <3> QED  BY <1>5, <2>2, <3>1, <3>2, <3>3 DEF BeganKnown
  <2> QED  BY <2>1, <2>3, <2>4, <2>5, <2>7 DEF Kept
<1> QED  BY <1>11, <1>12

\* The other actions of a call answer calls, or nothing.
LEMMA AnswerKept ==
    ASSUME LogInv, JournalKept', NEW t \in Turns,
           \/ Refuse(t) \/ RefuseRest(t) \/ OverBudget(t) \/ ToolAborted(t)
           \/ \E last \in 1 .. MaxCalls[t] : Block(t, last)
           \/ \E state \in States : ToolReturns(t, state)
    PROVE  Kept
<1>1. run[t].place \notin {"none", "waiting", "cancelled"}
      BY DEF Refuse, RefuseRest, OverBudget, ToolAborted, Block, ToolReturns, Open
<1>2. /\ UnderWay(t) /\ Seen = session /\ After(Seen) /\ Calm(Seen)
      /\ run[t] \in Run /\ run[t].given \in Nat /\ run[t].handled \in Nat
      /\ MaxCalls[t] \in Nat /\ run[t].given <= MaxCalls[t]
      BY <1>1, AtWork
<1>3. {"not_started", "unconfirmed"} \subseteq States  BY DEF States
<1>5. \A calls : After(NotStarted(calls)) /\ Calm(NotStarted(calls))
      BY <1>2, <1>3, ResultedWork DEF NotStarted
<1>6. \A state \in States : After(Answered(t, state)) /\ Calm(Answered(t, state))
      BY <1>2, ResultedWork DEF Answered
<1> DEFINE counted  == [run[t] EXCEPT !.handled = @ + 1, !.counted = @ + 1]
           returned == [run[t] EXCEPT !.handled = @ + 1, !.place = "calling"]
           ending   == [run[t] EXCEPT !.place = "ending"]
<1>7. /\ counted \in Run /\ counted.given = run[t].given /\ counted.place = run[t].place
      /\ returned \in Run /\ returned.given = run[t].given /\ returned.place = "calling"
  <2>1. run[t].handled + 1 \in Nat /\ run[t].counted + 1 \in Nat /\ "calling" \in Places
        BY <1>2 DEF Run, Places
  <2> QED  BY <1>2, <2>1 DEF Run
<1>8. ending \in Run /\ ending.given = run[t].given /\ ending.place \notin {"waiting", "cancelled"}
      BY <1>2 DEF Run, Places
<1> HIDE DEF counted, returned, ending
<1>10. \A place \in Run : \A passed, end :
          /\ Write(t, passed, end, place)
          /\ place.place \notin {"waiting", "cancelled"} /\ place.given = run[t].given
          /\ After(end) /\ Calm(end) /\ (\A s \in passed : After(s) /\ Calm(s))
          /\ began' \subseteq began /\ busy' = busy
          => Kept
       BY <1>2, WorkKept
<1>11. CASE Refuse(t)
  <2>1. Write(t, {}, Answered(t, "not_started"), counted) /\ began' = began /\ busy' = busy
        BY <1>11 DEF Refuse, Same, counted
  <2> QED  BY <1>1, <1>3, <1>6, <1>7, <1>10, <2>1
<1>12. ASSUME NEW calls, NEW place \in Run, place.place \notin {"waiting", "cancelled"},
              place.given = run[t].given, Same,
              Write(t, {NotStarted(some) : some \in SUBSET calls}, NotStarted(calls), place)
       PROVE  Kept
  <2> DEFINE passed == {NotStarted(some) : some \in SUBSET calls}
  <2>1. \A s \in passed : After(s) /\ Calm(s)  BY <1>5
  <2>2. Write(t, passed, NotStarted(calls), place) /\ began' = began /\ busy' = busy
        BY <1>12 DEF Same
  <2> HIDE DEF passed
  <2> QED  BY <1>5, <1>10, <1>12, <2>1, <2>2
<1>13. CASE RefuseRest(t) \/ OverBudget(t)
       BY <1>8, <1>12, <1>13 DEF RefuseRest, OverBudget, ending
<1>16. ASSUME NEW last \in 1 .. MaxCalls[t], Block(t, last)  PROVE Kept
  <2> DEFINE blocked == [run[t] EXCEPT !.handled = last]
  <2>1. blocked \in Run /\ blocked.given = run[t].given /\ blocked.place = run[t].place
    <3>1. last \in Nat  BY <1>2
    <3> QED  BY <1>2, <3>1 DEF Run
  <2>2. Write(t, {NotStarted(some) : some \in SUBSET From(t, run[t].handled, last)},
              NotStarted(From(t, run[t].handled, last)), blocked) /\ Same
        BY <1>16 DEF Block
  <2> HIDE DEF blocked
  <2> QED  BY <1>1, <1>12, <2>1, <2>2
<1>14. CASE ToolAborted(t)
  <2> DEFINE rest == From(t, run[t].handled + 1, run[t].given)
             end  == [Answered(t, "unconfirmed") EXCEPT !.log = Resulted(@, rest, "not_started")]
  <2>1. After(Answered(t, "unconfirmed")) /\ Calm(Answered(t, "unconfirmed"))
        BY <1>3, <1>6
  <2>2. After(end) /\ Calm(end)  BY <1>3, <2>1, ResultedWork
  <2> DEFINE passed == {Answered(t, "unconfirmed")}
  <2>3. Write(t, passed, end, ending) /\ began' = began /\ busy' = busy
        BY <1>14 DEF ToolAborted, Same, ending
  <2>4. \A s \in passed : After(s) /\ Calm(s)  BY <2>1
  <2> HIDE DEF end, passed
  <2> QED  BY <1>8, <1>10, <2>2, <2>3, <2>4
<1>15. ASSUME NEW state \in States, ToolReturns(t, state)  PROVE Kept
  <2>1. Write(t, {}, Answered(t, state), returned) /\ began' \subseteq began /\ busy' = busy
        BY <1>15 DEF ToolReturns, returned
  <2> QED  BY <1>6, <1>7, <1>10, <2>1
<1> QED  BY <1>11, <1>13, <1>14, <1>15, <1>16

LEMMA StepKept ==
    ASSUME LogInv, JournalKept', NEW t \in Turns, Ask(t) \/ StepEnds(t)  PROVE Kept
<1>1. run[t].place \notin {"none", "waiting", "cancelled"}  BY DEF Ask, StepEnds
<1>2. /\ UnderWay(t) /\ After(Seen) /\ Calm(Seen) /\ run[t] \in Run /\ run[t].given \in Nat
      /\ run[t].given <= MaxCalls[t]
      BY <1>1, AtWork
<1>3. PICK place \in {"asking", "ready", "done"} :
         Write(t, {}, Seen, [run[t] EXCEPT !.place = place])
      BY DEF Ask, StepEnds
<1> DEFINE next == [run[t] EXCEPT !.place = place]
<1>4. next \in Run /\ next.given = run[t].given /\ next.place \notin {"waiting", "cancelled"}
      BY <1>2 DEF Run, Places
<1>5. Write(t, {}, Seen, next) /\ began' = began /\ busy' = busy
      BY <1>3 DEF Ask, StepEnds, Same
<1> HIDE DEF next
<1> QED  BY <1>2, <1>4, <1>5, WorkKept

-----------------------------------------------------------------------------
(* Runs come and go.                                                         *)

LEMMA TurnsOrdered == \A t, u \in Turns : t \in Int /\ (t <= u /\ u <= t => t = u)
BY BoundsAssumption DEF Turns

LEMMA FinishKept ==
    ASSUME LogInv, JournalKept', NEW t \in Live, NEW status \in Endings,
           UnderWay(t) \/ NoneBefore(t), Write(t, {}, Finished(Seen, t, status), Gone),
           busy' = (busy /\ failed'), began' = began
    PROVE  Kept
<1>1. Held /\ Seen = session /\ t \in Turns  BY SeenLive DEF LogInv, Held, Live
<1>2. \A u \in Live : u # t => Queued(u)
  <2> SUFFICES ASSUME NEW u \in Live, u # t, ~ Queued(u)  PROVE FALSE
      OBVIOUS
  <2>1. NoneBefore(u) /\ NoneBefore(t)  BY DEF LogInv, Runs, UnderWay
  <2> QED  BY <2>1, TurnsOrdered DEF NoneBefore, Live
<1> DEFINE end == Finished(session, t, status)
<1>3. After(end)  BY <1>1, NowAfter, FinishedAfter DEF LogInv, Runs
<1>4. \A u \in Turns : session.log.turn[u] = "none" => end.log.turn[u] = "none"
  <2>1. end.log = FinishedLog(session.log, t, status)  BY DEF Finished, FinishedLog
  <2> QED  BY <1>1, <2>1, FinishedLogKept DEF TurnsKept, LogInv, Sound
<1>5. Commit({session}, end) /\ phase' = phase /\ run' = [run EXCEPT ![t] = Gone]
      BY <1>1 DEF Write
<1> HIDE DEF end
<1>6. After(session')  BY <1>1, <1>3, <1>5, CommitAfter, NowAfter
<1>7. \A u \in Turns : session.log.turn[u] = "none" => session'.log.turn[u] = "none"
      BY <1>4, <1>5 DEF Commit
<1>8. busy' \in BOOLEAN /\ failed' \in BOOLEAN  BY <1>5 DEF LogInv, SessionTypeOK, Commit
<1> QED  BY <1>1, <1>2, <1>5, <1>6, <1>7, <1>8, GoneKept

LEMMA AbandonKept == ASSUME LogInv, JournalKept', NEW t \in Turns, Abandon(t)  PROVE Kept
<1>1. run' = [run EXCEPT ![t] = Gone] /\ UNCHANGED <<session, began, busy, phase, failed>>
      BY DEF Abandon
<1>2. run \in [Turns -> Run] /\ Gone \in Run  BY DEF LogInv, SessionTypeOK, Gone, At, Run, Places
<1>3. \A u \in Turns : run'[u] = Gone \/ run'[u] = run[u]  BY <1>1, <1>2
<1>4. After(session')  BY <1>1, NowAfter DEF LogInv, Held
<1>5. Live' \subseteq Live /\ Live \subseteq Turns  BY <1>3 DEF Live
<1>6. \A u \in Live' : run'[u] = run[u]  BY <1>3 DEF Live
<1>7. \A u \in Turns : run'[u].given <= MaxCalls[u]
      BY <1>3, BoundsAssumption DEF LogInv, Runs, Gone, At, Turns
<1>8. Runs'
      BY <1>1, <1>5, <1>6, <1>7 DEF LogInv, Runs, Queued, UnderWay, NoneBefore
<1>9. run' \in [Turns -> Run] /\ RunsOn  BY <1>1, <1>2, <1>3 DEF RunsOn
<1>10. busy' \in BOOLEAN /\ failed' \in BOOLEAN /\ phase' \in {"down", "marking", "sweeping", "up"}
       BY <1>1 DEF LogInv, SessionTypeOK
<1> QED  BY <1>1, <1>4, <1>8, <1>9, <1>10, Conclude DEF Kept

\* A queued run is cancelled: the turn that is under way is before it, so the
\* row keeps the reads from it though the session looks idle.
LEMMA CancelKept == ASSUME LogInv, JournalKept', NEW t \in Turns, CancelQueued(t)  PROVE Kept
<1>1. t \in Live /\ Queued(t) /\ run[t] # Gone  BY DEF CancelQueued, Live, Queued, Gone, At
<1>2. Held /\ Seen = session  BY <1>1, SeenLive DEF LogInv, Held
<1>3. session.log.turn[t] = "none" /\ session.row[t] # "absent" /\ session \in Session
      BY <1>1 DEF LogInv, Runs, Sound
<1> DEFINE end == Finished(session, t, "interrupted")
<1>4. end = [row |-> [session.row EXCEPT ![t] = "interrupted"], log |-> session.log]
      BY <1>3 DEF Finished
<1>5. After(end)  BY <1>2, <1>3, NowAfter, FinishedAfter DEF Endings
<1>6. /\ Commit({session}, end) /\ phase' = phase /\ busy' = (busy /\ failed') /\ began' = began
      /\ run' = [run EXCEPT ![t] = IF failed' THEN Gone ELSE At("cancelled")]
      BY <1>2 DEF CancelQueued, Write
<1>7. end.log = session.log /\ \A u \in Turns : u # t => end.row[u] = session.row[u]
      BY <1>3, <1>4, SessionParts
<1> HIDE DEF end
<1>8. After(session') /\ session'.log = session.log
      /\ \A u \in Turns : u # t => session'.row[u] = session.row[u]
      BY <1>2, <1>5, <1>6, <1>7, CommitAfter, NowAfter DEF Commit
<1>9. run \in [Turns -> Run] /\ Gone \in Run /\ At("cancelled") \in Run
      BY DEF LogInv, SessionTypeOK, Gone, At, Run, Places
<1>10. \A u \in Turns : u # t => run'[u] = run[u]  BY <1>6, <1>9
<1>11. run'[t] = Gone \/ (run'[t] = At("cancelled") /\ Queued(t)' /\ ~ UnderWay(t)')
       BY <1>6, <1>9 DEF Queued, UnderWay, At
<1>12. Live' \subseteq Live /\ Live \subseteq Turns  BY <1>1, <1>10 DEF Live
<1>13. \A u \in Turns : run'[u].given <= MaxCalls[u]
       BY <1>10, <1>11, BoundsAssumption DEF LogInv, Runs, Gone, At, Turns
<1>14. \A u \in Live' : /\ phase' = "up" /\ session'.row[u] # "absent"
                        /\ \A v \in Turns : v > u => session'.log.turn[v] = "none"
       BY <1>6, <1>8, <1>12 DEF LogInv, Runs, After
<1>15. \A u \in Live' : Queued(u)' => session'.log.turn[u] = "none"
       BY <1>3, <1>8, <1>10, <1>12 DEF LogInv, Runs, Queued
<1>16. ASSUME NEW u \in Live', UnderWay(u)'
       PROVE  /\ NoneBefore(u)' /\ session'.log.turn[u] = "open" /\ session'.log.tail = u
              /\ session'.row[u] = "streaming"
              /\ \E v \in Turns : v > u /\ session'.row[v] # "absent"
  <2>1. u # t /\ u \in Turns /\ run'[u] = run[u]  BY <1>10, <1>11, <1>12, <1>16 DEF Live
  <2>2. UnderWay(u)  BY <1>12, <1>16, <2>1 DEF UnderWay, Queued
  <2>3. /\ NoneBefore(u) /\ session.log.turn[u] = "open" /\ session.log.tail = u
        /\ session.row[u] = "streaming"
        BY <2>2 DEF LogInv, Runs, UnderWay
  <2>4. t > u /\ session'.row[t] # "absent"
    <3>1. u <= t  BY <1>1, <2>3, TurnsOrdered DEF NoneBefore
    <3> QED  BY <1>3, <1>8, <2>1, <3>1, TurnsOrdered DEF After
  <2> QED  BY <1>8, <1>12, <2>1, <2>3, <2>4 DEF NoneBefore
<1>17. Runs'  BY <1>13, <1>14, <1>15, <1>16 DEF Runs
<1>18. \A c \in began : c[1] # t  BY <1>1 DEF LogInv, BeganKnown
<1>19. RunsOn /\ run' \in [Turns -> Run]  BY <1>6, <1>9, <1>10, <1>18 DEF RunsOn
<1>20. busy' \in BOOLEAN /\ failed' \in BOOLEAN /\ phase' \in {"down", "marking", "sweeping", "up"}
       BY <1>6 DEF LogInv, SessionTypeOK, Commit
<1> QED  BY <1>6, <1>8, <1>17, <1>19, <1>20, Conclude DEF Kept

\* A turn is opened when no run before it is left and no other is under way.
LEMMA OpenKept ==
    ASSUME LogInv, JournalKept', NEW t \in Turns, After(session'), Ready, phase' = phase,
           began' = began, failed' \in BOOLEAN, busy' = (busy \/ ~ failed'),
           \A u \in Live : u # t => Queued(u) /\ u > t,
           \A u \in Turns : u # t /\ session.log.turn[u] = "none" => session'.log.turn[u] = "none",
           \A u \in Turns : u > t => session.log.turn[u] = "none",
           \A c \in began : c[1] # t,
           run' = [run EXCEPT ![t] = IF failed' THEN Gone ELSE At("ready")],
           ~ failed' => /\ session'.log.turn[t] = "open" /\ session'.log.tail = t
                        /\ session'.row[t] = "streaming"
    PROVE  Kept
<1>1. run \in [Turns -> Run] /\ Gone \in Run /\ At("ready") \in Run
      BY DEF LogInv, SessionTypeOK, Gone, At, Run, Places
<1>2. \A u \in Turns : u # t => run'[u] = run[u]  BY <1>1
<1>3. run'[t] = IF failed' THEN Gone ELSE At("ready")  BY <1>1
<1>4. \A u \in Live' : u # t => u \in Live /\ Queued(u)' /\ ~ UnderWay(u)' /\ u > t
      BY <1>2 DEF Live, Queued, UnderWay
<1>5. t \in Live' => ~ failed' /\ ~ Queued(t)' /\ run'[t] = At("ready")
      BY <1>3 DEF Live, Queued, At
<1>6. \A u \in Turns : run'[u].given <= MaxCalls[u]
      BY <1>2, <1>3, BoundsAssumption DEF LogInv, Runs, Gone, At, Turns
<1>7. ASSUME NEW u \in Live'
      PROVE  /\ phase' = "up" /\ session'.row[u] # "absent"
             /\ \A v \in Turns : v > u => session'.log.turn[v] = "none"
  <2>1. CASE u = t  BY <1>5, <1>7, <2>1, TurnsOrdered DEF Ready
  <2>2. CASE u # t
    <3>1. u \in Live /\ u > t /\ u \in Turns  BY <1>4, <2>2 DEF Live
    <3>2. session'.row[u] # "absent"  BY <3>1 DEF LogInv, Runs, After
    <3>3. \A v \in Turns : v > u => v # t /\ session.log.turn[v] = "none"
          BY <3>1, TurnsOrdered DEF LogInv, Runs
    <3> QED  BY <3>2, <3>3 DEF Ready
  <2> QED  BY <2>1, <2>2
<1>8. \A u \in Live' : Queued(u)' => session'.log.turn[u] = "none"
      BY <1>4, <1>5, <1>2 DEF LogInv, Runs, Queued, Live
<1>9. \A u \in Live' : UnderWay(u)' => u = t  BY <1>4
<1>10. NoneBefore(t)'  BY <1>4, TurnsOrdered DEF NoneBefore, Live
<1>11. Runs'  BY <1>5, <1>6, <1>7, <1>8, <1>9, <1>10 DEF Runs
<1>12. RunsOn /\ run' \in [Turns -> Run]  BY <1>1, <1>2 DEF RunsOn
<1>13. busy' \in BOOLEAN /\ phase' \in {"down", "marking", "sweeping", "up"}
       BY DEF LogInv, SessionTypeOK
<1> QED  BY <1>11, <1>12, <1>13, Conclude DEF Kept

\* The turn's start, written to a log that does not know it, and a row.
LEMMA OpenedAfter ==
    ASSUME Held, NEW s, After(s), NEW t \in Turns, s.log.turn[t] = "none",
           NEW row, row \in [Turns -> {"absent", "queued", "streaming"} \cup Endings],
           \A u \in Turns : u # t => row[u] = s.row[u],
           row[t] # "absent", \A u \in Turns : u < t => s.row[u] # "absent",
           NEW next, next = [row |-> row, log |-> TurnStart(s.log, t)]
    PROVE  /\ After(next) /\ next.row = row /\ next.log.turn[t] = "open" /\ next.log.tail = t
           /\ \A u \in Turns : u # t => next.log.turn[u] = s.log.turn[u]
<1> DEFINE log == TurnStart(s.log, t)
<1>1. s \in Session /\ s.log \in Log  BY SessionParts DEF After, Sound
<1>2. /\ log \in Log /\ log.turn[t] = "open" /\ log.tail = t /\ log.pending = {}
      /\ \A u \in Turns : u # t => log.turn[u] = s.log.turn[u]
  <2>1. "open" \in {"open"} \cup Endings /\ t \in {0} \cup Turns  OBVIOUS
  <2>2. log = Turned(s.log, t, "open", t)  BY DEF TurnStart
  <2>3. s.log \in Log  BY <1>1
  <2> HIDE DEF log
  <2>4. log \in Log  BY <2>1, <2>2, <2>3, TurnedLog
  <2>5. log.turn[t] = "open" /\ log.tail = t /\ log.pending = {}  BY <2>1, <2>2, <2>3, TurnedLog
  <2>6. \A u \in Turns : u # t => log.turn[u] = s.log.turn[u]  BY <2>1, <2>2, <2>3, TurnedLog
  <2> QED  BY <2>4, <2>5, <2>6
<1> HIDE DEF log
<1>3. next \in Session /\ next.row = row /\ next.log = log
  <2>1. next = [row |-> row, log |-> log]  BY DEF log
  <2> QED  BY <1>2, <2>1 DEF Session
<1>4. SoundLog(log) /\ Honest(log)  BY <1>2 DEF SoundLog, Honest
<1>5. \A u \in Turns : log.turn[u] # "none" => row[u] # "absent"  BY <1>2 DEF After, Sound
<1>6. \A u, v \in Turns : v < u /\ row[v] = "absent" => row[u] = "absent"
  <2> SUFFICES ASSUME NEW u \in Turns, NEW v \in Turns, v < u, row[v] = "absent", row[u] # "absent"
               PROVE  FALSE
      OBVIOUS
  <2>1. v # t /\ s.row[v] = "absent"  OBVIOUS
  <2>2. CASE u = t  BY <2>1, <2>2
  <2>3. CASE u # t  BY <2>1, <2>3 DEF After, Sound
  <2> QED  BY <2>2, <2>3
<1>7. \A u \in Turns : /\ session.log.turn[u] \in Endings => log.turn[u] = session.log.turn[u]
                       /\ session.row[u] # "absent" => row[u] # "absent"
  <2>1. "none" \notin Endings  BY DEF Endings
  <2> QED  BY <1>2, <2>1 DEF After
<1> QED  BY <1>2, <1>3, <1>4, <1>5, <1>6, <1>7 DEF After, Sound

LEMMA OpenedParts ==
    ASSUME NEW s \in Session, NEW t \in Turns, s.log.turn[t] = "none"
    PROVE  /\ Opened(s, t) = [row |-> s.row, log |-> TurnStart(s.log, t)]
           /\ [Opened(s, t) EXCEPT !.row[t] = "streaming"]
                 = [row |-> [s.row EXCEPT ![t] = "streaming"], log |-> TurnStart(s.log, t)]
<1>1. Opened(s, t) = [s EXCEPT !.log = TurnStart(s.log, t)]  BY DEF Opened
<1>2. Opened(s, t) = [row |-> s.row, log |-> TurnStart(s.log, t)]  BY <1>1, SessionParts
<1>3. \A row, log : [[row |-> row, log |-> log] EXCEPT !.row[t] = "streaming"]
                      = [row |-> [row EXCEPT ![t] = "streaming"], log |-> log]
      OBVIOUS
<1> QED  BY <1>2, <1>3

LEMMA StartKept == ASSUME LogInv, JournalKept', NEW t \in Turns, StartQueued(t)  PROVE Kept
<1>1. t \in Live /\ Queued(t) /\ run[t] # Gone /\ NoneBefore(t)
      BY DEF StartQueued, Live, Queued, Gone, At
<1>2. Held /\ Seen = session /\ After(session)  BY <1>1, SeenLive, NowAfter DEF LogInv, Held
<1>3. session.log.turn[t] = "none" /\ session.row[t] # "absent" /\ session \in Session
      BY <1>1 DEF LogInv, Runs, Sound
<1>4. \A u \in Turns : u < t => session.row[u] # "absent"  BY <1>3 DEF LogInv, Sound
<1> DEFINE row == [session.row EXCEPT ![t] = "streaming"]
           opened == [row |-> session.row, log |-> TurnStart(session.log, t)]
           end    == [row |-> row, log |-> TurnStart(session.log, t)]
<1>5. Opened(session, t) = opened /\ [Opened(session, t) EXCEPT !.row[t] = "streaming"] = end
      BY <1>3, OpenedParts
<1>6. session.row \in [Turns -> {"absent", "queued", "streaming"} \cup Endings]
      BY <1>3, SessionParts
<1>7. row \in [Turns -> {"absent", "queued", "streaming"} \cup Endings] /\ row[t] = "streaming"
      /\ \A u \in Turns : u # t => row[u] = session.row[u]
      BY <1>6
<1> HIDE DEF row
<1>8. After(opened) /\ \A u \in Turns : u # t => opened.log.turn[u] = session.log.turn[u]
      BY <1>2, <1>3, <1>4, <1>6, OpenedAfter
<1>9. /\ After(end) /\ end.row = row /\ end.log.turn[t] = "open" /\ end.log.tail = t
      /\ \A u \in Turns : u # t => end.log.turn[u] = session.log.turn[u]
      BY <1>2, <1>3, <1>4, <1>7, OpenedAfter
<1>10. /\ Ready /\ Commit({opened} \cup {session}, end) /\ phase' = phase /\ began' = began
       /\ busy' = (busy \/ ~ failed')
       /\ run' = [run EXCEPT ![t] = IF failed' THEN Gone ELSE At("ready")]
       BY <1>2, <1>5 DEF StartQueued, Write
<1> HIDE DEF opened, end
<1>11. After(session') /\ (~ failed' => session' = end)
       BY <1>2, <1>8, <1>9, <1>10, CommitAfter
<1>12. \A u \in Turns : u # t /\ session.log.turn[u] = "none" => session'.log.turn[u] = "none"
       BY <1>8, <1>9, <1>10 DEF Commit
<1>13. \A u \in Live : u # t => Queued(u) /\ u > t
  <2> SUFFICES ASSUME NEW u \in Live, u # t  PROVE Queued(u) /\ u > t
      OBVIOUS
  <2>1. u > t  BY <1>1, TurnsOrdered DEF NoneBefore, Live
  <2>2. ~ NoneBefore(u)  BY <1>1, <2>1, TurnsOrdered DEF NoneBefore, Live
  <2> QED  BY <2>1, <2>2 DEF LogInv, Runs, UnderWay
<1>14. \A u \in Turns : u > t => session.log.turn[u] = "none"  BY <1>1 DEF LogInv, Runs
<1>15. \A c \in began : c[1] # t  BY <1>1 DEF LogInv, BeganKnown
<1>16. failed' \in BOOLEAN  BY <1>10 DEF LogInv, SessionTypeOK, Commit
<1> QED  BY <1>7, <1>9, <1>10, <1>11, <1>12, <1>13, <1>14, <1>15, <1>16, OpenKept

LEMMA CreateKept == ASSUME LogInv, JournalKept', NEW t \in Turns, CreateTurn(t)  PROVE Kept
<1>1. /\ session.row[t] = "absent" /\ \A u \in Turns : u < t => session.row[u] # "absent"
      /\ began' = began
      BY DEF CreateTurn
<1>2. Held /\ After(Seen) /\ After(session) /\ Seen \in Session
      BY SeenAfter, NowAfter DEF LogInv, Held, After, Sound
<1>3. Seen.row[t] = "absent" /\ \A u \in Turns : u < t => Seen.row[u] # "absent"
      BY <1>1, <1>2, SeenRows
<1>4. \A u \in Turns : u >= t => session.row[u] = "absent" /\ session.log.turn[u] = "none"
  <2>1. \A u \in Turns : u > t => session.row[u] = "absent"  BY <1>1 DEF LogInv, Sound
  <2> QED  BY <1>1, <2>1, TurnsOrdered DEF LogInv, Sound
<1>5. Seen.log.turn[t] = "none"  BY <1>2, <1>3 DEF After, Sound
<1>6. \A c \in began : c[1] # t  BY <1>1 DEF LogInv, BeganKnown
<1>7. \A u \in Live : u \in Turns /\ u < t
      BY <1>4, TurnsOrdered DEF LogInv, Runs, Live
<1>8. Seen.row \in [Turns -> {"absent", "queued", "streaming"} \cup Endings]
      BY <1>2, SessionParts
<1>9. \A x \in {"queued", "streaming"} :
         LET row == [Seen.row EXCEPT ![t] = x] IN
             /\ row \in [Turns -> {"absent", "queued", "streaming"} \cup Endings]
             /\ row[t] = x /\ \A u \in Turns : u # t => row[u] = Seen.row[u]
      BY <1>8
<1>10. CASE Live = {} /\ Write(t, {}, [Opened(Seen, t) EXCEPT !.row[t] = "streaming"], At("ready"))
            /\ busy' = (busy \/ ~ failed')
  <2> DEFINE row == [Seen.row EXCEPT ![t] = "streaming"]
             end == [row |-> row, log |-> TurnStart(Seen.log, t)]
  <2>1. [Opened(Seen, t) EXCEPT !.row[t] = "streaming"] = end
        BY <1>2, <1>5, OpenedParts
  <2>2. /\ row \in [Turns -> {"absent", "queued", "streaming"} \cup Endings]
        /\ row[t] = "streaming" /\ \A u \in Turns : u # t => row[u] = Seen.row[u]
        BY <1>9
  <2> HIDE DEF row
  <2>3. /\ After(end) /\ end.row = row /\ end.log.turn[t] = "open" /\ end.log.tail = t
        /\ \A u \in Turns : u # t => end.log.turn[u] = Seen.log.turn[u]
        BY <1>2, <1>3, <1>5, <2>2, OpenedAfter
  <2>4. /\ Ready /\ Commit({Seen}, end) /\ phase' = phase
        /\ run' = [run EXCEPT ![t] = IF failed' THEN Gone ELSE At("ready")]
        BY <1>10, <2>1 DEF Write
  <2> HIDE DEF end
  <2>5. After(session') /\ (~ failed' => session' = end)  BY <1>2, <2>3, <2>4, CommitAfter
  <2>6. \A u \in Turns : session.log.turn[u] = "none" => Seen.log.turn[u] = "none"
    <3>1. TurnsKept(session.log, Repaired(session.log, "interrupted"))
          BY RepairedLog DEF LogInv, Sound, Endings
    <3> QED  BY <3>1 DEF Seen, Recovered, TurnsKept
  <2>7. \A u \in Turns : u # t /\ session.log.turn[u] = "none" => session'.log.turn[u] = "none"
        BY <2>3, <2>4, <2>6 DEF Commit
  <2>8. failed' \in BOOLEAN  BY <2>4 DEF LogInv, SessionTypeOK, Commit
  <2>9. \A u \in Turns : u > t => session.log.turn[u] = "none"  BY <1>4, TurnsOrdered
  <2>10. ~ failed' => /\ session'.log.turn[t] = "open" /\ session'.log.tail = t
                      /\ session'.row[t] = "streaming"
         BY <2>2, <2>3, <2>5
  <2>11. \A u \in Live : u # t => Queued(u) /\ u > t  BY <1>10
  <2>12. busy' = (busy \/ ~ failed')  BY <1>10
  <2> QED  BY <1>1, <1>6, <2>4, <2>5, <2>7, <2>8, <2>9, <2>10, <2>11, <2>12, OpenKept
<1>11. CASE Live # {} /\ Write(t, {}, [Seen EXCEPT !.row[t] = "queued"], At("waiting"))
            /\ busy' = busy
  <2>1. Seen = session  BY <1>2, <1>11, SeenLive DEF LogInv
  <2> DEFINE row == [session.row EXCEPT ![t] = "queued"]
             end == [row |-> row, log |-> session.log]
  <2>2. [Seen EXCEPT !.row[t] = "queued"] = end  BY <1>2, <2>1, SessionParts
  <2>3. /\ row \in [Turns -> {"absent", "queued", "streaming"} \cup Endings]
        /\ row[t] = "queued" /\ \A u \in Turns : u # t => row[u] = session.row[u]
        BY <1>9, <2>1
  <2> HIDE DEF row
  <2>4. end \in Session /\ end.row = row /\ end.log = session.log
        BY <1>2, <2>1, <2>3, SessionParts DEF Session
  <2>5. Sound(end)
    <3>1. \A u \in Turns : end.log.turn[u] # "none" => end.row[u] # "absent"
          BY <2>3, <2>4 DEF LogInv, Sound
    <3>2. \A u, v \in Turns : v < u /\ end.row[v] = "absent" => end.row[u] = "absent"
          BY <1>1, <1>4, <2>3, <2>4, TurnsOrdered DEF LogInv, Sound
    <3> QED  BY <2>4, <3>1, <3>2 DEF LogInv, Sound
  <2>6. After(end)  BY <1>2, <2>3, <2>4, <2>5 DEF After
  <2>7. /\ Commit({session}, end) /\ phase' = phase
        /\ run' = [run EXCEPT ![t] = IF failed' THEN Gone ELSE At("waiting")]
        BY <1>11, <2>1, <2>2 DEF Write
  <2> HIDE DEF end
  <2>8. After(session') /\ session'.log = session.log /\ (~ failed' => session'.row[t] # "absent")
        /\ \A u \in Turns : u # t => session'.row[u] = session.row[u]
        BY <1>2, <2>3, <2>4, <2>6, <2>7, CommitAfter DEF Commit
  <2>9. run \in [Turns -> Run] /\ Gone \in Run /\ At("waiting") \in Run
        BY DEF LogInv, SessionTypeOK, Gone, At, Run, Places
  <2>10. \A u \in Turns : u # t => run'[u] = run[u]  BY <2>7, <2>9
  <2>11. run'[t] = IF failed' THEN Gone ELSE At("waiting")  BY <2>7, <2>9
  <2>12. \A u \in Live' : u # t => u \in Live  BY <2>10 DEF Live
  <2>13. t \in Live' => ~ failed' /\ Queued(t)' /\ ~ UnderWay(t)'
         BY <2>11 DEF Live, Queued, UnderWay, At
  <2>14. \A u \in Turns : run'[u].given <= MaxCalls[u]
         BY <2>10, <2>11, BoundsAssumption DEF LogInv, Runs, Gone, At, Turns
  <2>15. phase' = "up"  BY <1>11 DEF Write, Ready
  <2>16. ASSUME NEW u \in Live'
         PROVE  /\ session'.row[u] # "absent"
                /\ \A v \in Turns : v > u => session'.log.turn[v] = "none"
                /\ Queued(u)' => session'.log.turn[u] = "none"
    <3>1. CASE u = t  BY <1>4, <2>8, <2>13, <3>1, TurnsOrdered
    <3>2. CASE u # t
      <4>1. u \in Live /\ u \in Turns /\ run'[u] = run[u]  BY <2>10, <2>12, <3>2 DEF Live
      <4> QED  BY <2>8, <3>2, <4>1 DEF LogInv, Runs, Queued
    <3> QED  BY <3>1, <3>2
  <2>17. ASSUME NEW u \in Live', UnderWay(u)'
         PROVE  /\ NoneBefore(u)' /\ session'.log.turn[u] = "open" /\ session'.log.tail = u
                /\ session'.row[u] = "streaming"
                /\ busy' \/ \E v \in Turns : v > u /\ session'.row[v] # "absent"
    <3>1. u # t /\ u \in Live /\ u < t /\ u \in Turns /\ run'[u] = run[u]
          BY <1>7, <2>10, <2>12, <2>13, <2>17 DEF Live
    <3>2. UnderWay(u)  BY <2>17, <3>1 DEF UnderWay, Queued
    <3>3. NoneBefore(u)'
      <4>1. \A w \in Live' : w >= u
            BY <2>12, <3>1, <3>2, TurnsOrdered DEF LogInv, Runs, NoneBefore
      <4> QED  BY <4>1 DEF NoneBefore
    <3>4. busy' \/ \E v \in Turns : v > u /\ session'.row[v] # "absent"
          BY <1>11, <3>1, <3>2, <2>8 DEF LogInv, Runs, After
    <3> QED  BY <2>8, <3>1, <3>2, <3>3, <3>4 DEF LogInv, Runs
  <2>18. Runs'  BY <2>14, <2>15, <2>16, <2>17 DEF Runs
  <2>19. RunsOn /\ run' \in [Turns -> Run]  BY <1>6, <2>7, <2>9, <2>10 DEF RunsOn
  <2>20. busy' \in BOOLEAN /\ failed' \in BOOLEAN /\ phase' \in {"down", "marking", "sweeping", "up"}
         BY <1>11, <2>7 DEF LogInv, SessionTypeOK, Commit
  <2> QED  BY <1>1, <2>8, <2>18, <2>19, <2>20, Conclude DEF Kept
<1> QED  BY <1>10, <1>11 DEF CreateTurn

LEMMA TurnActsKept == ASSUME LogInv, JournalKept', NEW t \in Turns, TurnActs(t)  PROVE Kept
<1>1. ASSUME QueuedEnds(t)  PROVE Kept
  <2>1. t \in Live /\ NoneBefore(t)  BY <1>1 DEF QueuedEnds, Live, Gone, At
  <2>2. Write(t, {}, Finished(Seen, t, "interrupted"), Gone)
        /\ busy' = (busy /\ failed') /\ began' = began
        BY <1>1 DEF QueuedEnds
  <2> QED  BY <2>1, <2>2, FinishKept DEF Endings
<1>2. ASSUME NEW status \in Endings, Finish(t, status)  PROVE Kept
  <2>1. UnderWay(t) /\ t \in Live
        BY <1>2 DEF Finish, Ends, UnderWay, Live, Queued, Gone, At
  <2>2. Write(t, {}, Finished(Seen, t, status), Gone)
        /\ busy' = (busy /\ failed') /\ began' = began
        BY <1>2 DEF Finish
  <2> QED  BY <2>1, <2>2, FinishKept
<1> QED  BY <1>1, <1>2, CreateKept, StartKept, CancelKept, StepKept, AbandonKept DEF TurnActs

LEMMA CallActsKept == ASSUME LogInv, JournalKept', NEW t \in Turns, CallActs(t)  PROVE Kept
<1>1. MaxCalls[t] \in Nat  BY BoundsAssumption DEF Turns
<1> QED  BY <1>1, ResponseKept, DispatchKept, AnswerKept DEF CallActs

\* The process starts, reads and dies.
LEMMA ProcessKept ==
    ASSUME LogInv, JournalKept',
           \/ \E t \in Turns : BootActs(t)
           \/ Read \/ FailElsewhere \/ Crash \/ Replay \/ Marked \/ Swept \/ UNCHANGED vars
    PROVE  Kept
<1>1. /\ Held /\ After(session) /\ After(Seen) /\ session \in Session
      /\ phase \in {"down", "marking", "sweeping", "up"}
      /\ failed \in BOOLEAN /\ (phase # "up" => Live = {})
      BY NowAfter, SeenAfter DEF LogInv, Held, SessionTypeOK, Runs, Sound, Live
<1>2. ASSUME NEW t \in Turns, MarkInterrupted(t)  PROVE Kept
  <2> DEFINE row == [session.row EXCEPT ![t] = "interrupted"]
             end == [row |-> row, log |-> session.log]
  <2>1. [session EXCEPT !.row[t] = "interrupted"] = end  BY <1>1, SessionParts
  <2>2. session.row \in [Turns -> {"absent", "queued", "streaming"} \cup Endings]
        /\ SoundLog(session.log) /\ Honest(session.log)
        BY <1>1, SessionParts DEF Held, Sound
  <2>3. row \in [Turns -> {"absent", "queued", "streaming"} \cup Endings]
        BY <2>2 DEF Endings
  <2>4. \A u \in Turns : row[u] = "absent" <=> session.row[u] = "absent"
        BY <1>2, <2>2 DEF MarkInterrupted
  <2> HIDE DEF row
  <2>5. After(end)  BY <1>1, <2>2, <2>3, <2>4, BothAfter
  <2> HIDE DEF end
  <2>6. Commit({}, end) /\ UNCHANGED <<run, began, busy>> /\ Live = {}
        /\ phase' = IF failed' THEN "down" ELSE phase
        BY <1>1, <1>2, <2>1 DEF MarkInterrupted
  <2>7. After(session') /\ failed' \in BOOLEAN  BY <1>1, <2>5, <2>6, CommitAfter DEF Commit
  <2> QED  BY <1>1, <2>6, <2>7, IdleKept
<1>3. ASSUME NEW t \in Turns, SweepQueued(t)  PROVE Kept
  <2>1. Seen.row[t] # "absent"  BY <1>1, <1>3, SeenRows DEF SweepQueued
  <2>2. After(Finished(Seen, t, "interrupted"))  BY <1>1, <2>1, FinishedAfter DEF Endings
  <2>3. Commit({Seen}, Finished(Seen, t, "interrupted")) /\ UNCHANGED <<run, began, busy, phase>>
        /\ Live = {}
        BY <1>1, <1>3 DEF SweepQueued
  <2>4. After(session') /\ failed' \in BOOLEAN  BY <1>1, <2>2, <2>3, CommitAfter DEF Commit
  <2> QED  BY <1>1, <2>3, <2>4, IdleKept
<1>4. CASE Read
  <2>1. Commit({}, Seen) /\ UNCHANGED <<run, began, busy, phase>>  BY <1>4 DEF Read
  <2>2. After(session') /\ failed' \in BOOLEAN  BY <1>1, <2>1, CommitAfter DEF Commit
  <2>3. Live # {} => session' = session  BY <1>1, <2>1, SeenLive DEF LogInv, Commit
  <2> QED  BY <1>1, <2>1, <2>2, <2>3, IdleKept
<1>5. ASSUME session' = session, UNCHANGED <<run, began, busy>>, failed' \in BOOLEAN,
             phase' = phase \/ (phase # "up" /\ phase' \in {"marking", "sweeping", "up"})
      PROVE  Kept
      BY <1>1, <1>5, IdleKept
<1>6. CASE FailElsewhere \/ Replay \/ Marked \/ Swept \/ UNCHANGED vars
      BY <1>1, <1>5, <1>6 DEF FailElsewhere, Replay, Marked, Swept, vars
<1>7. CASE Crash
  <2>1. /\ session' = session /\ began' = began /\ failed' = failed /\ busy' = FALSE
        /\ phase' = "down" /\ run' = [t \in Turns |-> Gone]
        BY <1>7 DEF Crash
  <2>2. Gone \in Run /\ \A t \in Turns : run'[t] = Gone  BY <2>1 DEF Gone, At, Run, Places
  <2>3. Live' = {}  BY <2>2 DEF Live
  <2>4. \A t \in Turns : run'[t].given <= MaxCalls[t]
        BY <2>2, BoundsAssumption DEF Gone, At, Turns
  <2>5. Runs'  BY <2>3, <2>4 DEF Runs
  <2>6. run' \in [Turns -> Run] /\ RunsOn  BY <2>1, <2>2 DEF RunsOn
  <2> QED  BY <1>1, <2>1, <2>5, <2>6, Conclude DEF Kept
<1> QED  BY <1>2, <1>3, <1>4, <1>6, <1>7 DEF BootActs

LEMMA NextKept == ASSUME LogInv, [Next]_vars  PROVE LogInv' /\ After(session')
<1>1. JournalKept'  BY NextJournal DEF LogInv
<1>2. Kept  BY <1>1, TurnActsKept, CallActsKept, ProcessKept DEF Next
<1> QED  BY <1>1, <1>2 DEF Kept, LogInv

LEMMA InitKept == Init => LogInv
<1> SUFFICES ASSUME Init  PROVE LogInv
    OBVIOUS
<1>1. session \in Session
  <2>1. 0 \in {0} \cup Turns  OBVIOUS
  <2> QED  BY <2>1 DEF Init, Session, Log
<1>2. /\ session.row = [t \in Turns |-> "absent"] /\ session.log.turn = [t \in Turns |-> "none"]
      /\ session.log.tail = 0 /\ session.log \in Log
      BY <1>1, SessionParts DEF Init
<1>3. run \in [Turns -> Run] /\ Live = {} /\ \A t \in Turns : run[t].given = 0
      BY DEF Init, Gone, At, Run, Places, Live
<1>4. SessionTypeOK /\ JournalKept  BY <1>1, <1>3 DEF Init, SessionTypeOK, JournalKept
<1>5. Sound(session)  BY <1>1, <1>2 DEF Sound, SoundLog
<1>6. Honest(session.log) /\ BeganKnown  BY DEF Init, Honest, BeganKnown
<1>7. Runs  BY <1>3, BoundsAssumption DEF Runs, Turns
<1> QED  BY <1>4, <1>5, <1>6, <1>7 DEF LogInv

-----------------------------------------------------------------------------
(* Calls and the end of their turn.  A turn is ended at the tail, by a       *)
(* repair that answers what is pending or by its own run as complete.  So    *)
(* the log has to know every open call of the turn at the tail as pending    *)
(* (Tracked), and a run must not leave a tool before its call is answered    *)
(* (AtTool).                                                                 *)

Tracked(log) ==
    \A c \in Calls : log.result[c] = "open" => /\ log.turn[c[1]] # "none"
                                               /\ c[1] = log.tail => c \in log.pending

Closed(log) ==
    \A c \in Calls : log.result[c] = "open" =>
        /\ log.turn[c[1]] \notin {"interrupted", "error"}
        /\ c \in began => log.turn[c[1]] # "complete"

Paired(log) == Tracked(log) /\ Closed(log)

Quiet(t) == \A c \in began : c[1] = t => ~ Unanswered(c)

\* Of the calls that began in a turn under way, only the one at its tool is open.
AtTool ==
    \A c \in began : Unanswered(c) /\ UnderWay(c[1]) =>
        run[c[1]].place = "executing" /\ c = Current(c[1])

PairInv == Paired(session.log) /\ AtTool

\* No call that began is opened again.
Fits(log) ==
    Paired(log) /\ \A c \in began : log.result[c] = "open" => Unanswered(c)

LEMMA CallTurns == \A c \in Calls : c[1] \in Turns /\ c[1] # 0
BY BoundsAssumption DEF Calls, Turns

LEMMA FitsNow == ASSUME PairInv  PROVE Fits(session.log)
BY DEF PairInv, Fits, Unanswered

\* A result other than "open" can only help.
LEMMA ResultedFits ==
    ASSUME NEW log \in Log, Fits(log), began \subseteq Calls, NEW calls, NEW state \in States
    PROVE  Fits(Resulted(log, calls, state))
<1> DEFINE next == Resulted(log, calls, state)
<1>1. /\ next.turn = log.turn /\ next.tail = log.tail /\ next.pending = log.pending \ calls
      /\ \A c \in Calls : next.result[c] = IF c \in calls THEN state ELSE log.result[c]
      BY ResultedLog
<1>2. "open" \notin States  BY DEF States
<1> HIDE DEF next
<1>3. \A c \in Calls : next.result[c] = "open" => c \notin calls /\ log.result[c] = "open"
      BY <1>1, <1>2
<1>4. Tracked(next) /\ Closed(next)  BY <1>1, <1>3 DEF Fits, Paired, Tracked, Closed
<1>5. Fits(next)  BY <1>3, <1>4 DEF Fits, Paired
<1> QED  BY <1>5 DEF next

LEMMA DispatchedFits ==
    ASSUME NEW log \in Log, Fits(log), NEW call \in Calls
    PROVE  Fits(Dispatched(log, call))
BY DispatchedLog DEF Fits, Paired, Tracked, Closed

\* The calls of a response are those of an open turn, and none of them has begun.
LEMMA OfferedFits ==
    ASSUME NEW log \in Log, Fits(log), began \subseteq Calls, NEW calls \in SUBSET Calls,
           \A c \in calls : c \notin began /\ log.turn[c[1]] = "open"
    PROVE  Fits(Offered(log, calls))
<1> DEFINE next == Offered(log, calls)
<1>1. /\ next.turn = log.turn /\ next.tail = log.tail /\ next.pending = log.pending \cup calls
      /\ \A c \in Calls : next.result[c] = IF c \in calls THEN "open" ELSE log.result[c]
      BY DEF Offered, Log
<1> HIDE DEF next
<1>2. Tracked(next)  BY <1>1 DEF Fits, Paired, Tracked
<1>3. Closed(next)  BY <1>1 DEF Fits, Paired, Closed
<1>4. Fits(next)  BY <1>1, <1>2, <1>3 DEF Fits, Paired
<1> QED  BY <1>4 DEF next

\* A turn that the log does not know has no calls in it.
LEMMA StartedFits ==
    ASSUME NEW log \in Log, Fits(log), began \subseteq Calls, NEW t \in Turns, log.turn[t] = "none"
    PROVE  Fits(TurnStart(log, t))
<1> DEFINE next == TurnStart(log, t)
<1>1. /\ next.tail = t /\ next.result = log.result
      /\ \A u \in Turns : u # t => next.turn[u] = log.turn[u]
  <2>1. "open" \in {"open"} \cup Endings /\ t \in {0} \cup Turns  OBVIOUS
  <2>2. next = Turned(log, t, "open", t)  BY DEF TurnStart
  <2> HIDE DEF next
  <2> QED  BY <2>1, <2>2, TurnedLog
<1>2. \A c \in Calls : log.result[c] = "open" => c[1] # t
      BY DEF Fits, Paired, Tracked
<1> HIDE DEF next
<1>3. Tracked(next)  BY <1>1, <1>2, CallTurns DEF Fits, Paired, Tracked
<1>4. Closed(next)  BY <1>1, <1>2, CallTurns DEF Fits, Paired, Closed
<1>5. Fits(next)  BY <1>1, <1>3, <1>4 DEF Fits, Paired
<1> QED  BY <1>5 DEF next

\* A repair answers every call of the turn it ends.
LEMMA RepairedFits ==
    ASSUME NEW log, SoundLog(log), Fits(log), began \subseteq Calls, NEW status \in Endings
    PROVE  Fits(Repaired(log, status))
<1>1. CASE log.tail = 0  BY <1>1 DEF Repaired
<1>2. CASE log.tail # 0
  <2> DEFINE some == Resulted(log, log.started, "unconfirmed")
             all  == Resulted(some, log.pending \ log.started, "not_started")
             next == Repaired(log, status)
  <2>1. log \in Log /\ log.tail \in Turns  BY <1>2 DEF SoundLog, Log
  <2>2. "unconfirmed" \in States /\ "not_started" \in States /\ "open" \notin States
        BY DEF States
  <2>3. /\ some \in Log /\ some.turn = log.turn
        /\ \A c \in Calls : some.result[c] = IF c \in log.started THEN "unconfirmed"
                                                                  ELSE log.result[c]
        BY <2>1, <2>2, ResultedLog
  <2> HIDE DEF some
  <2>4. /\ all \in Log /\ all.turn = some.turn
        /\ \A c \in Calls : all.result[c] = IF c \in log.pending \ log.started THEN "not_started"
                                                                               ELSE some.result[c]
        BY <2>2, <2>3, ResultedLog
  <2>5. next = Turned(all, log.tail, status, 0)  BY <1>2 DEF Repaired, TurnEnd, some
  <2> HIDE DEF all, next
  <2>6. /\ next.tail = 0 /\ next.result = all.result
        /\ \A u \in Turns : u # log.tail => next.turn[u] = all.turn[u]
    <3>1. status \in {"open"} \cup Endings /\ 0 \in {0} \cup Turns  OBVIOUS
    <3>2. next.tail = 0 /\ next.result = all.result  BY <2>1, <2>4, <2>5, <3>1, TurnedLog
    <3>3. \A u \in Turns : u # log.tail => next.turn[u] = all.turn[u]
          BY <2>1, <2>4, <2>5, <3>1, TurnedLog
    <3> QED  BY <3>2, <3>3
  <2>7. ASSUME NEW c \in Calls, next.result[c] = "open"
        PROVE  log.result[c] = "open" /\ c[1] # log.tail /\ c[1] # 0
               /\ next.turn[c[1]] = log.turn[c[1]]
    <3>1. log.result[c] = "open" /\ c \notin log.pending  BY <2>2, <2>3, <2>4, <2>6, <2>7
    <3>2. c[1] # log.tail  BY <3>1 DEF Fits, Paired, Tracked
    <3> QED  BY <2>3, <2>4, <2>6, <3>1, <3>2, CallTurns
  <2>8. Tracked(next)  BY <2>6, <2>7 DEF Fits, Paired, Tracked
  <2>9. Closed(next)  BY <2>7 DEF Fits, Paired, Closed
  <2>10. Fits(next)  BY <2>7, <2>8, <2>9 DEF Fits, Paired
  <2> QED  BY <2>10 DEF next
<1> QED  BY <1>1, <1>2

\* finishAiAssistantMessage: a turn is complete when no call that began is open.
LEMMA FinishedFits ==
    ASSUME NEW log, SoundLog(log), Fits(log), began \subseteq Calls,
           NEW t \in Turns, NEW status \in Endings, status = "complete" => Quiet(t)
    PROVE  Fits(FinishedLog(log, t, status))
<1>1. CASE log.turn[t] # "open"  BY <1>1 DEF FinishedLog
<1>2. CASE log.turn[t] = "open" /\ status = "complete"
  <2> DEFINE next == FinishedLog(log, t, status)
  <2>1. next = Turned(log, t, status, 0)  BY <1>2 DEF FinishedLog, TurnEnd
  <2>2. log \in Log /\ status \in {"open"} \cup Endings /\ 0 \in {0} \cup Turns
        BY DEF SoundLog
  <2> HIDE DEF next
  <2>3. /\ next.turn[t] = "complete" /\ next.tail = 0 /\ next.result = log.result
        /\ \A u \in Turns : u # t => next.turn[u] = log.turn[u]
        BY <1>2, <2>1, <2>2, TurnedLog
  <2>4. \A c \in began : c[1] = t => log.result[c] # "open"
        BY <1>2 DEF Quiet, Fits
  <2>5. Tracked(next)  BY <2>3, CallTurns DEF Fits, Paired, Tracked
  <2>6. Closed(next)  BY <2>3, <2>4, CallTurns DEF Fits, Paired, Closed
  <2>7. Fits(next)  BY <2>3, <2>5, <2>6 DEF Fits, Paired
  <2> QED  BY <2>7 DEF next
<1>3. CASE log.turn[t] = "open" /\ status # "complete"
  <2>1. FinishedLog(log, t, status) = Repaired(log, status)  BY <1>3 DEF FinishedLog
  <2> QED  BY <2>1, RepairedFits
<1> QED  BY <1>1, <1>2, <1>3

LEMMA SeenFits == ASSUME LogInv, PairInv  PROVE Fits(Seen.log)
<1>1. SoundLog(session.log) /\ began \subseteq Calls  BY DEF LogInv, Sound, SessionTypeOK
<1>2. Fits(Repaired(session.log, "interrupted"))
      BY <1>1, FitsNow, RepairedFits DEF Endings
<1> QED  BY <1>2, FitsNow DEF Seen, Recovered

\* How a commit in which nothing but such logs is written bears on the invariant.
LEMMA CommitFits ==
    ASSUME PairInv, NEW passed, NEW end, Commit(passed, end), Fits(end.log),
           \A s \in passed : Fits(s.log)
    PROVE  Fits(session'.log)
BY FitsNow DEF Commit

LEMMA FitsLater ==
    ASSUME LogInv, Fits(session'.log), began' \subseteq Calls,
           \A c \in began' : c \in began \/ session'.log.turn[c[1]] = "open"
    PROVE  Paired(session.log)'
<1>1. Tracked(session.log)'  BY DEF Fits, Paired, Tracked
<1>2. Closed(session.log)'  BY DEF Fits, Paired, Closed
<1> QED  BY <1>1, <1>2 DEF Paired

\* Runs that go, or stay where they are.
LEMMA OthersAtTool ==
    ASSUME PairInv, Fits(session'.log), NEW c \in began, Unanswered(c)', UnderWay(c[1])',
           run'[c[1]] = run[c[1]] \/ run'[c[1]] = Gone
    PROVE  run'[c[1]].place = "executing" /\ c = Current(c[1])'
<1>1. run'[c[1]] = run[c[1]] /\ UnderWay(c[1])  BY DEF UnderWay, Live, Queued
<1>2. Unanswered(c)  BY DEF Fits, Unanswered
<1> QED  BY <1>1, <1>2 DEF PairInv, AtTool, Current

\* A run writes, and of its calls that began none is open.
LEMMA WritePaired ==
    ASSUME LogInv, PairInv, NEW t \in Turns, NEW passed, NEW end, NEW place,
           Write(t, passed, end, place), Fits(end.log), \A s \in passed : Fits(s.log),
           began' \subseteq began, \A c \in began : c[1] = t => end.log.result[c] # "open"
    PROVE  PairInv'
<1>1. Commit(passed \cup {Seen}, end) /\ ~ failed
      /\ run' = [run EXCEPT ![t] = IF failed' THEN Gone ELSE place]
      BY DEF Write, Ready
<1>2. run \in [Turns -> Run] /\ began \subseteq Calls  BY DEF LogInv, SessionTypeOK
<1>3. Fits(session'.log) /\ (failed' \/ session' = end)
      BY <1>1, SeenFits, CommitFits DEF Commit
<1>4. Paired(session.log)'  BY <1>2, <1>3, FitsLater
<1>5. AtTool'
  <2> SUFFICES ASSUME NEW c \in began', Unanswered(c)', UnderWay(c[1])'
               PROVE  run'[c[1]].place = "executing" /\ c = Current(c[1])'
      BY DEF AtTool
  <2>1. c \in began /\ c[1] \in Turns  BY <1>2, CallTurns
  <2>2. CASE c[1] # t  BY <1>1, <1>2, <1>3, <2>1, <2>2, OthersAtTool
  <2>3. CASE c[1] = t /\ failed'  BY <1>1, <1>2, <1>3, <2>1, <2>3, OthersAtTool
  <2>4. CASE c[1] = t /\ ~ failed'  BY <1>3, <2>1, <2>4 DEF Unanswered
  <2> QED  BY <2>2, <2>3, <2>4
<1> QED  BY <1>4, <1>5 DEF PairInv

\* A turn of which no call began, or whose run is not at a tool.
LEMMA QuietWrite ==
    ASSUME LogInv, PairInv, NEW t \in Turns, Quiet(t), NEW passed, NEW end, NEW place,
           Write(t, passed, end, place), Fits(end.log), \A s \in passed : Fits(s.log),
           began' \subseteq began
    PROVE  PairInv'
<1>1. \A c \in began : c[1] = t => end.log.result[c] # "open"  BY DEF Quiet, Fits
<1> QED  BY <1>1, WritePaired

LEMMA QuietTurn ==
    ASSUME LogInv, PairInv, NEW t \in Turns,
           session.row[t] = "absent" \/ (run[t] # Gone /\ run[t].place # "executing")
    PROVE  Quiet(t)
<1> SUFFICES ASSUME NEW c \in began, c[1] = t, Unanswered(c)  PROVE FALSE
    BY DEF Quiet
<1>1. run[t] # Gone /\ ~ Queued(t) /\ run[t].place # "executing"  BY DEF LogInv, BeganKnown
<1> QED  BY <1>1 DEF PairInv, AtTool, UnderWay, Live

\* No run moves but to go.
LEMMA IdlePaired ==
    ASSUME LogInv, PairInv, Fits(session'.log), began' = began,
           \A t \in Turns : run'[t] = run[t] \/ run'[t] = Gone
    PROVE  PairInv'
<1>1. began \subseteq Calls  BY DEF LogInv, SessionTypeOK
<1>2. Paired(session.log)'  BY <1>1, FitsLater
<1>3. AtTool'  BY <1>1, CallTurns, OthersAtTool DEF AtTool
<1> QED  BY <1>2, <1>3 DEF PairInv

LEMMA FinishPaired ==
    ASSUME LogInv, PairInv, NEW t \in Turns, NEW status \in Endings,
           status = "complete" => Quiet(t)
    PROVE  Fits(Finished(Seen, t, status).log)
<1>1. After(Seen) /\ began \subseteq Calls  BY SeenAfter DEF LogInv, Held, SessionTypeOK
<1>2. SoundLog(Seen.log)  BY <1>1 DEF After, Sound
<1>3. Finished(Seen, t, status).log = FinishedLog(Seen.log, t, status)
      BY DEF Finished, FinishedLog
<1> QED  BY <1>1, <1>2, <1>3, SeenFits, FinishedFits

\* The actions of a turn: only one that is not at a tool ends.
LEMMA TurnActsPaired == ASSUME LogInv, PairInv, NEW t \in Turns, TurnActs(t)  PROVE PairInv'
<1>1. /\ After(Seen) /\ Fits(Seen.log) /\ began \subseteq Calls
      /\ Seen \in Session /\ Seen.log \in Log
      BY SeenAfter, SeenFits, SessionParts DEF LogInv, Held, SessionTypeOK, After, Sound
<1> DEFINE opened == Opened(Seen, t)
<1>2. Fits(opened.log) /\ \A x : [opened EXCEPT !.row[t] = x].log = opened.log
  <2>1. CASE Seen.log.turn[t] = "none"
    <3>1. opened = [row |-> Seen.row, log |-> TurnStart(Seen.log, t)]
          BY <1>1, <2>1, OpenedParts
    <3>2. Fits(TurnStart(Seen.log, t))  BY <1>1, <2>1, StartedFits
    <3> QED  BY <3>1, <3>2
  <2>2. CASE Seen.log.turn[t] # "none"
    <3>1. opened = Seen  BY <2>2 DEF Opened
    <3> QED  BY <1>1, <3>1, SessionParts
  <2> QED  BY <2>1, <2>2
<1> HIDE DEF opened
<1>3. Fits([opened EXCEPT !.row[t] = "streaming"].log) /\ Fits([Seen EXCEPT !.row[t] = "queued"].log)
      BY <1>1, <1>2, SessionParts
<1>4. CASE CreateTurn(t)
  <2>1. Quiet(t)  BY <1>4, QuietTurn DEF CreateTurn
  <2>2. PICK place : \/ Write(t, {}, [opened EXCEPT !.row[t] = "streaming"], place)
                     \/ Write(t, {}, [Seen EXCEPT !.row[t] = "queued"], place)
        BY <1>4 DEF CreateTurn, opened
  <2>3. began' \subseteq began  BY <1>4 DEF CreateTurn
  <2> DEFINE live == [opened EXCEPT !.row[t] = "streaming"]
             next == [Seen EXCEPT !.row[t] = "queued"]
  <2>4. Write(t, {}, live, place) \/ Write(t, {}, next, place)  BY <2>2
  <2>5. Fits(live.log) /\ Fits(next.log)  BY <1>3
  <2> HIDE DEF live, next
  <2> QED  BY <2>1, <2>3, <2>4, <2>5, QuietWrite
<1>5. CASE StartQueued(t)
  <2>1. Quiet(t)  BY <1>5, QuietTurn DEF StartQueued, Gone, At
  <2> DEFINE live == [opened EXCEPT !.row[t] = "streaming"]
             passed == {opened}
  <2>2. Write(t, passed, live, At("ready")) /\ began' \subseteq began
        BY <1>5 DEF StartQueued, opened
  <2>3. Fits(live.log) /\ \A s \in passed : Fits(s.log)  BY <1>2, <1>3
  <2> HIDE DEF live, passed
  <2> QED  BY <2>1, <2>2, <2>3, QuietWrite
<1>6. ASSUME run[t].place # "executing", run[t] # Gone, began' = began, NEW status \in Endings,
             NEW place, Write(t, {}, Finished(Seen, t, status), place)
      PROVE  PairInv'
  <2>1. Quiet(t)  BY <1>6, QuietTurn
  <2>2. Fits(Finished(Seen, t, status).log)  BY <2>1, FinishPaired
  <2> QED  BY <1>6, <2>1, <2>2, QuietWrite
<1>7. CASE CancelQueued(t)  BY <1>6, <1>7 DEF CancelQueued, Endings, Gone, At
<1>8. CASE QueuedEnds(t)  BY <1>6, <1>8 DEF QueuedEnds, Endings, Gone, At
<1>9. ASSUME NEW status \in Endings, Finish(t, status)  PROVE PairInv'
      BY <1>6, <1>9 DEF Finish, Ends, Gone, At
<1>10. CASE Ask(t) \/ StepEnds(t)
  <2>1. Quiet(t)  BY <1>10, QuietTurn DEF Ask, StepEnds, Gone, At
  <2>2. PICK place : Write(t, {}, Seen, place)  BY <1>10 DEF Ask, StepEnds
  <2>3. began' \subseteq began  BY <1>10 DEF Ask, StepEnds, Same
  <2> QED  BY <1>1, <2>1, <2>2, <2>3, QuietWrite
<1>11. CASE Abandon(t)
  <2>1. UNCHANGED <<session, began>> /\ run' = [run EXCEPT ![t] = Gone]  BY <1>11 DEF Abandon
  <2>2. \A u \in Turns : run'[u] = run[u] \/ run'[u] = Gone
        BY <2>1 DEF LogInv, SessionTypeOK
  <2>3. Fits(session'.log)  BY <2>1, FitsNow
  <2> QED  BY <2>1, <2>2, <2>3, IdlePaired
<1> QED  BY <1>4, <1>5, <1>7, <1>8, <1>9, <1>10, <1>11 DEF TurnActs

\* A run at a call: it answers calls, or goes to the tool of one.
LEMMA ResponsePaired ==
    ASSUME LogInv, PairInv, NEW t \in Turns, NEW calls \in 0 .. MaxCalls[t],
           NEW dropped \in BOOLEAN, Response(t, calls, dropped)
    PROVE  PairInv'
<1> DEFINE first == run[t].given
           last  == first + calls
           given == From(t, first, last)
           end   == [Seen EXCEPT !.log = Offered(@, given)]
<1>1. /\ UnderWay(t) /\ Seen = session /\ first \in Nat /\ MaxCalls[t] \in Nat
      BY AtWork DEF Response
<1>2. given \in SUBSET Calls
  <2>1. last \in Nat /\ last <= MaxCalls[t]  BY <1>1 DEF Response
  <2> QED  BY <1>1, <2>1, FromCalls
<1>3. \A c \in given : c \notin began /\ Seen.log.turn[c[1]] = "open"
  <2> SUFFICES ASSUME NEW c \in given  PROVE c \notin began /\ session.log.turn[c[1]] = "open"
      BY <1>1
  <2>1. c[1] = t /\ c[2] \in first + 1 .. last  BY DEF From
  <2>2. c \in began => c[2] <= first  BY <1>1, <2>1 DEF LogInv, BeganKnown, UnderWay, Live
  <2>3. session.log.turn[t] = "open"  BY <1>1 DEF LogInv, Runs, UnderWay
  <2> QED  BY <1>1, <2>1, <2>2, <2>3
<1>4. Seen \in Session /\ Seen.log \in Log /\ began \subseteq Calls
      BY <1>1, SessionParts DEF LogInv, Sound, SessionTypeOK
<1> HIDE DEF given
<1>5. Fits(Offered(Seen.log, given))  BY <1>2, <1>3, <1>4, SeenFits, OfferedFits
<1>6. end.log = Offered(Seen.log, given)  BY <1>4, SessionParts
<1>7. PICK place : Write(t, {}, end, place)  BY DEF Response, given
<1>8. Quiet(t) /\ began' \subseteq began  BY QuietTurn DEF Response, Same, Gone, At
<1> HIDE DEF end
<1> QED  BY <1>5, <1>6, <1>7, <1>8, QuietWrite

LEMMA DispatchPaired ==
    ASSUME LogInv, PairInv, NEW t \in Turns, Dispatch(t)  PROVE PairInv'
<1> DEFINE call == Current(t)
           end  == [Seen EXCEPT !.log = Dispatched(@, call)]
           place == [run[t] EXCEPT !.place = "executing", !.counted = @ + 1]
<1>1. /\ UnderWay(t) /\ Seen = session /\ run[t] \in Run /\ run[t].handled \in Nat
      /\ run[t].given \in Nat /\ MaxCalls[t] \in Nat /\ run[t].given <= MaxCalls[t]
      BY AtWork DEF Dispatch, Open
<1>2. call \in Calls /\ call[1] = t
  <2>1. run[t].handled + 1 \in 1 .. MaxCalls[t]  BY <1>1 DEF Dispatch, Open
  <2> QED  BY <2>1 DEF Current, Calls
<1>3. Seen \in Session /\ Seen.log \in Log /\ began \subseteq Calls /\ run \in [Turns -> Run]
      BY <1>1, SessionParts DEF LogInv, Sound, SessionTypeOK
<1>4. Quiet(t)  BY QuietTurn DEF Dispatch, Open, Gone, At
<1>5. Write(t, {}, end, place) /\ began' = IF failed' THEN began ELSE began \cup {call}
      BY DEF Dispatch
<1>6. place.place = "executing" /\ place.handled = run[t].handled  BY <1>1 DEF Run
<1> HIDE DEF call
<1>7. Fits(Dispatched(Seen.log, call))  BY <1>2, <1>3, SeenFits, DispatchedFits
<1>8. end.log = Dispatched(Seen.log, call) /\ end.log.turn = session.log.turn
      BY <1>1, <1>2, <1>3, SessionParts, DispatchedLog
<1> HIDE DEF end, place
<1>9. CASE failed'  BY <1>4, <1>5, <1>7, <1>8, <1>9, QuietWrite
<1>10. CASE ~ failed'
  <2>1. session' = end /\ began' = began \cup {call} /\ run' = [run EXCEPT ![t] = place]
        BY <1>5, <1>10 DEF Write, Commit
  <2>2. Fits(session'.log) /\ session'.log.turn[t] = "open"
        BY <1>1, <1>7, <1>8, <2>1 DEF LogInv, Runs, UnderWay
  <2>3. Paired(session.log)'  BY <1>2, <1>3, <2>1, <2>2, FitsLater
  <2>4. AtTool'
    <3> SUFFICES ASSUME NEW c \in began', Unanswered(c)', UnderWay(c[1])'
                 PROVE  run'[c[1]].place = "executing" /\ c = Current(c[1])'
        BY DEF AtTool
    <3>1. CASE c = call
      <4>1. run'[t] = place  BY <1>3, <2>1
      <4> QED  BY <1>2, <1>6, <3>1, <4>1 DEF Current, call
    <3>2. CASE c # call /\ c[1] = t
          BY <1>4, <2>1, <2>2, <3>2 DEF Quiet, Fits, Unanswered
    <3>3. CASE c # call /\ c[1] # t
      <4>1. c \in began /\ run'[c[1]] = run[c[1]]  BY <1>3, <2>1, <3>3
      <4> QED  BY <2>2, <4>1, OthersAtTool
    <3> QED  BY <3>1, <3>2, <3>3
  <2> QED  BY <2>3, <2>4 DEF PairInv
<1> QED  BY <1>9, <1>10

LEMMA AnswerPaired ==
    ASSUME LogInv, PairInv, NEW t \in Turns,
           \/ Refuse(t) \/ RefuseRest(t) \/ OverBudget(t) \/ ToolAborted(t)
           \/ \E last \in 1 .. MaxCalls[t] : Block(t, last)
           \/ \E state \in States : ToolReturns(t, state)
    PROVE  PairInv'
<1>1. run[t].place \notin {"none", "waiting", "cancelled"}
      BY DEF Refuse, RefuseRest, OverBudget, ToolAborted, Block, ToolReturns, Open
<1>2. UnderWay(t) /\ Seen = session  BY <1>1, AtWork
<1>3. Seen \in Session /\ Seen.log \in Log /\ began \subseteq Calls
      BY <1>2, SessionParts DEF LogInv, Sound, SessionTypeOK
<1>4. "not_started" \in States /\ "unconfirmed" \in States /\ "open" \notin States  BY DEF States
<1>5. ASSUME NEW s \in Session, s.log \in Log, Fits(s.log), NEW calls, NEW state \in States
      PROVE  LET next == [s EXCEPT !.log = Resulted(@, calls, state)] IN
                /\ next \in Session /\ next.log = Resulted(s.log, calls, state)
                /\ next.log \in Log /\ Fits(next.log)
  <2> DEFINE log == Resulted(s.log, calls, state)
  <2>1. log \in Log /\ Fits(log)  BY <1>3, <1>5, ResultedLog, ResultedFits
  <2> HIDE DEF log
  <2>2. [s EXCEPT !.log = log] = [row |-> s.row, log |-> log]  BY <1>5, SessionParts
  <2>3. [row |-> s.row, log |-> log] \in Session  BY <1>5, <2>1, SessionParts DEF Session
  <2>4. [s EXCEPT !.log = Resulted(@, calls, state)] = [s EXCEPT !.log = log]  BY DEF log
  <2> QED  BY <2>1, <2>2, <2>3, <2>4 DEF log
<1>6. \A calls : Fits(NotStarted(calls).log)  BY <1>3, <1>4, <1>5, SeenFits DEF NotStarted
<1>7. \A state \in States :
         /\ Answered(t, state) \in Session /\ Answered(t, state).log \in Log
         /\ Answered(t, state).log = Resulted(Seen.log, {Current(t)}, state)
         /\ Fits(Answered(t, state).log)
      BY <1>3, <1>5, SeenFits DEF Answered
<1>8. run[t].place # "executing" => Quiet(t)  BY <1>1, QuietTurn DEF Gone, At
<1>9. CASE Refuse(t)
  <2>1. PICK place : Write(t, {}, Answered(t, "not_started"), place)  BY <1>9 DEF Refuse
  <2>2. began' \subseteq began /\ Quiet(t)  BY <1>8, <1>9 DEF Refuse, Same, Open
  <2> QED  BY <1>4, <1>7, <2>1, <2>2, QuietWrite
<1>10. CASE RefuseRest(t) \/ OverBudget(t) \/ \E last \in 1 .. MaxCalls[t] : Block(t, last)
  <2>1. PICK calls, place : Write(t, {NotStarted(some) : some \in SUBSET calls},
                                  NotStarted(calls), place)
        BY <1>10 DEF RefuseRest, OverBudget, Block
  <2> DEFINE passed == {NotStarted(some) : some \in SUBSET calls}
  <2>2. Write(t, passed, NotStarted(calls), place) /\ began' \subseteq began /\ Quiet(t)
        BY <1>8, <1>10, <2>1 DEF RefuseRest, OverBudget, Block, Same, Open
  <2>3. \A s \in passed : Fits(s.log)  BY <1>6
  <2> HIDE DEF passed
  <2> QED  BY <1>6, <2>2, <2>3, QuietWrite
<1>11. \A c \in began : c[1] = t /\ Unanswered(c) => c = Current(t)
       BY <1>2 DEF PairInv, AtTool
<1>12. ASSUME NEW state \in States
       PROVE  \A c \in began : c[1] = t => Answered(t, state).log.result[c] # "open"
  <2> SUFFICES ASSUME NEW c \in began, c[1] = t
               PROVE  Resulted(Seen.log, {Current(t)}, state).result[c] # "open"
      BY <1>7
  <2>1. Resulted(Seen.log, {Current(t)}, state).result[c]
           = IF c \in {Current(t)} THEN state ELSE session.log.result[c]
        BY <1>2, <1>3, ResultedLog
  <2> QED  BY <1>4, <1>11, <2>1 DEF Unanswered
<1>13. CASE ToolAborted(t)
  <2> DEFINE rest   == From(t, run[t].handled + 1, run[t].given)
             done   == Answered(t, "unconfirmed")
             end    == [done EXCEPT !.log = Resulted(@, rest, "not_started")]
             passed == {done}
  <2>1. PICK place : Write(t, passed, end, place)  BY <1>13 DEF ToolAborted
  <2>2. began' \subseteq began  BY <1>13 DEF ToolAborted, Same
  <2>3. done \in Session /\ done.log \in Log /\ Fits(done.log)  BY <1>4, <1>7
  <2>4. \A c \in began : c[1] = t => done.log.result[c] # "open"  BY <1>4, <1>12
  <2> HIDE DEF rest, done
  <2>5. end.log = Resulted(done.log, rest, "not_started") /\ Fits(end.log)
        BY <1>4, <1>5, <2>3
  <2>6. \A c \in began : c[1] = t => end.log.result[c] # "open"
        BY <1>3, <1>4, <2>3, <2>4, <2>5, ResultedLog
  <2>7. \A s \in passed : Fits(s.log)  BY <2>3
  <2> HIDE DEF end, passed
  <2> QED  BY <2>1, <2>2, <2>5, <2>6, <2>7, WritePaired
<1>14. ASSUME NEW state \in States, ToolReturns(t, state)  PROVE PairInv'
  <2>1. PICK place : Write(t, {}, Answered(t, state), place)  BY <1>14 DEF ToolReturns
  <2>2. began' \subseteq began  BY <1>14 DEF ToolReturns
  <2> QED  BY <1>7, <1>12, <2>1, <2>2, WritePaired
<1> QED  BY <1>9, <1>10, <1>13, <1>14

LEMMA CallActsPaired == ASSUME LogInv, PairInv, NEW t \in Turns, CallActs(t)  PROVE PairInv'
BY ResponsePaired, DispatchPaired, AnswerPaired DEF CallActs

\* Boots, reads and crashes repair or leave; a crash takes every run.
LEMMA ProcessPaired ==
    ASSUME LogInv, PairInv,
           \/ \E t \in Turns : BootActs(t)
           \/ Read \/ FailElsewhere \/ Crash \/ Replay \/ Marked \/ Swept \/ UNCHANGED vars
    PROVE  PairInv'
<1>1. Fits(session.log) /\ Fits(Seen.log)  BY FitsNow, SeenFits
<1>2. ASSUME UNCHANGED <<run, began>>, NEW passed, NEW end, Commit(passed, end), Fits(end.log),
             \A s \in passed : Fits(s.log)
      PROVE  PairInv'
      BY <1>2, CommitFits, IdlePaired
<1>3. ASSUME NEW t \in Turns, MarkInterrupted(t)  PROVE PairInv'
  <2> DEFINE end == [session EXCEPT !.row[t] = "interrupted"]
  <2>1. end.log = session.log  BY SessionParts DEF LogInv, Sound
  <2>2. Commit({}, end) /\ UNCHANGED <<run, began>>  BY <1>3 DEF MarkInterrupted
  <2> HIDE DEF end
  <2> QED  BY <1>1, <1>2, <2>1, <2>2
<1>4. ASSUME NEW t \in Turns, SweepQueued(t)  PROVE PairInv'
  <2> DEFINE end == Finished(Seen, t, "interrupted")
             passed == {Seen}
  <2>1. Fits(end.log)  BY FinishPaired DEF Endings
  <2>2. Commit(passed, end) /\ UNCHANGED <<run, began>>  BY <1>4 DEF SweepQueued
  <2>3. \A s \in passed : Fits(s.log)  BY <1>1
  <2> HIDE DEF end, passed
  <2> QED  BY <1>2, <2>1, <2>2, <2>3
<1>5. CASE Read
  <2>1. Commit({}, Seen) /\ UNCHANGED <<run, began>>  BY <1>5 DEF Read
  <2> QED  BY <1>1, <1>2, <2>1
<1>6. CASE Crash \/ FailElsewhere \/ Replay \/ Marked \/ Swept \/ UNCHANGED vars
  <2>1. session' = session /\ began' = began
        /\ \A t \in Turns : run'[t] = run[t] \/ run'[t] = Gone
        BY <1>6 DEF Crash, FailElsewhere, Replay, Marked, Swept, vars
  <2> QED  BY <1>1, <2>1, IdlePaired
<1> QED  BY <1>3, <1>4, <1>5, <1>6 DEF BootActs

LEMMA InitPaired == Init => PairInv
BY DEF Init, PairInv, Paired, Tracked, Closed, AtTool

-----------------------------------------------------------------------------
(* What is recorded of a call that began.  Runs handle their calls in order, *)
(* so what is refused lies ahead of what began, and a repair denies only     *)
(* calls that were never dispatched.  The one way left is OverBudget.        *)

\* Run r of turn t, with the calls in B begun: at most the one at hand is not
\* handled, those ahead have no result yet, a request leaves none ahead, and
\* no more calls were counted than are handled, or at hand.
Ordered(r, t, log, B) ==
    /\ \A c \in B : c[1] = t => \/ c[2] <= r.handled
                                \/ r.place \in {"executing", "ending"} /\ c[2] = r.handled + 1
    /\ r.place \in {"calling", "executing"} =>
          \A k \in r.handled + 1 .. r.given : log.result[<<t, k>>] = "open"
    /\ r.place \in {"ready", "asking", "done"} => r.handled = r.given
    /\ r.counted <= r.handled \/ (r.place \in {"executing", "ending"} /\ r.counted <= r.handled + 1)

PendingOpen(log) == \A c \in log.pending : log.result[c] = "open"

OrderInv ==
    /\ PendingOpen(session.log)
    /\ \A t \in Turns : UnderWay(t) => Ordered(run[t], t, session.log, began)

\* No call in B is denied anew.
Spares(log, B) ==
    \A c \in B : log.result[c] = "not_started" => session.log.result[c] = "not_started"

Fine(log, B) == PendingOpen(log) /\ Spares(log, B)

\* A call that began is recorded as not started by the budget alone.
OnlyBudgetDenies ==
    \A c \in began' : session'.log.result[c] = "not_started" =>
        (c \in began /\ session.log.result[c] = "not_started") \/ OverBudget(c[1])

InOrder == OrderInv' /\ OnlyBudgetDenies

LEMMA FineNow == ASSUME OrderInv, NEW B  PROVE Fine(session.log, B)
BY DEF OrderInv, Fine, Spares

LEMMA ResultedFine ==
    ASSUME NEW log \in Log, NEW B \in SUBSET Calls, Fine(log, B), NEW calls, NEW state \in States,
           state # "not_started" \/ calls \cap B = {}
    PROVE  Fine(Resulted(log, calls, state), B)
<1> DEFINE next == Resulted(log, calls, state)
<1>1. /\ next.pending = log.pending \ calls
      /\ \A c \in Calls : next.result[c] = IF c \in calls THEN state ELSE log.result[c]
      BY ResultedLog
<1> HIDE DEF next
<1>2. log.pending \subseteq Calls  BY DEF Log
<1>3. PendingOpen(next)  BY <1>1, <1>2 DEF Fine, PendingOpen
<1>4. Spares(next, B)  BY <1>1 DEF Fine, Spares
<1>5. Fine(next, B)  BY <1>3, <1>4 DEF Fine
<1> QED  BY <1>5 DEF next

LEMMA OfferedFine ==
    ASSUME NEW log \in Log, NEW B \in SUBSET Calls, Fine(log, B), NEW calls \in SUBSET Calls
    PROVE  /\ Fine(Offered(log, calls), B)
           /\ \A c \in calls : Offered(log, calls).result[c] = "open"
<1> DEFINE next == Offered(log, calls)
<1>1. /\ next.pending = log.pending \cup calls /\ log.pending \subseteq Calls
      /\ \A c \in Calls : next.result[c] = IF c \in calls THEN "open" ELSE log.result[c]
      BY DEF Offered, Log
<1> HIDE DEF next
<1>2. PendingOpen(next)  BY <1>1 DEF Fine, PendingOpen
<1>3. Spares(next, B)  BY <1>1 DEF Fine, Spares
<1>4. Fine(next, B)  BY <1>2, <1>3 DEF Fine
<1> QED  BY <1>1, <1>4 DEF next

LEMMA DispatchedFine ==
    ASSUME NEW log \in Log, NEW B, Fine(log, B), NEW call \in Calls
    PROVE  Fine(Dispatched(log, call), B)
BY DispatchedLog DEF Fine, PendingOpen, Spares

LEMMA TurnedFine ==
    ASSUME NEW log \in Log, NEW B, Fine(log, B), NEW t \in Turns,
           NEW state \in {"open"} \cup Endings, NEW tail \in {0} \cup Turns
    PROVE  Fine(Turned(log, t, state, tail), B)
<1> DEFINE next == Turned(log, t, state, tail)
<1>1. next.pending = {} /\ next.result = log.result  BY TurnedLog
<1> HIDE DEF next
<1>2. Fine(next, B)  BY <1>1 DEF Fine, PendingOpen, Spares
<1> QED  BY <1>2 DEF next

\* What a repair denies was pending and not dispatched, and has not begun.
LEMMA RepairedFine ==
    ASSUME NEW log, SoundLog(log), Honest(log), began \subseteq Calls,
           NEW B \in SUBSET began, Fine(log, B), NEW status \in Endings
    PROVE  Fine(Repaired(log, status), B)
<1>1. CASE log.tail = 0  BY <1>1 DEF Repaired
<1>2. CASE log.tail # 0
  <2> DEFINE some == Resulted(log, log.started, "unconfirmed")
             rest == log.pending \ log.started
             all  == Resulted(some, rest, "not_started")
  <2>1. log \in Log /\ log.tail \in Turns /\ B \in SUBSET Calls  BY <1>2 DEF SoundLog, Log
  <2>2. "unconfirmed" \in States /\ "not_started" \in States  BY DEF States
  <2>3. some \in Log /\ Fine(some, B)  BY <2>1, <2>2, ResultedLog, ResultedFine
  <2>4. rest \cap B = {}  BY DEF Honest, Fine, PendingOpen
  <2> HIDE DEF some, rest
  <2>5. all \in Log /\ Fine(all, B)  BY <2>1, <2>2, <2>3, <2>4, ResultedLog, ResultedFine
  <2>6. Repaired(log, status) = Turned(all, log.tail, status, 0)
        BY <1>2 DEF Repaired, TurnEnd, some, rest
  <2>7. status \in {"open"} \cup Endings /\ 0 \in {0} \cup Turns  OBVIOUS
  <2> HIDE DEF all
  <2> QED  BY <2>1, <2>5, <2>6, <2>7, TurnedFine
<1> QED  BY <1>1, <1>2

LEMMA FinishedFine ==
    ASSUME NEW log, SoundLog(log), Honest(log), began \subseteq Calls,
           NEW B \in SUBSET began, Fine(log, B), NEW t \in Turns, NEW status \in Endings
    PROVE  Fine(FinishedLog(log, t, status), B)
<1>1. log \in Log /\ status \in {"open"} \cup Endings /\ 0 \in {0} \cup Turns  BY DEF SoundLog
<1>2. Fine(Turned(log, t, status, 0), B)  BY <1>1, TurnedFine
<1>3. Fine(Repaired(log, status), B)  BY RepairedFine
<1> QED  BY <1>2, <1>3 DEF FinishedLog, TurnEnd

LEMMA SeenFine ==
    ASSUME LogInv, OrderInv, NEW B \in SUBSET began  PROVE Fine(Seen.log, B)
<1>1. SoundLog(session.log) /\ Honest(session.log) /\ began \subseteq Calls
      BY DEF LogInv, Sound, SessionTypeOK
<1>2. Fine(Repaired(session.log, "interrupted"), B)
      BY <1>1, FineNow, RepairedFine DEF Endings
<1> QED  BY <1>2, FineNow DEF Seen, Recovered

LEMMA FinishFine ==
    ASSUME LogInv, OrderInv, NEW t \in Turns, NEW status \in Endings
    PROVE  Fine(Finished(Seen, t, status).log, began)
<1>1. SoundLog(Seen.log) /\ Honest(Seen.log) /\ began \subseteq Calls
      BY SeenAfter DEF LogInv, Held, SessionTypeOK, After, Sound
<1>2. Fine(Seen.log, began)  BY SeenFine
<1>3. Finished(Seen, t, status).log = FinishedLog(Seen.log, t, status)
      BY DEF Finished, FinishedLog
<1> QED  BY <1>1, <1>2, <1>3, FinishedFine

LEMMA CommitFine ==
    ASSUME OrderInv, NEW B, NEW passed, NEW end, Commit(passed, end), Fine(end.log, B),
           \A s \in passed : Fine(s.log, B)
    PROVE  Fine(session'.log, B)
BY FineNow DEF Commit

\* Nothing under way moves, or what comes under way has begun nothing.
LEMMA IdleOrdered ==
    ASSUME LogInv, OrderInv, Fine(session'.log, began'), began' \subseteq began,
           \A t \in Turns : \/ ~ UnderWay(t)'
                            \/ run'[t] = run[t] /\ session'.log.result = session.log.result
                            \/ run'[t] = At("ready") /\ \A c \in began : c[1] # t
    PROVE  InOrder
<1>1. ASSUME NEW t \in Turns, UnderWay(t)'
      PROVE  Ordered(run'[t], t, session'.log, began')
  <2>1. CASE run'[t] = run[t] /\ session'.log.result = session.log.result
    <3>1. UnderWay(t)  BY <1>1, <2>1 DEF UnderWay, Live, Queued
    <3> QED  BY <2>1, <3>1 DEF OrderInv, Ordered
  <2>2. CASE run'[t] = At("ready") /\ \A c \in began : c[1] # t
        BY <2>2 DEF Ordered, At
  <2> QED  BY <1>1, <2>1, <2>2
<1>2. OrderInv'  BY <1>1 DEF OrderInv, Fine, PendingOpen
<1>3. OnlyBudgetDenies  BY DEF OnlyBudgetDenies, Fine, Spares
<1> QED  BY <1>2, <1>3 DEF InOrder

\* The run that is under way writes; there is no other.
LEMMA WorkOrdered ==
    ASSUME LogInv, OrderInv, NEW t \in Turns, UnderWay(t), NEW passed, NEW end, NEW place,
           Write(t, passed, end, place), PendingOpen(end.log),
           \A s \in passed : PendingOpen(s.log),
           ~ failed' => Ordered(place, t, end.log, began')
    PROVE  OrderInv'
<1>1. Commit(passed \cup {Seen}, end) /\ run' = [run EXCEPT ![t] = IF failed' THEN Gone ELSE place]
      BY DEF Write
<1>2. run \in [Turns -> Run] /\ Seen = session  BY SeenLive DEF LogInv, SessionTypeOK, Held, UnderWay
<1>3. PendingOpen(session'.log)  BY <1>1, <1>2 DEF Commit, OrderInv
<1>4. ASSUME NEW u \in Turns, UnderWay(u)'
      PROVE  Ordered(run'[u], u, session'.log, began')
  <2>1. u = t
    <3> SUFFICES ASSUME u # t  PROVE FALSE
        OBVIOUS
    <3>1. UnderWay(u)  BY <1>1, <1>2, <1>4 DEF UnderWay, Live, Queued
    <3>2. NoneBefore(t) /\ NoneBefore(u)  BY <3>1 DEF LogInv, Runs, UnderWay
    <3> QED  BY <3>1, <3>2, TurnsOrdered DEF NoneBefore, UnderWay
  <2>2. ~ failed'  BY <1>1, <1>2, <1>4, <2>1 DEF UnderWay, Live
  <2>3. session' = end /\ run'[t] = place  BY <1>1, <1>2, <2>2 DEF Commit
  <2> QED  BY <2>1, <2>2, <2>3
<1> QED  BY <1>3, <1>4 DEF OrderInv

LEMMA WorkInOrder ==
    ASSUME LogInv, OrderInv, NEW t \in Turns, UnderWay(t), NEW passed, NEW end, NEW place,
           Write(t, passed, end, place), began' \subseteq began, Fine(end.log, began'),
           \A s \in passed : Fine(s.log, began'),
           ~ failed' => Ordered(place, t, end.log, began')
    PROVE  InOrder
<1>1. OrderInv'  BY WorkOrdered DEF Fine
<1>2. Commit(passed \cup {Seen}, end)  BY DEF Write
<1>3. Seen = session  BY SeenLive DEF LogInv, Held, UnderWay
<1>4. Fine(session'.log, began')  BY <1>2, <1>3, FineNow DEF Commit
<1> QED  BY <1>1, <1>4 DEF InOrder, OnlyBudgetDenies, Fine, Spares

LEMMA TurnActsInOrder == ASSUME LogInv, OrderInv, NEW t \in Turns, TurnActs(t)  PROVE InOrder
<1>1. /\ Fine(Seen.log, began) /\ began \subseteq Calls /\ run \in [Turns -> Run]
      /\ Seen \in Session /\ Seen.log \in Log /\ Held
      BY SeenAfter, SeenFine, SessionParts DEF LogInv, Held, SessionTypeOK, After, Sound
<1>2. ASSUME NEW u \in Turns, u # t, NEW place, run' = [run EXCEPT ![t] = place]
      PROVE  run'[u] = run[u]
      BY <1>1, <1>2
<1>3. CASE CreateTurn(t) \/ StartQueued(t)
  <2> DEFINE opened == Opened(Seen, t)
             live   == [opened EXCEPT !.row[t] = "streaming"]
             queued == [Seen EXCEPT !.row[t] = "queued"]
             passed == {opened}
  <2>1. Fine(opened.log, began) /\ \A x : [opened EXCEPT !.row[t] = x].log = opened.log
    <3>1. CASE Seen.log.turn[t] = "none"
      <4>1. opened = [row |-> Seen.row, log |-> TurnStart(Seen.log, t)]
            BY <1>1, <3>1, OpenedParts
      <4>2. "open" \in {"open"} \cup Endings /\ t \in {0} \cup Turns  OBVIOUS
      <4>3. Fine(TurnStart(Seen.log, t), began)  BY <1>1, <4>2, TurnedFine DEF TurnStart
      <4> QED  BY <4>1, <4>3
    <3>2. CASE Seen.log.turn[t] # "none"
      <4>1. opened = Seen  BY <3>2 DEF Opened
      <4> QED  BY <1>1, <4>1, SessionParts
    <3> QED  BY <3>1, <3>2
  <2> HIDE DEF opened
  <2>2. Fine(live.log, began) /\ (\A s \in passed : Fine(s.log, began))  BY <2>1
  <2>3. queued.log = Seen.log  BY <1>1, SessionParts
  <2> HIDE DEF live, passed
  <2>4. \A c \in began : c[1] # t
        BY <1>3 DEF CreateTurn, StartQueued, LogInv, BeganKnown, Queued, Gone, At
  <2>5. CASE Live # {} /\ Write(t, {}, queued, At("waiting")) /\ began' = began
    <3>1. Seen = session  BY <1>1, <2>5, SeenLive DEF LogInv
    <3> HIDE DEF queued
    <3>2. /\ session'.log = session.log
          /\ run' = [run EXCEPT ![t] = IF failed' THEN Gone ELSE At("waiting")]
          BY <2>3, <2>5, <3>1 DEF Write, Commit
    <3>3. ~ UnderWay(t)'  BY <1>1, <3>2 DEF UnderWay, Live, Queued, At
    <3> QED  BY <1>1, <1>2, <2>5, <3>1, <3>2, <3>3, IdleOrdered
  <2>6. CASE /\ Write(t, {}, live, At("ready")) \/ Write(t, passed, live, At("ready"))
             /\ began' = began
             /\ Live = {} \/ (run[t].place = "waiting" /\ NoneBefore(t))
    <3>1. PICK p \in {{}, passed} : Commit(p \cup {Seen}, live)  BY <2>6 DEF Write
    <3>2. Fine(session'.log, began)  BY <1>1, <2>2, <3>1, CommitFine
    <3>3. run' = [run EXCEPT ![t] = IF failed' THEN Gone ELSE At("ready")]
          BY <2>6 DEF Write
    <3>4. ~ UnderWay(t)' \/ run'[t] = At("ready")  BY <1>1, <3>3 DEF UnderWay, Live
    <3>5. ASSUME NEW u \in Turns, u # t  PROVE ~ UnderWay(u)'
      <4>1. run'[u] = run[u]  BY <1>2, <3>3, <3>5
      <4>2. CASE Live = {}  BY <4>1, <4>2 DEF UnderWay, Live
      <4>3. CASE run[t].place = "waiting" /\ NoneBefore(t)
        <5> SUFFICES ASSUME UnderWay(u)  PROVE FALSE
            BY <4>1 DEF UnderWay, Live, Queued
        <5>1. NoneBefore(u) /\ t \in Live
              BY <4>3 DEF LogInv, Runs, UnderWay, Live, Gone, At
        <5> QED  BY <3>5, <4>3, <5>1, TurnsOrdered DEF NoneBefore, UnderWay
      <4> QED  BY <2>6, <4>2, <4>3
    <3> QED  BY <2>4, <2>6, <3>2, <3>4, <3>5, IdleOrdered
  <2>7. CASE CreateTurn(t)  BY <2>5, <2>6, <2>7 DEF CreateTurn, live, opened
  <2>8. CASE StartQueued(t)  BY <2>6, <2>8 DEF StartQueued, live, opened, passed
  <2> QED  BY <1>3, <2>7, <2>8
\* A queued run is cancelled: its turn is not open, and nothing is repaired.
<1>4. CASE CancelQueued(t)
  <2>1. t \in Live /\ Queued(t)  BY <1>4 DEF CancelQueued, Live, Queued, Gone, At
  <2>2. Seen = session /\ session.log.turn[t] = "none"
        BY <1>1, <2>1, SeenLive DEF LogInv, Runs
  <2>3. Finished(Seen, t, "interrupted").log = session.log  BY <2>2 DEF Finished
  <2>4. /\ Commit({Seen}, Finished(Seen, t, "interrupted")) /\ began' = began
        /\ run' = [run EXCEPT ![t] = IF failed' THEN Gone ELSE At("cancelled")]
        BY <1>4 DEF CancelQueued, Write
  <2>5. session'.log = session.log  BY <2>2, <2>3, <2>4 DEF Commit
  <2>6. ~ UnderWay(t)'  BY <1>1, <2>4 DEF UnderWay, Live, Queued, At
  <2> QED  BY <1>1, <1>2, <2>2, <2>4, <2>5, <2>6, IdleOrdered
<1>5. ASSUME NEW status \in Endings, Write(t, {}, Finished(Seen, t, status), Gone),
             began' = began, t \in Live, UnderWay(t) \/ NoneBefore(t)
      PROVE  InOrder
  <2>1. /\ Commit({Seen}, Finished(Seen, t, status))
        /\ run' = [run EXCEPT ![t] = Gone]
        BY <1>5 DEF Write
  <2>2. Fine(Finished(Seen, t, status).log, began)  BY FinishFine
  <2>3. Fine(session'.log, began)  BY <1>1, <2>1, <2>2, CommitFine
  <2>4. ASSUME NEW u \in Turns  PROVE ~ UnderWay(u)'
    <3> SUFFICES ASSUME UnderWay(u)'  PROVE FALSE
        OBVIOUS
    <3>1. u # t  BY <1>1, <2>1 DEF UnderWay, Live
    <3>2. UnderWay(u)  BY <1>2, <2>1, <3>1 DEF UnderWay, Live, Queued
    <3>3. NoneBefore(t) /\ NoneBefore(u)  BY <1>5, <3>2 DEF LogInv, Runs, UnderWay
    <3> QED  BY <1>5, <3>1, <3>2, <3>3, TurnsOrdered DEF NoneBefore, UnderWay
  <2> QED  BY <1>5, <2>3, <2>4, IdleOrdered
<1>6. CASE QueuedEnds(t)
      BY <1>5, <1>6 DEF QueuedEnds, Endings, Live, Gone, At
<1>7. ASSUME NEW status \in Endings, Finish(t, status)  PROVE InOrder
      BY <1>5, <1>7 DEF Finish, Ends, UnderWay, Live, Queued, Gone, At
<1>8. CASE Ask(t) \/ StepEnds(t)
  <2>1. UnderWay(t) /\ Seen = session /\ run[t] \in Run /\ run[t].handled \in Nat
        BY <1>8, AtWork DEF Ask, StepEnds
  <2>2. PICK place \in {"asking", "ready", "done"} :
           Write(t, {}, Seen, [run[t] EXCEPT !.place = place])
        BY <1>8 DEF Ask, StepEnds
  <2> DEFINE next == [run[t] EXCEPT !.place = place]
  <2>3. next.handled = run[t].handled /\ next.place = place  BY <2>1 DEF Run
  <2>4. began' = began /\ run[t].place \notin {"executing", "ending"}
        BY <1>8 DEF Ask, StepEnds, Same
  <2>5. next.given = run[t].given /\ run[t].handled = run[t].given
        BY <1>8, <2>1 DEF Ask, StepEnds, OrderInv, Ordered, Run
  <2>8. next.counted <= next.handled
        BY <2>1, <2>3, <2>4 DEF OrderInv, Ordered, Run
  <2> HIDE DEF next
  <2>6. Ordered(next, t, Seen.log, began)
        BY <2>1, <2>2, <2>3, <2>4, <2>5, <2>8 DEF Ordered, OrderInv
  <2>7. Write(t, {}, Seen, next)  BY <2>2 DEF next
  <2> QED  BY <1>1, <2>1, <2>4, <2>6, <2>7, WorkInOrder
<1>9. CASE Abandon(t)
  <2>1. /\ UNCHANGED <<session, began>> /\ run' = [run EXCEPT ![t] = Gone]  BY <1>9 DEF Abandon
  <2>2. \A u \in Turns : ~ UnderWay(u)' \/ run'[u] = run[u]
        BY <1>1, <2>1 DEF UnderWay, Live
  <2> QED  BY <2>1, <2>2, FineNow, IdleOrdered
<1> QED  BY <1>3, <1>4, <1>6, <1>7, <1>8, <1>9 DEF TurnActs

\* The calls of a response come after all that were given before.
LEMMA ResponseInOrder ==
    ASSUME LogInv, OrderInv, NEW t \in Turns, NEW calls \in 0 .. MaxCalls[t],
           NEW dropped \in BOOLEAN, Response(t, calls, dropped)
    PROVE  InOrder
<1> DEFINE r     == run[t]
           last  == r.given + calls
           given == From(t, r.given, last)
           end   == [Seen EXCEPT !.log = Offered(@, given)]
           place == [r EXCEPT !.place = "calling", !.from = r.given, !.given = last,
                              !.handled = IF dropped THEN last ELSE @]
<1>1. /\ UnderWay(t) /\ Seen = session /\ r.given \in Nat /\ r.handled \in Nat
      /\ r.counted \in Nat /\ MaxCalls[t] \in Nat /\ r \in Run
      BY AtWork DEF Response
<1>2. /\ calls \in Nat /\ last \in Nat /\ last <= MaxCalls[t] /\ began' = began
      /\ r.place = "asking" /\ Write(t, {}, end, place)
      BY <1>1 DEF Response, Same
<1>3. given \in SUBSET Calls  BY <1>1, <1>2, FromCalls
<1>4. /\ Seen \in Session /\ Seen.log \in Log /\ began \subseteq Calls
      /\ \A c \in began : c[2] \in Int
      BY <1>1, SessionParts, BoundsAssumption DEF LogInv, Sound, SessionTypeOK, Calls, Turns
<1>5. \A c \in began : c[1] = t => c[2] <= r.handled /\ c[2] <= r.given
      BY <1>1, <1>2 DEF OrderInv, Ordered, LogInv, BeganKnown, UnderWay, Live
<1>6. \A k \in r.given + 1 .. last : <<t, k>> \in given  BY DEF From
<1> HIDE DEF given
<1>7. end.log = Offered(Seen.log, given)  BY <1>4, SessionParts
<1>8. Fine(Seen.log, began)  BY SeenFine
<1> HIDE DEF end
<1>9. Fine(end.log, began) /\ \A c \in given : end.log.result[c] = "open"
      BY <1>3, <1>4, <1>7, <1>8, OfferedFine
<1>10. place.place = "calling" /\ place.given = last
       /\ place.handled = (IF dropped THEN last ELSE r.handled) /\ place.counted = r.counted
  <2>1. CASE dropped  BY <1>1, <2>1 DEF Run
  <2>2. CASE ~ dropped  BY <1>1, <2>2 DEF Run
  <2> QED  BY <2>1, <2>2
<1> HIDE DEF place
<1>11. \A c \in began : c[1] = t => c[2] <= place.handled
       BY <1>1, <1>2, <1>4, <1>5, <1>10
<1>12. ASSUME NEW k \in place.handled + 1 .. place.given
       PROVE  end.log.result[<<t, k>>] = "open"
  <2>1. r.handled = r.given  BY <1>1, <1>2 DEF OrderInv, Ordered
  <2>2. k \in r.given + 1 .. last  BY <1>1, <1>2, <1>10, <1>12, <2>1
  <2> QED  BY <1>6, <1>9, <2>2
<1>13. place.counted <= place.handled
       BY <1>1, <1>2, <1>10 DEF OrderInv, Ordered
<1>14. Ordered(place, t, end.log, began)  BY <1>10, <1>11, <1>12, <1>13 DEF Ordered
<1> QED  BY <1>1, <1>2, <1>9, <1>14, WorkInOrder

LEMMA DispatchInOrder ==
    ASSUME LogInv, OrderInv, NEW t \in Turns, Dispatch(t)  PROVE InOrder
<1> DEFINE call  == Current(t)
           end   == [Seen EXCEPT !.log = Dispatched(@, call)]
           place == [run[t] EXCEPT !.place = "executing", !.counted = @ + 1]
<1>1. /\ UnderWay(t) /\ Seen = session /\ run[t] \in Run /\ run[t].handled \in Nat /\ run[t].counted \in Nat
      /\ run[t].given \in Nat /\ MaxCalls[t] \in Nat /\ run[t].given <= MaxCalls[t]
      BY AtWork DEF Dispatch, Open
<1>2. run[t].place = "calling" /\ run[t].handled < run[t].given /\ Write(t, {}, end, place)
      /\ began' = IF failed' THEN began ELSE began \cup {call}
      BY DEF Dispatch, Open
<1>3. call \in Calls /\ call[1] = t /\ call[2] = run[t].handled + 1
  <2>1. run[t].handled + 1 \in 1 .. MaxCalls[t]  BY <1>1, <1>2
  <2> QED  BY <2>1 DEF Current, Calls
<1>4. Seen \in Session /\ Seen.log \in Log /\ began \subseteq Calls
      BY <1>1, SessionParts DEF LogInv, Sound, SessionTypeOK
<1>5. Ordered(run[t], t, session.log, began)  BY <1>1 DEF OrderInv
<1>6. session.log.result[call] = "open"
      BY <1>1, <1>2, <1>5 DEF Ordered, Current
<1>7. place.place = "executing" /\ place.handled = run[t].handled /\ place.given = run[t].given
      /\ place.counted = run[t].counted + 1
      BY <1>1 DEF Run
<1> HIDE DEF call
<1>8. end.log = Dispatched(Seen.log, call) /\ end.log.result = session.log.result
      BY <1>1, <1>3, <1>4, SessionParts, DispatchedLog
<1>9. Fine(end.log, began)  BY <1>3, <1>4, <1>8, SeenFine, DispatchedFine
<1> HIDE DEF end, place
<1>10. Ordered(place, t, end.log, began')
       BY <1>1, <1>2, <1>3, <1>5, <1>7, <1>8 DEF Ordered
<1>11. CASE failed'  BY <1>1, <1>2, <1>9, <1>11, WorkInOrder
<1>12. CASE ~ failed'
  <2>1. OrderInv'  BY <1>1, <1>2, <1>9, <1>10, WorkOrdered DEF Fine
  <2>2. session' = end  BY <1>2, <1>12 DEF Write, Commit
  <2>3. OnlyBudgetDenies
        BY <1>2, <1>6, <1>8, <1>9, <1>12, <2>2 DEF OnlyBudgetDenies, Fine, Spares
  <2> QED  BY <2>1, <2>3 DEF InOrder
<1> QED  BY <1>11, <1>12

LEMMA ResultedParts ==
    ASSUME NEW s \in Session, NEW calls, NEW state \in States,
           NEW next, next = [s EXCEPT !.log = Resulted(@, calls, state)]
    PROVE  next \in Session /\ next.log = Resulted(s.log, calls, state)
<1> DEFINE log == Resulted(s.log, calls, state)
<1>1. log \in Log  BY SessionParts, ResultedLog
<1>2. next = [s EXCEPT !.log = log]  OBVIOUS
<1> HIDE DEF log
<1>3. next = [row |-> s.row, log |-> log]  BY <1>2, SessionParts
<1>4. next \in Session /\ next.log = log  BY <1>1, <1>3, SessionParts DEF Session
<1> QED  BY <1>1, <1>4 DEF log

LEMMA ResultedNext ==
    ASSUME NEW s \in Session, NEW B \in SUBSET Calls, Fine(s.log, B), NEW calls,
           NEW state \in States, state # "not_started" \/ calls \cap B = {},
           NEW next, next = [s EXCEPT !.log = Resulted(@, calls, state)]
    PROVE  Fine(next.log, B)
<1>1. s.log \in Log /\ Fine(Resulted(s.log, calls, state), B)  BY SessionParts, ResultedFine
<1>2. next.log = Resulted(s.log, calls, state)  BY ResultedParts
<1> QED  BY <1>1, <1>2

\* What is refused lies ahead of all that began, except with the budget.
LEMMA AnswerInOrder ==
    ASSUME LogInv, OrderInv, NEW t \in Turns,
           \/ Refuse(t) \/ RefuseRest(t) \/ OverBudget(t) \/ ToolAborted(t)
           \/ \E last \in 1 .. MaxCalls[t] : Block(t, last)
           \/ \E state \in States : ToolReturns(t, state)
    PROVE  InOrder
<1> DEFINE r == run[t]
<1>1. r.place \in {"calling", "executing"}
      BY DEF Refuse, RefuseRest, OverBudget, ToolAborted, Block, ToolReturns, Open
<1>2. /\ UnderWay(t) /\ Seen = session /\ r \in Run /\ r.handled \in Nat /\ r.given \in Nat
      /\ r.counted \in Nat
      BY <1>1, AtWork
<1>3. /\ Seen \in Session /\ Seen.log \in Log /\ began \subseteq Calls
      /\ \A c \in began : c[2] \in Int /\ c = <<c[1], c[2]>>
      BY <1>2, SessionParts, BoundsAssumption DEF LogInv, Sound, SessionTypeOK, Calls, Turns
<1>4. "not_started" \in States /\ "unconfirmed" \in States /\ "open" \notin States  BY DEF States
<1>5. /\ \A c \in began : c[1] = t => \/ c[2] <= r.handled
                                      \/ r.place = "executing" /\ c[2] = r.handled + 1
      /\ \A k \in r.handled + 1 .. r.given : session.log.result[<<t, k>>] = "open"
      /\ r.counted <= r.handled \/ (r.place = "executing" /\ r.counted <= r.handled + 1)
      BY <1>1, <1>2 DEF OrderInv, Ordered
<1>6. Fine(Seen.log, began)  BY SeenFine
<1>7. Current(t) = <<t, r.handled + 1>>  BY DEF Current
<1> DEFINE ending == [r EXCEPT !.place = "ending"]
<1>8. ending.place = "ending" /\ ending.handled = r.handled /\ ending.counted = r.counted
      BY <1>2 DEF Run
<1> HIDE DEF ending
<1>9. \A log : Ordered(ending, t, log, began)
      BY <1>2, <1>5, <1>8 DEF Ordered
<1>10. ASSUME NEW next, next.place = "calling", next.handled = r.handled + 1,
              next.given = r.given, next.counted <= next.handled,
              NEW end, NEW B \in SUBSET began,
              \A k \in r.handled + 2 .. r.given : end.log.result[<<t, k>>] = "open"
       PROVE  Ordered(next, t, end.log, B)
  <2>1. \A c \in B : c[1] = t => c[2] <= next.handled
        BY <1>2, <1>3, <1>5, <1>10
  <2>2. next.handled + 1 = r.handled + 2  BY <1>2, <1>10
  <2> QED  BY <1>10, <2>1, <2>2 DEF Ordered
<1>11. ASSUME NEW state \in States, NEW k \in r.handled + 2 .. r.given
       PROVE  Answered(t, state).log.result[<<t, k>>] = "open"
  <2>1. k \in r.handled + 1 .. r.given /\ k # r.handled + 1  BY <1>2
  <2>2. <<t, k>> \in Calls
    <3>1. r.given <= MaxCalls[t] /\ MaxCalls[t] \in Nat  BY <1>1, AtWork
    <3>2. k \in 1 .. MaxCalls[t]  BY <1>2, <2>1, <3>1
    <3> QED  BY <3>2 DEF Calls
  <2>3. session.log.result[<<t, k>>] = "open"  BY <1>5, <2>1
  <2>4. <<t, k>> \notin {Current(t)}  BY <1>7, <2>1
  <2>5. Answered(t, state).log = Resulted(Seen.log, {Current(t)}, state)
        BY <1>3, ResultedParts DEF Answered
  <2>6. Resulted(Seen.log, {Current(t)}, state).result[<<t, k>>] = Seen.log.result[<<t, k>>]
        BY <1>3, <2>2, <2>4, ResultedLog
  <2> QED  BY <1>2, <2>3, <2>5, <2>6
<1>12. CASE Refuse(t)
  <2> DEFINE next == [r EXCEPT !.handled = @ + 1, !.counted = @ + 1]
  <2>1. Write(t, {}, Answered(t, "not_started"), next) /\ began' = began /\ r.place = "calling"
        BY <1>12 DEF Refuse, Same, Open
  <2>2. {Current(t)} \cap began = {}  BY <1>2, <1>5, <1>7, <2>1
  <2>3. Fine(Answered(t, "not_started").log, began)
        BY <1>3, <1>4, <1>6, <2>2, ResultedNext DEF Answered
  <2>4. /\ next.place = "calling" /\ next.handled = r.handled + 1 /\ next.given = r.given
        /\ next.counted <= next.handled
        BY <1>2, <1>5, <2>1 DEF Run
  <2> HIDE DEF next
  <2>5. Ordered(next, t, Answered(t, "not_started").log, began)  BY <1>4, <1>10, <1>11, <2>4
  <2> QED  BY <1>2, <2>1, <2>3, <2>5, WorkInOrder
<1>17. ASSUME NEW last \in 1 .. MaxCalls[t], Block(t, last)  PROVE InOrder
  <2> DEFINE some   == From(t, r.handled, last)
             passed == {NotStarted(few) : few \in SUBSET some}
             end    == NotStarted(some)
             next   == [r EXCEPT !.handled = last]
  <2>1. /\ Write(t, passed, end, next) /\ began' = began /\ r.place = "calling"
        /\ last \in Nat /\ r.handled < last /\ last <= r.given
    <3>1. Write(t, passed, end, next) /\ began' = began /\ Open(t)
          BY <1>17 DEF Block, Same
    <3>2. last = r.handled + 1 \/ last = r.given  BY <1>17 DEF Block
    <3>3. last \in Nat  BY <1>1, AtWork
    <3> HIDE DEF passed, end, next
    <3> QED  BY <1>2, <3>1, <3>2, <3>3 DEF Open
  <2>2. some \cap began = {}  BY <1>2, <1>3, <1>5, <2>1 DEF From
  <2>3. \A k \in last + 1 .. r.given : <<t, k>> \notin some  BY <2>1 DEF From
  <2> HIDE DEF some
  <2>4. \A few \in SUBSET some : Fine(NotStarted(few).log, began)
        BY <1>3, <1>4, <1>6, <2>2, ResultedNext DEF NotStarted
  <2>5. Fine(end.log, began) /\ \A s \in passed : Fine(s.log, began)  BY <2>4
  <2>6. ASSUME NEW k \in last + 1 .. r.given  PROVE end.log.result[<<t, k>>] = "open"
    <3>1. k \in r.handled + 1 .. r.given  BY <1>2, <2>1
    <3>2. <<t, k>> \in Calls
      <4>1. r.given <= MaxCalls[t] /\ MaxCalls[t] \in Nat  BY <1>1, AtWork
      <4>2. k \in 1 .. MaxCalls[t]  BY <1>2, <3>1, <4>1
      <4> QED  BY <4>2 DEF Calls
    <3>3. session.log.result[<<t, k>>] = "open"  BY <1>5, <3>1
    <3>4. end.log = Resulted(Seen.log, some, "not_started")
          BY <1>3, <1>4, ResultedParts DEF NotStarted
    <3>5. Resulted(Seen.log, some, "not_started").result[<<t, k>>] = Seen.log.result[<<t, k>>]
          BY <1>3, <1>4, <2>3, <3>2, ResultedLog
    <3> QED  BY <1>2, <3>3, <3>4, <3>5
  <2>7. /\ next.place = "calling" /\ next.handled = last /\ next.given = r.given
        /\ next.counted = r.counted
        BY <1>2, <2>1 DEF Run
  <2> HIDE DEF passed, end, next
  <2>8. next.counted <= next.handled  BY <1>2, <1>5, <2>1, <2>7
  <2>9. \A c \in began : c[1] = t => c[2] <= next.handled  BY <1>2, <1>3, <1>5, <2>1, <2>7
  <2>10. Ordered(next, t, end.log, began)  BY <2>6, <2>7, <2>8, <2>9 DEF Ordered
  <2> QED  BY <1>2, <2>1, <2>5, <2>10, WorkInOrder
<1>13. CASE RefuseRest(t)
  <2> DEFINE rest   == From(t, r.handled, r.given)
             passed == {NotStarted(some) : some \in SUBSET rest}
  <2>1. /\ Write(t, passed, NotStarted(rest), ending) /\ began' = began /\ r.place = "calling"
        BY <1>13 DEF RefuseRest, Same, Open, ending
  <2>2. rest \cap began = {}  BY <1>2, <1>3, <1>5, <2>1 DEF From
  <2> HIDE DEF rest
  <2>3. \A some \in SUBSET rest : Fine(NotStarted(some).log, began)
        BY <1>3, <1>4, <1>6, <2>2, ResultedNext DEF NotStarted
  <2>4. Fine(NotStarted(rest).log, began) /\ \A s \in passed : Fine(s.log, began)  BY <2>3
  <2> HIDE DEF passed
  <2> QED  BY <1>2, <1>9, <2>1, <2>4, WorkInOrder
<1>14. CASE ToolAborted(t)
  <2> DEFINE rest   == From(t, r.handled + 1, r.given)
             done   == Answered(t, "unconfirmed")
             end    == [done EXCEPT !.log = Resulted(@, rest, "not_started")]
             passed == {done}
  <2>1. Write(t, passed, end, ending) /\ began' = began
        BY <1>14 DEF ToolAborted, Same, ending
  <2>2. rest \cap began = {}  BY <1>2, <1>3, <1>5 DEF From
  <2>3. done \in Session /\ Fine(done.log, began)
        BY <1>3, <1>4, <1>6, ResultedParts, ResultedNext DEF Answered
  <2> HIDE DEF rest, done
  <2>4. Fine(end.log, began)  BY <1>3, <1>4, <2>2, <2>3, ResultedNext
  <2>5. \A s \in passed : Fine(s.log, began)  BY <2>3
  <2> HIDE DEF end, passed
  <2> QED  BY <1>2, <1>9, <2>1, <2>4, <2>5, WorkInOrder
<1>15. ASSUME NEW state \in States, ToolReturns(t, state)  PROVE InOrder
  <2> DEFINE next == [r EXCEPT !.handled = @ + 1, !.place = "calling"]
  <2>1. /\ Write(t, {}, Answered(t, state), next) /\ began' \subseteq began
        /\ began' = IF state = "not_started" THEN began \ {Current(t)} ELSE began
        BY <1>15 DEF ToolReturns
  <2>2. Fine(Answered(t, state).log, began')
    <3>1. began' \in SUBSET Calls /\ Fine(Seen.log, began')  BY <1>3, <2>1, SeenFine
    <3>2. state # "not_started" \/ {Current(t)} \cap began' = {}  BY <2>1
    <3> QED  BY <1>3, <3>1, <3>2, ResultedNext DEF Answered
  <2>3. /\ next.place = "calling" /\ next.handled = r.handled + 1 /\ next.given = r.given
        /\ next.counted <= next.handled
        BY <1>2, <1>5 DEF Run
  <2> HIDE DEF next
  <2>4. Ordered(next, t, Answered(t, state).log, began')  BY <1>10, <1>11, <2>1, <2>3
  <2> QED  BY <1>2, <2>1, <2>2, <2>4, WorkInOrder
\* The batch of a turn over its budget: its calls that began are denied too.
<1>16. CASE OverBudget(t)
  <2> DEFINE batch  == From(t, r.from, r.given)
             passed == {NotStarted(some) : some \in SUBSET batch}
             others == {c \in began : c[1] # t}
  <2>1. Write(t, passed, NotStarted(batch), ending) /\ began' = began
        BY <1>16 DEF OverBudget, Same, ending
  <2>2. batch \cap others = {} /\ others \subseteq began  BY DEF From
  <2> HIDE DEF batch, others
  <2>3. Fine(Seen.log, others)  BY <2>2, SeenFine
  <2>4. \A some \in SUBSET batch : Fine(NotStarted(some).log, others)
        BY <1>3, <1>4, <2>2, <2>3, ResultedNext DEF NotStarted
  <2>5. Fine(NotStarted(batch).log, others) /\ \A s \in passed : Fine(s.log, others)  BY <2>4
  <2> HIDE DEF passed
  <2>6. OrderInv'  BY <1>2, <1>9, <2>1, <2>5, WorkOrdered DEF Fine
  <2>7. Commit(passed \cup {session}, NotStarted(batch))  BY <1>2, <2>1 DEF Write
  <2>8. Fine(session'.log, others)  BY <2>5, <2>7, FineNow DEF Commit
  <2>9. OnlyBudgetDenies
        BY <1>16, <2>1, <2>8 DEF OnlyBudgetDenies, Fine, Spares, others
  <2> QED  BY <2>6, <2>9 DEF InOrder
<1> QED  BY <1>12, <1>13, <1>14, <1>15, <1>16, <1>17

LEMMA ProcessInOrder ==
    ASSUME LogInv, OrderInv,
           \/ \E t \in Turns : BootActs(t)
           \/ Read \/ FailElsewhere \/ Crash \/ Replay \/ Marked \/ Swept \/ UNCHANGED vars
    PROVE  InOrder
<1>1. /\ Fine(session.log, began) /\ Fine(Seen.log, began) /\ began \subseteq Calls
      /\ phase # "up" => Live = {}
      BY FineNow, SeenFine DEF LogInv, SessionTypeOK, Runs, Live
<1>2. ASSUME UNCHANGED <<run, began>>, NEW passed, NEW end, Commit(passed, end),
             Fine(end.log, began), \A s \in passed : Fine(s.log, began),
             Live = {} \/ session' = session
      PROVE  InOrder
  <2>1. Fine(session'.log, began)  BY <1>2, CommitFine
  <2>2. \A t \in Turns : ~ UnderWay(t)' \/ (run'[t] = run[t] /\ session' = session)
        BY <1>2 DEF UnderWay, Live
  <2> QED  BY <1>2, <2>1, <2>2, IdleOrdered
<1>3. ASSUME NEW t \in Turns, MarkInterrupted(t)  PROVE InOrder
  <2> DEFINE end == [session EXCEPT !.row[t] = "interrupted"]
  <2>1. end.log = session.log  BY SessionParts DEF LogInv, Sound
  <2>2. Commit({}, end) /\ UNCHANGED <<run, began>> /\ Live = {}
        BY <1>1, <1>3 DEF MarkInterrupted
  <2> HIDE DEF end
  <2> QED  BY <1>1, <1>2, <2>1, <2>2
<1>4. ASSUME NEW t \in Turns, SweepQueued(t)  PROVE InOrder
  <2> DEFINE end == Finished(Seen, t, "interrupted")
             passed == {Seen}
  <2>1. Fine(end.log, began)  BY FinishFine DEF Endings
  <2>2. Commit(passed, end) /\ UNCHANGED <<run, began>> /\ Live = {}
        BY <1>1, <1>4 DEF SweepQueued
  <2>3. \A s \in passed : Fine(s.log, began)  BY <1>1
  <2> HIDE DEF end, passed
  <2> QED  BY <1>2, <2>1, <2>2, <2>3
<1>5. CASE Read
  <2>1. Commit({}, Seen) /\ UNCHANGED <<run, began>>  BY <1>5 DEF Read
  <2>2. Live = {} \/ session' = session
        BY <2>1, SeenLive DEF LogInv, Held, Commit
  <2> QED  BY <1>1, <1>2, <2>1, <2>2
<1>6. CASE FailElsewhere \/ Replay \/ Marked \/ Swept \/ UNCHANGED vars
  <2>1. UNCHANGED <<session, run, began>>
        BY <1>6 DEF FailElsewhere, Replay, Marked, Swept, vars
  <2> QED  BY <1>1, <2>1, IdleOrdered
<1>7. CASE Crash
  <2>1. UNCHANGED <<session, began>> /\ \A t \in Turns : ~ UnderWay(t)'
        BY <1>7 DEF Crash, UnderWay, Live
  <2> QED  BY <1>1, <2>1, IdleOrdered
<1> QED  BY <1>3, <1>4, <1>5, <1>6, <1>7 DEF BootActs

LEMMA NextInOrder == ASSUME LogInv, OrderInv, [Next]_vars  PROVE InOrder
<1>1. ASSUME NEW t \in Turns, CallActs(t)  PROVE InOrder
      BY <1>1, ResponseInOrder, DispatchInOrder, AnswerInOrder DEF CallActs
<1> QED  BY <1>1, TurnActsInOrder, ProcessInOrder DEF Next

-----------------------------------------------------------------------------
(* Theorems.                                                                 *)

\* The strengthened invariant holds of every reachable state: between the steps
\* of the boot, the turns and their tools, the session the code holds in memory
\* and the journal on disk describe the same turns.
THEOREM LogKept == Spec => []LogInv
<1>1. LogInv /\ [Next]_vars => LogInv'  BY NextKept
<1> QED  BY <1>1, InitKept, PTL DEF Spec

LEMMA OrderKept == Spec => []OrderInv
<1>1. Init => OrderInv
      BY DEF Init, OrderInv, PendingOpen, UnderWay, Live
<1>2. LogInv /\ OrderInv /\ [Next]_vars => OrderInv'  BY NextInOrder DEF InOrder
<1> QED  BY <1>1, <1>2, LogKept, PTL DEF Spec

\* The session, its log and its runs keep their types.
THEOREM SessionTyped == Spec => []SessionTypeOK
<1>1. LogInv => SessionTypeOK  BY DEF LogInv
<1> QED  BY <1>1, LogKept, PTL

\* However a commit fails and whenever the process dies, the journal can be
\* replayed (assertReady, readDirectory).
THEOREM JournalReplays == Spec => []StartsAgain
<1>1. LogInv => StartsAgain  BY DEF LogInv, JournalKept, StartsAgain
<1> QED  BY <1>1, LogKept, PTL

\* A repair at any moment does not say of a call whose tool was entered that
\* it was not started (repairOpenTail).
THEOREM RepairsHonestly == Spec => []RepairHonest
<1>1. LogInv => RepairHonest
  <2> SUFFICES ASSUME LogInv, NEW c \in began, Unanswered(c), session.log.tail # 0
               PROVE  Repaired(session.log, "forked").result[c] # "not_started"
      BY DEF RepairHonest, Repaired, Unanswered
  <2> DEFINE log  == session.log
             some == Resulted(log, log.started, "unconfirmed")
             all  == Resulted(some, log.pending \ log.started, "not_started")
  <2>1. log \in Log /\ c \in Calls /\ log.result[c] = "open"
        BY DEF LogInv, Sound, SoundLog, SessionTypeOK, Unanswered
  <2>2. c \notin log.pending \ log.started  BY <2>1 DEF LogInv, Honest
  <2>3. some \in Log /\ some.result[c] # "not_started"
        BY <2>1, ResultedLog DEF States
  <2>4. all \in Log /\ all.result[c] = some.result[c]
        BY <2>1, <2>2, <2>3, ResultedLog DEF States
  <2>5. Repaired(log, "forked") = Turned(all, log.tail, "forked", 0)
        BY DEF Repaired, TurnEnd
  <2> HIDE DEF all, some, log
  <2>6. Repaired(log, "forked").result = all.result  BY <2>4, <2>5 DEF Turned, Log
  <2> QED  BY <2>3, <2>4, <2>6 DEF log
<1> QED  BY <1>1, LogKept, PTL

\* The turn of a run under way is open and is the one a repair would end; no
\* read recovers it from under its run (ensureSessionEventLog).
THEOREM LiveTurnsKept == Spec => []LiveTurnKept
<1>1. LogInv => LiveTurnKept
      BY DEF LogInv, Runs, LiveTurnKept, UnderWay, Queued
<1> QED  BY <1>1, LogKept, PTL

\* Crashes, repeated recoveries and late finishes change nothing about how a
\* turn ended.
THEOREM TurnsFinal == Spec => TurnFinal
<1> DEFINE Step == \A t \in Turns : session.log.turn[t] \in Endings
                                       => session'.log.turn[t] = session.log.turn[t]
<1>1. LogInv /\ [Next]_vars => Step  BY NextKept DEF After
<1> QED  BY <1>1, LogKept, PTL DEF Spec, TurnFinal

\* The calls of a turn and its end go together in every reachable state: a
\* repair would answer each open call of the turn at the tail, and of the calls
\* that began only the one at its tool is open.
THEOREM CallsPaired == Spec => []PairInv
<1>1. LogInv /\ PairInv /\ [Next]_vars => PairInv'
      BY TurnActsPaired, CallActsPaired, ProcessPaired DEF Next
<1> QED  BY <1>1, InitPaired, LogKept, PTL DEF Spec

\* A turn that was cut short has a result for each of its calls, and a
\* complete one for each call that began (repairOpenTail).
THEOREM TurnsPaired == Spec => []EndedPaired
<1>1. PairInv => EndedPaired
      BY DEF PairInv, Paired, Closed, EndedPaired, Unanswered
<1> QED  BY <1>1, CallsPaired, PTL

\* Of a call whose tool was entered nothing but the budget ever says that it was
\* not started: no refusal, abort, failure, crash or recovery does, for they deny
\* only what lies ahead (beforePiToolCall, repairOpenTail).
THEOREM BudgetAloneDenies == Spec => [][OnlyBudgetDenies]_vars
<1>1. LogInv /\ OrderInv /\ [Next]_vars => OnlyBudgetDenies  BY NextInOrder DEF InOrder
<1> QED  BY <1>1, LogKept, OrderKept, PTL DEF Spec

\* So the results of executed calls are kept in every turn that cannot run out
\* of its budget, though the calls counted are counted again with their batch.
THEOREM ExecutedKeptInBudget ==
    ASSUME \A t \in Turns : 2 * MaxCalls[t] <= MaxToolCalls + 1
    PROVE  Spec => []ExecutedKept
<1>1. Init => ExecutedKept  BY DEF Init, ExecutedKept
<1>2. ASSUME LogInv, OrderInv, ExecutedKept, [Next]_vars  PROVE ExecutedKept'
  <2>1. ASSUME NEW t \in Turns, OverBudget(t)  PROVE FALSE
    <3>1. run[t].handled < run[t].given /\ ~ WithinBudget(t) /\ run[t].place = "calling"
          BY <2>1 DEF OverBudget, Open
    <3>2. /\ run[t].given \in Nat /\ run[t].handled \in Nat /\ run[t].from \in Nat
          /\ MaxCalls[t] \in Nat /\ run[t].given <= MaxCalls[t]
          BY <1>2, <3>1, AtWork
    <3>3. run[t].counted \in Nat /\ run[t].counted <= run[t].handled
          BY <1>2, <3>1, AtWork DEF OrderInv, Ordered
    <3>4. MaxToolCalls \in Nat /\ 2 * MaxCalls[t] <= MaxToolCalls + 1
          BY BoundsAssumption
    <3> QED  BY <3>1, <3>2, <3>3, <3>4 DEF WithinBudget
  <2>2. \A c \in began' : c[1] \in Turns
        BY <1>2, NextKept, CallTurns DEF LogInv, SessionTypeOK
  <2> QED  BY <1>2, <2>1, <2>2, NextInOrder DEF InOrder, OnlyBudgetDenies, ExecutedKept
<1> QED  BY <1>1, <1>2, LogKept, OrderKept, PTL DEF Spec
=============================================================================
