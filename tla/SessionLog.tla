------------------------------ MODULE SessionLog ------------------------------
(***************************************************************************)
(* One session's event log (packages/core/session/src: kernel.ts and       *)
(* sessions.ts), the JSONL journal it is committed to                      *)
(* (packages/session/session-persistence-jsonl/src), and the places of a   *)
(* turn at which the agent loop writes to it (packages/core/agent-loop/src:*)
(* runs.ts and execute-turn.ts).                                           *)
(*                                                                         *)
(* Of the log only what its readers derive from it is kept: the state of   *)
(* each turn, the turn and the calls that a repair of the tail would find  *)
(* open, and the last result recorded for each call, which is what later   *)
(* turns are told (interruptedRunRecoveryContext).  Events that change     *)
(* none of this (steps, requests, activities, texts, snapshots of the      *)
(* model's history taken while no call is out) only show as commits that   *)
(* may fail.                                                               *)
(*                                                                         *)
(* Writing is synchronous: an action is what happens between two awaits,   *)
(* which may be several commits.  Tools run one after the other.           *)
(***************************************************************************)
EXTENDS Integers

CONSTANTS MaxTurns,      \* turns of the session, in the order of their rows
          MaxCalls,      \* tool calls the model asks for in each turn
          MaxToolCalls   \* a turn's budget of tool calls

ASSUME BoundsAssumption == /\ {MaxTurns, MaxToolCalls} \subseteq Nat
                           /\ MaxCalls \in [1 .. MaxTurns -> Nat]

VARIABLES session,   \* rows and log, as the journal has them
          run,       \* liveRuns: where each turn's run is
          began,     \* calls whose tool was entered and has not itself said
                     \* that it started nothing
          busy,      \* activeSessionRuns has the session
          phase,     \* of the process
          failed,    \* the repository refuses all work until a restart
          journal    \* how the journal file ends

vars == <<session, run, began, busy, phase, failed, journal>>

Turns   == 1 .. MaxTurns
Calls   == UNION {{t} \X (1 .. MaxCalls[t]) : t \in Turns}
Endings == {"complete", "interrupted", "error"}
Places  == {"none", "waiting", "cancelled", "ready", "asking", "calling", "executing",
            "ending", "done"}
States  == {"complete", "failed", "unconfirmed", "not_started"}

Log == [turn : [Turns -> {"none", "open"} \cup Endings],
        tail : {0} \cup Turns,       \* the turn a repair would end
        pending : SUBSET Calls,      \* the calls it would answer,
        started : SUBSET Calls,      \* of which these were dispatched
        result : [Calls -> {"none", "open"} \cup States]]

Session == [row : [Turns -> {"absent", "queued", "streaming"} \cup Endings], log : Log]

\* A run is at call handled + 1 of given; its last response began after from;
\* counted are the calls that entered executePiToolCall.
Run == [place : Places, from : Nat, handled : Nat, given : Nat, counted : Nat]

SessionTypeOK ==
    /\ session \in Session
    /\ run \in [Turns -> Run]
    /\ began \subseteq Calls
    /\ busy \in BOOLEAN /\ failed \in BOOLEAN
    /\ phase \in {"down", "marking", "sweeping", "up"}
    /\ journal \in {"clean", "torn", "unknown", "broken"}

At(place) == [place |-> place, from |-> 0, handled |-> 0, given |-> 0, counted |-> 0]
Gone      == At("none")

Init ==
    /\ session = [row |-> [t \in Turns |-> "absent"],
                  log |-> [turn |-> [t \in Turns |-> "none"], tail |-> 0, pending |-> {},
                           started |-> {}, result |-> [c \in Calls |-> "none"]]]
    /\ run = [t \in Turns |-> Gone]
    /\ began = {} /\ busy = FALSE /\ phase = "down" /\ failed = FALSE /\ journal = "clean"

-----------------------------------------------------------------------------
(* The events and the repair of the tail (kernel.ts).                        *)

Turned(log, t, state, tail) ==
    [log EXCEPT !.turn[t] = state, !.tail = tail, !.pending = {}, !.started = {}]

TurnStart(log, t)        == Turned(log, t, "open", t)
TurnEnd(log, t, status)  == Turned(log, t, status, 0)

\* assistant/response
Offered(log, calls) ==
    [log EXCEPT !.pending = @ \cup calls, !.started = @ \ calls,
                !.result = [c \in Calls |-> IF c \in calls THEN "open" ELSE @[c]]]

\* tool/call with dispatched; the other kind leaves a call as the response did.
Dispatched(log, call) ==
    [log EXCEPT !.started = IF call \in log.pending THEN @ \cup {call} ELSE @]

\* tool/result
Resulted(log, calls, state) ==
    [log EXCEPT !.pending = @ \ calls, !.started = @ \ calls,
                !.result = [c \in Calls |-> IF c \in calls THEN state ELSE @[c]]]

\* Mutant of Repaired: the turn is ended and its calls are left.
RepairedTurnOnly(log, status) ==
    IF log.tail = 0 THEN log ELSE TurnEnd(log, log.tail, status)

\* repairOpenTail, which recovery, a failing turn and a fork's copy go through.
Repaired(log, status) ==
    IF log.tail = 0 THEN log
    ELSE TurnEnd(Resulted(Resulted(log, log.started, "unconfirmed"),
                          log.pending \ log.started, "not_started"),
                 log.tail, status)

-----------------------------------------------------------------------------
(* Commits (repository.ts, persistence.ts).                                  *)

\* Mutant of Ready: assertReady is forgotten.
ReadyAnyway == phase = "up"

\* assertReady
Ready == phase = "up" /\ ~ failed

\* Several commits of one synchronous stretch: they all succeed, or one of
\* them fails and leaves what was passed before.  A commit that fails may
\* leave nothing, an unfinished line ("torn"), or a whole line of which its
\* writer does not know ("unknown").  An append after either of these breaks
\* the chain of checksums.
Commit(passed, end) ==
    \/ /\ session' = end /\ failed' = failed
       /\ journal' = IF journal = "clean" THEN "clean" ELSE "broken"
    \/ /\ session' \in passed \cup {session, end} /\ failed' = TRUE
       /\ journal' \in IF journal = "clean" THEN {"clean", "torn", "unknown"} ELSE {"broken"}

-----------------------------------------------------------------------------
(* Reading and finishing (sessions.ts).                                      *)

\* The latest assistant row, if its turn is open though it is not complete.
Unfinished(s) ==
    {t \in Turns : /\ s.row[t] \notin {"absent", "complete"}
                   /\ \A u \in Turns : u > t => s.row[u] = "absent"
                   /\ s.log.turn[t] = "open"}

\* Mutant of Recovered: a live run is recovered from.
RecoveredAlways(s) ==
    IF Unfinished(s) = {} THEN s
    ELSE [row |-> [t \in Turns |-> IF t \in Unfinished(s) THEN "interrupted" ELSE s.row[t]],
          log |-> Repaired(s.log, "interrupted")]

\* ensureSessionEventLog, with which every read and every append begins.
Recovered(s) ==
    IF busy \/ Unfinished(s) = {} THEN s
    ELSE [row |-> [t \in Turns |-> IF t \in Unfinished(s) THEN "interrupted" ELSE s.row[t]],
          log |-> Repaired(s.log, "interrupted")]

Seen == Recovered(session)

\* Mutant of Finished: it does not ask whether the turn is still open.
FinishedAnyway(s, t, status) ==
    [row |-> [s.row EXCEPT ![t] = status],
     log |-> IF status = "complete" THEN TurnEnd(s.log, t, status) ELSE Repaired(s.log, status)]

\* finishAiAssistantMessage with a final status.
Finished(s, t, status) ==
    [row |-> [s.row EXCEPT ![t] = status],
     log |-> CASE s.log.turn[t] # "open"                       -> s.log
               [] s.log.turn[t] = "open" /\ status = "complete" -> TurnEnd(s.log, t, status)
               [] OTHER                                        -> Repaired(s.log, status)]

\* A read (getAiSession, flushAiSession and many more).
Read ==
    /\ Ready /\ Commit({}, Seen)
    /\ UNCHANGED <<run, began, busy, phase>>

-----------------------------------------------------------------------------
(* The runs of the session (runs.ts).                                        *)

Live == {t \in Turns : run[t] # Gone}
NoneBefore(t) == \A u \in Live : u >= t

\* What a run writes between two awaits.  When a commit fails the run ends,
\* for its last words fail too.
Write(t, passed, end, place) ==
    /\ Ready /\ Commit(passed \cup {Seen}, end)
    /\ run' = [run EXCEPT ![t] = IF failed' THEN Gone ELSE place]
    /\ phase' = phase

Opened(s, t) == IF s.log.turn[t] = "none" THEN [s EXCEPT !.log = TurnStart(@, t)] ELSE s

\* createAiTurn
CreateTurn(t) ==
    /\ session.row[t] = "absent" /\ \A u \in Turns : u < t => session.row[u] # "absent"
    /\ \/ /\ Live = {}
          /\ \A u \in Turns : session.row[u] \notin {"streaming", "queued"}
          /\ Write(t, {}, [Opened(Seen, t) EXCEPT !.row[t] = "streaming"], At("ready"))
          /\ busy' = (busy \/ ~ failed')
       \/ /\ Live # {}
          /\ Write(t, {}, [Seen EXCEPT !.row[t] = "queued"], At("waiting"))
          /\ busy' = busy
    /\ began' = began

\* The run's turn has come: startQueuedAiTurn, and its row is streaming.
StartQueued(t) ==
    /\ run[t].place = "waiting" /\ NoneBefore(t)
    /\ Write(t, {Opened(Seen, t)}, [Opened(Seen, t) EXCEPT !.row[t] = "streaming"], At("ready"))
    /\ busy' = (busy \/ ~ failed')
    /\ began' = began

\* cancelAiRun of a queued run writes its end at once ...
CancelQueued(t) ==
    /\ run[t].place = "waiting"
    /\ Write(t, {}, Finished(Seen, t, "interrupted"), At("cancelled"))
    /\ busy' = (busy /\ failed')
    /\ began' = began

\* ... and again when its turn has come, as for one aborted in another way.
QueuedEnds(t) ==
    /\ run[t].place \in {"waiting", "cancelled"} /\ NoneBefore(t)
    /\ Write(t, {}, Finished(Seen, t, "interrupted"), Gone)
    /\ busy' = (busy /\ failed')
    /\ began' = began

\* Where a turn that is not complete may end, aborted or with an error.
Ends == {"ready", "asking", "calling", "ending", "done"}

\* The end of executeAiTurn, in either way.
Finish(t, status) ==
    /\ run[t].place \in IF status = "complete" THEN {"done"} ELSE Ends
    /\ Write(t, {}, Finished(Seen, t, status), Gone)
    /\ busy' = (busy /\ failed')
    /\ began' = began

-----------------------------------------------------------------------------
(* A turn's requests and tool calls (execute-turn.ts).                       *)

Same == busy' = busy /\ began' = began

\* requestModel, up to the request.
Ask(t) ==
    /\ run[t].place = "ready"
    /\ Write(t, {}, Seen, [run[t] EXCEPT !.place = "asking"])
    /\ Same

From(t, first, last) == {t} \X (first + 1 .. last)

\* onResponse and onPiAssistantMessage.  If the model also asks for a tool it
\* was not offered, all its calls are dropped after they were recorded.
Response(t, calls, dropped) ==
    LET r == run[t]
        given == r.given + calls
    IN /\ r.place = "asking" /\ given <= MaxCalls[t]
       /\ Write(t, {}, [Seen EXCEPT !.log = Offered(@, From(t, r.given, given))],
                [r EXCEPT !.place = "calling", !.from = r.given, !.given = given,
                          !.handled = IF dropped THEN given ELSE @])
       /\ Same

Open(t) == run[t].place = "calling" /\ run[t].handled < run[t].given
Current(t) == <<t, run[t].handled + 1>>

Answered(t, state) == [Seen EXCEPT !.log = Resulted(@, {Current(t)}, state)]
NotStarted(calls)  == [Seen EXCEPT !.log = Resulted(@, calls, "not_started")]

\* toolCallCount + batch.length: the calls of the batch that were counted are
\* counted again with the batch.
WithinBudget(t) == run[t].counted + (run[t].given - run[t].from) <= MaxToolCalls

\* beforePiToolCall when a response asks a question beside other calls, which
\* blocks them all, or changes the plan mode, which blocks each of the others.
Block(t, last) ==
    LET calls == From(t, run[t].handled, last) IN
    /\ Open(t) /\ WithinBudget(t)
    /\ \/ last = run[t].handled + 1
       \/ last = run[t].given /\ run[t].handled = run[t].from
    /\ Write(t, {NotStarted(some) : some \in SUBSET calls}, NotStarted(calls),
             [run[t] EXCEPT !.handled = last])
    /\ Same

\* executePiToolCall denies the call, or it is malformed or otherwise not
\* dispatched.
Refuse(t) ==
    /\ Open(t) /\ WithinBudget(t)
    /\ Write(t, {}, Answered(t, "not_started"),
             [run[t] EXCEPT !.handled = @ + 1, !.counted = @ + 1])
    /\ Same

\* beforePiToolCall in a turn that is stopped: the calls that were not handled.
RefuseRest(t) ==
    LET rest == From(t, run[t].handled, run[t].given) IN
    /\ Open(t)
    /\ Write(t, {NotStarted(some) : some \in SUBSET rest}, NotStarted(rest),
             [run[t] EXCEPT !.place = "ending"])
    /\ Same

\* beforePiToolCall when the batch exceeds the budget: the whole batch.
OverBudget(t) ==
    LET batch == From(t, run[t].from, run[t].given) IN
    /\ Open(t) /\ ~ WithinBudget(t)
    /\ Write(t, {NotStarted(some) : some \in SUBSET batch}, NotStarted(batch),
             [run[t] EXCEPT !.place = "ending"])
    /\ Same

\* Mutant of Dispatch: the call is recorded with its result only.
DispatchUnrecorded(t) ==
    /\ Open(t) /\ WithinBudget(t)
    /\ Write(t, {}, Seen, [run[t] EXCEPT !.place = "executing", !.counted = @ + 1])
    /\ began' = IF failed' THEN began ELSE began \cup {Current(t)}
    /\ busy' = busy

\* The call is recorded as dispatched, and if that is committed its tool runs.
Dispatch(t) ==
    /\ Open(t) /\ WithinBudget(t)
    /\ Write(t, {}, [Seen EXCEPT !.log = Dispatched(@, Current(t))],
             [run[t] EXCEPT !.place = "executing", !.counted = @ + 1])
    /\ began' = IF failed' THEN began ELSE began \cup {Current(t)}
    /\ busy' = busy

\* The tool returns or throws; it may know that it has started nothing.
ToolReturns(t, state) ==
    /\ run[t].place = "executing"
    /\ Write(t, {}, Answered(t, state),
             [run[t] EXCEPT !.handled = @ + 1, !.place = "calling"])
    /\ began' = IF state = "not_started" THEN began \ {Current(t)} ELSE began
    /\ busy' = busy

\* The tool is aborted, and with it the turn.
ToolAborted(t) ==
    LET rest == From(t, run[t].handled + 1, run[t].given)
        end  == [Answered(t, "unconfirmed") EXCEPT !.log = Resulted(@, rest, "not_started")]
    IN /\ run[t].place = "executing"
       /\ Write(t, {Answered(t, "unconfirmed")}, end, [run[t] EXCEPT !.place = "ending"])
       /\ Same

\* finishPiTurn: on to the next request, or the answer was the final one.
StepEnds(t) ==
    /\ run[t].place = "calling" /\ run[t].handled = run[t].given
    /\ \E place \in {"ready"} \cup (IF run[t].from = run[t].given THEN {"done"} ELSE {}) :
          Write(t, {}, Seen, [run[t] EXCEPT !.place = place])
    /\ Same

\* Every write of a run fails, and so does its end.
Abandon(t) ==
    /\ failed /\ run[t] # Gone
    /\ run' = [run EXCEPT ![t] = Gone]
    /\ UNCHANGED <<session, began, busy, phase, failed, journal>>

-----------------------------------------------------------------------------
(* The process.                                                              *)

\* A commit to another session fails.
FailElsewhere ==
    /\ Ready /\ failed' = TRUE
    /\ UNCHANGED <<session, run, began, busy, phase, journal>>

Crash ==
    /\ phase # "down" /\ phase' = "down"
    /\ run' = [t \in Turns |-> Gone] /\ busy' = FALSE
    /\ UNCHANGED <<session, began, failed, journal>>

\* The constructor of the repository replays the journal: an unfinished last
\* line is cut off, and a broken chain is refused.
Replay ==
    /\ phase = "down" /\ journal # "broken"
    /\ phase' = "marking" /\ journal' = "clean" /\ failed' = FALSE
    /\ UNCHANGED <<session, run, began, busy>>

\* It marks the rows that were streaming, a commit each, and nothing else.
MarkInterrupted(t) ==
    /\ phase = "marking" /\ session.row[t] = "streaming"
    /\ Commit({}, [session EXCEPT !.row[t] = "interrupted"])
    /\ phase' = IF failed' THEN "down" ELSE phase
    /\ UNCHANGED <<run, began, busy>>

Marked ==
    /\ phase = "marking" /\ \A t \in Turns : session.row[t] # "streaming"
    /\ phase' = "sweeping"
    /\ UNCHANGED <<session, run, began, busy, failed, journal>>

\* interruptOrphanedAiRuns, which finds the rows that were queued.
SweepQueued(t) ==
    /\ phase = "sweeping" /\ ~ failed /\ session.row[t] = "queued"
    /\ Commit({Seen}, Finished(Seen, t, "interrupted"))
    /\ UNCHANGED <<run, began, busy, phase>>

Swept ==
    /\ phase = "sweeping" /\ \A t \in Turns : session.row[t] # "queued"
    /\ phase' = "up"
    /\ UNCHANGED <<session, run, began, busy, failed, journal>>

-----------------------------------------------------------------------------
TurnActs(t) ==
    \/ CreateTurn(t) \/ StartQueued(t) \/ CancelQueued(t) \/ QueuedEnds(t)
    \/ \E status \in Endings : Finish(t, status)
    \/ Ask(t) \/ StepEnds(t) \/ Abandon(t)

CallActs(t) ==
    \/ \E calls \in 0 .. MaxCalls[t], dropped \in BOOLEAN : Response(t, calls, dropped)
    \/ \E last \in 1 .. MaxCalls[t] : Block(t, last)
    \/ Refuse(t) \/ RefuseRest(t) \/ OverBudget(t)
    \/ Dispatch(t) \/ ToolAborted(t)
    \/ \E state \in States : ToolReturns(t, state)

BootActs(t) == MarkInterrupted(t) \/ SweepQueued(t)

Next ==
    \/ \E t \in Turns : TurnActs(t) \/ CallActs(t) \/ BootActs(t)
    \/ Read \/ FailElsewhere \/ Crash \/ Replay \/ Marked \/ Swept

Spec == Init /\ [][Next]_vars

-----------------------------------------------------------------------------
(* Properties.                                                               *)

Unanswered(c) == session.log.result[c] = "open"

\* Whenever the log is repaired - by a recovery after a crash at this very
\* moment, by the failing turn, by the copy made for a side chat - it does not
\* say of a call whose tool was entered that it was not started.
RepairHonest ==
    \A c \in began : Unanswered(c) => Repaired(session.log, "forked").result[c] # "not_started"

\* A turn that was cut short has a result for each of its calls, and a
\* complete one for each call that began (repairOpenTail).
EndedPaired ==
    \A c \in Calls : Unanswered(c) =>
        session.log.turn[c[1]] \notin {"interrupted", "error"} \cup
                                      (IF c \in began THEN {"complete"} ELSE {})

\* The turn of a run that is under way is open and the one a repair would end,
\* and its row is streaming: no read recovers it from under its run, although
\* cancelling a queued run makes the session look idle.
LiveTurnKept ==
    \A t \in Live : ~ failed /\ run[t].place \notin {"waiting", "cancelled"} =>
        /\ session.log.turn[t] = "open" /\ session.log.tail = t
        /\ session.row[t] = "streaming"

\* A turn ends once: crashes, repeated recoveries and late finishes change
\* nothing about how it ended.
TurnFinal ==
    [][\A t \in Turns : session.log.turn[t] \in Endings
                           => session'.log.turn[t] = session.log.turn[t]]_vars

\* However a commit fails and whenever the process dies, the journal can be
\* replayed (assertReady, readDirectory).
StartsAgain == journal # "broken"

-----------------------------------------------------------------------------
(* Statements of the documentation that the code does not keep.              *)

\* Open turns do not interleave (startQueuedAiTurn, sessions.ts:699).
OneOpenTurn ==
    \A t, u \in Turns : session.log.turn[t] = "open" /\ session.log.turn[u] = "open" => t = u

\* Results of executed calls are kept when the budget ends a turn.
ExecutedKept == \A c \in began : session.log.result[c] # "not_started"
=============================================================================
