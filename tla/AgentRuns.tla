----------------------------- MODULE AgentRuns -----------------------------
(***************************************************************************)
(* The runs of the model agent (packages/core/agent-loop/src/runs.ts): how *)
(* a run is started or queued, paused, resumed, steered and cancelled by   *)
(* its user while the agent loop (execute-turn.ts) carries it through      *)
(* model requests, approvals, tools and delegated child runs, and what a   *)
(* shutdown or a restart of the process leaves behind.                     *)
(*                                                                         *)
(* The process is single threaded: an action is what the code does between *)
(* two awaits.  The point at which a run waits is its `at'.  Runs are      *)
(* numbered in the order in which they start, as liveRuns keeps them, and  *)
(* a session is named by the first run in it.                              *)
(***************************************************************************)
EXTENDS Integers, FiniteSets, FiniteSetsExt

CONSTANTS MaxRuns,      \* bound: runs ever started
          MaxDepth,     \* aiRuntime.maxDelegationDepth
          MaxRequests,  \* aiRuntime.maxModelRequests
          MaxCalls,     \* aiRuntime.maxToolCalls
          MaxInbox      \* bound: steering inputs waiting in a run

ASSUME BoundsAssumption == /\ MaxRuns \in Nat \ {0}
                           /\ {MaxDepth, MaxRequests, MaxCalls, MaxInbox} \subseteq Nat

VARIABLES run,            \* rows and live records of the runs
          activeSessions, \* activeSessionRuns: sessions taken to be busy
          phase,          \* of the process
          awaited         \* the runs closeAiRuns waits for

vars == <<run, activeSessions, phase, awaited>>

Runs == 1..MaxRuns
NoRun == 0

\* Checkpoints are the places where AiRunPauseGate.checkpoint is awaited.
Checkpoints == {"queued", "prepare", "gated", "answered", "cleared", "returned"}
Places == Checkpoints \cup {"absent", "preflight", "model", "call", "approval",
                            "tool", "ask", "child", "ending", "gone"}
Dispatched == {"model", "tool", "ask"}
Final == {"complete", "interrupted", "error"}

NewRun == [status |-> "none", session |-> NoRun, parent |-> NoRun,
           previous |-> NoRun, depth |-> 0, child |-> NoRun, at |-> "absent",
           gate |-> "running", aborted |-> FALSE, inbox |-> 0, requests |-> 0, calls |-> 0]

RunRecord == [status : Final \cup {"none", "queued", "streaming"},
              session : Runs \cup {NoRun}, parent : Runs \cup {NoRun},
              previous : Runs \cup {NoRun}, depth : 0..MaxDepth,
              child : Runs \cup {NoRun}, at : Places,
              gate : {"running", "pausing", "paused"}, aborted : BOOLEAN,
              inbox : 0..MaxInbox, requests : 0..MaxRequests, calls : 0..MaxCalls]

Init == /\ run = [r \in Runs |-> NewRun]
        /\ activeSessions = {}
        /\ phase = "up"
        /\ awaited = {}

-----------------------------------------------------------------------------
Live(r) == run[r].at \notin {"absent", "gone"}
LiveRuns == {r \in Runs : Live(r)}
Started == {r \in Runs : run[r].at # "absent"}
Sessions == {run[r].session : r \in Started}
Active(r) == Live(r) /\ run[r].status \in {"queued", "streaming"}

\* The live run that a new one in session s queues behind.
Newest(s) == LET inSession == {r \in LiveRuns : run[r].session = s}
             IN IF inSession = {} THEN NoRun ELSE Max(inSession)

\* r and its live descendants through live runs: whom a pause, a resumption
\* and a cancellation of r reach.
Family(r) ==
  LET reached[d \in 0..MaxDepth] ==
        IF d = 0 THEN {r}
        ELSE reached[d - 1] \cup {c \in LiveRuns : run[c].parent \in reached[d - 1]}
  IN reached[MaxDepth]

\* pendingQuestion or pendingApprovals: the approvals of children are
\* forwarded to the run that started them.
WaitsForUser(r) == \/ run[r].status = "queued"
                   \/ run[r].at = "ask"
                   \/ \E c \in Family(r) : run[c].at = "approval"

\* A resumed run does not look at the signal again.
MayPassCancelled(r) == run[r].gate = "running"

\* The decision of an approval passes the last checkpoint by itself.
MayPassPaused(r) == ~run[r].aborted

\* A checkpoint lets the run pass.
MayPass(r) == run[r].gate = "running" /\ ~run[r].aborted

Go(r, place) == run' = [run EXCEPT ![r].at = place]

\* To the next call of the model's answer, or to the next model request.
GoOn(r) == \/ Go(r, "prepare")
           \/ /\ run[r].calls < MaxCalls
              /\ run' = [run EXCEPT ![r].at = "call", ![r].calls = @ + 1]

\* finishAiAssistantMessage with a final status, then the run's cleanups.
End(r, status) ==
  /\ run' = [run EXCEPT ![r].at = "ending", ![r].status = status]
  /\ activeSessions' = activeSessions \ {run[r].session}
  /\ UNCHANGED <<phase, awaited>>

-----------------------------------------------------------------------------
\* What users do.

\* A message: startAiRun, in a session of its own or queued behind another.
StartRun(s) ==
  /\ phase \in {"up", "draining", "closing"}
  /\ \E r \in Runs \ Started :
       /\ \A q \in 1..(r - 1) : q \in Started
       /\ LET session == IF s = NoRun THEN r ELSE s
              previous == Newest(session)
          IN /\ run' = [run EXCEPT ![r] =
                  [NewRun EXCEPT !.session = session, !.previous = previous, !.at = "queued",
                                 !.status = IF previous = NoRun THEN "streaming" ELSE "queued"]]
             /\ activeSessions' = activeSessions \cup
                                    (IF previous = NoRun THEN {session} ELSE {})
  /\ UNCHANGED <<phase, awaited>>

Pause(r) ==
  /\ Active(r)
  /\ run' = [q \in Runs |->
       IF q \notin Family(r) THEN run[q]
       ELSE [run[q] EXCEPT !.gate = CASE WaitsForUser(q) -> "paused"
                                      [] @ = "running" -> "pausing"
                                      [] OTHER -> @]]
  /\ UNCHANGED <<activeSessions, phase, awaited>>

Resume(r) ==
  /\ Active(r)
  /\ run' = [q \in Runs |-> IF q \in Family(r) THEN [run[q] EXCEPT !.gate = "running"]
                                               ELSE run[q]]
  /\ UNCHANGED <<activeSessions, phase, awaited>>

\* Cancelling forgets the children.
CancelAlone(r) ==
  /\ Live(r)
  /\ run' = [run EXCEPT ![r].aborted = TRUE,
                        ![r].status = IF @ = "queued" THEN "interrupted" ELSE @]
  /\ activeSessions' = IF run[r].status = "queued" THEN activeSessions \ {run[r].session}
                                                   ELSE activeSessions
  /\ UNCHANGED <<phase, awaited>>

Cancel(r) ==
  /\ Live(r)
  /\ LET queued == run[r].status = "queued"
     IN /\ run' = [q \in Runs |->
             IF q \notin Family(r) THEN run[q]
             ELSE [run[q] EXCEPT !.aborted = TRUE,
                                 !.status = IF q = r /\ queued THEN "interrupted" ELSE @]]
        /\ activeSessions' = IF queued THEN activeSessions \ {run[r].session}
                                       ELSE activeSessions
  /\ UNCHANGED <<phase, awaited>>

\* appendAiRunInput in steering mode.
Steer(r) ==
  /\ Live(r) /\ run[r].status = "streaming"
  /\ run[r].inbox < MaxInbox
  /\ run' = [run EXCEPT ![r].inbox = @ + 1]
  /\ UNCHANGED <<activeSessions, phase, awaited>>

AnswerQuestion(r) ==
  /\ run[r].at = "ask" /\ run[r].status = "streaming"
  /\ Go(r, "returned")
  /\ UNCHANGED <<activeSessions, phase, awaited>>

\* The approval is given, or refused or expired after five minutes.
Decide(r) ==
  /\ run[r].at = "approval" /\ ~run[r].aborted
  /\ Go(r, "cleared") \/ GoOn(r)
  /\ UNCHANGED <<activeSessions, phase, awaited>>

-----------------------------------------------------------------------------
\* What the agent loop does with run r.

\* Only Begin is a checkpoint.
HoldQueued(r) ==
  /\ run[r].at = "queued" /\ run[r].previous \notin LiveRuns
  /\ run[r].gate = "pausing" /\ ~run[r].aborted
  /\ run' = [run EXCEPT ![r].gate = "paused"]
  /\ UNCHANGED <<activeSessions, phase, awaited>>

\* A requested pause takes hold at a checkpoint.
Hold(r) ==
  /\ run[r].at \in Checkpoints
  /\ run[r].at = "queued" => run[r].previous \notin LiveRuns
  /\ run[r].gate = "pausing" /\ ~run[r].aborted
  /\ run' = [run EXCEPT ![r].gate = "paused"]
  /\ UNCHANGED <<activeSessions, phase, awaited>>

\* Mutant of Begin: the turn begins when the previous run is cancelled.
BeginEarly(r) ==
  /\ run[r].at = "queued" /\ MayPass(r)
  /\ run[r].previous \in LiveRuns => run[run[r].previous].aborted
  /\ run' = [run EXCEPT ![r].at = "prepare", ![r].status = "streaming"]
  /\ activeSessions' = activeSessions \cup {run[r].session}
  /\ UNCHANGED <<phase, awaited>>

\* The previous run of the session is over: the turn begins.
Begin(r) ==
  /\ run[r].at = "queued" /\ run[r].previous \notin LiveRuns /\ MayPass(r)
  /\ run' = [run EXCEPT ![r].at = "prepare", ![r].status = "streaming"]
  /\ activeSessions' = activeSessions \cup {run[r].session}
  /\ UNCHANGED <<phase, awaited>>

\* preparePiRequest takes the inputs given meanwhile.
Prepare(r) ==
  /\ run[r].at = "prepare" /\ MayPass(r)
  /\ run' = [run EXCEPT ![r].at = "preflight", ![r].inbox = 0]
  /\ UNCHANGED <<activeSessions, phase, awaited>>

\* requestModel: the shutdown test comes before the checkpoint, the budget
\* after it.
Send(r) == IF run[r].requests = MaxRequests
           THEN End(r, "error")
           ELSE /\ run' = [run EXCEPT ![r].at = "model", ![r].requests = @ + 1]
                /\ UNCHANGED <<activeSessions, phase, awaited>>

Request(r) ==
  /\ run[r].at = "preflight" /\ phase = "up" /\ ~run[r].aborted
  /\ IF run[r].gate = "running"
     THEN Send(r)
     ELSE /\ run' = [run EXCEPT ![r].at = "gated", ![r].gate = "paused"]
          /\ UNCHANGED <<activeSessions, phase, awaited>>

RequestResumed(r) == run[r].at = "gated" /\ MayPass(r) /\ Send(r)

RequestRefused(r) == run[r].at = "preflight" /\ phase # "up" /\ End(r, "error")

Answered(r) ==
  /\ run[r].at = "model" /\ ~run[r].aborted
  /\ Go(r, "answered")
  /\ UNCHANGED <<activeSessions, phase, awaited>>

Fails(r) == run[r].at \in {"model", "preflight"} /\ ~run[r].aborted /\ End(r, "error")

\* The answer calls tools: the budgets may forbid it, the batch may be refused
\* as a whole (beforePiToolCall).
CallTools(r) ==
  /\ run[r].at = "answered" /\ MayPass(r)
  /\ IF run[r].calls = MaxCalls \/ run[r].requests = MaxRequests
     THEN End(r, "error")
     ELSE GoOn(r) /\ UNCHANGED <<activeSessions, phase, awaited>>

\* The answer is the last one unless there are new inputs.
FinishTurn(r) ==
  /\ run[r].at = "answered" /\ MayPass(r)
  /\ IF run[r].inbox > 0
     THEN /\ run' = [run EXCEPT ![r].at = "prepare", ![r].inbox = 0]
          /\ UNCHANGED <<activeSessions, phase, awaited>>
     ELSE End(r, "complete")

\* A tool call is refused, needs an approval, or is cleared for dispatch.
Screen(r) ==
  /\ run[r].at = "call" /\ ~run[r].aborted
  /\ \E next \in {"returned", "approval", "cleared"} : Go(r, next)
  /\ UNCHANGED <<activeSessions, phase, awaited>>

Dispatch(r) ==
  /\ run[r].at = "cleared" /\ MayPass(r)
  /\ \E next \in {"tool"} \cup (IF run[r].parent = NoRun THEN {"ask"} ELSE {}) : Go(r, next)
  /\ UNCHANGED <<activeSessions, phase, awaited>>

\* startChild: a child run in a session of its own; r waits for it, or a
\* background delegation lets r go on at once.
StartChild(r, place) ==
  /\ phase \in {"up", "draining", "closing"}
  /\ run[r].depth < MaxDepth
  /\ \E c \in Runs \ Started :
       /\ \A q \in 1..(c - 1) : q \in Started
       /\ run' = [run EXCEPT
            ![c] = [NewRun EXCEPT !.session = c, !.parent = r, !.depth = run[r].depth + 1,
                                  !.status = "streaming", !.at = "queued"],
            ![r].at = place,
            ![r].child = IF place = "child" THEN c ELSE @]
       /\ activeSessions' = activeSessions \cup {c}
  /\ UNCHANGED <<phase, awaited>>

\* An expert is delegated to from within the call, without a checkpoint.
DelegateExpert(r) == run[r].at = "call" /\ ~run[r].aborted /\ StartChild(r, "child")

DelegateSubagent(r) ==
  /\ run[r].at = "cleared" /\ MayPass(r)
  /\ \E place \in {"child", "returned"} : StartChild(r, place)

ToolReturns(r) ==
  /\ run[r].at = "tool"
  /\ Go(r, "returned")
  /\ UNCHANGED <<activeSessions, phase, awaited>>

ChildReturns(r) ==
  /\ run[r].at = "child" /\ run[r].child \notin LiveRuns
  /\ run' = [run EXCEPT ![r].at = "returned", ![r].child = NoRun]
  /\ UNCHANGED <<activeSessions, phase, awaited>>

\* The result goes back to the model, after the other calls of the answer.
Return(r) ==
  /\ run[r].at = "returned" /\ MayPass(r)
  /\ GoOn(r)
  /\ UNCHANGED <<activeSessions, phase, awaited>>

\* An approval that is waited for does not hear the signal.
NoticeAbortElsewhere(r) ==
  /\ run[r].aborted
  /\ run[r].at \in Checkpoints \cup {"preflight", "model", "call", "ask"}
  /\ run[r].at = "queued" => run[r].previous \notin LiveRuns
  /\ End(r, "interrupted")

\* The abort signal is seen by whatever the run awaits, a tool in flight and
\* a child excepted: those are waited for.
NoticeAbort(r) ==
  /\ run[r].aborted
  /\ run[r].at \in Checkpoints \cup {"preflight", "model", "call", "approval", "ask"}
  /\ run[r].at = "queued" => run[r].previous \notin LiveRuns
  /\ End(r, "interrupted")

\* The completion of a run does not settle.
LeaveNever(r) == /\ run[r].at = "ending" /\ run[r].status # "error"
                 /\ Go(r, "gone")
                 /\ UNCHANGED <<activeSessions, phase, awaited>>

Leave(r) == /\ run[r].at = "ending"
            /\ Go(r, "gone")
            /\ UNCHANGED <<activeSessions, phase, awaited>>

-----------------------------------------------------------------------------
\* What the process does.

\* prepareAgentShutdown; then, all runs over or the grace period too,
\* closeAiRuns.
Drain == /\ phase = "up"
         /\ phase' = "draining"
         /\ UNCHANGED <<run, activeSessions, awaited>>

Close == /\ phase = "draining"
         /\ phase' = "closing"
         /\ run' = [r \in Runs |-> IF Live(r) THEN [run[r] EXCEPT !.aborted = TRUE]
                                              ELSE run[r]]
         /\ awaited' = LiveRuns
         /\ UNCHANGED activeSessions

Closed == /\ phase = "closing" /\ awaited \cap LiveRuns = {}
          /\ phase' = "closed"
          /\ awaited' = {}
          /\ UNCHANGED <<run, activeSessions>>

\* The process ends, or crashes at any other time: what is not on disk is lost.
Exit == /\ phase # "down"
        /\ phase' = "down"
        /\ run' = [r \in Runs |-> IF r \notin Started THEN run[r]
                                  ELSE [NewRun EXCEPT !.status = run[r].status,
                                          !.session = run[r].session, !.at = "gone"]]
        /\ activeSessions' = {}
        /\ awaited' = {}

\* initializeAiRuns: interruptOrphanedAiRuns.
Boot == /\ phase = "down"
        /\ phase' = "up"
        /\ run' = [r \in Runs |-> IF run[r].status \in {"queued", "streaming"}
                                  THEN [run[r] EXCEPT !.status = "interrupted"]
                                  ELSE run[r]]
        /\ UNCHANGED <<activeSessions, awaited>>

-----------------------------------------------------------------------------
UserSteps(r) == Pause(r) \/ Resume(r) \/ Cancel(r) \/ Steer(r) \/ AnswerQuestion(r)

LoopSteps(r) ==
  \/ Hold(r) \/ Begin(r) \/ Prepare(r) \/ Request(r) \/ RequestResumed(r)
  \/ RequestRefused(r) \/ Answered(r) \/ Fails(r) \/ CallTools(r) \/ FinishTurn(r)
  \/ Screen(r) \/ Decide(r) \/ Dispatch(r) \/ DelegateExpert(r) \/ DelegateSubagent(r)
  \/ ToolReturns(r) \/ ChildReturns(r) \/ Return(r) \/ NoticeAbort(r) \/ Leave(r)

Next == \/ \E s \in Sessions \cup {NoRun} : StartRun(s)
        \/ \E r \in Runs : UserSteps(r) \/ LoopSteps(r)
        \/ Drain \/ Close \/ Closed \/ Exit \/ Boot

Spec == Init /\ [][Next]_vars

\* The loop goes on by itself: requests and tools have time-outs, approvals
\* expire, promises settle.  Users and the shutdown are under no obligation.
FairSpec == Spec /\ \A r \in Runs : WF_vars(LoopSteps(r))

-----------------------------------------------------------------------------
\* Properties.

\* Rows and live records of the runs keep their types (runs.ts:30, AiRunView).
RunTypeOK == /\ run \in [Runs -> RunRecord]
             /\ activeSessions \subseteq Runs
             /\ phase \in {"up", "draining", "closing", "closed", "down"}
             /\ awaited \subseteq Runs

\* However messages are queued, cancelled and resumed, the turns of a session
\* never overlap (the chain of completions in startAiRun).
SessionSerial ==
  \A r, q \in LiveRuns : (r # q /\ run[r].session = run[q].session) =>
                            "queued" \in {run[r].at, run[q].at}

\* A reply recorded as complete has answered every steering input that was
\* accepted (finishPiTurn and appendAiRunInput).
CompletedHeard == \A r \in Runs : run[r].status = "complete" => run[r].inbox = 0

\* No row stays queued or streaming without a run that will finish it
\* (interruptOrphanedAiRuns).
ActiveIsLive == phase # "down" =>
  \A r \in Runs : run[r].status \in {"queued", "streaming"} => Live(r)

\* Whoever of a family is cancelled, its live descendants are, those
\* delegated to later included (startChild and cancelAiRun).
CancelReaches == \A r \in LiveRuns :
  run[r].parent \in LiveRuns /\ run[run[r].parent].aborted => run[r].aborted

\* A final status is never taken back (executeAiTurn and cancelAiRun).
StatusFinal ==
  [][\A r \in Runs : run[r].status \in Final => run'[r].status = run[r].status]_vars

\* A cancelled run sends no further request and dispatches nothing, whatever
\* it was waiting for (AiRunPauseGate.checkpoint and signal.throwIfAborted).
CancelledStaysOut ==
  [][\A r \in Runs : run[r].aborted /\ run'[r].at # run[r].at =>
                        run'[r].at \notin Dispatched \cup {"child"}]_vars

\* A run that stays paused sends no request and dispatches no tool, whichever
\* answers and decisions reach it meanwhile (agent-loop/README.md:74).
PausedHolds ==
  [][\A r \in Runs :
       run[r].gate = "paused" /\ run'[r].gate = "paused" /\ run'[r].at # run[r].at =>
         run'[r].at \notin Dispatched]_vars

\* A cancelled run gets a final status, whatever it was waiting for, unless
\* the process ends first.
CancelEnds == \A r \in Runs : (Live(r) /\ run[r].aborted) ~>
                               (run[r].status \in Final \/ phase = "down")

\* A requested pause takes hold, is withdrawn or is overtaken by the end of
\* the run, unless the run waits for a child (which is asked to pause too).
PauseSettles == \A r \in Runs :
  run[r].gate = "pausing" ~> (run[r].gate # "pausing" \/ run[r].at = "child" \/ ~Live(r))

\* When no run is left paused or with an open question, every queued message
\* has its turn or is cancelled, unless the process ends first.
QueueMoves == (\A q \in Runs : <>[](run[q].gate = "running" /\ run[q].at # "ask"))
  => \A r \in Runs : run[r].status = "queued" ~>
                       (run[r].status # "queued" \/ phase = "down")

-----------------------------------------------------------------------------
\* Statements of the documentation that the code does not keep.

\* setAiSessionPlanMode and forkAiSessionBeforeUserMessage let a user act on
\* a session that is idle (sessions.ts:260, sessions.ts:769).
IdleMeansIdle == \A r \in LiveRuns :
  run[r].status = "streaming" => run[r].session \in activeSessions

\* A run shown as paused has no request or tool under way (client/README.md:25).
PausedQuiet == \A r \in LiveRuns :
  run[r].gate = "paused" => run[r].at \notin {"model", "tool"}

=============================================================================
