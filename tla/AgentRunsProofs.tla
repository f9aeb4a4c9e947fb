-------------------------- MODULE AgentRunsProofs --------------------------
(***************************************************************************)
(* The safety properties of AgentRuns for any number of runs and any       *)
(* budgets.                                                                *)
(*                                                                         *)
(* That the turns of a session do not overlap needs to be known of the     *)
(* whole chain: every live run behind another of its session is queued,    *)
(* and waits for a live run that is not before the other (Chained).  That  *)
(* a cancellation reaches every descendant needs the family of a run to be *)
(* closed: its recursive definition goes MaxDepth levels down, and no run  *)
(* is deeper than that (Deep).                                             *)
(*                                                                         *)
(* What the status of a row promises needs to be tied to the place of its  *)
(* run (RowsFit), which the end of the process cuts and its start repairs. *)
(* That no runs wait for each other in a circle needs to be known of the   *)
(* direction of waits (Links): behind a run of the same session they go to *)
(* older runs, to children they go to newer ones, and no child is queued.  *)
(***************************************************************************)
EXTENDS AgentRuns, WellFoundedInduction, TLAPS

InOrder == \A r \in Started, q \in Runs : q < r => q \in Started

Known == \A r \in Started :
    /\ run[r].session \in Started
    /\ run[r].parent # NoRun => run[r].parent \in Started

Chained == \A r, q \in LiveRuns : q < r /\ run[q].session = run[r].session =>
    /\ run[r].at = "queued"
    /\ run[r].previous \in LiveRuns
    /\ run[run[r].previous].session = run[r].session
    /\ q <= run[r].previous /\ run[r].previous < r

Deep == \A c \in LiveRuns :
    run[c].parent # NoRun => run[c].depth = run[run[c].parent].depth + 1

AgentInv == RunTypeOK /\ InOrder /\ Known /\ Chained /\ Deep /\ CancelReaches

-----------------------------------------------------------------------------
(* How the record of a run changes in a step that starts no run.             *)

Lawful(old, new) ==
    /\ new.session = old.session /\ new.parent = old.parent
    /\ new.previous = old.previous /\ new.depth = old.depth
    /\ old.at = "absent" <=> new.at = "absent"
    /\ old.at = "gone" => new.at = "gone"
    /\ new.at = "gone" => old.at \in {"gone", "ending"}
    /\ old.at = "queued" => new.at = "queued" \/ old.previous \notin LiveRuns
    /\ new.at # old.at /\ new.at \in Dispatched => ~ old.aborted /\ old.gate = "running"
    /\ new.at # old.at /\ new.at = "child" => ~ old.aborted

Steady == \A q \in Runs : Lawful(run[q], run'[q])
Quiet  == \A q \in Runs : run'[q].aborted = run[q].aborted

(* The values that steps put into a record keep its type.                    *)
Statuses == Final \cup {"none", "queued", "streaming"}
Gates    == {"running", "pausing", "paused"}

LEMMA PlacesListed ==
    Places = {"queued", "prepare", "gated", "answered", "cleared", "returned", "absent",
              "preflight", "model", "call", "approval", "tool", "ask", "child", "ending", "gone"}
BY DEF Places, Checkpoints

LEMMA FieldsTyped ==
    ASSUME NEW old \in RunRecord, NEW place \in Places
    PROVE  /\ \A st \in Statuses : [old EXCEPT !.at = place, !.status = st] \in RunRecord
           /\ \A gate \in Gates : [old EXCEPT !.at = place, !.gate = gate] \in RunRecord
           /\ \A n \in 0..MaxInbox : [old EXCEPT !.at = place, !.inbox = n] \in RunRecord
           /\ \A n \in 0..MaxRequests : [old EXCEPT !.at = place, !.requests = n] \in RunRecord
           /\ \A n \in 0..MaxCalls : [old EXCEPT !.at = place, !.calls = n] \in RunRecord
           /\ \A c \in Runs \cup {NoRun} : [old EXCEPT !.at = place, !.child = c] \in RunRecord
<1>1. \A st \in Statuses : [old EXCEPT !.at = place, !.status = st] \in RunRecord
      BY DEF RunRecord, Statuses
<1>2. \A gate \in Gates : [old EXCEPT !.at = place, !.gate = gate] \in RunRecord
      BY DEF RunRecord, Gates
<1>3. \A n \in 0..MaxInbox : [old EXCEPT !.at = place, !.inbox = n] \in RunRecord
      BY DEF RunRecord
<1>4. \A n \in 0..MaxRequests : [old EXCEPT !.at = place, !.requests = n] \in RunRecord
      BY DEF RunRecord
<1>5. \A n \in 0..MaxCalls : [old EXCEPT !.at = place, !.calls = n] \in RunRecord
      BY DEF RunRecord
<1>6. \A c \in Runs \cup {NoRun} : [old EXCEPT !.at = place, !.child = c] \in RunRecord
      BY DEF RunRecord
<1> QED  BY <1>1, <1>2, <1>3, <1>4, <1>5, <1>6

LEMMA ChangeTyped ==
    ASSUME run \in [Runs -> RunRecord], NEW r \in Runs, NEW new \in RunRecord,
           run' = [run EXCEPT ![r] = new]
    PROVE  run' \in [Runs -> RunRecord]
OBVIOUS

LEMMA GoSteady ==
    ASSUME RunTypeOK, NEW r \in Runs, NEW place \in Places, Go(r, place),
           run[r].at \notin {"absent", "queued", "gone"},
           place \notin {"absent", "child"},
           place = "gone" => run[r].at = "ending",
           place \in Dispatched => ~ run[r].aborted /\ run[r].gate = "running"
    PROVE  /\ Steady /\ Quiet
           /\ run' \in [Runs -> RunRecord]
<1>1. run' = [run EXCEPT ![r].at = place]  BY DEF Go
<1>2. run \in [Runs -> RunRecord]  BY DEF RunTypeOK
<1>3. run' \in [Runs -> RunRecord]  BY <1>1, <1>2 DEF RunRecord
<1>4. \A q \in Runs : run'[q].aborted = run[q].aborted  BY <1>1, <1>2 DEF RunRecord
<1>5. ASSUME NEW q \in Runs  PROVE Lawful(run[q], run'[q])
      BY <1>1, <1>2 DEF RunRecord, Lawful
<1> QED  BY <1>3, <1>4, <1>5 DEF Steady, Quiet

LEMMA GoOnSteady ==
    ASSUME RunTypeOK, BoundsAssumption, NEW r \in Runs, GoOn(r),
           run[r].at \notin {"absent", "queued", "gone"}
    PROVE  /\ Steady /\ Quiet
           /\ run' \in [Runs -> RunRecord]
<1>1. CASE Go(r, "prepare")
      BY <1>1, GoSteady DEF Places, Checkpoints, Dispatched
<1>2. CASE /\ run[r].calls < MaxCalls
           /\ run' = [run EXCEPT ![r].at = "call", ![r].calls = @ + 1]
  <2>1. run \in [Runs -> RunRecord]  BY DEF RunTypeOK
  <2>2. run[r].calls + 1 \in 0..MaxCalls  BY <1>2, <2>1 DEF RunRecord, BoundsAssumption
  <2>3. run' = [run EXCEPT ![r] = [run[r] EXCEPT !.at = "call", !.calls = run[r].calls + 1]]
        BY <1>2
  <2>4. run' \in [Runs -> RunRecord]
        BY <2>1, <2>2, <2>3, FieldsTyped, PlacesListed
  <2>5. \A q \in Runs : run'[q].aborted = run[q].aborted  BY <2>1, <2>3 DEF RunRecord
  <2>6. ASSUME NEW q \in Runs  PROVE Lawful(run[q], run'[q])
        BY <2>1, <2>3 DEF RunRecord, Lawful, Dispatched
  <2> QED  BY <2>4, <2>5, <2>6 DEF Steady, Quiet
<1> QED  BY <1>1, <1>2 DEF GoOn

LEMMA EndSteady ==
    ASSUME RunTypeOK, NEW r \in Runs, NEW status \in Final, End(r, status),
           run[r].at \notin {"absent", "gone"},
           run[r].at = "queued" => run[r].previous \notin LiveRuns
    PROVE  /\ Steady /\ Quiet
           /\ RunTypeOK'
<1>1. run' = [run EXCEPT ![r] = [run[r] EXCEPT !.at = "ending", !.status = status]]  BY DEF End
<1>2. run \in [Runs -> RunRecord]  BY DEF RunTypeOK
<1>3. run' \in [Runs -> RunRecord]  BY <1>1, <1>2, FieldsTyped, PlacesListed DEF Statuses
<1>4. \A q \in Runs : run'[q].aborted = run[q].aborted  BY <1>1, <1>2 DEF RunRecord
<1>5. ASSUME NEW q \in Runs  PROVE Lawful(run[q], run'[q])
      BY <1>1, <1>2 DEF RunRecord, Lawful, Dispatched
<1> QED  BY <1>3, <1>4, <1>5 DEF Steady, Quiet, RunTypeOK, End

-----------------------------------------------------------------------------
(* The steps of the loop.                                                    *)

LEMMA SendSteady ==
    ASSUME RunTypeOK, BoundsAssumption, NEW r \in Runs, Send(r), MayPass(r),
           run[r].at \in {"preflight", "gated"}
    PROVE  Steady /\ Quiet /\ RunTypeOK'
<1>1. CASE run[r].requests = MaxRequests  BY <1>1, EndSteady DEF Send, Final
<1>2. CASE run[r].requests # MaxRequests
  <2>1. run \in [Runs -> RunRecord]  BY DEF RunTypeOK
  <2>2. run[r].requests + 1 \in 0..MaxRequests
        BY <1>2, <2>1 DEF RunRecord, BoundsAssumption
  <2>3. run' = [run EXCEPT ![r] = [run[r] EXCEPT !.at = "model", !.requests = run[r].requests + 1]]
        BY <1>2 DEF Send
  <2>4. run' \in [Runs -> RunRecord]  BY <2>1, <2>2, <2>3, FieldsTyped, PlacesListed
  <2>5. \A q \in Runs : run'[q].aborted = run[q].aborted  BY <2>1, <2>3 DEF RunRecord
  <2>6. ASSUME NEW q \in Runs  PROVE Lawful(run[q], run'[q])
        BY <2>1, <2>3 DEF RunRecord, Lawful, Dispatched, MayPass
  <2> QED  BY <1>2, <2>4, <2>5, <2>6 DEF Send, Steady, Quiet, RunTypeOK
<1> QED  BY <1>1, <1>2

StartsChild(r) == \E place \in {"child", "returned"} :
    /\ StartChild(r, place)
    /\ run[r].at \in {"call", "cleared"} /\ ~ run[r].aborted

LEMMA LoopSteady ==
    ASSUME RunTypeOK, BoundsAssumption, Known, NEW r \in Runs, LoopSteps(r)
    PROVE  (Steady /\ Quiet /\ RunTypeOK') \/ StartsChild(r)
<1> DEFINE Goal == Steady /\ Quiet /\ RunTypeOK'
<1> SUFFICES Goal \/ StartsChild(r)  OBVIOUS
<1> HIDE DEF Goal
<1>0. run \in [Runs -> RunRecord]  BY DEF RunTypeOK
<1>a. ASSUME Steady, Quiet, run' \in [Runs -> RunRecord], UNCHANGED <<activeSessions, phase, awaited>>
      PROVE  Goal
      BY <1>a DEF Goal, RunTypeOK
<1>b. ASSUME NEW place \in Places, Go(r, place), UNCHANGED <<activeSessions, phase, awaited>>,
             run[r].at \notin {"absent", "queued", "gone"},
             place \notin {"absent", "child"},
             place = "gone" => run[r].at = "ending",
             place \in Dispatched => ~ run[r].aborted /\ run[r].gate = "running"
      PROVE  Goal
      BY <1>a, <1>b, GoSteady
<1>c. ASSUME GoOn(r), UNCHANGED <<activeSessions, phase, awaited>>,
             run[r].at \notin {"absent", "queued", "gone"}
      PROVE  Goal
      BY <1>a, <1>c, GoOnSteady
<1>d. ASSUME NEW status \in Final, End(r, status), run[r].at \notin {"absent", "gone"},
             run[r].at = "queued" => run[r].previous \notin LiveRuns
      PROVE  Goal
      BY <1>d, EndSteady DEF Goal
<1>e. 0 \in 0..MaxInbox  BY DEF BoundsAssumption
<1>1. CASE Hold(r)
  <2>1. run' = [run EXCEPT ![r] = [run[r] EXCEPT !.gate = "paused"]]  BY <1>1 DEF Hold
  <2>2. run' \in [Runs -> RunRecord]  BY <1>0, <2>1 DEF RunRecord
  <2>3. Quiet  BY <1>0, <2>1 DEF RunRecord, Quiet
  <2>4. Steady  BY <1>0, <2>1 DEF RunRecord, Steady, Lawful
  <2> QED  BY <1>1, <1>a, <2>2, <2>3, <2>4 DEF Hold
<1>2. CASE Begin(r)
  <2>1. run' = [run EXCEPT ![r] = [run[r] EXCEPT !.at = "prepare", !.status = "streaming"]]
        BY <1>2 DEF Begin
  <2>2. run' \in [Runs -> RunRecord]
        BY <1>0, <2>1, FieldsTyped, PlacesListed DEF Statuses
  <2>3. Quiet  BY <1>0, <2>1 DEF RunRecord, Quiet
  <2>4. Steady  BY <1>0, <1>2, <2>1 DEF RunRecord, Steady, Lawful, Begin, Dispatched
  <2>5. run[r].session \in Runs  BY <1>2 DEF Begin, Known, Started
  <2> QED  BY <1>2, <2>2, <2>3, <2>4, <2>5 DEF Goal, Begin, RunTypeOK
<1>3. CASE Prepare(r)
  <2>1. run' = [run EXCEPT ![r] = [run[r] EXCEPT !.at = "preflight", !.inbox = 0]]
        BY <1>3 DEF Prepare
  <2>2. run' \in [Runs -> RunRecord]
        BY <1>0, <1>e, <2>1, FieldsTyped, PlacesListed
  <2>3. Quiet  BY <1>0, <2>1 DEF RunRecord, Quiet
  <2>4. Steady  BY <1>0, <1>3, <2>1 DEF RunRecord, Steady, Lawful, Prepare, Dispatched
  <2> QED  BY <1>3, <1>a, <2>2, <2>3, <2>4 DEF Prepare
<1>4. CASE Request(r)
  <2>1. CASE run[r].gate = "running"
        BY <1>4, <2>1, SendSteady DEF Request, Goal, MayPass
  <2>2. CASE run[r].gate # "running"
    <3>1. run' = [run EXCEPT ![r] = [run[r] EXCEPT !.at = "gated", !.gate = "paused"]]
          BY <1>4, <2>2 DEF Request
    <3>2. run' \in [Runs -> RunRecord]  BY <1>0, <3>1, FieldsTyped, PlacesListed DEF Gates
    <3>3. Quiet  BY <1>0, <3>1 DEF RunRecord, Quiet
    <3>4. Steady  BY <1>0, <1>4, <3>1 DEF RunRecord, Steady, Lawful, Request, Dispatched
    <3> QED  BY <1>4, <1>a, <2>2, <3>2, <3>3, <3>4 DEF Request
  <2> QED  BY <2>1, <2>2
<1>5. CASE RequestResumed(r)  BY <1>5, SendSteady DEF RequestResumed, Goal
<1>6. CASE RequestRefused(r) \/ Fails(r)
      BY <1>6, <1>d DEF RequestRefused, Fails, Final
<1>7. CASE Answered(r)
      BY <1>7, <1>b DEF Answered, Places, Checkpoints, Dispatched
<1>8. CASE CallTools(r)  BY <1>8, <1>c, <1>d DEF CallTools, Final
<1>9. CASE FinishTurn(r)
  <2>1. CASE run[r].inbox > 0
    <3>1. run' = [run EXCEPT ![r] = [run[r] EXCEPT !.at = "prepare", !.inbox = 0]]
          BY <1>9, <2>1 DEF FinishTurn
    <3>2. run' \in [Runs -> RunRecord]
          BY <1>0, <1>e, <3>1, FieldsTyped, PlacesListed
    <3>3. Quiet  BY <1>0, <3>1 DEF RunRecord, Quiet
    <3>4. Steady  BY <1>0, <1>9, <3>1 DEF RunRecord, Steady, Lawful, FinishTurn, Dispatched
    <3> QED  BY <1>9, <1>a, <2>1, <3>2, <3>3, <3>4 DEF FinishTurn
  <2>2. CASE ~ (run[r].inbox > 0)  BY <1>9, <1>d, <2>2 DEF FinishTurn, Final
  <2> QED  BY <2>1, <2>2
<1>10. CASE Screen(r)
      BY <1>10, <1>b DEF Screen, Places, Checkpoints, Dispatched
<1>11. CASE Decide(r)
      BY <1>11, <1>b, <1>c DEF Decide, Places, Checkpoints, Dispatched
<1>12. CASE Dispatch(r)
      BY <1>12, <1>b DEF Dispatch, MayPass, Places
<1>13. CASE DelegateExpert(r)  BY <1>13 DEF DelegateExpert, StartsChild
<1>14. CASE DelegateSubagent(r)  BY <1>14 DEF DelegateSubagent, StartsChild, MayPass
<1>15. CASE ToolReturns(r)
      BY <1>15, <1>b DEF ToolReturns, Places, Checkpoints, Dispatched
<1>16. CASE ChildReturns(r)
  <2>1. run' = [run EXCEPT ![r] = [run[r] EXCEPT !.at = "returned", !.child = NoRun]]
        BY <1>16 DEF ChildReturns
  <2>2. run' \in [Runs -> RunRecord]  BY <1>0, <2>1, FieldsTyped, PlacesListed
  <2>3. Quiet  BY <1>0, <2>1 DEF RunRecord, Quiet
  <2>4. Steady  BY <1>0, <1>16, <2>1 DEF RunRecord, Steady, Lawful, ChildReturns, Dispatched
  <2> QED  BY <1>16, <1>a, <2>2, <2>3, <2>4 DEF ChildReturns
<1>17. CASE Return(r)  BY <1>17, <1>c DEF Return
<1>18. CASE NoticeAbort(r)
      BY <1>18, <1>d DEF NoticeAbort, Final, Checkpoints
<1>19. CASE Leave(r)
      BY <1>19, <1>b DEF Leave, Places, Dispatched
<1> QED
  BY <1>1, <1>2, <1>3, <1>4, <1>5, <1>6, <1>7, <1>8, <1>9, <1>10, <1>11, <1>12, <1>13, <1>14,
     <1>15, <1>16, <1>17, <1>18, <1>19 DEF LoopSteps, Goal

-----------------------------------------------------------------------------
(* The steps of users and of the process.                                    *)

LEMMA GatesSteady ==
    ASSUME RunTypeOK, DOMAIN run' = Runs, run' = [q \in Runs |-> run'[q]],
           \A q \in Runs : \E gate \in Gates : run'[q] = [run[q] EXCEPT !.gate = gate],
           UNCHANGED <<activeSessions, phase, awaited>>
    PROVE  Steady /\ Quiet /\ RunTypeOK'
<1>1. run \in [Runs -> RunRecord]  BY DEF RunTypeOK
<1>2. ASSUME NEW q \in Runs
      PROVE  /\ run'[q] \in RunRecord /\ run'[q].aborted = run[q].aborted
             /\ Lawful(run[q], run'[q])
  <2>1. PICK gate \in Gates : run'[q] = [run[q] EXCEPT !.gate = gate]  OBVIOUS
  <2>2. run[q] \in RunRecord  BY <1>1
  <2>3. run'[q] \in RunRecord  BY <2>1, <2>2 DEF RunRecord, Gates
  <2> QED  BY <2>1, <2>2, <2>3 DEF RunRecord, Lawful
<1>3. run' \in [Runs -> RunRecord]  BY <1>2
<1> QED  BY <1>2, <1>3 DEF RunTypeOK, Steady, Quiet

LEMMA UserSteady ==
    ASSUME RunTypeOK, BoundsAssumption, NEW r \in Runs,
           Pause(r) \/ Resume(r) \/ Steer(r) \/ AnswerQuestion(r)
    PROVE  Steady /\ Quiet /\ RunTypeOK'
<1>0. run \in [Runs -> RunRecord]  BY DEF RunTypeOK
<1>1. CASE Pause(r)
  <2>1. ASSUME NEW q \in Runs
        PROVE  \E gate \in Gates : run'[q] = [run[q] EXCEPT !.gate = gate]
    <3> DEFINE gate == CASE WaitsForUser(q) -> "paused"
                         [] run[q].gate = "running" -> "pausing"
                         [] OTHER -> run[q].gate
    <3>1. gate \in Gates  BY <1>0 DEF RunRecord, Gates
    <3>2. run[q] = [run[q] EXCEPT !.gate = run[q].gate] /\ run[q].gate \in Gates
          BY <1>0 DEF RunRecord, Gates
    <3>3. CASE q \in Family(r)
      <4>1. run'[q] = [run[q] EXCEPT !.gate = gate]  BY <1>1, <3>3 DEF Pause
      <4> QED  BY <3>1, <4>1
    <3>4. CASE q \notin Family(r)
      <4>1. run'[q] = run[q]  BY <1>1, <3>4 DEF Pause
      <4> QED  BY <3>2, <4>1
    <3> QED  BY <3>3, <3>4
  <2>2. DOMAIN run' = Runs /\ run' = [q \in Runs |-> run'[q]]
        /\ UNCHANGED <<activeSessions, phase, awaited>>
        BY <1>1 DEF Pause
  <2> QED  BY <2>1, <2>2, GatesSteady
<1>2. CASE Resume(r)
  <2>1. ASSUME NEW q \in Runs
        PROVE  \E gate \in Gates : run'[q] = [run[q] EXCEPT !.gate = gate]
    <3>1. run[q] = [run[q] EXCEPT !.gate = run[q].gate] /\ run[q].gate \in Gates
          BY <1>0 DEF RunRecord, Gates
    <3>2. run'[q] = IF q \in Family(r) THEN [run[q] EXCEPT !.gate = "running"] ELSE run[q]
          BY <1>2 DEF Resume
    <3> QED  BY <3>1, <3>2 DEF Gates
  <2>2. DOMAIN run' = Runs /\ run' = [q \in Runs |-> run'[q]]
        /\ UNCHANGED <<activeSessions, phase, awaited>>
        BY <1>2 DEF Resume
  <2> QED  BY <2>1, <2>2, GatesSteady
<1>3. CASE Steer(r)
  <2>1. run[r].inbox + 1 \in 0..MaxInbox  BY <1>0, <1>3 DEF RunRecord, BoundsAssumption, Steer
  <2>2. run' = [run EXCEPT ![r] = [run[r] EXCEPT !.inbox = run[r].inbox + 1]]  BY <1>3 DEF Steer
  <2>3. [run[r] EXCEPT !.inbox = run[r].inbox + 1] \in RunRecord  BY <1>0, <2>1 DEF RunRecord
  <2>4. run' \in [Runs -> RunRecord]  BY <1>0, <2>2, <2>3
  <2>5. Quiet  BY <1>0, <2>2 DEF RunRecord, Quiet
  <2>6. Steady  BY <1>0, <2>2 DEF RunRecord, Steady, Lawful
  <2> QED  BY <1>3, <2>4, <2>5, <2>6 DEF Steer, RunTypeOK
<1>4. CASE AnswerQuestion(r)
      BY <1>4, GoSteady, PlacesListed DEF AnswerQuestion, Dispatched, RunTypeOK
<1> QED  BY <1>1, <1>2, <1>3, <1>4

LEMMA CancelSteady ==
    ASSUME RunTypeOK, NEW r \in Runs, Cancel(r)
    PROVE  /\ Steady /\ RunTypeOK'
           /\ \A q \in Runs : run'[q].aborted <=> run[q].aborted \/ q \in Family(r)
<1>0. run \in [Runs -> RunRecord]  BY DEF RunTypeOK
<1>1. ASSUME NEW q \in Runs
      PROVE  /\ run'[q] \in RunRecord /\ Lawful(run[q], run'[q])
             /\ run'[q].aborted <=> run[q].aborted \/ q \in Family(r)
  <2>0. run[q] \in RunRecord  BY <1>0
  <2>1. CASE q \notin Family(r)
    <3>1. run'[q] = run[q]  BY <2>1 DEF Cancel
    <3> QED  BY <2>0, <2>1, <3>1 DEF Lawful
  <2>2. CASE q \in Family(r)
    <3>1. PICK st \in Statuses : run'[q] = [run[q] EXCEPT !.aborted = TRUE, !.status = st]
      <4>1. run[q].status \in Statuses /\ "interrupted" \in Statuses
            BY <2>0 DEF RunRecord, Statuses, Final
      <4>2. run'[q] = [run[q] EXCEPT !.aborted = TRUE,
                         !.status = IF q = r /\ run[r].status = "queued"
                                    THEN "interrupted" ELSE run[q].status]
            BY <2>2 DEF Cancel
      <4>3. CASE q = r /\ run[r].status = "queued"  BY <4>1, <4>2, <4>3
      <4>4. CASE ~ (q = r /\ run[r].status = "queued")  BY <4>1, <4>2, <4>4
      <4> QED  BY <4>3, <4>4
    <3>2. run'[q] \in RunRecord  BY <2>0, <3>1 DEF RunRecord, Statuses
    <3>3. run'[q].aborted  BY <2>0, <3>1 DEF RunRecord
    <3>4. Lawful(run[q], run'[q])  BY <2>0, <3>1 DEF RunRecord, Lawful
    <3> QED  BY <2>2, <3>2, <3>3, <3>4
  <2> QED  BY <2>1, <2>2
<1>2. run' = [q \in Runs |-> run'[q]]  BY DEF Cancel
<1>3. run' \in [Runs -> RunRecord]  BY <1>1, <1>2
<1>4. activeSessions' \subseteq Runs  BY DEF Cancel, RunTypeOK
<1> QED  BY <1>1, <1>3, <1>4 DEF Steady, RunTypeOK, Cancel

LEMMA CloseSteady ==
    ASSUME RunTypeOK, Close
    PROVE  /\ Steady /\ RunTypeOK'
           /\ \A q \in LiveRuns : run'[q].aborted
<1>0. run \in [Runs -> RunRecord]  BY DEF RunTypeOK
<1>1. ASSUME NEW q \in Runs
      PROVE  run'[q] \in RunRecord /\ Lawful(run[q], run'[q]) /\ (Live(q) => run'[q].aborted)
  <2>0. run[q] \in RunRecord  BY <1>0
  <2>1. run'[q] = IF Live(q) THEN [run[q] EXCEPT !.aborted = TRUE] ELSE run[q]  BY DEF Close
  <2>2. CASE Live(q)
    <3>1. run'[q] = [run[q] EXCEPT !.aborted = TRUE]  BY <2>1, <2>2
    <3>2. run'[q] \in RunRecord  BY <2>0, <3>1 DEF RunRecord
    <3> QED  BY <2>0, <3>1, <3>2 DEF RunRecord, Lawful
  <2>3. CASE ~ Live(q)  BY <2>0, <2>1, <2>3 DEF Lawful
  <2> QED  BY <2>2, <2>3
<1>2. run' = [q \in Runs |-> run'[q]]  BY DEF Close
<1>3. run' \in [Runs -> RunRecord]  BY <1>1, <1>2
<1> QED  BY <1>1, <1>3 DEF Steady, RunTypeOK, Close, LiveRuns

LEMMA ProcessSteady ==
    ASSUME RunTypeOK, Drain \/ Closed \/ Boot \/ UNCHANGED vars
    PROVE  Steady /\ Quiet /\ RunTypeOK'
<1>0. run \in [Runs -> RunRecord]  BY DEF RunTypeOK
<1>1. CASE Drain \/ Closed \/ UNCHANGED vars
  <2>1. run' = run  BY <1>1 DEF Drain, Closed, vars
  <2>2. Steady /\ Quiet  BY <2>1 DEF Steady, Quiet, Lawful
  <2> QED  BY <1>1, <2>1, <2>2 DEF RunTypeOK, Drain, Closed, vars
<1>2. CASE Boot
  <2>1. ASSUME NEW q \in Runs
        PROVE  /\ run'[q] \in RunRecord /\ run'[q].aborted = run[q].aborted
               /\ Lawful(run[q], run'[q])
    <3>0. run[q] \in RunRecord  BY <1>0
    <3>1. CASE run[q].status \in {"queued", "streaming"}
      <4>1. run'[q] = [run[q] EXCEPT !.status = "interrupted"]  BY <1>2, <3>1 DEF Boot
      <4>2. run'[q] \in RunRecord  BY <3>0, <4>1 DEF RunRecord, Final
      <4> QED  BY <3>0, <4>1, <4>2 DEF RunRecord, Lawful
    <3>2. CASE run[q].status \notin {"queued", "streaming"}
          BY <1>2, <3>0, <3>2 DEF Boot, Lawful
    <3> QED  BY <3>1, <3>2
  <2>2. run' = [q \in Runs |-> run'[q]]  BY <1>2 DEF Boot
  <2>3. run' \in [Runs -> RunRecord]  BY <2>1, <2>2
  <2> QED  BY <1>2, <2>1, <2>3 DEF Steady, Quiet, RunTypeOK, Boot
<1> QED  BY <1>1, <1>2

-----------------------------------------------------------------------------
(* The order of runs and the chains of their sessions.                       *)

LEMMA SteadyLives ==
    ASSUME Steady, NEW q \in Runs
    PROVE  /\ q \in Started' <=> q \in Started
           /\ q \in LiveRuns' => q \in LiveRuns
           /\ q \in LiveRuns /\ q \notin LiveRuns' => run[q].at = "ending"
           /\ run'[q].session = run[q].session /\ run'[q].parent = run[q].parent
           /\ run'[q].previous = run[q].previous /\ run'[q].depth = run[q].depth
           /\ run[q].at = "queued" => run'[q].at = "queued" \/ run[q].previous \notin LiveRuns
BY DEF Steady, Lawful, Started, LiveRuns, Live

LEMMA SteadyChains ==
    ASSUME RunTypeOK, InOrder, Known, Chained, Deep, Steady
    PROVE  InOrder' /\ Known' /\ Chained' /\ Deep'
<1>1. Started' = Started  BY SteadyLives DEF Started
<1>2. InOrder'  BY <1>1 DEF InOrder
<1>3. Started \subseteq Runs /\ LiveRuns \subseteq Started /\ LiveRuns' \subseteq LiveRuns
      BY SteadyLives DEF Started, LiveRuns, Live
<1>4. Known'  BY <1>1, <1>3, SteadyLives DEF Known
<1>5. Chained'
  <2> SUFFICES ASSUME NEW r \in LiveRuns', NEW q \in LiveRuns', q < r,
                      run'[q].session = run'[r].session
               PROVE  /\ run'[r].at = "queued"
                      /\ run'[r].previous \in LiveRuns'
                      /\ run'[run'[r].previous].session = run'[r].session
                      /\ q <= run'[r].previous /\ run'[r].previous < r
      BY DEF Chained
  <2> DEFINE p == run[r].previous
  <2>1. r \in LiveRuns /\ q \in LiveRuns /\ run[q].session = run[r].session
        BY <1>3, SteadyLives
  <2>2. /\ run[r].at = "queued" /\ p \in LiveRuns /\ run[p].session = run[r].session
        /\ q <= p /\ p < r
        BY <2>1 DEF Chained
  <2>3. run'[r].at = "queued" /\ run'[r].previous = p
        BY <1>3, <2>1, <2>2, SteadyLives
  <2>4. p \in LiveRuns'
    <3>1. SUFFICES ASSUME p \notin LiveRuns'  PROVE FALSE  OBVIOUS
    <3>2. run[p].at = "ending"  BY <1>3, <2>2, <3>1, SteadyLives
    <3>3. q # p  BY <3>1
    <3>4. p \in Nat /\ q \in Nat
      <4>1. \A x \in Runs : x \in Nat  BY DEF Runs
      <4> QED  BY <1>3, <2>1, <2>2, <4>1
    <3>5. q < p  BY <2>2, <3>3, <3>4
    <3>6. run[p].at = "queued"  BY <2>1, <2>2, <3>5 DEF Chained
    <3> QED  BY <3>2, <3>6
  <2>5. run'[p].session = run'[r].session  BY <1>3, <2>1, <2>2, SteadyLives
  <2> QED  BY <2>2, <2>3, <2>4, <2>5
<1>6. Deep'
  <2> SUFFICES ASSUME NEW c \in LiveRuns', run'[c].parent # NoRun
               PROVE  run'[c].depth = run'[run'[c].parent].depth + 1
      BY DEF Deep
  <2>1. c \in LiveRuns /\ run[c].parent # NoRun  BY <1>3, SteadyLives
  <2>2. run[c].parent \in Started  BY <1>3, <2>1 DEF Known
  <2>3. run[c].depth = run[run[c].parent].depth + 1  BY <2>1 DEF Deep
  <2> QED  BY <1>3, <2>1, <2>2, <2>3, SteadyLives
<1> QED  BY <1>2, <1>4, <1>5, <1>6

(* The newest of some runs.                                                  *)
LEMMA MaxOfRuns ==
    ASSUME BoundsAssumption, NEW S \in SUBSET Runs, S # {}
    PROVE  Max(S) \in S /\ \A q \in S : q <= Max(S)
<1> DEFINE T == {MaxRuns - q : q \in S}
<1> DEFINE Below == OpToRel(<, Nat)
<1>1. \A q \in S : q \in Nat /\ MaxRuns - q \in Nat  BY DEF Runs, BoundsAssumption
<1>2. T \subseteq Nat /\ T # {}  BY <1>1
<1>3. \A x, y \in Nat : y < x => <<y, x>> \in Below  BY DEF OpToRel
<1>4. IsWellFoundedOn(Below, Nat)  BY NatLessThanWellFounded
<1>5. PICK t \in T : \A u \in T : <<u, t>> \notin Below
  <2> HIDE DEF T, Below
  <2> QED  BY <1>2, <1>4, WFMin
<1>6. PICK m \in S : t = MaxRuns - m  OBVIOUS
<1> HIDE DEF Below
<1>7. ASSUME NEW q \in S  PROVE m >= q
  <2>1. MaxRuns - q \in T  OBVIOUS
  <2>2. ~ (MaxRuns - q < MaxRuns - m)  BY <1>1, <1>3, <1>5, <1>6, <2>1
  <2>3. MaxRuns \in Nat  BY DEF BoundsAssumption
  <2> QED  BY <1>1, <2>2, <2>3
<1>8. Max(S) \in S /\ \A q \in S : Max(S) >= q  BY <1>7 DEF Max
<1> QED  BY <1>1, <1>8

LEMMA NewestLast ==
    ASSUME BoundsAssumption, NEW s
    PROVE  /\ \A q \in LiveRuns : run[q].session = s =>
                 /\ Newest(s) \in LiveRuns /\ run[Newest(s)].session = s
                 /\ q <= Newest(s)
           /\ Newest(s) \in LiveRuns \cup {NoRun}
<1> DEFINE inSession == {q \in LiveRuns : run[q].session = s}
<1>1. inSession \in SUBSET Runs  BY DEF LiveRuns
<1>2. CASE inSession = {}  BY <1>2 DEF Newest
<1>3. CASE inSession # {}
  <2>1. Newest(s) = Max(inSession)  BY <1>3 DEF Newest
  <2>2. Max(inSession) \in inSession /\ \A q \in inSession : q <= Max(inSession)
        BY <1>1, <1>3, MaxOfRuns
  <2> QED  BY <2>1, <2>2
<1> QED  BY <1>2, <1>3

-----------------------------------------------------------------------------
(* A run starts.                                                             *)

Fresh(c) == c \in Runs \ Started /\ \A q \in 1..(c - 1) : q \in Started

LEMMA FreshLast ==
    ASSUME InOrder, NEW c, Fresh(c)
    PROVE  /\ \A q \in Started : q < c
           /\ \A q \in Runs : q < c => q \in Started
<1>1. c \in Runs /\ c \notin Started /\ Started \subseteq Runs  BY DEF Fresh, Started
<1>2. \A q \in Started : ~ (c < q)  BY <1>1 DEF InOrder
<1>3. \A q \in Started : q # c  BY <1>1
<1>4. \A q \in Runs : q \in Nat  BY DEF Runs
<1>5. \A q \in Runs : q < c => q \in 1..(c - 1)  BY <1>1, <1>4 DEF Runs
<1> QED  BY <1>1, <1>2, <1>3, <1>4, <1>5 DEF Fresh

\* Run c starts in session s, behind p.
Starts(c, s, p) ==
    /\ Fresh(c)
    /\ \A q \in Runs \ {c} : Lawful(run[q], run'[q])
    /\ run'[c].session = s /\ run'[c].previous = p /\ run'[c].at = "queued"

LEMMA StartsLives ==
    ASSUME NEW c, NEW s, NEW p, Starts(c, s, p)
    PROVE  /\ c \notin Started /\ c \in Runs
           /\ Started' = Started \cup {c}
           /\ LiveRuns' \subseteq LiveRuns \cup {c}
           /\ LiveRuns \subseteq Started /\ Started \subseteq Runs
           /\ \A q \in Started :
                /\ run'[q].session = run[q].session /\ run'[q].parent = run[q].parent
                /\ run'[q].previous = run[q].previous /\ run'[q].depth = run[q].depth
                /\ run[q].at = "queued" => run'[q].at = "queued" \/ run[q].previous \notin LiveRuns
                /\ q \in LiveRuns /\ q \notin LiveRuns' => run[q].at = "ending"
<1>1. c \in Runs /\ c \notin Started /\ run'[c].at = "queued"  BY DEF Starts, Fresh
<1>2. ASSUME NEW q \in Runs, q # c  PROVE Lawful(run[q], run'[q])  BY <1>2 DEF Starts
<1>3. Started' = Started \cup {c}  BY <1>1, <1>2 DEF Started, Lawful
<1>4. LiveRuns' \subseteq LiveRuns \cup {c}  BY <1>1, <1>2 DEF LiveRuns, Live, Lawful
<1>5. LiveRuns \subseteq Started /\ Started \subseteq Runs  BY DEF LiveRuns, Live, Started
<1>6. \A q \in Started : q \in Runs /\ q # c  BY <1>1, <1>5
<1> QED  BY <1>1, <1>2, <1>3, <1>4, <1>5, <1>6 DEF Lawful, LiveRuns, Live

LEMMA StartsChains ==
    ASSUME RunTypeOK, InOrder, Known, Chained, NEW c, NEW s, NEW p, Starts(c, s, p),
           p \in LiveRuns => p \in LiveRuns',
           \A q \in LiveRuns : run[q].session = s =>
              p \in LiveRuns /\ run[p].session = s /\ q <= p
    PROVE  InOrder' /\ Chained'
<1>0. /\ \A q \in Started : q < c
      /\ \A q \in Runs : q < c => q \in Started
      BY FreshLast DEF Starts
<1>1. /\ Started' = Started \cup {c} /\ LiveRuns' \subseteq LiveRuns \cup {c}
      /\ LiveRuns \subseteq Started /\ Started \subseteq Runs /\ c \notin Started
      BY StartsLives
<1>2. InOrder'
  <2> SUFFICES ASSUME NEW r \in Started', NEW q \in Runs, q < r  PROVE q \in Started'
      BY DEF InOrder
  <2>1. CASE r = c  BY <1>0, <1>1, <2>1
  <2>2. CASE r # c  BY <1>1, <2>2 DEF InOrder
  <2> QED  BY <2>1, <2>2
<1>3. Chained'
  <2> SUFFICES ASSUME NEW r \in LiveRuns', NEW q \in LiveRuns', q < r,
                      run'[q].session = run'[r].session
               PROVE  /\ run'[r].at = "queued"
                      /\ run'[r].previous \in LiveRuns'
                      /\ run'[run'[r].previous].session = run'[r].session
                      /\ q <= run'[r].previous /\ run'[r].previous < r
      BY DEF Chained
  <2>0. \A x \in Runs : x \in Nat  BY DEF Runs
  <2>1. r \in LiveRuns \cup {c} /\ q \in LiveRuns \cup {c} /\ c \in Runs
        BY <1>1, StartsLives
  <2>2. q # c
    <3>1. r = c \/ r < c  BY <1>0, <1>1, <2>1
    <3>2. r \in Nat /\ q \in Nat /\ c \in Nat  BY <1>1, <2>0, <2>1
    <3> QED  BY <3>1, <3>2
  <2>3. CASE r = c
    <3>1. q \in LiveRuns /\ run[q].session = s
          BY <1>1, <2>1, <2>2, <2>3, StartsLives DEF Starts
    <3>2. p \in LiveRuns /\ run[p].session = s /\ q <= p  BY <3>1
    <3>3. run'[c].at = "queued" /\ run'[c].previous = p /\ run'[c].session = s  BY DEF Starts
    <3>4. p \in LiveRuns' /\ run'[p].session = s /\ p < c
          BY <1>0, <1>1, <3>2, StartsLives
    <3> QED  BY <2>3, <3>2, <3>3, <3>4
  <2>4. CASE r # c
    <3> DEFINE b == run[r].previous
    <3>1. r \in LiveRuns /\ q \in LiveRuns /\ run[q].session = run[r].session
          BY <1>1, <2>1, <2>2, <2>4, StartsLives
    <3>2. /\ run[r].at = "queued" /\ b \in LiveRuns /\ run[b].session = run[r].session
          /\ q <= b /\ b < r
          BY <3>1 DEF Chained
    <3>3. run'[r].at = "queued" /\ run'[r].previous = b
          BY <1>1, <3>1, <3>2, StartsLives
    <3>4. b \in LiveRuns'
      <4>1. SUFFICES ASSUME b \notin LiveRuns'  PROVE FALSE  OBVIOUS
      <4>2. run[b].at = "ending"  BY <1>1, <3>2, <4>1, StartsLives
      <4>3. q # b  BY <4>1
      <4>4. b \in Nat /\ q \in Nat  BY <1>1, <2>0, <3>1, <3>2
      <4>5. q < b  BY <3>2, <4>3, <4>4
      <4>6. run[b].at = "queued"  BY <3>1, <3>2, <4>5 DEF Chained
      <4> QED  BY <4>2, <4>6
    <3>5. run'[b].session = run'[r].session  BY <1>1, <3>1, <3>2, StartsLives
    <3> QED  BY <3>2, <3>3, <3>4, <3>5
  <2> QED  BY <2>3, <2>4
<1> QED  BY <1>2, <1>3

-----------------------------------------------------------------------------
(* The family of a run: its definition has a solution, and MaxDepth levels   *)
(* are enough for it to be closed.                                           *)

LEMMA NatInductionSet ==
    ASSUME NEW S, 0 \in S, \A n \in Nat : n \in S => n + 1 \in S
    PROVE  Nat \subseteq S
<1> DEFINE T == Nat \ S  Below == OpToRel(<, Nat)
<1> SUFFICES ASSUME T # {}  PROVE FALSE  OBVIOUS
<1>1. \A x, y \in Nat : y < x => <<y, x>> \in Below  BY DEF OpToRel
<1>2. IsWellFoundedOn(Below, Nat)  BY NatLessThanWellFounded
<1> HIDE DEF Below
<1>3. PICK x \in T : \A y \in T : <<y, x>> \notin Below  BY <1>2, WFMin
<1>4. x \in Nat /\ x # 0  OBVIOUS
<1>5. x - 1 \in Nat /\ x - 1 < x /\ (x - 1) + 1 = x  BY <1>4
<1>6. x - 1 \in T  BY <1>5
<1> QED  BY <1>1, <1>3, <1>4, <1>5, <1>6

\* One level further down.
Down(S) == S \cup {c \in LiveRuns : run[c].parent \in S}

\* f lists the levels of r's family.
Levels(f, r, n) == f = [d \in 0..n |-> IF d = 0 THEN {r} ELSE Down(f[d - 1])]

LEMMA LevelsExist ==
    ASSUME NEW r, NEW n \in Nat  PROVE \E f : Levels(f, r, n)
<1> DEFINE S == {m \in Nat : \E f : Levels(f, r, m)}
<1>1. 0 \in S
  <2>1. Levels([d \in 0..0 |-> {r}], r, 0)  BY DEF Levels
  <2> QED  BY <2>1
<1>2. ASSUME NEW m \in Nat, m \in S  PROVE m + 1 \in S
  <2>1. PICK f : Levels(f, r, m)  BY <1>2
  <2> DEFINE g == [d \in 0..(m + 1) |-> IF d = m + 1 THEN Down(f[m]) ELSE f[d]]
  <2>2. ASSUME NEW d \in 0..(m + 1)
        PROVE  g[d] = IF d = 0 THEN {r} ELSE Down(g[d - 1])
    <3>1. CASE d = 0
          BY <2>1, <3>1 DEF Levels
    <3>2. CASE d = m + 1
      <4>1. d # 0 /\ d - 1 = m /\ m \in 0..(m + 1) /\ m # m + 1  BY <3>2
      <4>2. g[m] = f[m]  BY <4>1
      <4> QED  BY <3>2, <4>1, <4>2
    <3>3. CASE d # 0 /\ d # m + 1
      <4>1. d \in 0..m /\ d - 1 \in 0..m /\ d - 1 \in 0..(m + 1) /\ d - 1 # m + 1  BY <3>3
      <4>2. f[d] = Down(f[d - 1])  BY <2>1, <3>3, <4>1 DEF Levels
      <4>3. g[d] = f[d] /\ g[d - 1] = f[d - 1]  BY <3>3, <4>1
      <4> QED  BY <3>3, <4>2, <4>3
    <3> QED  BY <3>1, <3>2, <3>3
  <2>3. g = [d \in 0..(m + 1) |-> g[d]]  OBVIOUS
  <2> HIDE DEF g
  <2>4. Levels(g, r, m + 1)  BY <2>2, <2>3 DEF Levels
  <2> QED  BY <2>4
<1> HIDE DEF S
<1>3. n \in S  BY <1>1, <1>2, NatInductionSet
<1> QED  BY <1>3 DEF S

LEMMA FamilyLevels ==
    ASSUME BoundsAssumption, NEW r
    PROVE  \E f : Levels(f, r, MaxDepth) /\ Family(r) = f[MaxDepth]
<1> DEFINE Def(f) == f = [d \in 0..MaxDepth |->
              IF d = 0 THEN {r}
              ELSE f[d - 1] \cup {c \in LiveRuns : run[c].parent \in f[d - 1]}]
           reached == CHOOSE f : f = [d \in 0..MaxDepth |->
              IF d = 0 THEN {r}
              ELSE f[d - 1] \cup {c \in LiveRuns : run[c].parent \in f[d - 1]}]
<1>1. MaxDepth \in Nat  BY DEF BoundsAssumption
<1>2. PICK f : Levels(f, r, MaxDepth)  BY <1>1, LevelsExist
<1>3. Def(f)  BY <1>2 DEF Levels, Down
<1>4. Def(reached)  BY <1>3
<1>5. Family(r) = reached[MaxDepth]  BY Zenon DEF Family
<1> HIDE DEF reached
<1>6. Levels(reached, r, MaxDepth)  BY <1>4 DEF Levels, Down
<1> QED  BY <1>5, <1>6

LEMMA FamilyClosed ==
    ASSUME BoundsAssumption, RunTypeOK, Deep, NEW r \in LiveRuns
    PROVE  /\ r \in Family(r) /\ Family(r) \subseteq LiveRuns
           /\ \A c \in LiveRuns : run[c].parent \in Family(r) => c \in Family(r)
<1>0. MaxDepth \in Nat  BY DEF BoundsAssumption
<1>1. PICK f : Levels(f, r, MaxDepth) /\ Family(r) = f[MaxDepth]  BY FamilyLevels
<1>2. ASSUME NEW q \in LiveRuns  PROVE q \in Runs /\ run[q].depth \in 0..MaxDepth
      BY <1>2 DEF LiveRuns, RunTypeOK, RunRecord
<1>3. f[0] = {r}  BY <1>0, <1>1 DEF Levels
<1>4. \A d \in Nat : d < MaxDepth => f[d + 1] = Down(f[d])
  <2> SUFFICES ASSUME NEW d \in Nat, d < MaxDepth  PROVE f[d + 1] = Down(f[d])  OBVIOUS
  <2>1. d + 1 \in 0..MaxDepth /\ d + 1 # 0 /\ (d + 1) - 1 = d  BY <1>0
  <2> QED  BY <1>1, <2>1 DEF Levels
\* Levels hold live runs, grow, and hold a run at the latest at its depth.
<1> DEFINE Grown(d) == /\ f[d] \subseteq LiveRuns
                       /\ \A e \in Nat : e <= d => f[e] \subseteq f[d]
                       /\ \A q \in f[d] : \E e \in Nat : e <= d /\ e <= run[q].depth /\ q \in f[e]
           S == {d \in Nat : d <= MaxDepth => Grown(d)}
<1>5. 0 \in S
  <2>1. run[r].depth \in Nat  BY <1>0, <1>2
  <2>2. \A e \in Nat : e <= 0 => e = 0  OBVIOUS
  <2>3. 0 <= run[r].depth  BY <2>1
  <2> QED  BY <1>3, <2>2, <2>3
<1>6. ASSUME NEW d \in Nat, d \in S  PROVE d + 1 \in S
  <2> SUFFICES ASSUME d + 1 <= MaxDepth  PROVE Grown(d + 1)  OBVIOUS
  <2>0. d < MaxDepth /\ d <= MaxDepth  BY <1>0
  <2>1. Grown(d) /\ f[d + 1] = Down(f[d])  BY <1>4, <1>6, <2>0
  <2>2. f[d + 1] \subseteq LiveRuns  BY <2>1 DEF Down
  <2>3. f[d] \subseteq f[d + 1]  BY <2>1 DEF Down
  <2>4. ASSUME NEW e \in Nat, e <= d + 1  PROVE f[e] \subseteq f[d + 1]
    <3>1. e = d + 1 \/ e <= d  BY <2>4
    <3> QED  BY <2>1, <2>3, <3>1
  <2>5. ASSUME NEW q \in f[d + 1]
        PROVE  \E e \in Nat : e <= d + 1 /\ e <= run[q].depth /\ q \in f[e]
    <3>1. CASE q \in f[d]
      <4>1. PICK e \in Nat : e <= d /\ e <= run[q].depth /\ q \in f[e]  BY <2>1, <3>1
      <4>2. e <= d + 1  BY <4>1
      <4> QED  BY <4>1, <4>2
    <3>2. CASE q \notin f[d]
      <4> DEFINE p == run[q].parent
      <4>1. q \in LiveRuns /\ p \in f[d]  BY <2>1, <2>5, <3>2 DEF Down
      <4>2. p \in LiveRuns  BY <2>1, <4>1
      <4>3. p # NoRun  BY <1>2, <4>2 DEF Runs, NoRun
      <4>4. run[q].depth = run[p].depth + 1  BY <4>1, <4>3 DEF Deep
      <4>5. PICK e \in Nat : e <= d /\ e <= run[p].depth /\ p \in f[e]  BY <2>1, <4>1
      <4>6. run[p].depth \in Nat  BY <1>0, <1>2, <4>2
      <4>7. e + 1 \in Nat /\ e + 1 <= d + 1 /\ e + 1 <= run[q].depth /\ e < MaxDepth
            BY <1>0, <2>0, <4>4, <4>5, <4>6
      <4>8. f[e + 1] = Down(f[e])  BY <1>4, <4>7
      <4>9. q \in f[e + 1]  BY <4>1, <4>5, <4>8 DEF Down
      <4> QED  BY <4>7, <4>9
    <3> QED  BY <3>1, <3>2
  <2> QED  BY <2>2, <2>4, <2>5
<1> HIDE DEF S
<1>7. MaxDepth \in S  BY <1>0, <1>5, <1>6, NatInductionSet
<1>8. Grown(MaxDepth)  BY <1>0, <1>7 DEF S
<1>9. r \in f[MaxDepth]  BY <1>0, <1>3, <1>8
<1>10. ASSUME NEW c \in LiveRuns, run[c].parent \in f[MaxDepth]  PROVE c \in f[MaxDepth]
  <2> DEFINE p == run[c].parent
  <2>1. PICK e \in Nat : e <= MaxDepth /\ e <= run[p].depth /\ p \in f[e]  BY <1>8, <1>10
  <2>2. p \in LiveRuns  BY <1>8, <1>10
  <2>3. p # NoRun  BY <1>2, <2>2 DEF Runs, NoRun
  <2>4. run[c].depth = run[p].depth + 1  BY <2>3 DEF Deep
  <2>5. run[c].depth \in 0..MaxDepth /\ run[p].depth \in 0..MaxDepth  BY <1>2, <2>2
  <2>6. e < MaxDepth /\ e + 1 \in Nat /\ e + 1 <= MaxDepth  BY <1>0, <2>1, <2>4, <2>5
  <2>7. c \in f[e + 1]  BY <1>4, <2>1, <2>6 DEF Down
  <2> QED  BY <1>8, <2>6, <2>7
<1> QED  BY <1>1, <1>8, <1>9, <1>10

-----------------------------------------------------------------------------
(* The steps that start a run keep the invariant.                            *)

LEMMA NewRecordTyped ==
    ASSUME BoundsAssumption, NEW s \in Runs
    PROVE  /\ \A p \in Runs \cup {NoRun}, status \in {"streaming", "queued"} :
                 [NewRun EXCEPT !.session = s, !.previous = p, !.at = "queued", !.status = status]
                   \in RunRecord
           /\ \A parent \in Runs, depth \in 0..MaxDepth :
                 [NewRun EXCEPT !.session = s, !.parent = parent, !.depth = depth,
                                !.status = "streaming", !.at = "queued"] \in RunRecord
<1>1. 0 \in 0..MaxInbox /\ 0 \in 0..MaxRequests /\ 0 \in 0..MaxCalls /\ 0 \in 0..MaxDepth
      BY DEF BoundsAssumption
<1>2. "queued" \in Places  BY PlacesListed
<1>3. ASSUME NEW p \in Runs \cup {NoRun}, NEW status \in {"streaming", "queued"}
      PROVE  [NewRun EXCEPT !.session = s, !.previous = p, !.at = "queued", !.status = status]
               \in RunRecord
      BY <1>1, <1>2 DEF NewRun, RunRecord
<1>4. ASSUME NEW parent \in Runs, NEW depth \in 0..MaxDepth
      PROVE  [NewRun EXCEPT !.session = s, !.parent = parent, !.depth = depth,
                            !.status = "streaming", !.at = "queued"] \in RunRecord
      BY <1>1, <1>2 DEF NewRun, RunRecord
<1> QED  BY <1>3, <1>4

LEMMA StartRunKeeps ==
    ASSUME BoundsAssumption, AgentInv, NEW s \in Sessions \cup {NoRun}, StartRun(s)
    PROVE  AgentInv' /\ \E c \in Runs : /\ c \notin Started /\ run'[c].at = "queued"
                                        /\ \A q \in Runs \ {c} : run'[q] = run[q]
<1> USE DEF AgentInv
<1>0. run \in [Runs -> RunRecord]  BY DEF RunTypeOK
<1>1. PICK c \in Runs \ Started :
        /\ \A q \in 1..(c - 1) : q \in Started
        /\ LET session == IF s = NoRun THEN c ELSE s
               previous == Newest(session)
           IN /\ run' = [run EXCEPT ![c] =
                   [NewRun EXCEPT !.session = session, !.previous = previous, !.at = "queued",
                                  !.status = IF previous = NoRun THEN "streaming" ELSE "queued"]]
              /\ activeSessions' = activeSessions \cup
                                     (IF previous = NoRun THEN {session} ELSE {})
      BY DEF StartRun
<1> DEFINE session == IF s = NoRun THEN c ELSE s
           previous == Newest(session)
           status == IF previous = NoRun THEN "streaming" ELSE "queued"
           new == [NewRun EXCEPT !.session = session, !.previous = previous, !.at = "queued",
                                 !.status = status]
<1>2. run' = [run EXCEPT ![c] = new]  BY <1>1
<1>3. Started \subseteq Runs /\ LiveRuns \subseteq Started  BY DEF Started, LiveRuns, Live
<1>4. session \in Started \cup {c}  BY DEF Sessions, Known
<1>5. previous \in LiveRuns \cup {NoRun}  BY NewestLast
<1>6. /\ new.session = session /\ new.previous = previous /\ new.at = "queued"
      /\ new.parent = NoRun /\ new.aborted = FALSE
      BY DEF NewRun
<1>7. new \in RunRecord
  <2>1. session \in Runs /\ previous \in Runs \cup {NoRun}  BY <1>3, <1>4, <1>5
  <2>2. status \in {"streaming", "queued"}  OBVIOUS
  <2> HIDE DEF session, previous, status
  <2> QED  BY <2>1, <2>2, NewRecordTyped
<1>8. activeSessions' \subseteq Runs  BY <1>1, <1>3, <1>4 DEF RunTypeOK
<1>9. \A q \in LiveRuns : run[q].session = session =>
         previous \in LiveRuns /\ run[previous].session = session /\ q <= previous
      BY NewestLast
<1> HIDE DEF new, previous, session
<1>10. RunTypeOK'  BY <1>0, <1>2, <1>7, <1>8 DEF RunTypeOK, StartRun
<1>11. \A q \in Runs \ {c} : run'[q] = run[q]  BY <1>2
<1>12. run'[c] = new  BY <1>0, <1>2
<1>13. Starts(c, session, previous)
       BY <1>1, <1>6, <1>11, <1>12 DEF Starts, Fresh, Lawful
<1>14. previous \in LiveRuns => previous \in LiveRuns'
       BY <1>3, <1>11 DEF LiveRuns, Live
<1>15. InOrder' /\ Chained'  BY <1>9, <1>13, <1>14, StartsChains
<1>16. Started' = Started \cup {c} /\ LiveRuns' \subseteq LiveRuns \cup {c} /\ c \notin Started
       BY <1>13, StartsLives
<1>17. \A q \in Started : q # c /\ q \in Runs /\ run'[q] = run[q]  BY <1>3, <1>11, <1>16
<1>18. Known'  BY <1>4, <1>6, <1>12, <1>16, <1>17 DEF Known
<1>19. Deep'
  <2> SUFFICES ASSUME NEW q \in LiveRuns', run'[q].parent # NoRun
               PROVE  run'[q].depth = run'[run'[q].parent].depth + 1
      BY DEF Deep
  <2>1. q \in LiveRuns  BY <1>6, <1>12, <1>16
  <2>2. run[q].parent \in Started /\ run'[q] = run[q]  BY <1>3, <1>17, <2>1 DEF Known
  <2> QED  BY <1>17, <2>1, <2>2 DEF Deep
<1>20. CancelReaches'
  <2> SUFFICES ASSUME NEW q \in LiveRuns', run'[q].parent \in LiveRuns',
                      run'[run'[q].parent].aborted
               PROVE  run'[q].aborted
      BY DEF CancelReaches
  <2>0. NoRun \notin LiveRuns'  BY DEF LiveRuns, Runs, NoRun
  <2>1. q # c  BY <1>6, <1>12, <2>0
  <2>2. q \in LiveRuns /\ run'[q] = run[q]  BY <1>3, <1>16, <1>17, <2>1
  <2>3. run[q].parent # NoRun  BY <2>0, <2>2
  <2>4. run[q].parent \in Started  BY <1>3, <2>2, <2>3 DEF Known
  <2>5. run[q].parent \in LiveRuns /\ run'[run[q].parent] = run[run[q].parent]
        BY <1>16, <1>17, <2>2, <2>4
  <2> QED  BY <2>2, <2>5 DEF CancelReaches
<1> QED  BY <1>6, <1>10, <1>11, <1>12, <1>15, <1>16, <1>18, <1>19, <1>20

LEMMA StartsChildKeeps ==
    ASSUME BoundsAssumption, AgentInv, NEW r \in Runs, StartsChild(r)
    PROVE  AgentInv' /\ \E c \in Runs : /\ c \notin Started /\ run'[c].at = "queued"
                                        /\ \A q \in Runs \ {c} : Lawful(run[q], run'[q])
<1> USE DEF AgentInv
<1>0. run \in [Runs -> RunRecord]  BY DEF RunTypeOK
<1>1. PICK place \in {"child", "returned"} :
        StartChild(r, place) /\ run[r].at \in {"call", "cleared"} /\ ~ run[r].aborted
      BY DEF StartsChild
<1>2. PICK c \in Runs \ Started :
        /\ \A q \in 1..(c - 1) : q \in Started
        /\ run' = [run EXCEPT
             ![c] = [NewRun EXCEPT !.session = c, !.parent = r, !.depth = run[r].depth + 1,
                                   !.status = "streaming", !.at = "queued"],
             ![r].at = place,
             ![r].child = IF place = "child" THEN c ELSE @]
        /\ activeSessions' = activeSessions \cup {c}
      BY <1>1 DEF StartChild
<1> DEFINE new == [NewRun EXCEPT !.session = c, !.parent = r, !.depth = run[r].depth + 1,
                                 !.status = "streaming", !.at = "queued"]
           kid == IF place = "child" THEN c ELSE run[r].child
           waits == [run[r] EXCEPT !.at = place, !.child = kid]
<1>3. Started \subseteq Runs /\ LiveRuns \subseteq Started  BY DEF Started, LiveRuns, Live
<1>4. r \in LiveRuns /\ r \in Started /\ r # c  BY <1>1, <1>3 DEF Started, LiveRuns, Live
<1>5. run' = [run EXCEPT ![c] = new, ![r] = waits]  BY <1>0, <1>2, <1>4
<1>6. run[r].depth + 1 \in 0..MaxDepth
      BY <1>0, <1>1 DEF RunRecord, BoundsAssumption, StartChild
<1>7. new \in RunRecord  BY <1>6, NewRecordTyped
<1>8. /\ new.session = c /\ new.previous = NoRun /\ new.at = "queued" /\ new.parent = r
      /\ new.depth = run[r].depth + 1 /\ new.aborted = FALSE
      BY DEF NewRun
<1>9. waits \in RunRecord
  <2>1. run[r] \in RunRecord /\ place \in Places  BY <1>0, PlacesListed
  <2>2. kid \in Runs \cup {NoRun}  BY <2>1 DEF RunRecord
  <2> HIDE DEF kid
  <2> QED  BY <2>1, <2>2, FieldsTyped
<1>10. /\ waits.session = run[r].session /\ waits.parent = run[r].parent
       /\ waits.previous = run[r].previous /\ waits.depth = run[r].depth
       /\ waits.aborted = run[r].aborted /\ waits.at = place
  <2>1. run[r] \in RunRecord  BY <1>0
  <2> QED  BY <2>1 DEF RunRecord
<1> HIDE DEF new, waits, kid
<1>11. /\ run'[c] = new /\ run'[r] = waits
       /\ \A q \in Runs \ {c, r} : run'[q] = run[q]
       BY <1>0, <1>4, <1>5
<1>12. Lawful(run[r], waits)  BY <1>1, <1>10 DEF Lawful, Dispatched
<1>13. \A q \in Runs \ {c} : Lawful(run[q], run'[q]) /\ run'[q].aborted = run[q].aborted
  <2>1. \A q \in Runs : Lawful(run[q], run[q])  BY DEF Lawful
  <2> QED  BY <1>10, <1>11, <1>12, <2>1
<1>14. RunTypeOK'
  <2>1. run' \in [Runs -> RunRecord]  BY <1>0, <1>5, <1>7, <1>9
  <2> QED  BY <1>1, <1>2, <2>1 DEF RunTypeOK, StartChild
<1>15. Starts(c, c, NoRun)  BY <1>2, <1>8, <1>11, <1>13 DEF Starts, Fresh
<1>16. Started' = Started \cup {c} /\ LiveRuns' \subseteq LiveRuns \cup {c} /\ c \notin Started
       BY <1>15, StartsLives
<1>17. InOrder' /\ Chained'
  <2>1. NoRun \notin LiveRuns  BY DEF LiveRuns, Runs, NoRun
  <2>2. \A q \in LiveRuns : run[q].session # c  BY <1>3, <1>16 DEF Known
  <2> QED  BY <1>15, <2>1, <2>2, StartsChains
<1>18. \A q \in Started : /\ q # c /\ q \in Runs
                          /\ run'[q].session = run[q].session /\ run'[q].parent = run[q].parent
                          /\ run'[q].depth = run[q].depth /\ run'[q].aborted = run[q].aborted
       BY <1>3, <1>13, <1>15, <1>16, StartsLives
<1>19. Known'  BY <1>4, <1>8, <1>11, <1>16, <1>18 DEF Known
<1>20. Deep'
  <2> SUFFICES ASSUME NEW q \in LiveRuns', run'[q].parent # NoRun
               PROVE  run'[q].depth = run'[run'[q].parent].depth + 1
      BY DEF Deep
  <2>1. CASE q = c  BY <1>4, <1>8, <1>11, <1>18, <2>1
  <2>2. CASE q # c
    <3>1. q \in LiveRuns /\ q \in Started  BY <1>3, <1>16, <2>2
    <3>2. run[q].parent # NoRun  BY <1>18, <3>1
    <3>3. run[q].parent \in Started  BY <3>1, <3>2 DEF Known
    <3>4. run[q].depth = run[run[q].parent].depth + 1  BY <3>1, <3>2 DEF Deep
    <3> QED  BY <1>18, <3>1, <3>3, <3>4
  <2> QED  BY <2>1, <2>2
<1>21. CancelReaches'
  <2> SUFFICES ASSUME NEW q \in LiveRuns', run'[q].parent \in LiveRuns',
                      run'[run'[q].parent].aborted
               PROVE  run'[q].aborted
      BY DEF CancelReaches
  <2>0. NoRun \notin LiveRuns'  BY DEF LiveRuns, Runs, NoRun
  <2>1. q # c
    <3>1. SUFFICES ASSUME q = c  PROVE FALSE  OBVIOUS
    <3>2. run'[q].parent = r  BY <1>8, <1>11, <3>1
    <3>3. run'[r].aborted = run[r].aborted  BY <1>4, <1>18
    <3> QED  BY <1>1, <3>2, <3>3
  <2>2. q \in LiveRuns /\ q \in Started  BY <1>3, <1>16, <2>1
  <2>3. run'[q].parent = run[q].parent /\ run[q].parent # NoRun  BY <1>18, <2>0, <2>2
  <2>4. run[q].parent \in Started  BY <2>2, <2>3 DEF Known
  <2>5. run[q].parent \in LiveRuns  BY <1>16, <1>18, <2>3, <2>4
  <2>6. run[run[q].parent].aborted  BY <1>18, <2>3, <2>4
  <2>7. run[q].aborted  BY <2>2, <2>5, <2>6 DEF CancelReaches
  <2> QED  BY <1>18, <2>2, <2>7
<1> QED  BY <1>8, <1>11, <1>13, <1>14, <1>16, <1>17, <1>19, <1>20, <1>21

LEMMA ExitKeeps ==
    ASSUME BoundsAssumption, AgentInv, Exit
    PROVE  AgentInv' /\ \A q \in Runs : run'[q].at \in {run[q].at, "gone"}
<1> USE DEF AgentInv
<1>0. run \in [Runs -> RunRecord]  BY DEF RunTypeOK
<1>1. ASSUME NEW q \in Runs
      PROVE  /\ run'[q] \in RunRecord
             /\ q \in Started => /\ run'[q].at = "gone" /\ run'[q].parent = NoRun
                                 /\ run'[q].session = run[q].session
             /\ q \notin Started => run'[q].at = "absent" /\ run[q].at = "absent"
  <2>0. run[q] \in RunRecord  BY <1>0
  <2>1. CASE q \in Started
    <3>1. run'[q] = [NewRun EXCEPT !.status = run[q].status, !.session = run[q].session,
                                   !.at = "gone"]
          BY <2>1 DEF Exit
    <3>2. run[q].status \in Statuses /\ run[q].session \in Runs \cup {NoRun}
          BY <2>0 DEF RunRecord, Statuses
    <3>3. 0 \in 0..MaxInbox /\ 0 \in 0..MaxRequests /\ 0 \in 0..MaxCalls /\ 0 \in 0..MaxDepth
          BY DEF BoundsAssumption
    <3>4. "gone" \in Places  BY PlacesListed
    <3>5. run'[q] \in RunRecord  BY <3>1, <3>2, <3>3, <3>4 DEF NewRun, RunRecord, Statuses
    <3> QED  BY <2>1, <3>1, <3>5 DEF NewRun
  <2>2. CASE q \notin Started  BY <2>0, <2>2 DEF Exit, Started
  <2> QED  BY <2>1, <2>2
<1>2. run' = [q \in Runs |-> run'[q]]  BY DEF Exit
<1>3. run' \in [Runs -> RunRecord]  BY <1>1, <1>2
<1>4. RunTypeOK'  BY <1>3 DEF RunTypeOK, Exit
<1>5. LiveRuns' = {}  BY <1>1 DEF LiveRuns, Live
<1>6. Started' = Started  BY <1>1 DEF Started
<1>7. InOrder'  BY <1>6 DEF InOrder
<1>8. Started \subseteq Runs  BY DEF Started
<1>9. Known'  BY <1>1, <1>6, <1>8 DEF Known
<1>10. Chained' /\ Deep' /\ CancelReaches'  BY <1>5 DEF Chained, Deep, CancelReaches
<1> QED  BY <1>1, <1>4, <1>7, <1>9, <1>10 DEF Started

-----------------------------------------------------------------------------
(* Every step keeps the invariant.                                           *)

LEMMA SteadyKeeps ==
    ASSUME AgentInv, Steady, RunTypeOK', CancelReaches'  PROVE AgentInv'
BY SteadyChains DEF AgentInv

LEMMA QuietReaches ==
    ASSUME AgentInv, Steady, Quiet  PROVE CancelReaches'
<1>1. LiveRuns' \subseteq LiveRuns /\ LiveRuns \subseteq Runs
      BY SteadyLives DEF LiveRuns
<1>2. ASSUME NEW c \in LiveRuns', run'[c].parent \in LiveRuns', run'[run'[c].parent].aborted
      PROVE  run'[c].aborted
  <2>1. c \in LiveRuns /\ run'[c].parent = run[c].parent /\ run[c].parent \in LiveRuns
        BY <1>1, <1>2, SteadyLives
  <2>2. run[run[c].parent].aborted  BY <1>1, <1>2, <2>1 DEF Quiet
  <2>3. run[c].aborted  BY <2>1, <2>2 DEF AgentInv, CancelReaches
  <2> QED  BY <1>1, <2>1, <2>3 DEF Quiet
<1> QED  BY <1>2 DEF CancelReaches

LEMMA CancelKeeps ==
    ASSUME BoundsAssumption, AgentInv, NEW r \in Runs, Cancel(r)
    PROVE  AgentInv' /\ Steady
<1>1. /\ Steady /\ RunTypeOK'
      /\ \A q \in Runs : run'[q].aborted <=> run[q].aborted \/ q \in Family(r)
      BY CancelSteady DEF AgentInv
<1>2. r \in LiveRuns  BY DEF Cancel, LiveRuns
<1>3. \A c \in LiveRuns : run[c].parent \in Family(r) => c \in Family(r)
      BY <1>2, FamilyClosed DEF AgentInv
<1>4. LiveRuns' \subseteq LiveRuns /\ LiveRuns \subseteq Runs
      BY <1>1, SteadyLives DEF LiveRuns
<1>5. ASSUME NEW c \in LiveRuns', run'[c].parent \in LiveRuns', run'[run'[c].parent].aborted
      PROVE  run'[c].aborted
  <2>1. c \in LiveRuns /\ run'[c].parent = run[c].parent /\ run[c].parent \in LiveRuns
        BY <1>1, <1>4, <1>5, SteadyLives
  <2>2. run[run[c].parent].aborted \/ run[c].parent \in Family(r)  BY <1>1, <1>4, <1>5, <2>1
  <2>3. run[c].aborted \/ c \in Family(r)  BY <1>3, <2>1, <2>2 DEF AgentInv, CancelReaches
  <2> QED  BY <1>1, <1>4, <2>1, <2>3
<1>6. CancelReaches'  BY <1>5 DEF CancelReaches
<1> QED  BY <1>1, <1>6, SteadyKeeps

LEMMA CloseKeeps ==
    ASSUME AgentInv, Close  PROVE AgentInv' /\ Steady
<1>1. Steady /\ RunTypeOK' /\ \A q \in LiveRuns : run'[q].aborted
      BY CloseSteady DEF AgentInv
<1>2. LiveRuns' \subseteq LiveRuns  BY <1>1, SteadyLives DEF LiveRuns
<1>3. CancelReaches'  BY <1>1, <1>2 DEF CancelReaches
<1> QED  BY <1>1, <1>3, SteadyKeeps

\* What a step does to the place of a run: it starts, its process ends, or
\* it moves lawfully.
Placed(q) == \/ q \notin Started /\ run'[q].at = "queued"
             \/ run'[q].at \in {run[q].at, "gone"}
             \/ Lawful(run[q], run'[q])

LEMMA NextKeeps ==
    ASSUME BoundsAssumption, AgentInv, [Next]_vars
    PROVE  AgentInv' /\ \A q \in Runs : Placed(q)
<1>0. Steady => \A q \in Runs : Placed(q)  BY DEF Steady, Placed
<1>1. ASSUME NEW s \in Sessions \cup {NoRun}, StartRun(s)
      PROVE  AgentInv' /\ \A q \in Runs : Placed(q)
  <2>1. AgentInv' /\ \E c \in Runs : /\ c \notin Started /\ run'[c].at = "queued"
                                     /\ \A q \in Runs \ {c} : run'[q] = run[q]
        BY <1>1, StartRunKeeps
  <2> QED  BY <2>1 DEF Placed
<1>2. ASSUME NEW r \in Runs, UserSteps(r)
      PROVE  AgentInv' /\ \A q \in Runs : Placed(q)
  <2>1. CASE Cancel(r)  BY <1>0, <2>1, CancelKeeps
  <2>2. CASE Pause(r) \/ Resume(r) \/ Steer(r) \/ AnswerQuestion(r)
    <3>1. Steady /\ Quiet /\ RunTypeOK'  BY <2>2, UserSteady DEF AgentInv
    <3> QED  BY <1>0, <3>1, QuietReaches, SteadyKeeps
  <2> QED  BY <1>2, <2>1, <2>2 DEF UserSteps
<1>3. ASSUME NEW r \in Runs, LoopSteps(r)
      PROVE  AgentInv' /\ \A q \in Runs : Placed(q)
  <2>1. (Steady /\ Quiet /\ RunTypeOK') \/ StartsChild(r)  BY <1>3, LoopSteady DEF AgentInv
  <2>2. CASE Steady /\ Quiet /\ RunTypeOK'  BY <1>0, <2>2, QuietReaches, SteadyKeeps
  <2>3. CASE StartsChild(r)
    <3>1. AgentInv' /\ \E c \in Runs : /\ c \notin Started /\ run'[c].at = "queued"
                                       /\ \A q \in Runs \ {c} : Lawful(run[q], run'[q])
          BY <2>3, StartsChildKeeps
    <3> QED  BY <3>1 DEF Placed
  <2> QED  BY <2>1, <2>2, <2>3
<1>4. CASE Close  BY <1>0, <1>4, CloseKeeps
<1>5. CASE Exit  BY <1>5, ExitKeeps DEF Placed
<1>6. CASE Drain \/ Closed \/ Boot \/ UNCHANGED vars
  <2>1. Steady /\ Quiet /\ RunTypeOK'  BY <1>6, ProcessSteady DEF AgentInv
  <2> QED  BY <1>0, <2>1, QuietReaches, SteadyKeeps
<1> QED  BY <1>1, <1>2, <1>3, <1>4, <1>5, <1>6 DEF Next

LEMMA InitAgent ==
    ASSUME BoundsAssumption, Init  PROVE AgentInv
<1>1. NewRun \in RunRecord
  <2>1. 0 \in 0..MaxInbox /\ 0 \in 0..MaxRequests /\ 0 \in 0..MaxCalls /\ 0 \in 0..MaxDepth
        BY DEF BoundsAssumption
  <2>2. "absent" \in Places  BY PlacesListed
  <2> QED  BY <2>1, <2>2 DEF NewRun, RunRecord
<1>2. RunTypeOK  BY <1>1 DEF Init, RunTypeOK
<1>3. Started = {} /\ LiveRuns = {}  BY DEF Init, Started, LiveRuns, Live, NewRun
<1> QED  BY <1>2, <1>3 DEF AgentInv, InOrder, Known, Chained, Deep, CancelReaches

-----------------------------------------------------------------------------
(* The status of a run and the runs it waits for.                            *)

\* What the status of a run has to do with its place.
Fits(rec) ==
    /\ rec.at = "absent" => rec.status = "none"
    /\ rec.at = "queued" => \/ rec.status \in {"queued", "streaming"}
                            \/ rec.status = "interrupted" /\ rec.aborted
    /\ rec.at = "ending" => rec.status \in Final
    /\ rec.at = "gone" => rec.status # "none"
    /\ rec.at \notin {"absent", "queued", "ending", "gone"} => rec.status = "streaming"
    /\ rec.status = "complete" => rec.inbox = 0

RowsFit == /\ \A r \in Runs : Fits(run[r])
           /\ phase # "down" => \A r \in Runs : run[r].at = "gone" => run[r].status \in Final
           /\ phase = "down" => LiveRuns = {}

\* A run waits only for an older run of its session or for a child of its own,
\* and a child waits for no run of its session.
Links == \A r \in LiveRuns :
    /\ run[r].previous # NoRun => run[r].previous < r
    /\ run[r].parent # NoRun => run[r].previous = NoRun
    /\ run[r].child # NoRun => /\ run[r].child \in Started /\ r < run[r].child
                               /\ run[r].child \in LiveRuns => run[run[r].child].parent = r

\* A run waits for the one before it in the session (startAiRun), or for the
\* child whose result it needs (startChild).
WaitsFor(r, q) == \/ run[r].at = "queued" /\ run[r].previous = q
                  \/ run[r].at = "child" /\ run[r].child = q

\* Runs never wait for each other in a circle: of any runs, one at least
\* waits for none of them.
NoWaitCycle == \A W \in SUBSET LiveRuns :
    W # {} => \E r \in W : \A q \in W : ~ WaitsFor(r, q)

RowInv == AgentInv /\ RowsFit /\ Links

\* What a step that starts no run and does not end the process does to a row.
Proper(old, new) ==
    /\ Fits(new)
    /\ old.status \in Final => new.status = old.status
    /\ old.at # "gone" /\ new.at = "gone" => new.status \in Final
    /\ new.child \in {old.child, NoRun}

AllProper == \A q \in Runs : Proper(run[q], run'[q])

LEMMA OneProper ==
    ASSUME RunTypeOK, RowsFit, NEW r \in Runs, NEW new, run' = [run EXCEPT ![r] = new],
           Proper(run[r], new)
    PROVE  AllProper
<1>1. run \in [Runs -> RunRecord]  BY DEF RunTypeOK
<1>2. run'[r] = new /\ \A q \in Runs \ {r} : run'[q] = run[q]  BY <1>1
<1>3. \A q \in Runs : Proper(run[q], run[q])  BY DEF Proper, RowsFit
<1> QED  BY <1>2, <1>3 DEF AllProper

LEMMA GoProper ==
    ASSUME RunTypeOK, RowsFit, NEW r \in Runs, NEW place, Go(r, place),
           run[r].at \notin {"absent", "queued", "gone"},
           run[r].at = "ending" => place = "gone",
           place \notin {"absent", "queued", "ending"},
           place = "gone" => run[r].at = "ending"
    PROVE  AllProper
<1>1. run[r] \in RunRecord /\ Fits(run[r])  BY DEF RunTypeOK, RowsFit
<1>2. run' = [run EXCEPT ![r] = [run[r] EXCEPT !.at = place]]  BY DEF Go
<1>3. Proper(run[r], [run[r] EXCEPT !.at = place])
      BY <1>1 DEF RunRecord, Fits, Proper, Final
<1> QED  BY <1>2, <1>3, OneProper

LEMMA GoOnProper ==
    ASSUME RunTypeOK, RowsFit, NEW r \in Runs, GoOn(r),
           run[r].at \notin {"absent", "queued", "ending", "gone"}
    PROVE  AllProper
<1>1. CASE Go(r, "prepare")  BY <1>1, GoProper
<1>2. CASE run' = [run EXCEPT ![r].at = "call", ![r].calls = @ + 1]
  <2>1. run[r] \in RunRecord /\ Fits(run[r])  BY DEF RunTypeOK, RowsFit
  <2>2. run' = [run EXCEPT ![r] = [run[r] EXCEPT !.at = "call", !.calls = run[r].calls + 1]]
        BY <1>2
  <2>3. Proper(run[r], [run[r] EXCEPT !.at = "call", !.calls = run[r].calls + 1])
        BY <2>1 DEF RunRecord, Fits, Proper, Final
  <2> QED  BY <2>2, <2>3, OneProper
<1> QED  BY <1>1, <1>2 DEF GoOn

LEMMA EndProper ==
    ASSUME RunTypeOK, RowsFit, NEW r \in Runs, NEW status \in Final, End(r, status),
           run[r].at \notin {"absent", "ending", "gone"},
           run[r].at = "queued" => status = "interrupted" /\ run[r].aborted,
           status = "complete" => run[r].inbox = 0
    PROVE  AllProper
<1>1. run[r] \in RunRecord /\ Fits(run[r])  BY DEF RunTypeOK, RowsFit
<1>2. run' = [run EXCEPT ![r] = [run[r] EXCEPT !.at = "ending", !.status = status]]  BY DEF End
<1>3. Proper(run[r], [run[r] EXCEPT !.at = "ending", !.status = status])
      BY <1>1 DEF RunRecord, Fits, Proper, Final
<1> QED  BY <1>2, <1>3, OneProper

LEMMA SendProper ==
    ASSUME RunTypeOK, RowsFit, NEW r \in Runs, Send(r), run[r].at \in {"preflight", "gated"}
    PROVE  AllProper
<1>1. CASE run[r].requests = MaxRequests  BY <1>1, EndProper DEF Send, Final
<1>2. CASE run[r].requests # MaxRequests
  <2>1. run[r] \in RunRecord /\ Fits(run[r])  BY DEF RunTypeOK, RowsFit
  <2>2. run' = [run EXCEPT ![r] = [run[r] EXCEPT !.at = "model", !.requests = run[r].requests + 1]]
        BY <1>2 DEF Send
  <2>3. Proper(run[r], [run[r] EXCEPT !.at = "model", !.requests = run[r].requests + 1])
        BY <2>1 DEF RunRecord, Fits, Proper, Final
  <2> QED  BY <2>2, <2>3, OneProper
<1> QED  BY <1>1, <1>2

LEMMA LoopProper ==
    ASSUME RunTypeOK, RowsFit, NEW r \in Runs, LoopSteps(r)
    PROVE  AllProper \/ StartsChild(r)
<1>0. run[r] \in RunRecord /\ Fits(run[r])  BY DEF RunTypeOK, RowsFit
<1>1. CASE Hold(r)
  <2>1. run' = [run EXCEPT ![r] = [run[r] EXCEPT !.gate = "paused"]]  BY <1>1 DEF Hold
  <2>2. Proper(run[r], [run[r] EXCEPT !.gate = "paused"])
        BY <1>0 DEF RunRecord, Fits, Proper
  <2> QED  BY <2>1, <2>2, OneProper
<1>2. CASE Begin(r)
  <2>1. run' = [run EXCEPT ![r] = [run[r] EXCEPT !.at = "prepare", !.status = "streaming"]]
        BY <1>2 DEF Begin
  <2>2. Proper(run[r], [run[r] EXCEPT !.at = "prepare", !.status = "streaming"])
        BY <1>0, <1>2 DEF RunRecord, Fits, Proper, Final, Begin, MayPass
  <2> QED  BY <2>1, <2>2, OneProper
<1>3. CASE Prepare(r)
  <2>1. run' = [run EXCEPT ![r] = [run[r] EXCEPT !.at = "preflight", !.inbox = 0]]
        BY <1>3 DEF Prepare
  <2>2. Proper(run[r], [run[r] EXCEPT !.at = "preflight", !.inbox = 0])
        BY <1>0, <1>3 DEF RunRecord, Fits, Proper, Final, Prepare
  <2> QED  BY <2>1, <2>2, OneProper
<1>4. CASE Request(r)
  <2>1. CASE run[r].gate = "running"  BY <1>4, <2>1, SendProper DEF Request
  <2>2. CASE run[r].gate # "running"
    <3>1. run' = [run EXCEPT ![r] = [run[r] EXCEPT !.at = "gated", !.gate = "paused"]]
          BY <1>4, <2>2 DEF Request
    <3>2. Proper(run[r], [run[r] EXCEPT !.at = "gated", !.gate = "paused"])
          BY <1>0, <1>4 DEF RunRecord, Fits, Proper, Final, Request
    <3> QED  BY <3>1, <3>2, OneProper
  <2> QED  BY <2>1, <2>2
<1>5. CASE RequestResumed(r)  BY <1>5, SendProper DEF RequestResumed
<1>6. CASE RequestRefused(r) \/ Fails(r)
      BY <1>6, EndProper DEF RequestRefused, Fails, Final
<1>7. CASE Answered(r)  BY <1>7, GoProper DEF Answered
<1>8. CASE CallTools(r)  BY <1>8, GoOnProper, EndProper DEF CallTools, Final
<1>9. CASE FinishTurn(r)
  <2>1. CASE run[r].inbox > 0
    <3>1. run' = [run EXCEPT ![r] = [run[r] EXCEPT !.at = "prepare", !.inbox = 0]]
          BY <1>9, <2>1 DEF FinishTurn
    <3>2. Proper(run[r], [run[r] EXCEPT !.at = "prepare", !.inbox = 0])
          BY <1>0, <1>9 DEF RunRecord, Fits, Proper, Final, FinishTurn
    <3> QED  BY <3>1, <3>2, OneProper
  <2>2. CASE ~ (run[r].inbox > 0)
    <3>1. run[r].inbox = 0  BY <1>0, <2>2 DEF RunRecord
    <3> QED  BY <1>9, <2>2, <3>1, EndProper DEF FinishTurn, Final
  <2> QED  BY <2>1, <2>2
<1>10. CASE Screen(r)  BY <1>10, GoProper DEF Screen
<1>11. CASE Decide(r)  BY <1>11, GoProper, GoOnProper DEF Decide
<1>12. CASE Dispatch(r)  BY <1>12, GoProper DEF Dispatch
<1>13. CASE DelegateExpert(r)  BY <1>13 DEF DelegateExpert, StartsChild
<1>14. CASE DelegateSubagent(r)  BY <1>14 DEF DelegateSubagent, StartsChild, MayPass
<1>15. CASE ToolReturns(r)  BY <1>15, GoProper DEF ToolReturns
<1>16. CASE ChildReturns(r)
  <2>1. run' = [run EXCEPT ![r] = [run[r] EXCEPT !.at = "returned", !.child = NoRun]]
        BY <1>16 DEF ChildReturns
  <2>2. Proper(run[r], [run[r] EXCEPT !.at = "returned", !.child = NoRun])
        BY <1>0, <1>16 DEF RunRecord, Fits, Proper, Final, ChildReturns
  <2> QED  BY <2>1, <2>2, OneProper
<1>17. CASE Return(r)  BY <1>17, GoOnProper DEF Return
<1>18. CASE NoticeAbort(r)
      BY <1>18, EndProper DEF NoticeAbort, Final, Checkpoints
<1>19. CASE Leave(r)  BY <1>19, GoProper DEF Leave
<1> QED
  BY <1>1, <1>2, <1>3, <1>4, <1>5, <1>6, <1>7, <1>8, <1>9, <1>10, <1>11, <1>12, <1>13, <1>14,
     <1>15, <1>16, <1>17, <1>18, <1>19 DEF LoopSteps

LEMMA UserProper ==
    ASSUME RunTypeOK, RowsFit, NEW r \in Runs, UserSteps(r)
    PROVE  AllProper
<1>0. \A q \in Runs : run[q] \in RunRecord /\ Fits(run[q])  BY DEF RunTypeOK, RowsFit
<1>1. ASSUME NEW q \in Runs, NEW gate, run'[q] = [run[q] EXCEPT !.gate = gate]
      PROVE  Proper(run[q], run'[q])
      BY <1>0, <1>1 DEF RunRecord, Fits, Proper
<1>2. \A q \in Runs : run'[q] = run[q] => Proper(run[q], run'[q])  BY <1>0 DEF Proper
<1>3. CASE Pause(r)
  <2>1. \A q \in Runs : run'[q] = run[q] \/ \E gate : run'[q] = [run[q] EXCEPT !.gate = gate]
        BY <1>3 DEF Pause
  <2> QED  BY <1>1, <1>2, <2>1 DEF AllProper
<1>4. CASE Resume(r)
  <2>1. \A q \in Runs : run'[q] = run[q] \/ run'[q] = [run[q] EXCEPT !.gate = "running"]
        BY <1>4 DEF Resume
  <2> QED  BY <1>1, <1>2, <2>1 DEF AllProper
<1>5. CASE Cancel(r)
  <2> SUFFICES ASSUME NEW q \in Runs  PROVE Proper(run[q], run'[q])  BY DEF AllProper
  <2>1. run'[q] = IF q \notin Family(r) THEN run[q]
                  ELSE [run[q] EXCEPT !.aborted = TRUE,
                          !.status = IF q = r /\ run[r].status = "queued"
                                     THEN "interrupted" ELSE run[q].status]
        BY <1>5 DEF Cancel
  <2>2. CASE q \notin Family(r)  BY <1>2, <2>1, <2>2
  <2>3. CASE q \in Family(r) /\ q = r /\ run[r].status = "queued"
    <3>1. run'[q] = [run[q] EXCEPT !.aborted = TRUE, !.status = "interrupted"]  BY <2>1, <2>3
    <3>2. Live(q) /\ run[q].status = "queued"  BY <1>5, <2>3 DEF Cancel
    <3> QED  BY <1>0, <3>1, <3>2 DEF RunRecord, Fits, Proper, Final, Live
  <2>4. CASE q \in Family(r) /\ ~ (q = r /\ run[r].status = "queued")
    <3>1. run'[q] = [run[q] EXCEPT !.aborted = TRUE, !.status = run[q].status]  BY <2>1, <2>4
    <3> QED  BY <1>0, <3>1 DEF RunRecord, Fits, Proper
  <2> QED  BY <2>2, <2>3, <2>4
<1>6. CASE Steer(r)
  <2>1. run' = [run EXCEPT ![r] = [run[r] EXCEPT !.inbox = run[r].inbox + 1]]  BY <1>6 DEF Steer
  <2>2. Proper(run[r], [run[r] EXCEPT !.inbox = run[r].inbox + 1])
        BY <1>0, <1>6 DEF RunRecord, Fits, Proper, Steer
  <2> QED  BY <2>1, <2>2, OneProper
<1>7. CASE AnswerQuestion(r)  BY <1>7, GoProper DEF AnswerQuestion
<1> QED  BY <1>3, <1>4, <1>5, <1>6, <1>7 DEF UserSteps

LEMMA ProcessProper ==
    ASSUME RunTypeOK, RowsFit, Drain \/ Close \/ Closed \/ Boot \/ UNCHANGED vars
    PROVE  AllProper
<1>0. \A q \in Runs : run[q] \in RunRecord /\ Fits(run[q])  BY DEF RunTypeOK, RowsFit
<1>1. CASE Drain \/ Closed \/ UNCHANGED vars
  <2>1. run' = run  BY <1>1 DEF Drain, Closed, vars
  <2> QED  BY <1>0, <2>1 DEF AllProper, Proper
<1>2. CASE Close
  <2> SUFFICES ASSUME NEW q \in Runs  PROVE Proper(run[q], run'[q])  BY DEF AllProper
  <2>1. run'[q] = run[q] \/ run'[q] = [run[q] EXCEPT !.aborted = TRUE]  BY <1>2 DEF Close
  <2> QED  BY <1>0, <2>1 DEF RunRecord, Fits, Proper
<1>3. CASE Boot
  <2> SUFFICES ASSUME NEW q \in Runs  PROVE Proper(run[q], run'[q])  BY DEF AllProper
  <2>1. CASE run[q].status \in {"queued", "streaming"}
    <3>1. run'[q] = [run[q] EXCEPT !.status = "interrupted"]  BY <1>3, <2>1 DEF Boot
    <3>2. run[q].at = "gone"
          BY <1>0, <1>3, <2>1 DEF Boot, RowsFit, LiveRuns, Live, Fits
    <3> QED  BY <1>0, <2>1, <3>1, <3>2 DEF RunRecord, Fits, Proper, Final
  <2>2. CASE run[q].status \notin {"queued", "streaming"}
        BY <1>0, <1>3, <2>2 DEF Boot, Proper
  <2> QED  BY <2>1, <2>2
<1> QED  BY <1>1, <1>2, <1>3

\* A proper step keeps the links of a run, since no run but a new one gets
\* a child.
LEMMA ProperKeeps ==
    ASSUME RunTypeOK, RowsFit, Links, Steady, AllProper,
           phase' = phase \/ (phase' # "down" /\ phase # "down")
    PROVE  RowsFit' /\ Links'
<1>1. LiveRuns' \subseteq LiveRuns /\ LiveRuns \subseteq Runs /\ Started' = Started
      BY SteadyLives DEF LiveRuns, Started
<1>2. \A q \in Runs : Proper(run[q], run'[q])  BY DEF AllProper
<1>3. \A q \in Runs : Fits(run'[q])  BY <1>2 DEF Proper
<1>4. phase' # "down" => \A q \in Runs : run'[q].at = "gone" => run'[q].status \in Final
      BY <1>2 DEF Proper, RowsFit
<1>5. phase' = "down" => LiveRuns' = {}  BY <1>1 DEF RowsFit
<1>6. ASSUME NEW r \in LiveRuns'
      PROVE  /\ run'[r].previous # NoRun => run'[r].previous < r
             /\ run'[r].parent # NoRun => run'[r].previous = NoRun
             /\ run'[r].child # NoRun =>
                  /\ run'[r].child \in Started' /\ r < run'[r].child
                  /\ run'[r].child \in LiveRuns' => run'[run'[r].child].parent = r
  <2>1. r \in LiveRuns /\ r \in Runs  BY <1>1
  <2>2. run'[r].previous = run[r].previous /\ run'[r].parent = run[r].parent
        BY <2>1, SteadyLives
  <2>3. run'[r].child \in {run[r].child, NoRun}  BY <1>2, <2>1 DEF Proper
  <2>4. ASSUME run'[r].child \in LiveRuns', run'[r].child # NoRun
        PROVE  run'[run'[r].child].parent = r
    <3>1. run'[r].child = run[r].child /\ run[r].child \in LiveRuns  BY <1>1, <2>3, <2>4
    <3>2. run[run[r].child].parent = r  BY <2>1, <2>3, <2>4, <3>1 DEF Links
    <3> QED  BY <1>1, <3>1, <3>2, SteadyLives
  <2> QED  BY <1>1, <2>1, <2>2, <2>3, <2>4 DEF Links
<1> QED  BY <1>3, <1>4, <1>5, <1>6 DEF RowsFit, Links

LEMMA FreshFits ==
    ASSUME RunTypeOK, RowsFit, NEW c \in Runs \ Started
    PROVE  c \notin LiveRuns /\ run[c].at = "absent"
BY DEF Started, LiveRuns, Live

LEMMA StartRunRows ==
    ASSUME BoundsAssumption, RowInv, NEW s \in Sessions \cup {NoRun}, StartRun(s)
    PROVE  /\ RowsFit' /\ Links'
           /\ \A q \in Runs : run[q].status \in Final => run'[q].status = run[q].status
<1> USE DEF RowInv, AgentInv
<1>0. run \in [Runs -> RunRecord]  BY DEF RunTypeOK
<1>1. PICK c \in Runs \ Started :
        /\ \A q \in 1..(c - 1) : q \in Started
        /\ LET session == IF s = NoRun THEN c ELSE s
               previous == Newest(session)
           IN run' = [run EXCEPT ![c] =
                [NewRun EXCEPT !.session = session, !.previous = previous, !.at = "queued",
                               !.status = IF previous = NoRun THEN "streaming" ELSE "queued"]]
      BY DEF StartRun
<1> DEFINE session == IF s = NoRun THEN c ELSE s
           previous == Newest(session)
           status == IF previous = NoRun THEN "streaming" ELSE "queued"
           new == [NewRun EXCEPT !.session = session, !.previous = previous, !.at = "queued",
                                 !.status = status]
<1>2. run' = [run EXCEPT ![c] = new]  BY <1>1
<1>3. previous \in LiveRuns \cup {NoRun}  BY NewestLast
<1>4. /\ new.previous = previous /\ new.at = "queued" /\ new.parent = NoRun
      /\ new.child = NoRun /\ new.status \in {"queued", "streaming"}
      BY DEF NewRun
<1> HIDE DEF new, previous, session, status
<1>5. /\ run'[c] = new /\ \A q \in Runs \ {c} : run'[q] = run[q]
      BY <1>0, <1>2
<1>6. Fresh(c)  BY <1>1 DEF Fresh
<1>7. \A q \in Started : q < c  BY <1>6, FreshLast
<1>8. /\ LiveRuns \subseteq Started /\ Started \subseteq Runs /\ c \notin Started
      /\ LiveRuns' = LiveRuns \cup {c} /\ Started' = Started \cup {c}
      BY <1>4, <1>5 DEF LiveRuns, Started, Live
<1>9. \A q \in Runs : Fits(run'[q])
  <2>1. Fits(new)  BY <1>4 DEF Fits, Final
  <2> QED  BY <1>5, <2>1 DEF RowsFit
<1>10. phase' = phase /\ phase # "down"  BY DEF StartRun
<1>11. \A q \in Runs : run'[q].at = "gone" => run'[q].status \in Final
       BY <1>4, <1>5, <1>10 DEF RowsFit
<1>12. ASSUME NEW r \in LiveRuns'
       PROVE  /\ run'[r].previous # NoRun => run'[r].previous < r
              /\ run'[r].parent # NoRun => run'[r].previous = NoRun
              /\ run'[r].child # NoRun =>
                   /\ run'[r].child \in Started' /\ r < run'[r].child
                   /\ run'[r].child \in LiveRuns' => run'[run'[r].child].parent = r
  <2>1. CASE r = c  BY <1>3, <1>4, <1>5, <1>7, <1>8, <2>1
  <2>2. CASE r # c
    <3>1. r \in LiveRuns /\ run'[r] = run[r]  BY <1>5, <1>8, <2>2
    <3>2. ASSUME run[r].child # NoRun
          PROVE  /\ run[r].child \in Started' /\ r < run[r].child
                 /\ run[r].child \in LiveRuns' => run'[run[r].child].parent = r
      <4>1. run[r].child \in Started /\ r < run[r].child  BY <3>1, <3>2 DEF Links
      <4>2. run'[run[r].child] = run[run[r].child] /\ run[r].child # c  BY <1>5, <1>8, <4>1
      <4> QED  BY <1>8, <3>1, <3>2, <4>1, <4>2 DEF Links
    <3> QED  BY <3>1, <3>2 DEF Links
  <2> QED  BY <2>1, <2>2
<1>13. run[c].status = "none"  BY <1>8, FreshFits DEF RowsFit, Fits
<1> QED  BY <1>5, <1>9, <1>10, <1>11, <1>12, <1>13 DEF RowsFit, Links, Final

LEMMA StartsChildRows ==
    ASSUME BoundsAssumption, RowInv, NEW r \in Runs, StartsChild(r)
    PROVE  /\ RowsFit' /\ Links'
           /\ \A q \in Runs : run[q].status \in Final => run'[q].status = run[q].status
<1> USE DEF RowInv, AgentInv
<1>0. run \in [Runs -> RunRecord]  BY DEF RunTypeOK
<1>1. PICK place \in {"child", "returned"} :
        StartChild(r, place) /\ run[r].at \in {"call", "cleared"}
      BY DEF StartsChild
<1>2. PICK c \in Runs \ Started :
        /\ \A q \in 1..(c - 1) : q \in Started
        /\ run' = [run EXCEPT
             ![c] = [NewRun EXCEPT !.session = c, !.parent = r, !.depth = run[r].depth + 1,
                                   !.status = "streaming", !.at = "queued"],
             ![r].at = place,
             ![r].child = IF place = "child" THEN c ELSE @]
      BY <1>1 DEF StartChild
<1> DEFINE new == [NewRun EXCEPT !.session = c, !.parent = r, !.depth = run[r].depth + 1,
                                 !.status = "streaming", !.at = "queued"]
           kid == IF place = "child" THEN c ELSE run[r].child
           waits == [run[r] EXCEPT !.at = place, !.child = kid]
<1>3. LiveRuns \subseteq Started /\ Started \subseteq Runs  BY DEF LiveRuns, Started, Live
<1>4. r \in LiveRuns /\ r # c  BY <1>1, <1>3 DEF LiveRuns, Live
<1>5. run' = [run EXCEPT ![c] = new, ![r] = waits]  BY <1>0, <1>2, <1>4
<1>6. /\ new.previous = NoRun /\ new.at = "queued" /\ new.parent = r
      /\ new.child = NoRun /\ new.status = "streaming"
      BY DEF NewRun
<1>7. /\ waits.previous = run[r].previous /\ waits.parent = run[r].parent
      /\ waits.at = place /\ waits.status = run[r].status /\ waits.child = kid
      BY <1>0 DEF RunRecord
<1>8. kid \in {c, run[r].child}  OBVIOUS
<1> HIDE DEF new, waits, kid
<1>9. /\ run'[c] = new /\ run'[r] = waits
      /\ \A q \in Runs \ {c, r} : run'[q] = run[q]
      BY <1>0, <1>4, <1>5
<1>10. Fresh(c)  BY <1>2 DEF Fresh
<1>11. \A q \in Started : q < c  BY <1>10, FreshLast
<1>12. /\ LiveRuns' = LiveRuns \cup {c} /\ Started' = Started \cup {c} /\ c \notin Started
       BY <1>1, <1>4, <1>6, <1>7, <1>9 DEF LiveRuns, Started, Live
<1>13. run[r].status = "streaming"  BY <1>1 DEF RowsFit, Fits
<1>14. \A q \in Runs : Fits(run'[q])
  <2>1. Fits(new)  BY <1>6 DEF Fits, Final
  <2>2. Fits(waits)  BY <1>1, <1>7, <1>13 DEF Fits, Final
  <2> QED  BY <1>9, <2>1, <2>2 DEF RowsFit
<1>15. phase' = phase /\ phase # "down"  BY <1>1 DEF StartChild
<1>16. \A q \in Runs : run'[q].at = "gone" => run'[q].status \in Final
       BY <1>1, <1>6, <1>7, <1>9, <1>15 DEF RowsFit
<1>17. \A q \in Started : run'[q].parent = run[q].parent /\ run'[q].previous = run[q].previous
       BY <1>3, <1>7, <1>9, <1>12
<1>18. ASSUME NEW q \in LiveRuns'
       PROVE  /\ run'[q].previous # NoRun => run'[q].previous < q
              /\ run'[q].parent # NoRun => run'[q].previous = NoRun
              /\ run'[q].child # NoRun =>
                   /\ run'[q].child \in Started' /\ q < run'[q].child
                   /\ run'[q].child \in LiveRuns' => run'[run'[q].child].parent = q
  <2>1. CASE q = c  BY <1>6, <1>9, <2>1
  <2>2. CASE q # c
    <3>1. q \in LiveRuns /\ q \in Started  BY <1>3, <1>12, <2>2
    <3>2. run'[q].previous = run[q].previous /\ run'[q].parent = run[q].parent  BY <1>17, <3>1
    <3>3. CASE q = r /\ run'[q].child = c  BY <1>6, <1>9, <1>11, <1>12, <3>1, <3>2, <3>3 DEF Links
    <3>4. CASE run'[q].child = run[q].child
      <4>1. ASSUME run[q].child # NoRun
            PROVE  /\ run[q].child \in Started' /\ q < run[q].child
                   /\ run[q].child \in LiveRuns' => run'[run[q].child].parent = q
        <5>1. run[q].child \in Started /\ q < run[q].child  BY <3>1, <4>1 DEF Links
        <5>2. run[q].child # c  BY <1>12, <5>1
        <5> QED  BY <1>12, <1>17, <3>1, <4>1, <5>1, <5>2 DEF Links
      <4> QED  BY <3>1, <3>2, <3>4, <4>1 DEF Links
    <3>5. (q = r /\ run'[q].child = c) \/ run'[q].child = run[q].child
      <4>1. CASE q = r  BY <1>7, <1>8, <1>9, <4>1
      <4>2. CASE q # r  BY <1>3, <1>9, <2>2, <3>1, <4>2
      <4> QED  BY <4>1, <4>2
    <3> QED  BY <3>3, <3>4, <3>5
  <2> QED  BY <2>1, <2>2
<1>19. run[c].status = "none"  BY FreshFits DEF RowsFit, Fits
<1> QED  BY <1>7, <1>9, <1>14, <1>15, <1>16, <1>18, <1>19 DEF RowsFit, Links, Final

LEMMA ExitRows ==
    ASSUME RowInv, Exit
    PROVE  /\ RowsFit' /\ Links'
           /\ \A q \in Runs : run[q].status \in Final => run'[q].status = run[q].status
<1>1. \A q \in Runs : Fits(run[q])  BY DEF RowInv, RowsFit
<1>2. ASSUME NEW q \in Runs
      PROVE  /\ Fits(run'[q]) /\ run'[q].status = run[q].status
             /\ run'[q].at \in {"absent", "gone"}
  <2>1. CASE q \in Started
    <3>1. run'[q] = [NewRun EXCEPT !.status = run[q].status, !.session = run[q].session,
                                   !.at = "gone"]
          BY <2>1 DEF Exit
    <3>2. /\ run'[q].status = run[q].status /\ run'[q].at = "gone" /\ run'[q].inbox = 0
          BY <3>1 DEF NewRun
    <3>3. run[q].status # "none"  BY <1>1, <2>1 DEF Fits, Started, Final
    <3> QED  BY <3>2, <3>3 DEF Fits
  <2>2. CASE q \notin Started
    <3>1. run'[q] = run[q] /\ run[q].at = "absent"  BY <2>2 DEF Exit, Started
    <3> QED  BY <1>1, <3>1
  <2> QED  BY <2>1, <2>2
<1>3. LiveRuns' = {}  BY <1>2 DEF LiveRuns, Live
<1>4. phase' = "down"  BY DEF Exit
<1> QED  BY <1>2, <1>3, <1>4 DEF RowsFit, Links

LEMMA BootRows ==
    ASSUME RowInv, Boot
    PROVE  /\ RowsFit' /\ Links'
           /\ \A q \in Runs : run[q].status \in Final => run'[q].status = run[q].status
<1>1. AllProper  BY ProcessProper DEF RowInv, AgentInv
<1>2. \A q \in Runs : run[q].at \in {"absent", "gone"}
      BY DEF RowInv, RowsFit, Boot, LiveRuns, Live
<1>3. \A q \in Runs : run[q] \in RunRecord /\ Fits(run[q])
      BY DEF RowInv, AgentInv, RowsFit, RunTypeOK
<1>4. ASSUME NEW q \in Runs
      PROVE  run'[q].at = run[q].at /\ (run'[q].at = "gone" => run'[q].status \in Final)
  <2>1. CASE run[q].status \in {"queued", "streaming"}
    <3>1. run'[q] = [run[q] EXCEPT !.status = "interrupted"]  BY <2>1 DEF Boot
    <3> QED  BY <1>3, <3>1 DEF RunRecord, Final
  <2>2. CASE run[q].status \notin {"queued", "streaming"}
    <3>1. run'[q] = run[q]  BY <2>2 DEF Boot
    <3> QED  BY <1>3, <2>2, <3>1 DEF RunRecord, Fits
  <2> QED  BY <2>1, <2>2
<1>5. LiveRuns' = {}  BY <1>2, <1>4 DEF LiveRuns, Live
<1> QED  BY <1>1, <1>4, <1>5 DEF RowsFit, Links, AllProper, Proper

LEMMA RowsKeep ==
    ASSUME BoundsAssumption, RowInv, [Next]_vars
    PROVE  /\ RowInv'
           /\ \A q \in Runs : run[q].status \in Final => run'[q].status = run[q].status
<1> DEFINE Goal == /\ RowsFit' /\ Links'
                   /\ \A q \in Runs : run[q].status \in Final => run'[q].status = run[q].status
<1>1. AgentInv'  BY NextKeeps DEF RowInv
<1> SUFFICES Goal  BY <1>1 DEF RowInv
<1> HIDE DEF Goal
<1>2. ASSUME Steady, AllProper, phase' = phase \/ (phase' # "down" /\ phase # "down")
      PROVE  Goal
      BY <1>2, ProperKeeps DEF RowInv, AgentInv, AllProper, Proper, Goal
<1>3. ASSUME NEW s \in Sessions \cup {NoRun}, StartRun(s)  PROVE Goal
      BY <1>3, StartRunRows DEF Goal
<1>4. ASSUME NEW r \in Runs, UserSteps(r)  PROVE Goal
  <2>1. AllProper  BY <1>4, UserProper DEF RowInv, AgentInv
  <2>2. Steady
    <3>1. CASE Cancel(r)  BY <3>1, CancelSteady DEF RowInv, AgentInv
    <3>2. CASE ~ Cancel(r)  BY <1>4, <3>2, UserSteady DEF RowInv, AgentInv, UserSteps
    <3> QED  BY <3>1, <3>2
  <2>3. phase' = phase
        BY <1>4 DEF UserSteps, Pause, Resume, Cancel, Steer, AnswerQuestion
  <2> QED  BY <1>2, <2>1, <2>2, <2>3
<1>5. ASSUME NEW r \in Runs, LoopSteps(r)  PROVE Goal
  <2>1. CASE StartsChild(r)  BY <2>1, StartsChildRows DEF Goal
  <2>2. CASE ~ StartsChild(r)
    <3>1. Steady  BY <1>5, <2>2, LoopSteady DEF RowInv, AgentInv
    <3>2. AllProper  BY <1>5, <2>2, LoopProper DEF RowInv, AgentInv
    <3>3. phase' = phase
          BY <1>5 DEF LoopSteps, Hold, Begin, Prepare, Request, RequestResumed, RequestRefused,
                      Answered, Fails, CallTools, FinishTurn, Screen, Decide, Dispatch,
                      DelegateExpert, DelegateSubagent, ToolReturns, ChildReturns, Return,
                      NoticeAbort, Leave, Send, End, StartChild
    <3> QED  BY <1>2, <3>1, <3>2, <3>3
  <2> QED  BY <2>1, <2>2
<1>6. CASE Drain \/ Close \/ Closed \/ UNCHANGED vars
  <2>1. AllProper  BY <1>6, ProcessProper DEF RowInv, AgentInv
  <2>2. Steady  BY <1>6, ProcessSteady, CloseSteady DEF RowInv, AgentInv
  <2>3. phase' = phase \/ (phase' # "down" /\ phase # "down")
        BY <1>6 DEF Drain, Close, Closed, vars
  <2> QED  BY <1>2, <2>1, <2>2, <2>3
<1>7. CASE Exit  BY <1>7, ExitRows DEF Goal
<1>8. CASE Boot  BY <1>8, BootRows DEF Goal
<1> QED  BY <1>3, <1>4, <1>5, <1>6, <1>7, <1>8 DEF Next

LEMMA InitRows ==
    ASSUME BoundsAssumption, Init  PROVE RowInv
<1>1. AgentInv  BY InitAgent
<1>2. \A r \in Runs : run[r] = NewRun  BY DEF Init
<1>3. LiveRuns = {}  BY <1>2 DEF LiveRuns, Live, NewRun
<1>4. \A r \in Runs : Fits(run[r]) /\ run[r].at # "gone"  BY <1>2 DEF Fits, NewRun
<1> QED  BY <1>1, <1>3, <1>4 DEF RowInv, RowsFit, Links

-----------------------------------------------------------------------------
(* Theorems.                                                                 *)

\* The invariant that the chains and families of runs rest on holds always.
THEOREM AgentKept == Spec => []AgentInv
<1>1. AgentInv /\ [Next]_vars => AgentInv'  BY BoundsAssumption, NextKeeps
<1>2. Init => AgentInv  BY BoundsAssumption, InitAgent
<1> QED  BY <1>1, <1>2, PTL DEF Spec

\* However many messages are queued in a session and however they are
\* cancelled, its turns never overlap (startAiRun).
THEOREM TurnsSerial == Spec => []SessionSerial
<1>1. AgentInv => SessionSerial
  <2> SUFFICES ASSUME AgentInv, NEW r \in LiveRuns, NEW q \in LiveRuns,
                      r # q, run[r].session = run[q].session
               PROVE  "queued" \in {run[r].at, run[q].at}
      BY DEF SessionSerial
  <2>1. r \in Nat /\ q \in Nat
    <3>1. \A x \in Runs : x \in Nat  BY DEF Runs
    <3> QED  BY <3>1 DEF LiveRuns
  <2>2. r < q \/ q < r  BY <2>1
  <2> QED  BY <2>2 DEF AgentInv, Chained
<1> QED  BY <1>1, AgentKept, PTL

\* A cancellation reaches every live descendant, for delegations of any depth
\* (cancelAiRun and startChild).
THEOREM CancelsReach == Spec => []CancelReaches
<1>1. AgentInv => CancelReaches  BY DEF AgentInv
<1> QED  BY <1>1, AgentKept, PTL

\* A cancelled run never goes to the model, a tool, a question or a child
\* again (AiRunPauseGate.checkpoint and signal.throwIfAborted).
THEOREM CancelledQuiet == Spec => CancelledStaysOut
<1> DEFINE Moved == \A r \in Runs : run[r].aborted /\ run'[r].at # run[r].at =>
                        run'[r].at \notin Dispatched \cup {"child"}
<1>1. AgentInv /\ [Next]_vars => [Moved]_vars
      BY BoundsAssumption, NextKeeps DEF Placed, Lawful, Dispatched
<1> QED  BY <1>1, AgentKept, PTL DEF Spec, CancelledStaysOut

\* A run that stays paused sends no request and dispatches no tool
\* (AiRunPauseGate.checkpoint).
THEOREM PausesHold == Spec => PausedHolds
<1> DEFINE Moved == \A r \in Runs :
       run[r].gate = "paused" /\ run'[r].gate = "paused" /\ run'[r].at # run[r].at =>
         run'[r].at \notin Dispatched
<1>1. AgentInv /\ [Next]_vars => [Moved]_vars
      BY BoundsAssumption, NextKeeps DEF Placed, Lawful, Dispatched
<1> QED  BY <1>1, AgentKept, PTL DEF Spec, PausedHolds

\* The invariant that the statuses of runs and their waits rest on holds always.
THEOREM RowsKept == Spec => []RowInv
<1>1. RowInv /\ [Next]_vars => RowInv'  BY BoundsAssumption, RowsKeep
<1>2. Init => RowInv  BY BoundsAssumption, InitRows
<1> QED  BY <1>1, <1>2, PTL DEF Spec

\* A reply recorded as complete has taken up every steering input that was
\* accepted for it (finishPiTurn and appendAiRunInput).
THEOREM CompleteHeard == Spec => []CompletedHeard
<1>1. RowInv => CompletedHeard  BY DEF RowInv, RowsFit, Fits, CompletedHeard
<1> QED  BY <1>1, RowsKept, PTL

\* Once the process is up, every row that is queued or streaming belongs to
\* a run that is there to finish it, whenever the process ended before
\* (interruptOrphanedAiRuns).
THEOREM ActivesLive == Spec => []ActiveIsLive
<1>1. RowInv => ActiveIsLive
  <2> SUFFICES ASSUME RowInv, phase # "down", NEW r \in Runs,
                      run[r].status \in {"queued", "streaming"}
               PROVE  Live(r)
      BY DEF ActiveIsLive
  <2> QED  BY DEF RowInv, RowsFit, Fits, Live, Final
<1> QED  BY <1>1, RowsKept, PTL

\* A final status is never taken back: not by a late answer, a cancellation
\* that comes too late, the end of the process or its restart (executeAiTurn,
\* cancelAiRun and interruptOrphanedAiRuns).
THEOREM StatusesFinal == Spec => StatusFinal
<1> DEFINE Settled == \A r \in Runs : run[r].status \in Final => run'[r].status = run[r].status
<1>1. RowInv /\ [Next]_vars => [Settled]_vars  BY BoundsAssumption, RowsKeep
<1> QED  BY <1>1, RowsKept, PTL DEF Spec, StatusFinal

\* However messages are queued and runs delegated, into the sessions of
\* children too, runs never wait for each other in a circle (startAiRun and
\* startChild).
THEOREM NoneWaitInCircle == Spec => []NoWaitCycle
<1>1. RowInv => NoWaitCycle
  <2> SUFFICES ASSUME RowInv, NEW W \in SUBSET LiveRuns, W # {}
               PROVE  \E r \in W : \A q \in W : ~ WaitsFor(r, q)
      BY DEF NoWaitCycle
  <2>0. /\ \A x \in Runs : x \in Nat /\ x # NoRun
        /\ LiveRuns \subseteq Runs /\ W \subseteq Runs
        BY DEF LiveRuns, Runs, NoRun
  <2> DEFINE Delegating == {r \in W : run[r].at = "child" /\ run[r].child \in W}
  <2>1. CASE Delegating # {}
    <3> DEFINE r == Max(Delegating)
               c == run[r].child
    <3>1. r \in Delegating /\ \A q \in Delegating : q <= r
          BY <2>0, <2>1, BoundsAssumption, MaxOfRuns
    <3> HIDE DEF r
    <3>2. c \in W /\ c \in LiveRuns /\ c # NoRun  BY <2>0, <3>1
    <3>3. r < c /\ run[c].parent = r  BY <3>1, <3>2 DEF RowInv, Links
    <3>4. r \in Nat /\ c \in Nat /\ r # NoRun  BY <2>0, <3>1, <3>2
    <3>5. c \notin Delegating  BY <3>1, <3>3, <3>4
    <3>6. run[c].previous = NoRun  BY <3>2, <3>3, <3>4 DEF RowInv, Links
    <3>7. \A q \in W : ~ WaitsFor(c, q)  BY <2>0, <3>2, <3>5, <3>6 DEF WaitsFor
    <3> QED  BY <3>2, <3>7
  <2>2. CASE Delegating = {}
    <3>1. PICK r \in W : \A q \in W : ~ (q < r)
      <4> DEFINE Below == OpToRel(<, Nat)
      <4>1. \A x, y \in Nat : y < x => <<y, x>> \in Below  BY DEF OpToRel
      <4>2. IsWellFoundedOn(Below, Nat)  BY NatLessThanWellFounded
      <4>3. W \subseteq Nat  BY <2>0
      <4> HIDE DEF Below
      <4>4. PICK r \in W : \A q \in W : <<q, r>> \notin Below  BY <4>2, <4>3, WFMin
      <4> QED  BY <4>1, <4>3, <4>4
    <3>2. ASSUME NEW q \in W, WaitsFor(r, q)  PROVE FALSE
      <4>1. run[r].at = "queued" /\ run[r].previous = q  BY <2>2, <3>2 DEF WaitsFor
      <4>2. q < r  BY <2>0, <4>1 DEF RowInv, Links
      <4> QED  BY <3>1, <4>2
    <3> QED  BY <3>2
  <2> QED  BY <2>1, <2>2
<1> QED  BY <1>1, RowsKept, PTL

=============================================================================
