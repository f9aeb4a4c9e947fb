------------------------------- MODULE Approvals -------------------------------
(***************************************************************************)
(* Approvals of the agents' write operations: the rows and remembered      *)
(* grants (packages/interaction/permission-presets/src/permissions.ts),    *)
(* the wait for the user's decision (interaction/user-approval/src,        *)
(* api/session-controller/src), and the two ways through which a call of a *)
(* run goes: a tool of the agent loop and an action of the Claude SDK      *)
(* (core/agent-loop/src/execute-turn.ts).                                  *)
(*                                                                         *)
(* All calls here are writes of one user with one tool and one target, so  *)
(* that one grant and one memory state concern them all; an approval is    *)
(* bound to its call, which the digest of the parameters is for.  SQLite   *)
(* is synchronous: an action is what happens between two awaits.  Rows     *)
(* live five minutes; in which order they lapse is left open.  A call that *)
(* is given up, and all of them when the process ends, leaves its row.     *)
(***************************************************************************)
EXTENDS Naturals, FiniteSets

CONSTANTS Calls,
          SdkCalls,     \* those of the Claude SDK
          FamilyOf,     \* of each call: the root run whose writeGate it shares
          MaxRevokes    \* bound: how often the grant is revoked

ASSUME CallsAssumption == /\ SdkCalls \subseteq Calls
                          /\ FamilyOf \in [Calls -> Calls]
                          /\ MaxRevokes \in Nat

VARIABLES mode,         \* permissions.mode of the user's settings
          row,          \* ai_tool_approvals: the one each call asks for
          lapsed,       \* rows whose five minutes are over
          grant,        \* ai_tool_permission_grants has the scope
          generation,   \* ai_tool_permission_memory_state
          call,         \* where each call is, and the mode it was authorised in
          woken,        \* waiting calls whose watch was notified
          denied,       \* families whose writeGate is closed
          earned        \* approvals in the remembering mode since the grant was
                        \* last revoked, a wish to remember counting for two

vars == <<mode, row, lapsed, grant, generation, call, woken, denied, earned>>

Modes    == {"ask", "approve_remembered", "full_access"}
Statuses == {"absent", "pending", "approved", "denied", "consumed", "expired"}
Places   == {"new", "entering", "waiting", "resuming", "clearing", "cleared", "done", "refused"}

ApprovalsTypeOK ==
    /\ mode \in Modes
    /\ row \in [Calls -> [status : Statuses, generation : Nat, mode : Modes \cup {"none"}]]
    /\ lapsed \subseteq Calls
    /\ grant \in BOOLEAN /\ generation \in Nat
    /\ call \in [Calls -> [at : Places, mode : Modes \cup {"none"}]]
    /\ woken \subseteq Calls /\ denied \subseteq Calls
    /\ earned \in 0 .. 2

Init ==
    /\ mode \in Modes
    /\ row = [c \in Calls |-> [status |-> "absent", generation |-> 0, mode |-> "none"]]
    /\ lapsed = {} /\ grant = FALSE /\ generation = 0
    /\ call = [c \in Calls |-> [at |-> "new", mode |-> "none"]]
    /\ woken = {} /\ denied = {} /\ earned = 0

-----------------------------------------------------------------------------
(* The owner of the permissions (permissions.ts).                            *)

\* authorizeAiTool, for a write with a valid target.
Allowed == mode = "full_access" \/ (mode = "approve_remembered" /\ grant)

\* What listAiToolApprovals makes of the rows before it shows them.
Listed == [c \in Calls |-> IF c \in lapsed /\ row[c].status \in {"pending", "approved"}
                           THEN [row[c] EXCEPT !.status = "expired"] ELSE row[c]]

List ==
    /\ row' = Listed
    /\ UNCHANGED <<mode, lapsed, grant, generation, call, woken, denied, earned>>

\* The approvals of one generation that count for its memory.
Counting(rows, g) ==
    {c \in Calls : /\ rows[c].generation = g /\ rows[c].mode = "approve_remembered"
                   /\ rows[c].status \in {"approved", "consumed", "expired"}}

AtMost2(n) == IF n < 2 THEN n ELSE 2

\* Mutant of Notify: the route forgets it, or wakes a watch of another key.
NotifyNobody(c) == woken' = woken

\* notify, which finds the watch of the call that waits, if one does.
Notify(c) == woken' = woken \cup ({c} \cap {d \in Calls : call[d].at = "waiting"})

\* decideAiToolApproval, and the route wakes the call before it awaits anything.
Decide(c, decision, remember) ==
    LET decided == [row EXCEPT ![c].status = decision, ![c].mode = mode]
        learns  == decision = "approved" /\ mode = "approve_remembered"
    IN  /\ row[c].status = "pending" /\ c \notin lapsed
        /\ remember => learns
        /\ row' = decided
        /\ grant' = \/ grant \/ remember
                    \/ learns /\ Cardinality(Counting(decided, row[c].generation)) >= 2
        /\ earned' = IF ~ learns THEN earned ELSE AtMost2(IF remember THEN 2 ELSE earned + 1)
        /\ Notify(c)
        /\ UNCHANGED <<mode, lapsed, generation, call, denied>>

\* revokeAiToolPermissionGrant.
Revoke ==
    /\ grant /\ generation < MaxRevokes
    /\ grant' = FALSE /\ generation' = generation + 1 /\ earned' = 0
    /\ UNCHANGED <<mode, row, lapsed, call, woken, denied>>

SetMode(m) ==
    mode' = m /\ UNCHANGED <<row, lapsed, grant, generation, call, woken, denied, earned>>

Lapse(c) ==
    /\ row[c].status # "absent" /\ c \notin lapsed
    /\ lapsed' = lapsed \cup {c}
    /\ UNCHANGED <<mode, row, grant, generation, call, woken, denied, earned>>

-----------------------------------------------------------------------------
(* A call on its way to its dispatch (execute-turn.ts).                      *)

Gated(c) == FamilyOf[c] \in denied

Goes(c, place) == call' = [call EXCEPT ![c].at = place]

Authorised(c, place) == call' = [call EXCEPT ![c] = [at |-> place, mode |-> mode]]

\* requestAiToolApproval, and the wait begins: its watch is there, and the row
\* was read after it, before anybody else can decide.
Asks(c) ==
    /\ row' = [row EXCEPT ![c] = [status |-> "pending", generation |-> generation,
                                  mode |-> "none"]]
    /\ Authorised(c, "waiting")

Settled == UNCHANGED <<mode, lapsed, grant, generation, woken, earned>>

\* A tool of the agent loop, up to its first await.
Begin(c) ==
    /\ c \notin SdkCalls /\ call[c].at = "new"
    /\ \/ Gated(c) /\ Goes(c, "refused") /\ UNCHANGED row
       \/ ~ Gated(c) /\ Allowed /\ Authorised(c, "clearing") /\ UNCHANGED row
       \/ ~ Gated(c) /\ ~ Allowed /\ Asks(c)
    /\ Settled /\ UNCHANGED denied

\* An action of the SDK looks at the gate before it awaits the checkpoint.
SdkEnter(c) ==
    /\ c \in SdkCalls /\ call[c].at = "new"
    /\ Goes(c, IF Gated(c) THEN "refused" ELSE "entering")
    /\ Settled /\ UNCHANGED <<row, denied>>

SdkBegin(c) ==
    /\ call[c].at = "entering"
    /\ \/ Allowed /\ Authorised(c, "done") /\ UNCHANGED row
       \/ ~ Allowed /\ Asks(c)
    /\ Settled /\ UNCHANGED denied

\* consumeAiToolApproval of one's own row: it fails if the row has lapsed.
Consume(c, place) ==
    IF c \in lapsed
    THEN row' = [row EXCEPT ![c].status = "expired"] /\ Goes(c, "refused")
    ELSE row' = [row EXCEPT ![c].status = "consumed"] /\ Goes(c, place)

\* The watch was notified or has timed out, and the row then read is not one
\* to wait for on.
Notified(c) == (c \in woken \/ c \in lapsed) /\ Listed[c].status # "pending"

\* waitForApprovalDecision returns, and what follows.
Answered(c) ==
    /\ call[c].at = "waiting" /\ Notified(c)
    /\ IF Listed[c].status = "approved"
       THEN /\ IF c \in SdkCalls THEN Goes(c, "resuming") /\ row' = Listed
                                 ELSE Consume(c, "clearing")
            /\ UNCHANGED denied
       ELSE /\ row' = Listed /\ Goes(c, "refused")
            /\ denied' = denied \cup {FamilyOf[c]}
    /\ Settled

\* The SDK's action after the checkpoint.
SdkResume(c) ==
    /\ call[c].at = "resuming"
    /\ IF mode # call[c].mode THEN Goes(c, "refused") /\ UNCHANGED row
                              ELSE Consume(c, "done")
    /\ Settled /\ UNCHANGED denied

\* Mutant of Recheck: what was granted once need not be granted still.
RecheckMode(c) ==
    /\ call[c].at = "clearing"
    /\ Goes(c, IF mode = call[c].mode THEN "cleared" ELSE "refused")
    /\ Settled /\ UNCHANGED <<row, denied>>

\* The tool list was read again: the mode must be the same, and a call that
\* consumed no approval must be allowed still.
Recheck(c) ==
    /\ call[c].at = "clearing"
    /\ Goes(c, IF mode = call[c].mode /\ (row[c].status = "consumed" \/ Allowed)
               THEN "cleared" ELSE "refused")
    /\ Settled /\ UNCHANGED <<row, denied>>

\* After the last checkpoint nothing is asked but whether the run is aborted.
Dispatch(c) ==
    /\ call[c].at = "cleared" /\ Goes(c, "done")
    /\ Settled /\ UNCHANGED <<row, denied>>

\* The run is aborted, or the tool is not what it was: nothing is dispatched.
GiveUp(c) ==
    /\ call[c].at \notin {"done", "refused"} /\ Goes(c, "refused")
    /\ Settled /\ UNCHANGED <<row, denied>>

-----------------------------------------------------------------------------
CallSteps(c) ==
    Begin(c) \/ SdkEnter(c) \/ SdkBegin(c) \/ Answered(c) \/ SdkResume(c)
        \/ Recheck(c) \/ Dispatch(c) \/ GiveUp(c)

UserSteps ==
    \/ \E c \in Calls, remember \in BOOLEAN : Decide(c, "approved", remember)
    \/ \E c \in Calls : Decide(c, "denied", FALSE)
    \/ \E m \in Modes : SetMode(m)
    \/ List \/ Revoke

Next == (\E c \in Calls : CallSteps(c) \/ Lapse(c)) \/ UserSteps

Spec == Init /\ [][Next]_vars

\* The loop goes on.  Users need not answer.
FairSpec == Spec /\ \A c \in Calls : WF_vars(Answered(c))

-----------------------------------------------------------------------------
(* Properties.                                                               *)

\* Whatever the user changes while calls wait for decisions and for the tool
\* list, a call is let through only with its own approval, which was decided
\* in time and is used up by that, or by a mode and a grant that hold at the
\* last check (authorizeAiTool, consumeAiToolApproval, execute-turn.ts:1805).
Licensed ==
    [][\A c \in Calls :
         /\ call[c].at # call'[c].at
         /\ call[c].at # "cleared" /\ call'[c].at \in {"cleared", "done"}
         => \/ Allowed
            \/ row'[c].status = "consumed" /\ row[c].mode # "none" /\ call[c].mode = mode]_vars

\* A decision is heard: a call that waits for a row that was decided goes on
\* by that alone, although it may have read the row before, and without the
\* row's time running out; and if time passes nobody waits for ever, be it for
\* a row that nobody decides or that others let expire
\* (waitForApprovalDecision, watch and notify).
WaitEnds ==
    \A c \in Calls :
        /\ call[c].at = "waiting" /\ row[c].status \in {"approved", "denied"}
              ~> call[c].at # "waiting"
        /\ WF_vars(Lapse(c)) => (call[c].at = "waiting" ~> call[c].at # "waiting")

\* A call whose approval is open, was refused or has expired is not let
\* through, whatever a mode or a grant would allow by now (decideAiToolApproval
\* and consumeAiToolApproval).
RefusedStaysOut ==
    \A c \in Calls : row[c].status \in {"pending", "denied", "expired"}
        => call[c].at \notin {"clearing", "cleared", "done"}

\* An approval that is refused, used up or expired stays so: it is neither
\* decided nor used a second time (decideAiToolApproval, consumeAiToolApproval).
AnswerFinal ==
    [][\A c \in Calls : row[c].status \in {"denied", "consumed", "expired"}
        => row'[c].status = row[c].status]_vars

-----------------------------------------------------------------------------
(* Statements of the documentation that the code does not keep.              *)

\* Revoking makes the memory start anew, "so that pending approvals cannot
\* revive the old grant" (packages/interaction/permission-presets/README.md:7).
GrantEarned == grant => earned = 2

\* After a refusal "this task and its children may not go on writing"
\* (execute-turn.ts:1735).
GateHolds ==
    [][\A c \in Calls : Gated(c) /\ call'[c].at = "done" => call[c].at = "done"]_vars
=============================================================================
