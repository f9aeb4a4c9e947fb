---------------------------- MODULE ApprovalsProofs ----------------------------
(***************************************************************************)
(* Licensed for any calls and families.  A check that finds an approval    *)
(* used up relies on that approval having been decided, and a call of the  *)
(* SDK remembers over an await that its own was: what a row says of its    *)
(* decision is never taken back.  That a refusal holds needs the status of *)
(* a row to fit the place of its call (AnswerFits).                        *)
(***************************************************************************)
EXTENDS Approvals, TLAPS

Decided ==
    \A c \in Calls :
        row[c].status \in {"approved", "consumed"} \/ call[c].at = "resuming"
            => row[c].mode # "none"

-----------------------------------------------------------------------------
(* Types.                                                                    *)

Rows  == [Calls -> [status : Statuses, generation : Nat, mode : Modes \cup {"none"}]]
Steps == [Calls -> [at : Places, mode : Modes \cup {"none"}]]

LEMMA ListedTyped == ASSUME ApprovalsTypeOK  PROVE Listed \in Rows
BY DEF ApprovalsTypeOK, Listed, Rows, Statuses

LEMMA GoesTyped ==
    ASSUME ApprovalsTypeOK, NEW c \in Calls, NEW place \in Places, Goes(c, place)
    PROVE  call' \in Steps
BY DEF ApprovalsTypeOK, Goes, Steps

LEMMA AuthorisedTyped ==
    ASSUME ApprovalsTypeOK, NEW c \in Calls, NEW place \in Places, Authorised(c, place)
    PROVE  call' \in Steps
BY DEF ApprovalsTypeOK, Authorised, Steps

LEMMA AsksTyped ==
    ASSUME ApprovalsTypeOK, NEW c \in Calls, Asks(c)
    PROVE  row' \in Rows /\ call' \in Steps
<1>1. "waiting" \in Places  BY DEF Places
<1> QED  BY <1>1, AuthorisedTyped DEF Asks, ApprovalsTypeOK, Rows, Statuses

LEMMA ConsumeTyped ==
    ASSUME ApprovalsTypeOK, NEW c \in Calls, NEW place \in Places, Consume(c, place)
    PROVE  row' \in Rows /\ call' \in Steps
<1>1. call' \in Steps
  <2>1. "refused" \in Places  BY DEF Places
  <2> QED  BY <2>1, GoesTyped DEF Consume
<1>2. row' \in Rows
  <2>1. row \in Rows  BY DEF ApprovalsTypeOK, Rows
  <2> QED  BY <2>1 DEF Consume, Rows, Statuses
<1> QED  BY <1>1, <1>2

LEMMA CallStepTyped ==
    ASSUME ApprovalsTypeOK, NEW c \in Calls, CallSteps(c)
    PROVE  ApprovalsTypeOK'
<1>1. {"refused", "clearing", "entering", "waiting", "resuming", "done", "cleared"} \subseteq Places
      BY DEF Places
<1>2. row \in Rows /\ FamilyOf[c] \in Calls  BY CallsAssumption DEF ApprovalsTypeOK, Rows
<1>3. Settled /\ denied' \subseteq Calls
      BY <1>2 DEF CallSteps, Begin, SdkEnter, SdkBegin, Answered, SdkResume, Recheck, Dispatch,
                  GiveUp, ApprovalsTypeOK
<1>4. row' \in Rows /\ call' \in Steps
  <2>1. CASE Begin(c)
        BY <1>1, <1>2, <2>1, GoesTyped, AuthorisedTyped, AsksTyped DEF Begin
  <2>2. CASE SdkEnter(c)  BY <1>1, <1>2, <2>2, GoesTyped DEF SdkEnter
  <2>3. CASE SdkBegin(c)  BY <1>1, <1>2, <2>3, AuthorisedTyped, AsksTyped DEF SdkBegin
  <2>4. CASE Answered(c)
        BY <1>1, <2>4, GoesTyped, ConsumeTyped, ListedTyped DEF Answered
  <2>5. CASE SdkResume(c)  BY <1>1, <1>2, <2>5, GoesTyped, ConsumeTyped DEF SdkResume
  <2>6. CASE Recheck(c)  BY <1>1, <1>2, <2>6, GoesTyped DEF Recheck
  <2>7. CASE Dispatch(c)  BY <1>1, <1>2, <2>7, GoesTyped DEF Dispatch
  <2>8. CASE GiveUp(c)  BY <1>1, <1>2, <2>8, GoesTyped DEF GiveUp
  <2> QED  BY <2>1, <2>2, <2>3, <2>4, <2>5, <2>6, <2>7, <2>8 DEF CallSteps
<1> QED  BY <1>3, <1>4 DEF Settled, ApprovalsTypeOK, Rows, Steps

LEMMA DecideTyped ==
    ASSUME ApprovalsTypeOK, NEW c \in Calls, NEW decision \in {"approved", "denied"},
           NEW remember \in BOOLEAN, Decide(c, decision, remember)
    PROVE  ApprovalsTypeOK'
<1>1. row' \in Rows  BY DEF Decide, ApprovalsTypeOK, Rows, Statuses
<1>2. grant' \in BOOLEAN  BY DEF Decide
<1>3. earned' \in 0 .. 2
  <2>1. \A n \in 0 .. 3 : AtMost2(n) \in 0 .. 2  BY DEF AtMost2
  <2>2. earned \in 0 .. 2 /\ earned + 1 \in 0 .. 3 /\ 2 \in 0 .. 3  BY DEF ApprovalsTypeOK
  <2>3. earned' = IF ~ (decision = "approved" /\ mode = "approve_remembered") THEN earned
                  ELSE AtMost2(IF remember THEN 2 ELSE earned + 1)
        BY DEF Decide
  <2> QED  BY <2>1, <2>2, <2>3
<1>4. woken' \subseteq Calls  BY DEF Decide, Notify, ApprovalsTypeOK
<1>5. UNCHANGED <<mode, lapsed, generation, call, denied>>  BY DEF Decide
<1> QED  BY <1>1, <1>2, <1>3, <1>4, <1>5 DEF ApprovalsTypeOK, Rows

LEMMA NextTyped == ASSUME ApprovalsTypeOK, [Next]_vars  PROVE ApprovalsTypeOK'
<1>1. ASSUME NEW c \in Calls, CallSteps(c)  PROVE ApprovalsTypeOK'  BY <1>1, CallStepTyped
<1>2. ASSUME NEW c \in Calls, Lapse(c)  PROVE ApprovalsTypeOK'
      BY <1>2 DEF Lapse, ApprovalsTypeOK
<1>3. CASE UserSteps
  <2>1. ASSUME NEW m \in Modes, SetMode(m)  PROVE ApprovalsTypeOK'
        BY <2>1 DEF SetMode, ApprovalsTypeOK
  <2>2. CASE List
    <3>1. row' \in Rows  BY <2>2, ListedTyped DEF List
    <3>2. UNCHANGED <<mode, lapsed, grant, generation, call, woken, denied, earned>>
          BY <2>2 DEF List
    <3> QED  BY <3>1, <3>2 DEF ApprovalsTypeOK, Rows
  <2>3. CASE Revoke
    <3>1. generation + 1 \in Nat /\ 0 \in 0 .. 2  BY DEF ApprovalsTypeOK
    <3> QED  BY <2>3, <3>1 DEF Revoke, ApprovalsTypeOK
  <2> QED  BY <1>3, <2>1, <2>2, <2>3, DecideTyped DEF UserSteps
<1>4. CASE UNCHANGED vars  BY <1>4 DEF vars, ApprovalsTypeOK
<1> QED  BY <1>1, <1>2, <1>3, <1>4 DEF Next

\* Rows, grants and calls keep their types.
THEOREM ApprovalsTyped == Spec => []ApprovalsTypeOK
<1>1. Init => ApprovalsTypeOK
  <2> SUFFICES ASSUME Init  PROVE ApprovalsTypeOK
      OBVIOUS
  <2>1. row \in Rows  BY DEF Init, Rows, Statuses
  <2>2. call \in Steps  BY DEF Init, Steps, Places
  <2>3. 0 \in 0 .. 2 /\ 0 \in Nat  OBVIOUS
  <2>4. /\ mode \in Modes
        /\ lapsed \subseteq Calls /\ woken \subseteq Calls /\ denied \subseteq Calls
        /\ grant \in BOOLEAN /\ generation \in Nat /\ earned \in 0 .. 2
        BY <2>3 DEF Init
  <2> QED  BY <2>1, <2>2, <2>4 DEF ApprovalsTypeOK, Rows, Steps
<1> QED  BY <1>1, NextTyped, PTL DEF Spec

-----------------------------------------------------------------------------
(* Licences.                                                                 *)

LEMMA NextDecided == ASSUME ApprovalsTypeOK, Decided, [Next]_vars  PROVE Decided'
<1>1. row \in Rows /\ call \in Steps /\ mode \in Modes /\ "none" \notin Modes
      BY DEF ApprovalsTypeOK, Rows, Steps, Modes
<1>2. \A d \in Calls : /\ Listed[d].mode = row[d].mode
                       /\ Listed[d].status \in {"approved", "consumed"}
                             => row[d].status \in {"approved", "consumed"}
      BY <1>1 DEF Listed, Rows
<1>3. ASSUME NEW c \in Calls, CallSteps(c)  PROVE Decided'
  <2>1. \A d \in Calls : d # c => call'[d] = call[d]
        BY <1>1, <1>3 DEF CallSteps, Begin, SdkEnter, SdkBegin, Answered, SdkResume, Recheck,
           Dispatch, GiveUp, Goes, Authorised, Asks, Consume, Steps
  <2>2. \A d \in Calls : d # c => row'[d] = row[d] \/ row'[d] = Listed[d]
        BY <1>1, <1>3 DEF CallSteps, Begin, SdkEnter, SdkBegin, Answered, SdkResume, Recheck,
           Dispatch, GiveUp, Asks, Consume, Rows
  <2>3. \A d \in Calls \ {c} :
            (row'[d].status \in {"approved", "consumed"} \/ call'[d].at = "resuming")
               => row'[d].mode # "none"
        BY <1>2, <2>1, <2>2 DEF Decided
  <2>4. (row'[c].status \in {"approved", "consumed"} \/ call'[c].at = "resuming")
           => row'[c].mode # "none"
    <3>1. ASSUME NEW place \in Places \ {"resuming"}, Goes(c, place), row' = row \/ row' = Listed
          PROVE  call'[c].at # "resuming" /\ (row'[c].status \in {"approved", "consumed"}
                                                 => row'[c].mode # "none")
          BY <1>1, <1>2, <3>1 DEF Goes, Decided, Steps
    <3>2. ASSUME NEW place \in Places \ {"resuming"}, Consume(c, place), row[c].mode # "none"
          PROVE  row'[c].mode # "none"
          BY <1>1, <3>2 DEF Consume, Rows
    <3>3. CASE Asks(c)  BY <1>1, <3>3 DEF Asks, Authorised, Rows, Steps
    <3>4. ASSUME NEW place \in Places \ {"resuming"}, Authorised(c, place), row' = row
          PROVE  call'[c].at # "resuming" /\ (row'[c].status \in {"approved", "consumed"}
                                                 => row'[c].mode # "none")
          BY <1>1, <3>4 DEF Authorised, Decided, Steps
    <3>5. {"refused", "clearing", "entering", "done", "cleared"} \subseteq Places \ {"resuming"}
          BY DEF Places
    <3>6. CASE Begin(c)  BY <3>1, <3>3, <3>4, <3>5, <3>6 DEF Begin
    <3>7. CASE SdkEnter(c)  BY <3>1, <3>5, <3>7 DEF SdkEnter
    <3>8. CASE SdkBegin(c)  BY <3>3, <3>4, <3>5, <3>8 DEF SdkBegin
    <3>9. CASE Answered(c)
      <4>1. CASE Listed[c].status = "approved"
        <5>1. row[c].mode # "none" /\ Listed[c].mode # "none"  BY <1>2, <4>1 DEF Decided
        <5> QED  BY <3>2, <3>5, <3>9, <4>1, <5>1 DEF Answered
      <4>2. CASE Listed[c].status # "approved"  BY <3>1, <3>5, <3>9, <4>2 DEF Answered
      <4> QED  BY <4>1, <4>2
    <3>10. CASE SdkResume(c)
      <4>1. row[c].mode # "none"  BY <3>10 DEF SdkResume, Decided
      <4> QED  BY <3>2, <3>5, <3>10, <4>1 DEF SdkResume
    <3>11. CASE Recheck(c)  BY <3>1, <3>5, <3>11 DEF Recheck
    <3>12. CASE Dispatch(c)  BY <3>1, <3>5, <3>12 DEF Dispatch
    <3>13. CASE GiveUp(c)  BY <3>1, <3>5, <3>13 DEF GiveUp
    <3> QED  BY <1>3, <3>6, <3>7, <3>8, <3>9, <3>10, <3>11, <3>12, <3>13 DEF CallSteps
  <2> QED  BY <2>3, <2>4 DEF Decided
<1>4. ASSUME NEW c \in Calls, NEW decision, NEW remember, Decide(c, decision, remember)
      PROVE  Decided'
      BY <1>1, <1>4 DEF Decide, Decided, Rows
<1>5. CASE List  BY <1>2, <1>5 DEF List, Decided
<1>6. ASSUME row' = row, call' = call  PROVE Decided'  BY <1>6 DEF Decided
<1>7. CASE \/ Revoke \/ (\E m \in Modes : SetMode(m)) \/ (\E c \in Calls : Lapse(c))
           \/ UNCHANGED vars
      BY <1>6, <1>7 DEF Revoke, SetMode, Lapse, vars
<1> QED  BY <1>3, <1>4, <1>5, <1>7 DEF Next, UserSteps

LEMMA StepLicensed ==
    ASSUME ApprovalsTypeOK, Decided, [Next]_vars, NEW c \in Calls,
           call[c].at # call'[c].at, call[c].at # "cleared", call'[c].at \in {"cleared", "done"}
    PROVE  \/ Allowed
           \/ row'[c].status = "consumed" /\ row[c].mode # "none" /\ call[c].mode = mode
<1>1. row \in Rows /\ call \in Steps  BY DEF ApprovalsTypeOK, Rows, Steps
<1>2. CallSteps(c)
  <2>1. ASSUME NEW d \in Calls, CallSteps(d), d # c  PROVE call'[c] = call[c]
        BY <1>1, <2>1 DEF CallSteps, Begin, SdkEnter, SdkBegin, Answered, SdkResume, Recheck,
           Dispatch, GiveUp, Goes, Authorised, Asks, Consume, Steps
  <2>2. ASSUME \/ UserSteps \/ (\E d \in Calls : Lapse(d)) \/ UNCHANGED vars
        PROVE  call' = call
        BY <2>2 DEF UserSteps, Decide, SetMode, List, Revoke, Lapse, vars
  <2> QED  BY <2>1, <2>2 DEF Next
<1>3. ASSUME NEW place, Goes(c, place) \/ Authorised(c, place)  PROVE call'[c].at = place
      BY <1>1, <1>3 DEF Goes, Authorised, Steps
<1>4. CASE Begin(c)  BY <1>3, <1>4 DEF Begin, Asks
<1>5. CASE SdkEnter(c)  BY <1>3, <1>5 DEF SdkEnter
<1>6. CASE SdkBegin(c)  BY <1>3, <1>6 DEF SdkBegin, Asks
<1>7. CASE Answered(c)  BY <1>3, <1>7 DEF Answered, Consume
<1>8. CASE SdkResume(c)
  <2>1. mode = call[c].mode /\ Consume(c, "done")  BY <1>3, <1>8 DEF SdkResume
  <2>2. row'[c].status = "consumed"  BY <1>1, <1>3, <2>1 DEF Consume, Rows
  <2>3. row[c].mode # "none"  BY <1>8 DEF SdkResume, Decided
  <2> QED  BY <2>1, <2>2, <2>3
<1>9. CASE Recheck(c)  BY <1>3, <1>9 DEF Recheck, Decided
<1>10. CASE Dispatch(c)  BY <1>10 DEF Dispatch
<1>11. CASE GiveUp(c)  BY <1>3, <1>11 DEF GiveUp
<1> QED  BY <1>2, <1>4, <1>5, <1>6, <1>7, <1>8, <1>9, <1>10, <1>11 DEF CallSteps

\* A call is let through only with its own approval, decided in time and used
\* up by that, or by a mode and a grant that hold at the last check
\* (authorizeAiTool, consumeAiToolApproval, execute-turn.ts:1805).
THEOREM CallsLicensed == Spec => Licensed
<1> DEFINE Step == \A c \in Calls :
                     /\ call[c].at # call'[c].at
                     /\ call[c].at # "cleared" /\ call'[c].at \in {"cleared", "done"}
                     => \/ Allowed
                        \/ row'[c].status = "consumed" /\ row[c].mode # "none" /\ call[c].mode = mode
<1>1. Init => Decided  BY DEF Init, Decided
<1>2. ApprovalsTypeOK /\ Decided /\ [Next]_vars => Decided'  BY NextDecided
<1>3. ApprovalsTypeOK /\ Decided /\ [Next]_vars => Step  BY StepLicensed
<1> QED  BY <1>1, <1>2, <1>3, ApprovalsTyped, PTL DEF Spec, Licensed

-----------------------------------------------------------------------------
(* Refusals.                                                                 *)

\* What the status of an approval has to do with the place of its call.
Fits(status, at, late) ==
    /\ status = "absent" => at \in {"new", "entering", "clearing", "cleared", "done", "refused"}
    /\ status \in {"pending", "denied"} => at \in {"waiting", "refused"}
    /\ status \in {"approved", "expired"} => at \in {"waiting", "resuming", "refused"}
    /\ status = "consumed" => at \in {"clearing", "cleared", "done", "refused"}
    /\ status = "expired" => late

AnswerFits == \A c \in Calls : Fits(row[c].status, call[c].at, c \in lapsed)

\* A row that is final keeps its status.
Final(c) == row[c].status \in {"denied", "consumed", "expired"} => row'[c].status = row[c].status

Proper(c) == Final(c) /\ Fits(row'[c].status, call'[c].at, c \in lapsed')

\* What a step leaves of the rows and calls it does not concern.
Aside(c) == /\ lapsed' = lapsed
            /\ \A d \in Calls \ {c} : call'[d] = call[d] /\ row'[d] \in {row[d], Listed[d]}

LEMMA AsideFits ==
    ASSUME ApprovalsTypeOK, AnswerFits, NEW c, Aside(c), NEW d \in Calls \ {c}
    PROVE  Proper(d)
<1>1. lapsed' = lapsed /\ call'[d] = call[d] /\ row'[d] \in {row[d], Listed[d]}  BY DEF Aside
<1>2. Fits(row[d].status, call[d].at, d \in lapsed)  BY DEF AnswerFits
<1>3. CASE row'[d] = row[d]  BY <1>1, <1>2, <1>3 DEF Final, Proper
<1>4. CASE row'[d] = Listed[d] /\ row'[d] # row[d]
  <2>1. d \in lapsed /\ row[d].status \in {"pending", "approved"} /\ row'[d].status = "expired"
        BY <1>4 DEF Listed, ApprovalsTypeOK
  <2> QED  BY <1>1, <1>2, <2>1 DEF Fits, Final, Proper
<1> QED  BY <1>1, <1>3, <1>4

LEMMA CallStepFits ==
    ASSUME ApprovalsTypeOK, AnswerFits, NEW c \in Calls, CallSteps(c)
    PROVE  AnswerFits' /\ \A d \in Calls : Final(d)
<1>0. row \in Rows /\ call \in Steps  BY DEF ApprovalsTypeOK, Rows, Steps
<1>1. Aside(c)
  <2>1. lapsed' = lapsed
        BY DEF CallSteps, Begin, SdkEnter, SdkBegin, Answered, SdkResume, Recheck, Dispatch,
           GiveUp, Settled
  <2>2. \A d \in Calls : d # c => call'[d] = call[d]
        BY <1>0 DEF CallSteps, Begin, SdkEnter, SdkBegin, Answered, SdkResume, Recheck,
           Dispatch, GiveUp, Goes, Authorised, Asks, Consume, Steps
  <2>3. \A d \in Calls : d # c => row'[d] = row[d] \/ row'[d] = Listed[d]
        BY <1>0 DEF CallSteps, Begin, SdkEnter, SdkBegin, Answered, SdkResume, Recheck,
           Dispatch, GiveUp, Asks, Consume, Rows
  <2> QED  BY <2>1, <2>2, <2>3 DEF Aside
<1> SUFFICES Proper(c)  BY <1>1, AsideFits DEF AnswerFits, Proper
<1>a. Fits(row[c].status, call[c].at, c \in lapsed)  BY DEF AnswerFits
<1>2. lapsed' = lapsed  BY <1>1 DEF Aside
<1>3. ASSUME NEW place, Goes(c, place) \/ Authorised(c, place)  PROVE call'[c].at = place
      BY <1>0, <1>3 DEF Goes, Authorised, Steps
<1>4. ASSUME Asks(c), row[c].status = "absent"  PROVE Proper(c)
  <2>1. call'[c].at = "waiting"  BY <1>3, <1>4 DEF Asks
  <2>2. row'[c].status = "pending"  BY <1>0, <1>4 DEF Asks, Rows
  <2> QED  BY <1>4, <2>1, <2>2 DEF Final, Fits, Proper
<1>5. ASSUME NEW place \in {"clearing", "done"}, Consume(c, place),
             row[c].status \in {"pending", "approved"} \/ (row[c].status = "expired" /\ c \in lapsed)
      PROVE  Proper(c)
  <2>1. CASE c \in lapsed
    <3>1. row'[c].status = "expired" /\ call'[c].at = "refused"
          BY <1>0, <1>3, <1>5, <2>1 DEF Consume, Rows
    <3> QED  BY <1>2, <1>5, <2>1, <3>1 DEF Final, Fits, Proper
  <2>2. CASE c \notin lapsed
    <3>1. row'[c].status = "consumed" /\ call'[c].at = place
          BY <1>0, <1>3, <1>5, <2>2 DEF Consume, Rows
    <3> QED  BY <1>2, <1>5, <2>2, <3>1 DEF Final, Fits, Proper
  <2> QED  BY <2>1, <2>2
<1>6. CASE Begin(c)
  <2>1. row[c].status = "absent"  BY <1>0, <1>6 DEF Begin, AnswerFits, Fits, Rows, Statuses
  <2>2. CASE Asks(c)  BY <1>4, <2>1, <2>2
  <2>3. CASE ~ Asks(c)
    <3>1. row' = row /\ call'[c].at \in {"refused", "clearing"}  BY <1>3, <1>6, <2>3 DEF Begin
    <3> QED  BY <2>1, <3>1 DEF Final, Fits, Proper
  <2> QED  BY <2>2, <2>3
<1>7. CASE SdkEnter(c)
  <2>1. row[c].status = "absent"  BY <1>0, <1>7 DEF SdkEnter, AnswerFits, Fits, Rows, Statuses
  <2>2. row' = row /\ call'[c].at \in {"refused", "entering"}  BY <1>3, <1>7 DEF SdkEnter
  <2> QED  BY <2>1, <2>2 DEF Final, Fits, Proper
<1>8. CASE SdkBegin(c)
  <2>1. row[c].status = "absent"  BY <1>0, <1>8 DEF SdkBegin, AnswerFits, Fits, Rows, Statuses
  <2>2. CASE Asks(c)  BY <1>4, <2>1, <2>2
  <2>3. CASE ~ Asks(c)
    <3>1. row' = row /\ call'[c].at = "done"  BY <1>3, <1>8, <2>3 DEF SdkBegin
    <3> QED  BY <2>1, <3>1 DEF Final, Fits, Proper
  <2> QED  BY <2>2, <2>3
<1>9. CASE Answered(c)
  <2>0. call[c].at = "waiting" /\ row[c].status \notin {"absent", "consumed"}
        BY <1>9 DEF Answered, AnswerFits, Fits
  <2>1. CASE Listed[c].status = "approved"
    <3>1. row[c].status = "approved" /\ c \notin lapsed /\ Listed[c] = row[c]
          BY <1>0, <2>1 DEF Listed, Rows
    <3>2. CASE c \in SdkCalls
      <4>1. row'[c] = row[c] /\ call'[c].at = "resuming"
            BY <1>3, <1>9, <2>1, <3>1, <3>2 DEF Answered
      <4> QED  BY <3>1, <4>1 DEF Final, Fits, Proper
    <3>3. CASE c \notin SdkCalls  BY <1>5, <1>9, <2>1, <3>1, <3>3 DEF Answered
    <3> QED  BY <3>2, <3>3
  <2>2. CASE Listed[c].status # "approved"
    <3>1. row' = Listed /\ call'[c].at = "refused"  BY <1>3, <1>9, <2>2 DEF Answered
    <3>2. \/ row'[c] = row[c]
          \/ /\ c \in lapsed /\ row[c].status \in {"pending", "approved"}
             /\ row'[c].status = "expired"
          BY <1>0, <3>1 DEF Listed, Rows
    <3>3. row[c].status = "expired" => c \in lapsed  BY <1>a DEF Fits
    <3>4. Final(c)  BY <3>2 DEF Final
    <3>5. row'[c].status \notin {"absent", "consumed"}  BY <2>0, <3>2
    <3>6. row'[c].status = "expired" => c \in lapsed'  BY <1>2, <3>2, <3>3
    <3> QED  BY <2>0, <3>1, <3>4, <3>5, <3>6 DEF Fits, Proper
  <2> QED  BY <2>1, <2>2
<1>10. CASE SdkResume(c)
  <2>1. \/ row[c].status = "approved"
        \/ row[c].status = "expired" /\ c \in lapsed
        BY <1>0, <1>10 DEF SdkResume, AnswerFits, Fits, Rows, Statuses
  <2>2. CASE mode # call[c].mode
    <3>1. row' = row /\ call'[c].at = "refused"  BY <1>3, <1>10, <2>2 DEF SdkResume
    <3> QED  BY <1>2, <2>1, <3>1 DEF Final, Fits, Proper
  <2>3. CASE mode = call[c].mode  BY <1>5, <1>10, <2>1, <2>3 DEF SdkResume
  <2> QED  BY <2>2, <2>3
<1>11. CASE Recheck(c) \/ Dispatch(c)
  <2>1. row' = row /\ call'[c].at \in {"cleared", "refused", "done"}
        BY <1>3, <1>11 DEF Recheck, Dispatch
  <2>2. row[c].status \in {"absent", "consumed"}
        BY <1>0, <1>11 DEF Recheck, Dispatch, AnswerFits, Fits, Rows, Statuses
  <2> QED  BY <2>1, <2>2 DEF Final, Fits, Proper
<1>12. CASE GiveUp(c)
  <2>1. row' = row /\ call'[c].at = "refused"  BY <1>3, <1>12 DEF GiveUp
  <2> QED  BY <1>2, <1>a, <2>1 DEF Final, Fits, Proper
<1> QED  BY <1>6, <1>7, <1>8, <1>9, <1>10, <1>11, <1>12 DEF CallSteps

LEMMA NextFits ==
    ASSUME ApprovalsTypeOK, AnswerFits, [Next]_vars
    PROVE  AnswerFits' /\ \A d \in Calls : Final(d)
<1>0. row \in Rows  BY DEF ApprovalsTypeOK, Rows
<1>1. ASSUME NEW c \in Calls, CallSteps(c)  PROVE AnswerFits' /\ \A d \in Calls : Final(d)
      BY <1>1, CallStepFits
<1>2. ASSUME row' = row, call' = call, lapsed \subseteq lapsed'
      PROVE  AnswerFits' /\ \A d \in Calls : Final(d)
      BY <1>2 DEF AnswerFits, Fits, Final
<1>3. CASE \/ Revoke \/ (\E m \in Modes : SetMode(m)) \/ (\E c \in Calls : Lapse(c))
           \/ UNCHANGED vars
      BY <1>2, <1>3 DEF Revoke, SetMode, Lapse, vars
<1>4. ASSUME NEW c \in Calls, NEW decision \in {"approved", "denied"}, NEW remember,
             Decide(c, decision, remember)
      PROVE  AnswerFits' /\ \A d \in Calls : Final(d)
  <2>1. /\ row[c].status = "pending" /\ row'[c].status = decision
        /\ \A d \in Calls \ {c} : row'[d] = row[d]
        /\ call' = call /\ lapsed' = lapsed
        BY <1>0, <1>4 DEF Decide, Rows
  <2> QED  BY <1>4, <2>1 DEF AnswerFits, Fits, Final
<1>5. CASE List
  <2>1. call' = call /\ lapsed' = lapsed /\ row' = Listed  BY <1>5 DEF List
  <2>2. \A d \in Calls : \/ row'[d] = row[d]
                         \/ /\ d \in lapsed /\ row[d].status \in {"pending", "approved"}
                            /\ row'[d].status = "expired"
        BY <1>0, <2>1 DEF Listed, Rows
  <2> QED  BY <2>1, <2>2 DEF AnswerFits, Fits, Final
<1> QED  BY <1>1, <1>3, <1>4, <1>5 DEF Next, UserSteps

\* A call whose approval is open, refused or expired is never let through, and
\* an answer that was refused, used up or late is never taken back or used
\* again, for any calls, families and interleavings of their users' decisions
\* (decideAiToolApproval and consumeAiToolApproval).
THEOREM RefusalsHold == Spec => ([]RefusedStaysOut) /\ AnswerFinal
<1> DEFINE Kept == \A c \in Calls : row[c].status \in {"denied", "consumed", "expired"}
                     => row'[c].status = row[c].status
<1>1. Init => AnswerFits  BY DEF Init, AnswerFits, Fits
<1>2. ApprovalsTypeOK /\ AnswerFits /\ [Next]_vars => AnswerFits'  BY NextFits
<1>3. ApprovalsTypeOK /\ AnswerFits /\ [Next]_vars => Kept  BY NextFits DEF Final
<1>4. AnswerFits => RefusedStaysOut  BY DEF AnswerFits, Fits, RefusedStaysOut
<1> QED  BY <1>1, <1>2, <1>3, <1>4, ApprovalsTyped, PTL DEF Spec, AnswerFinal
=============================================================================
