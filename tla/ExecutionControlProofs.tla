------------------------ MODULE ExecutionControlProofs ------------------------
(***************************************************************************)
(* ExecutionControl for any tasks, instances, nodes, lease length and      *)
(* number of faults: the real Daemon stays within what MinecraftControl    *)
(* allows any Daemon, so that module's theorems hold of it, and what the   *)
(* control plane records of an operation is what happened on the node.     *)
(*                                                                         *)
(* The argument is custody.  A task that a lane executes is on that node   *)
(* for good (Duty), so a node acts on a task only while the control plane  *)
(* has it as running or as unknown, and a request that timed out carries   *)
(* the truth about its task whenever it is handled (Truthful): the lane    *)
(* that sent it has come to its end.                                       *)
(***************************************************************************)
EXTENDS ExecutionControl, MinecraftControlProofs

Early == {"accepted", "work", "starting", "stopping", "again"}
Steps == Early \cup {"idle", "trail", "report", "fail"}

JobRow == [task : Tasks \cup {None}, step : Steps, done : BOOLEAN, aborted : BOOLEAN]

\* A heartbeat's body.
Body(active, reports) ==
    /\ active \in SUBSET Tasks
    /\ DOMAIN reports \in SUBSET Instances
    /\ reports \in [DOMAIN reports -> Report]

Forms ==
    /\ job \in [Nodes -> JobRow]
    /\ server \in [Instances -> Managed \cup {"down", "archived"}]
    /\ orphan \in [Instances -> BOOLEAN]
    /\ effect \in [Tasks -> {"none", "begun", "done"}]
    /\ DOMAIN loop = Nodes /\ DOMAIN beat = Nodes
    /\ \A n \in Nodes : loop[n] = "beat" => Body(beat[n].active, beat[n].reports)

\* What job j of node n knows of its task, on task table T with effects E.
Duty(n, j, T, E) ==
    j.step # "idle" =>
        /\ j.task \in Tasks
        /\ T[j.task].node = n
        /\ T[j.task].status \notin Unclaimed /\ T[j.task].outcome # "not-executed"
        /\ j.step \in {"accepted", "work"} => E[j.task] = "none"
        /\ j.step \in Early => Open(T[j.task])
        /\ j.step \in {"trail", "report"} => E[j.task] = "done"

\* What a request in "late" says, on task table T with jobs J and effects E.
Truthful(m, J, T, E) ==
    /\ m.node \in Nodes
    /\ m.call \in {"beat", "claim", "progress", "complete"}
    /\ m.call = "beat" => Body(m.active, m.reports)
    /\ m.call = "progress" => m.task \in Tasks
    /\ m.call = "complete" =>
          /\ m.task \in Tasks /\ m.succeeded \in BOOLEAN /\ m.outcome \in Reported
          /\ T[m.task].status \notin Unclaimed
          /\ m.succeeded => E[m.task] = "done"
          /\ \A n \in Nodes : J[n].task = m.task => J[n].step \notin Early

\* What the rows say of the operations.
Records(T, E) ==
    \A t \in Tasks :
        /\ T[t].status \in Unclaimed => E[t] = "none" /\ T[t].outcome = "none"
        /\ T[t].outcome = "not-executed" => E[t] = "none"
        /\ T[t].status = "succeeded" => E[t] = "done"

Custody(J, T, E, L) ==
    /\ \A n \in Nodes : Duty(n, J[n], T, E)
    /\ \A m \in L : Truthful(m, J, T, E)
    /\ Records(T, E)

ExecInv == IInv /\ Forms /\ OrphanAlone /\ Custody(job, task, effect, late)

-----------------------------------------------------------------------------
(* Custody, one change at a time.                                            *)

\* Lane moves on, or takes nothing up that was not under way.
Onward(old, new) == new.step \in Early => old.step \in Early /\ new.task = old.task

LEMMA CalmDuty ==
    ASSUME NEW T, NEW T2, NEW E, Records(T, E), \A u \in Tasks : Calm(T[u], T2[u]),
           NEW n, NEW j, Duty(n, j, T, E)
    PROVE  Duty(n, j, T2, E)
BY DEF Duty, Calm, Lawful, Records, Unclaimed

LEMMA CalmCustody ==
    ASSUME NEW J, NEW T, NEW T2, NEW E, NEW L, Custody(J, T, E, L),
           \A u \in Tasks : Calm(T[u], T2[u])
    PROVE  Custody(J, T2, E, L)
<1>1. \A n \in Nodes : Duty(n, J[n], T2, E)  BY CalmDuty DEF Custody
<1>2. \A m \in L : Truthful(m, J, T2, E)
      BY DEF Custody, Truthful, Calm, Lawful
<1>3. Records(T2, E)
      BY DEF Custody, Records, Calm, Lawful, Unclaimed
<1> QED  BY <1>1, <1>2, <1>3 DEF Custody

LEMMA LaneCustody ==
    ASSUME NEW J \in [Nodes -> JobRow], NEW T, NEW E, NEW L, Custody(J, T, E, L),
           NEW n \in Nodes, NEW j, Duty(n, j, T, E), Onward(J[n], j)
    PROVE  Custody([J EXCEPT ![n] = j], T, E, L)
<1> DEFINE K == [J EXCEPT ![n] = j]
<1>1. K[n] = j /\ \A x \in Nodes \ {n} : K[x] = J[x]  OBVIOUS
<1> HIDE DEF K
<1>2. \A x \in Nodes : Duty(x, K[x], T, E)  BY <1>1 DEF Custody
<1>3. \A m \in L : Truthful(m, K, T, E)
      BY <1>1 DEF Custody, Truthful, Onward
<1> QED  BY <1>2, <1>3 DEF Custody, K

LEMMA LateCustody ==
    ASSUME NEW J, NEW T, NEW E, NEW L, Custody(J, T, E, L), NEW m, Truthful(m, J, T, E)
    PROVE  Custody(J, T, E, L \cup {m})
BY DEF Custody

\* Two lanes never have the same task.
LEMMA OwnTask ==
    ASSUME NEW J, NEW T, NEW E, NEW L, Custody(J, T, E, L), NEW n \in Nodes, NEW x \in Nodes,
           J[n].task = J[x].task, J[n].step # "idle", J[x].step # "idle"
    PROVE  n = x
BY DEF Custody, Duty

\* The operation takes effect.
LEMMA EffectCustody ==
    ASSUME NEW J \in [Nodes -> JobRow], NEW T, NEW E \in [Tasks -> {"none", "begun", "done"}],
           NEW L, Custody(J, T, E, L), NEW n \in Nodes, J[n].step \in Early,
           NEW e \in {"begun", "done"}, NEW j \in JobRow,
           j.task = J[n].task, j.step \in {"starting", "stopping", "fail", "trail", "report"},
           j.step \in {"trail", "report"} => e = "done"
    PROVE  Custody([J EXCEPT ![n] = j], T, [E EXCEPT ![J[n].task] = e], L)
<1> DEFINE t == J[n].task
           F == [E EXCEPT ![t] = e]
           K == [J EXCEPT ![n] = j]
<1>1. /\ t \in Tasks /\ T[t].node = n /\ T[t].status \notin Unclaimed
      /\ T[t].outcome # "not-executed" /\ Open(T[t])
      BY DEF Custody, Duty, Early
<1>2. F[t] = e /\ \A u \in Tasks \ {t} : F[u] = E[u]  BY <1>1
<1>3. K[n] = j /\ \A x \in Nodes \ {n} : K[x] = J[x]  OBVIOUS
<1>4. j.task = t  OBVIOUS
<1>5. Records(T, E) /\ \A x \in Nodes : Duty(x, J[x], T, E)  BY DEF Custody
<1> HIDE DEF F, K, t
<1>6. ASSUME NEW x \in Nodes PROVE Duty(x, K[x], T, F)
  <2>1. CASE x = n
        BY <1>1, <1>2, <1>3, <1>4, <2>1 DEF Duty, Early
  <2>2. CASE x # n
    <3>1. Duty(x, J[x], T, E)  BY <1>5
    <3>2. J[x].step # "idle" => J[x].task # t  BY <1>1, <2>2, <3>1 DEF Duty
    <3> QED  BY <1>2, <1>3, <2>2, <3>1, <3>2 DEF Duty
  <2> QED  BY <2>1, <2>2
<1>7. ASSUME NEW m \in L PROVE Truthful(m, K, T, F)
  <2>1. Truthful(m, J, T, E)  BY DEF Custody
  <2>2. m.call = "complete" => m.task # t
        BY <2>1 DEF Truthful, t
  <2>3. ASSUME m.call = "complete", NEW x \in Nodes, K[x].task = m.task
        PROVE  K[x].step \notin Early
    <3>1. CASE x = n  BY <1>3, <1>4, <2>2, <2>3, <3>1
    <3>2. CASE x # n  BY <1>3, <2>1, <2>3, <3>2 DEF Truthful
    <3> QED  BY <3>1, <3>2
  <2> QED  BY <1>2, <2>1, <2>2, <2>3 DEF Truthful
<1>8. Records(T, F)
      BY <1>1, <1>2, <1>5 DEF Records, Open
<1>9. Custody(K, T, F, L)  BY <1>6, <1>7, <1>8 DEF Custody
<1> QED  BY <1>9 DEF K, F, t

\* The control plane takes a completion in.
LEMMA CompleteCustody ==
    ASSUME NEW J, NEW T, NEW T2, NEW E, NEW L, Custody(J, T, E, L), NEW t \in Tasks,
           \A u \in Tasks \ {t} : Calm(T[u], T2[u]), Lawful(T[t], T2[t]),
           T[t].status \notin Unclaimed,
           T2[t].status \in Terminal, T2[t].outcome # "not-executed",
           T2[t].status = "succeeded" => E[t] = "done",
           \A n \in Nodes : J[n].task = t => J[n].step \notin Early
    PROVE  Custody(J, T2, E, L)
<1>0. \A u \in Tasks : Lawful(T[u], T2[u])  BY DEF Calm
<1>1. ASSUME NEW n \in Nodes PROVE Duty(n, J[n], T2, E)
  <2>1. Duty(n, J[n], T, E) /\ Records(T, E)  BY DEF Custody
  <2>2. CASE J[n].task = t
        BY <2>1, <2>2 DEF Duty, Lawful, Early
  <2>3. CASE J[n].task # t
        BY <2>1, <2>3 DEF Duty, Calm, Lawful, Records, Unclaimed
  <2> QED  BY <2>2, <2>3
<1>2. \A m \in L : Truthful(m, J, T2, E)
      BY <1>0 DEF Custody, Truthful, Lawful
<1>3. Records(T2, E)
  <2> SUFFICES ASSUME NEW u \in Tasks
               PROVE  /\ T2[u].status \in Unclaimed => E[u] = "none" /\ T2[u].outcome = "none"
                      /\ T2[u].outcome = "not-executed" => E[u] = "none"
                      /\ T2[u].status = "succeeded" => E[u] = "done"
      BY DEF Records
  <2>1. CASE u = t  BY <2>1 DEF Terminal, Unclaimed
  <2>2. CASE u # t  BY <2>2 DEF Custody, Records, Calm, Lawful, Unclaimed
  <2> QED  BY <2>1, <2>2
<1> QED  BY <1>1, <1>2, <1>3 DEF Custody

-----------------------------------------------------------------------------
(* What the control plane does for the Daemon.                               *)

\* A step of the control plane that completes nothing, or none.
Plane == [Next]_vars /\ \A u \in Tasks : Calm(task[u], task'[u])

LEMMA StillPlane == ASSUME UNCHANGED vars PROVE Plane
BY CalmSame DEF Plane, vars

LEMMA HeartbeatPlane ==
    ASSUME QueueTypeOK, NEW n \in Nodes, NEW active, NEW reports, Body(active, reports),
           Heartbeat(n, active, reports, TRUE)
    PROVE  Plane
<1>1. \E S \in SUBSET Instances : \E r \in [S -> Report] : Heartbeat(n, active, r, TRUE)
      BY DEF Body
<1>2. DaemonStep  BY <1>1 DEF DaemonStep, Body
<1> QED  BY <1>2, HeartbeatCalm DEF Plane, Next

LEMMA ClaimPlane ==
    ASSUME QueueTypeOK, NEW t \in Tasks, NEW n \in Nodes, Claim(t, n)
    PROVE  Plane
BY ClaimCalm DEF Plane, Next, DaemonStep

LEMMA NoClaimPlane ==
    ASSUME QueueTypeOK, NEW n \in Nodes,
           ClaimEmpty(n) \/ (\E t \in Tasks : ClaimUnrevealable(t, n)) \/ Refused(~ Online(n))
    PROVE  Plane
<1>1. CASE ClaimEmpty(n)
      BY <1>1, SweptCalm DEF ClaimEmpty, ClaimNothing, Sweep, Plane, Next, DaemonStep
<1>2. CASE \E t \in Tasks : ClaimUnrevealable(t, n)
      BY <1>2, ClaimUnrevealableCalm DEF Plane, Next, DaemonStep
<1>3. CASE Refused(~ Online(n))  BY <1>3, StillPlane DEF Refused
<1> QED  BY <1>1, <1>2, <1>3

LEMMA ProgressPlane ==
    ASSUME QueueTypeOK, NEW t \in Tasks, NEW n \in Nodes,
           HandleProgress(n, t) \/ ProgressRefused(t)
    PROVE  Plane
BY ProgressCalm, StillPlane DEF HandleProgress, ProgressRefused, Refused, Plane, Next, DaemonStep

LEMMA NotTakenPlane ==
    ASSUME QueueTypeOK, NEW t \in Tasks, NEW n \in Nodes, CompleteNotTaken(n, t)
    PROVE  Plane
<1>1. CASE CompleteLate(t, n)
      BY <1>1, SweptCalm DEF CompleteLate, CompleteRefused, Sweep, Plane, Next, DaemonStep
<1>2. CASE Refused(~ Online(n))  BY <1>2, StillPlane DEF Refused
<1> QED  BY <1>1, <1>2 DEF CompleteNotTaken

LEMMA CompleteStep ==
    ASSUME NEW t \in Tasks, NEW n \in Nodes, NEW s \in BOOLEAN, NEW o \in Reported,
           HandleComplete(n, t, s, o)
    PROVE  Next
BY DEF HandleComplete, Next, DaemonStep

-----------------------------------------------------------------------------
(* Steps of the Daemon.                                                      *)

\* An operation takes effect on a task the control plane has as open.
Accounted == \A t \in Tasks : effect'[t] # effect[t] => Open(task[t])

\* A step keeps everything but IInv, which NextKeeps keeps.
Kept == [Next]_vars /\ Forms' /\ OrphanAlone' /\ Custody(job, task, effect, late)' /\ Accounted

ProgressNote(n, t) == [call |-> "progress", node |-> n, task |-> t]

LEMMA NoteTruthful ==
    ASSUME NEW n \in Nodes, NEW t \in Tasks, NEW J, NEW T, NEW E
    PROVE  Truthful(ProgressNote(n, t), J, T, E)
BY DEF Truthful, ProgressNote

LEMMA JobFields ==
    ASSUME Forms, NEW n \in Nodes, NEW s \in Steps
    PROVE  /\ [job[n] EXCEPT !.step = s] \in JobRow
           /\ [job[n] EXCEPT !.step = s].step = s
           /\ [job[n] EXCEPT !.step = s].task = job[n].task
           /\ job[n] \in JobRow
<1>1. job[n] \in JobRow  BY DEF Forms
<1> QED  BY <1>1 DEF JobRow

LEMMA IdleJob == Idle \in JobRow /\ Idle.step = "idle" /\ Idle.task = None
BY DEF Idle, JobRow, Steps

\* A lane moves on, without effect.
LEMMA LaneKept ==
    ASSUME ExecInv, Plane, NEW n \in Nodes, NEW j \in JobRow, Lane(n, j),
           Onward(job[n], j), Duty(n, j, task, effect), UNCHANGED effect,
           \/ late' = late
           \/ \E m : late' = late \cup {m} /\ Truthful(m, job', task', effect')
    PROVE  Custody(job, task, effect, late)' /\ job' \in [Nodes -> JobRow] /\ Accounted
<1>1. job \in [Nodes -> JobRow] /\ Records(task, effect)  BY DEF ExecInv, Forms, Custody
<1>2. Custody(job, task', effect, late)  BY CalmCustody DEF ExecInv, Plane
<1>3. Duty(n, j, task', effect)  BY <1>1, CalmDuty DEF Plane
<1>4. Custody(job', task', effect, late)  BY <1>1, <1>2, <1>3, LaneCustody DEF Lane
<1>5. Custody(job', task', effect, late')  BY <1>4, LateCustody
<1> QED  BY <1>1, <1>5 DEF Lane, Accounted

\* A lane moves on, with effect.
LEMMA EffectKept ==
    ASSUME ExecInv, Plane, NEW n \in Nodes, job[n].step \in Early,
           NEW s \in {"starting", "stopping", "fail", "trail", "report"}, Step(n, s),
           NEW e \in {"begun", "done"}, Effect(n, e), s \in {"trail", "report"} => e = "done",
           late' = late \/ late' = late \cup {ProgressNote(n, job[n].task)}
    PROVE  /\ Custody(job, task, effect, late)' /\ job' \in [Nodes -> JobRow] /\ Accounted
           /\ effect' \in [Tasks -> {"none", "begun", "done"}]
<1> DEFINE t == job[n].task
           j == [job[n] EXCEPT !.step = s]
<1>1. /\ job \in [Nodes -> JobRow] /\ effect \in [Tasks -> {"none", "begun", "done"}] /\ Forms
      BY DEF ExecInv, Forms
<1>2. t \in Tasks /\ Open(task[t])
      BY DEF ExecInv, Custody, Duty, Early
<1>3. j \in JobRow /\ j.step = s /\ j.task = t
      BY <1>1, JobFields DEF Steps, Early
<1>4. Custody(job, task', effect, late)  BY CalmCustody DEF ExecInv, Plane
<1> HIDE DEF j
<1>5. Custody([job EXCEPT ![n] = j], task', [effect EXCEPT ![t] = e], late)
      BY <1>1, <1>3, <1>4, EffectCustody
<1>6. job' = [job EXCEPT ![n] = j] /\ effect' = [effect EXCEPT ![t] = e]
      BY DEF Step, Lane, Effect, j
<1>7. Custody(job', task', effect', late)  BY <1>5, <1>6
<1>8. Custody(job', task', effect', late')
      BY <1>2, <1>7, NoteTruthful, LateCustody
<1>9. Accounted
      BY <1>1, <1>2, <1>6 DEF Accounted
<1> QED  BY <1>1, <1>3, <1>6, <1>8, <1>9

\* The progress report inside an operation.
LEMMA ProgressKept ==
    ASSUME ExecInv, NEW n \in Nodes, job[n].task \in Tasks, NEW onward, ProgressStep(n, onward)
    PROVE  /\ Plane
           /\ Step(n, onward) \/ Step(n, "fail")
           /\ late' = late \/ late' = late \cup {ProgressNote(n, job[n].task)}
<1>0. QueueTypeOK  BY DEF ExecInv, IInv, TypeOK
<1>1. CASE HandleProgress(n, job[n].task) /\ Step(n, onward) /\ Answered
      BY <1>0, <1>1, ProgressPlane DEF Answered
<1>2. CASE ProgressRefused(job[n].task) /\ Step(n, "fail") /\ Answered
      BY <1>0, <1>2, ProgressPlane DEF Answered
<1>3. CASE /\ TimeOut([call |-> "progress", node |-> n, task |-> job[n].task])
           /\ Step(n, "fail")
      BY <1>3, StillPlane DEF TimeOut, ProgressNote
<1> QED  BY <1>1, <1>2, <1>3 DEF ProgressStep

\* What the lane's steps have in common.
LEMMA LaneFacts ==
    ASSUME ExecInv, NEW n \in Nodes, job[n].step # "idle"
    PROVE  /\ QueueTypeOK /\ Forms /\ job[n] \in JobRow /\ job[n].task \in Tasks
           /\ Duty(n, job[n], task, effect)
BY DEF ExecInv, IInv, TypeOK, Forms, Custody, Duty

\* The lane gives up: the failure will be reported.
LEMMA FailDuty ==
    ASSUME ExecInv, NEW n \in Nodes, job[n].step # "idle"
    PROVE  LET j == [job[n] EXCEPT !.step = "fail"]
           IN  j \in JobRow /\ Onward(job[n], j) /\ Duty(n, j, task, effect)
<1> DEFINE j == [job[n] EXCEPT !.step = "fail"]
<1>1. j \in JobRow /\ j.step = "fail" /\ j.task = job[n].task
      BY LaneFacts, JobFields DEF Steps
<1> HIDE DEF j
<1>2. Onward(job[n], j) /\ Duty(n, j, task, effect)
      BY <1>1, LaneFacts DEF Onward, Duty, Early
<1> QED  BY <1>1, <1>2 DEF j

LEMMA FormsLane ==
    ASSUME Forms, job' \in [Nodes -> JobRow],
           server' \in [Instances -> Managed \cup {"down", "archived"}],
           orphan' \in [Instances -> BOOLEAN],
           effect' \in [Tasks -> {"none", "begun", "done"}], UNCHANGED <<loop, beat>>
    PROVE  Forms'
BY DEF Forms

\* A lane's step that only moves its job on.
LEMMA StepKept ==
    ASSUME ExecInv, Plane, NEW n \in Nodes, NEW j \in JobRow, Lane(n, j),
           Onward(job[n], j), Duty(n, j, task, effect),
           \/ late' = late
           \/ \E m : late' = late \cup {m} /\ Truthful(m, job', task', effect'),
           UNCHANGED <<loop, beat, server, orphan, effect>>
    PROVE  Kept
<1>1. Custody(job, task, effect, late)' /\ job' \in [Nodes -> JobRow] /\ Accounted
      BY LaneKept
<1>2. Forms'  BY <1>1, FormsLane DEF ExecInv, Forms
<1>3. OrphanAlone'  BY DEF ExecInv, OrphanAlone
<1> QED  BY <1>1, <1>2, <1>3 DEF Kept, Plane

LEMMA AcceptKept == ASSUME ExecInv, NEW n \in Nodes, Accept(n) PROVE Kept
<1>0. job[n].step = "accepted" /\ ProgressStep(n, "work")
        /\ UNCHANGED <<loop, beat, server, orphan, effect>>
      BY DEF Accept, Doing
<1>1. /\ QueueTypeOK /\ Forms /\ job[n].task \in Tasks /\ Duty(n, job[n], task, effect)
      BY <1>0, LaneFacts
<1>2. /\ Plane /\ (Step(n, "work") \/ Step(n, "fail"))
      /\ late' = late \/ late' = late \cup {ProgressNote(n, job[n].task)}
      BY <1>0, <1>1, ProgressKept
<1>3. late' = late \/ \E m : late' = late \cup {m} /\ Truthful(m, job', task', effect')
      BY <1>1, <1>2, NoteTruthful
<1>4. CASE Step(n, "work")
  <2> DEFINE j == [job[n] EXCEPT !.step = "work"]
  <2>1. j \in JobRow /\ j.step = "work" /\ j.task = job[n].task
        BY <1>1, JobFields DEF Steps, Early
  <2>2. Lane(n, j)  BY <1>4 DEF Step
  <2> HIDE DEF j
  <2>3. Onward(job[n], j) /\ Duty(n, j, task, effect)
        BY <1>0, <1>1, <2>1 DEF Onward, Duty, Early
  <2> QED  BY <1>0, <1>2, <1>3, <2>1, <2>2, <2>3, StepKept
<1>5. CASE Step(n, "fail")
      BY <1>0, <1>2, <1>3, <1>5, FailDuty, StepKept DEF Step
<1> QED  BY <1>2, <1>4, <1>5

LEMMA WorkFailsKept == ASSUME ExecInv, NEW n \in Nodes, WorkFails(n) PROVE Kept
<1>1. /\ job[n].step # "idle" /\ Step(n, "fail") /\ UNCHANGED vars
      /\ UNCHANGED <<loop, beat, server, orphan, effect, late>>
      BY DEF WorkFails, LaneOnly, Answered
<1> QED  BY <1>1, FailDuty, StillPlane, StepKept DEF Step

LEMMA StartFailsKept == ASSUME ExecInv, NEW n \in Nodes, StartFails(n) PROVE Kept
<1>1. /\ job[n].step = "starting" /\ Step(n, "fail") /\ UNCHANGED vars
      /\ UNCHANGED <<loop, beat, orphan, effect, late>>
      /\ server' = [server EXCEPT ![Target(n)] = "down"]
      BY DEF StartFails, Doing, LaneOnly, Answered
<1>2. Custody(job, task, effect, late)' /\ job' \in [Nodes -> JobRow] /\ Accounted
      BY <1>1, FailDuty, StillPlane, LaneKept DEF Step
<1>3. server' \in [Instances -> Managed \cup {"down", "archived"}]
      BY <1>1 DEF ExecInv, Forms
<1>4. Forms'  BY <1>1, <1>2, <1>3, FormsLane DEF ExecInv, Forms
<1>5. OrphanAlone'
      BY <1>1, NativeAssumption DEF ExecInv, OrphanAlone, Forms, Managed
<1> QED  BY <1>1, <1>2, <1>4, <1>5 DEF Kept

\* A lane's step that takes effect, as far as servers and orphans allow.
LEMMA EffectStepKept ==
    ASSUME ExecInv, Plane, NEW n \in Nodes, job[n].step \in Early,
           NEW s \in {"starting", "stopping", "fail", "trail", "report"}, Step(n, s),
           NEW e \in {"begun", "done"}, Effect(n, e), s \in {"trail", "report"} => e = "done",
           late' = late \/ late' = late \cup {ProgressNote(n, job[n].task)},
           server' \in [Instances -> Managed \cup {"down", "archived"}],
           OrphanAlone', UNCHANGED <<loop, beat, orphan>>
    PROVE  Kept
<1>1. /\ Custody(job, task, effect, late)' /\ job' \in [Nodes -> JobRow] /\ Accounted
      /\ effect' \in [Tasks -> {"none", "begun", "done"}]
      BY EffectKept
<1>2. Forms'  BY <1>1, FormsLane DEF ExecInv, Forms
<1> QED  BY <1>1, <1>2 DEF Kept, Plane

\* A native server is never started beside an orphan: its marker is found.
LEMMA SpawnKept == ASSUME ExecInv, NEW n \in Nodes, Spawn(n) PROVE Kept
<1>1. /\ job[n].step \in {"work", "again"} /\ Starts(n) /\ Possible(n)
      /\ Step(n, "starting") /\ Effect(n, "begun") /\ UNCHANGED vars
      /\ server' = [server EXCEPT ![Target(n)] = "starting"]
      /\ UNCHANGED <<loop, beat, orphan, late>>
      BY DEF Spawn, Starts, Doing, LaneOnly, Answered
<1>2. Target(n) \in NativeInstances => ~ orphan[Target(n)]
      BY <1>1 DEF Possible, CanStart
<1>3. server' \in [Instances -> Managed \cup {"down", "archived"}]
      BY <1>1 DEF ExecInv, Forms, Managed
<1>4. OrphanAlone'
      BY <1>1, <1>2, NativeAssumption DEF ExecInv, OrphanAlone, Forms
<1>5. job[n].step \in Early  BY <1>1 DEF Early
<1> QED  BY <1>1, <1>3, <1>4, <1>5, StillPlane, EffectStepKept

LEMMA ReadyKept == ASSUME ExecInv, NEW n \in Nodes, Ready(n) PROVE Kept
<1>1. /\ job[n].step = "starting" /\ server[Target(n)] = "starting"
      /\ Step(n, "trail") /\ Effect(n, "done") /\ UNCHANGED vars
      /\ server' = [server EXCEPT ![Target(n)] = "up"]
      /\ UNCHANGED <<loop, beat, orphan, late>>
      BY DEF Ready, Doing, LaneOnly, Answered
<1>2. server' \in [Instances -> Managed \cup {"down", "archived"}]
      BY <1>1 DEF ExecInv, Forms, Managed
<1>3. OrphanAlone'
      BY <1>1, NativeAssumption DEF ExecInv, OrphanAlone, Forms, Managed
<1>4. job[n].step \in Early  BY <1>1 DEF Early
<1> QED  BY <1>1, <1>2, <1>3, <1>4, StillPlane, EffectStepKept

LEMMA SendStopKept == ASSUME ExecInv, NEW n \in Nodes, SendStop(n) PROVE Kept
<1>1. /\ job[n].step = "work" /\ Kind(n) \in {"stop", "restart"} /\ Possible(n)
      /\ Effect(n, "begun") /\ ProgressStep(n, "stopping")
      /\ server' = [server EXCEPT ![Target(n)] = "stopping"]
      /\ UNCHANGED <<loop, beat, orphan>>
      BY DEF SendStop, Doing
<1>2. server[Target(n)] \in Managed  BY <1>1 DEF Possible, Starts, Doing
<1>3. /\ Plane /\ (Step(n, "stopping") \/ Step(n, "fail"))
      /\ late' = late \/ late' = late \cup {ProgressNote(n, job[n].task)}
      BY <1>1, LaneFacts, ProgressKept
<1>4. server' \in [Instances -> Managed \cup {"down", "archived"}]
      BY <1>1 DEF ExecInv, Forms, Managed
<1>5. OrphanAlone'
      BY <1>1, <1>2, NativeAssumption DEF ExecInv, OrphanAlone, Forms, Managed
<1>6. job[n].step \in Early  BY <1>1 DEF Early
<1> QED  BY <1>1, <1>3, <1>4, <1>5, <1>6, EffectStepKept

LEMMA StoppedKept == ASSUME ExecInv, NEW n \in Nodes, Stopped(n) PROVE Kept
<1>1. /\ job[n].step = "stopping" /\ UNCHANGED vars
      /\ UNCHANGED <<loop, beat, server, orphan, late>>
      BY DEF Stopped, Doing, LaneOnly, Answered
<1>2. server' \in [Instances -> Managed \cup {"down", "archived"}] /\ OrphanAlone'
      BY <1>1 DEF ExecInv, Forms, OrphanAlone
<1>3. job[n].step \in Early  BY <1>1 DEF Early
<1>4. CASE Kind(n) = "restart"
  <2> DEFINE j == [job[n] EXCEPT !.step = "again"]
  <2>1. Forms /\ Duty(n, job[n], task, effect)  BY <1>1, LaneFacts
  <2>2. j \in JobRow /\ j.step = "again" /\ j.task = job[n].task
        BY <2>1, JobFields DEF Steps, Early
  <2>3. Lane(n, j) /\ UNCHANGED effect  BY <1>4 DEF Stopped, Step
  <2> HIDE DEF j
  <2>4. Onward(job[n], j) /\ Duty(n, j, task, effect)
        BY <1>1, <2>1, <2>2 DEF Onward, Duty, Early
  <2> QED  BY <1>1, <2>2, <2>3, <2>4, StillPlane, StepKept
<1>5. CASE Kind(n) # "restart"
  <2>1. Step(n, "trail") /\ Effect(n, "done")  BY <1>5 DEF Stopped
  <2> QED  BY <1>1, <1>2, <1>3, <2>1, StillPlane, EffectStepKept
<1> QED  BY <1>4, <1>5

LEMMA WritesKept ==
    ASSUME ExecInv, NEW n \in Nodes, WriteProperties(n) \/ Backup(n) \/ Console(n)
    PROVE  Kept
<1>1. /\ job[n].step = "work" /\ Effect(n, "done") /\ UNCHANGED vars
      /\ UNCHANGED <<loop, beat, server, orphan, late>>
      /\ Step(n, "trail") \/ Step(n, "report")
      BY DEF WriteProperties, Backup, Console, Doing, LaneOnly, Answered
<1>2. server' \in [Instances -> Managed \cup {"down", "archived"}] /\ OrphanAlone'
      BY <1>1 DEF ExecInv, Forms, OrphanAlone
<1>3. job[n].step \in Early  BY <1>1 DEF Early
<1> QED  BY <1>1, <1>2, <1>3, StillPlane, EffectStepKept

\* An archive takes a directory away only if no process is in it.
LEMMA ArchiveKept == ASSUME ExecInv, NEW n \in Nodes, Archive(n) PROVE Kept
<1> DEFINE i == Target(n)
<1>1. job[n].step = "work" /\ Kind(n) = "delete" /\ Possible(n) /\ UNCHANGED <<loop, beat, orphan>>
      BY DEF Archive, Doing
<1>2. server[i] = "archived" \/ (server[i] = "down" /\ ~ orphan[i])
      BY <1>1 DEF Possible, Starts, Doing
<1>3. /\ QueueTypeOK /\ Forms /\ job[n].task \in Tasks /\ Duty(n, job[n], task, effect)
      BY <1>1, LaneFacts
<1>4. /\ Plane /\ (Step(n, "report") \/ Step(n, "fail"))
      /\ late' = late \/ late' = late \cup {ProgressNote(n, job[n].task)}
  <2>1. CASE server[i] = "archived"
        BY <2>1, StillPlane DEF Archive, Answered
  <2>2. CASE server[i] # "archived"
        BY <1>3, <2>2, ProgressKept DEF Archive
  <2> QED  BY <2>1, <2>2
<1>5. /\ Step(n, "report") => job'[n].step = "report"
      /\ Step(n, "fail") => job'[n].step = "fail"
  <2> SUFFICES ASSUME NEW x \in {"report", "fail"}, Step(n, x) PROVE job'[n].step = x
      OBVIOUS
  <2>1. job'[n] = [job[n] EXCEPT !.step = x]  BY <1>3 DEF Step, Lane, Forms
  <2> QED  BY <1>3, <2>1, JobFields DEF Steps
<1>6. CASE Step(n, "report")
  <2>1. server' = [server EXCEPT ![i] = "archived"] /\ Effect(n, "done")
        BY <1>5, <1>6 DEF Archive
  <2>2. server' \in [Instances -> Managed \cup {"down", "archived"}]
        BY <1>3, <2>1 DEF Forms
  <2>3. OrphanAlone'
        BY <1>1, <1>2, <1>3, <2>1, NativeAssumption DEF ExecInv, OrphanAlone, Forms
  <2>4. job[n].step \in Early  BY <1>1 DEF Early
  <2> QED  BY <1>1, <1>4, <1>6, <2>1, <2>2, <2>3, <2>4, EffectStepKept
<1>7. CASE Step(n, "fail")
  <2>1. UNCHANGED <<server, effect>>  BY <1>5, <1>7 DEF Archive
  <2>2. late' = late \/ \E m : late' = late \cup {m} /\ Truthful(m, job', task', effect')
        BY <1>3, <1>4, NoteTruthful
  <2> QED  BY <1>1, <1>4, <1>7, <2>1, <2>2, FailDuty, StepKept DEF Step
<1> QED  BY <1>4, <1>6, <1>7

LEMMA TrailKept == ASSUME ExecInv, NEW n \in Nodes, Trail(n) PROVE Kept
<1>1. /\ job[n].step = "trail" /\ UNCHANGED <<loop, beat, server, orphan, effect>>
      BY DEF Trail, Doing
<1>2. /\ QueueTypeOK /\ Forms /\ job[n].task \in Tasks /\ Duty(n, job[n], task, effect)
      BY <1>1, LaneFacts
<1>3. /\ UNCHANGED vars \/ HandleProgress(n, job[n].task) \/ ProgressRefused(job[n].task)
      /\ late' = late /\ (Step(n, "report") \/ Step(n, "fail"))
      BY DEF Trail, Answered
<1>4. Plane  BY <1>2, <1>3, ProgressPlane, StillPlane
<1>5. CASE Step(n, "report")
  <2> DEFINE j == [job[n] EXCEPT !.step = "report"]
  <2>1. j \in JobRow /\ j.step = "report" /\ j.task = job[n].task
        BY <1>2, JobFields DEF Steps
  <2>2. Lane(n, j)  BY <1>5 DEF Step
  <2> HIDE DEF j
  <2>3. Onward(job[n], j) /\ Duty(n, j, task, effect)
        BY <1>1, <1>2, <2>1 DEF Onward, Duty, Early
  <2> QED  BY <1>1, <1>3, <1>4, <2>1, <2>2, <2>3, StepKept
<1>6. CASE Step(n, "fail")
      BY <1>1, <1>3, <1>4, <1>6, FailDuty, StepKept DEF Step
<1> QED  BY <1>3, <1>5, <1>6

-----------------------------------------------------------------------------
(* Completions.                                                              *)

LEMMA CompletionTaken ==
    ASSUME ExecInv, NEW t \in Tasks, NEW n \in Nodes, NEW s \in BOOLEAN, NEW o \in Reported,
           HandleComplete(n, t, s, o), s => effect[t] = "done",
           \A x \in Nodes : job[x].task = t => job[x].step \notin Early,
           NEW L, \A m \in L : Truthful(m, job, task, effect)
    PROVE  Next /\ Custody(job, task', effect, L)
<1>0. QueueTypeOK /\ Complete(t, n, s, TRUE, o)
      BY DEF ExecInv, IInv, TypeOK, HandleComplete
<1>1. /\ \A u \in Tasks \ {t} : Calm(task[u], task'[u])
      /\ Lawful(task[t], task'[t])
      /\ task'[t].status = "succeeded" => s
      /\ task'[t].status \in Terminal /\ task'[t].outcome # "not-executed"
      BY <1>0, CompleteLawful
<1>2. task[t].status \notin Unclaimed
      BY <1>0 DEF Complete, CompleteTask, Completable, SweptTasks, QueueTypeOK, TaskRow, Unclaimed
<1>3. Custody(job, task, effect, L)  BY DEF ExecInv, Custody
<1>4. Custody(job, task', effect, L)  BY <1>1, <1>2, <1>3, CompleteCustody
<1> QED  BY <1>4, CompleteStep

\* The task of a lane at its end is in no other lane.
LEMMA EndAlone ==
    ASSUME ExecInv, NEW n \in Nodes, job[n].step \in {"report", "fail"}
    PROVE  \A x \in Nodes : job[x].task = job[n].task => job[x].step \notin Early
<1> SUFFICES ASSUME NEW x \in Nodes, job[x].task = job[n].task, job[x].step \in Early
             PROVE  FALSE
    OBVIOUS
<1>1. n = x  BY OwnTask DEF ExecInv, Early
<1> QED  BY <1>1 DEF Early

LEMMA IdleDuty ==
    ASSUME NEW n, NEW T, NEW E, NEW j PROVE Duty(n, Idle, T, E) /\ Onward(j, Idle)
BY IdleJob DEF Duty, Onward, Early

\* The completion is handled and the lane is free.
LEMMA CompletedKept ==
    ASSUME ExecInv, NEW n \in Nodes, job[n].step \in {"report", "fail"}, NEW s \in BOOLEAN,
           NEW o \in Reported, HandleComplete(n, job[n].task, s, o), Lane(n, Idle), Answered,
           s => effect[job[n].task] = "done",
           UNCHANGED <<loop, beat, server, orphan, effect>>
    PROVE  Kept
<1>1. job[n].task \in Tasks /\ job \in [Nodes -> JobRow]
      BY LaneFacts DEF Forms
<1>2. \A m \in late : Truthful(m, job, task, effect)  BY DEF ExecInv, Custody
<1>3. Next /\ Custody(job, task', effect, late)
      BY <1>1, <1>2, EndAlone, CompletionTaken
<1>4. Custody(job', task', effect, late)
      BY <1>1, <1>3, IdleDuty, LaneCustody DEF Lane
<1>5. job' \in [Nodes -> JobRow]  BY <1>1, IdleJob DEF Lane
<1>6. Forms' /\ OrphanAlone'
      BY <1>5, FormsLane DEF ExecInv, Forms, OrphanAlone
<1> QED  BY <1>3, <1>4, <1>6 DEF Kept, Answered, Accounted

CompletionNote(n, t, s, o) ==
    [call |-> "complete", node |-> n, task |-> t, succeeded |-> s, outcome |-> o]

\* The completion times out: what it says stays true.
LEMMA TimedOutKept ==
    ASSUME ExecInv, NEW n \in Nodes, job[n].step \in {"report", "fail"}, NEW s \in BOOLEAN,
           NEW o \in Reported, TimeOut(CompletionNote(n, job[n].task, s, o)),
           NEW j \in JobRow, Lane(n, j), j.step \in {"idle", "fail"}, Duty(n, j, task, effect),
           s => effect[job[n].task] = "done",
           UNCHANGED <<loop, beat, server, orphan, effect>>
    PROVE  Kept
<1> DEFINE m == CompletionNote(n, job[n].task, s, o)
<1>1. /\ job[n].task \in Tasks /\ job \in [Nodes -> JobRow]
      /\ task[job[n].task].status \notin Unclaimed
      BY LaneFacts DEF Duty, Forms
<1>2. job' = [job EXCEPT ![n] = j] /\ UNCHANGED vars /\ late' = late \cup {m}
      BY DEF Lane, TimeOut
<1>3. ASSUME NEW x \in Nodes, job'[x].task = job[n].task PROVE job'[x].step \notin Early
  <2>1. CASE x = n  BY <1>1, <1>2, <2>1 DEF Early
  <2>2. CASE x # n  BY <1>1, <1>2, <1>3, <2>2, EndAlone
  <2> QED  BY <2>1, <2>2
<1>4. /\ m.call = "complete" /\ m.node = n /\ m.task = job[n].task /\ m.succeeded = s
      /\ m.outcome = o
      BY DEF CompletionNote
<1> HIDE DEF m
<1>5. Truthful(m, job', task', effect')
      BY <1>1, <1>2, <1>3, <1>4 DEF Truthful, vars
<1>6. Onward(job[n], j)  BY DEF Onward, Early
<1> QED  BY <1>2, <1>5, <1>6, StillPlane, StepKept

LEMMA ReportDoneKept == ASSUME ExecInv, NEW n \in Nodes, ReportDone(n) PROVE Kept
<1> DEFINE t == job[n].task
           j == [job[n] EXCEPT !.step = "fail", !.done = TRUE]
<1>1. job[n].step = "report" /\ UNCHANGED <<loop, beat, server, orphan, effect>>
      BY DEF ReportDone, Doing
<1>2. /\ QueueTypeOK /\ Forms /\ job[n] \in JobRow /\ t \in Tasks
      /\ Duty(n, job[n], task, effect) /\ effect[t] = "done"
      BY <1>1, LaneFacts DEF Duty
<1>3. j \in JobRow /\ j.step = "fail" /\ j.task = t
      BY <1>2 DEF JobRow, Steps
<1>4. \/ HandleComplete(n, t, TRUE, "none") /\ Lane(n, Idle) /\ Answered
      \/ CompleteNotTaken(n, t) /\ Lane(n, j) /\ Answered
      \/ TimeOut(CompletionNote(n, t, TRUE, "none")) /\ Lane(n, j)
      BY DEF ReportDone, CompletionNote
<1> HIDE DEF j
<1>5. Duty(n, j, task, effect) /\ Onward(job[n], j)
      BY <1>1, <1>2, <1>3 DEF Duty, Onward, Early
<1>6. "none" \in Reported  BY DEF Reported
<1>7. CASE HandleComplete(n, t, TRUE, "none") /\ Lane(n, Idle) /\ Answered
      BY <1>1, <1>2, <1>6, <1>7, CompletedKept
<1>8. CASE CompleteNotTaken(n, t) /\ Lane(n, j) /\ Answered
      BY <1>1, <1>2, <1>3, <1>5, <1>8, NotTakenPlane, StepKept DEF Answered
<1>9. CASE TimeOut(CompletionNote(n, t, TRUE, "none")) /\ Lane(n, j)
      BY <1>1, <1>2, <1>3, <1>5, <1>6, <1>9, TimedOutKept
<1> QED  BY <1>4, <1>7, <1>8, <1>9

LEMMA ReportFailedKept == ASSUME ExecInv, NEW n \in Nodes, ReportFailed(n) PROVE Kept
<1> DEFINE t == job[n].task
           o == FailureOutcome(job[n])
<1>1. /\ job[n].step = "fail" /\ Lane(n, Idle)
      /\ UNCHANGED <<loop, beat, server, orphan, effect>>
      BY DEF ReportFailed, Doing
<1>2. /\ QueueTypeOK /\ t \in Tasks  BY <1>1, LaneFacts
<1>3. o \in Reported  BY DEF FailureOutcome, Reported
<1>4. \/ HandleComplete(n, t, FALSE, o) /\ Answered
      \/ CompleteNotTaken(n, t) /\ Answered
      \/ TimeOut(CompletionNote(n, t, FALSE, o))
      BY DEF ReportFailed, CompletionNote
<1> HIDE DEF o
<1>5. Duty(n, Idle, task, effect) /\ Onward(job[n], Idle) /\ Idle \in JobRow /\ Idle.step = "idle"
      BY IdleDuty, IdleJob
<1>7. CASE HandleComplete(n, t, FALSE, o) /\ Answered
      BY <1>1, <1>3, <1>7, CompletedKept
<1>8. CASE CompleteNotTaken(n, t) /\ Answered
      BY <1>1, <1>2, <1>5, <1>8, NotTakenPlane, StepKept DEF Answered
<1>9. CASE TimeOut(CompletionNote(n, t, FALSE, o))
      BY <1>1, <1>3, <1>5, <1>9, TimedOutKept
<1> QED  BY <1>4, <1>7, <1>8, <1>9

LEMMA LaneStepKept == ASSUME ExecInv, NEW n \in Nodes, LaneStep(n) PROVE Kept
BY AcceptKept, WorkFailsKept, SpawnKept, ReadyKept, StartFailsKept, SendStopKept, StoppedKept,
   WritesKept, ArchiveKept, TrailKept, ReportDoneKept, ReportFailedKept DEF LaneStep

-----------------------------------------------------------------------------
(* The loop.                                                                 *)

\* What a node scans is a report.
LEMMA ScannedReport ==
    ASSUME Forms, NEW i \in Instances PROVE Scanned(i) \in Report
<1>1. server[i] \in Managed \cup {"down", "archived"}  BY DEF Forms
<1>2. CASE server[i] = "starting"  BY <1>2 DEF Scanned, Report
<1>3. CASE server[i] \in {"up", "stopping"}  BY <1>3 DEF Scanned, Report
<1>4. CASE server[i] = "down" /\ orphan[i]  BY <1>4 DEF Scanned, Report
<1>5. CASE server[i] \in {"down", "archived"} /\ ~ (server[i] = "down" /\ orphan[i])
  <2>1. Scanned(i) = [state |-> "stopped",
                      sandbox |-> IF i \in NativeInstances THEN "unsupported"
                                  ELSE IF prepared[i] THEN "prepared" ELSE "unprepared"]
        BY <1>5 DEF Scanned
  <2> QED  BY <2>1 DEF Report
<1> QED  BY <1>1, <1>2, <1>3, <1>4, <1>5 DEF Managed

LEMMA SendBeatKept == ASSUME ExecInv, NEW n \in Nodes, SendBeat(n) PROVE Kept
<1> DEFINE here == {i \in Instances : instance[i].node = n /\ server[i] # "archived"}
           active == {job[n].task} \ {None}
           reports == [i \in here |-> Scanned(i)]
<1>1. /\ loop' = [loop EXCEPT ![n] = "beat"]
      /\ beat' = [beat EXCEPT ![n] = [active |-> active, reports |-> reports]]
      /\ UNCHANGED <<vars, job, server, orphan, late, effect>>
      BY DEF SendBeat, At
<1>2. Forms /\ job[n] \in JobRow  BY DEF ExecInv, Forms
<1>3. Body(active, reports)
  <2>1. active \in SUBSET Tasks  BY <1>2 DEF JobRow
  <2>2. DOMAIN reports = here /\ \A i \in here : reports[i] \in Report
        BY <1>2, ScannedReport
  <2> HIDE DEF reports
  <2>3. reports = [i \in here |-> reports[i]]  BY DEF reports
  <2> QED  BY <2>1, <2>2, <2>3 DEF Body
<1> HIDE DEF active, reports
<1>4. Forms'
  <2>1. ASSUME NEW x \in Nodes, loop'[x] = "beat" PROVE Body(beat'[x].active, beat'[x].reports)
    <3>1. CASE x = n  BY <1>1, <1>2, <1>3, <3>1 DEF Forms
    <3>2. CASE x # n  BY <1>1, <1>2, <2>1, <3>2 DEF Forms
    <3> QED  BY <3>1, <3>2
  <2> QED  BY <1>1, <1>2, <2>1 DEF Forms
<1>5. Custody(job, task, effect, late)' /\ OrphanAlone' /\ Accounted
      BY <1>1 DEF ExecInv, OrphanAlone, Accounted, vars
<1> QED  BY <1>1, <1>4, <1>5 DEF Kept

\* Steps after which node n has no heartbeat out.
LEMMA FormsNoBeat ==
    ASSUME Forms, NEW n \in Nodes, NEW p \in {"off", "wait", "claim", "closing"}, At(n, p),
           beat' = beat \/ beat' = [beat EXCEPT ![n] = NoBeat],
           job' \in [Nodes -> JobRow],
           server' \in [Instances -> Managed \cup {"down", "archived"}],
           orphan' \in [Instances -> BOOLEAN], UNCHANGED effect
    PROVE  Forms'
<1>1. loop'[n] = p /\ \A x \in Nodes \ {n} : loop'[x] = loop[x] /\ beat'[x] = beat[x]
      BY DEF At, Forms
<1>2. ASSUME NEW x \in Nodes, loop'[x] = "beat" PROVE Body(beat'[x].active, beat'[x].reports)
      BY <1>1, <1>2 DEF Forms
<1> QED  BY <1>2 DEF Forms, At

LEMMA BeatAnsweredKept == ASSUME ExecInv, NEW n \in Nodes, BeatAnswered(n) PROVE Kept
<1> DEFINE j == [job[n] EXCEPT !.aborted = @ \/ job[n].task \in CancellationRequests(n)]
<1>1. /\ loop[n] = "beat" /\ Heartbeat(n, beat[n].active, beat[n].reports, TRUE)
      /\ At(n, "claim") /\ beat' = [beat EXCEPT ![n] = NoBeat] /\ Lane(n, j)
      /\ UNCHANGED <<late, server, orphan, effect>>
      BY DEF BeatAnswered, Answered
<1>2. Forms /\ QueueTypeOK /\ job[n] \in JobRow /\ Duty(n, job[n], task, effect)
      BY DEF ExecInv, IInv, TypeOK, Forms, Custody
<1>3. Plane  BY <1>1, <1>2, HeartbeatPlane DEF Forms
<1>4. j \in JobRow /\ j.step = job[n].step /\ j.task = job[n].task
      BY <1>2 DEF JobRow
<1> HIDE DEF j
<1>5. Duty(n, j, task, effect) /\ Onward(job[n], j)
      BY <1>2, <1>4 DEF Duty, Onward
<1>6. Custody(job, task, effect, late)' /\ job' \in [Nodes -> JobRow] /\ Accounted
      BY <1>1, <1>3, <1>4, <1>5, LaneKept
<1>7. Forms'  BY <1>1, <1>2, <1>6, FormsNoBeat DEF Forms
<1>8. OrphanAlone'  BY <1>1 DEF ExecInv, OrphanAlone
<1> QED  BY <1>3, <1>6, <1>7, <1>8 DEF Kept, Plane

\* Steps of the loop that leave lanes and effects alone.
LEMMA LoopKept ==
    ASSUME ExecInv, Plane, NEW n \in Nodes, NEW p \in {"off", "wait", "claim", "closing"}, At(n, p),
           beat' = beat \/ beat' = [beat EXCEPT ![n] = NoBeat],
           \/ late' = late
           \/ \E m : late' = late \cup {m} /\ Truthful(m, job, task', effect),
           UNCHANGED <<job, server, orphan, effect>>
    PROVE  Kept
<1>1. Custody(job, task', effect, late)  BY CalmCustody DEF ExecInv, Plane
<1>2. Custody(job, task', effect, late')  BY <1>1, LateCustody
<1>3. Forms'  BY FormsNoBeat DEF ExecInv, Forms
<1> QED  BY <1>2, <1>3 DEF Kept, Plane, ExecInv, OrphanAlone, Accounted

BeatNote(n) ==
    [call |-> "beat", node |-> n, active |-> beat[n].active, reports |-> beat[n].reports]

LEMMA BeatNoteTruthful ==
    ASSUME Forms, NEW n \in Nodes, loop[n] = "beat", NEW J, NEW T, NEW E
    PROVE  Truthful(BeatNote(n), J, T, E)
BY DEF Truthful, BeatNote, Forms

LEMMA ClaimNoteTruthful ==
    ASSUME NEW n \in Nodes, NEW J, NEW T, NEW E
    PROVE  Truthful([call |-> "claim", node |-> n], J, T, E)
BY DEF Truthful

LEMMA BeatTimesOutKept == ASSUME ExecInv, NEW n \in Nodes, BeatTimesOut(n) PROVE Kept
<1>1. /\ loop[n] = "beat" /\ UNCHANGED vars /\ late' = late \cup {BeatNote(n)}
      /\ At(n, "wait") /\ beat' = [beat EXCEPT ![n] = NoBeat]
      /\ UNCHANGED <<job, server, orphan, effect>>
      BY DEF BeatTimesOut, TimeOut, BeatNote
<1>2. Truthful(BeatNote(n), job, task', effect)  BY <1>1, BeatNoteTruthful DEF ExecInv
<1> QED  BY <1>1, <1>2, StillPlane, LoopKept

LEMMA ClaimTimesOutKept == ASSUME ExecInv, NEW n \in Nodes, ClaimTimesOut(n) PROVE Kept
<1>1. /\ UNCHANGED vars /\ late' = late \cup {[call |-> "claim", node |-> n]}
      /\ At(n, "wait") /\ UNCHANGED <<beat, job, server, orphan, effect>>
      BY DEF ClaimTimesOut, TimeOut
<1>2. Truthful([call |-> "claim", node |-> n], job, task', effect)  BY ClaimNoteTruthful
<1> QED  BY <1>1, <1>2, StillPlane, LoopKept

LEMMA LaneBusyKept == ASSUME ExecInv, NEW n \in Nodes, LaneBusy(n) PROVE Kept
<1>1. /\ UNCHANGED vars /\ late' = late /\ At(n, "wait")
      /\ UNCHANGED <<beat, job, server, orphan, effect>>
      BY DEF LaneBusy
<1> QED  BY <1>1, StillPlane, LoopKept

\* A claimed task was never touched: it was queued until now.
LEMMA ClaimedKept ==
    ASSUME ExecInv, NEW n \in Nodes, NEW t \in Tasks, Claim(t, n), job[n] = Idle,
           Lane(n, [Idle EXCEPT !.task = t, !.step = "accepted"]), At(n, "wait"),
           UNCHANGED <<beat, late, server, orphan, effect>>
    PROVE  Kept
<1> DEFINE j == [Idle EXCEPT !.task = t, !.step = "accepted"]
<1>1. /\ QueueTypeOK /\ Forms /\ Custody(job, task, effect, late) /\ Records(task, effect)
      BY DEF ExecInv, IInv, TypeOK, Custody
<1>2. /\ \A u \in Tasks : Calm(task[u], task'[u])
      /\ task[t].status = "queued" /\ task'[t].status = "running"
      /\ task'[t].node = n /\ task'[t].outcome = task[t].outcome
      BY <1>1, ClaimCalm
<1>3. effect[t] = "none" /\ task'[t].outcome = "none"
      BY <1>1, <1>2 DEF Records, Unclaimed
<1>4. j \in JobRow /\ j.step = "accepted" /\ j.task = t
      BY DEF Idle, JobRow, Steps, Early
<1>5. Custody(job, task', effect, late)  BY <1>1, <1>2, CalmCustody
<1> HIDE DEF j
<1>6. job' = [job EXCEPT ![n] = j] /\ job \in [Nodes -> JobRow]
      BY <1>1 DEF Lane, Forms, j
<1>7. job'[n] = j /\ \A x \in Nodes \ {n} : job'[x] = job[x]  BY <1>6
<1>8. \A x \in Nodes : Duty(x, job'[x], task', effect)
  <2>1. Duty(n, j, task', effect)
        BY <1>2, <1>3, <1>4 DEF Duty, Unclaimed, Open
  <2> QED  BY <1>5, <1>7, <2>1 DEF Custody
<1>9. \A m \in late : Truthful(m, job', task', effect)
  <2> SUFFICES ASSUME NEW m \in late PROVE Truthful(m, job', task', effect)  OBVIOUS
  <2>1. Truthful(m, job, task, effect) /\ Truthful(m, job, task', effect)
        BY <1>1, <1>5 DEF Custody
  <2>2. m.call = "complete" => m.task # t
        BY <1>2, <2>1 DEF Truthful, Unclaimed
  <2> QED  BY <1>4, <1>7, <2>1, <2>2 DEF Truthful
<1>10. Custody(job', task', effect, late)  BY <1>5, <1>8, <1>9 DEF Custody
<1>11. job' \in [Nodes -> JobRow]  BY <1>4, <1>6
<1>12. Forms'  BY <1>1, <1>11, FormsNoBeat DEF Forms
<1>13. [Next]_vars  BY <1>1, ClaimPlane DEF Plane
<1> QED  BY <1>10, <1>12, <1>13 DEF Kept, ExecInv, OrphanAlone, Accounted

LEMMA ClaimAnsweredKept == ASSUME ExecInv, NEW n \in Nodes, ClaimAnswered(n) PROVE Kept
<1>1. /\ job[n] = Idle /\ At(n, "wait") /\ UNCHANGED <<beat, late, server, orphan, effect>>
      BY DEF ClaimAnswered, Answered
<1>2. \/ \E t \in Tasks : Claim(t, n) /\ Lane(n, [Idle EXCEPT !.task = t, !.step = "accepted"])
      \/ /\ ClaimEmpty(n) \/ (\E t \in Tasks : ClaimUnrevealable(t, n)) \/ Refused(~ Online(n))
         /\ UNCHANGED job
      BY DEF ClaimAnswered
<1>3. CASE \E t \in Tasks :
              Claim(t, n) /\ Lane(n, [Idle EXCEPT !.task = t, !.step = "accepted"])
      BY <1>1, <1>3, ClaimedKept
<1>4. CASE /\ ClaimEmpty(n) \/ (\E t \in Tasks : ClaimUnrevealable(t, n)) \/ Refused(~ Online(n))
           /\ UNCHANGED job
  <2>1. QueueTypeOK  BY DEF ExecInv, IInv, TypeOK
  <2>2. Plane  BY <1>4, <2>1, NoClaimPlane
  <2> QED  BY <1>1, <1>4, <2>2, LoopKept
<1> QED  BY <1>2, <1>3, <1>4

LEMMA LoopStepKept == ASSUME ExecInv, NEW n \in Nodes, LoopStep(n) PROVE Kept
BY SendBeatKept, BeatAnsweredKept, BeatTimesOutKept, ClaimAnsweredKept, LaneBusyKept,
   ClaimTimesOutKept DEF LoopStep

-----------------------------------------------------------------------------
(* Processes, users, time, and requests nobody waits for.                    *)

\* A server's exit leaves no process behind it.
LEMMA ExitKept ==
    ASSUME ExecInv, NEW i \in Instances, ServerStops(i) \/ ServerExits(i) \/ OrphanExits(i)
    PROVE  Kept
<1>1. /\ UNCHANGED <<vars, loop, beat, job, late, effect>>
      /\ \/ server' = [server EXCEPT ![i] = "down"] /\ orphan' = orphan
         \/ server' = server /\ orphan' = [orphan EXCEPT ![i] = FALSE]
      BY DEF ServerStops, ServerExits, OrphanExits
<1>2. Forms /\ OrphanAlone /\ Custody(job, task, effect, late)  BY DEF ExecInv
<1>3. Forms'  BY <1>1, <1>2 DEF Forms
<1>4. OrphanAlone'
      BY <1>1, <1>2, NativeAssumption DEF OrphanAlone, Forms, Managed
<1>5. Custody(job, task, effect, late)'  BY <1>1, <1>2 DEF vars
<1> QED  BY <1>1, <1>3, <1>4, <1>5 DEF Kept, Accounted

\* The Daemon ends: its lane is forgotten, its servers are down or orphans.
LEMMA EndKept ==
    ASSUME ExecInv, NEW n \in Nodes, Off(n), UNCHANGED <<vars, late, effect>>,
           NEW S \in SUBSET Survivors(n), orphan' = [i \in Instances |-> orphan[i] \/ i \in S],
           server' = [i \in Instances |-> IF instance[i].node = n /\ server[i] \in Managed
                                           THEN "down" ELSE server[i]]
    PROVE  Kept
<1>1. Forms /\ OrphanAlone /\ Custody(job, task, effect, late) /\ job \in [Nodes -> JobRow]
      BY DEF ExecInv, Forms
<1>2. /\ Lane(n, Idle) /\ At(n, "off") /\ beat' = [beat EXCEPT ![n] = NoBeat]
      BY DEF Off
<1>3. Custody(job', task, effect, late)
      BY <1>1, <1>2, IdleDuty, LaneCustody DEF Lane
<1>4. Custody(job, task, effect, late)'  BY <1>3 DEF vars
<1>5. job' \in [Nodes -> JobRow]  BY <1>1, <1>2, IdleJob DEF Lane
<1>6. /\ server' \in [Instances -> Managed \cup {"down", "archived"}]
      /\ orphan' \in [Instances -> BOOLEAN]
      BY <1>1 DEF Forms
<1>7. Forms'  BY <1>1, <1>2, <1>5, <1>6, FormsNoBeat
<1>8. OrphanAlone'
  <2> SUFFICES ASSUME NEW i \in NativeInstances, orphan'[i]
               PROVE  server'[i] \notin Managed \cup {"archived"}
      BY DEF OrphanAlone
  <2>1. i \in Instances  BY NativeAssumption
  <2>2. CASE orphan[i]
        BY <1>1, <2>1, <2>2 DEF OrphanAlone
  <2>3. CASE i \in S
        BY <2>1, <2>3 DEF Survivors, Managed
  <2> QED  BY <2>1, <2>2, <2>3
<1> QED  BY <1>4, <1>7, <1>8 DEF Kept, Accounted

LEMMA CrashKept == ASSUME ExecInv, NEW n \in Nodes, Crash(n) PROVE Kept
<1>1. PICK S \in SUBSET Survivors(n) : orphan' = [i \in Instances |-> orphan[i] \/ i \in S]
      BY DEF Crash
<1> QED  BY <1>1, EndKept DEF Crash

LEMMA ShutdownKept == ASSUME ExecInv, NEW n \in Nodes, Shutdown(n) PROVE Kept
<1>1. orphan' = [i \in Instances |-> orphan[i] \/ i \in {}]
      BY DEF Shutdown, ExecInv, Forms
<1>2. /\ Off(n) /\ UNCHANGED <<vars, late, effect>>
      /\ server' = [i \in Instances |-> IF instance[i].node = n /\ server[i] \in Managed
                                         THEN "down" ELSE server[i]]
      BY DEF Shutdown
<1>3. {} \in SUBSET Survivors(n)  OBVIOUS
<1> QED  BY <1>1, <1>2, <1>3, EndKept

LEMMA BeginShutdownKept == ASSUME ExecInv, NEW n \in Nodes, BeginShutdown(n) PROVE Kept
<1>1. /\ At(n, "closing") /\ beat' = [beat EXCEPT ![n] = NoBeat]
      /\ UNCHANGED vars /\ UNCHANGED <<job, server, orphan, effect>>
      BY DEF BeginShutdown
<1>2. CASE loop[n] = "beat"
  <2>1. late' = late \cup {BeatNote(n)}  BY <1>2 DEF BeginShutdown, BeatNote
  <2>2. Truthful(BeatNote(n), job, task', effect)  BY <1>2, BeatNoteTruthful DEF ExecInv
  <2> QED  BY <1>1, <2>1, <2>2, StillPlane, LoopKept
<1>3. CASE loop[n] = "claim" /\ job[n] = Idle
  <2>1. late' = late \cup {[call |-> "claim", node |-> n]}  BY <1>3 DEF BeginShutdown
  <2>2. Truthful([call |-> "claim", node |-> n], job, task', effect)  BY ClaimNoteTruthful
  <2> QED  BY <1>1, <2>1, <2>2, StillPlane, LoopKept
<1>4. CASE loop[n] # "beat" /\ ~ (loop[n] = "claim" /\ job[n] = Idle)
  <2>1. late' = late  BY <1>4 DEF BeginShutdown
  <2> QED  BY <1>1, <2>1, StillPlane, LoopKept
<1> QED  BY <1>2, <1>3, <1>4

LEMMA StartDaemonKept == ASSUME ExecInv, NEW n \in Nodes, StartDaemon(n) PROVE Kept
<1>1. /\ UNCHANGED vars /\ late' = late /\ At(n, "wait")
      /\ UNCHANGED <<beat, job, server, orphan, effect>>
      BY DEF StartDaemon
<1> QED  BY <1>1, StillPlane, LoopKept

\* Steps of the control plane alone.
LEMMA PlaneKept ==
    ASSUME ExecInv, Plane, late' = late \/ (\E m \in late : late' = late \ {m}),
           UNCHANGED <<loop, beat, job, server, orphan, effect>>
    PROVE  Kept
<1>1. Custody(job, task', effect, late)  BY CalmCustody DEF ExecInv, Plane
<1>2. Custody(job, task', effect, late')  BY <1>1 DEF Custody
<1>3. Forms'  BY DEF ExecInv, Forms
<1> QED  BY <1>2, <1>3 DEF Kept, Plane, ExecInv, OrphanAlone, Accounted

LEMMA HandleLateKept == ASSUME ExecInv, NEW m \in late, HandleLate(m) PROVE Kept
<1>1. /\ late' = late \ {m} /\ UNCHANGED <<loop, beat, job, server, orphan, effect>>
      BY DEF HandleLate
<1>2. QueueTypeOK /\ Truthful(m, job, task, effect)
      BY DEF ExecInv, IInv, TypeOK, Custody
<1>3. m.node \in Nodes /\ m.call \in {"beat", "claim", "progress", "complete"}
      BY <1>2 DEF Truthful
<1>4. CASE m.call = "beat"
  <2>1. Heartbeat(m.node, m.active, m.reports, TRUE)  BY <1>4 DEF HandleLate
  <2>2. Body(m.active, m.reports)  BY <1>2, <1>4 DEF Truthful
  <2>3. Plane  BY <1>2, <1>3, <2>1, <2>2, HeartbeatPlane
  <2> QED  BY <1>1, <2>3, PlaneKept
<1>5. CASE m.call = "claim"
  <2>1. \/ \E t \in Tasks : Claim(t, m.node)
        \/ \/ ClaimEmpty(m.node) \/ (\E t \in Tasks : ClaimUnrevealable(t, m.node))
           \/ Refused(~ Online(m.node))
        BY <1>5 DEF HandleLate
  <2>2. Plane  BY <1>2, <1>3, <2>1, ClaimPlane, NoClaimPlane
  <2> QED  BY <1>1, <2>2, PlaneKept
<1>6. CASE m.call = "progress"
  <2>1. HandleProgress(m.node, m.task) \/ ProgressRefused(m.task)  BY <1>6 DEF HandleLate
  <2>2. m.task \in Tasks  BY <1>2, <1>6 DEF Truthful
  <2>3. Plane  BY <1>2, <1>3, <2>1, <2>2, ProgressPlane
  <2> QED  BY <1>1, <2>3, PlaneKept
<1>7. CASE m.call = "complete"
  <2>1. /\ m.task \in Tasks /\ m.succeeded \in BOOLEAN /\ m.outcome \in Reported
        /\ m.succeeded => effect[m.task] = "done"
        /\ \A n \in Nodes : job[n].task = m.task => job[n].step \notin Early
        BY <1>2, <1>7 DEF Truthful
  <2>2. CASE HandleComplete(m.node, m.task, m.succeeded, m.outcome)
    <3>1. \A x \in late : Truthful(x, job, task, effect)  BY DEF ExecInv, Custody
    <3>2. Next /\ Custody(job, task', effect, late)
          BY <1>3, <2>1, <2>2, <3>1, CompletionTaken
    <3>3. Custody(job, task', effect, late')  BY <1>1, <3>2 DEF Custody
    <3>4. Forms'  BY <1>1 DEF ExecInv, Forms
    <3> QED  BY <1>1, <3>2, <3>3, <3>4 DEF Kept, ExecInv, OrphanAlone, Accounted
  <2>3. CASE CompleteNotTaken(m.node, m.task)
    <3>1. Plane  BY <1>2, <1>3, <2>1, <2>3, NotTakenPlane
    <3> QED  BY <1>1, <3>1, PlaneKept
  <2>4. \/ HandleComplete(m.node, m.task, m.succeeded, m.outcome)
        \/ CompleteNotTaken(m.node, m.task)
        BY <1>7 DEF HandleLate
  <2> QED  BY <2>2, <2>3, <2>4
<1> QED  BY <1>3, <1>4, <1>5, <1>6, <1>7

LEMMA UserKept == ASSUME ExecInv, ExecUserStep PROVE Kept
<1>1. QueueTypeOK  BY DEF ExecInv, IInv, TypeOK
<1>2. UserStep
  <2>1. ASSUME NEW t \in Tasks, NEW i \in Instances, NEW kind \in Offered,
               QueueInstanceAction(t, i, kind, i \in NativeInstances)
        PROVE  UserStep
    <3> DEFINE native == i \in NativeInstances
    <3>1. native \in BOOLEAN /\ QueueInstanceAction(t, i, kind, native)  BY <2>1
    <3> HIDE DEF native
    <3> QED  BY <3>1, Zenon DEF UserStep
  <2> QED  BY <2>1, Zenon DEF ExecUserStep, UserStep
<1>3. Plane  BY <1>1, <1>2, UserStepCalm DEF Plane, Next
<1> QED  BY <1>3, PlaneKept DEF ExecUserStep, daemonVars

LEMMA TimeKept == ASSUME ExecInv, Time PROVE Kept
<1>1. QueueTypeOK  BY DEF ExecInv, IInv, TypeOK
<1>2. Plane  BY <1>1, TickCalm DEF Plane, Next, Time
<1> QED  BY <1>2, PlaneKept DEF Time, daemonVars

LEMMA ExecNextKept == ASSUME ExecInv, [ExecNext]_execVars PROVE Kept /\ ExecInv'
<1>1. Kept
  <2>1. CASE ExecUserStep \/ Time  BY <2>1, UserKept, TimeKept
  <2>2. CASE ProcessStep
        BY <2>2, ExitKept, CrashKept, BeginShutdownKept, ShutdownKept, StartDaemonKept DEF ProcessStep
  <2>3. CASE \E n \in Nodes : LoopStep(n) \/ LaneStep(n)
        BY <2>3, LoopStepKept, LaneStepKept
  <2>4. CASE \E m \in late : HandleLate(m)  BY <2>4, HandleLateKept
  <2>5. CASE UNCHANGED execVars
    <3>1. /\ UNCHANGED vars /\ late' = late
          /\ UNCHANGED <<loop, beat, job, server, orphan, effect>>
          BY <2>5 DEF execVars, daemonVars
    <3> QED  BY <3>1, StillPlane, PlaneKept
  <2> QED  BY <2>1, <2>2, <2>3, <2>4, <2>5 DEF ExecNext
<1>2. IInv'  BY <1>1, NextKeeps DEF Kept, ExecInv
<1> QED  BY <1>1, <1>2 DEF Kept, ExecInv

LEMMA ExecInitInv == ASSUME ExecInit PROVE ExecInv
<1>0. PICK home \in [Instances -> Nodes] :
         instance = [i \in Instances |->
                       [state |-> "stopped", node |-> home[i], native |-> i \in NativeInstances,
                        sandbox |-> IF i \in NativeInstances THEN "unsupported" ELSE "prepared"]]
      BY DEF ExecInit
<1>1. /\ task = [t \in Tasks |-> NoTask] /\ deployment = [d \in Deployments |-> NoDeployment]
      /\ RegistryInit /\ job = [n \in Nodes |-> Idle] /\ loop = [n \in Nodes |-> "off"]
      /\ beat = [n \in Nodes |-> NoBeat] /\ server = [i \in Instances |-> "down"]
      /\ orphan = [i \in Instances |-> FALSE] /\ late = {} /\ effect = [t \in Tasks |-> "none"]
      BY DEF ExecInit
<1>2. NoTask \in TaskRow /\ NoDeployment \in DeploymentRow
  <2>1. NoTask \in TaskRow
        BY LeaseValues DEF NoTask, TaskRow, Kinds, Operations, Outcomes, Reported
  <2>2. NoDeployment \in DeploymentRow  BY DEF NoDeployment, DeploymentRow
  <2> QED  BY <2>1, <2>2
<1>3. instance \in [Instances -> InstanceRow]
  <2> SUFFICES ASSUME NEW i \in Instances PROVE instance[i] \in InstanceRow  BY <1>0
  <2> QED  BY <1>0 DEF InstanceRow, InstanceStates
<1>4. TypeOK
  <2>1. RegistryTypeOK  BY <1>1, HeartbeatLifetimeAssumption DEF RegistryInit, RegistryTypeOK
  <2> QED  BY <1>1, <1>2, <1>3, <2>1 DEF TypeOK, QueueTypeOK
<1>5. InstanceExclusive /\ TransitionHeld
      BY <1>1 DEF NoTask, InstanceExclusive, TransitionHeld, Active
<1>6. Forms  BY <1>1, IdleJob DEF Forms
<1>7. OrphanAlone  BY <1>1, NativeAssumption DEF OrphanAlone
<1>8. Custody(job, task, effect, late)
      BY <1>1, IdleDuty DEF Custody, Records, NoTask, Unclaimed
<1> QED  BY <1>4, <1>5, <1>6, <1>7, <1>8 DEF ExecInv, IInv

LEMMA ExecInductive == ExecSpec => []ExecInv
<1>1. ExecInit => ExecInv  BY ExecInitInv
<1>2. ExecInv /\ [ExecNext]_execVars => ExecInv'  BY ExecNextKept
<1> QED  BY <1>1, <1>2, PTL DEF ExecSpec

-----------------------------------------------------------------------------
(* Theorems.                                                                 *)

\* The real Daemon, its crashes and its late requests never drive the control
\* plane beyond what MinecraftControl lets any Daemon do (runLoop, executeTask).
THEOREM StaysInControl == ExecSpec => ControlSteps
<1>1. ExecInv /\ [ExecNext]_execVars => [Next]_vars
      BY ExecNextKept DEF Kept
<1> QED  BY <1>1, ExecInductive, PTL DEF ExecSpec, ControlSteps

\* Exclusion and the held transition hold of the control plane with the real
\* Daemon as well: an instance never has two unfinished operations, and no scan
\* of a starting, stopping or crashed server takes a transition away.
THEOREM ExecutionExclusive == ExecSpec => [](InstanceExclusive /\ TransitionHeld)
<1>1. ExecInv => InstanceExclusive /\ TransitionHeld  BY DEF ExecInv, IInv
<1> QED  BY <1>1, ExecInductive, PTL

\* With the real Daemon, its crashes and its timed-out requests that are handled
\* at any later time, the outcome of a task is still written once, and a lease
\* that ran out still ends in "unknown" whatever the node says of it
\* (completeMinecraftTask, failExpiredMinecraftTasks).
THEOREM ExecutionFinal == ExecSpec => OutcomeFinal /\ LateCompletionRefused
<1> DEFINE Final == \A t \in Tasks : task[t].status \in Terminal =>
                       /\ task'[t].status \in {task[t].status, "deleted"}
                       /\ task'[t].outcome = task[t].outcome
           Refusal == \A t \in Tasks : Expired(t) /\ task'[t].status # "running" =>
                         task'[t].status = "failed" /\ task'[t].outcome = "unknown"
<1>1. ExecInv /\ [ExecNext]_execVars => [Final]_vars /\ [Refusal]_vars
  <2>1. ASSUME ExecInv, Next PROVE Final /\ Refusal
        BY <2>1, NextLawful DEF ExecInv, IInv, TypeOK, Lawful, Overdue, Expired
  <2> QED  BY <2>1, ExecNextKept DEF Kept
<1> QED  BY <1>1, ExecInductive, PTL DEF ExecSpec, OutcomeFinal, LateCompletionRefused

\* Nor does the real Daemon strand anything: an instance in stopping has its stop
\* task, through every crash, restart and lost answer.
THEOREM ExecutionNoneStranded == ExecSpec => []NothingStranded
<1>1. ExecInit => Kinded /\ NothingStranded
      BY DEF ExecInit, NoTask, NoDeployment, Kinded, NothingStranded
<1>2. ExecInv /\ Kinded /\ NothingStranded /\ [ExecNext]_execVars => (Kinded /\ NothingStranded)'
      BY ExecNextKept, StrandedKept DEF Kept, ExecInv
<1> QED  BY <1>1, <1>2, ExecInductive, PTL DEF ExecSpec

\* A task recorded as succeeded did what it was asked to, whatever crashes,
\* time-outs and late completions come between (executeTask).
THEOREM SuccessIsReal == ExecSpec => []SucceededDone
<1>1. ExecInv => SucceededDone  BY DEF ExecInv, Custody, Records, SucceededDone
<1> QED  BY <1>1, ExecInductive, PTL

\* A task cancelled as "executed: false" never touched its node
\* (requestMinecraftTaskCancellation).
THEOREM CancelledUntouched == ExecSpec => []NotExecutedNeverBegan
<1>1. ExecInv => NotExecutedNeverBegan
      BY DEF ExecInv, Custody, Records, NotExecutedNeverBegan
<1> QED  BY <1>1, ExecInductive, PTL

\* An operation takes effect on its node only while the control plane counts
\* its task as running or says the outcome is unknown.
THEOREM EffectsAccounted == ExecSpec => EffectAccounted
<1> DEFINE Known == \A t \in Tasks : effect'[t] # effect[t] =>
                      task[t].status = "running" \/ task[t].outcome = "unknown"
<1>1. ExecInv /\ [ExecNext]_execVars => [Known]_execVars
      BY ExecNextKept DEF Kept, Accounted, Open
<1> QED  BY <1>1, ExecInductive, PTL DEF ExecSpec, EffectAccounted

\* A native server that outlived its Daemon never gets a second process beside
\* it and never loses its directory, for any number of restarts
\* (startNativeMinecraftServer, archiveMinecraftInstance).
THEOREM OrphansAlone == ExecSpec => []OrphanAlone
<1>1. ExecInv => OrphanAlone  BY DEF ExecInv
<1> QED  BY <1>1, ExecInductive, PTL
=============================================================================
