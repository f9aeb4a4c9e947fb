------------------------ MODULE MinecraftControlProofs ------------------------
(***************************************************************************)
(* What TLC checks of MinecraftControl on small instances, proved for any  *)
(* tasks, instances, deployments, nodes and lease length.                  *)
(*                                                                         *)
(* The inductive invariant is IInv.  Neither exclusion nor the held        *)
(* transition can do without the types; the held transition needs          *)
(* exclusion as well, because whatever ends one task of an instance may    *)
(* move that instance only if no other task holds it.                      *)
(*                                                                         *)
(* What a step may make of a row is said once, row by row (Lawful), and    *)
(* that an ended row keeps its outcome follows from it, and that an        *)
(* expired one ends in an unknown outcome (Overdue).  That nothing is      *)
(* stranded needs to know that only installations are about a deployment   *)
(* (Kinded), so that whatever ends a task settles its deployment too.      *)
(***************************************************************************)
EXTENDS MinecraftControl, FiniteSetTheorems, TLAPS

IInv == TypeOK /\ InstanceExclusive /\ TransitionHeld

-----------------------------------------------------------------------------
(* Types.                                                                    *)

\* failExpiredMinecraftTasks leaves well-formed rows.
LEMMA SweptTyped ==
    ASSUME QueueTypeOK, NEW N
    PROVE  /\ SweptTasks(N) \in [Tasks -> TaskRow]
           /\ SweptInstances(N) \in [Instances -> InstanceRow]
           /\ SweptDeployments(N) \in [Deployments -> DeploymentRow]
<1>1. SweptTasks(N) \in [Tasks -> TaskRow]
  <2> SUFFICES ASSUME NEW t \in Tasks
               PROVE  [task[t] EXCEPT !.status = "failed", !.outcome = "unknown"] \in TaskRow
      BY DEF QueueTypeOK, SweptTasks
  <2> QED  BY DEF QueueTypeOK, TaskRow, Outcomes, Reported
<1>2. SweptInstances(N) \in [Instances -> InstanceRow]
  <2> SUFFICES ASSUME NEW i \in Instances
               PROVE  [instance[i] EXCEPT !.state = "unknown"] \in InstanceRow
      BY DEF QueueTypeOK, SweptInstances
  <2> QED  BY DEF QueueTypeOK, InstanceRow, InstanceStates
<1>3. SweptDeployments(N) \in [Deployments -> DeploymentRow]
  <2> SUFFICES ASSUME NEW d \in Deployments, NEW s \in {"ready", "failed"}
               PROVE  [deployment[d] EXCEPT !.state = s] \in DeploymentRow
      BY DEF QueueTypeOK, SweptDeployments
  <2> QED  BY DEF QueueTypeOK, DeploymentRow
<1> QED  BY <1>1, <1>2, <1>3

\* A fresh row is well-formed: the creation order is a natural number.
LEMMA NewTaskTyped ==
    ASSUME NEW kind \in Kinds, NEW operation \in Operations, NEW n \in Nodes \cup {None},
           NEW i \in Instances \cup {None}, NEW d \in Deployments \cup {None},
           NEW native \in BOOLEAN
    PROVE  NewTask(kind, operation, n, i, d, native) \in TaskRow
<1>1. IsFiniteSet({t \in Tasks : task[t].status # "absent"})
      BY TasksFinite, FS_Subset
<1>2. NextOrder \in Nat  BY <1>1, FS_CardinalityType DEF NextOrder
<1> QED  BY <1>2, LeaseAssumption DEF NewTask, TaskRow, Outcomes, Reported

LEMMA CreateTyped ==
    ASSUME NEW T \in [Tasks -> TaskRow], NEW t \in Tasks, NEW row \in TaskRow,
           CreateTask(T, t, row)
    PROVE  task' \in [Tasks -> TaskRow]
BY DEF CreateTask

LEMMA SweepPreservesType == ASSUME QueueTypeOK, NEW N, Sweep(N) PROVE QueueTypeOK'
BY SweptTyped DEF Sweep, QueueTypeOK

LEMMA CompletedRowTyped ==
    ASSUME NEW row \in TaskRow, NEW outcome \in Reported, NEW ok
    PROVE  LET new == [row EXCEPT !.status = IF ok THEN "succeeded" ELSE "failed",
                                  !.outcome = StoredOutcome(row, outcome), !.lease = 0]
           IN  new \in TaskRow /\ new.status \in Terminal
<1>1. StoredOutcome(row, outcome) \in Outcomes
      BY DEF StoredOutcome, Outcomes, Reported
<1>2. ASSUME NEW r \in TaskRow, NEW s \in Terminal, NEW o \in Outcomes
      PROVE  /\ [r EXCEPT !.status = s, !.outcome = o, !.lease = 0] \in TaskRow
             /\ [r EXCEPT !.status = s, !.outcome = o, !.lease = 0].status = s
  <2>1. 0 \in 0 .. LeaseDuration  BY LeaseAssumption
  <2> QED  BY <2>1 DEF TaskRow, Terminal
<1> QED  BY <1>1, <1>2 DEF Terminal

LEMMA CompleteTyped ==
    ASSUME QueueTypeOK, NEW t \in Tasks, NEW n \in Nodes, NEW succeeded \in BOOLEAN,
           NEW evidence \in BOOLEAN, NEW outcome \in Reported,
           CompleteTask(t, n, succeeded, evidence, outcome)
    PROVE  QueueTypeOK'
<1> DEFINE row == task[t]
           ok  == Succeeds(row, succeeded, evidence)
           T   == SweptTasks({n})
           I   == SweptInstances({n})
           D   == SweptDeployments({n})
<1>0. /\ T \in [Tasks -> TaskRow] /\ I \in [Instances -> InstanceRow]
      /\ D \in [Deployments -> DeploymentRow]
      BY SweptTyped
<1>1. row \in TaskRow  BY DEF QueueTypeOK
<1>2. ASSUME NEW old \in TaskRow PROVE Unlinked(old, row, ok) \in TaskRow
      BY DEF Unlinked, TaskRow
<1>3. [row EXCEPT !.status = IF ok THEN "succeeded" ELSE "failed",
                  !.outcome = StoredOutcome(row, outcome), !.lease = 0] \in TaskRow
      BY <1>1, CompletedRowTyped
<1>4. task' \in [Tasks -> TaskRow]
      BY <1>0, <1>2, <1>3 DEF CompleteTask
<1>5. ASSUME NEW old \in InstanceRow PROVE CompletedInstance(old, row, ok, outcome) \in InstanceRow
  <2>1. CompletedState(row, ok, outcome, old.state) \in InstanceStates \cup {old.state}
        BY DEF CompletedState, InstanceStates
  <2>2. CompletedSandbox(row, ok, old.sandbox)
          \in {"unsupported", "prepared", "running", old.sandbox}
        BY <1>1 DEF CompletedSandbox, TaskRow
  <2>3. (old.native \/ row.native) \in BOOLEAN  OBVIOUS
  <2>4. [NoInstance EXCEPT !.state = "deleted"] \in InstanceRow
        BY DEF NoInstance, InstanceRow
  <2> HIDE DEF row, ok
  <2>5. [old EXCEPT !.state = CompletedState(row, ok, outcome, old.state),
                    !.sandbox = CompletedSandbox(row, ok, old.sandbox),
                    !.native = old.native \/ row.native] \in InstanceRow
        BY <2>1, <2>2, <2>3 DEF InstanceRow
  <2> QED  BY <2>4, <2>5 DEF CompletedInstance
<1>6. instance' \in [Instances -> InstanceRow]
      BY <1>0, <1>5 DEF CompleteTask
<1>7. deployment' \in [Deployments -> DeploymentRow]
  <2>1. [NoDeployment EXCEPT !.state = "deleted"] \in DeploymentRow
        BY DEF NoDeployment, DeploymentRow
  <2>2. ASSUME NEW d \in Deployments
        PROVE  [D[d] EXCEPT !.state = CompletedDeployment(row, ok)] \in DeploymentRow
        BY <1>0 DEF DeploymentRow, CompletedDeployment
  <2> QED  BY <1>0, <2>1, <2>2 DEF CompleteTask
<1> QED  BY <1>4, <1>6, <1>7 DEF QueueTypeOK

\* The constants of the queue's record fields.
LEMMA LeaseValues == 0 \in 0 .. LeaseDuration /\ LeaseDuration \in 0 .. LeaseDuration
BY LeaseAssumption

LEMMA ClaimTyped ==
    ASSUME QueueTypeOK, NEW t \in Tasks, NEW n \in Nodes, NEW sandbox \in BOOLEAN,
           ClaimTask(t, n, sandbox)
    PROVE  QueueTypeOK'
<1>1. [task[t] EXCEPT !.status = "running", !.lease = LeaseDuration] \in TaskRow
      BY LeaseValues DEF QueueTypeOK, TaskRow
<1>2. ASSUME NEW d \in Deployments
      PROVE  [SweptDeployments({n})[d] EXCEPT !.state = "downloading"] \in DeploymentRow
      BY SweptTyped DEF DeploymentRow
<1>3. deployment' \in [Deployments -> DeploymentRow]
      BY <1>2, SweptTyped DEF ClaimTask
<1> QED  BY <1>1, <1>3, SweptTyped DEF ClaimTask, QueueTypeOK

LEMMA CancelTyped ==
    ASSUME QueueTypeOK, NEW t \in Tasks, CancelQueued(t) \/ CancelRunning(t)
    PROVE  QueueTypeOK'
<1>1. CASE CancelQueued(t)
  <2>1. [task[t] EXCEPT !.status = "failed", !.cancel = TRUE, !.outcome = "not-executed"]
          \in TaskRow
        BY DEF QueueTypeOK, TaskRow, Outcomes
  <2>2. task' = [task EXCEPT ![t] = [task[t] EXCEPT !.status = "failed", !.cancel = TRUE,
                                                    !.outcome = "not-executed"]]
        BY <1>1 DEF CancelQueued, QueueTypeOK, TaskRow
  <2>3. ASSUME NEW i \in Instances, NEW x \in {"error", "stopped"}
        PROVE  [instance[i] EXCEPT !.state = x] \in InstanceRow
        BY DEF QueueTypeOK, InstanceRow, InstanceStates
  <2>4. ASSUME NEW d \in Deployments PROVE [deployment[d] EXCEPT !.state = "failed"] \in DeploymentRow
        BY DEF QueueTypeOK, DeploymentRow
  <2>5. task' \in [Tasks -> TaskRow]  BY <2>1, <2>2 DEF QueueTypeOK
  <2>6. instance' \in [Instances -> InstanceRow]  BY <1>1, <2>3 DEF CancelQueued, QueueTypeOK
  <2>7. deployment' \in [Deployments -> DeploymentRow]  BY <1>1, <2>4 DEF CancelQueued, QueueTypeOK
  <2> QED  BY <2>5, <2>6, <2>7 DEF QueueTypeOK
<1>2. CASE CancelRunning(t)
  <2>1. [task[t] EXCEPT !.cancel = TRUE] \in TaskRow
        BY DEF QueueTypeOK, TaskRow
  <2> QED  BY <1>2, <2>1 DEF CancelRunning, QueueTypeOK
<1> QED  BY <1>1, <1>2

LEMMA UserStepTyped == ASSUME TypeOK, UserStep PROVE TypeOK'
<1> USE DEF TypeOK
<1>0. /\ None \in Instances \cup {None} /\ None \in Deployments \cup {None}
      /\ "none" \in Operations /\ TRUE \in BOOLEAN /\ FALSE \in BOOLEAN
      BY DEF Operations
<1>1. ASSUME NEW t \in Tasks, NEW i \in Instances, NEW kind \in Offered, NEW setting \in BOOLEAN,
             QueueInstanceAction(t, i, kind, setting)
      PROVE  TypeOK'
  <2> DEFINE T == IF SweepsFirst(kind) THEN SweptTasks(Nodes) ELSE task
             I == IF SweepsFirst(kind) THEN SweptInstances(Nodes) ELSE instance
             D == IF SweepsFirst(kind) THEN SweptDeployments(Nodes) ELSE deployment
             native == TaskMode(kind, i, setting)
  <2>1. T \in [Tasks -> TaskRow] /\ I \in [Instances -> InstanceRow]
          /\ D \in [Deployments -> DeploymentRow]
        BY SweptTyped DEF QueueTypeOK
  <2>2. instance[i].node \in Nodes \cup {None} /\ native \in BOOLEAN
        BY DEF QueueTypeOK, InstanceRow, TaskMode
  <2>3. kind \in Kinds  BY OfferedAssumption DEF InstanceKinds, Kinds
  <2>4. NewTask(kind, "none", instance[i].node, i, None, native) \in TaskRow
        BY <1>0, <2>2, <2>3, NewTaskTyped
  <2>5. task' \in [Tasks -> TaskRow]
        BY <1>1, <2>1, <2>4, CreateTyped DEF QueueInstanceAction
  <2>6. [I[i] EXCEPT !.state = QueuedState(kind, @)] \in InstanceRow
        BY <2>1 DEF InstanceRow, InstanceStates, Transitional, QueuedState
  <2>7. instance' \in [Instances -> InstanceRow]
        BY <1>1, <2>1, <2>6 DEF QueueInstanceAction
  <2> QED  BY <1>1, <2>1, <2>5, <2>7
           DEF QueueInstanceAction, QueueTypeOK, RegistryTypeOK, registryVars
<1>2. ASSUME NEW t \in Tasks, NEW n \in Nodes, QueueJavaInstall(t, n) PROVE TypeOK'
  <2>1. NewTask("java-install", "none", n, None, None, FALSE) \in TaskRow
        BY <1>0, NewTaskTyped DEF Kinds
  <2>2. task' \in [Tasks -> TaskRow]
        BY <1>2, <2>1, CreateTyped DEF QueueJavaInstall, QueueTypeOK
  <2> QED  BY <1>2, <2>2 DEF QueueJavaInstall, QueueTypeOK, RegistryTypeOK, registryVars
<1>3. ASSUME NEW t \in Tasks, NEW d \in Deployments, NEW n \in Nodes, QueueDeploy(t, d, n)
      PROVE  TypeOK'
  <2>1. NewTask("install", "deploy", n, None, d, FALSE) \in TaskRow
        BY <1>0, NewTaskTyped DEF Kinds, Operations
  <2>2. task' \in [Tasks -> TaskRow]
        BY <1>3, <2>1, CreateTyped DEF QueueDeploy, QueueTypeOK
  <2>3. deployment' \in [Deployments -> DeploymentRow]
        BY <1>3 DEF QueueDeploy, QueueTypeOK, DeploymentRow
  <2> QED  BY <1>3, <2>2, <2>3 DEF QueueDeploy, QueueTypeOK, RegistryTypeOK, registryVars
<1>4. ASSUME NEW t \in Tasks, NEW d \in Deployments, NEW i \in Instances, NEW native \in BOOLEAN,
             RegisterDeployment(t, d, i, native)
      PROVE  TypeOK'
  <2>1. deployment[d].node \in Nodes \cup {None}  BY DEF QueueTypeOK, DeploymentRow
  <2>2. NewTask("install", "register", deployment[d].node, i, d, native) \in TaskRow
        BY <2>1, NewTaskTyped DEF Kinds, Operations
  <2>3. task' \in [Tasks -> TaskRow]
        BY <1>4, <2>2, CreateTyped DEF RegisterDeployment, QueueTypeOK
  <2>4. instance' \in [Instances -> InstanceRow]
        BY <1>4, <2>1 DEF RegisterDeployment, QueueTypeOK, InstanceRow, InstanceStates, Transitional
  <2>5. deployment' \in [Deployments -> DeploymentRow]
        BY <1>4 DEF RegisterDeployment, QueueTypeOK, DeploymentRow
  <2> QED  BY <1>4, <2>3, <2>4, <2>5
           DEF RegisterDeployment, QueueTypeOK, RegistryTypeOK, registryVars
<1>5. ASSUME NEW t \in Tasks, NEW d \in Deployments, NEW i \in Instances, NEW n \in Nodes,
             Provision(t, d, i, n)
      PROVE  TypeOK'
  <2>1. NewTask("install", "provision", n, i, d, TRUE) \in TaskRow
        BY <1>0, NewTaskTyped DEF Kinds, Operations
  <2>2. task' \in [Tasks -> TaskRow]
        BY <1>5, <2>1, CreateTyped DEF Provision, QueueTypeOK
  <2>3. instance' \in [Instances -> InstanceRow]
        BY <1>5 DEF Provision, QueueTypeOK, InstanceRow, InstanceStates, Transitional
  <2>4. deployment' \in [Deployments -> DeploymentRow]
        BY <1>5 DEF Provision, QueueTypeOK, DeploymentRow
  <2> QED  BY <1>5, <2>2, <2>3, <2>4 DEF Provision, QueueTypeOK, RegistryTypeOK, registryVars
<1>6. ASSUME NEW t \in Tasks, NEW d \in Deployments, RetryProvision(t, d) PROVE TypeOK'
  <2>1. deployment[d].node \in Nodes \cup {None} /\ deployment[d].instance \in Instances \cup {None}
        BY DEF QueueTypeOK, DeploymentRow
  <2>2. NewTask("install", "provision", deployment[d].node, deployment[d].instance, d, TRUE)
          \in TaskRow
        BY <1>0, <2>1, NewTaskTyped DEF Kinds, Operations
  <2>3. task' \in [Tasks -> TaskRow]
        BY <1>6, <2>2, CreateTyped DEF RetryProvision, QueueTypeOK
  <2>4. instance' \in [Instances -> InstanceRow]
        BY <1>6 DEF RetryProvision, QueueTypeOK, InstanceRow, InstanceStates, Transitional
  <2>5. deployment' \in [Deployments -> DeploymentRow]
        BY <1>6 DEF RetryProvision, QueueTypeOK, DeploymentRow
  <2> QED  BY <1>6, <2>3, <2>4, <2>5 DEF RetryProvision, QueueTypeOK, RegistryTypeOK, registryVars
<1>7. ASSUME NEW i \in Instances, UpdateJavaRuntime(i) PROVE TypeOK'
  <2>1. instance' \in [Instances -> InstanceRow]
        BY <1>7, SweptTyped DEF UpdateJavaRuntime, InstanceRow
  <2> QED  BY <1>7, <2>1, SweptTyped DEF UpdateJavaRuntime, QueueTypeOK, RegistryTypeOK, registryVars
<1>8. ASSUME NEW t \in Tasks, RequestCancellation(t) PROVE TypeOK'
      BY <1>8, CancelTyped DEF RequestCancellation, RegistryTypeOK, registryVars
<1>9. ASSUME NEW S \in SUBSET Tasks, DeleteRecords(S) PROVE TypeOK'
  <2>1. ASSUME NEW t \in Tasks PROVE [task[t] EXCEPT !.status = "deleted"] \in TaskRow
        BY DEF QueueTypeOK, TaskRow
  <2> QED  BY <1>9, <2>1 DEF DeleteRecords, DeleteTaskRecords, QueueTypeOK, RegistryTypeOK, registryVars
<1>10. CASE ListTasks
      BY <1>10, SweepPreservesType DEF ListTasks, RegistryTypeOK, registryVars
<1> QED  BY <1>1, <1>2, <1>3, <1>4, <1>5, <1>6, <1>7, <1>8, <1>9, <1>10 DEF UserStep

LEMMA DaemonStepTyped == ASSUME TypeOK, DaemonStep PROVE TypeOK'
<1> USE DEF TypeOK
<1>1. ASSUME NEW n \in Nodes, NEW active \in SUBSET Tasks, NEW S \in SUBSET Instances,
             NEW sandbox \in BOOLEAN, NEW reports \in [S -> Report],
             Heartbeat(n, active, reports, sandbox)
      PROVE  TypeOK'
  <2>1. ASSUME NEW t \in Tasks PROVE [task[t] EXCEPT !.lease = LeaseDuration] \in TaskRow
        BY LeaseValues DEF QueueTypeOK, TaskRow
  <2>2. ASSUME NEW i \in S
        PROVE  [instance[i] EXCEPT !.state = reports[i].state, !.sandbox = reports[i].sandbox]
                 \in InstanceRow
    <3>1. reports[i] \in Report  OBVIOUS
    <3>2. reports[i].state \in InstanceStates
          BY <3>1 DEF Report, InstanceStates, Transitional
    <3>3. reports[i].sandbox \in {"unsupported", "unprepared", "prepared", "running", "unknown"}
          BY <3>1 DEF Report
    <3> QED  BY <3>2, <3>3 DEF QueueTypeOK, InstanceRow
  <2>3. task' \in [Tasks -> TaskRow]  BY <1>1, <2>1 DEF Heartbeat, Renewed, QueueTypeOK
  <2>4. instance' \in [Instances -> InstanceRow]
        BY <1>1, <2>2 DEF Heartbeat, ReportedInstances, QueueTypeOK
  <2>5. RegistryTypeOK'
        BY <1>1, HeartbeatLifetimeAssumption DEF Heartbeat, RecordDaemonHeartbeat, RegistryTypeOK
  <2> QED  BY <1>1, <2>3, <2>4, <2>5 DEF Heartbeat, QueueTypeOK
<1>2. ASSUME NEW t \in Tasks, NEW n \in Nodes, Claim(t, n) PROVE TypeOK'
  <2>1. sandboxCap[n] \in BOOLEAN  BY DEF RegistryTypeOK
  <2> QED  BY <1>2, <2>1, ClaimTyped DEF Claim, RegistryTypeOK, registryVars
<1>3. ASSUME NEW t \in Tasks, NEW n \in Nodes, ClaimUnrevealable(t, n) PROVE TypeOK'
  <2>1. [task[t] EXCEPT !.status = "failed"] \in TaskRow  BY DEF QueueTypeOK, TaskRow
  <2> QED  BY <1>3, <2>1, SweptTyped
           DEF ClaimUnrevealable, QueueTypeOK, RegistryTypeOK, registryVars
<1>4. ASSUME NEW n \in Nodes, ClaimEmpty(n) PROVE TypeOK'
      BY <1>4, SweepPreservesType DEF ClaimEmpty, ClaimNothing, RegistryTypeOK, registryVars
<1>5. ASSUME NEW t \in Tasks, NEW n \in Nodes, Progress(t, n) PROVE TypeOK'
  <2>1. [task[t] EXCEPT !.lease = LeaseDuration] \in TaskRow
        BY LeaseValues DEF QueueTypeOK, TaskRow
  <2> QED  BY <1>5, <2>1 DEF Progress, ProgressTask, QueueTypeOK, RegistryTypeOK, registryVars
<1>6. ASSUME NEW t \in Tasks, NEW n \in Nodes, CompleteLate(t, n) PROVE TypeOK'
      BY <1>6, SweepPreservesType DEF CompleteLate, CompleteRefused, RegistryTypeOK, registryVars
<1>7. ASSUME NEW t \in Tasks, NEW n \in Nodes, NEW succeeded \in BOOLEAN,
             NEW evidence \in BOOLEAN, NEW outcome \in Reported,
             Complete(t, n, succeeded, evidence, outcome)
      PROVE  TypeOK'
      BY <1>7, CompleteTyped DEF Complete, RegistryTypeOK, registryVars
<1>8. ASSUME NEW n \in Nodes, NEW active \in SUBSET Tasks, NEW S \in SUBSET Instances,
             NEW sandbox \in BOOLEAN,
             \E reports \in [S -> Report] : Heartbeat(n, active, reports, sandbox)
      PROVE  TypeOK'
      BY <1>1, <1>8
<1> QED  BY <1>2, <1>3, <1>4, <1>5, <1>6, <1>7, <1>8 DEF DaemonStep

LEMMA TickTyped == ASSUME TypeOK, Tick PROVE TypeOK'
<1>1. ASSUME NEW t \in Tasks, task[t].lease > 0
      PROVE  [task[t] EXCEPT !.lease = @ - 1] \in TaskRow
  <2>1. task[t] \in TaskRow  BY DEF TypeOK, QueueTypeOK
  <2>2. task[t].lease \in 0 .. LeaseDuration  BY <2>1 DEF TaskRow
  <2>3. task[t].lease - 1 \in 0 .. LeaseDuration  BY <1>1, <2>2, LeaseAssumption
  <2>4. ASSUME NEW r \in TaskRow, NEW l \in 0 .. LeaseDuration
        PROVE  [r EXCEPT !.lease = l] \in TaskRow
        BY DEF TaskRow
  <2> QED  BY <2>1, <2>3, <2>4
<1>2. task' \in [Tasks -> TaskRow]
      BY <1>1 DEF Tick, AgeLeases, TypeOK, QueueTypeOK
<1>3. RegistryTypeOK'
      BY HeartbeatLifetimeAssumption DEF Tick, AgeHeartbeats, TypeOK, RegistryTypeOK, Online
<1> QED  BY <1>2, <1>3 DEF Tick, AgeLeases, TypeOK, QueueTypeOK

LEMMA InitTyped == ASSUME Init PROVE TypeOK
<1>1. NoTask \in TaskRow
      BY LeaseValues DEF NoTask, TaskRow, Kinds, Operations, Outcomes, Reported
<1>2. NoInstance \in InstanceRow /\ NoDeployment \in DeploymentRow
      BY DEF NoInstance, InstanceRow, NoDeployment, DeploymentRow
<1>3. RegistryTypeOK
      BY HeartbeatLifetimeAssumption DEF Init, RegistryInit, RegistryTypeOK
<1> QED  BY <1>1, <1>2, <1>3 DEF Init, QueueInit, TypeOK, QueueTypeOK

\* Type correctness: every row the handlers write has the fields and the
\* values the tables allow, for any number of rows and any lease length.
THEOREM TypeCorrect == Spec => []TypeOK
<1>1. Init => TypeOK  BY InitTyped
<1>2. TypeOK /\ [Next]_vars => TypeOK'
  <2>1. ASSUME TypeOK, UNCHANGED vars PROVE TypeOK'
        BY <2>1 DEF vars, TypeOK, QueueTypeOK, RegistryTypeOK
  <2> QED  BY <2>1, UserStepTyped, DaemonStepTyped, TickTyped DEF Next
<1> QED  BY <1>1, <1>2, PTL DEF Spec

-----------------------------------------------------------------------------
(* Exclusion and the held transition.                                        *)

\* Row u of table T is active only if it was, for the same operation.
Narrowed(T, u) ==
    T[u].status \in Active =>
        /\ task[u].status \in Active /\ T[u].kind = task[u].kind
        /\ T[u].instance \in {task[u].instance, None}

\* No active row of T other than X sees its instance change state from what I says.
Steady(T, I, X) ==
    \A u \in Tasks \ X : T[u].status \in Active /\ T[u].instance # None
                          => I[T[u].instance].state = instance[T[u].instance].state

\* A row holds the transition of its instance.
Holds(row, I) ==
    row.instance # None =>
        /\ row.kind \in {"start", "restart"} => I[row.instance].state = "starting"
        /\ row.kind = "stop"    => I[row.instance].state = "stopping"
        /\ row.kind = "install" => I[row.instance].state = "installing"

\* Steps that add no active row.
LEMMA Frame ==
    ASSUME IInv, \A u \in Tasks : Narrowed(task', u), Steady(task', instance', {})
    PROVE  InstanceExclusive' /\ TransitionHeld'
<1>1. InstanceExclusive'  BY DEF IInv, InstanceExclusive, Narrowed, Active
<1>2. ASSUME NEW t \in Tasks, task'[t].status \in Active, task'[t].instance # None
      PROVE  Holds(task'[t], instance')
  <2>1. /\ task[t].status \in Active /\ task'[t].kind = task[t].kind
        /\ task'[t].instance = task[t].instance
        BY <1>2 DEF Narrowed
  <2>2. Holds(task[t], instance)
        BY <1>2, <2>1 DEF IInv, TransitionHeld, Holds
  <2>3. instance'[task'[t].instance].state = instance[task[t].instance].state
        BY <1>2, <2>1 DEF Steady
  <2> QED  BY <1>2, <2>1, <2>2, <2>3 DEF Holds
<1>3. TransitionHeld'  BY <1>2 DEF TransitionHeld, Holds
<1> QED  BY <1>1, <1>3

\* Steps that create row t on table T.
LEMMA FrameCreate ==
    ASSUME IInv, NEW T \in [Tasks -> TaskRow], NEW t \in Tasks, NEW row \in TaskRow,
           CreateTask(T, t, row), \A u \in Tasks : Narrowed(T, u),
           Steady(task', instance', {t}), Holds(row, instance')
    PROVE  InstanceExclusive' /\ TransitionHeld'
<1>1. task'[t] = row /\ \A u \in Tasks \ {t} : task'[u] = T[u]  BY DEF CreateTask
<1>2. \A u \in Tasks \ {t} : Narrowed(task', u)  BY <1>1 DEF Narrowed
<1>3. ASSUME NEW u \in Tasks \ {t}, task'[u].status \in Active, row.instance # None
      PROVE  task'[u].instance # row.instance
      BY <1>1, <1>3 DEF CreateTask, Busy
<1>4. InstanceExclusive'
  <2> SUFFICES ASSUME NEW u \in Tasks, NEW v \in Tasks,
                      task'[u].status \in Active, task'[v].status \in Active,
                      task'[u].instance = task'[v].instance, task'[u].instance # None
               PROVE  u = v
      BY DEF InstanceExclusive
  <2>1. CASE u = t \/ v = t  BY <1>1, <1>3, <2>1
  <2>2. CASE u # t /\ v # t
        BY <1>2, <2>2 DEF Narrowed, IInv, InstanceExclusive
  <2> QED  BY <2>1, <2>2
<1>5. ASSUME NEW u \in Tasks, task'[u].status \in Active, task'[u].instance # None
      PROVE  Holds(task'[u], instance')
  <2>1. CASE u = t  BY <1>1, <2>1
  <2>2. CASE u # t
    <3>1. /\ task[u].status \in Active /\ task'[u].kind = task[u].kind
          /\ task'[u].instance = task[u].instance
          BY <1>2, <1>5, <2>2 DEF Narrowed
    <3>2. Holds(task[u], instance)
          BY <1>5, <3>1 DEF IInv, TransitionHeld, Holds
    <3>3. instance'[task'[u].instance].state = instance[task[u].instance].state
          BY <1>5, <2>2, <3>1 DEF Steady
    <3> QED  BY <1>5, <3>1, <3>2, <3>3 DEF Holds
  <2> QED  BY <2>1, <2>2
<1>6. TransitionHeld'  BY <1>5 DEF TransitionHeld, Holds
<1> QED  BY <1>4, <1>6

\* The sweep ends the rows whose instances it moves, and no others.
LEMMA SweptFrame ==
    ASSUME IInv, NEW N
    PROVE  /\ \A u \in Tasks : Narrowed(SweptTasks(N), u)
           /\ Steady(SweptTasks(N), SweptInstances(N), {})
           /\ \A u \in Tasks : SweptTasks(N)[u].instance = task[u].instance
           /\ \A u \in Tasks : SweptTasks(N)[u].status \in Active
                                => SweptTasks(N)[u] = task[u]
<1>1. ASSUME NEW u \in Tasks
      PROVE  /\ SweptTasks(N)[u].instance = task[u].instance
             /\ SweptTasks(N)[u].status \in Active => SweptTasks(N)[u] = task[u]
             /\ Expired(u) /\ task[u].node \in N => SweptTasks(N)[u].status = "failed"
      BY DEF SweptTasks, IInv, TypeOK, QueueTypeOK, TaskRow, Active
<1>2. ASSUME NEW u \in Tasks, SweptTasks(N)[u].status \in Active, task[u].instance # None
      PROVE  SweptInstances(N)[task[u].instance].state = instance[task[u].instance].state
  <2>1. task[u].instance \in Instances
        BY <1>2 DEF IInv, TypeOK, QueueTypeOK, TaskRow
  <2>2. task[u].status \in Active  BY <1>1, <1>2
  <2>3. ~ \E t \in Tasks : Expired(t) /\ task[t].node \in N /\ task[t].instance = task[u].instance
    <3> SUFFICES ASSUME NEW t \in Tasks, Expired(t), task[t].node \in N,
                        task[t].instance = task[u].instance
                 PROVE  FALSE
        OBVIOUS
    <3>1. t = u  BY <1>2, <2>2 DEF Expired, Active, IInv, InstanceExclusive
    <3> QED  BY <1>1, <1>2, <3>1 DEF Active
  <2> QED  BY <2>1, <2>3 DEF SweptInstances
<1> QED  BY <1>1, <1>2 DEF Narrowed, Steady

\* A step that ends row t, after a sweep of the nodes in N.
Ends(t, N) ==
    /\ task[t].status \in Active /\ task'[t].status \notin Active
    /\ \A u \in Tasks \ {t} : Narrowed(task', u)
         /\ (task'[u].status \in Active => SweptTasks(N)[u].status \in Active)
    /\ \A i \in Instances \ {task[t].instance} :
         instance'[i].state = SweptInstances(N)[i].state

LEMMA FrameEnd ==
    ASSUME IInv, NEW N, NEW t \in Tasks, Ends(t, N)
    PROVE  InstanceExclusive' /\ TransitionHeld'
<1>1. \A u \in Tasks : Narrowed(task', u)  BY DEF Ends, Narrowed
<1>2. ASSUME NEW u \in Tasks, task'[u].status \in Active, task'[u].instance # None
      PROVE  instance'[task'[u].instance].state = instance[task'[u].instance].state
  <2>1. u # t  BY <1>2 DEF Ends
  <2>2. task[u].status \in Active /\ task'[u].instance = task[u].instance
        BY <1>1, <1>2 DEF Narrowed
  <2>3. task[u].instance \in Instances
        BY <1>2, <2>2 DEF IInv, TypeOK, QueueTypeOK, TaskRow
  <2>4. task[u].instance # task[t].instance
        BY <1>2, <2>1, <2>2 DEF Ends, IInv, InstanceExclusive
  <2>5. instance'[task[u].instance].state = SweptInstances(N)[task[u].instance].state
        BY <2>3, <2>4 DEF Ends
  <2>6. SweptInstances(N)[task[u].instance].state = instance[task[u].instance].state
        BY <1>2, <2>1, <2>2, SweptFrame DEF Ends, Steady
  <2> QED  BY <2>2, <2>5, <2>6
<1>3. Steady(task', instance', {})  BY <1>2 DEF Steady
<1> QED  BY <1>1, <1>3, Frame

LEMMA SweepHolds == ASSUME IInv, NEW N, Sweep(N) PROVE InstanceExclusive' /\ TransitionHeld'
BY SweptFrame, Frame DEF Sweep, Narrowed, Steady

\* No row changes but in fields exclusion does not look at.
LEMMA Unmoved ==
    ASSUME IInv, instance' = instance,
           \A u \in Tasks : task'[u].status \in Active =>
              task[u].status \in Active /\ task'[u].kind = task[u].kind
                /\ task'[u].instance = task[u].instance
    PROVE  InstanceExclusive' /\ TransitionHeld'
BY Frame DEF Narrowed, Steady

\* The operations that put an instance into installing.
LEMMA InstallHolds ==
    ASSUME IInv, NEW t \in Tasks, NEW d \in Deployments, NEW op \in Operations,
           NEW node \in Nodes \cup {None}, NEW j \in Instances, NEW mode \in BOOLEAN,
           CreateTask(task, t, NewTask("install", op, node, j, d, mode)),
           instance'[j].state = "installing",
           \A k \in Instances \ {j} : instance'[k] = instance[k]
    PROVE  InstanceExclusive' /\ TransitionHeld'
<1> DEFINE row == NewTask("install", op, node, j, d, mode)
<1>1. row \in TaskRow  BY NewTaskTyped DEF Kinds
<1>2. row.instance = j /\ row.kind = "install" /\ j # None
      BY NoneAssumption DEF NewTask
<1>3. task \in [Tasks -> TaskRow]  BY DEF IInv, TypeOK, QueueTypeOK
<1> HIDE DEF row
<1>4. Holds(row, instance')  BY <1>2 DEF Holds
<1>5. \A u \in Tasks : Narrowed(task, u)  BY DEF Narrowed
<1>6. CreateTask(task, t, row)  BY DEF row
<1>7. \A u \in Tasks \ {t} : task'[u] = task[u] /\ (task[u].status \in Active => task[u].instance # j)
      BY <1>2, <1>3, <1>6 DEF CreateTask, Busy
<1>8. Steady(task', instance', {t})
      BY <1>3, <1>7 DEF Steady, TaskRow
<1> QED  BY <1>1, <1>3, <1>4, <1>5, <1>6, <1>8, FrameCreate

LEMMA RegisterHolds ==
    ASSUME IInv, NEW t \in Tasks, NEW d \in Deployments, NEW i \in Instances,
           NEW native \in BOOLEAN, RegisterDeployment(t, d, i, native)
    PROVE  InstanceExclusive' /\ TransitionHeld'
<1>1. CreateTask(task, t, NewTask("install", "register", deployment[d].node, i, d, native))
      BY DEF RegisterDeployment
<1>2. instance'[i].state = "installing" /\ \A k \in Instances \ {i} : instance'[k] = instance[k]
      BY DEF RegisterDeployment, IInv, TypeOK, QueueTypeOK
<1>3. deployment[d].node \in Nodes \cup {None} /\ "register" \in Operations
      BY DEF IInv, TypeOK, QueueTypeOK, DeploymentRow, Operations
<1> QED  BY <1>1, <1>2, <1>3, InstallHolds

LEMMA ProvisionHolds ==
    ASSUME IInv, NEW t \in Tasks, NEW d \in Deployments, NEW i \in Instances, NEW n \in Nodes,
           Provision(t, d, i, n)
    PROVE  InstanceExclusive' /\ TransitionHeld'
<1>1. CreateTask(task, t, NewTask("install", "provision", n, i, d, TRUE))
      BY DEF Provision
<1>2. instance'[i].state = "installing" /\ \A k \in Instances \ {i} : instance'[k] = instance[k]
      BY DEF Provision, IInv, TypeOK, QueueTypeOK
<1> QED  BY <1>1, <1>2, InstallHolds DEF Operations

LEMMA RetryHolds ==
    ASSUME IInv, NEW t \in Tasks, NEW d \in Deployments, RetryProvision(t, d)
    PROVE  InstanceExclusive' /\ TransitionHeld'
<1> DEFINE i == deployment[d].instance
<1>0. i \in Instances /\ deployment[d].node \in Nodes \cup {None}
      BY DEF IInv, TypeOK, QueueTypeOK, DeploymentRow, RetryProvision
<1>1. CreateTask(task, t, NewTask("install", "provision", deployment[d].node, i, d, TRUE))
      BY DEF RetryProvision
<1>2. instance'[i].state = "installing" /\ \A k \in Instances \ {i} : instance'[k] = instance[k]
      BY <1>0 DEF RetryProvision, IInv, TypeOK, QueueTypeOK, InstanceRow
<1> HIDE DEF i
<1> QED  BY <1>0, <1>1, <1>2, InstallHolds DEF Operations

LEMMA UserStepHolds == ASSUME IInv, UserStep PROVE InstanceExclusive' /\ TransitionHeld'
<1> DEFINE Goal == InstanceExclusive' /\ TransitionHeld'
<1>0. /\ task \in [Tasks -> TaskRow] /\ instance \in [Instances -> InstanceRow] /\ QueueTypeOK
      /\ None \in Deployments \cup {None} /\ None \in Instances \cup {None}
      /\ \A u \in Tasks : Narrowed(task, u)
      BY DEF IInv, TypeOK, QueueTypeOK, Narrowed
<1>1. ASSUME NEW t \in Tasks, NEW i \in Instances, NEW kind \in Offered, NEW setting \in BOOLEAN,
             QueueInstanceAction(t, i, kind, setting)
      PROVE  Goal
  <2> DEFINE T == IF SweepsFirst(kind) THEN SweptTasks(Nodes) ELSE task
             I == IF SweepsFirst(kind) THEN SweptInstances(Nodes) ELSE instance
             row == NewTask(kind, "none", instance[i].node, i, None, TaskMode(kind, i, setting))
  <2>1. /\ T \in [Tasks -> TaskRow] /\ I \in [Instances -> InstanceRow]
        /\ \A u \in Tasks : Narrowed(T, u)
        /\ Steady(T, I, {})
        BY <1>0, SweptTyped, SweptFrame DEF Steady
  <2>2. instance[i].node \in Nodes \cup {None} /\ TaskMode(kind, i, setting) \in BOOLEAN
          /\ kind \in InstanceKinds /\ kind \in Kinds
        BY <1>0, OfferedAssumption DEF InstanceRow, TaskMode, InstanceKinds, Kinds
  <2>3. row \in TaskRow
        BY <1>0, <2>2, NewTaskTyped DEF Operations
  <2>4. row.instance = i /\ row.kind = kind /\ i # None
        BY NoneAssumption DEF NewTask
  <2>5. CreateTask(T, t, row) /\ instance' = [I EXCEPT ![i].state = QueuedState(kind, @)]
        BY <1>1 DEF QueueInstanceAction
  <2> HIDE DEF T, I, row
  <2>6. instance'[i].state = QueuedState(kind, I[i].state)
          /\ \A j \in Instances \ {i} : instance'[j] = I[j]
        BY <2>1, <2>5 DEF InstanceRow
  <2>7. Holds(row, instance')
        BY <2>2, <2>4, <2>6 DEF Holds, QueuedState, InstanceKinds
  <2>8. \A u \in Tasks \ {t} : task'[u] = T[u] /\ (T[u].status \in Active => T[u].instance # i)
        BY <2>1, <2>4, <2>5 DEF CreateTask, Busy
  <2>9. Steady(task', instance', {t})
        BY <2>1, <2>6, <2>8 DEF Steady, TaskRow
  <2> QED  BY <2>1, <2>3, <2>5, <2>7, <2>9, FrameCreate
<1>2. ASSUME NEW t \in Tasks, NEW n \in Nodes, NEW d \in Deployments \cup {None},
             NEW kind \in {"install", "java-install"}, NEW operation \in {"none", "deploy"},
             CreateTask(task, t, NewTask(kind, operation, n, None, d, FALSE)), instance' = instance
      PROVE  Goal
  <2> DEFINE row == NewTask(kind, operation, n, None, d, FALSE)
  <2>1. row \in TaskRow  BY <1>0, NewTaskTyped DEF Operations, Kinds
  <2>2. row.instance = None  BY DEF NewTask
  <2> HIDE DEF row
  <2>3. Holds(row, instance')  BY <2>2 DEF Holds
  <2>4. \A u \in Tasks \ {t} : task'[u] = task[u]  BY <1>0, <1>2 DEF CreateTask
  <2>5. Steady(task', instance', {t})  BY <1>2, <2>4 DEF Steady
  <2> QED  BY <1>0, <1>2, <2>1, <2>3, <2>5, FrameCreate DEF row
<1>3. ASSUME NEW t \in Tasks, NEW n \in Nodes, QueueJavaInstall(t, n) PROVE Goal
      BY <1>0, <1>2, <1>3 DEF QueueJavaInstall
<1>4. ASSUME NEW t \in Tasks, NEW d \in Deployments, NEW n \in Nodes, QueueDeploy(t, d, n) PROVE Goal
      BY <1>2, <1>4 DEF QueueDeploy
<1>5. ASSUME NEW t \in Tasks, NEW d \in Deployments, NEW i \in Instances, NEW native \in BOOLEAN,
             RegisterDeployment(t, d, i, native)
      PROVE  Goal
      BY <1>5, RegisterHolds
<1>6. ASSUME NEW t \in Tasks, NEW d \in Deployments, NEW i \in Instances, NEW n \in Nodes,
             Provision(t, d, i, n)
      PROVE  Goal
      BY <1>6, ProvisionHolds
<1>7. ASSUME NEW t \in Tasks, NEW d \in Deployments, RetryProvision(t, d) PROVE Goal
      BY <1>7, RetryHolds
<1>8. ASSUME NEW i \in Instances, UpdateJavaRuntime(i) PROVE Goal
  <2>1. \A u \in Tasks : task'[u].status \in Active => task'[u].instance # i
        BY <1>8 DEF UpdateJavaRuntime, Busy
  <2>2. \A j \in Instances : instance'[j].state = SweptInstances(Nodes)[j].state
        BY <1>0, <1>8, SweptTyped DEF UpdateJavaRuntime, InstanceRow
  <2>3. task' = SweptTasks(Nodes) /\ SweptTasks(Nodes) \in [Tasks -> TaskRow]
        BY <1>0, <1>8, SweptTyped DEF UpdateJavaRuntime
  <2>4. Steady(task', instance', {})
        BY <2>2, <2>3, SweptFrame DEF Steady, TaskRow
  <2>5. \A u \in Tasks : Narrowed(task', u)
        BY <2>3, SweptFrame DEF Narrowed
  <2> QED  BY <2>4, <2>5, Frame
<1>9. ASSUME NEW t \in Tasks, RequestCancellation(t) PROVE Goal
  <2>1. CASE CancelQueued(t)
    <3>1. task'[t].status \notin Active /\ task[t].status \in Active
          BY <1>0, <2>1 DEF CancelQueued, Active, TaskRow
    <3>2. \A u \in Tasks \ {t} : task'[u] = task[u]
          BY <1>0, <2>1 DEF CancelQueued
    <3>3. \A u \in Tasks : SweptTasks({})[u] = task[u]  BY <1>0 DEF SweptTasks
    <3>4. \A i \in Instances \ {task[t].instance} :
             instance'[i].state = SweptInstances({})[i].state
          BY <1>0, <2>1 DEF CancelQueued, SweptInstances
    <3>5. Ends(t, {})  BY <3>1, <3>2, <3>3, <3>4 DEF Ends, Narrowed
    <3> QED  BY <3>5, FrameEnd
  <2>2. CASE CancelRunning(t)
    <3>1. /\ instance' = instance
          /\ \A u \in Tasks : /\ task'[u].status = task[u].status /\ task'[u].kind = task[u].kind
                              /\ task'[u].instance = task[u].instance
          BY <1>0, <2>2 DEF CancelRunning, TaskRow
    <3> QED  BY <3>1, Unmoved
  <2> QED  BY <1>9, <2>1, <2>2 DEF RequestCancellation
<1>10. ASSUME NEW S \in SUBSET Tasks, DeleteRecords(S) PROVE Goal
  <2>1. instance' = instance /\ \A u \in Tasks : task'[u].status \in Active => task'[u] = task[u]
        BY <1>0, <1>10 DEF DeleteRecords, DeleteTaskRecords, Active, TaskRow
  <2> QED  BY <2>1, Unmoved
<1>11. CASE ListTasks  BY <1>11, SweepHolds DEF ListTasks
<1> QED  BY <1>1, <1>3, <1>4, <1>5, <1>6, <1>7, <1>8, <1>9, <1>10, <1>11 DEF UserStep

LEMMA HeartbeatHolds ==
    ASSUME IInv, NEW n \in Nodes, NEW active \in SUBSET Tasks, NEW S \in SUBSET Instances,
           NEW sandbox \in BOOLEAN, NEW reports \in [S -> Report],
           Heartbeat(n, active, reports, sandbox)
    PROVE  InstanceExclusive' /\ TransitionHeld'
<1>0. task \in [Tasks -> TaskRow] /\ instance \in [Instances -> InstanceRow]
      BY DEF IInv, TypeOK, QueueTypeOK
<1>1. \A u \in Tasks : /\ task'[u].status = task[u].status /\ task'[u].kind = task[u].kind
                       /\ task'[u].instance = task[u].instance
      BY <1>0 DEF Heartbeat, Renewed, TaskRow
\* Reports leave alone the instances whose transition a task holds.
<1>2. ASSUME NEW u \in Tasks, task[u].status \in Active, task[u].instance # None,
             task[u].kind \in Lifecycle
      PROVE  instance'[task[u].instance] = instance[task[u].instance]
  <2>1. task[u].instance \in Instances  BY <1>0, <1>2 DEF TaskRow
  <2>2. \A r : ~ ReportAccepted(n, task[u].instance, r)
        BY <1>2 DEF ReportAccepted
  <2> QED  BY <2>1, <2>2 DEF Heartbeat, ReportedInstances
<1>3. InstanceExclusive'  BY <1>1 DEF IInv, InstanceExclusive
<1>4. TransitionHeld'
  <2> SUFFICES ASSUME NEW u \in Tasks, task[u].status \in Active, task[u].instance # None
               PROVE  Holds(task[u], instance')
      BY <1>1 DEF TransitionHeld, Holds
  <2>1. Holds(task[u], instance)  BY DEF IInv, TransitionHeld, Holds
  <2> QED  BY <1>2, <2>1 DEF Holds, Lifecycle
<1> QED  BY <1>3, <1>4

LEMMA DaemonStepHolds == ASSUME IInv, DaemonStep PROVE InstanceExclusive' /\ TransitionHeld'
<1> DEFINE Goal == InstanceExclusive' /\ TransitionHeld'
<1>0. /\ task \in [Tasks -> TaskRow] /\ instance \in [Instances -> InstanceRow] /\ QueueTypeOK
      BY DEF IInv, TypeOK, QueueTypeOK
<1>1. ASSUME NEW n \in Nodes, NEW active \in SUBSET Tasks, NEW S \in SUBSET Instances,
             NEW sandbox \in BOOLEAN,
             \E reports \in [S -> Report] : Heartbeat(n, active, reports, sandbox)
      PROVE  Goal
      BY <1>1, HeartbeatHolds
<1>2. ASSUME NEW t \in Tasks, NEW n \in Nodes, Claim(t, n) PROVE Goal
  <2>1. task[t].status = "queued"
        BY <1>2 DEF Claim, ClaimTask, OldestClaimable, Claimable
  <2>2. SweptTasks({n}) \in [Tasks -> TaskRow]  BY <1>0, SweptTyped
  <2>3. \A u \in Tasks \ {t} : task'[u] = SweptTasks({n})[u]
        BY <1>2, <2>2 DEF Claim, ClaimTask
  <2>4. task'[t].instance = task[t].instance /\ task'[t].kind = task[t].kind
    <3> DEFINE row == [task[t] EXCEPT !.status = "running", !.lease = LeaseDuration]
    <3>1. task' = [SweptTasks({n}) EXCEPT ![t] = row]  BY <1>2 DEF Claim, ClaimTask
    <3>2. task'[t] = row
      <4> HIDE DEF row
      <4> QED  BY <2>2, <3>1
    <3>3. task[t] \in TaskRow  BY <1>0
    <3>4. row.instance = task[t].instance /\ row.kind = task[t].kind  BY <3>3 DEF TaskRow
    <3> QED  BY <3>2, <3>4
  <2>5. SweptTasks({n})[t] = task[t]  BY <1>0, <2>1 DEF SweptTasks, Expired
  <2>6. \A u \in Tasks : Narrowed(task', u)
        BY <2>1, <2>3, <2>4, SweptFrame DEF Narrowed, Active
  <2>7. \A u \in Tasks : /\ task'[u].instance = SweptTasks({n})[u].instance
                         /\ task'[u].status \in Active => SweptTasks({n})[u].status \in Active
        BY <2>1, <2>3, <2>4, <2>5 DEF Active
  <2>8. Steady(task', instance', {})
    <3>1. instance' = SweptInstances({n})  BY <1>2 DEF Claim, ClaimTask
    <3>2. Steady(SweptTasks({n}), SweptInstances({n}), {})  BY SweptFrame
    <3> QED  BY <2>7, <3>1, <3>2 DEF Steady
  <2> QED  BY <2>6, <2>8, Frame
<1>3. ASSUME NEW t \in Tasks, NEW n \in Nodes, ClaimUnrevealable(t, n) PROVE Goal
  <2>1. task[t].status \in Active
        BY <1>3 DEF ClaimUnrevealable, OldestClaimable, Claimable, Active
  <2>2. SweptTasks({n}) \in [Tasks -> TaskRow]  BY <1>0, SweptTyped
  <2>3. \A u \in Tasks \ {t} : task'[u] = SweptTasks({n})[u]
        BY <1>3, <2>2 DEF ClaimUnrevealable
  <2>4. task'[t].status \notin Active
        BY <1>0, <1>3, <2>2 DEF ClaimUnrevealable, TaskRow, Active
  <2>5. \A u \in Tasks \ {t} : Narrowed(task', u)
        BY <2>3, SweptFrame DEF Narrowed
  <2>6. Ends(t, {n})
        BY <1>3, <2>1, <2>3, <2>4, <2>5 DEF Ends, ClaimUnrevealable
  <2> QED  BY <2>6, FrameEnd
<1>4. ASSUME NEW n \in Nodes, ClaimEmpty(n) PROVE Goal
      BY <1>4, SweepHolds DEF ClaimEmpty, ClaimNothing
<1>5. ASSUME NEW t \in Tasks, NEW n \in Nodes, Progress(t, n) PROVE Goal
  <2>1. /\ instance' = instance
        /\ \A u \in Tasks : /\ task'[u].status = task[u].status /\ task'[u].kind = task[u].kind
                            /\ task'[u].instance = task[u].instance
        BY <1>0, <1>5 DEF Progress, ProgressTask, TaskRow
  <2> QED  BY <2>1, Unmoved
<1>6. ASSUME NEW t \in Tasks, NEW n \in Nodes, CompleteLate(t, n) PROVE Goal
      BY <1>6, SweepHolds DEF CompleteLate, CompleteRefused
<1>7. ASSUME NEW t \in Tasks, NEW n \in Nodes, NEW succeeded \in BOOLEAN,
             NEW evidence \in BOOLEAN, NEW outcome \in Reported,
             Complete(t, n, succeeded, evidence, outcome)
      PROVE  Goal
  <2> DEFINE row == task[t]
             ok  == Succeeds(row, succeeded, evidence)
  <2>0. SweptTasks({n}) \in [Tasks -> TaskRow]  BY <1>0, SweptTyped
  <2>1. SweptTasks({n})[t].status = "running"
        BY <1>7 DEF Complete, CompleteTask, Completable
  <2>2. task[t].status \in Active
        BY <2>1, SweptFrame DEF Active
  <2>3. ASSUME NEW old \in TaskRow
        PROVE  /\ Unlinked(old, row, ok).status = old.status
               /\ Unlinked(old, row, ok).kind = old.kind
               /\ Unlinked(old, row, ok).instance \in {old.instance, None}
        BY DEF Unlinked, TaskRow
  <2>4. \A u \in Tasks \ {t} : task'[u] = Unlinked(SweptTasks({n})[u], row, ok)
        BY <1>7 DEF Complete, CompleteTask
  <2>5. task'[t].status \notin Active
    <3> DEFINE new == [row EXCEPT !.status = IF ok THEN "succeeded" ELSE "failed",
                                  !.outcome = StoredOutcome(row, outcome), !.lease = 0]
    <3>1. new \in TaskRow /\ new.status \in Terminal  BY <1>0, CompletedRowTyped
    <3>2. task'[t] = Unlinked(new, row, ok)
          BY <1>7 DEF Complete, CompleteTask
    <3> HIDE DEF new
    <3> QED  BY <2>3, <3>1, <3>2 DEF Active, Terminal
  <2> HIDE DEF row, ok
  <2>6. \A u \in Tasks \ {t} :
           /\ Narrowed(task', u)
           /\ task'[u].status \in Active => SweptTasks({n})[u].status \in Active
    <3> SUFFICES ASSUME NEW u \in Tasks \ {t}, task'[u].status \in Active
                 PROVE  /\ Narrowed(task', u)
                        /\ SweptTasks({n})[u].status \in Active
        BY DEF Narrowed
    <3>1. /\ task'[u].status = SweptTasks({n})[u].status
          /\ task'[u].kind = SweptTasks({n})[u].kind
          /\ task'[u].instance \in {SweptTasks({n})[u].instance, None}
          BY <2>0, <2>3, <2>4
    <3>2. SweptTasks({n})[u] = task[u]  BY <3>1, SweptFrame
    <3> QED  BY <3>1, <3>2 DEF Narrowed
  <2>7. \A i \in Instances \ {task[t].instance} : instance'[i].state = SweptInstances({n})[i].state
        BY <1>7 DEF Complete, CompleteTask
  <2>8. Ends(t, {n})  BY <2>2, <2>5, <2>6, <2>7 DEF Ends
  <2> QED  BY <2>8, FrameEnd
<1> QED  BY <1>1, <1>2, <1>3, <1>4, <1>5, <1>6, <1>7 DEF DaemonStep

LEMMA TickHolds == ASSUME IInv, Tick PROVE InstanceExclusive' /\ TransitionHeld'
<1>1. /\ instance' = instance
      /\ \A u \in Tasks : /\ task'[u].status = task[u].status /\ task'[u].kind = task[u].kind
                          /\ task'[u].instance = task[u].instance
      BY DEF Tick, AgeLeases, IInv, TypeOK, QueueTypeOK, TaskRow
<1> QED  BY <1>1, Unmoved

\* The inductive invariant survives every step.
LEMMA NextKeeps == ASSUME IInv, [Next]_vars PROVE IInv'
<1>1. ASSUME Next PROVE IInv'
  <2>1. TypeOK'  BY <1>1, UserStepTyped, DaemonStepTyped, TickTyped DEF IInv, Next
  <2>2. InstanceExclusive' /\ TransitionHeld'
        BY <1>1, UserStepHolds, DaemonStepHolds, TickHolds DEF Next
  <2> QED  BY <2>1, <2>2 DEF IInv
<1>2. ASSUME UNCHANGED vars PROVE IInv'
      BY <1>2 DEF vars, IInv, TypeOK, QueueTypeOK, RegistryTypeOK, InstanceExclusive, TransitionHeld
<1> QED  BY <1>1, <1>2

\* Every reachable state satisfies the inductive invariant.
LEMMA Inductive == Spec => []IInv
<1>1. Init => IInv
  <2>1. ASSUME Init PROVE InstanceExclusive /\ TransitionHeld
        BY <2>1 DEF Init, QueueInit, NoTask, InstanceExclusive, TransitionHeld, Active
  <2> QED  BY <2>1, InitTyped DEF IInv
<1>2. IInv /\ [Next]_vars => IInv'  BY NextKeeps
<1> QED  BY <1>1, <1>2, PTL DEF Spec

\* Exclusion: an instance never has two unfinished operations, for any number
\* of instances, users and nodes (createMinecraftTask's one check suffices).
THEOREM Exclusive == Spec => []InstanceExclusive
BY Inductive, PTL DEF IInv

\* A queued or running lifecycle task keeps its instance in the transitional
\* state, whatever nodes report and whatever else users ask for.
THEOREM TransitionsHeld == Spec => []TransitionHeld
BY Inductive, PTL DEF IInv

-----------------------------------------------------------------------------
(* How a row may change.                                                     *)

Unclaimed == {"absent", "queued"}

\* The operation of a row may still be under way, for all the table tells.
Open(row) == row.status = "running" \/ (row.outcome = "unknown" /\ row.status # "succeeded")

\* What every step keeps to: a claimed row stays claimed by its node, a
\* terminal one stays as it ended, only a queued row can turn out as not
\* executed, and one whose lease is over ends as unknown.
Overdue(row) == row.status = "running" /\ row.lease = 0

Lawful(old, new) ==
    /\ old.status \notin Unclaimed => new.status \notin Unclaimed /\ new.node = old.node
    /\ old.status \in Terminal =>
          new.status \in {old.status, "deleted"} /\ new.outcome = old.outcome
    /\ new.outcome = "not-executed" => old.outcome = "not-executed" \/ old.status = "queued"
    /\ new.status \in Unclaimed => new.outcome \in {"none", old.outcome}
    /\ Overdue(old) /\ new.status # "running" => new.status = "failed" /\ new.outcome = "unknown"

\* What every step but the completion of the row itself keeps to.
Calm(old, new) ==
    /\ Lawful(old, new)
    /\ new.status = "succeeded" => old.status = "succeeded"
    /\ old.status \notin Unclaimed /\ Open(old) => Open(new)

LEMMA CalmSame == \A row : Calm(row, row)
BY DEF Calm, Lawful, Unclaimed, Terminal, Overdue

\* Fields no rule looks at may change.
LEMMA CalmFields ==
    ASSUME NEW old, NEW new, new.status = old.status, new.node = old.node,
           new.outcome = old.outcome
    PROVE  Calm(old, new)
BY DEF Calm, Lawful, Open, Unclaimed, Terminal, Overdue

LEMMA SweptCalm ==
    ASSUME QueueTypeOK, NEW N, NEW u \in Tasks
    PROVE  Calm(task[u], SweptTasks(N)[u])
<1>1. CASE Expired(u) /\ task[u].node \in N
  <2>1. SweptTasks(N)[u] = [task[u] EXCEPT !.status = "failed", !.outcome = "unknown"]
        BY <1>1 DEF SweptTasks
  <2>2. /\ SweptTasks(N)[u].status = "failed" /\ SweptTasks(N)[u].outcome = "unknown"
        /\ SweptTasks(N)[u].node = task[u].node /\ task[u].status = "running"
        BY <1>1, <2>1 DEF QueueTypeOK, TaskRow, Expired
  <2> QED  BY <2>2 DEF Calm, Lawful, Open, Unclaimed, Terminal, Overdue
<1>2. CASE ~ (Expired(u) /\ task[u].node \in N)
      BY <1>2, CalmSame DEF SweptTasks
<1> QED  BY <1>1, <1>2

LEMMA CreateCalm ==
    ASSUME NEW T \in [Tasks -> TaskRow], NEW t \in Tasks, NEW row,
           row.status = "queued", row.outcome = "none", CreateTask(T, t, row),
           \A u \in Tasks : Calm(task[u], T[u])
    PROVE  \A u \in Tasks : Calm(task[u], task'[u])
<1>1. task'[t] = row /\ T[t].status = "absent" /\ \A u \in Tasks \ {t} : task'[u] = T[u]
      BY DEF CreateTask
<1>2. task[t].status \in Unclaimed
      BY <1>1 DEF Calm, Lawful, Unclaimed
<1>3. Calm(task[t], task'[t])
      BY <1>1, <1>2 DEF Calm, Lawful, Unclaimed, Terminal, Overdue
<1> QED  BY <1>1, <1>3

\* The rows the service creates are queued, with no outcome yet.
LEMMA CreateNewCalm ==
    ASSUME QueueTypeOK, NEW T, T = task \/ T = SweptTasks(Nodes), NEW t \in Tasks,
           NEW kind, NEW operation, NEW n, NEW i, NEW d, NEW native,
           CreateTask(T, t, NewTask(kind, operation, n, i, d, native))
    PROVE  \A u \in Tasks : Calm(task[u], task'[u])
<1> DEFINE row == NewTask(kind, operation, n, i, d, native)
<1>1. row.status = "queued" /\ row.outcome = "none"  BY DEF NewTask
<1>2. T \in [Tasks -> TaskRow]  BY SweptTyped DEF QueueTypeOK
<1>3. \A u \in Tasks : Calm(task[u], T[u])
  <2>1. CASE T = task  BY <2>1, CalmSame
  <2>2. CASE T = SweptTasks(Nodes)  BY <2>2, SweptCalm
  <2> QED  BY <2>1, <2>2
<1>4. CreateTask(T, t, row)  OBVIOUS
<1> HIDE DEF row
<1> QED  BY <1>1, <1>2, <1>3, <1>4, CreateCalm

LEMMA UserStepCalm ==
    ASSUME QueueTypeOK, UserStep
    PROVE  \A u \in Tasks : Calm(task[u], task'[u])
<1> DEFINE Goal == \A u \in Tasks : Calm(task[u], task'[u])
<1>1. ASSUME NEW t \in Tasks, NEW i \in Instances, NEW kind \in Offered, NEW setting \in BOOLEAN,
             QueueInstanceAction(t, i, kind, setting)
      PROVE  Goal
  <2> DEFINE T == IF SweepsFirst(kind) THEN SweptTasks(Nodes) ELSE task
  <2>1. CreateTask(T, t, NewTask(kind, "none", instance[i].node, i, None, TaskMode(kind, i, setting)))
        BY <1>1 DEF QueueInstanceAction
  <2>2. T = task \/ T = SweptTasks(Nodes)  OBVIOUS
  <2> HIDE DEF T
  <2> QED  BY <2>1, <2>2, CreateNewCalm
<1>2. ASSUME NEW t \in Tasks, NEW n \in Nodes, QueueJavaInstall(t, n) PROVE Goal
      BY <1>2, CreateNewCalm DEF QueueJavaInstall
<1>3. ASSUME NEW t \in Tasks, NEW d \in Deployments, NEW n \in Nodes, QueueDeploy(t, d, n)
      PROVE  Goal
      BY <1>3, CreateNewCalm DEF QueueDeploy
<1>4. ASSUME NEW t \in Tasks, NEW d \in Deployments, NEW i \in Instances, NEW native \in BOOLEAN,
             RegisterDeployment(t, d, i, native)
      PROVE  Goal
      BY <1>4, CreateNewCalm DEF RegisterDeployment
<1>5. ASSUME NEW t \in Tasks, NEW d \in Deployments, NEW i \in Instances, NEW n \in Nodes,
             Provision(t, d, i, n)
      PROVE  Goal
      BY <1>5, CreateNewCalm DEF Provision
<1>6. ASSUME NEW t \in Tasks, NEW d \in Deployments, RetryProvision(t, d) PROVE Goal
      BY <1>6, CreateNewCalm DEF RetryProvision
<1>7. ASSUME NEW i \in Instances, UpdateJavaRuntime(i) PROVE Goal
      BY <1>7, SweptCalm DEF UpdateJavaRuntime
<1>8. ASSUME NEW t \in Tasks, RequestCancellation(t) PROVE Goal
  <2>1. CASE CancelQueued(t)
    <3>1. /\ task'[t].outcome = "not-executed" /\ task'[t].status = "failed"
          /\ task[t].status = "queued"
          BY <2>1 DEF CancelQueued, QueueTypeOK, TaskRow
    <3>2. Calm(task[t], task'[t])  BY <3>1 DEF Calm, Lawful, Unclaimed, Terminal, Overdue
    <3>3. \A u \in Tasks \ {t} : task'[u] = task[u]
          BY <2>1 DEF CancelQueued, QueueTypeOK
    <3> QED  BY <3>2, <3>3, CalmSame
  <2>2. CASE CancelRunning(t)
    <3>1. \A u \in Tasks : /\ task'[u].status = task[u].status /\ task'[u].node = task[u].node
                           /\ task'[u].outcome = task[u].outcome
          BY <2>2 DEF CancelRunning, QueueTypeOK, TaskRow
    <3> QED  BY <3>1, CalmFields
  <2> QED  BY <1>8, <2>1, <2>2 DEF RequestCancellation
<1>9. ASSUME NEW S \in SUBSET Tasks, DeleteRecords(S) PROVE Goal
  <2>1. ASSUME NEW u \in S PROVE Calm(task[u], task'[u])
    <3>1. /\ task'[u].status = "deleted" /\ task'[u].outcome = task[u].outcome
          /\ task'[u].node = task[u].node /\ task[u].status \in Terminal
          BY <1>9 DEF DeleteRecords, DeleteTaskRecords, QueueTypeOK, TaskRow
    <3> QED  BY <3>1 DEF Calm, Lawful, Open, Unclaimed, Terminal, Overdue
  <2>2. \A u \in Tasks \ S : task'[u] = task[u]
        BY <1>9 DEF DeleteRecords, DeleteTaskRecords
  <2> QED  BY <2>1, <2>2, CalmSame
<1>10. CASE ListTasks  BY <1>10, SweptCalm DEF ListTasks, Sweep
<1> QED  BY <1>1, <1>2, <1>3, <1>4, <1>5, <1>6, <1>7, <1>8, <1>9, <1>10 DEF UserStep

LEMMA HeartbeatCalm ==
    ASSUME QueueTypeOK, NEW n, NEW active, NEW reports, NEW sandbox,
           Heartbeat(n, active, reports, sandbox)
    PROVE  \A u \in Tasks : Calm(task[u], task'[u])
<1>1. \A u \in Tasks : /\ task'[u].status = task[u].status /\ task'[u].node = task[u].node
                       /\ task'[u].outcome = task[u].outcome
      BY DEF Heartbeat, Renewed, QueueTypeOK, TaskRow
<1> QED  BY <1>1, CalmFields

\* A claim: the row was queued and is running now, on this node.
LEMMA ClaimCalm ==
    ASSUME QueueTypeOK, NEW t \in Tasks, NEW n, Claim(t, n)
    PROVE  /\ \A u \in Tasks : Calm(task[u], task'[u])
           /\ task[t].status = "queued" /\ task'[t].status = "running"
           /\ task'[t].node = n /\ task'[t].outcome = task[t].outcome
<1> DEFINE row == [task[t] EXCEPT !.status = "running", !.lease = LeaseDuration]
<1>1. /\ task[t].status = "queued" /\ task[t].node = n
      /\ task' = [SweptTasks({n}) EXCEPT ![t] = row]
      BY DEF Claim, ClaimTask, OldestClaimable, Claimable
<1>2. row.status = "running" /\ row.node = task[t].node /\ row.outcome = task[t].outcome
      BY DEF QueueTypeOK, TaskRow
<1> HIDE DEF row
<1>3. task'[t] = row /\ \A u \in Tasks \ {t} : task'[u] = SweptTasks({n})[u]
      BY <1>1, SweptTyped
<1>4. Calm(task[t], task'[t])
      BY <1>1, <1>2, <1>3 DEF Calm, Lawful, Unclaimed, Terminal, Overdue
<1> QED  BY <1>1, <1>2, <1>3, <1>4, SweptCalm

LEMMA ClaimUnrevealableCalm ==
    ASSUME QueueTypeOK, NEW t \in Tasks, NEW n, ClaimUnrevealable(t, n)
    PROVE  \A u \in Tasks : Calm(task[u], task'[u])
<1> DEFINE row == [task[t] EXCEPT !.status = "failed"]
<1>1. task[t].status = "queued" /\ task' = [SweptTasks({n}) EXCEPT ![t] = row]
      BY DEF ClaimUnrevealable, OldestClaimable, Claimable
<1>2. row.status = "failed" /\ row.node = task[t].node /\ row.outcome = task[t].outcome
      BY DEF QueueTypeOK, TaskRow
<1> HIDE DEF row
<1>3. task'[t] = row /\ \A u \in Tasks \ {t} : task'[u] = SweptTasks({n})[u]
      BY <1>1, SweptTyped
<1>4. Calm(task[t], task'[t])
      BY <1>1, <1>2, <1>3 DEF Calm, Lawful, Unclaimed, Terminal, Overdue
<1> QED  BY <1>3, <1>4, SweptCalm

LEMMA ProgressCalm ==
    ASSUME QueueTypeOK, NEW t, NEW n, Progress(t, n)
    PROVE  \A u \in Tasks : Calm(task[u], task'[u])
<1>1. \A u \in Tasks : /\ task'[u].status = task[u].status /\ task'[u].node = task[u].node
                       /\ task'[u].outcome = task[u].outcome
      BY DEF Progress, ProgressTask, QueueTypeOK, TaskRow
<1> QED  BY <1>1, CalmFields

\* A completion ends a running row of the node, as succeeded only if the node
\* said so and never as not executed.
LEMMA CompleteLawful ==
    ASSUME QueueTypeOK, NEW t \in Tasks, NEW n, NEW succeeded \in BOOLEAN,
           NEW evidence \in BOOLEAN, NEW outcome \in Reported,
           Complete(t, n, succeeded, evidence, outcome)
    PROVE  /\ \A u \in Tasks \ {t} : Calm(task[u], task'[u])
           /\ Lawful(task[t], task'[t])
           /\ task'[t].status = "succeeded" => succeeded
           /\ task'[t].status \in Terminal /\ task'[t].outcome # "not-executed"
<1> DEFINE row == task[t]
           ok  == Succeeds(row, succeeded, evidence)
           new == [row EXCEPT !.status = IF ok THEN "succeeded" ELSE "failed",
                              !.outcome = StoredOutcome(row, outcome), !.lease = 0]
<1>1. row \in TaskRow /\ SweptTasks({n}) \in [Tasks -> TaskRow]
      BY SweptTyped DEF QueueTypeOK
<1>2. task[t].status = "running" /\ task[t].node = n /\ ~ Overdue(task[t])
      BY DEF Complete, CompleteTask, Completable, SweptTasks, QueueTypeOK, TaskRow, Overdue,
             Expired
<1>3. new \in TaskRow /\ new.status \in Terminal  BY <1>1, CompletedRowTyped
<1>4. /\ new.status = "succeeded" => succeeded
      /\ new.outcome = StoredOutcome(row, outcome) /\ new.node = row.node
      BY <1>1 DEF TaskRow, Succeeds
<1>5. new.outcome \in Reported  BY <1>4 DEF StoredOutcome, Reported
<1>6. ASSUME NEW old \in TaskRow
      PROVE  /\ Unlinked(old, row, ok).status = old.status
             /\ Unlinked(old, row, ok).node = old.node
             /\ Unlinked(old, row, ok).outcome = old.outcome
      BY DEF Unlinked, TaskRow
<1>7. /\ task'[t] = Unlinked(new, row, ok)
      /\ \A u \in Tasks \ {t} : task'[u] = Unlinked(SweptTasks({n})[u], row, ok)
      BY DEF Complete, CompleteTask
<1> HIDE DEF new, ok, row
<1>8. /\ task'[t].status = new.status /\ task'[t].node = new.node
      /\ task'[t].outcome = new.outcome
      BY <1>3, <1>6, <1>7
<1>9. Lawful(task[t], task'[t])
      BY <1>2, <1>3, <1>4, <1>5, <1>8 DEF Lawful, Unclaimed, Terminal, Overdue, Reported, row
<1>10. ASSUME NEW u \in Tasks \ {t} PROVE Calm(task[u], task'[u])
  <2>1. /\ task'[u].status = SweptTasks({n})[u].status
        /\ task'[u].node = SweptTasks({n})[u].node
        /\ task'[u].outcome = SweptTasks({n})[u].outcome
        BY <1>1, <1>6, <1>7
  <2>2. Calm(task[u], SweptTasks({n})[u])  BY SweptCalm
  <2> QED  BY <2>1, <2>2 DEF Calm, Lawful, Open
<1> QED  BY <1>3, <1>4, <1>5, <1>8, <1>9, <1>10 DEF Reported

LEMMA TickCalm ==
    ASSUME QueueTypeOK, Tick PROVE \A u \in Tasks : Calm(task[u], task'[u])
<1>1. \A u \in Tasks : /\ task'[u].status = task[u].status /\ task'[u].node = task[u].node
                       /\ task'[u].outcome = task[u].outcome
      BY DEF Tick, AgeLeases, QueueTypeOK, TaskRow
<1> QED  BY <1>1, CalmFields

LEMMA NextLawful ==
    ASSUME QueueTypeOK, Next PROVE \A u \in Tasks : Lawful(task[u], task'[u])
<1> DEFINE Goal == \A u \in Tasks : Lawful(task[u], task'[u])
<1>1. CASE UserStep  BY <1>1, UserStepCalm DEF Calm
<1>2. CASE Tick  BY <1>2, TickCalm DEF Calm
<1>3. ASSUME NEW n \in Nodes, NEW active \in SUBSET Tasks, NEW S \in SUBSET Instances,
             NEW sandbox \in BOOLEAN,
             \E reports \in [S -> Report] : Heartbeat(n, active, reports, sandbox)
      PROVE  Goal
      BY <1>3, HeartbeatCalm DEF Calm
<1>4. ASSUME NEW t \in Tasks, NEW n \in Nodes,
             \/ Claim(t, n) \/ ClaimUnrevealable(t, n) \/ Progress(t, n)
      PROVE  Goal
      BY <1>4, ClaimCalm, ClaimUnrevealableCalm, ProgressCalm DEF Calm
<1>5. ASSUME NEW t \in Tasks, NEW n \in Nodes, ClaimEmpty(n) \/ CompleteLate(t, n)
      PROVE  Goal
      BY <1>5, SweptCalm DEF ClaimEmpty, ClaimNothing, CompleteLate, CompleteRefused, Sweep, Calm
<1>6. ASSUME NEW t \in Tasks, NEW n \in Nodes, NEW succeeded \in BOOLEAN,
             NEW evidence \in BOOLEAN, NEW outcome \in Reported,
             Complete(t, n, succeeded, evidence, outcome)
      PROVE  Goal
      BY <1>6, CompleteLawful DEF Calm
<1>7. ASSUME NEW n \in Nodes, ClaimEmpty(n) PROVE Goal
      BY <1>7, SweptCalm DEF ClaimEmpty, ClaimNothing, Sweep, Calm
<1> QED  BY <1>1, <1>2, <1>3, <1>4, <1>5, <1>6, <1>7 DEF Next, DaemonStep

\* The outcome of a task is written once: no late completion, cancellation,
\* expiry or retry changes a row that is already terminal, for any interleaving
\* of users, nodes and leases (the guards of completeMinecraftTask and
\* requestMinecraftTaskCancellation).
THEOREM OutcomesFinal == Spec => OutcomeFinal
<1> DEFINE Step == \A t \in Tasks : task[t].status \in Terminal =>
                      /\ task'[t].status \in {task[t].status, "deleted"}
                      /\ task'[t].outcome = task[t].outcome
<1>1. TypeOK /\ [Next]_vars => [Step]_vars
      BY NextLawful DEF Lawful, TypeOK
<1> QED  BY <1>1, TypeCorrect, PTL DEF Spec, OutcomeFinal

\* Late completions are not accepted: a task whose lease has run out is failed
\* with an unknown outcome, or stays running, whatever is reported of it and
\* whoever expires it first (failExpiredMinecraftTasks, with which a completion
\* and a claim begin).
THEOREM LateRefused == Spec => LateCompletionRefused
<1> DEFINE Step == \A t \in Tasks : Expired(t) /\ task'[t].status # "running" =>
                      task'[t].status = "failed" /\ task'[t].outcome = "unknown"
<1>1. TypeOK /\ [Next]_vars => [Step]_vars
      BY NextLawful DEF Lawful, Overdue, Expired, TypeOK
<1> QED  BY <1>1, TypeCorrect, PTL DEF Spec, LateCompletionRefused

-----------------------------------------------------------------------------
(* Nothing is stranded.                                                      *)

InProgress == {"queued", "downloading", "registering"}

\* Only installations are about a deployment, so that whatever ends an active
\* task of a deployment settles the deployment too.
Kinded == \A t \in Tasks : task[t].deployment # None => task[t].kind = "install"

\* Row t of table T is the stop that instance i waits for, ...
Stops(T, t, i) == T[t].status \in Active /\ T[t].kind = "stop" /\ T[t].instance = i

\* ... and the task that deployment d, in state s, waits for.
Moves(T, t, d, s) ==
    /\ T[t].status \in Active /\ T[t].deployment = d
    /\ s = "registering" <=> T[t].operation = "register"

\* What task', instance' and deployment' have to keep, one row at a time: a row
\* that waits has a task of its own or waited before for tasks that go on.
Attended(i) ==
    instance'[i].state = "stopping" =>
       \/ \E t \in Tasks : Stops(task', t, i)
       \/ /\ instance[i].state = "stopping"
          /\ \A t \in Tasks : Stops(task, t, i) => Stops(task', t, i)

Progressing(d) ==
    deployment'[d].state \in InProgress =>
       \/ \E t \in Tasks : Moves(task', t, d, deployment'[d].state)
       \/ /\ deployment[d].state \in InProgress
          /\ \A t \in Tasks : Moves(task, t, d, deployment[d].state)
                               => Moves(task', t, d, deployment'[d].state)

LEMMA NotStranded ==
    ASSUME NothingStranded, \A i \in Instances : Attended(i), \A d \in Deployments : Progressing(d)
    PROVE  NothingStranded'
<1>1. ASSUME NEW i \in Instances, instance'[i].state = "stopping"
      PROVE  \E t \in Tasks : Stops(task', t, i)
      BY <1>1 DEF NothingStranded, Attended, Stops
<1>2. ASSUME NEW d \in Deployments, deployment'[d].state \in InProgress
      PROVE  \E t \in Tasks : Moves(task', t, d, deployment'[d].state)
  <2>1. CASE \E t \in Tasks : Moves(task', t, d, deployment'[d].state)  BY <2>1
  <2>2. CASE /\ deployment[d].state \in InProgress
             /\ \A t \in Tasks : Moves(task, t, d, deployment[d].state)
                                  => Moves(task', t, d, deployment'[d].state)
    <3>1. PICK t \in Tasks : Moves(task, t, d, deployment[d].state)
          BY <2>2 DEF NothingStranded, Moves, InProgress
    <3> QED  BY <2>2, <3>1
  <2> QED  BY <1>2, <2>1, <2>2 DEF Progressing
<1> QED  BY <1>1, <1>2 DEF NothingStranded, Stops, Moves, InProgress

\* A sweep leaves alone the tasks of what it leaves waiting.
LEMMA SweptWaiting ==
    ASSUME QueueTypeOK, NEW N
    PROVE  /\ \A i \in Instances : SweptInstances(N)[i].state = "stopping" =>
                 /\ instance[i].state = "stopping"
                 /\ \A t \in Tasks : Stops(task, t, i) => SweptTasks(N)[t] = task[t]
           /\ \A d \in Deployments : SweptDeployments(N)[d].state \in InProgress =>
                 /\ SweptDeployments(N)[d] = deployment[d]
                 /\ \A t \in Tasks : task[t].deployment = d => SweptTasks(N)[t] = task[t]
<1>1. ASSUME NEW i \in Instances, SweptInstances(N)[i].state = "stopping"
      PROVE  /\ instance[i].state = "stopping"
             /\ \A t \in Tasks : Stops(task, t, i) => SweptTasks(N)[t] = task[t]
  <2>1. SweptInstances(N)[i] = instance[i]
        BY <1>1 DEF SweptInstances, QueueTypeOK, InstanceRow
  <2>2. ASSUME NEW t \in Tasks, Stops(task, t, i), Expired(t), task[t].node \in N
        PROVE  FALSE
    <3>1. SweptInstances(N)[i] = [instance[i] EXCEPT !.state = "unknown"]
          BY <1>1, <2>1, <2>2 DEF SweptInstances, Stops, Lifecycle, Transitional
    <3>2. SweptInstances(N)[i].state = "unknown"  BY <3>1 DEF QueueTypeOK, InstanceRow
    <3> QED  BY <1>1, <3>2
  <2> QED  BY <1>1, <2>1, <2>2 DEF SweptTasks
<1>2. ASSUME NEW d \in Deployments, SweptDeployments(N)[d].state \in InProgress
      PROVE  /\ SweptDeployments(N)[d] = deployment[d]
             /\ \A t \in Tasks : task[t].deployment = d => SweptTasks(N)[t] = task[t]
  <2> DEFINE hit == {t \in Tasks : Expired(t) /\ task[t].node \in N /\ task[t].deployment = d}
  <2>1. SweptDeployments(N)[d] =
          IF hit = {} THEN deployment[d]
          ELSE [deployment[d] EXCEPT !.state =
                  IF \E t \in hit : task[t].operation = "register" THEN "ready" ELSE "failed"]
        BY DEF SweptDeployments
  <2>2. deployment[d] \in DeploymentRow  BY DEF QueueTypeOK
  <2>3. hit = {}
    <3> HIDE DEF hit
    <3> QED  BY <1>2, <2>1, <2>2 DEF DeploymentRow, InProgress
  <2> QED  BY <2>1, <2>3 DEF SweptTasks
<1> QED  BY <1>1, <1>2

\* Tables that are swept and then gain row t: everything else goes on.
LEMMA CreateGoesOn ==
    ASSUME QueueTypeOK, NEW T, NEW t \in Tasks, NEW row, CreateTask(T, t, row),
           T \in [Tasks -> TaskRow], NEW u \in Tasks, T[u] = task[u], task[u].status \in Active
    PROVE  task'[u] = task[u]
BY DEF CreateTask, Active

LEMMA SweepAttends ==
    ASSUME QueueTypeOK, NEW N, task' = SweptTasks(N),
           \A i \in Instances : instance'[i].state = SweptInstances(N)[i].state,
           deployment' = SweptDeployments(N)
    PROVE  (\A i \in Instances : Attended(i)) /\ (\A d \in Deployments : Progressing(d))
BY SweptWaiting DEF Attended, Progressing, Stops, Moves

\* Steps of which neither rows of tasks nor states see much.
LEMMA QuietAttends ==
    ASSUME \A t \in Tasks : task[t].status \in Active =>
              /\ task'[t].status \in Active /\ task'[t].kind = task[t].kind
              /\ task'[t].instance = task[t].instance /\ task'[t].deployment = task[t].deployment
              /\ task'[t].operation = task[t].operation,
           \A i \in Instances : instance'[i].state \in {instance[i].state} \cup (InstanceStates \ {"stopping"}),
           deployment' = deployment
    PROVE  (\A i \in Instances : Attended(i)) /\ (\A d \in Deployments : Progressing(d))
BY DEF Attended, Progressing, Stops, Moves

LEMMA UserStepAttends ==
    ASSUME QueueTypeOK, UserStep
    PROVE  (\A i \in Instances : Attended(i)) /\ (\A d \in Deployments : Progressing(d))
<1> DEFINE Goal == (\A i \in Instances : Attended(i)) /\ (\A d \in Deployments : Progressing(d))
<1>0. /\ task \in [Tasks -> TaskRow] /\ instance \in [Instances -> InstanceRow]
      /\ deployment \in [Deployments -> DeploymentRow]
      BY DEF QueueTypeOK
<1>1. ASSUME NEW t \in Tasks, NEW i \in Instances, NEW kind \in Offered, NEW setting \in BOOLEAN,
             QueueInstanceAction(t, i, kind, setting)
      PROVE  Goal
  <2> DEFINE T == IF SweepsFirst(kind) THEN SweptTasks(Nodes) ELSE task
             I == IF SweepsFirst(kind) THEN SweptInstances(Nodes) ELSE instance
             D == IF SweepsFirst(kind) THEN SweptDeployments(Nodes) ELSE deployment
             row == NewTask(kind, "none", instance[i].node, i, None, TaskMode(kind, i, setting))
  <2>1. T \in [Tasks -> TaskRow] /\ I \in [Instances -> InstanceRow]
        BY <1>0, SweptTyped
  <2>2. /\ \A j \in Instances : I[j].state = "stopping" =>
              /\ instance[j].state = "stopping"
              /\ \A u \in Tasks : Stops(task, u, j) => T[u] = task[u]
        /\ \A d \in Deployments : D[d].state \in InProgress =>
              /\ D[d] = deployment[d]
              /\ \A u \in Tasks : task[u].deployment = d => T[u] = task[u]
        BY SweptWaiting
  <2>3. row.instance = i /\ row.kind = kind /\ row.status = "queued"  BY DEF NewTask
  <2>4. /\ CreateTask(T, t, row) /\ deployment' = D
        /\ instance' = [I EXCEPT ![i].state = QueuedState(kind, @)]
        BY <1>1 DEF QueueInstanceAction
  <2> HIDE DEF T, I, D, row
  <2>5. /\ instance'[i].state = QueuedState(kind, I[i].state)
        /\ \A j \in Instances \ {i} : instance'[j] = I[j]
        BY <2>1, <2>4 DEF InstanceRow
  <2>6. \A u \in Tasks : T[u] = task[u] /\ task[u].status \in Active => task'[u] = task[u]
        BY <2>1, <2>4, CreateGoesOn
  <2>7. kind = "stop" => Stops(task', t, i)
        BY <2>1, <2>3, <2>4 DEF CreateTask, Stops, Active
  <2>8. ASSUME NEW j \in Instances, instance'[j].state = "stopping", ~ (j = i /\ kind = "stop")
        PROVE  I[j].state = "stopping"
    <3>1. CASE j = i  BY <2>5, <2>8, <3>1 DEF QueuedState
    <3>2. CASE j # i  BY <2>5, <2>8, <3>2
    <3> QED  BY <3>1, <3>2
  <2>9. ASSUME NEW j \in Instances PROVE Attended(j)
        BY <2>2, <2>6, <2>7, <2>8 DEF Attended, Stops
  <2>10. ASSUME NEW d \in Deployments PROVE Progressing(d)
        BY <2>2, <2>4, <2>6 DEF Progressing, Moves
  <2> QED  BY <2>9, <2>10
\* The five operations that only add to the task table.
<1>2. ASSUME NEW t \in Tasks, NEW kind, NEW op, NEW node, NEW j, NEW d, NEW mode,
             CreateTask(task, t, NewTask(kind, op, node, j, d, mode)),
             \A i \in Instances : instance'[i].state \in {instance[i].state, "installing"},
             \A e \in Deployments : e # d => deployment'[e] = deployment[e],
             d \in Deployments =>
                deployment'[d].state = IF op = "register" THEN "registering" ELSE "queued"
      PROVE  Goal
  <2>1. \A u \in Tasks : task[u].status \in Active => task'[u] = task[u]
        BY <1>0, <1>2, CreateGoesOn
  <2>2. task'[t] = NewTask(kind, op, node, j, d, mode)  BY <1>0, <1>2 DEF CreateTask
  <2>3. task'[t].status = "queued" /\ task'[t].deployment = d /\ task'[t].operation = op
        BY <2>2 DEF NewTask
  <2>4. ASSUME NEW i \in Instances PROVE Attended(i)
        BY <1>2, <2>1 DEF Attended, Stops
  <2>5. ASSUME NEW e \in Deployments PROVE Progressing(e)
    <3>1. CASE e = d  BY <1>2, <2>3, <3>1 DEF Progressing, Moves, Active
    <3>2. CASE e # d  BY <1>2, <2>1, <3>2 DEF Progressing, Moves
    <3> QED  BY <3>1, <3>2
  <2> QED  BY <2>4, <2>5
<1>3. ASSUME NEW t \in Tasks, NEW n \in Nodes, QueueJavaInstall(t, n) PROVE Goal
  <2>1. /\ CreateTask(task, t, NewTask("java-install", "none", n, None, None, FALSE))
        /\ instance' = instance /\ deployment' = deployment
        BY <1>3 DEF QueueJavaInstall
  <2>2. None \notin Deployments  BY NoneAssumption
  <2> QED  BY <1>2, <2>1, <2>2
<1>4. ASSUME NEW t \in Tasks, NEW d \in Deployments, NEW n \in Nodes, QueueDeploy(t, d, n) PROVE Goal
  <2>1. /\ CreateTask(task, t, NewTask("install", "deploy", n, None, d, FALSE))
        /\ instance' = instance
        BY <1>4 DEF QueueDeploy
  <2>2. /\ deployment'[d].state = "queued"
        /\ \A e \in Deployments : e # d => deployment'[e] = deployment[e]
        BY <1>0, <1>4 DEF QueueDeploy, DeploymentRow
  <2> QED  BY <1>2, <2>1, <2>2
<1>5. ASSUME NEW t \in Tasks, NEW d \in Deployments, NEW i \in Instances, NEW native \in BOOLEAN,
             RegisterDeployment(t, d, i, native)
      PROVE  Goal
  <2>1. CreateTask(task, t, NewTask("install", "register", deployment[d].node, i, d, native))
        BY <1>5 DEF RegisterDeployment
  <2>2. \A k \in Instances : instance'[k].state \in {instance[k].state, "installing"}
        BY <1>0, <1>5 DEF RegisterDeployment
  <2>3. /\ deployment'[d].state = "registering"
        /\ \A e \in Deployments : e # d => deployment'[e] = deployment[e]
        BY <1>0, <1>5 DEF RegisterDeployment, DeploymentRow
  <2> QED  BY <1>2, <2>1, <2>2, <2>3
<1>6. ASSUME NEW t \in Tasks, NEW d \in Deployments, NEW i \in Instances, NEW n \in Nodes,
             Provision(t, d, i, n)
      PROVE  Goal
  <2>1. CreateTask(task, t, NewTask("install", "provision", n, i, d, TRUE))
        BY <1>6 DEF Provision
  <2>2. \A k \in Instances : instance'[k].state \in {instance[k].state, "installing"}
        BY <1>0, <1>6 DEF Provision
  <2>3. /\ deployment'[d].state = "queued"
        /\ \A e \in Deployments : e # d => deployment'[e] = deployment[e]
        BY <1>0, <1>6 DEF Provision, DeploymentRow
  <2> QED  BY <1>2, <2>1, <2>2, <2>3
<1>7. ASSUME NEW t \in Tasks, NEW d \in Deployments, RetryProvision(t, d) PROVE Goal
  <2>1. CreateTask(task, t, NewTask("install", "provision", deployment[d].node,
                                    deployment[d].instance, d, TRUE))
        BY <1>7 DEF RetryProvision
  <2>2. \A k \in Instances : instance'[k].state \in {instance[k].state, "installing"}
        BY <1>0, <1>7 DEF RetryProvision, InstanceRow
  <2>3. /\ deployment'[d].state = "queued"
        /\ \A e \in Deployments : e # d => deployment'[e] = deployment[e]
        BY <1>0, <1>7 DEF RetryProvision, DeploymentRow
  <2> QED  BY <1>2, <2>1, <2>2, <2>3
<1>8. ASSUME NEW i \in Instances, UpdateJavaRuntime(i) PROVE Goal
  <2>1. \A j \in Instances : instance'[j].state = SweptInstances(Nodes)[j].state
        BY <1>8, SweptTyped DEF UpdateJavaRuntime, InstanceRow
  <2>2. task' = SweptTasks(Nodes) /\ deployment' = SweptDeployments(Nodes)
        BY <1>8 DEF UpdateJavaRuntime
  <2> QED  BY <2>1, <2>2, SweepAttends
<1>9. ASSUME NEW t \in Tasks, RequestCancellation(t) PROVE Goal
  <2>1. CASE CancelQueued(t)
    <3>1. \A u \in Tasks \ {t} : task'[u] = task[u]
          BY <1>0, <2>1 DEF CancelQueued
    <3>2. ASSUME NEW i \in Instances PROVE Attended(i)
      <4>1. CASE i = task[t].instance
        <5>1. instance'[i].state \in {"error", "stopped"}
              BY <1>0, <2>1, <4>1 DEF CancelQueued, InstanceRow
        <5> QED  BY <5>1 DEF Attended
      <4>2. CASE i # task[t].instance
            BY <2>1, <3>1, <4>2 DEF CancelQueued, Attended, Stops
      <4> QED  BY <4>1, <4>2
    <3>3. ASSUME NEW d \in Deployments PROVE Progressing(d)
      <4>1. CASE d = task[t].deployment
        <5>1. deployment'[d].state = "failed"
              BY <1>0, <2>1, <4>1 DEF CancelQueued, DeploymentRow
        <5> QED  BY <5>1 DEF Progressing, InProgress
      <4>2. CASE d # task[t].deployment
            BY <2>1, <3>1, <4>2 DEF CancelQueued, Progressing, Moves
      <4> QED  BY <4>1, <4>2
    <3> QED  BY <3>2, <3>3
  <2>2. CASE CancelRunning(t)
    <3>1. \A u \in Tasks :
             /\ task'[u].status = task[u].status /\ task'[u].kind = task[u].kind
             /\ task'[u].instance = task[u].instance /\ task'[u].deployment = task[u].deployment
             /\ task'[u].operation = task[u].operation
          BY <1>0, <2>2 DEF CancelRunning, TaskRow
    <3> QED  BY <2>2, <3>1, QuietAttends DEF CancelRunning
  <2> QED  BY <1>9, <2>1, <2>2 DEF RequestCancellation
<1>10. ASSUME NEW S \in SUBSET Tasks, DeleteRecords(S) PROVE Goal
  <2>1. /\ instance' = instance /\ deployment' = deployment
        /\ \A u \in Tasks : task[u].status \in Active => task'[u] = task[u]
        BY <1>10 DEF DeleteRecords, DeleteTaskRecords, Active, Terminal
  <2> QED  BY <2>1, QuietAttends
<1>11. CASE ListTasks  BY <1>11, SweepAttends DEF ListTasks, Sweep
<1> QED  BY <1>1, <1>3, <1>4, <1>5, <1>6, <1>7, <1>8, <1>9, <1>10, <1>11 DEF UserStep

LEMMA ClaimAttends ==
    ASSUME QueueTypeOK, NEW t \in Tasks, NEW n, Claim(t, n)
    PROVE  (\A i \in Instances : Attended(i)) /\ (\A d \in Deployments : Progressing(d))
<1> DEFINE row == [task[t] EXCEPT !.status = "running", !.lease = LeaseDuration]
           D   == SweptDeployments({n})
<1>1. /\ task' = [SweptTasks({n}) EXCEPT ![t] = row] /\ instance' = SweptInstances({n})
      /\ task[t].status = "queued"
      BY DEF Claim, ClaimTask, OldestClaimable, Claimable
<1>2. /\ row.status = "running" /\ row.kind = task[t].kind /\ row.instance = task[t].instance
      /\ row.deployment = task[t].deployment /\ row.operation = task[t].operation
      BY DEF QueueTypeOK, TaskRow
<1>3. \A d \in Deployments :
         \/ deployment'[d] = D[d]
         \/ D[d].state = "queued" /\ deployment'[d] = [D[d] EXCEPT !.state = "downloading"]
      BY DEF Claim, ClaimTask
<1>4. D \in [Deployments -> DeploymentRow] /\ SweptTasks({n}) \in [Tasks -> TaskRow]
      BY SweptTyped
<1> HIDE DEF row
<1>5. task'[t] = row /\ \A u \in Tasks \ {t} : task'[u] = SweptTasks({n})[u]
      BY <1>1, <1>4
<1>6. ASSUME NEW i \in Instances PROVE Attended(i)
  <2>1. ASSUME NEW u \in Tasks, Stops(task, u, i), SweptTasks({n})[u] = task[u]
        PROVE  Stops(task', u, i)
        BY <1>2, <1>5, <2>1 DEF Stops, Active
  <2> QED  BY <1>1, <2>1, SweptWaiting DEF Attended
<1>7. ASSUME NEW d \in Deployments, deployment'[d].state \in InProgress PROVE Progressing(d)
  <2>1. D[d].state \in InProgress
          /\ (D[d].state = "registering" <=> deployment'[d].state = "registering")
    <3> HIDE DEF D
    <3>1. CASE deployment'[d] = D[d]  BY <1>7, <3>1
    <3>2. CASE D[d].state = "queued" /\ deployment'[d] = [D[d] EXCEPT !.state = "downloading"]
      <4>1. deployment'[d].state = "downloading"  BY <1>4, <3>2 DEF DeploymentRow
      <4> QED  BY <3>2, <4>1 DEF InProgress
    <3> QED  BY <1>3, <3>1, <3>2
  <2>2. D[d] = deployment[d]  BY <2>1, SweptWaiting
  <2>3. \A u \in Tasks : task[u].deployment = d => SweptTasks({n})[u] = task[u]
        BY <2>1, SweptWaiting
  <2> HIDE DEF D
  <2>4. ASSUME NEW u \in Tasks, Moves(task, u, d, deployment[d].state)
        PROVE  Moves(task', u, d, deployment'[d].state)
        BY <1>2, <1>5, <2>1, <2>2, <2>3, <2>4 DEF Moves, Active
  <2> QED  BY <2>1, <2>2, <2>4 DEF Progressing
<1> QED  BY <1>6, <1>7 DEF Progressing

LEMMA CompleteAttends ==
    ASSUME IInv, Kinded, NothingStranded, NEW t \in Tasks, NEW n, NEW succeeded \in BOOLEAN,
           NEW evidence \in BOOLEAN, NEW outcome \in Reported,
           Complete(t, n, succeeded, evidence, outcome)
    PROVE  (\A i \in Instances : Attended(i)) /\ (\A d \in Deployments : Progressing(d))
<1> DEFINE row == task[t]
           ok  == Succeeds(row, succeeded, evidence)
           T   == SweptTasks({n})
           I   == SweptInstances({n})
           D   == SweptDeployments({n})
<1>0. QueueTypeOK  BY DEF IInv, TypeOK
<1>1. /\ T \in [Tasks -> TaskRow] /\ I \in [Instances -> InstanceRow]
      /\ D \in [Deployments -> DeploymentRow] /\ row \in TaskRow
      BY <1>0, SweptTyped DEF QueueTypeOK
<1>2. task[t].status \in Active
      BY <1>0 DEF Complete, CompleteTask, Completable, SweptTasks, QueueTypeOK, TaskRow, Active
<1>3. /\ \A u \in Tasks \ {t} : task'[u] = Unlinked(T[u], row, ok)
      /\ \A i \in Instances : instance'[i] =
            IF i = row.instance THEN CompletedInstance(I[i], row, ok, outcome) ELSE I[i]
      /\ \A d \in Deployments : deployment'[d] =
            IF d \in Removed(row, ok) THEN [NoDeployment EXCEPT !.state = "deleted"]
            ELSE IF d = row.deployment /\ row.kind = "install"
            THEN [D[d] EXCEPT !.state = CompletedDeployment(row, ok)]
            ELSE D[d]
      BY DEF Complete, CompleteTask
<1>4. /\ \A i \in Instances : I[i].state = "stopping" =>
            /\ instance[i].state = "stopping"
            /\ \A u \in Tasks : Stops(task, u, i) => T[u] = task[u]
      /\ \A d \in Deployments : D[d].state \in InProgress =>
            /\ D[d] = deployment[d]
            /\ \A u \in Tasks : task[u].deployment = d => T[u] = task[u]
      BY <1>0, SweptWaiting
<1>5. ASSUME NEW old \in TaskRow
      PROVE  /\ Unlinked(old, row, ok).status = old.status
             /\ Unlinked(old, row, ok).kind = old.kind
             /\ Unlinked(old, row, ok).operation = old.operation
             /\ old.instance # row.instance => Unlinked(old, row, ok).instance = old.instance
             /\ old.deployment \notin Removed(row, ok)
                   => Unlinked(old, row, ok).deployment = old.deployment
      BY DEF Unlinked, TaskRow
<1>6. row.deployment # None => row.kind = "install"  BY DEF Kinded
<1> HIDE DEF row, ok, T, I, D
<1>7. ASSUME NEW i \in Instances, instance'[i].state = "stopping" PROVE Attended(i)
  <2>1. CASE i = row.instance
    <3>1. instance'[i] = CompletedInstance(I[i], row, ok, outcome)  BY <1>3, <2>1
    <3>2. CASE row.kind = "delete" /\ ok
          BY <1>7, <3>1, <3>2 DEF CompletedInstance, NoInstance
    <3>3. CASE ~ (row.kind = "delete" /\ ok)
      <4>1. instance'[i].state = CompletedState(row, ok, outcome, I[i].state)
            BY <1>1, <3>1, <3>3 DEF CompletedInstance, InstanceRow
      <4>2. I[i].state = "stopping" /\ row.kind # "stop"
            BY <1>7, <4>1 DEF CompletedState
      <4>3. PICK u \in Tasks : Stops(task, u, i)
            BY <1>4, <4>2 DEF NothingStranded, Stops
      <4>4. i # None  BY NoneAssumption
      <4>5. u = t  BY <1>2, <2>1, <4>3, <4>4 DEF Stops, IInv, InstanceExclusive, row
      <4> QED  BY <4>2, <4>3, <4>5 DEF Stops, row
    <3> QED  BY <3>2, <3>3
  <2>2. CASE i # row.instance
    <3>1. I[i].state = "stopping"  BY <1>3, <1>7, <2>2
    <3>2. ASSUME NEW u \in Tasks, Stops(task, u, i) PROVE Stops(task', u, i)
      <4>1. u # t  BY <2>2, <3>2 DEF Stops, row
      <4>2. T[u] = task[u] /\ task[u].instance # row.instance
            BY <1>4, <2>2, <3>1, <3>2 DEF Stops
      <4>3. task'[u].status = task[u].status /\ task'[u].kind = task[u].kind
              /\ task'[u].instance = task[u].instance
            BY <1>1, <1>3, <1>5, <4>1, <4>2
      <4> QED  BY <3>2, <4>3 DEF Stops
    <3> QED  BY <1>4, <3>1, <3>2 DEF Attended
  <2> QED  BY <2>1, <2>2
<1>8. ASSUME NEW d \in Deployments, deployment'[d].state \in InProgress PROVE Progressing(d)
  <2>1. d \notin Removed(row, ok)
        BY <1>3, <1>8 DEF NoDeployment, InProgress
  <2>2. d # row.deployment
    <3> SUFFICES ASSUME d = row.deployment PROVE FALSE  OBVIOUS
    <3>1. deployment'[d] = [D[d] EXCEPT !.state = CompletedDeployment(row, ok)]
          BY <1>3, <1>6, <2>1, NoneAssumption
    <3>2. deployment'[d].state \in {"registered", "failed", "ready"}
          BY <1>1, <3>1 DEF DeploymentRow, CompletedDeployment
    <3> QED  BY <1>8, <3>2 DEF InProgress
  <2>3. deployment'[d] = D[d]  BY <1>3, <2>1, <2>2
  <2>4. D[d] = deployment[d] /\ \A u \in Tasks : task[u].deployment = d => T[u] = task[u]
        BY <1>4, <1>8, <2>3
  <2>5. ASSUME NEW u \in Tasks, Moves(task, u, d, deployment[d].state)
        PROVE  Moves(task', u, d, deployment'[d].state)
    <3>1. task[u].deployment = d /\ u # t /\ T[u] = task[u]
          BY <2>2, <2>4, <2>5 DEF Moves, row
    <3>2. task'[u].status = task[u].status /\ task'[u].operation = task[u].operation
            /\ task'[u].deployment = task[u].deployment
          BY <1>1, <1>3, <1>5, <2>1, <3>1
    <3> QED  BY <2>3, <2>4, <2>5, <3>2 DEF Moves
  <2> QED  BY <1>8, <2>3, <2>4, <2>5 DEF Progressing
<1> QED  BY <1>7, <1>8 DEF Attended, Progressing

LEMMA DaemonStepAttends ==
    ASSUME IInv, Kinded, NothingStranded, DaemonStep
    PROVE  (\A i \in Instances : Attended(i)) /\ (\A d \in Deployments : Progressing(d))
<1> DEFINE Goal == (\A i \in Instances : Attended(i)) /\ (\A d \in Deployments : Progressing(d))
<1>0. QueueTypeOK /\ task \in [Tasks -> TaskRow] /\ instance \in [Instances -> InstanceRow]
      BY DEF IInv, TypeOK, QueueTypeOK
<1>1. ASSUME NEW n \in Nodes, NEW active \in SUBSET Tasks, NEW S \in SUBSET Instances,
             NEW sandbox \in BOOLEAN, NEW reports \in [S -> Report],
             Heartbeat(n, active, reports, sandbox)
      PROVE  Goal
  <2>1. \A u \in Tasks :
           /\ task'[u].status = task[u].status /\ task'[u].kind = task[u].kind
           /\ task'[u].instance = task[u].instance /\ task'[u].deployment = task[u].deployment
           /\ task'[u].operation = task[u].operation
        BY <1>0, <1>1 DEF Heartbeat, Renewed, TaskRow
  <2>2. ASSUME NEW i \in Instances
        PROVE  instance'[i].state \in {instance[i].state} \cup (InstanceStates \ {"stopping"})
    <3>1. CASE i \in S /\ ReportAccepted(n, i, reports[i])
      <4>1. instance'[i] = [instance[i] EXCEPT !.state = reports[i].state,
                                                !.sandbox = reports[i].sandbox]
            BY <1>1, <3>1 DEF Heartbeat, ReportedInstances
      <4>2. reports[i] \in Report  BY <3>1
      <4>3. reports[i].state \in InstanceStates \ {"stopping"}
            BY <4>2 DEF Report, InstanceStates, Transitional
      <4>4. instance'[i].state = reports[i].state  BY <1>0, <4>1 DEF InstanceRow
      <4> QED  BY <4>3, <4>4
    <3>2. CASE ~ (i \in S /\ ReportAccepted(n, i, reports[i]))
          BY <1>1, <3>2 DEF Heartbeat, ReportedInstances
    <3> QED  BY <3>1, <3>2
  <2>3. deployment' = deployment  BY <1>1 DEF Heartbeat
  <2> QED  BY <2>1, <2>2, <2>3, QuietAttends
<1>2. ASSUME NEW t \in Tasks, NEW n \in Nodes, Claim(t, n) PROVE Goal
      BY <1>0, <1>2, ClaimAttends
<1>3. ASSUME NEW t \in Tasks, NEW n \in Nodes, ClaimUnrevealable(t, n) PROVE Goal
  <2>1. /\ task' = [SweptTasks({n}) EXCEPT ![t] = [task[t] EXCEPT !.status = "failed"]]
        /\ instance' = SweptInstances({n}) /\ deployment' = SweptDeployments({n})
        /\ task[t].kind = "properties"
        BY <1>3 DEF ClaimUnrevealable
  <2>2. \A u \in Tasks \ {t} : task'[u] = SweptTasks({n})[u]
        BY <1>0, <2>1, SweptTyped
  <2>3. task[t].deployment \notin Deployments  BY <1>0, <2>1, NoneAssumption DEF Kinded, TaskRow
  <2>4. ASSUME NEW i \in Instances PROVE Attended(i)
        BY <1>0, <2>1, <2>2, SweptWaiting DEF Attended, Stops
  <2>5. ASSUME NEW d \in Deployments PROVE Progressing(d)
        BY <1>0, <2>1, <2>2, <2>3, SweptWaiting DEF Progressing, Moves
  <2> QED  BY <2>4, <2>5
<1>4. ASSUME NEW n \in Nodes, ClaimEmpty(n) PROVE Goal
      BY <1>0, <1>4, SweepAttends DEF ClaimEmpty, ClaimNothing, Sweep
<1>5. ASSUME NEW t \in Tasks, NEW n \in Nodes, Progress(t, n) PROVE Goal
  <2>1. \A u \in Tasks :
           /\ task'[u].status = task[u].status /\ task'[u].kind = task[u].kind
           /\ task'[u].instance = task[u].instance /\ task'[u].deployment = task[u].deployment
           /\ task'[u].operation = task[u].operation
        BY <1>0, <1>5 DEF Progress, ProgressTask, TaskRow
  <2> QED  BY <1>5, <2>1, QuietAttends DEF Progress, ProgressTask
<1>6. ASSUME NEW t \in Tasks, NEW n \in Nodes, CompleteLate(t, n) PROVE Goal
      BY <1>0, <1>6, SweepAttends DEF CompleteLate, CompleteRefused, Sweep
<1>7. ASSUME NEW t \in Tasks, NEW n \in Nodes, NEW succeeded \in BOOLEAN,
             NEW evidence \in BOOLEAN, NEW outcome \in Reported,
             Complete(t, n, succeeded, evidence, outcome)
      PROVE  Goal
      BY <1>7, CompleteAttends
<1>8. ASSUME NEW n \in Nodes, NEW active \in SUBSET Tasks, NEW S \in SUBSET Instances,
             NEW sandbox \in BOOLEAN,
             \E reports \in [S -> Report] : Heartbeat(n, active, reports, sandbox)
      PROVE  Goal
      BY <1>1, <1>8
<1> QED  BY <1>2, <1>3, <1>4, <1>5, <1>6, <1>7, <1>8 DEF DaemonStep

LEMMA TickAttends ==
    ASSUME QueueTypeOK, Tick
    PROVE  (\A i \in Instances : Attended(i)) /\ (\A d \in Deployments : Progressing(d))
<1>1. \A u \in Tasks :
         /\ task'[u].status = task[u].status /\ task'[u].kind = task[u].kind
         /\ task'[u].instance = task[u].instance /\ task'[u].deployment = task[u].deployment
         /\ task'[u].operation = task[u].operation
      BY DEF Tick, AgeLeases, QueueTypeOK, TaskRow
<1> QED  BY <1>1, QuietAttends DEF Tick, AgeLeases

\* A row keeps its kind, and its deployment unless that is set to NULL.
KindKept(old, new) == new.kind = old.kind /\ new.deployment \in {old.deployment, None}

LEMMA SweptKind ==
    ASSUME QueueTypeOK, NEW N, NEW u \in Tasks
    PROVE  KindKept(task[u], SweptTasks(N)[u])
BY DEF SweptTasks, QueueTypeOK, TaskRow, KindKept

LEMMA KindedKept == ASSUME IInv, Kinded, Next PROVE Kinded'
<1>0. QueueTypeOK /\ task \in [Tasks -> TaskRow]  BY DEF IInv, TypeOK, QueueTypeOK
<1>1. ASSUME \A u \in Tasks : KindKept(task[u], task'[u]) PROVE Kinded'
      BY <1>1 DEF Kinded, KindKept
<1>2. ASSUME NEW t \in Tasks, NEW T, T = task \/ T = SweptTasks(Nodes), NEW kind, NEW op,
             NEW n, NEW i, NEW d, NEW mode, CreateTask(T, t, NewTask(kind, op, n, i, d, mode)),
             d # None => kind = "install"
      PROVE  Kinded'
  <2>1. T \in [Tasks -> TaskRow]  BY <1>0, <1>2, SweptTyped
  <2>2. task'[t] = NewTask(kind, op, n, i, d, mode) /\ \A u \in Tasks \ {t} : task'[u] = T[u]
        BY <1>2, <2>1 DEF CreateTask
  <2>3. task'[t].kind = kind /\ task'[t].deployment = d  BY <2>2 DEF NewTask
  <2>4. \A u \in Tasks : KindKept(task[u], T[u])  BY <1>0, <1>2, SweptKind DEF KindKept
  <2> QED  BY <1>2, <2>2, <2>3, <2>4 DEF Kinded, KindKept
<1>3. CASE UserStep
  <2>1. ASSUME NEW t \in Tasks, NEW i \in Instances, NEW kind \in Offered,
               NEW setting \in BOOLEAN, QueueInstanceAction(t, i, kind, setting)
        PROVE  Kinded'
    <3> DEFINE T == IF SweepsFirst(kind) THEN SweptTasks(Nodes) ELSE task
    <3>1. CreateTask(T, t, NewTask(kind, "none", instance[i].node, i, None,
                                   TaskMode(kind, i, setting)))
          BY <2>1 DEF QueueInstanceAction
    <3>2. T = task \/ T = SweptTasks(Nodes)  OBVIOUS
    <3> HIDE DEF T
    <3> QED  BY <1>2, <3>1, <3>2
  <2>2. ASSUME NEW t \in Tasks, NEW n \in Nodes, QueueJavaInstall(t, n) PROVE Kinded'
        BY <1>2, <2>2 DEF QueueJavaInstall
  <2>3. ASSUME NEW t \in Tasks, NEW d \in Deployments, NEW n \in Nodes, QueueDeploy(t, d, n)
        PROVE  Kinded'
        BY <1>2, <2>3 DEF QueueDeploy
  <2>4. ASSUME NEW t \in Tasks, NEW d \in Deployments, NEW i \in Instances,
               NEW native \in BOOLEAN, RegisterDeployment(t, d, i, native)
        PROVE  Kinded'
        BY <1>2, <2>4 DEF RegisterDeployment
  <2>5. ASSUME NEW t \in Tasks, NEW d \in Deployments, NEW i \in Instances, NEW n \in Nodes,
               Provision(t, d, i, n)
        PROVE  Kinded'
        BY <1>2, <2>5 DEF Provision
  <2>6. ASSUME NEW t \in Tasks, NEW d \in Deployments, RetryProvision(t, d) PROVE Kinded'
        BY <1>2, <2>6 DEF RetryProvision
  <2>7. ASSUME NEW i \in Instances, UpdateJavaRuntime(i) PROVE Kinded'
        BY <1>0, <1>1, <2>7, SweptKind DEF UpdateJavaRuntime
  <2>8. ASSUME NEW t \in Tasks, RequestCancellation(t) PROVE Kinded'
        BY <1>0, <2>8 DEF RequestCancellation, CancelQueued, CancelRunning, Kinded, TaskRow
  <2>9. ASSUME NEW S \in SUBSET Tasks, DeleteRecords(S) PROVE Kinded'
        BY <1>0, <2>9 DEF DeleteRecords, DeleteTaskRecords, Kinded, TaskRow
  <2>10. CASE ListTasks  BY <1>0, <1>1, <2>10, SweptKind DEF ListTasks, Sweep
  <2> QED  BY <1>3, <2>1, <2>2, <2>3, <2>4, <2>5, <2>6, <2>7, <2>8, <2>9, <2>10 DEF UserStep
<1>4. CASE DaemonStep
  <2>1. ASSUME NEW n \in Nodes, NEW active \in SUBSET Tasks, NEW S \in SUBSET Instances,
               NEW sandbox \in BOOLEAN,
               \E reports \in [S -> Report] : Heartbeat(n, active, reports, sandbox)
        PROVE  Kinded'
        BY <1>0, <2>1 DEF Heartbeat, Renewed, Kinded, TaskRow
  \* A claim writes one row over what the sweep left.
  <2>2. ASSUME NEW t \in Tasks, NEW n \in Nodes, NEW row,
               task' = [SweptTasks({n}) EXCEPT ![t] = row], KindKept(task[t], row)
        PROVE  Kinded'
    <3>1. task'[t] = row /\ \A u \in Tasks \ {t} : task'[u] = SweptTasks({n})[u]
          BY <1>0, <2>2, SweptTyped
    <3> QED  BY <1>0, <1>1, <2>2, <3>1, SweptKind
  <2>3. ASSUME NEW t \in Tasks, NEW n \in Nodes, Claim(t, n) PROVE Kinded'
    <3>1. KindKept(task[t], [task[t] EXCEPT !.status = "running", !.lease = LeaseDuration])
          BY <1>0 DEF KindKept, TaskRow
    <3> QED  BY <2>2, <2>3, <3>1 DEF Claim, ClaimTask
  <2>4. ASSUME NEW t \in Tasks, NEW n \in Nodes, ClaimUnrevealable(t, n) PROVE Kinded'
    <3>1. KindKept(task[t], [task[t] EXCEPT !.status = "failed"])
          BY <1>0 DEF KindKept, TaskRow
    <3> QED  BY <2>2, <2>4, <3>1 DEF ClaimUnrevealable
  <2>5. ASSUME NEW n \in Nodes, ClaimEmpty(n) PROVE Kinded'
        BY <1>0, <1>1, <2>5, SweptKind DEF ClaimEmpty, ClaimNothing, Sweep
  <2>6. ASSUME NEW t \in Tasks, NEW n \in Nodes, Progress(t, n) PROVE Kinded'
        BY <1>0, <2>6 DEF Progress, ProgressTask, Kinded, TaskRow
  <2>7. ASSUME NEW t \in Tasks, NEW n \in Nodes, CompleteLate(t, n) PROVE Kinded'
        BY <1>0, <1>1, <2>7, SweptKind DEF CompleteLate, CompleteRefused, Sweep
  <2>8. ASSUME NEW t \in Tasks, NEW n \in Nodes, NEW succeeded \in BOOLEAN,
               NEW evidence \in BOOLEAN, NEW outcome \in Reported,
               Complete(t, n, succeeded, evidence, outcome)
        PROVE  Kinded'
    <3> DEFINE ok  == Succeeds(task[t], succeeded, evidence)
               new == [task[t] EXCEPT !.status = IF ok THEN "succeeded" ELSE "failed",
                                      !.outcome = StoredOutcome(task[t], outcome), !.lease = 0]
    <3>1. ASSUME NEW old \in TaskRow PROVE KindKept(old, Unlinked(old, task[t], ok))
          BY DEF Unlinked, TaskRow, KindKept
    <3>2. new \in TaskRow /\ KindKept(task[t], new)
          BY <1>0, CompletedRowTyped DEF KindKept, TaskRow
    <3>3. /\ task'[t] = Unlinked(new, task[t], ok)
          /\ \A u \in Tasks \ {t} : task'[u] = Unlinked(SweptTasks({n})[u], task[t], ok)
          BY <2>8 DEF Complete, CompleteTask
    <3> HIDE DEF new, ok
    <3>4. ASSUME NEW u \in Tasks PROVE KindKept(task[u], task'[u])
      <4>1. CASE u = t  BY <3>1, <3>2, <3>3, <4>1 DEF KindKept
      <4>2. CASE u # t
        <5>1. SweptTasks({n})[u] \in TaskRow  BY <1>0, SweptTyped
        <5>2. KindKept(SweptTasks({n})[u], task'[u])  BY <3>1, <3>3, <4>2, <5>1
        <5> QED  BY <1>0, <5>2, SweptKind DEF KindKept
      <4> QED  BY <4>1, <4>2
    <3> QED  BY <1>1, <3>4
  <2> QED  BY <1>4, <2>1, <2>3, <2>4, <2>5, <2>6, <2>7, <2>8 DEF DaemonStep
<1>5. CASE Tick
      BY <1>0, <1>5 DEF Tick, AgeLeases, Kinded, TaskRow
<1> QED  BY <1>3, <1>4, <1>5 DEF Next

LEMMA StrandedKept ==
    ASSUME IInv, Kinded, NothingStranded, [Next]_vars
    PROVE  (Kinded /\ NothingStranded)'
<1>1. CASE Next
  <2>1. /\ \A i \in Instances : Attended(i)
        /\ \A d \in Deployments : Progressing(d)
        BY <1>1, UserStepAttends, DaemonStepAttends, TickAttends DEF Next, IInv, TypeOK
  <2> QED  BY <1>1, <2>1, NotStranded, KindedKept
<1>2. CASE UNCHANGED vars
      BY <1>2 DEF vars, Kinded, NothingStranded
<1> QED  BY <1>1, <1>2

\* An instance in stopping and a deployment in a state of progress always have
\* the task that will resolve them, for any number of rows: cancelling,
\* expiring, completing and deleting take both along.
THEOREM NoneStranded == Spec => []NothingStranded
<1>1. Init => Kinded /\ NothingStranded
      BY DEF Init, QueueInit, NoTask, NoInstance, NoDeployment, Kinded, NothingStranded
<1>2. IInv /\ Kinded /\ NothingStranded /\ [Next]_vars => (Kinded /\ NothingStranded)'
      BY StrandedKept
<1> QED  BY <1>1, <1>2, Inductive, PTL DEF Spec
=============================================================================
