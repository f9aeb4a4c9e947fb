--------------------------- MODULE MinecraftControl ---------------------------
(***************************************************************************)
(* The Minecraft control plane as a whole: the service operations that put *)
(* tasks on the queue (packages/games/minecraft/src/service.ts and         *)
(* deployment-service.ts) and the HTTP routes a Daemon calls               *)
(* (packages/api/job-controller/src/index.ts), over the queue and the node *)
(* registry.                                                               *)
(*                                                                         *)
(* Here a Daemon is anything that can call the routes: it may claim,       *)
(* report progress, complete or send a heartbeat with any task ids and any *)
(* instance report at any time.  ExecutionControl puts the real Daemon in  *)
(* its place.                                                              *)
(***************************************************************************)
EXTENDS MinecraftQueue

CONSTANT Offered   \* the operations on instances that users ask for

vars == <<task, instance, deployment, silence, sandboxCap>>

TypeOK == QueueTypeOK /\ RegistryTypeOK

Init == QueueInit /\ RegistryInit

-----------------------------------------------------------------------------
(* Service operations.  Each runs inside one transaction.                    *)

\* The instance states a user may ask for a kind of task in.
AllowedFrom(kind) ==
    CASE kind = "start"                    -> {"stopped", "error"}
      [] kind \in {"restart", "console"}   -> {"running"}
      [] kind = "stop"                     -> {"running", "starting"}
      [] kind \in {"backup", "properties"} -> {"stopped"}
      [] kind = "delete"                   -> {"stopped", "error", "unknown"}
      [] kind = "properties-read"          -> InstanceStates

InstanceKinds ==
    {"start", "stop", "restart", "backup", "console",
     "properties", "properties-read", "delete"}

ASSUME OfferedAssumption == Offered \subseteq InstanceKinds

\* Only the properties operations go on without expiring old leases first.
SweepsFirst(kind) == kind \notin {"properties", "properties-read"}

\* payload.executionMode: the account's setting for a (re)start, the
\* instance's own mode for what queueInstanceAction also queues.
TaskMode(kind, i, setting) ==
    CASE kind \in {"start", "restart"}           -> setting
      [] kind \in {"stop", "backup", "console"}  -> instance[i].native
      [] OTHER                                   -> FALSE

QueuedState(kind, old) ==
    CASE kind \in {"start", "restart"} -> "starting"
      [] kind = "stop"                 -> "stopping"
      [] OTHER                         -> old

\* queueInstanceAction, deleteMinecraftInstance, updateMinecraftServerProperties
\* and readMinecraftServerProperties.
QueueInstanceAction(t, i, kind, setting) ==
    LET T == IF SweepsFirst(kind) THEN SweptTasks(Nodes) ELSE task
        I == IF SweepsFirst(kind) THEN SweptInstances(Nodes) ELSE instance
        n == instance[i].node
        native == TaskMode(kind, i, setting)
    IN  /\ I[i].state \in AllowedFrom(kind)
        /\ Online(n)
        /\ kind \in {"start", "restart"} => native \/ sandboxCap[n]
        /\ CreateTask(T, t, NewTask(kind, "none", n, i, None, native))
        /\ instance' = [I EXCEPT ![i].state = QueuedState(kind, @)]
        /\ deployment' = IF SweepsFirst(kind) THEN SweptDeployments(Nodes) ELSE deployment
        /\ UNCHANGED registryVars

\* installMinecraftJava: a task of the node, of no instance.  One Java major.
QueueJavaInstall(t, n) ==
    /\ Online(n)
    /\ \A u \in Tasks : ~ (/\ task[u].kind = "java-install" /\ task[u].node = n
                           /\ task[u].status \in Active)
    /\ CreateTask(task, t, NewTask("java-install", "none", n, None, None, FALSE))
    /\ UNCHANGED <<instance, deployment, registryVars>>

\* createMinecraftDeployment and retryMinecraftDeployment look at the node
\* before they wait for the release catalogue, so it may be offline by now.
QueueDeploy(t, d, n) ==
    /\ \/ deployment[d].state = "absent"
       \/ /\ deployment[d].state = "failed" /\ ~ deployment[d].automatic
          /\ deployment[d].node = n
    /\ CreateTask(task, t, NewTask("install", "deploy", n, None, d, FALSE))
    /\ deployment' = [deployment EXCEPT ![d].state = "queued", ![d].node = n]
    /\ UNCHANGED <<instance, registryVars>>

\* registerMinecraftDeployment, with a new instance or the one it failed on.
RegisterDeployment(t, d, i, native) ==
    LET n     == deployment[d].node
        fresh == deployment[d].instance = None
    IN  /\ deployment[d].state = "ready"
        /\ Online(n) /\ (native \/ sandboxCap[n])
        /\ IF fresh THEN instance[i].state = "absent"
           ELSE deployment[d].instance = i /\ instance[i].state \in {"error", "unknown"}
        /\ CreateTask(task, t, NewTask("install", "register", n, i, d, native))
        /\ instance' = [instance EXCEPT ![i] =
                          [state |-> "installing", sandbox |-> "unprepared",
                           native |-> IF fresh THEN FALSE ELSE @.native, node |-> n]]
        /\ deployment' = [deployment EXCEPT ![d].state = "registering", ![d].instance = i]
        /\ UNCHANGED registryVars

\* provisionMinecraftServer: instance, deployment and task in one transaction.
Provision(t, d, i, n) ==
    /\ Online(n)
    /\ deployment[d].state = "absent" /\ instance[i].state = "absent"
    /\ CreateTask(task, t, NewTask("install", "provision", n, i, d, TRUE))
    /\ instance' = [instance EXCEPT ![i] =
                      [state |-> "installing", sandbox |-> "unsupported",
                       native |-> TRUE, node |-> n]]
    /\ deployment' = [deployment EXCEPT ![d] =
                        [state |-> "queued", instance |-> i, automatic |-> TRUE, node |-> n]]
    /\ UNCHANGED registryVars

\* retryMinecraftProvision: only when the latest task row of the deployment is
\* a confirmed failure.
RetryProvision(t, d) ==
    LET i == deployment[d].instance
        n == deployment[d].node
    IN  /\ deployment[d].state = "failed" /\ deployment[d].automatic /\ i # None
        /\ Online(n)
        /\ \E u \in Tasks : /\ IsLatestOf(task, d, u)
                            /\ task[u].status = "failed" /\ task[u].outcome # "unknown"
        /\ instance[i].state \in {"error", "stopped"}
        /\ CreateTask(task, t, NewTask("install", "provision", n, i, d, TRUE))
        /\ instance' = [instance EXCEPT ![i].state = "installing"]
        /\ deployment' = [deployment EXCEPT ![d].state = "queued"]
        /\ UNCHANGED registryVars

\* updateMinecraftInstanceJavaRuntime: the sandbox has to be prepared again.
UpdateJavaRuntime(i) ==
    LET n == instance[i].node IN
    /\ ~ Busy(SweptTasks(Nodes), i)
    /\ SweptInstances(Nodes)[i].state \in {"stopped", "error"}
    /\ Online(n) /\ (instance[i].native \/ sandboxCap[n])
    /\ task' = SweptTasks(Nodes)
    /\ instance' = [SweptInstances(Nodes) EXCEPT ![i].sandbox =
                      IF instance[i].native THEN "unsupported" ELSE "unprepared"]
    /\ deployment' = SweptDeployments(Nodes)
    /\ UNCHANGED registryVars

RequestCancellation(t) == (CancelQueued(t) \/ CancelRunning(t)) /\ UNCHANGED registryVars

DeleteRecords(S) == DeleteTaskRecords(S) /\ UNCHANGED registryVars

ListTasks == Sweep(Nodes) /\ UNCHANGED registryVars

-----------------------------------------------------------------------------
(* Daemon routes.                                                            *)

\* Mutant of ReportAccepted: only tasks already claimed hold their instance.
ReportAcceptedUnclaimed(n, i, r) ==
    /\ instance[i].node = n
    /\ \A t \in Tasks : ~ (/\ task[t].instance = i /\ task[t].status = "running"
                           /\ task[t].kind \in Lifecycle)
    /\ ~ (instance[i].state = "error" /\ r.state = "stopped")
    /\ ~ (instance[i].sandbox = "unprepared" /\ r.state = "stopped" /\ r.sandbox = "prepared")

\* Mutant of ReportAccepted: an unknown instance stays unknown.
ReportAcceptedKnown(n, i, r) ==
    /\ instance[i].node = n /\ instance[i].state # "unknown"
    /\ \A t \in Tasks : ~ (/\ task[t].instance = i /\ task[t].status \in Active
                           /\ task[t].kind \in Lifecycle)
    /\ ~ (instance[i].state = "error" /\ r.state = "stopped")

\* updateInstanceStatesFromDaemon, for one report r about instance i.
ReportAccepted(n, i, r) ==
    /\ instance[i].node = n
    /\ \A t \in Tasks : ~ (/\ task[t].instance = i /\ task[t].status \in Active
                           /\ task[t].kind \in Lifecycle)
    /\ ~ (instance[i].state = "error" /\ r.state = "stopped")
    /\ ~ (instance[i].sandbox = "unprepared" /\ r.state = "stopped" /\ r.sandbox = "prepared")

ReportedInstances(n, reports) ==
    [i \in Instances |->
        IF i \in DOMAIN reports /\ ReportAccepted(n, i, reports[i])
        THEN [instance[i] EXCEPT !.state = reports[i].state, !.sandbox = reports[i].sandbox]
        ELSE instance[i]]

\* POST /daemon/heartbeat
Heartbeat(n, active, reports, sandbox) ==
    /\ RecordDaemonHeartbeat(n, sandbox)
    /\ task' = Renewed(n, active)
    /\ instance' = ReportedInstances(n, reports)
    /\ UNCHANGED deployment

\* POST /daemon/tasks/claim.  A properties task whose secrets cannot be
\* revealed is failed on the spot and the node never sees it.
Claim(t, n) ==
    /\ Online(n) /\ ClaimTask(t, n, sandboxCap[n])
    /\ UNCHANGED registryVars

ClaimUnrevealable(t, n) ==
    /\ Online(n) /\ OldestClaimable(t, n, sandboxCap[n])
    /\ task[t].kind = "properties"
    /\ task' = [SweptTasks({n}) EXCEPT ![t] = [task[t] EXCEPT !.status = "failed"]]
    /\ instance' = SweptInstances({n})
    /\ deployment' = SweptDeployments({n})
    /\ UNCHANGED registryVars

ClaimEmpty(n) ==
    /\ Online(n) /\ ClaimNothing(n, sandboxCap[n])
    /\ UNCHANGED registryVars

\* POST /daemon/tasks/:taskId/progress
Progress(t, n) ==
    /\ task[t].node = n
    /\ ProgressTask(t)
    /\ UNCHANGED registryVars

\* POST /daemon/tasks/:taskId/complete
Complete(t, n, succeeded, evidence, outcome) ==
    /\ Online(n)
    /\ CompleteTask(t, n, succeeded, evidence, outcome)
    /\ UNCHANGED registryVars

CompleteLate(t, n) ==
    /\ Online(n) /\ task[t].node = n
    /\ CompleteRefused(t, n)
    /\ UNCHANGED registryVars

Tick == AgeLeases /\ AgeHeartbeats

-----------------------------------------------------------------------------
(* The reports scanMinecraftInstances can make: never stopping, never error. *)

Report ==
    [state : {"installing"}, sandbox : {"unsupported", "unprepared"}]
      \cup [state : {"unknown"}, sandbox : {"unknown"}]
      \cup [state : {"starting", "running"}, sandbox : {"unsupported", "running", "unknown"}]
      \cup [state : {"stopped"}, sandbox : {"unsupported", "unprepared", "prepared"}]

UserStep ==
    \/ \E t \in Tasks, i \in Instances, kind \in Offered, setting \in BOOLEAN :
          QueueInstanceAction(t, i, kind, setting)
    \/ \E t \in Tasks, n \in Nodes : QueueJavaInstall(t, n)
    \/ \E t \in Tasks, d \in Deployments, n \in Nodes : QueueDeploy(t, d, n)
    \/ \E t \in Tasks, d \in Deployments, i \in Instances, native \in BOOLEAN :
          RegisterDeployment(t, d, i, native)
    \/ \E t \in Tasks, d \in Deployments, i \in Instances, n \in Nodes : Provision(t, d, i, n)
    \/ \E t \in Tasks, d \in Deployments : RetryProvision(t, d)
    \/ \E i \in Instances : UpdateJavaRuntime(i)
    \/ \E t \in Tasks : RequestCancellation(t)
    \/ \E S \in SUBSET Tasks : DeleteRecords(S)
    \/ ListTasks

DaemonStep ==
    \/ \E n \in Nodes, active \in SUBSET Tasks, S \in SUBSET Instances, sandbox \in BOOLEAN :
          \E reports \in [S -> Report] : Heartbeat(n, active, reports, sandbox)
    \/ \E t \in Tasks, n \in Nodes : Claim(t, n) \/ ClaimUnrevealable(t, n)
    \/ \E n \in Nodes : ClaimEmpty(n)
    \/ \E t \in Tasks, n \in Nodes : Progress(t, n) \/ CompleteLate(t, n)
    \/ \E t \in Tasks, n \in Nodes, succeeded, evidence \in BOOLEAN, outcome \in Reported :
          Complete(t, n, succeeded, evidence, outcome)

Next == UserStep \/ DaemonStep \/ Tick

Spec == Init /\ [][Next]_vars

-----------------------------------------------------------------------------
(* Properties.                                                               *)

\* At most one unfinished operation per instance, whichever of the eight
\* operations asked for it (createMinecraftTask is the only common guard).
InstanceExclusive ==
    \A t, u \in Tasks :
        /\ task[t].status \in Active /\ task[u].status \in Active
        /\ task[t].instance = task[u].instance /\ task[t].instance # None
        => t = u

\* While a lifecycle task is queued or running, its instance shows that and
\* nothing else: no report of the node, other operation or expiry of another
\* task takes the transitional state away (updateInstanceStatesFromDaemon).
TransitionHeld ==
    \A t \in Tasks :
        task[t].status \in Active /\ task[t].instance # None =>
            /\ task[t].kind \in {"start", "restart"} => instance[task[t].instance].state = "starting"
            /\ task[t].kind = "stop"    => instance[task[t].instance].state = "stopping"
            /\ task[t].kind = "install" => instance[task[t].instance].state = "installing"

\* An instance is never left in stopping, and a deployment never in a state of
\* progress, without the task that will resolve it: cancelling, expiring,
\* completing and deleting all take both rows along.
NothingStranded ==
    /\ \A i \in Instances : instance[i].state = "stopping" =>
          \E t \in Tasks : /\ task[t].status \in Active /\ task[t].kind = "stop"
                           /\ task[t].instance = i
    /\ \A d \in Deployments :
          deployment[d].state \in {"queued", "downloading", "registering"} =>
          \E t \in Tasks : /\ task[t].status \in Active /\ task[t].deployment = d
                           /\ deployment[d].state = "registering"
                                <=> task[t].operation = "register"

\* The outcome of a task is written once: no late completion, cancellation,
\* expiry or retry changes a row that is already terminal.
OutcomeFinal ==
    [][\A t \in Tasks : task[t].status \in Terminal =>
          /\ task'[t].status \in {task[t].status, "deleted"}
          /\ task'[t].outcome = task[t].outcome]_vars

\* "Late completions are not accepted" (packages/jobs/jobs/README.md, line 3):
\* once a lease has run out a task can only end as failed with an unknown
\* outcome, whatever the node reports and whoever expires it first.
LateCompletionRefused ==
    [][\A t \in Tasks : Expired(t) /\ task'[t].status # "running" =>
          task'[t].status = "failed" /\ task'[t].outcome = "unknown"]_vars

\* "An expired lease has an unknown outcome and cannot be replayed"
\* (packages/games/minecraft/README.md, line 19): provisioning is not queued
\* again while the last attempt at it ended unknown.
LastAttempt(d, u) ==
    /\ task[u].status # "absent" /\ task[u].deployment = d
    /\ \A v \in Tasks : task[v].status # "absent" /\ task[v].deployment = d
                          => task[v].order <= task[u].order

UnknownNotReplayed ==
    [][\A t, u \in Tasks, d \in Deployments :
          /\ task[t].status = "absent" /\ task'[t].status = "queued"
          /\ task'[t].operation = "provision" /\ task'[t].deployment = d
          /\ LastAttempt(d, u)
          => task[u].outcome # "unknown"]_vars
=============================================================================
