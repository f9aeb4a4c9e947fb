---------------------------- MODULE MinecraftQueue ----------------------------
(***************************************************************************)
(* The persistent Minecraft task queue of the control plane                *)
(* (packages/jobs/jobs/src/minecraft-queue.ts): the task, instance and     *)
(* deployment rows, and the handlers that create, claim, renew, expire,    *)
(* cancel, complete and delete tasks.                                      *)
(*                                                                         *)
(* node:sqlite is synchronous and one control process owns the database,   *)
(* so each exported function runs to its end without interleaving: it is   *)
(* one action here, the expiry sweep it begins with included.  The sweep   *)
(* is therefore written as three state functions (SweptTasks, ...) that    *)
(* the handlers apply before their own update.                             *)
(*                                                                         *)
(* A lease is the number of ticks it has left.  A running task whose lease *)
(* is 0 is one whose lease_expires_at is NULL or <= now.                   *)
(***************************************************************************)
EXTENDS LocalDaemon, FiniteSets

CONSTANTS Tasks, Instances, Deployments,  \* ids (random UUIDs, never reused)
          None,                           \* SQL NULL
          LeaseDuration                   \* taskLeaseDurationMilliseconds, in ticks

ASSUME LeaseAssumption == LeaseDuration \in Nat \ {0}
ASSUME TasksFinite     == IsFiniteSet(Tasks)
ASSUME NoneAssumption  == None \notin Tasks \cup Instances \cup Deployments \cup Nodes

VARIABLES task, instance, deployment

queueVars == <<task, instance, deployment>>

Kinds == {"install", "start", "stop", "restart", "backup", "console",
          "properties", "properties-read", "delete", "java-install"}
Operations == {"none", "deploy", "register", "provision"}   \* payload.operation

\* result.outcome: what a node reports, and a cancellation before any claim
\* ({ outcome: "cancelled", executed: false }).
Reported == {"none", "unknown", "cancelled"}
Outcomes == Reported \cup {"not-executed"}

\* Kinds that move the instance through a transitional state.
Lifecycle    == {"install", "start", "stop", "restart"}
Transitional == {"installing", "starting", "stopping"}

TaskRow == [status : {"absent", "queued", "running", "succeeded", "failed", "deleted"},
            kind : Kinds, operation : Operations,
            node : Nodes \cup {None}, instance : Instances \cup {None},
            deployment : Deployments \cup {None},
            native : BOOLEAN,             \* payload.executionMode = "native"
            cancel : BOOLEAN,             \* cancel_requested
            lease : 0 .. LeaseDuration,
            outcome : Outcomes,
            order : Nat]                  \* created_at, then rowid

InstanceStates == {"stopped", "running", "error", "unknown"} \cup Transitional

InstanceRow == [state : {"absent", "deleted"} \cup InstanceStates,
                sandbox : {"unsupported", "unprepared", "prepared", "running", "unknown"},
                native : BOOLEAN,         \* execution_mode = "native"
                node : Nodes \cup {None}]

DeploymentRow == [state : {"absent", "deleted", "queued", "downloading", "ready",
                           "failed", "registering", "registered"},
                  instance : Instances \cup {None},
                  automatic : BOOLEAN,
                  node : Nodes \cup {None}]

QueueTypeOK ==
    /\ task \in [Tasks -> TaskRow]
    /\ instance \in [Instances -> InstanceRow]
    /\ deployment \in [Deployments -> DeploymentRow]

NoTask == [status |-> "absent", kind |-> "java-install", operation |-> "none",
           node |-> None, instance |-> None, deployment |-> None, native |-> FALSE,
           cancel |-> FALSE, lease |-> 0, outcome |-> "none", order |-> 0]
NoInstance   == [state |-> "absent", sandbox |-> "unprepared", native |-> FALSE, node |-> None]
NoDeployment == [state |-> "absent", instance |-> None, automatic |-> FALSE, node |-> None]

QueueInit ==
    /\ task = [t \in Tasks |-> NoTask]
    /\ instance = [i \in Instances |-> NoInstance]
    /\ deployment = [d \in Deployments |-> NoDeployment]

-----------------------------------------------------------------------------
(* Reading the tables.  T stands for the task table, before or after a sweep. *)

Active   == {"queued", "running"}
Terminal == {"succeeded", "failed"}

Busy(T, i) == \E t \in Tasks : T[t].status \in Active /\ T[t].instance = i

\* The rows of deployment d that still exist, newest first.
IsLatestOf(T, d, t) ==
    /\ T[t].deployment = d /\ T[t].status \notin {"absent", "deleted"}
    /\ \A u \in Tasks : T[u].deployment = d /\ T[u].status \notin {"absent", "deleted"}
                          => T[u].order <= T[t].order

Expired(t) == task[t].status = "running" /\ task[t].lease = 0

-----------------------------------------------------------------------------
(* failExpiredMinecraftTasks, for the tasks of the nodes in N.               *)

\* Mutant of SweptTasks: expiry is an ordinary failure.
SweptTasksKnown(N) ==
    [t \in Tasks |-> IF Expired(t) /\ task[t].node \in N
                     THEN [task[t] EXCEPT !.status = "failed"] ELSE task[t]]

SweptTasks(N) ==
    [t \in Tasks |-> IF Expired(t) /\ task[t].node \in N
                     THEN [task[t] EXCEPT !.status = "failed", !.outcome = "unknown"]
                     ELSE task[t]]

SweptInstances(N) ==
    [i \in Instances |->
        IF /\ instance[i].state \in Transitional
           /\ \E t \in Tasks : /\ Expired(t) /\ task[t].node \in N
                               /\ task[t].instance = i /\ task[t].kind \in Lifecycle
        THEN [instance[i] EXCEPT !.state = "unknown"]
        ELSE instance[i]]

SweptDeployments(N) ==
    [d \in Deployments |->
        LET hit == {t \in Tasks : /\ Expired(t) /\ task[t].node \in N
                                  /\ task[t].deployment = d}
        IN  IF hit = {} THEN deployment[d]
            ELSE [deployment[d] EXCEPT !.state =
                    IF \E t \in hit : task[t].operation = "register" THEN "ready" ELSE "failed"]]

\* listMinecraftTasks, and every reader that goes through it.
Sweep(N) ==
    /\ task' = SweptTasks(N)
    /\ instance' = SweptInstances(N)
    /\ deployment' = SweptDeployments(N)

-----------------------------------------------------------------------------
(* createMinecraftTask on table T: refused while the instance has an active  *)
(* task, otherwise a queued row at the end of the creation order.            *)

NextOrder == Cardinality({t \in Tasks : task[t].status # "absent"})

NewTask(kind, operation, n, i, d, native) ==
    [status |-> "queued", kind |-> kind, operation |-> operation, node |-> n,
     instance |-> i, deployment |-> d, native |-> native, cancel |-> FALSE,
     lease |-> 0, outcome |-> "none", order |-> NextOrder]

\* Mutant of CreateTask: running tasks do not count as unfinished.
CreateTaskBesideRunning(T, t, row) ==
    /\ T[t].status = "absent"
    /\ row.instance # None => \A u \in Tasks : ~ (T[u].status = "queued" /\ T[u].instance = row.instance)
    /\ task' = [T EXCEPT ![t] = row]

CreateTask(T, t, row) ==
    /\ T[t].status = "absent"
    /\ row.instance # None => ~ Busy(T, row.instance)
    /\ task' = [T EXCEPT ![t] = row]

-----------------------------------------------------------------------------
(* The node's side of a task.                                                *)

\* claimNextMinecraftTask: the oldest task this node can run, after the sweep.
Claimable(t, n, sandbox) ==
    /\ task[t].status = "queued" /\ task[t].node = n
    /\ task[t].kind \in {"start", "restart"} => sandbox \/ task[t].native

OldestClaimable(t, n, sandbox) ==
    /\ Claimable(t, n, sandbox)
    /\ \A u \in Tasks : Claimable(u, n, sandbox) => task[t].order <= task[u].order

ClaimTask(t, n, sandbox) ==
    /\ OldestClaimable(t, n, sandbox)
    /\ task' = [SweptTasks({n}) EXCEPT ![t] =
                  [task[t] EXCEPT !.status = "running", !.lease = LeaseDuration]]
    /\ instance' = SweptInstances({n})
    /\ deployment' = [d \in Deployments |->
                        IF d = task[t].deployment /\ SweptDeployments({n})[d].state = "queued"
                        THEN [SweptDeployments({n})[d] EXCEPT !.state = "downloading"]
                        ELSE SweptDeployments({n})[d]]

\* Mutant of ClaimNothing: an empty queue is not swept.
ClaimNothingUnswept(n, sandbox) ==
    /\ \A t \in Tasks : ~ Claimable(t, n, sandbox)
    /\ UNCHANGED queueVars

ClaimNothing(n, sandbox) ==
    /\ \A t \in Tasks : ~ Claimable(t, n, sandbox)
    /\ Sweep({n})

\* renewMinecraftTaskLeases: only leases that have not run out yet.
Renewed(n, active) ==
    [t \in Tasks |-> IF /\ t \in active /\ task[t].node = n
                        /\ task[t].status = "running" /\ task[t].lease > 0
                     THEN [task[t] EXCEPT !.lease = LeaseDuration]
                     ELSE task[t]]

\* updateMinecraftTaskProgress: no sweep, and no look at the lease it replaces.
ProgressTask(t) ==
    /\ task[t].status = "running"
    /\ task' = [task EXCEPT ![t].lease = LeaseDuration]
    /\ UNCHANGED <<instance, deployment>>

(* completeMinecraftTask.  A report is succeeded (the node's claim), the     *)
(* evidence the kind asks for (serverReady, archived or a valid properties   *)
(* snapshot) and the outcome in its result.                                  *)

EvidenceRequired(row) ==
    row.kind \in {"properties", "properties-read", "delete", "start", "restart"}
      \/ row.operation = "provision"

Succeeds(row, succeeded, evidence) == succeeded /\ (EvidenceRequired(row) => evidence)

\* The properties kinds store a summary without an outcome.
StoredOutcome(row, outcome) ==
    IF row.kind \in {"properties", "properties-read"} THEN "none" ELSE outcome

CompletedState(row, ok, outcome, old) ==
    CASE outcome = "unknown"               -> "unknown"
      [] outcome # "unknown" /\ row.kind = "install" ->
           IF ~ ok THEN "error" ELSE IF row.operation = "provision" THEN "running" ELSE "stopped"
      [] outcome # "unknown" /\ row.kind \in {"start", "restart"} ->
           IF ok THEN "running" ELSE "unknown"
      [] outcome # "unknown" /\ row.kind = "stop" -> IF ok THEN "stopped" ELSE "unknown"
      [] OTHER                             -> old

CompletedSandbox(row, ok, old) ==
    CASE row.native                                          -> "unsupported"
      [] ~ row.native /\ ok /\ row.kind \in {"install", "stop"}  -> "prepared"
      [] ~ row.native /\ ok /\ row.kind \in {"start", "restart"} -> "running"
      [] OTHER                                               -> old

CompletedInstance(old, row, ok, outcome) ==
    IF row.kind = "delete" /\ ok
    THEN [NoInstance EXCEPT !.state = "deleted"]
    ELSE [old EXCEPT !.state   = CompletedState(row, ok, outcome, old.state),
                     !.sandbox = CompletedSandbox(row, ok, old.sandbox),
                     !.native  = old.native \/ row.native]

\* Mutant of CompletedDeployment: a failure is named as for instances.
CompletedDeploymentAsInstance(row, ok) ==
    CASE row.operation = "provision" -> IF ok THEN "registered" ELSE "error"
      [] row.operation = "register"  -> IF ok THEN "registered" ELSE "ready"
      [] OTHER                       -> IF ok THEN "ready" ELSE "failed"

CompletedDeployment(row, ok) ==
    CASE row.operation = "provision" -> IF ok THEN "registered" ELSE "failed"
      [] row.operation = "register"  -> IF ok THEN "registered" ELSE "ready"
      [] OTHER                       -> IF ok THEN "ready" ELSE "failed"

\* Rows of a deleted instance go, and what pointed at them is set to NULL.
Removed(row, ok) == {d \in Deployments : /\ row.kind = "delete" /\ ok
                                         /\ row.instance # None
                                         /\ deployment[d].instance = row.instance}

Unlinked(old, row, ok) ==
    IF row.kind = "delete" /\ ok /\ row.instance # None
    THEN [old EXCEPT !.instance = IF @ = row.instance THEN None ELSE @,
                     !.deployment = IF @ \in Removed(row, ok) THEN None ELSE @]
    ELSE old

\* Mutant of Completable: the status is not asked for.
CompletableAnyStatus(t, n) == task[t].status \in Active \cup Terminal /\ task[t].node = n

Completable(t, n) == SweptTasks({n})[t].status = "running" /\ task[t].node = n

CompleteTask(t, n, succeeded, evidence, outcome) ==
    LET row == task[t]
        ok  == Succeeds(row, succeeded, evidence)
        T   == SweptTasks({n})
        I   == SweptInstances({n})
        D   == SweptDeployments({n})
    IN  /\ Completable(t, n)
        /\ task' = [u \in Tasks |->
                      Unlinked(IF u = t
                               THEN [row EXCEPT !.status = IF ok THEN "succeeded" ELSE "failed",
                                                !.outcome = StoredOutcome(row, outcome),
                                                !.lease = 0]
                               ELSE T[u], row, ok)]
        /\ instance' = [i \in Instances |->
                          IF i = row.instance THEN CompletedInstance(I[i], row, ok, outcome) ELSE I[i]]
        /\ deployment' = [d \in Deployments |->
                            IF d \in Removed(row, ok)
                            THEN [NoDeployment EXCEPT !.state = "deleted"]
                            ELSE IF d = row.deployment /\ row.kind = "install"
                            THEN [D[d] EXCEPT !.state = CompletedDeployment(row, ok)]
                            ELSE D[d]]

\* A completion that comes too late, or from another node, only sweeps.
CompleteRefused(t, n) ==
    /\ ~ Completable(t, n)
    /\ Sweep({n})

-----------------------------------------------------------------------------
(* The user's side of a task.                                                *)

Cancellable(row) == row.kind \in {"install", "start"} /\ row.native

\* Mutant of CancelQueued: the deployment row is forgotten.
CancelQueuedOnly(t) ==
    /\ task[t].status = "queued" /\ Cancellable(task[t])
    /\ task' = [task EXCEPT ![t].status = "failed", ![t].cancel = TRUE,
                            ![t].outcome = "not-executed"]
    /\ instance' = [i \in Instances |->
                      IF i = task[t].instance
                      THEN [instance[i] EXCEPT !.state =
                              IF task[t].kind = "install" THEN "error" ELSE "stopped"]
                      ELSE instance[i]]
    /\ UNCHANGED deployment

\* Mutant of CancelQueued: a claimed task is taken for a queued one.
CancelClaimed(t) ==
    /\ task[t].status \in Active /\ Cancellable(task[t])
    /\ task' = [task EXCEPT ![t].status = "failed", ![t].cancel = TRUE,
                            ![t].outcome = "not-executed"]
    /\ UNCHANGED <<instance, deployment>>

\* requestMinecraftTaskCancellation: a queued task ends here and now, ...
CancelQueued(t) ==
    LET row == task[t] IN
    /\ row.status = "queued" /\ Cancellable(row)
    /\ task' = [task EXCEPT ![t].status = "failed", ![t].cancel = TRUE,
                            ![t].outcome = "not-executed"]
    /\ instance' = [i \in Instances |->
                      IF i = row.instance
                      THEN [instance[i] EXCEPT !.state =
                              IF row.kind = "install" THEN "error" ELSE "stopped"]
                      ELSE instance[i]]
    /\ deployment' = [d \in Deployments |->
                        IF d = row.deployment
                        THEN [deployment[d] EXCEPT !.state = "failed"]
                        ELSE deployment[d]]

\* ... a running one only learns that it should.
CancelRunning(t) ==
    /\ task[t].status = "running" /\ Cancellable(task[t])
    /\ task' = [task EXCEPT ![t].cancel = TRUE]
    /\ UNCHANGED <<instance, deployment>>

CancellationRequests(n) ==
    {t \in Tasks : task[t].node = n /\ task[t].status = "running" /\ task[t].cancel}

\* deleteMinecraftTaskRecords: the whole batch is terminal, or nothing goes.
\* A deleted row keeps its last contents: no handler reads them again.
DeleteTaskRecords(S) ==
    /\ S # {} /\ \A t \in S : task[t].status \in Terminal
    /\ task' = [t \in Tasks |-> IF t \in S THEN [task[t] EXCEPT !.status = "deleted"]
                                ELSE task[t]]
    /\ UNCHANGED <<instance, deployment>>

AgeLeases ==
    /\ task' = [t \in Tasks |-> IF task[t].lease > 0
                                THEN [task[t] EXCEPT !.lease = @ - 1] ELSE task[t]]
    /\ UNCHANGED <<instance, deployment>>
=============================================================================
