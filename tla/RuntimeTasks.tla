----------------------------- MODULE RuntimeTasks -----------------------------
(***************************************************************************)
(* Installations and checks of runtime environments                        *)
(* (packages/jobs/jobs/src/runtime-environment-tasks.ts), for a node or    *)
(* for the control plane's own machine.  A job stands for account, app,    *)
(* operation and payload together.  Progress figures are left out: to the  *)
(* row, a progress report is a renewal.                                    *)
(***************************************************************************)
EXTENDS LeaseQueue

CONSTANTS Jobs,
          Local           \* the control plane's own machine as a target

ASSUME LocalAssumption == Local \notin Nodes

Targets == Nodes \cup {Local}

VARIABLE runtime

RuntimeRow == [status : {"absent", "queued", "running", "succeeded", "failed", "cancelled"},
               target : Targets,
               job : Jobs,
               cancel : BOOLEAN,              \* cancel_requested
               lease : Leases, end : Ends, order : Nat]

RuntimeTypeOK == runtime \in [Tasks -> RuntimeRow]

RuntimeInit == \E job \in Jobs :
    runtime = [t \in Tasks |-> [status |-> "absent", target |-> Local, job |-> job,
                                cancel |-> FALSE, lease |-> 0, end |-> "none", order |-> 0]]

\* expire, with which every function of the queue begins.
RuntimeSwept == Swept(runtime, Tasks)
RuntimeRead  == runtime' = RuntimeSwept

Unfinished(target, job) ==
    {t \in Tasks : /\ RuntimeSwept[t].status \in {"queued", "running"}
                   /\ runtime[t].target = target /\ runtime[t].job = job}

Reachable == {Local} \cup {n \in Nodes : Online(n)}

\* schedule and createRuntimeTask.  An unfinished task of the same job is
\* handed out again instead, which changes nothing but the sweep.
CreateRuntime(t, target, job) ==
    /\ target \in Reachable
    /\ Unfinished(target, job) = {}
    /\ runtime' = [RuntimeSwept EXCEPT ![t] =
                     [status |-> "queued", target |-> target, job |-> job, cancel |-> FALSE,
                      lease |-> 0, end |-> "none", order |-> RowCount(runtime)]]

RuntimeQueue(target) == {t \in Tasks : runtime[t].target = target /\ runtime[t].status = "queued"}
RuntimeBusy(target)  == \E t \in Tasks : /\ runtime[t].target = target
                                         /\ RuntimeSwept[t].status = "running"

\* Mutant of ClaimRuntime: a running task does not hold the target.
ClaimRuntimeBeside(t, target) ==
    /\ target \in Reachable /\ Oldest(runtime, RuntimeQueue(target), t)
    /\ runtime' = [RuntimeSwept EXCEPT ![t].status = "running", ![t].lease = LeaseDuration]

\* claimRuntimeTask, by the route or by the local executor: one at a time.
ClaimRuntime(t, target) ==
    /\ target \in Reachable /\ Oldest(runtime, RuntimeQueue(target), t)
    /\ ~ RuntimeBusy(target)
    /\ runtime' = [RuntimeSwept EXCEPT ![t].status = "running", ![t].lease = LeaseDuration]

\* Mutant of RenewRuntime: the sweep is left out.
RenewRuntimeUnswept(t) ==
    /\ runtime[t].status = "running"
    /\ runtime' = [runtime EXCEPT ![t].lease = LeaseDuration]

\* renewRuntimeTask and progressRuntimeTask; refused with the sweep done.
RenewRuntime(t) ==
    /\ RuntimeSwept[t].status = "running"
    /\ runtime' = [RuntimeSwept EXCEPT ![t].lease = LeaseDuration]

\* completeRuntimeTask; refused likewise.
CompleteRuntime(t, status) ==
    /\ RuntimeSwept[t].status = "running"
    /\ runtime' = [RuntimeSwept EXCEPT ![t].status = status, ![t].lease = 0,
                                       ![t].end = "reported"]

\* cancelRuntimeTask
CancelRuntime(t) ==
    \/ /\ runtime[t].status = "queued"
       /\ runtime' = [RuntimeSwept EXCEPT ![t].status = "cancelled", ![t].cancel = TRUE,
                                          ![t].end = "withdrawn"]
    \/ /\ RuntimeSwept[t].status = "running"
       /\ runtime' = [RuntimeSwept EXCEPT ![t].cancel = TRUE]
=============================================================================
