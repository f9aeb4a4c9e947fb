------------------------------ MODULE AiHostTasks ------------------------------
(***************************************************************************)
(* Shell commands and project-file requests of AI runs, queued for a node  *)
(* (packages/jobs/jobs/src/ai-host-tasks.ts) and the routes around them    *)
(* (packages/api/job-controller/src/index.ts).  SQLite calls are           *)
(* synchronous: an exported function is one action.                        *)
(*                                                                         *)
(* This repository's Daemon always announces agent-shell-v1 and            *)
(* project-files-v1, so only the sandbox capability is a variable.         *)
(* Command text, output and the 24 h clean-up of both are left out.        *)
(***************************************************************************)
EXTENDS LeaseQueue

CONSTANT MaxSequence      \* bound on the output snapshots of a task

ASSUME MaxSequenceAssumption == MaxSequence \in Nat

VARIABLE host

HostRow == [status : {"absent", "queued", "running", "succeeded", "failed"},
            node : Nodes,
            confined : BOOLEAN,               \* sandbox_mode # "danger-full-access"
            cancel : BOOLEAN,                 \* cancel_requested
            lease : Leases,
            sequence : 0 .. MaxSequence,      \* output_sequence
            end : Ends, order : Nat]

HostTypeOK == host \in [Tasks -> HostRow]

HostInit == \E n \in Nodes :
    host = [t \in Tasks |-> [status |-> "absent", node |-> n, confined |-> FALSE,
                             cancel |-> FALSE, lease |-> 0, sequence |-> 0,
                             end |-> "none", order |-> 0]]

\* failExpiredAiHostTasks, and with it every read.
HostSwept == Swept(host, Tasks)
HostRead  == host' = HostSwept

HostRunning(n) == {t \in Tasks : host[t].node = n /\ host[t].status = "running"}

\* createAiHostTask
CreateHost(t, n, confined) ==
    /\ Online(n) /\ (confined => sandboxCap[n])
    /\ host' = [HostSwept EXCEPT ![t] =
                  [status |-> "queued", node |-> n, confined |-> confined, cancel |-> FALSE,
                   lease |-> 0, sequence |-> 0, end |-> "none", order |-> RowCount(host)]]

\* Mutant of RenewedHost: the lease is not looked at.
RenewedHostAny(n, active) ==
    [t \in Tasks |-> IF t \in active \cap HostRunning(n)
                     THEN [host[t] EXCEPT !.lease = LeaseDuration] ELSE host[t]]

\* renewAiHostTaskLeases: no sweep, and only leases that have not run out.
RenewedHost(n, active) ==
    [t \in Tasks |-> IF t \in active \cap HostRunning(n) /\ host[t].lease > 0
                     THEN [host[t] EXCEPT !.lease = LeaseDuration] ELSE host[t]]

\* POST /daemon/ai/host-tasks/claim
HostQueue(n) == {t \in Tasks : host[t].node = n /\ host[t].status = "queued"}

ClaimHost(t, n) ==
    /\ Online(n) /\ Oldest(host, HostQueue(n), t)
    /\ host' = [HostSwept EXCEPT ![t].status = "running", ![t].lease = LeaseDuration]

\* POST /daemon/ai/host-tasks/:taskId/output, which also sweeps.  A snapshot
\* that is not newer than the stored one leaves the row alone.
OutputHost(t, n, sequence) ==
    /\ host[t].node = n
    /\ host' = IF HostSwept[t].status = "running" /\ host[t].sequence < sequence
               THEN [HostSwept EXCEPT ![t].sequence = sequence] ELSE HostSwept

\* POST /daemon/ai/host-tasks/:taskId/complete.  clean: exit code 0, neither
\* timed out nor cancelled; receipt: the sandbox host vouched for the mode.
CompleteHost(t, n, succeeded, clean, receipt) ==
    /\ host[t].node = n
    /\ host' = IF HostSwept[t].status # "running" THEN HostSwept
               ELSE [HostSwept EXCEPT
                       ![t].status = IF /\ succeeded /\ clean
                                        /\ host[t].confined => receipt
                                     THEN "succeeded" ELSE "failed",
                       ![t].lease = 0, ![t].end = "reported"]

\* requestAiHostTaskCancellation: certain while queued, only asked for after.
CancelHost(t) ==
    \/ /\ host[t].status = "queued"
       /\ host' = [HostSwept EXCEPT ![t].cancel = TRUE, ![t].status = "failed",
                                    ![t].end = "withdrawn"]
    \/ /\ HostSwept[t].status = "running"
       /\ host' = [HostSwept EXCEPT ![t].cancel = TRUE]
=============================================================================
