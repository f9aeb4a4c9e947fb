------------------------------ MODULE NodeQueues ------------------------------
(***************************************************************************)
(* The four queues side by side, with the heartbeat they share: POST       *)
(* /daemon/heartbeat renews host, file and SteamCMD tasks from one list of *)
(* active ids (packages/api/job-controller/src/index.ts).  A Daemon is anything   *)
(* that can call the routes, at any time, in any order, any number of      *)
(* times.                                                                  *)
(***************************************************************************)
EXTENDS AiHostTasks, RuntimeTasks, NodeFileTasks, SteamcmdTasks

vars == <<host, runtime, file, audit, access, steam, server, silence, sandboxCap>>

QueuesTypeOK == HostTypeOK /\ RuntimeTypeOK /\ FileTypeOK /\ SteamTypeOK /\ RegistryTypeOK

Init == HostInit /\ RuntimeInit /\ FileInit /\ SteamInit /\ RegistryInit

Fresh(t) == {host[t].status, runtime[t].status, file[t].status, steam[t].status} = {"absent"}

HostStep ==
    /\ \/ HostRead
       \/ \E t \in Tasks, n \in Nodes, confined \in BOOLEAN :
             Fresh(t) /\ CreateHost(t, n, confined)
       \/ \E t \in Tasks, n \in Nodes : ClaimHost(t, n)
       \/ \E t \in Tasks, n \in Nodes, sequence \in 1 .. MaxSequence : OutputHost(t, n, sequence)
       \/ \E t \in Tasks, n \in Nodes, succeeded, clean, receipt \in BOOLEAN :
             CompleteHost(t, n, succeeded, clean, receipt)
       \/ \E t \in Tasks : CancelHost(t)
    /\ UNCHANGED <<runtime, fileVars, steamVars, registryVars>>

RuntimeStep ==
    /\ \/ RuntimeRead
       \/ \E t \in Tasks, target \in Targets, job \in Jobs :
             Fresh(t) /\ CreateRuntime(t, target, job)
       \/ \E t \in Tasks, target \in Targets : ClaimRuntime(t, target)
       \/ \E t \in Tasks : RenewRuntime(t) \/ CancelRuntime(t)
       \/ \E t \in Tasks, status \in {"succeeded", "failed", "cancelled"} :
             CompleteRuntime(t, status)
    /\ UNCHANGED <<host, fileVars, steamVars, registryVars>>

FileStep ==
    /\ \/ \E t \in Tasks, n \in Nodes, readonly \in BOOLEAN, old \in SUBSET Tasks :
             Fresh(t) /\ CreateFile(t, n, readonly, old)
       \/ \E t \in Tasks : CancelFile(t)
       \/ \E t \in Tasks, n \in Nodes : ClaimFile(t, n)
       \/ \E n \in Nodes : ClaimNoFile(n)
       \/ \E t \in Tasks, n \in Nodes, succeeded \in BOOLEAN : CompleteFile(t, n, succeeded)
       \/ ChangeAccess
    /\ UNCHANGED <<host, runtime, steamVars, registryVars>>

SteamStep ==
    /\ \/ \E t \in Tasks, n \in Nodes, job \in ToolJobs : Fresh(t) /\ CreateSteamTool(t, n, job)
       \/ \E t \in Tasks, s \in Servers, job \in ServerJobs :
             Fresh(t) /\ CreateSteamServer(t, s, job)
       \/ \E t \in Tasks, n \in Nodes : ClaimSteam(t, n)
       \/ \E n \in Nodes : ClaimNoSteam(n)
       \/ \E t \in Tasks, n \in Nodes, succeeded, proved \in BOOLEAN :
             CompleteSteam(t, n, succeeded, proved)
    /\ UNCHANGED <<host, runtime, fileVars, registryVars>>

\* Naming a task that does not run changes nothing.
Running == {t \in Tasks : "running" \in {host[t].status, file[t].status, steam[t].status}}

Heartbeat(n, active, report, sandbox) ==
    /\ RecordDaemonHeartbeat(n, sandbox)
    /\ file' = RenewedFile(n, active)
    /\ steam' = RenewedSteam(n, active) /\ server' = ReportedServers(n, report)
    /\ host' = RenewedHost(n, active)
    /\ UNCHANGED <<runtime, audit, access>>

Tick ==
    /\ AgeHeartbeats
    /\ host' = Aged(host) /\ runtime' = Aged(runtime) /\ file' = Aged(file)
    /\ steam' = Aged(steam)
    /\ UNCHANGED <<audit, access, server>>

Next ==
    \/ HostStep \/ RuntimeStep \/ FileStep \/ SteamStep \/ Tick
    \/ \E n \in Nodes, sandbox \in BOOLEAN : \E active \in SUBSET Running,
          report \in SteamReports(n) : Heartbeat(n, active, report, sandbox)

Spec == Init /\ [][Next]_vars

-----------------------------------------------------------------------------
(* Properties.                                                               *)

\* "An expired lease is not revived by a late heartbeat, a late completion is
\* not accepted, side effects are not replayed" (packages/jobs/jobs/README.md,
\* line 3), for host tasks and for runtime tasks, whatever the nodes send.
HostContract    == INSTANCE TaskContract WITH LateReports <- FALSE,
                       phase <- PhasesOf(host), held <- HeldIn(host)
RuntimeContract == INSTANCE TaskContract WITH LateReports <- FALSE,
                       phase <- PhasesOf(runtime), held <- HeldIn(runtime)

HostKeepsContract    == HostContract!Spec
RuntimeKeepsContract == RuntimeContract!Spec

\* File tasks keep the weaker contract: a late renewal or result counts until
\* the node's next claim, but nothing is taken twice or changed once it ended.
FileContract == INSTANCE TaskContract WITH LateReports <- TRUE,
                    phase <- PhasesOf(file), held <- HeldIn(file)

FileKeepsContract == FileContract!Spec

\* So do SteamCMD tasks.
SteamContract == INSTANCE TaskContract WITH LateReports <- TRUE,
                     phase <- PhasesOf(steam), held <- HeldIn(steam)

SteamKeepsContract == SteamContract!Spec

\* A server is in a state of passage only for the one unfinished task of its
\* node, whichever of create, claim, sweep, completion and heartbeats come
\* in whatever order; else nothing would ever lead out of it
\* (createSteamcmdServerTask, claimNextSteamcmdTask, completeSteamcmdTask).
ServerHeld ==
    /\ \A n \in Nodes : \A t, u \in SteamUnfinished(n) : t = u
    /\ \A s \in Servers :
          /\ server[s].installation = "installing" =>
                \E t \in SteamUnfinished(NodeOf[s]) :
                    steam[t].job = "install-server" /\ s \in GroupOf[steam[t].server]
          /\ \A job \in {"start-server", "stop-server"} :
                server[s].status = (IF job = "start-server" THEN "starting" ELSE "stopping") =>
                \E t \in SteamUnfinished(NodeOf[s]) : steam[t].job = job /\ steam[t].server = s

\* A target runs one environment operation at a time, although leases run out
\* while their executors go on (claimRuntimeTask).
RuntimeSerial ==
    \A t, u \in Tasks :
        /\ runtime[t].status = "running" /\ runtime[u].status = "running"
        /\ runtime[t].target = runtime[u].target
        => t = u

\* Every file operation a node reported is audited exactly once, and nothing
\* else is; repeated and late completions add no row (completeNodeFileTask).
AuditedOnce ==
    \A t \in Tasks : audit[t] = IF file[t].end = "reported" THEN 1 ELSE 0
=============================================================================
