----------------------------- MODULE SteamcmdTasks -----------------------------
(***************************************************************************)
(* SteamCMD tasks and Steam game servers                                   *)
(* (packages/games/steamcmd/src/service.ts) and the routes around them     *)
(* (packages/api/job-controller/src/index.ts).  A node has one unfinished  *)
(* task at a time.  Only the claiming node sweeps its own tasks, and no    *)
(* report looks at the lease.                                              *)
(*                                                                         *)
(* The servers are there from the start, as are the clusters whose shards  *)
(* share one installation.  Whether the node has SteamCMD ready, and       *)
(* whether a server's own configuration allows the operation, is left      *)
(* open.                                                                   *)
(***************************************************************************)
EXTENDS LeaseQueue

CONSTANTS Servers,
          NodeOf,      \* node_id of each server
          GroupOf      \* of each server: itself and the other shards of its cluster

ASSUME ServersAssumption ==
    /\ NodeOf \in [Servers -> Nodes]
    /\ GroupOf \in [Servers -> SUBSET Servers]
    /\ \A s \in Servers : s \in GroupOf[s]
    /\ \A s \in Servers : \A u \in GroupOf[s] : GroupOf[u] = GroupOf[s] /\ NodeOf[u] = NodeOf[s]

VARIABLES steam, server

steamVars == <<steam, server>>

\* install-server stands for update-server too, verify for install.
ServerJobs == {"install-server", "start-server", "stop-server"}
ToolJobs   == {"verify", "uninstall"}

SteamRow == [status : {"absent", "queued", "running", "succeeded", "failed"},
             node : Nodes, job : ServerJobs \cup ToolJobs,
             server : Servers,                 \* of a server job
             lease : Leases, end : Ends, order : Nat]

ServerRow == [installation : {"unknown", "installing", "installed", "failed"},
              status : {"unknown", "stopped", "running", "starting", "stopping"},
              process : BOOLEAN]               \* process_id IS NOT NULL

SteamTypeOK == steam \in [Tasks -> SteamRow] /\ server \in [Servers -> ServerRow]

SteamInit ==
    /\ \E n \in Nodes, s \in Servers :
          steam = [t \in Tasks |-> [status |-> "absent", node |-> n, job |-> "verify",
                                    server |-> s, lease |-> 0, end |-> "none", order |-> 0]]
    /\ server = [s \in Servers |-> [installation |-> "unknown", status |-> "unknown",
                                    process |-> FALSE]]

On(n) == {s \in Servers : NodeOf[s] = n}

SteamTasksOf(n, statuses) == {t \in Tasks : steam[t].node = n /\ steam[t].status \in statuses}

SteamUnfinished(n) == SteamTasksOf(n, {"queued", "running"})

Inactive(s, installations) ==
    \/ server[s].status = "stopped"
    \/ server[s].status = "unknown" /\ ~ server[s].process /\ server[s].installation \in installations

\* What createSteamcmdServerTask asks of the server, and how it marks it.
Startable(s) == server[s].installation = "installed" /\ server[s].status = "stopped"

Marked(s, job) ==
    [u \in Servers |->
        CASE job = "install-server" /\ u \in GroupOf[s] -> [server[u] EXCEPT !.installation = "installing"]
          [] job = "start-server" /\ u = s -> [server[u] EXCEPT !.status = "starting"]
          [] job = "stop-server" /\ u = s  -> [server[u] EXCEPT !.status = "stopping"]
          [] OTHER -> server[u]]

\* insertSteamcmdTask
Inserted(t, n, job, s) ==
    [steam EXCEPT ![t] = [status |-> "queued", node |-> n, job |-> job, server |-> s,
                          lease |-> 0, end |-> "none", order |-> RowCount(steam)]]

\* createSteamcmdTask.  An unfinished task of the same kind is handed out.
CreateSteamTool(t, n, job) ==
    /\ Online(n) /\ SteamUnfinished(n) = {}
    /\ job = "uninstall" => \A s \in On(n) : Inactive(s, {"unknown"})
    /\ steam' = Inserted(t, n, job, steam[t].server)
    /\ UNCHANGED server

\* createSteamcmdServerTask
CreateSteamServer(t, s, job) ==
    /\ Online(NodeOf[s]) /\ SteamUnfinished(NodeOf[s]) = {}
    /\ job = "install-server" => \A u \in GroupOf[s] : Inactive(u, {"unknown", "failed"})
    /\ job = "start-server" => Startable(s)
    /\ job = "stop-server" => server[s].status = "running"
    /\ steam' = Inserted(t, NodeOf[s], job, s)
    /\ server' = Marked(s, job)

\* renewSteamcmdTaskLeases, from the heartbeat.
RenewedSteam(n, active) ==
    [t \in Tasks |-> IF t \in active \cap SteamTasksOf(n, {"running"})
                     THEN [steam[t] EXCEPT !.lease = LeaseDuration] ELSE steam[t]]

\* A heartbeat tells of the servers that the answer to the last one named.
SteamReports(n) == [{} -> {"running"}] \cup [On(n) -> {"running", "stopped", "unknown"}]

\* updateSteamcmdServerStatesFromDaemon
ReportedServers(n, report) ==
    [s \in Servers |->
        CASE s \in DOMAIN report ->
               [server[s] EXCEPT !.status = report[s], !.process = report[s] = "running"]
          [] s \in On(n) \ DOMAIN report
                /\ server[s].status \in {"running", "starting", "stopping"} ->
               [server[s] EXCEPT !.status = "unknown", !.process = FALSE]
          [] OTHER -> server[s]]

\* The sweep with which a claim begins, and what it makes of the servers.
SteamSwept(n) == Swept(steam, {t \in Tasks : steam[t].node = n})

LapsedJobs(n) == {t \in Tasks : steam[t].node = n /\ Lapsed(steam, t)}

\* Mutant of SweptServers: a cluster is taken for a single server.
SweptServersAlone(n) ==
    [s \in Servers |->
        IF \E t \in LapsedJobs(n) : steam[t].job \in ServerJobs /\ s = steam[t].server
        THEN [server[s] EXCEPT !.installation =
                 IF \E t \in LapsedJobs(n) : steam[t].job = "install-server" /\ s = steam[t].server
                 THEN "unknown" ELSE @,
              !.status = "unknown", !.process = FALSE]
        ELSE server[s]]

SweptServers(n) ==
    [s \in Servers |->
        IF \E t \in LapsedJobs(n) : steam[t].job = "install-server" /\ s \in GroupOf[steam[t].server]
        THEN [installation |-> "unknown", status |-> "unknown", process |-> FALSE]
        ELSE IF \E t \in LapsedJobs(n) : steam[t].job \in ServerJobs /\ s = steam[t].server
        THEN [server[s] EXCEPT !.status = "unknown", !.process = FALSE]
        ELSE server[s]]

\* POST /daemon/steamcmd/tasks/claim
ClaimSteam(t, n) ==
    /\ Online(n) /\ Oldest(steam, SteamTasksOf(n, {"queued"}), t)
    /\ steam' = [SteamSwept(n) EXCEPT ![t].status = "running", ![t].lease = LeaseDuration]
    /\ server' = SweptServers(n)

ClaimNoSteam(n) ==
    /\ Online(n) /\ SteamTasksOf(n, {"queued"}) = {}
    /\ steam' = SteamSwept(n) /\ server' = SweptServers(n)

\* completeSteamcmdTask; proved: the result has installed, processStarted and
\* a process id, or stopped.
CompletedServer(u, t, succeeded, proved) ==
    LET job == steam[t].job
        ok  == succeeded /\ proved
    IN  CASE job = "install-server" /\ u \in GroupOf[steam[t].server] ->
               [installation |-> IF ok THEN "installed" ELSE "failed",
                status |-> IF succeeded THEN "stopped" ELSE "unknown", process |-> FALSE]
          [] job = "start-server" /\ u = steam[t].server ->
               [server[u] EXCEPT !.status = IF ok THEN "running" ELSE "unknown", !.process = ok]
          [] job = "stop-server" /\ u = steam[t].server ->
               [server[u] EXCEPT !.status = IF ok THEN "stopped" ELSE "unknown",
                                 !.process = IF ok THEN FALSE ELSE @]
          [] OTHER -> server[u]

CompleteSteam(t, n, succeeded, proved) ==
    /\ steam[t].node = n /\ steam[t].status = "running"
    /\ steam' = [steam EXCEPT ![t].status = IF succeeded THEN "succeeded" ELSE "failed",
                              ![t].lease = 0, ![t].end = "reported"]
    /\ server' = [u \in Servers |-> CompletedServer(u, t, succeeded, proved)]
=============================================================================
