--------------------------- MODULE ExecutionControl ---------------------------
(***************************************************************************)
(* The control plane together with the real Daemon                         *)
(* (packages/host/daemon/src/daemon.mjs): its heartbeat and claim loop,    *)
(* the maintenance lane that executes one Minecraft task at a time, the    *)
(* server processes it owns, its crashes, and requests that time out.      *)
(*                                                                         *)
(* A request either gets its answer (one step: the control plane handles   *)
(* it and the Daemon goes on), or it times out at the Daemon.  A request   *)
(* that timed out stays in "late": the control plane, busy rather than     *)
(* dead, may still handle it at any later time, or never.                  *)
(*                                                                         *)
(* Faults bounds crashes, shutdowns, time-outs and unexpected server exits *)
(* together.  Instances exist from the start: provisioning is left to      *)
(* MinecraftControl.                                                       *)
(***************************************************************************)
EXTENDS MinecraftControl

CONSTANTS NativeInstances,   \* instances whose account and metadata say "native"
          Faults             \* bound on everything that goes wrong outside the code

ASSUME NativeAssumption == NativeInstances \subseteq Instances
ASSUME FaultsAssumption == Faults \in Nat

VARIABLES loop,       \* [Nodes -> where runLoop is]
          beat,       \* [Nodes -> the heartbeat that is out, or NoBeat]
          job,        \* [Nodes -> what the maintenance lane executes]
          server,     \* [Instances -> the process the Daemon holds, or the directory's fate]
          orphan,     \* [Instances -> a process of an earlier Daemon still runs]
          prepared,   \* [Instances -> the node has sandbox metadata]
          late,       \* requests whose Daemon has given up
          faults,     \* faults so far
          effect      \* [Tasks -> history of the operation itself]

daemonVars == <<loop, beat, job, server, orphan, prepared, late, faults, effect>>
execVars   == <<vars, daemonVars>>

NoBeat == [active |-> {}, reports |-> <<>>]
Idle   == [task |-> None, step |-> "idle", done |-> FALSE, aborted |-> FALSE]

Managed == {"starting", "up", "stopping"}     \* activeServers has the instance
Live(i) == server[i] \in Managed \/ orphan[i]

ExecTypeOK ==
    /\ TypeOK
    /\ loop \in [Nodes -> {"off", "wait", "beat", "claim", "closing"}]
    /\ \A n \in Nodes : /\ beat[n].active \subseteq Tasks
                        /\ DOMAIN beat[n].reports \subseteq Instances
                        /\ \A i \in DOMAIN beat[n].reports : beat[n].reports[i] \in Report
    /\ job \in [Nodes -> [task : Tasks \cup {None},
                          step : {"idle", "accepted", "work", "stopping", "again",
                                  "starting", "trail", "report", "fail"},
                          done : BOOLEAN, aborted : BOOLEAN]]
    /\ server \in [Instances -> Managed \cup {"down", "archived"}]
    /\ orphan \in [Instances -> BOOLEAN]
    /\ prepared \in [Instances -> BOOLEAN]
    /\ \A m \in late : m.node \in Nodes
    /\ faults \in 0 .. Faults
    /\ effect \in [Tasks -> {"none", "begun", "done"}]

\* Registered, stopped instances, each on some node; no Daemon runs yet.
ExecInit ==
    /\ task = [t \in Tasks |-> NoTask]
    /\ deployment = [d \in Deployments |-> NoDeployment]
    /\ \E home \in [Instances -> Nodes] :
          instance = [i \in Instances |->
                        [state |-> "stopped", node |-> home[i], native |-> i \in NativeInstances,
                         sandbox |-> IF i \in NativeInstances THEN "unsupported" ELSE "prepared"]]
    /\ RegistryInit
    /\ loop = [n \in Nodes |-> "off"] /\ beat = [n \in Nodes |-> NoBeat]
    /\ job = [n \in Nodes |-> Idle]
    /\ server = [i \in Instances |-> "down"] /\ orphan = [i \in Instances |-> FALSE]
    /\ prepared = [i \in Instances |-> i \notin NativeInstances]
    /\ late = {} /\ faults = 0
    /\ effect = [t \in Tasks |-> "none"]

-----------------------------------------------------------------------------
(* Requests.                                                                 *)

\* Updates of the lane, the loop and a timed-out request.
Lane(n, j) == job' = [job EXCEPT ![n] = j]
At(n, p)   == loop' = [loop EXCEPT ![n] = p]

Fault == faults < Faults /\ faults' = faults + 1

TimeOut(m) == Fault /\ late' = late \cup {m} /\ UNCHANGED vars

Answered == UNCHANGED <<late, faults>>

\* A request the control plane refuses without doing anything.
Refused(offline) == offline /\ UNCHANGED vars

HandleProgress(n, t)        == Progress(t, n)
ProgressRefused(t)          == Refused(task[t].status # "running")
HandleComplete(n, t, s, o)  == Complete(t, n, s, TRUE, o)
CompleteNotTaken(n, t)      == CompleteLate(t, n) \/ Refused(~ Online(n))

-----------------------------------------------------------------------------
(* runLoop.                                                                  *)

\* Mutant of Scanned: a stopping server is reported as such.
ScannedStopping(i) ==
    LET sandbox == IF i \in NativeInstances THEN "unsupported" ELSE "running" IN
    CASE server[i] = "stopping"             -> [state |-> "stopping", sandbox |-> sandbox]
      [] server[i] \in {"starting", "up"}   -> [state |-> "running", sandbox |-> sandbox]
      [] OTHER                              -> [state |-> "stopped", sandbox |-> sandbox]

\* scanMinecraftInstances, for the instances whose directory is still there.
Scanned(i) ==
    LET native == i \in NativeInstances IN
    CASE server[i] = "starting" -> [state |-> "starting",
                                    sandbox |-> IF native THEN "unsupported" ELSE "unknown"]
      [] server[i] \in {"up", "stopping"} ->
           [state |-> "running", sandbox |-> IF native THEN "unsupported" ELSE "running"]
      [] server[i] = "down" /\ orphan[i] -> [state |-> "unknown", sandbox |-> "unknown"]
      [] OTHER -> [state |-> "stopped",
                   sandbox |-> IF native THEN "unsupported"
                               ELSE IF prepared[i] THEN "prepared" ELSE "unprepared"]

\* A free round of the loop: the heartbeat's body is put together and sent.
SendBeat(n) ==
    LET here == {i \in Instances : instance[i].node = n /\ server[i] # "archived"} IN
    /\ loop[n] = "wait"
    /\ At(n, "beat")
    /\ beat' = [beat EXCEPT ![n] = [active |-> {job[n].task} \ {None},
                                    reports |-> [i \in here |-> Scanned(i)]]]
    /\ UNCHANGED <<vars, job, server, orphan, prepared, late, faults, effect>>

\* The answer names the tasks to abort.
BeatAnswered(n) ==
    /\ loop[n] = "beat"
    /\ Heartbeat(n, beat[n].active, beat[n].reports, TRUE)
    /\ At(n, "claim") /\ beat' = [beat EXCEPT ![n] = NoBeat]
    /\ Lane(n, [job[n] EXCEPT !.aborted = @ \/ job[n].task \in CancellationRequests(n)])
    /\ Answered /\ UNCHANGED <<server, orphan, prepared, effect>>

BeatTimesOut(n) ==
    /\ loop[n] = "beat"
    /\ TimeOut([call |-> "beat", node |-> n, active |-> beat[n].active,
                reports |-> beat[n].reports])
    /\ At(n, "wait") /\ beat' = [beat EXCEPT ![n] = NoBeat]
    /\ UNCHANGED <<job, server, orphan, prepared, effect>>

\* createDaemonTaskLanes.poll, for this queue: only when the lane is free.
ClaimAnswered(n) ==
    /\ loop[n] = "claim" /\ job[n] = Idle
    /\ \/ \E t \in Tasks : Claim(t, n) /\ Lane(n, [Idle EXCEPT !.task = t, !.step = "accepted"])
       \/ /\ ClaimEmpty(n) \/ (\E t \in Tasks : ClaimUnrevealable(t, n)) \/ Refused(~ Online(n))
          /\ UNCHANGED job
    /\ At(n, "wait")
    /\ Answered /\ UNCHANGED <<beat, server, orphan, prepared, effect>>

LaneBusy(n) ==
    /\ loop[n] = "claim" /\ job[n] # Idle
    /\ At(n, "wait")
    /\ UNCHANGED <<vars, beat, job, server, orphan, prepared, late, faults, effect>>

ClaimTimesOut(n) ==
    /\ loop[n] = "claim" /\ job[n] = Idle
    /\ TimeOut([call |-> "claim", node |-> n])
    /\ At(n, "wait")
    /\ UNCHANGED <<beat, job, server, orphan, prepared, effect>>

-----------------------------------------------------------------------------
(* executeTask.  A lane step of node n, whose job is for instance Target(n). *)

Kind(n)   == task[job[n].task].kind
Target(n) == task[job[n].task].instance
Doing(n, step) == job[n].step = step

Step(n, step) == Lane(n, [job[n] EXCEPT !.step = step])

LaneOnly == UNCHANGED <<loop, beat>> /\ Answered

Effect(n, e) == effect' = [effect EXCEPT ![job[n].task] = e]

\* A progress report inside the operation: on refusal or time-out it throws.
ProgressStep(n, onward) ==
    \/ HandleProgress(n, job[n].task) /\ Step(n, onward) /\ Answered
    \/ ProgressRefused(job[n].task) /\ Step(n, "fail") /\ Answered
    \/ /\ TimeOut([call |-> "progress", node |-> n, task |-> job[n].task])
       /\ Step(n, "fail")

Accept(n) ==
    /\ Doing(n, "accepted") /\ ProgressStep(n, "work")
    /\ UNCHANGED <<loop, beat, server, orphan, prepared, effect>>

\* A start begins at once, a restart when its server has stopped.
Starts(n) == Doing(n, "again") \/ (Doing(n, "work") /\ Kind(n) = "start")

\* Mutant of CanStart: nobody looks at the process marker.
CanStartUnmarked(i) == server[i] = "down"

\* Only the native start and the archive look at the process marker.
CanStart(i) == server[i] = "down" /\ (i \in NativeInstances => ~ orphan[i])

\* Preconditions of the operation on the node, beyond the environment's.
Possible(n) ==
    LET i == Target(n) IN
    /\ Starts(n) => CanStart(i)
    /\ ~ Starts(n) /\ Kind(n) \in {"stop", "restart"} => server[i] \in Managed
    /\ Kind(n) \in {"properties", "backup"} => server[i] = "down"
    /\ Kind(n) = "console" => server[i] \in {"up", "stopping"}
    /\ Kind(n) = "delete" => server[i] = "archived" \/ (server[i] = "down" /\ ~ orphan[i])

\* The environment may refuse too (no Java, a busy port, a full disk).
WorkFails(n) ==
    /\ job[n].step \in {"work", "again"} /\ Step(n, "fail")
    /\ LaneOnly /\ UNCHANGED <<vars, server, orphan, prepared, effect>>

\* The server process is created and, in native mode, its pid is recorded at once.
Spawn(n) ==
    /\ Starts(n) /\ Possible(n) /\ ~ job[n].aborted
    /\ server' = [server EXCEPT ![Target(n)] = "starting"]
    /\ prepared' = [prepared EXCEPT ![Target(n)] = @ \/ Target(n) \notin NativeInstances]
    /\ Step(n, "starting") /\ Effect(n, "begun")
    /\ LaneOnly /\ UNCHANGED <<vars, orphan>>

\* The server reports it is ready, or it is killed and the start fails.
Ready(n) ==
    /\ Doing(n, "starting") /\ server[Target(n)] = "starting" /\ ~ job[n].aborted
    /\ server' = [server EXCEPT ![Target(n)] = "up"]
    /\ Step(n, "trail") /\ Effect(n, "done")
    /\ LaneOnly /\ UNCHANGED <<vars, orphan, prepared>>

\* Mutant of StartFails: the error is not thrown on.
StartFailsQuietly(n) ==
    /\ Doing(n, "starting")
    /\ server' = [server EXCEPT ![Target(n)] = "down"]
    /\ Step(n, "trail")
    /\ LaneOnly /\ UNCHANGED <<vars, orphan, prepared, effect>>

StartFails(n) ==
    /\ Doing(n, "starting")
    /\ server' = [server EXCEPT ![Target(n)] = "down"]
    /\ Step(n, "fail")
    /\ LaneOnly /\ UNCHANGED <<vars, orphan, prepared, effect>>

\* The stop command is written before its progress is reported.
SendStop(n) ==
    /\ Doing(n, "work") /\ Kind(n) \in {"stop", "restart"} /\ Possible(n)
    /\ server' = [server EXCEPT ![Target(n)] = "stopping"]
    /\ Effect(n, "begun") /\ ProgressStep(n, "stopping")
    /\ UNCHANGED <<loop, beat, orphan, prepared>>

\* A restart goes on to the start, unless the server had to be killed.
Stopped(n) ==
    /\ Doing(n, "stopping") /\ server[Target(n)] = "down"
    /\ IF Kind(n) = "restart" THEN Step(n, "again") /\ UNCHANGED effect
                              ELSE Step(n, "trail") /\ Effect(n, "done")
    /\ LaneOnly /\ UNCHANGED <<vars, server, orphan, prepared>>

\* applyMinecraftProperties: the file is written in one rename.
WriteProperties(n) ==
    /\ Doing(n, "work") /\ Kind(n) = "properties" /\ Possible(n)
    /\ Step(n, "trail") /\ Effect(n, "done")
    /\ LaneOnly /\ UNCHANGED <<vars, server, orphan, prepared>>

\* backupMinecraftWorld: a copy that fails half-way is removed again.
Backup(n) ==
    /\ Doing(n, "work") /\ Kind(n) = "backup" /\ Possible(n)
    /\ Step(n, "trail") /\ Effect(n, "done")
    /\ LaneOnly /\ UNCHANGED <<vars, server, orphan, prepared>>

\* The command is written to the server's input, and that is all.
Console(n) ==
    /\ Doing(n, "work") /\ Kind(n) = "console" /\ Possible(n)
    /\ Step(n, "report") /\ Effect(n, "done")
    /\ LaneOnly /\ UNCHANGED <<vars, server, orphan, prepared>>

\* archiveMinecraftInstance: progress, then the rename; nothing after it.
Archive(n) ==
    LET i == Target(n) IN
    /\ Doing(n, "work") /\ Kind(n) = "delete" /\ Possible(n)
    /\ IF server[i] = "archived"
       THEN Step(n, "report") /\ Answered /\ UNCHANGED vars
       ELSE ProgressStep(n, "report")
    /\ IF job'[n].step = "report"
       THEN /\ server' = [server EXCEPT ![i] = "archived"] /\ Effect(n, "done")
            /\ prepared' = [prepared EXCEPT ![i] = FALSE]
       ELSE UNCHANGED <<server, effect, prepared>>
    /\ UNCHANGED <<loop, beat, orphan>>

\* What the operation still sends once its effect is there: the last progress
\* of a native start, otherwise a line of the instance log.  Only when this is
\* answered does executeTask know that the operation was completed.
Trail(n) ==
    /\ Doing(n, "trail")
    /\ \/ /\ IF Kind(n) \in {"start", "restart"} /\ Target(n) \in NativeInstances
             THEN HandleProgress(n, job[n].task) ELSE UNCHANGED vars
          /\ Step(n, "report") /\ Answered
       \/ /\ Kind(n) \in {"start", "restart"} /\ Target(n) \in NativeInstances
          /\ ProgressRefused(job[n].task) /\ Step(n, "fail") /\ Answered
       \/ Fault /\ Step(n, "fail") /\ UNCHANGED <<vars, late>>
    /\ UNCHANGED <<loop, beat, server, orphan, prepared, effect>>

\* complete(true); when it throws, the catch block follows.
ReportDone(n) ==
    LET t == job[n].task
        failed == [job[n] EXCEPT !.step = "fail", !.done = TRUE]
    IN  /\ Doing(n, "report")
        /\ \/ HandleComplete(n, t, TRUE, "none") /\ Lane(n, Idle) /\ Answered
           \/ CompleteNotTaken(n, t) /\ Lane(n, failed) /\ Answered
           \/ /\ TimeOut([call |-> "complete", node |-> n, task |-> t,
                          succeeded |-> TRUE, outcome |-> "none"])
              /\ Lane(n, failed)
        /\ UNCHANGED <<loop, beat, server, orphan, prepared, effect>>

\* complete(false) with what is known; its own failure is swallowed.
FailureOutcome(j) ==
    IF j.done THEN "unknown" ELSE IF j.aborted THEN "cancelled" ELSE "none"

ReportFailed(n) ==
    LET t == job[n].task
        o == FailureOutcome(job[n])
    IN  /\ Doing(n, "fail")
        /\ \/ HandleComplete(n, t, FALSE, o) /\ Answered
           \/ CompleteNotTaken(n, t) /\ Answered
           \/ TimeOut([call |-> "complete", node |-> n, task |-> t,
                       succeeded |-> FALSE, outcome |-> o])
        /\ Lane(n, Idle)
        /\ UNCHANGED <<loop, beat, server, orphan, prepared, effect>>

-----------------------------------------------------------------------------
(* Processes.                                                                *)

\* A server told to stop exits; the exit listener clears activeServers.
ServerStops(i) ==
    /\ server[i] = "stopping" /\ server' = [server EXCEPT ![i] = "down"]
    /\ UNCHANGED <<vars, loop, beat, job, orphan, prepared, late, faults, effect>>

ServerExits(i) ==
    /\ server[i] = "up" /\ server' = [server EXCEPT ![i] = "down"] /\ Fault
    /\ UNCHANGED <<vars, loop, beat, job, orphan, prepared, late, effect>>

OrphanExits(i) ==
    /\ orphan[i] /\ orphan' = [orphan EXCEPT ![i] = FALSE]
    /\ UNCHANGED <<vars, loop, beat, job, server, prepared, late, faults, effect>>

Off(n) == At(n, "off") /\ Lane(n, Idle) /\ beat' = [beat EXCEPT ![n] = NoBeat]

\* The Daemon dies.  Its servers die with it or live on, found by their marker;
\* an AppContainer server that was not ready yet has no marker and is gone.
Survivors(n) ==
    {i \in Instances : /\ instance[i].node = n
                       /\ server[i] \in IF i \in NativeInstances THEN Managed
                                       ELSE Managed \ {"starting"}}

Crash(n) ==
    /\ loop[n] # "off" /\ Off(n) /\ Fault
    /\ \E S \in SUBSET Survivors(n) :
          orphan' = [i \in Instances |-> orphan[i] \/ i \in S]
    /\ server' = [i \in Instances |-> IF instance[i].node = n /\ server[i] \in Managed
                                       THEN "down" ELSE server[i]]
    /\ UNCHANGED <<vars, prepared, late, effect>>

\* shutdown: polling is aborted, with the request that may be out, and the
\* lane drains without heartbeats; a start whose look at shuttingDown is past
\* goes on.
BeginShutdown(n) ==
    /\ loop[n] \notin {"off", "closing"} /\ At(n, "closing") /\ Fault
    /\ late' = CASE loop[n] = "beat" ->
                       late \cup {[call |-> "beat", node |-> n, active |-> beat[n].active,
                                   reports |-> beat[n].reports]}
                 [] loop[n] = "claim" /\ job[n] = Idle ->
                       late \cup {[call |-> "claim", node |-> n]}
                 [] OTHER -> late
    /\ beat' = [beat EXCEPT ![n] = NoBeat]
    /\ UNCHANGED <<vars, job, server, orphan, prepared, effect>>

\* Then every server is stopped and the process ends.
Shutdown(n) ==
    /\ loop[n] = "closing" /\ job[n] = Idle /\ Off(n)
    /\ server' = [i \in Instances |-> IF instance[i].node = n /\ server[i] \in Managed
                                       THEN "down" ELSE server[i]]
    /\ UNCHANGED <<vars, orphan, prepared, late, faults, effect>>

StartDaemon(n) ==
    /\ loop[n] = "off" /\ At(n, "wait")
    /\ UNCHANGED <<vars, beat, job, server, orphan, prepared, late, faults, effect>>

\* The control plane gets to a request whose Daemon no longer listens.
HandleLate(m) ==
    /\ m \in late /\ late' = late \ {m}
    /\ \/ m.call = "beat" /\ Heartbeat(m.node, m.active, m.reports, TRUE)
       \/ /\ m.call = "claim"
          /\ \/ \E t \in Tasks : Claim(t, m.node) \/ ClaimUnrevealable(t, m.node)
             \/ ClaimEmpty(m.node) \/ Refused(~ Online(m.node))
       \/ /\ m.call = "progress"
          /\ HandleProgress(m.node, m.task) \/ ProgressRefused(m.task)
       \/ /\ m.call = "complete"
          /\ \/ HandleComplete(m.node, m.task, m.succeeded, m.outcome)
             \/ CompleteNotTaken(m.node, m.task)
    /\ UNCHANGED <<loop, beat, job, server, orphan, prepared, faults, effect>>

-----------------------------------------------------------------------------

ExecUserStep ==
    /\ \/ \E t \in Tasks, i \in Instances, kind \in Offered :
             QueueInstanceAction(t, i, kind, i \in NativeInstances)
       \/ \E i \in Instances : UpdateJavaRuntime(i)
       \/ \E t \in Tasks : RequestCancellation(t)
       \/ ListTasks
    /\ UNCHANGED daemonVars

Time == Tick /\ UNCHANGED daemonVars

LoopStep(n) ==
    \/ SendBeat(n) \/ BeatAnswered(n) \/ BeatTimesOut(n)
    \/ ClaimAnswered(n) \/ LaneBusy(n) \/ ClaimTimesOut(n)

LaneStep(n) ==
    \/ Accept(n) \/ WorkFails(n) \/ Spawn(n) \/ Ready(n) \/ StartFails(n)
    \/ SendStop(n) \/ Stopped(n) \/ WriteProperties(n) \/ Backup(n)
    \/ Console(n) \/ Archive(n)
    \/ Trail(n) \/ ReportDone(n) \/ ReportFailed(n)

ProcessStep ==
    \/ \E i \in Instances : ServerStops(i) \/ ServerExits(i) \/ OrphanExits(i)
    \/ \E n \in Nodes : Crash(n) \/ BeginShutdown(n) \/ Shutdown(n) \/ StartDaemon(n)

ExecNext ==
    \/ ExecUserStep \/ Time \/ ProcessStep
    \/ \E n \in Nodes : LoopStep(n) \/ LaneStep(n)
    \/ \E m \in late : HandleLate(m)

ExecSpec == ExecInit /\ [][ExecNext]_execVars

-----------------------------------------------------------------------------
(* Fairness.  Daemons restart, loops and lanes go on, stopped servers exit,  *)
(* time passes.  A claim follows its heartbeat's answer within milliseconds, *)
(* the node stays online for twenty seconds: an accepted claim is not missed *)
(* for ever.  Nothing is assumed of users, faults or late requests.          *)

Fairness ==
    /\ WF_execVars(Time)
    /\ \A i \in Instances : WF_execVars(ServerStops(i))
    /\ \A n \in Nodes : /\ WF_execVars(StartDaemon(n)) /\ WF_execVars(Shutdown(n))
                        /\ WF_execVars(SendBeat(n)) /\ WF_execVars(BeatAnswered(n))
                        /\ WF_execVars(LaneBusy(n)) /\ WF_execVars(ClaimAnswered(n))
                        /\ SF_execVars(ClaimAnswered(n) /\ Online(n))
                        /\ WF_execVars(LaneStep(n))

FairExecSpec == ExecSpec /\ Fairness

-----------------------------------------------------------------------------
(* Properties.                                                               *)

\* The Daemon never drives the control plane beyond what MinecraftControl
\* allows any Daemon to do: every invariant proved there holds here.
ControlSteps == [][Next]_vars

\* A task recorded as succeeded did what it was asked to (executeTask reports
\* success only after the operation, whatever crashes and delays come between).
SucceededDone == \A t \in Tasks : task[t].status = "succeeded" => effect[t] = "done"

\* A task cancelled as "executed: false" never touched the node, before or after.
NotExecutedNeverBegan ==
    \A t \in Tasks : task[t].outcome = "not-executed" => effect[t] = "none"

\* An operation takes effect on the node only while the control plane still
\* counts its task as running or says its outcome is unknown.
EffectAccounted ==
    [][\A t \in Tasks : effect'[t] # effect[t] =>
          task[t].status = "running" \/ task[t].outcome = "unknown"]_execVars

\* A native server that outlived its Daemon has its instance to itself: no later
\* Daemon adds a second process to it or archives its directory, although the
\* instance is in state unknown and only a marker on the disk tells of the
\* process (startNativeMinecraftServer, archiveMinecraftInstance).
OrphanAlone ==
    \A i \in NativeInstances : orphan[i] => server[i] \notin Managed \cup {"archived"}

\* "World properties may only be changed while the instance is stopped"
\* (daemon.mjs, line 1782).
PropertiesOnlyStopped ==
    [][\A t \in Tasks : effect[t] # "done" /\ effect'[t] = "done" /\ task[t].kind = "properties"
          => ~ Live(task[t].instance)]_execVars

\* Every claimed task comes to an end: completed by its node or expired.
TaskEnds == \A t \in Tasks : task[t].status = "running" ~> task[t].status # "running"

\* In the end the control plane and the node agree on every instance whose
\* directory exists and whose processes are all the Daemon's own.
Agree(i) ==
    CASE server[i] = "up"                    -> instance[i].state = "running"
      [] server[i] = "down" /\ ~ orphan[i]   -> instance[i].state = "stopped"
      [] OTHER                               -> TRUE

Settles == \A i \in Instances : <>[]Agree(i)

=============================================================================
