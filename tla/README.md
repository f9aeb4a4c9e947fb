# LFAA: models, checks and proofs

LFAA is a self-hosted workbench for AI work and game servers. One Node.js
process, the *control plane*, serves the web client, keeps all state in one
SQLite database and in the sessions' journals, and runs the model agents.
*Daemons* on the same or on other Windows machines execute what the control plane
queues for them: game server operations, runtime installations, file operations
and shell commands. Daemon and control plane share nothing but HTTP requests that
the Daemon sends.

This directory holds TLA+ modules of the parts that decide whether that works:
the five task queues and the protocol around them, the Daemon's execution of
Minecraft tasks, its task lanes, the life of the agents' runs, the log of a
session, the approvals of write operations and the schedule. TLC checks each of
them on small instances; TLAPS proves the safety properties for every instance.
All paths below are relative to the root of the repository.

## 1. The system

### 1.1 Modelled

| Component | Source | State | Operations | What is hard |
|---|---|---|---|---|
| Minecraft task queue | `packages/jobs/jobs/src/minecraft-queue.ts` | task, instance and deployment rows; a 30 s lease per running task | create, claim, renew, progress, complete, cancel, expire, delete, list | expiry is lazy, reports come late or twice, every ending moves three tables |
| Node registry | `packages/host/daemon/src/local-daemon.ts` | last heartbeat and capabilities per node | heartbeat, online test (20 s) | a node may be silent while its leases still hold |
| Minecraft control plane | `packages/games/minecraft/src/service.ts`, `deployment-service.ts`, `packages/api/job-controller/src/index.ts` | none of its own | eight user operations that queue tasks, the Daemon's routes, instance reports | several users and the agents' tools act on one instance; reports are stale when they are handled |
| Daemon, execution | `packages/host/daemon/src/daemon.mjs`, `minecraft-provisioner.mjs`, `supervisor.mjs` | loop, lane, server processes, process markers on disk | heartbeat, claim, start, stop, restart, console, properties, backup, archive; crash, shutdown, new start | an answer that times out may have been handled; servers outlive the Daemon |
| Task lanes | `packages/host/daemon/src/task-lanes.mjs` | two lanes, one `polling` flag, a cursor | `poll`, `pollFile`, `stop`, `drain` | two loops, one lane, an await between looking and taking |
| AI host tasks | `packages/jobs/jobs/src/ai-host-tasks.ts` | task rows | create, claim, renew, output, complete, cancel, expire | as the Minecraft queue, with a different set of guards |
| Runtime tasks | `packages/jobs/jobs/src/runtime-environment-tasks.ts` | task rows | create, claim, renew, complete, cancel, expire | one operation at a time per target, two executors |
| Node file tasks | `packages/fs/fs/src/queue.ts` | task rows, audit rows | create, claim, renew, complete, cancel, clean up | only a claim sweeps; completion does not look at the lease |
| SteamCMD tasks | `packages/games/steamcmd/src/service.ts` | task rows, states of servers that share an installation | create, claim, renew, progress, complete, expire, state reports | only the claiming node sweeps; no report looks at the lease |
| Agent runs | `packages/core/agent-loop/src/runs.ts`, `run-pause.ts`, `shutdown-state.ts` | live runs, pause gates, queues per session | start, pause, resume, steer, answer, cancel, close | users act while the loop is between awaits; families of runs |
| Agent turns | `packages/core/agent-loop/src/execute-turn.ts` | progress of a turn | request, approve, dispatch, delegate, finish, fail | every await is a place where the run may have been cancelled or paused |
| Session log | `packages/core/session/src/kernel.ts`, `sessions.ts`, `packages/session/session-persistence-jsonl/src` | events of turns and calls, the journal file, interrupted rows | begin, finish, record calls and results, recover, replay | a commit may fail, the process may die between any two; reads repair |
| Approvals | `packages/interaction/permission-presets/src/permissions.ts`, `packages/interaction/user-approval/src` | approval rows, remembered grants and their generation, the family's write gate | ask, wait, decide, consume, lapse, revoke, change the mode | what was decided may have lapsed or been revoked when the call goes on |
| Schedule | `packages/schedule/schedule/src` | task rows, one timer, one drive | create, change, pause, delete, fire, back off, dispose | rows change while a delivery is awaited; a wake-up may be lost |

How they interact: users and tools call the control plane's service functions,
which write rows; a Daemon's heartbeat renews the leases of all queues from one
list of ids, carries its instance and server reports and brings back cancellation
requests; its two loops claim a row, its lanes execute it, and the result is
posted to the row. Nothing is pushed to a Daemon. An agent run calls the same
service functions as users do; before a write it asks the approvals; what it does
is recorded in its session's log; and the schedule starts runs of its own.

### 1.2 What makes each component correct

* **Queues.** A task is handed out once. What ended stays ended. A lease that ran
  out means *outcome unknown*: the operation is not repeated and a late result
  does not count. The row of an instance, deployment or server is in a transitional
  state only while a task is there to resolve it.
* **Execution.** *succeeded* means done, *cancelled before execution* means never
  begun, and whatever happens on the node happens under a task that is running or
  ends up unknown. No second process, no archived directory, under a native server
  that survived its Daemon. Tasks end; the rows come to agree with the node.
* **Lanes.** A lane has one task. No claimed task is dropped. Every queue has its
  turn beside a busy one and beside an unlimited shell command. A shutdown ends
  and leaves nothing running.
* **Runs.** The turns of a session never overlap. A cancelled run sends nothing
  more and ends, its children too; a paused run starts nothing; queues move.
* **Session log.** Whatever fails and whenever the process dies, the journal can
  be replayed; a repair never says of a tool that was entered that it was not
  started; a turn ends once; reading a session does not end a turn under its run;
  what a complete turn began has a result.
* **Approvals.** A write goes through only with its own approval, decided in time
  and consumed once, or under a mode and a grant that hold at the last check. A
  decision is heard by the call that waits for it, and no wait is for ever.
* **Schedule.** A one-shot task starts one run per activation, and another only for
  a crash that came before the last start was noted. The driver never
  sleeps past a due task. A deleted task starts nothing. Due tasks fire.

### 1.3 Not modelled

| Component | Why |
|---|---|
| Sub-agents (`packages/subagent/subagent/src/manager.ts`) | a bounded table of handles over child runs, changed synchronously; the child runs, their waits and cancellations are in `AgentRuns` |
| Workflow service (`packages/workflow`) | its nodes run one after the other, each is an agent run; the rest is rows and definition files changed synchronously |
| MCP and LLM clients | protocols of external programs: HTTP streams, connection I/O |
| Terminal, subprocess, browser, game connectivity | operating-system and network I/O behind thin wrappers |
| Storage back ends | schema and migrations of one synchronous SQLite connection, which the models take as atomic |
| Canvas and video generation (`packages/canvas`, `packages/video`) | an external provider's task beside edits of a project file; section 2 has it as the next component |
| Writing documents, workspace projects, Git | rows and files changed synchronously, calls of an executable |
| Plugins, skills and prompts | catalogues and the installation of packages |
| Runtime executor of the node | downloads and unpacks; its task rows are in `RuntimeTasks` |
| HTTP controllers, SDK, the model's web, SSH, shell and computer tools | routes, schemas and I/O around the services |
| Settings, credentials, identity | rows with validation, cryptography |
| Compaction | pure functions over message lists, which unit tests reach well |
| Knowledge library, attachments, spill storage | content, not control |
| Web client | React components: most of the repository's lines, with no protocol state that is not the server's |

The user interface, the HTTP schemas, storage, settings and integrations with
external programs make up most of the 140,000 lines. What has interleavings, failures
and promises between parties is what section 1.1 lists; a larger share of the
lines would not be a larger share of that. Inside the modelled components the
following is left out: installation, provisioning and reading of properties on the
node; the settings, server configuration and cluster files of SteamCMD; model
messages, tool contracts, routing and compaction inside a turn; of the session log,
titles, plan and archive events, forks, attachments, deletion and the legacy
import; of the approvals, the hashing of scopes and the terminal's own approval
route; of the schedule, the calendar arithmetic (the next occurrence is any
delay up to `Period`) and the history of deliveries.

## 2. Plan

Done, in this order: the Minecraft queue and control plane with an arbitrary
Daemon; the real Daemon in its place; agent runs and turns; the three other
queues against one contract; the task lanes; approvals, schedule, session log;
SteamCMD as the fourth user of the contract; restart, backup and console on the
node; the proofs of all safety properties of the runs and of the refinements, and
of further ones that need no run of their own (section 5).

What could follow:

1. Generation on the canvas and of videos: a provider's task whose state is asked
   after, cancelled and downloaded across awaits while the project file is edited.
2. Installation and provisioning on the node, with the files an interrupted
   attempt leaves behind.
3. Questions with their content, and the terminal's approval route, in `Approvals`.
4. A second session in `SessionLog`, so that the repository's global failure is an
   effect instead of an input (`FailElsewhere`).

## 3. Modules

    LocalDaemon
     |-- MinecraftQueue -- MinecraftControl -- ExecutionControl
     `-- LeaseQueue --+-- AiHostTasks ---.
                      |-- RuntimeTasks --+-- NodeQueues
                      |-- NodeFileTasks -+       |
                      `-- SteamcmdTasks -'  TaskContract (INSTANCE, four times)

    TaskLanes     AgentRuns     SessionLog     Approvals     Schedule

Each of `MinecraftControl`, `ExecutionControl`, `NodeQueues`, `TaskLanes`,
`AgentRuns`, `SessionLog`, `Approvals` and `Schedule` has a module `MC...` that
instantiates it for TLC and a module `...Proofs` with its theorems.
`ExecutionControlProofs` extends `MinecraftControlProofs`.

Conventions. A record of a function is a row; the status `"absent"` is a row that
does not exist yet and `"deleted"` one that was removed. `PROJECT.json` maps every
definition to the lines it stands for. A definition that follows "Mutant of X" is
X with a plausible bug; nothing uses it, except that a property is worth its run
only if it fails when the mutant takes X's place.

**LocalDaemon** counts the ticks since each node's last heartbeat (`silence`) and
keeps the sandbox capability, the only one that can change while a Daemon runs.

**MinecraftQueue** holds the three tables and one operator per exported function
of `minecraft-queue.ts`. SQLite calls are synchronous and the functions have no
`await`: each is one atomic step. The sweep of expired leases is inside the
operators of exactly the functions that call it. The columns `executed` and
`outcome` of the result are one field, the message texts are left out.

**MinecraftControl** adds the service operations with their guards and the
routes. Here a Daemon is *anything that can call the routes*: it claims, reports
and completes with any ids at any time. What holds here holds whatever a Daemon
does.

**ExecutionControl** replaces that by the Daemon of `daemon.mjs`: `loop` is the
place of `runLoop`, `job` the maintenance lane, `server` what `activeServers`
knows, `orphan` a process of an earlier Daemon that only its marker file
`daemon-process.json` tells of, `late` the requests whose Daemon gave up and
which the control plane may still handle. `effect` is a history variable: what
the operation has really done. A restart is a stop that goes on to a start, and
is done only when the server is ready again. `ControlSteps` states that this
Daemon is one of those MinecraftControl allows.

**LeaseQueue, AiHostTasks, RuntimeTasks, NodeFileTasks, SteamcmdTasks,
NodeQueues.** The four other queues. They differ in which functions sweep, which
check the lease and which status a withdrawn task gets, and the modules keep those
differences. `NodeQueues` adds the heartbeat that renews host, file and SteamCMD
tasks from one list, and again a Daemon is anything that can call the routes.

**TaskContract** is the abstract specification of a queue. A task is new, waiting,
taken, and then reported, unknown or withdrawn, and its lease is valid or not.
`PhasesOf` and `HeldIn` map the rows of each queue to it. With `LateReports` the
lease may come back to life and a result may count after it ran out. Host and
runtime tasks implement the strict contract, file and SteamCMD tasks the weak one.

**TaskLanes.** `asking` is the claim a poller awaits, `answer` what it will find
when it goes on. The control plane is reduced to handing out a task of the queue
or none. A claim may fail before or after it was handled.

**AgentRuns.** The process is one thread; an action is what the code does between
two awaits and `at` is the await a run is at. `preflight` to `ending` follow
`executeAiTurn`; the checkpoints are those of `AiRunPauseGate`. Whether an answer
has tool calls, a tool needs approval or is a delegation is a free choice.

**SessionLog.** Of the log only what its readers derive is kept: the state of each
turn, the turn and calls a repair would find open, and the last result of each
call. `began` is a history variable, the calls whose tool was entered. A run has the
two numbers the code has of its calls: `handled`, how far its batches have come, and
`counted`, the calls that entered `executePiToolCall` (`toolCallCount`). Calls that
`beforePiToolCall` blocks (`Block`) and calls of a response that is dropped are handled
and not counted. A commit
may fail with the old file, with a file that has a torn tail, or after it was
written; then the repository refuses all work until a restart.

**Approvals.** Calls of agent tools and of the Claude SDK, in families that share a
`writeGate`. A waiting call goes on when it was woken (`woken`: the route notifies after
it has decided) or its five minutes are over (`lapsed`), and finds its row no longer
pending. `earned` is a history variable: the approvals since the grant was last
revoked.

**Schedule.** `drive` lists the due rows once and awaits the deliverer for each;
`receipt` is what the deliverer will say. `runs` is a history variable: the runs
started since a one-shot task was last activated, and the crashes that came after a
start and before the row was marked. Times are ticks from now.

## 4. Runs

In the queues a tick is 20 s: a node that missed one heartbeat window is offline
(`HeartbeatLifetime` 0, "silent for no whole tick"), and a lease of 30 s is over
at the second tick (`LeaseDuration` 2). So a node may be offline while its lease
holds, and back online after it ran out; those are all the orders there are.

| Run | Asks | Bounds | Distinct states |
|---|---|---|---|
| `minecraft_control` | Does the control plane keep its promises whatever a Daemon sends? | 2 tasks, 1 instance, 1 deployment, 1 node, 5 kinds of operation | 163 thousand |
| `execution_control` | With the real Daemon, do rows and node tell the same story? | 2 tasks, 1 native instance, 7 kinds of operation, 1 fault | 829 thousand |
| `execution_liveness` | Do claimed tasks end, and do control plane and node agree in the end? | 2 tasks, start/stop, 1 fault, fairness | 612 thousand |
| `node_queues` | Do the other queues implement the contract? | 2 tasks, 1 node and the local machine, 2 jobs, 2 servers of one cluster, queue limit 1 | 158 thousand |
| `task_lanes` | Is the lane protocol safe, fair, and does a shutdown end? | 3 tasks, 2 maintenance queues, 1 failed request, fairness | 391 thousand |
| `agent_family` | Do cancellation, pause and the queue of a session hold in a family of runs? | 2 runs, depth 1, 2 requests, 1 tool call, 1 input | 928 thousand |
| `agent_liveness` | Do cancelled runs end, pauses settle, queues move? | the same without inputs, fairness | 201 thousand |
| `approvals` | Does every write have its licence, and does every wait end? | 1 tool call, 1 SDK call, 1 revocation, fairness | 180 thousand |
| `schedule` | Does the schedule fire what is due, once? | 2 tasks, occurrences within 2 ticks, longest timeout 1 tick, 2 crashes before a start is noted, fairness | 281 thousand |
| `session_log` | Do log, journal and runs agree through failures and crashes? | 3 turns with 2, 1 and 1 calls, budget of 2 | 1.14 million |
| `revoked_grant` | Can a revoked grant come back? (It can, section 6) | 3 calls, 1 revocation | counterexample |
| `over_budget` | Are executed results kept when the budget ends a turn? (They are not, section 6) | 1 turn of 2 calls, budget of 2 | counterexample |

**Why the bounds are enough.** Two tasks are the smallest number in which one
operation can interfere with another on the same instance, and every property of
the queues is about one task, or about two. A second instance or node would only
add tasks that share nothing, as all guards and updates are per instance, per
deployment or per node. One fault is enough for each recovery; the second crash of
an already recovered Daemon meets the states of the first. `faults` counts
crashes, shutdowns, time-outs and unexpected exits of servers together; it also
keeps restarts below the supervisor's limit of three. Three tasks in `task_lanes`
are one in each lane and one in a poller's hands; an instance with three
maintenance queues (1.0 million states) passes as well. Two runs are a session
with a queue, or a family of a parent and a child. In `node_queues` the limit of a
file queue is 1 instead of 100, so that it is reached, and the constraint `Apart`
keeps SteamCMD tasks and the tasks of the other queues from existing in one
behaviour: they share only the ids, the clock and the heartbeat. Three turns in
`session_log` let a queued turn stand between an interrupted and a later one; two
calls are one executed and one still open. The full instance with two calls in
each turn has 23.5 million states, and passes. In `schedule`, `MaxUnnoted` bounds the
crashes that keep a start of a task from being noted; the second such crash is
the first that meets a duplicate in flight. For the safety properties all this is
no longer the whole argument: section 5 proves them for every instance.

Task ids are interchangeable and the safety runs of the queues use symmetry; the
liveness runs do not.

**Deadlock** is checked in all runs but `minecraft_control`, `execution_control`,
`execution_liveness` and `task_lanes`. Those really may stop: all ids are used up,
or the Daemon has exited.

### Fairness

* `ExecutionControl`: time passes; loops and lanes go on, because every await in
  them has a time limit; a crashed Daemon is started again (`supervisor.mjs`);
  a server told to stop exits or is killed. Strong fairness is assumed of one
  step: a claim that is answered while the node is online. The claim follows the
  answer of the heartbeat at once, the node counts as online for 20 s after it,
  so it is not always missed. Users, faults, late requests and processes that
  nobody told to stop are under no obligation.
* `TaskLanes`: both loops go on, claims are answered or fail within 30 s,
  maintenance tasks end, commands end *once they are cancelled*. `PollBegins` is
  strongly fair: `poll` returns at once when it meets the file loop's claim, and
  comes again five seconds later, at no fixed distance from the file loop's
  interval.
* `AgentRuns`: each run's own steps are weakly fair, because requests and tools
  have time limits and approvals expire. Users, shutdown and restart are free.
  `QueueMoves` therefore only speaks of behaviours in which no run stays paused
  or waits for a user's answer for ever.
* `Approvals`: a call that was woken goes on. Users need not answer. That the five
  minutes of a row pass (its timer goes off) is a premise of the second half of
  `WaitEnds` alone, so that no lapse hides a decision that was not heard.
* `Schedule`: a delivery settles, a drive that began comes to its end, timers go
  off, and a tool that changed a row calls `requestDrive`. Users, the model and the
  process are free.

### What the runs show

*`minecraft_control`.* `InstanceExclusive`: eight operations create tasks and the
only common guard is a `SELECT` in `createMinecraftTask`; it suffices.
`TransitionHeld`: no report, however stale, takes away the state that belongs to
an unfinished task. `NothingStranded`: no instance stays *stopping* and no
deployment *in progress* after its task is gone, in whichever of four ways.
`OutcomeFinal`: an outcome is written once.

*`execution_control`.* `SucceededDone`, `NotExecutedNeverBegan` and
`EffectAccounted` relate the row's outcome to what happened on the node, through
timed-out completions that were handled after all, cancellations that race the
claim, restarts that fail between stop and start, and crashes. `OrphanAlone`: a
native server that survived its Daemon is neither doubled nor loses its directory.
`ControlSteps`: all this is within what `minecraft_control` checks.

*`execution_liveness`.* `TaskEnds`; and `Settles`: control plane and node end up
agreeing on every instance, for good.

*`node_queues`.* `HostKeepsContract`, `RuntimeKeepsContract`, `FileKeepsContract`:
the refinements of section 3. `RuntimeSerial`: leases run out under running
executors, and still a target has one running row. `AuditedOnce`: rows and audit
entries agree although nodes may complete again and again. `ServerHeld`: a game
server in a state of passage has the task that will lead it out, although expiry
waits for the node itself.

*`task_lanes`.* `LaneKept` and `NoneDropped` hold because both polls share one
`polling` flag: `poll` launches after its await without looking at the lane again,
which is right only because `pollFile` cannot have come between. `ExitsIdle`: the
node's lock is released only with both lanes empty and no claim out.
`RotatesFairly`: nobody is overtaken more often than the rotation is long. It counts
the turns `poll` takes; that the file loop does not keep `poll` out of the lane for ever
is no promise of the code and is assumed (the strong fairness of `PollBegins`).
`ShutdownEnds` holds beside an unlimited shell command.

*Agent runs.* `SessionSerial`, with cancellations in the middle of a queue.
`CancelReaches`: a child that is being started while its parent is cancelled is
cancelled too. `CancelledStaysOut` and `PausedHolds` hold at every await;
`CancelEnds`, `PauseSettles` and `QueueMoves` say the loop gets somewhere.

*`approvals`.* `Licensed`: mode changes, revocations, lapses and decisions fall
between any two awaits of a call, and still none goes through on a decision that
was not for it or no longer stood at its last check. `WaitEnds`: a call whose approval
was decided leaves its wait although the row never lapses, for the watch stands before
the row is read and the route notifies every decision; and once the row lapses the call
leaves its wait even if nobody decides.

*`schedule`.* `OnceOnly`: the row is marked only after the delivery was awaited,
and changes made meanwhile are not overwritten into a second firing. A crash between
the start of a run and the mark does fire the row again: once for each such crash, and
for nothing else. `NoWakeupLost`: each of the paths that change rows re-arms the one
timer, or a drive under way will. `DeletedQuiet`: a task deleted while a drive has it in
its list starts no run; that its delivery fails is still noted. `DueFires`.

*`session_log`.* `StartsAgain`: no failure and no crash leaves a journal that the
next start refuses. `RepairHonest`: a call whose tool was entered is never repaired
as *not started*. `LiveTurnKept`: the recovery that every read performs spares the
turn of a live run. `EndedPaired`: the calls begun in a complete turn have results.
`TurnFinal`.

## 5. Proofs

Eight modules hold theorems for any values of the constants. Assumptions are those
named in the modules themselves (finite sets of ids, natural numbers, markers that
are no rows), which TLC evaluates in every run.

| Module | Theorems | Property |
|---|---|---|
| `MinecraftControlProofs` | `TypeCorrect`, `Exclusive`, `TransitionsHeld`, `NoneStranded`, `OutcomesFinal`, `LateRefused` | types, `InstanceExclusive`, `TransitionHeld`, `NothingStranded`, `OutcomeFinal`, `LateCompletionRefused`* |
| `ExecutionControlProofs` | `StaysInControl`, `ExecutionExclusive`, `ExecutionFinal`, `ExecutionNoneStranded`, `SuccessIsReal`, `CancelledUntouched`, `EffectsAccounted`, `OrphansAlone` | `ControlSteps`, what it carries over (`InstanceExclusive`, `OutcomeFinal`, `LateCompletionRefused`*, `NothingStranded`), `SucceededDone`, `NotExecutedNeverBegan`, `EffectAccounted`, `OrphanAlone` |
| `NodeQueuesProofs` | `QueuesTyped`, `TargetsSerial`, `AuditsOnce`, `ServersLedOut`, `HostRefines`, `RuntimeRefines`, `FileRefines`, `SteamRefines` | types, `RuntimeSerial`, `AuditedOnce`, `ServerHeld`, the four refinements |
| `TaskLanesProofs` | `LanesTyped`, `NothingDropped`, `LeavesIdle`, `LanesKept`, `QueuesRotate` | types, `NoneDropped`, `ExitsIdle`, `LaneKept`, `RotatesFairly` |
| `AgentRunsProofs` | `AgentKept`, `TurnsSerial`, `CancelsReach`, `CancelledQuiet`, `PausesHold`, `RowsKept`, `CompleteHeard`, `ActivesLive`, `StatusesFinal`, `NoneWaitInCircle` | types, `SessionSerial`, `CancelReaches`, `CancelledStaysOut`, `PausedHolds`, `CompletedHeard`*, `ActiveIsLive`*, `StatusFinal`*, `NoWaitCycle`* |
| `SessionLogProofs` | `SessionTyped`, `JournalReplays`, `RepairsHonestly`, `LiveTurnsKept`, `TurnsFinal`, `CallsPaired`, `TurnsPaired`, `BudgetAloneDenies`, `ExecutedKeptInBudget` | types, `StartsAgain`, `RepairHonest`, `LiveTurnKept`, `TurnFinal`, `EndedPaired`, `OnlyBudgetDenies`*, when `ExecutedKept` holds |
| `ApprovalsProofs` | `ApprovalsTyped`, `CallsLicensed`, `RefusalsHold` | types, `Licensed`, `RefusedStaysOut`*, `AnswerFinal`* |
| `ScheduleProofs` | `SchedTypeCorrect`, `StartsOnce`, `AlwaysWakes`, `DeletedStaysQuiet` | types, `OnceOnly`, `NoWakeupLost`, `DeletedQuiet` |

A property with an asterisk is in no configuration: it was model-checked on the
instance of the module's run before it was proved, and to see it checked again one
names it in that configuration (`NoWaitCycle` and `OnlyBudgetDenies`, which are
defined with their proofs, in a module that extends the MC module with them; with
three runs TLC finds 2.9 million states for `NoWaitCycle`).

The arguments, each an inductive invariant TLC agreed with first:

* **MinecraftControl.** `IInv == TypeOK /\ InstanceExclusive /\ TransitionHeld`.
  `InstanceExclusive` needs the types. `TransitionHeld` needs `InstanceExclusive`:
  completing, cancelling or expiring a task moves its instance to another state,
  harmless for `TransitionHeld` only if no other unfinished task belongs to that
  instance. Lemmas about the sweep come first, because almost every operation
  begins with it. What one step may do to one row is stated once (`Lawful`, `Calm`)
  and gives `OutcomeFinal`, and with what becomes of an expired row (`Overdue`) also
  `LateCompletionRefused`; for `NothingStranded` the invariant is extended by
  which kind of task goes with which transitional state (`Kinded`, `Attended`,
  `Progressing`).
* **ExecutionControl.** The argument is custody. A task that a lane executes is on
  that node for good (`Duty`), so a node acts on a task only while the control
  plane has it as open; and a request that timed out carries the truth about its
  task whenever it is handled (`Truthful`), because the lane that sent it has come
  to its end and a task is in at most one lane. `ControlSteps` comes from the same
  lemmas, so what one step of the control plane keeps, the composition keeps.
* **NodeQueues.** Each row moves in `Legal` ways; each legal move is a step of
  `TaskContract` under the refinement mapping. Serial targets follow from the claim's
  guard and from leases that only shrink; servers from `Single` (one unfinished task
  per node) and `Led` (every passage has its task).
* **TaskLanes.** `LaneInv` says that one poller asks at a time, and only for a free
  lane (`Asking`), and that a task that was handed out is a poller's answer or in a
  lane (`Custody`). Fairness of the rotation needs
  the distance from the cursor to a waiting queue (`Rotation`).
* **AgentRuns.** `AgentInv`: a queued run's predecessor is live, of the same session
  and not older than any other live run of it (`Chained`), so only the first of a
  chain is beyond its queue; a child is one deeper than its parent (`Deep`) and
  starts after it (`InOrder`, `Known`), so that what a cancellation marks, the
  family collected level by level, is closed under children. That closure is an
  induction over the depth. `RowInv` adds how status and place of a run fit
  (`RowsFit`): a live run that is neither queued nor ending is streaming, and what is
  gone is final while the process is up, which the end of the process breaks and
  `initializeAiRuns` restores. From it a final status is final, a complete turn has
  heard all its inputs, and no row waits for a run that is not there. `Links` gives
  the absence of waiting circles: among runs that wait for children of their own, the
  newest one's child waits for nobody among them; if there are none, the oldest run
  waits for nobody.
* **SessionLog.** `LogInv` ties four views together: what the session holds in
  memory (`Sound`), how the journal ends (`JournalKept`), what a repair would say of
  the calls that began (`Honest`, `BeganKnown`) and where each run is (`Runs`).
  `PairInv` is the invariant of the results: only the turn at the tail has calls
  without one, and of the calls that began only the one at its tool. `OrderInv` says
  that a run's calls are pending from the one it is at, which is what keeps refusals,
  aborts, failures and repairs from denying a call that began; the budget alone looks
  back at the whole batch. It also has that a run counted no more calls than it has
  handled or has at hand, on which `ExecutedKeptInBudget` rests.
* **Approvals.** `Decided`: the row of a call that was approved, was used up or is
  about to be resumed carries the mode in which it was decided. `AnswerFits`: a call
  is past the wait only with a row that is absent or used up, whatever lapses or is
  listed meanwhile.
* **Schedule.** `DriveOK` ties the drive's variables together. `StartedOnce`: nothing
  but what crashes kept from being noted was started for an active one-shot row that
  is not being delivered, or for one that the drive still has in its list. `Fresh` and `Targetless` say what rows that
  do not exist, or no longer, cannot have.

Every safety property of a passing run is a theorem. `MinecraftQueue` is not shown to
implement `TaskContract`: a row there does not tell an outcome the node reported as
unknown from one that expired, which the contract tells apart, and a claim fails a
waiting row whose payload cannot be revealed. `OutcomesFinal`, `LateRefused` and
`CancelledUntouched` state what the contract would say of it.

**Only model-checked:** all liveness (`TaskEnds`, `Settles`, `CancelEnds`,
`PauseSettles`, `QueueMoves`, `WaitEnds`, `ShutdownEnds`, `DueFires`), because the
prover does not treat fairness. `NoneWaitInCircle` is what `QueueMoves` and
`CancelEnds` need of the waits between runs.

## 6. Where documentation and code disagree

Two runs look for a documented statement's violation and find it:

* **`revoked_grant`.** `packages/interaction/permission-presets/README.md` line 7
  says that pending approvals cannot revive a revoked grant. `decideAiToolApproval`
  counts approvals of the generation of the row it decides and never looks at the
  current one: a row that was pending when the grant was revoked brings it back.
* **`over_budget`.** `execute-turn.ts` line 1481 checks the budget before every call
  of a batch, counting the executed ones twice, and then records the whole batch as
  not dispatched: an executed call gets a second result, *not started*, which is
  what the next turn is told. Line 1482 and
  `docs/development/ai-run-reconnect-loop-bounds-20261010.md` line 27 say otherwise.
  Nothing else denies a call that began (`BudgetAloneDenies`), and the budget does not
  where twice the calls of every turn are at most `MaxToolCalls + 1`
  (`ExecutedKeptInBudget`, which assumes just that; TLC agrees for budgets of 3 and 4
  in the instance that violates `ExecutedKept` with a smaller one).

Statements the code does not keep that have a definition but no run. To see the
counterexample, check the definition named:

* `UnknownNotReplayed` (MinecraftControl, three tasks).
  `packages/games/minecraft/README.md` line 19 says that an expired lease has an
  unknown outcome and is not replayed. `retryMinecraftProvision`
  (`deployment-service.ts` line 99) looks at the latest task row *that still
  exists*: after the user deletes the record of an attempt that ended unknown, the
  confirmed failure before it counts and the provisioning is queued again.
* `PropertiesOnlyStopped` (ExecutionControl). `applyMinecraftProperties`
  (`daemon.mjs` line 1782) says world properties may only be changed while the
  instance is stopped, but asks `activeServers` alone; a server that survived its
  Daemon is known by its marker only. The same holds of the backup (line 1895),
  which then copies a world that is being written.
* `IdleMeansIdle` (AgentRuns). Cancelling a queued message takes the whole session
  out of `activeSessionRuns` although another run of it streams; operations that
  demand an idle session (`sessions.ts` lines 260 and 769) are let through.
* `PausedQuiet` (AgentRuns). `setRunPauseRequested` (`runs.ts` line 383) confirms a
  pause at once when an approval is pending. Approvals of a background child are
  forwarded to its parent, which may have a request under way and is shown as
  paused.
* `OneOpenTurn` (SessionLog). The recovery looks at the latest assistant row only
  (`sessions.ts` line 583): after a crash with a message queued behind a streaming
  turn, the streaming turn stays open in the log while later turns open beside it
  (`sessions.ts` line 699, `packages/core/session/README.md` line 13).
* `PausedNotFired` (Schedule). A task that is paused while another task of the same
  drive is being delivered is delivered all the same, although `update.ts` line 54
  says the driver no longer fires it; a recurring row is even active again
  afterwards.
* `GateHolds` (Approvals). `writeGate.denied` is read before the approval is asked
  for (`execute-turn.ts` line 1780) and not again: a write of a sibling that was
  already waiting is let through after the family was refused, although the
  refusal (line 1735) says the task and its children may not go on writing.

Further disagreements met while modelling. The models do what the code does:

* A progress report that arrives after the lease ran out and before anything
  sweeps renews it (`minecraft-queue.ts` line 280), although
  `docs/subsystems/execution-control.zh.md` line 55 has expired leases stay
  expired. Host and runtime tasks do not do this (`HostKeepsContract`,
  `RuntimeKeepsContract`); file and SteamCMD tasks do.
* An AppContainer instance whose sandbox row says *unprepared* and whose start
  ended unknown after the sandbox was prepared stays *unknown*: every later report
  is dropped by the guard at `service.ts` line 1084, although
  `packages/jobs/jobs/README.md` line 9 promises recovery through observation.
* An operation that took effect and whose trailing progress or log request failed
  is reported as an ordinary failure (`minecraft-provisioner.mjs` line 210 with
  `daemon.mjs` line 773).
* Delegation to a domain expert passes no pause checkpoint (`execute-turn.ts` line
  1727), although `agent-loop/README.md` line 74 has one before every dispatch.
* `requestModel` tests for a shutdown before it awaits the pause checkpoint and not
  after it (`execute-turn.ts` line 1193): a run resumed during the shutdown sends
  its request.
* `schedule_update` with a title alone fails, because `tools.ts` line 237 always
  passes a selector object; its description allows it.

## 7. Abstractions a reader should know of

* SQLite is synchronous and transactional; an exported function is one step. A
  crash of the control plane between two steps loses nothing of the rows, so it is
  not an action of the queue modules; for runs, calls, drives and the session log,
  which live in memory or in a file, it is.
* A native server's marker is written right after the process is created. An
  AppContainer server that was still starting dies with its Daemon.
* A restart that had to kill the server refuses to start it again; that is one of
  the failures `WorkFails` stands for.
* Installation, provisioning and reading of properties are not executed in
  `ExecutionControl`; in `MinecraftControl` their tasks exist with all their effects
  on rows.
* Shell commands are registered for cancellation in the same turn of the event loop
  in which they are launched: there is no await on I/O between the two.
* The state of a file or command itself, output texts and byte transfers are not
  part of the queue modules.
* In `NodeQueues`, *install-server* stands for *update-server* too and *verify* for
  *install*: they differ in what the node does, not in what happens to rows.
* A file or SteamCMD task of a node that never returns stays running, because only
  the claiming node sweeps its own; a file task then counts towards the limit of 100
  for good (`queue.ts` lines 107 and 144).
* In `Approvals` all calls are writes of one user with one tool and one target, so
  one grant concerns them all. Mode and grant are not looked at again between the
  last check and the dispatch, nor does `Licensed` ask for it.
* In `Schedule` a one-shot task whose target is unavailable is tried again after
  `Backoff` for ever, as in the code; the list's limit of 100 rows is above the
  number of tasks.
* In `SessionLog` tools run one after the other, and other sessions appear only as
  `FailElsewhere`, a failed commit of theirs. The calls an external agent makes from
  inside a tool are not modelled; they use up the same budget
  (`execute-turn.ts` lines 1603 to 1606), and `ExecutedKeptInBudget` is about turns
  without them.
