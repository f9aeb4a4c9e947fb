------------------------------- MODULE TaskLanes -------------------------------
(***************************************************************************)
(* How the Daemon takes work (packages/host/daemon/src/task-lanes.mjs and  *)
(* the two polling loops and shutdown of daemon.mjs): one maintenance lane *)
(* for the queues of Maintenance, served in rotation, and for file tasks;  *)
(* one lane for shell commands, which may run without any time limit.      *)
(*                                                                         *)
(* The Daemon is one thread.  An action is the code between two awaits; a  *)
(* claim is a request the control plane handles at some moment and whose   *)
(* answer the poller gets later, or never.                                 *)
(***************************************************************************)
EXTENDS Naturals, Sequences

CONSTANTS Maintenance,     \* the sequence of maintenance queues of poll
          Tasks, None,
          Pending,         \* the answer of a claim that is still out
          MaxFaults        \* bound on requests that fail while the Daemon is up

Rotated == {Maintenance[k] : k \in 1 .. Len(Maintenance)}
Queues  == Rotated \cup {"files", "shell"}
Lanes   == {"maintenance", "shell"}
Pollers == {"poll", "pollFile"}

ASSUME MaintenanceAssumption ==
    Len(Maintenance) \in Nat \ {0} /\ "files" \notin Rotated /\ "shell" \notin Rotated
ASSUME LanesAssumption ==
    None \notin Tasks \cup Queues /\ Pending \notin Tasks \cup {None}
ASSUME FaultsAssumption == MaxFaults \in Nat

VARIABLES place,      \* [Tasks -> where the task is]
          queue,      \* [Tasks -> the queue it was submitted to]
          running,    \* [Lanes -> the task of the lane, or None]
          polling,    \* a poll is under way
          cursor,     \* the maintenance queue the next poll begins with, from 0
          asking,     \* [Pollers -> the queue its claim is out for, or None]
          offset,     \* how far the poll has come in the rotation
          answer,     \* [Pollers -> Pending, None or the task it was given]
          ready,      \* controlPlaneReady
          daemon,     \* "up", "stopping", "draining" or "exited"
          cancelled,  \* the commands under way were told to end
          faults,
          overtaken   \* [Queues -> turns others had since it has had a task waiting]

pollVars == <<polling, cursor, asking, offset, answer>>
vars == <<place, queue, running, pollVars, ready, daemon, cancelled, faults, overtaken>>

TypeOK ==
    /\ place \in [Tasks -> {"new", "queued", "claimed", "running", "over", "lost", "dropped"}]
    /\ queue \in [Tasks -> Queues]
    /\ running \in [Lanes -> Tasks \cup {None}]
    /\ polling \in BOOLEAN /\ cursor \in 0 .. Len(Maintenance) - 1
    /\ asking \in [Pollers -> Queues \cup {None}]
    /\ offset \in 0 .. Len(Maintenance) - 1
    /\ answer \in [Pollers -> Tasks \cup {Pending, None}]
    /\ ready \in BOOLEAN /\ daemon \in {"up", "stopping", "draining", "exited"}
    /\ cancelled \in BOOLEAN /\ faults \in 0 .. MaxFaults
    /\ overtaken \in [Queues -> Nat]

Init ==
    /\ place = [t \in Tasks |-> "new"]
    /\ queue \in [Tasks -> Queues]
    /\ running = [l \in Lanes |-> None]
    /\ polling = FALSE /\ cursor = 0 /\ offset = 0
    /\ asking = [p \in Pollers |-> None] /\ answer = [p \in Pollers |-> None]
    /\ ready = FALSE /\ daemon = "up" /\ cancelled = FALSE /\ faults = 0
    /\ overtaken = [q \in Queues |-> 0]

stopped == daemon # "up"
Free(l) == running[l] = None
Waiting(q) == {t \in Tasks : queue[t] = q /\ place[t] = "queued"}

-----------------------------------------------------------------------------
(* The control plane.                                                        *)

Submit(t) ==
    /\ place[t] = "new" /\ place' = [place EXCEPT ![t] = "queued"]
    /\ UNCHANGED <<queue, running, pollVars, ready, daemon, cancelled, faults, overtaken>>

\* What the count of turns is once tasks have left their queues.
Recount == overtaken' = [r \in Queues |-> IF Waiting(r)' = {} THEN 0 ELSE overtaken[r]]

\* A claim route hands out a task of the queue, or nothing.
HandleClaim(p) ==
    /\ asking[p] # None /\ answer[p] = Pending
    /\ IF Waiting(asking[p]) = {}
       THEN answer' = [answer EXCEPT ![p] = None] /\ UNCHANGED place
       ELSE \E t \in Waiting(asking[p]) :
               /\ answer' = [answer EXCEPT ![p] = t]
               /\ place' = [place EXCEPT ![t] = "claimed"]
    /\ UNCHANGED <<queue, running, polling, cursor, asking, offset, ready, daemon,
                   cancelled, faults>>
    /\ Recount

-----------------------------------------------------------------------------
(* Steps of the pollers.  Asks(p, q): await claim(q); Returns(p): the poll   *)
(* is over and polling is reset.                                             *)

Asks(p, q) ==
    /\ asking' = [asking EXCEPT ![p] = q]
    /\ answer' = [answer EXCEPT ![p] = Pending]
    /\ polling' = TRUE

Returns(p) ==
    /\ asking' = [asking EXCEPT ![p] = None]
    /\ answer' = [answer EXCEPT ![p] = None]
    /\ polling' = FALSE

QueueAt(k) == Maintenance[((cursor + k) % Len(Maintenance)) + 1]

\* The health check that lets both loops poll.
BecomesReady ==
    /\ daemon = "up" /\ ~ ready /\ asking["poll"] = None
    /\ ready' = TRUE
    /\ UNCHANGED <<place, queue, running, pollVars, daemon, cancelled, faults, overtaken>>

\* The heartbeat before a poll fails, and the health check comes again.
HeartbeatFails ==
    /\ daemon = "up" /\ ready /\ asking["poll"] = None /\ faults < MaxFaults
    /\ ready' = FALSE /\ faults' = faults + 1
    /\ UNCHANGED <<place, queue, running, pollVars, daemon, cancelled, overtaken>>

\* poll, up to its first claim (with both lanes taken it asks for nothing).
PollBegins ==
    /\ ~ stopped /\ ready /\ asking["poll"] = None /\ ~ polling
    /\ \/ Free("maintenance") /\ Asks("poll", QueueAt(0))
       \/ ~ Free("maintenance") /\ Free("shell") /\ Asks("poll", "shell")
    /\ offset' = 0
    /\ UNCHANGED <<place, queue, running, cursor, ready, daemon, cancelled, faults, overtaken>>

\* Mutants of PollFileBegins: a poll under way, or a taken lane, does not matter.
PollFileBeginsBeside ==
    /\ ~ stopped /\ ready /\ asking["pollFile"] = None
    /\ Free("maintenance")
    /\ Asks("pollFile", "files")
    /\ UNCHANGED <<place, queue, running, cursor, offset, ready, daemon, cancelled, faults,
                   overtaken>>

PollFileBeginsBusy ==
    /\ ~ stopped /\ ready /\ asking["pollFile"] = None
    /\ ~ polling
    /\ Asks("pollFile", "files")
    /\ UNCHANGED <<place, queue, running, cursor, offset, ready, daemon, cancelled, faults,
                   overtaken>>

\* pollFile, up to its claim.
PollFileBegins ==
    /\ ~ stopped /\ ready /\ asking["pollFile"] = None
    /\ ~ polling /\ Free("maintenance")
    /\ Asks("pollFile", "files")
    /\ UNCHANGED <<place, queue, running, cursor, offset, ready, daemon, cancelled, faults,
                   overtaken>>

Launch(l, t) ==
    /\ running' = [running EXCEPT ![l] = t]
    /\ place' = [place EXCEPT ![t] = "running"]

\* A claimed task the poller does not launch after all.
LeaveOut(t) ==
    /\ place' = IF t = None THEN place ELSE [place EXCEPT ![t] = "dropped"]
    /\ UNCHANGED running

\* The turn of queue q is taken while the queues of Q have a task waiting.
TurnOf(q) ==
    overtaken' = [r \in Queues |-> IF r = q THEN 0
                                   ELSE IF Waiting(r) # {} THEN overtaken[r] + 1 ELSE 0]

\* After the maintenance part of poll.
GoesOnToShell == IF Free("shell") THEN Asks("poll", "shell") ELSE Returns("poll")

\* Mutant of NextCursor: the rotation stays at the queue that was served.
SameCursor == (cursor + offset) % Len(Maintenance)

NextCursor == (cursor + offset + 1) % Len(Maintenance)

\* poll, when the claim of a maintenance queue is answered.
MaintenanceAnswered ==
    LET t == answer["poll"]
        q == asking["poll"]
    IN  /\ q \notin {None, "shell"} /\ t # Pending
        /\ \/ /\ stopped
              /\ LeaveOut(t) /\ Returns("poll") /\ UNCHANGED <<cursor, offset, overtaken>>
           \/ /\ ~ stopped /\ t # None
              /\ Launch("maintenance", t) /\ cursor' = NextCursor /\ TurnOf(q)
              /\ GoesOnToShell /\ UNCHANGED offset
           \/ /\ ~ stopped /\ t = None /\ offset + 1 < Len(Maintenance)
              /\ Asks("poll", QueueAt(offset + 1)) /\ offset' = offset + 1
              /\ UNCHANGED <<place, running, cursor, overtaken>>
           \/ /\ ~ stopped /\ t = None /\ offset + 1 = Len(Maintenance)
              /\ GoesOnToShell /\ UNCHANGED <<place, running, cursor, offset, overtaken>>
    /\ UNCHANGED <<queue, ready, daemon, cancelled, faults>>

\* poll, when the claim of the shell queue is answered.
ShellAnswered ==
    LET t == answer["poll"] IN
    /\ asking["poll"] = "shell" /\ t # Pending
    /\ IF ~ stopped /\ t # None THEN Launch("shell", t) ELSE LeaveOut(t)
    /\ Returns("poll")
    /\ UNCHANGED <<queue, cursor, offset, ready, daemon, cancelled, faults, overtaken>>

\* pollFile, when its claim is answered.
FilesAnswered ==
    LET t == answer["pollFile"] IN
    /\ asking["pollFile"] = "files" /\ t # Pending
    /\ IF ~ stopped /\ t # None /\ Free("maintenance")
       THEN Launch("maintenance", t) ELSE LeaveOut(t)
    /\ Returns("pollFile")
    /\ UNCHANGED <<queue, cursor, offset, ready, daemon, cancelled, faults, overtaken>>

\* The claim fails: timed out, refused, or aborted by the shutdown.  What the
\* control plane hands out for it, before or after, reaches nobody.
ClaimFails(p) ==
    /\ asking[p] # None
    /\ \/ daemon = "stopping" /\ UNCHANGED faults
       \/ daemon = "up" /\ faults < MaxFaults /\ faults' = faults + 1
    /\ \/ /\ answer[p] \in {Pending, None} /\ UNCHANGED place
       \/ \E t \in IF answer[p] = Pending THEN Waiting(asking[p]) ELSE {answer[p]} \ {None} :
             place' = [place EXCEPT ![t] = "lost"]
    /\ ready' = (ready /\ p = "pollFile")
    /\ Returns(p)
    /\ UNCHANGED <<queue, running, cursor, offset, daemon, cancelled>>
    /\ Recount

-----------------------------------------------------------------------------
(* Execution, and the end of the Daemon.                                     *)

Finish(l) ==
    /\ ~ Free(l)
    /\ running' = [running EXCEPT ![l] = None]
    /\ place' = [place EXCEPT ![running[l]] = "over"]
    /\ UNCHANGED <<queue, pollVars, ready, daemon, cancelled, faults, overtaken>>

\* shutdown: no more claims, and the requests under way are aborted.
Stop ==
    /\ daemon = "up" /\ daemon' = "stopping"
    /\ UNCHANGED <<place, queue, running, pollVars, ready, cancelled, faults, overtaken>>

\* Mutant of CancelCommands: the lanes are drained without it.
CancelNothing ==
    /\ daemon = "stopping" /\ \A p \in Pollers : asking[p] = None
    /\ daemon' = "draining"
    /\ UNCHANGED <<place, queue, running, pollVars, ready, cancelled, faults, overtaken>>

\* Once both loops are over: every command in activeCommands is cancelled.
CancelCommands ==
    /\ daemon = "stopping" /\ \A p \in Pollers : asking[p] = None
    /\ daemon' = "draining" /\ cancelled' = TRUE
    /\ UNCHANGED <<place, queue, running, pollVars, ready, faults, overtaken>>

\* Mutant of Exit: only maintenance tasks are waited for.
ExitBesideShell ==
    /\ daemon = "draining" /\ Free("maintenance")
    /\ daemon' = "exited"
    /\ UNCHANGED <<place, queue, running, pollVars, ready, cancelled, faults, overtaken>>

\* The lanes are drained and the lock of the node is released.
Exit ==
    /\ daemon = "draining" /\ \A l \in Lanes : Free(l)
    /\ daemon' = "exited"
    /\ UNCHANGED <<place, queue, running, pollVars, ready, cancelled, faults, overtaken>>

Next ==
    \/ \E t \in Tasks : Submit(t)
    \/ \E p \in Pollers : HandleClaim(p) \/ ClaimFails(p)
    \/ BecomesReady \/ HeartbeatFails \/ PollBegins \/ PollFileBegins
    \/ MaintenanceAnswered \/ ShellAnswered \/ FilesAnswered
    \/ \E l \in Lanes : Finish(l)
    \/ Stop \/ CancelCommands \/ Exit

Spec == Init /\ [][Next]_vars

\* Loops go on, requests are answered or fail, maintenance tasks end, shell
\* commands end once they are cancelled.  A poll that meets the other poller's
\* request comes again five seconds later; it does not meet one every time.
Fairness ==
    /\ WF_vars(BecomesReady) /\ SF_vars(PollBegins)
    /\ \A p \in Pollers : WF_vars(HandleClaim(p))
    /\ WF_vars(MaintenanceAnswered) /\ WF_vars(ShellAnswered) /\ WF_vars(FilesAnswered)
    /\ WF_vars(Finish("maintenance")) /\ WF_vars(cancelled /\ Finish("shell"))
    /\ WF_vars(CancelCommands) /\ WF_vars(Exit)

FairSpec == Spec /\ Fairness

-----------------------------------------------------------------------------
(* Properties.                                                               *)

\* A lane is given a task only when it is free: the maintenance part of poll
\* launches without looking again after its await, and is right to, because
\* nothing else takes the lane meanwhile (task-lanes.mjs, polling).
LaneKept ==
    [][\A l \in Lanes : running[l] # None => running'[l] \in {running[l], None}]_vars

\* A task the control plane has handed out is not thrown away by a poller,
\* except at the end of the Daemon: nobody else would ever run it.
NoneDropped == daemon = "up" => \A t \in Tasks : place[t] # "dropped"

\* The lock of the node is released only when nothing of the Daemon is left
\* running, so that a new Daemon never works beside it (shutdown, drain).
ExitsIdle ==
    daemon = "exited" => \A t \in Tasks : place[t] \notin {"claimed", "running"}

\* Rotation: while a maintenance queue has a task waiting, every other queue
\* gets at most one turn of poll before it.
RotatesFairly == \A q \in Queues \ {"files", "shell"} : overtaken[q] < Len(Maintenance)

\* A shutdown comes to its end, also beside such a command.
ShutdownEnds == (daemon = "stopping") ~> (daemon = "exited")
=============================================================================
