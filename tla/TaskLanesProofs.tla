--------------------------- MODULE TaskLanesProofs ---------------------------
(***************************************************************************)
(* Theorems about TaskLanes, for any number of tasks and of maintenance    *)
(* queues.                                                                 *)
(***************************************************************************)
EXTENDS TaskLanes, TLAPS

N == Len(Maintenance)

LEMMA Bounds == N \in Nat /\ N > 0 /\ \A k \in 0 .. N - 1 : Maintenance[k + 1] \in Rotated
<1>1. N \in Nat /\ N > 0  BY MaintenanceAssumption DEF N
<1>2. \A k \in 0 .. N - 1 : k + 1 \in 1 .. N  BY <1>1
<1> QED  BY <1>1, <1>2 DEF Rotated, N

\* The position k steps after c in the rotation.
At(c, k) == IF c + k < N THEN c + k ELSE c + k - N

LEMMA Wraps == \A c \in 0 .. N - 1, k \in 0 .. N : (c + k) % N = At(c, k) /\ At(c, k) \in 0 .. N - 1
<1> SUFFICES ASSUME NEW c \in 0 .. N - 1, NEW k \in 0 .. N
             PROVE  (c + k) % N = At(c, k) /\ At(c, k) \in 0 .. N - 1
    OBVIOUS
<1>1. CASE c + k < N  BY <1>1, Bounds DEF At
<1>2. CASE c + k >= N  BY <1>2, Bounds DEF At
<1> QED  BY <1>1, <1>2, Bounds

-----------------------------------------------------------------------------
(* Types.                                                                    *)

LEMMA AsksTyped ==
    ASSUME TypeOK, NEW p \in Pollers, NEW q \in Queues, Asks(p, q)
    PROVE  /\ asking' \in [Pollers -> Queues \cup {None}]
           /\ answer' \in [Pollers -> Tasks \cup {Pending, None}] /\ polling' \in BOOLEAN
BY DEF Asks, TypeOK

LEMMA ReturnsTyped ==
    ASSUME TypeOK, NEW p \in Pollers, Returns(p)
    PROVE  /\ asking' \in [Pollers -> Queues \cup {None}]
           /\ answer' \in [Pollers -> Tasks \cup {Pending, None}] /\ polling' \in BOOLEAN
BY DEF Returns, TypeOK

LEMMA QueueAtTyped ==
    ASSUME TypeOK, NEW k \in 0 .. N - 1
    PROVE  /\ QueueAt(k) = Maintenance[At(cursor, k) + 1]
           /\ QueueAt(k) \in Rotated /\ QueueAt(k) \in Queues
<1>1. cursor \in 0 .. N - 1 /\ k \in 0 .. N  BY Bounds DEF TypeOK, N
<1>2. (cursor + k) % N = At(cursor, k) /\ At(cursor, k) \in 0 .. N - 1  BY <1>1, Wraps
<1>3. QueueAt(k) = Maintenance[((cursor + k) % N) + 1]  BY DEF QueueAt, N
<1> QED  BY <1>2, <1>3, Bounds DEF Queues

LEMMA RecountTyped ==
    ASSUME TypeOK, Recount PROVE overtaken' \in [Queues -> Nat]
BY DEF Recount, TypeOK

LEMMA PlacesTyped ==
    ASSUME TypeOK, NEW t \in Tasks, NEW p \in {"queued", "claimed", "running", "over", "lost", "dropped"},
           place' = [place EXCEPT ![t] = p]
    PROVE  place' \in [Tasks -> {"new", "queued", "claimed", "running", "over", "lost", "dropped"}]
BY DEF TypeOK

LEMMA ShellQueue == "shell" \in Queues /\ "files" \in Queues /\ None \notin Queues /\ None # "shell"
BY LanesAssumption DEF Queues

LEMMA GoesOnTyped ==
    ASSUME TypeOK, GoesOnToShell
    PROVE  /\ asking' \in [Pollers -> Queues \cup {None}]
           /\ answer' \in [Pollers -> Tasks \cup {Pending, None}] /\ polling' \in BOOLEAN
<1>1. "poll" \in Pollers  BY DEF Pollers
<1> QED  BY <1>1, ShellQueue, AsksTyped, ReturnsTyped DEF GoesOnToShell

\* A launched task, whoever launches it, and one that is left out.
LEMMA LaunchTyped ==
    ASSUME TypeOK, NEW l \in Lanes, NEW t \in Tasks, Launch(l, t)
    PROVE  /\ running' \in [Lanes -> Tasks \cup {None}]
           /\ place' \in [Tasks -> {"new", "queued", "claimed", "running", "over", "lost", "dropped"}]
BY DEF Launch, TypeOK

LEMMA LeaveOutTyped ==
    ASSUME TypeOK, NEW t \in Tasks \cup {None}, LeaveOut(t)
    PROVE  /\ running' \in [Lanes -> Tasks \cup {None}]
           /\ place' \in [Tasks -> {"new", "queued", "claimed", "running", "over", "lost", "dropped"}]
BY DEF LeaveOut, TypeOK

LEMMA NextTyped == TypeOK /\ [Next]_vars => TypeOK'
<1> SUFFICES ASSUME TypeOK, [Next]_vars PROVE TypeOK'  OBVIOUS
<1>1. {"poll", "pollFile"} \subseteq Pollers /\ {"maintenance", "shell"} \subseteq Lanes
      BY DEF Pollers, Lanes
<1>2. ASSUME NEW t \in Tasks, Submit(t) PROVE TypeOK'
      BY <1>2 DEF Submit, pollVars, TypeOK
<1>3. ASSUME NEW p \in Pollers, HandleClaim(p) PROVE TypeOK'
  <2>1. overtaken' \in [Queues -> Nat]  BY <1>3, RecountTyped DEF HandleClaim
  <2>2. answer' \in [Pollers -> Tasks \cup {Pending, None}]
        BY <1>3 DEF HandleClaim, TypeOK, Waiting
  <2>3. place' \in [Tasks -> {"new", "queued", "claimed", "running", "over", "lost", "dropped"}]
        BY <1>3 DEF HandleClaim, TypeOK, Waiting
  <2> QED  BY <1>3, <2>1, <2>2, <2>3 DEF HandleClaim, TypeOK
<1>4. ASSUME NEW p \in Pollers, ClaimFails(p) PROVE TypeOK'
  <2>1. overtaken' \in [Queues -> Nat]  BY <1>4, RecountTyped DEF ClaimFails
  <2>2. /\ asking' \in [Pollers -> Queues \cup {None}]
        /\ answer' \in [Pollers -> Tasks \cup {Pending, None}] /\ polling' \in BOOLEAN
        BY <1>4, ReturnsTyped DEF ClaimFails
  <2>3. place' \in [Tasks -> {"new", "queued", "claimed", "running", "over", "lost", "dropped"}]
        BY <1>4 DEF ClaimFails, TypeOK
  <2>4. faults' \in 0 .. MaxFaults  BY <1>4, FaultsAssumption DEF ClaimFails, TypeOK
  <2>5. ready' \in BOOLEAN  BY <1>4 DEF ClaimFails, TypeOK
  <2> QED  BY <1>4, <2>1, <2>2, <2>3, <2>4, <2>5 DEF ClaimFails, TypeOK
<1>5. CASE BecomesReady  BY <1>5 DEF BecomesReady, pollVars, TypeOK
<1>6. CASE HeartbeatFails
  <2>1. faults' \in 0 .. MaxFaults  BY <1>6, FaultsAssumption DEF HeartbeatFails, TypeOK
  <2> QED  BY <1>6, <2>1 DEF HeartbeatFails, pollVars, TypeOK
<1>7. CASE PollBegins
  <2>1. 0 \in 0 .. N - 1  BY Bounds
  <2>2. QueueAt(0) \in Queues  BY <2>1, QueueAtTyped
  <2>3. /\ asking' \in [Pollers -> Queues \cup {None}]
        /\ answer' \in [Pollers -> Tasks \cup {Pending, None}] /\ polling' \in BOOLEAN
        BY <1>1, <1>7, <2>2, AsksTyped, ShellQueue DEF PollBegins
  <2> QED  BY <1>7, <2>1, <2>3 DEF PollBegins, TypeOK, N
<1>8. CASE PollFileBegins
  <2>1. /\ asking' \in [Pollers -> Queues \cup {None}]
        /\ answer' \in [Pollers -> Tasks \cup {Pending, None}] /\ polling' \in BOOLEAN
        BY <1>1, <1>8, AsksTyped, ShellQueue DEF PollFileBegins
  <2> QED  BY <1>8, <2>1 DEF PollFileBegins, TypeOK
<1>9. CASE MaintenanceAnswered
  <2> DEFINE t == answer["poll"]
  <2>1. t \in Tasks \cup {None}  BY <1>1, <1>9 DEF MaintenanceAnswered, TypeOK
  <2>2. UNCHANGED <<queue, ready, daemon, cancelled, faults>>  BY <1>9 DEF MaintenanceAnswered
  <2>3. CASE LeaveOut(t) /\ Returns("poll") /\ UNCHANGED <<cursor, offset, overtaken>>
        BY <1>1, <2>1, <2>2, <2>3, LeaveOutTyped, ReturnsTyped DEF TypeOK
  <2>4. CASE t # None /\ Launch("maintenance", t) /\ cursor' = NextCursor /\ TurnOf(asking["poll"])
             /\ GoesOnToShell /\ UNCHANGED offset
    <3>1. cursor' \in 0 .. N - 1
      <4>1. cursor \in Nat /\ offset \in Nat  BY DEF TypeOK
      <4> QED  BY <2>4, <4>1, Bounds DEF NextCursor, N
    <3>2. overtaken' \in [Queues -> Nat]  BY <2>4 DEF TurnOf, TypeOK
    <3>3. /\ running' \in [Lanes -> Tasks \cup {None}]
          /\ place' \in [Tasks -> {"new", "queued", "claimed", "running", "over", "lost", "dropped"}]
          BY <1>1, <2>1, <2>4, LaunchTyped
    <3> QED  BY <2>2, <2>4, <3>1, <3>2, <3>3, GoesOnTyped DEF TypeOK, N
  <2>5. CASE offset + 1 < Len(Maintenance) /\ Asks("poll", QueueAt(offset + 1)) /\ offset' = offset + 1
             /\ UNCHANGED <<place, running, cursor, overtaken>>
    <3>1. offset + 1 \in 0 .. N - 1  BY <2>5, Bounds DEF TypeOK, N
    <3>2. QueueAt(offset + 1) \in Queues  BY <3>1, QueueAtTyped
    <3>3. /\ asking' \in [Pollers -> Queues \cup {None}]
          /\ answer' \in [Pollers -> Tasks \cup {Pending, None}] /\ polling' \in BOOLEAN
          BY <1>1, <2>5, <3>2, AsksTyped
    <3> QED  BY <2>2, <2>5, <3>1, <3>3 DEF TypeOK, N
  <2>6. CASE GoesOnToShell /\ UNCHANGED <<place, running, cursor, offset, overtaken>>
        BY <2>2, <2>6, GoesOnTyped DEF TypeOK
  <2> QED  BY <1>9, <2>3, <2>4, <2>5, <2>6 DEF MaintenanceAnswered
<1>10. CASE ShellAnswered
  <2> DEFINE t == answer["poll"]
  <2>1. t \in Tasks \cup {None}  BY <1>1, <1>10 DEF ShellAnswered, TypeOK
  <2>2. Returns("poll") /\ UNCHANGED <<queue, cursor, offset, ready, daemon, cancelled, faults, overtaken>>
        BY <1>10 DEF ShellAnswered
  <2>3. (t \in Tasks /\ Launch("shell", t)) \/ LeaveOut(t)  BY <1>10, <2>1 DEF ShellAnswered
  <2> QED  BY <1>1, <2>1, <2>2, <2>3, LaunchTyped, LeaveOutTyped, ReturnsTyped DEF TypeOK
<1>11. CASE FilesAnswered
  <2> DEFINE t == answer["pollFile"]
  <2>1. t \in Tasks \cup {None}  BY <1>1, <1>11 DEF FilesAnswered, TypeOK
  <2>2. Returns("pollFile") /\ UNCHANGED <<queue, cursor, offset, ready, daemon, cancelled, faults, overtaken>>
        BY <1>11 DEF FilesAnswered
  <2>3. (t \in Tasks /\ Launch("maintenance", t)) \/ LeaveOut(t)
        BY <1>11, <2>1 DEF FilesAnswered
  <2> QED  BY <1>1, <2>1, <2>2, <2>3, LaunchTyped, LeaveOutTyped, ReturnsTyped DEF TypeOK
<1>12. ASSUME NEW l \in Lanes, Finish(l) PROVE TypeOK'
       BY <1>12 DEF Finish, Free, pollVars, TypeOK
<1>13. CASE Stop  BY <1>13 DEF Stop, pollVars, TypeOK
<1>14. CASE CancelCommands  BY <1>14 DEF CancelCommands, pollVars, TypeOK
<1>15. CASE Exit  BY <1>15 DEF Exit, pollVars, TypeOK
<1>16. CASE UNCHANGED vars  BY <1>16 DEF vars, pollVars, TypeOK
<1> QED  BY <1>2, <1>3, <1>4, <1>5, <1>6, <1>7, <1>8, <1>9, <1>10, <1>11, <1>12, <1>13, <1>14,
            <1>15, <1>16 DEF Next

LEMMA InitTyped == Init => TypeOK
<1>1. 0 \in 0 .. N - 1 /\ 0 \in 0 .. MaxFaults /\ 0 \in Nat  BY Bounds, FaultsAssumption
<1> QED  BY <1>1 DEF Init, TypeOK, N

\* Every variable of the Daemon keeps its type.
THEOREM LanesTyped == Spec => []TypeOK
BY InitTyped, NextTyped, PTL DEF Spec

-----------------------------------------------------------------------------
(* Who asks, and for which lane.                                             *)

\* One poller asks at a time, and only while the lane it asks for is free.
Asking ==
    /\ asking["poll"] = None \/ asking["pollFile"] = None
    /\ polling <=> asking["poll"] # None \/ asking["pollFile"] # None
    /\ asking["poll"] \in Rotated \cup {"shell", None} /\ asking["pollFile"] \in {None, "files"}
    /\ asking["poll"] \in Rotated \/ asking["pollFile"] = "files" => running["maintenance"] = None
    /\ asking["poll"] = "shell" => running["shell"] = None
    /\ \A p \in Pollers : asking[p] = None => answer[p] = None
    /\ daemon \in {"draining", "exited"} => \A p \in Pollers : asking[p] = None
    /\ daemon = "exited" => \A l \in Lanes : running[l] = None

\* A task that was handed out is the answer of a poller, and one that runs is
\* in a lane; nothing is thrown away before the end.
Custody ==
    /\ \A p \in Pollers : answer[p] \in Tasks => place[answer[p]] = "claimed"
    /\ \A t \in Tasks : place[t] = "claimed" => answer["poll"] = t \/ answer["pollFile"] = t
    /\ \A l \in Lanes : running[l] # None => place[running[l]] = "running"
    /\ \A t \in Tasks : place[t] = "running" => running["maintenance"] = t \/ running["shell"] = t
    /\ running["maintenance"] = running["shell"] => running["shell"] = None
    /\ \A t \in Tasks : place[t] = "dropped" => daemon # "up"

LaneInv == TypeOK /\ Asking /\ Custody

LEMMA QueuesApart ==
    /\ "shell" \notin Rotated /\ "files" \notin Rotated /\ None \notin Rotated
    /\ None # "shell" /\ None # "files" /\ "poll" \in Pollers /\ "pollFile" \in Pollers
    /\ "maintenance" \in Lanes /\ "shell" \in Lanes
    /\ None \notin Tasks /\ Pending \notin Tasks /\ Pending # None
BY MaintenanceAssumption, LanesAssumption DEF Queues, Pollers, Lanes

\* poll goes on to the shell queue, or is over.
LEMMA GoesOnAsking ==
    ASSUME LaneInv, asking["pollFile"] = None, GoesOnToShell, UNCHANGED daemon,
           daemon \notin {"draining", "exited"}, running'["shell"] = running["shell"]
    PROVE  Asking'
BY QueuesApart DEF LaneInv, TypeOK, Asking, GoesOnToShell, Asks, Returns, Free, Pollers

LEMMA ReturnsAsking ==
    ASSUME LaneInv, NEW p \in Pollers, asking[p] # None, Returns(p), UNCHANGED daemon,
           daemon \notin {"draining", "exited"}
    PROVE  Asking'
BY QueuesApart DEF LaneInv, TypeOK, Asking, Returns, Pollers

LEMMA AskingNext == LaneInv /\ [Next]_vars => Asking'
<1> SUFFICES ASSUME LaneInv, [Next]_vars PROVE Asking'  OBVIOUS
<1>1. Asking /\ TypeOK  BY DEF LaneInv
<1>2. ASSUME NEW t \in Tasks, Submit(t) PROVE Asking'
      BY <1>1, <1>2 DEF Submit, pollVars, Asking
<1>3. ASSUME NEW p \in Pollers, HandleClaim(p) PROVE Asking'
  <2>1. answer' \in [Pollers -> Tasks \cup {Pending, None}]
        /\ \A o \in Pollers : asking[o] = None => answer'[o] = answer[o]
        BY <1>1, <1>3 DEF HandleClaim, TypeOK, Waiting
  <2> QED  BY <1>1, <1>3, <2>1 DEF HandleClaim, Asking
<1>4. ASSUME NEW p \in Pollers, ClaimFails(p) PROVE Asking'
      BY <1>4, ReturnsAsking DEF ClaimFails
<1>5. CASE BecomesReady \/ HeartbeatFails
      BY <1>1, <1>5 DEF BecomesReady, HeartbeatFails, pollVars, Asking
<1>6. CASE PollBegins
  <2>1. QueueAt(0) \in Rotated
    <3>1. 0 \in 0 .. N - 1  BY Bounds
    <3> QED  BY <1>1, <3>1, QueueAtTyped
  <2>2. asking["poll"] = None /\ asking["pollFile"] = None /\ daemon = "up"
        BY <1>1, <1>6 DEF PollBegins, Asking, stopped
  <2>3. PICK q \in Rotated \cup {"shell"} :
            /\ Asks("poll", q)
            /\ q \in Rotated => running["maintenance"] = None
            /\ q = "shell" => running["shell"] = None
        BY <1>6, <2>1, QueuesApart DEF PollBegins, Free
  <2>4. UNCHANGED <<running, daemon>>  BY <1>6 DEF PollBegins
  <2> QED  BY <1>1, <2>2, <2>3, <2>4, QueuesApart DEF Asking, Asks, TypeOK, Pollers
<1>7. CASE PollFileBegins
  <2>1. asking["poll"] = None /\ asking["pollFile"] = None /\ daemon = "up"
        BY <1>1, <1>7 DEF PollFileBegins, Asking, stopped
  <2> QED  BY <1>1, <1>7, <2>1, QueuesApart DEF PollFileBegins, Asks, Free, Asking, TypeOK, Pollers
<1>8. CASE MaintenanceAnswered
  <2>1. /\ asking["poll"] \in Rotated /\ asking["pollFile"] = None
        /\ daemon \notin {"draining", "exited"}
        BY <1>1, <1>8, QueuesApart DEF MaintenanceAnswered, Asking
  <2>2. CASE LeaveOut(answer["poll"]) /\ Returns("poll")
        BY <1>8, <2>1, <2>2, QueuesApart, ReturnsAsking DEF MaintenanceAnswered
  <2>3. CASE Launch("maintenance", answer["poll"]) /\ GoesOnToShell
    <3>1. running'["shell"] = running["shell"]  BY <1>1, <2>3, QueuesApart DEF Launch, TypeOK
    <3> QED  BY <1>8, <2>1, <2>3, <3>1, GoesOnAsking DEF MaintenanceAnswered
  <2>4. CASE offset + 1 < Len(Maintenance) /\ Asks("poll", QueueAt(offset + 1))
             /\ UNCHANGED running
    <3>1. offset + 1 \in 0 .. N - 1  BY <1>1, <2>4, Bounds DEF TypeOK, N
    <3>2. QueueAt(offset + 1) \in Rotated  BY <1>1, <3>1, QueueAtTyped
    <3>3. UNCHANGED daemon  BY <1>8 DEF MaintenanceAnswered
    <3> HIDE DEF QueueAt
    <3> QED  BY <1>1, <2>1, <2>4, <3>2, <3>3, QueuesApart DEF Asks, Asking, TypeOK, Pollers
  <2>5. CASE GoesOnToShell /\ UNCHANGED running
        BY <1>8, <2>1, <2>5, GoesOnAsking DEF MaintenanceAnswered
  <2> QED  BY <1>8, <2>2, <2>3, <2>4, <2>5 DEF MaintenanceAnswered
<1>9. CASE ShellAnswered
  <2>1. asking["poll"] # None /\ daemon \notin {"draining", "exited"}
        BY <1>1, <1>9, QueuesApart DEF ShellAnswered, Asking
  <2> QED  BY <1>9, <2>1, QueuesApart, ReturnsAsking DEF ShellAnswered
<1>10. CASE FilesAnswered
  <2>1. asking["pollFile"] # None /\ daemon \notin {"draining", "exited"}
        BY <1>1, <1>10, QueuesApart DEF FilesAnswered, Asking
  <2> QED  BY <1>10, <2>1, QueuesApart, ReturnsAsking DEF FilesAnswered
<1>11. ASSUME NEW l \in Lanes, Finish(l) PROVE Asking'
  <2>1. \A k \in Lanes : running'[k] \in {running[k], None}  BY <1>1, <1>11 DEF Finish, TypeOK
  <2> QED  BY <1>1, <1>11, <2>1, QueuesApart DEF Finish, pollVars, Asking
<1>12. CASE Stop  BY <1>1, <1>12 DEF Stop, pollVars, Asking
<1>13. CASE CancelCommands  BY <1>1, <1>13 DEF CancelCommands, pollVars, Asking
<1>14. CASE Exit  BY <1>1, <1>14 DEF Exit, Free, pollVars, Asking
<1>15. CASE UNCHANGED vars  BY <1>1, <1>15 DEF vars, pollVars, Asking
<1> QED  BY <1>2, <1>3, <1>4, <1>5, <1>6, <1>7, <1>8, <1>9, <1>10, <1>11, <1>12, <1>13, <1>14,
            <1>15 DEF Next

\* A free lane is given a task that was handed out to the poller p.
LEMMA LaunchCustody ==
    ASSUME LaneInv, NEW p \in Pollers, NEW l \in Lanes, answer[p] \in Tasks, Launch(l, answer[p]),
           running[l] = None, answer' \in [Pollers -> Tasks \cup {Pending, None}],
           \A o \in Pollers : answer'[o] \notin Tasks, UNCHANGED daemon
    PROVE  Custody'
<1> DEFINE t == answer[p]
<1>1. running' = [running EXCEPT ![l] = t] /\ place' = [place EXCEPT ![t] = "running"]
      BY DEF Launch
<1>2. running \in [Lanes -> Tasks \cup {None}] /\ t \in Tasks /\ place \in [Tasks -> {"new", "queued", "claimed", "running", "over", "lost", "dropped"}]
      BY DEF LaneInv, TypeOK
<1>3. place[t] = "claimed"  BY DEF LaneInv, Custody
<1>4. \A o \in Pollers : o # p => answer[o] \notin Tasks
  <2>1. asking["poll"] = None \/ asking["pollFile"] = None  BY DEF LaneInv, Asking
  <2>2. \A o \in Pollers : asking[o] = None => answer[o] = None  BY DEF LaneInv, Asking
  <2> QED  BY <2>1, <2>2, QueuesApart DEF Pollers
<1>5. \A u \in Tasks : u # t => place[u] # "claimed"
      BY <1>4, QueuesApart DEF LaneInv, Custody, Pollers
<1> HIDE DEF t
<1>6. \A k \in Lanes : running[k] # t
  <2>1. t # None /\ place[t] # "running"  BY <1>2, <1>3, QueuesApart
  <2> QED  BY <2>1 DEF LaneInv, Custody
<1>7. \A u \in Tasks : place'[u] = IF u = t THEN "running" ELSE place[u]  BY <1>1, <1>2
<1>8. \A k \in Lanes : running'[k] = IF k = l THEN t ELSE running[k]  BY <1>1, <1>2
<1>9. Lanes = {"maintenance", "shell"}  BY DEF Lanes
<1>10. \A k \in Lanes : running'[k] # None => place'[running'[k]] = "running"
       BY <1>2, <1>7, <1>8 DEF LaneInv, Custody
<1>11. \A u \in Tasks : place'[u] = "running" =>
           running'["maintenance"] = u \/ running'["shell"] = u
  <2> SUFFICES ASSUME NEW u \in Tasks, place'[u] = "running"
               PROVE  running'["maintenance"] = u \/ running'["shell"] = u
      OBVIOUS
  <2>1. CASE u = t  BY <1>8, <1>9, <2>1
  <2>2. CASE u # t
    <3>1. running["maintenance"] = u \/ running["shell"] = u  BY <1>7, <2>2 DEF LaneInv, Custody
    <3> QED  BY <1>8, <1>9, <3>1, QueuesApart
  <2> QED  BY <2>1, <2>2
<1>12. running'["maintenance"] = running'["shell"] => running'["shell"] = None
       BY <1>6, <1>8, <1>9, QueuesApart
<1>13. \A u \in Tasks : place'[u] # "claimed"  BY <1>5, <1>7
<1>14. \A u \in Tasks : place'[u] = "dropped" => daemon' # "up"
       BY <1>7 DEF LaneInv, Custody
<1> QED  BY <1>10, <1>11, <1>12, <1>13, <1>14 DEF Custody

\* The poller p is done with its answer: the task, if any, is no longer claimed.
LEMMA DoneCustody ==
    ASSUME LaneInv, NEW p \in Pollers, UNCHANGED running,
           \A o \in Pollers : answer'[o] \notin Tasks,
           place' \in [Tasks -> {"new", "queued", "claimed", "running", "over", "lost", "dropped"}],
           \A u \in Tasks :
               \/ place'[u] = place[u] /\ u # answer[p]
               \/ place[u] \in {"queued", "claimed"} /\ place'[u] = "lost"
               \/ place[u] = "claimed" /\ place'[u] = "dropped" /\ daemon' # "up",
           daemon' = daemon, asking[p] # None
    PROVE  Custody'
<1>1. \A o \in Pollers : o # p => answer[o] \notin Tasks
  <2>1. asking["poll"] = None \/ asking["pollFile"] = None  BY DEF LaneInv, Asking
  <2>2. \A o \in Pollers : asking[o] = None => answer[o] = None  BY DEF LaneInv, Asking
  <2> QED  BY <2>1, <2>2, QueuesApart DEF Pollers
<1>2. \A u \in Tasks : place'[u] # "claimed"
  <2> SUFFICES ASSUME NEW u \in Tasks, place'[u] = "claimed" PROVE FALSE  OBVIOUS
  <2>1. place[u] = "claimed" /\ u # answer[p]  OBVIOUS
  <2>2. answer["poll"] = u \/ answer["pollFile"] = u  BY <2>1 DEF LaneInv, Custody
  <2> QED  BY <1>1, <2>1, <2>2, QueuesApart DEF Pollers
<1>3. \A u \in Tasks : place[u] = "running" <=> place'[u] = "running"  OBVIOUS
<1>4. \A l \in Lanes : running[l] \in Tasks \cup {None}  BY DEF LaneInv, TypeOK
<1>5. \A u \in Tasks : place'[u] = "dropped" => daemon' # "up"  BY DEF LaneInv, Custody
<1> QED  BY <1>2, <1>3, <1>4, <1>5 DEF LaneInv, Custody

LEMMA CustodyNext == LaneInv /\ [Next]_vars => Custody'
<1> SUFFICES ASSUME LaneInv, [Next]_vars PROVE Custody'  OBVIOUS
<1>1. Custody /\ Asking /\ TypeOK  BY DEF LaneInv
<1>a. TypeOK'  BY <1>1, NextTyped
<1>b. answer' \in [Pollers -> Tasks \cup {Pending, None}]
      /\ place' \in [Tasks -> {"new", "queued", "claimed", "running", "over", "lost", "dropped"}]
      BY <1>a DEF TypeOK
<1>2. ASSUME NEW t \in Tasks, Submit(t) PROVE Custody'
  <2>1. \A u \in Tasks : u # t => place'[u] = place[u]  BY <1>1, <1>2 DEF Submit, TypeOK
  <2>2. place[t] = "new" /\ place'[t] = "queued" /\ UNCHANGED <<running, answer, daemon>>
        BY <1>1, <1>2 DEF Submit, pollVars, TypeOK
  <2>3. \A l \in Lanes : running[l] \in Tasks \cup {None}  BY <1>1 DEF TypeOK
  <2> QED  BY <1>1, <2>1, <2>2, <2>3 DEF Custody
<1>3. ASSUME NEW p \in Pollers, HandleClaim(p) PROVE Custody'
  <2>1. UNCHANGED <<running, daemon>> /\ answer[p] = Pending /\ asking[p] # None
        BY <1>3 DEF HandleClaim
  <2>2. \A l \in Lanes : running[l] \in Tasks \cup {None}  BY <1>1 DEF TypeOK
  <2>3. CASE answer' = [answer EXCEPT ![p] = None] /\ UNCHANGED place
        BY <1>1, <2>1, <2>3, QueuesApart DEF Custody, TypeOK, Pollers
  <2>4. ASSUME NEW t \in Tasks, place[t] = "queued", answer' = [answer EXCEPT ![p] = t],
               place' = [place EXCEPT ![t] = "claimed"]
        PROVE  Custody'
    <3>1. \A u \in Tasks : place'[u] = IF u = t THEN "claimed" ELSE place[u]
          BY <1>1, <2>4 DEF TypeOK
    <3>2. \A o \in Pollers : answer'[o] = IF o = p THEN t ELSE answer[o]
          BY <1>1, <2>4 DEF TypeOK
    <3>3. \A l \in Lanes : running[l] # None => running[l] # t
          BY <1>1, <2>4 DEF Custody
    <3>4. \A o \in Pollers : answer'[o] \in Tasks => place'[answer'[o]] = "claimed"
          BY <1>1, <3>1, <3>2 DEF Custody
    <3>5. \A u \in Tasks : place'[u] = "claimed" => answer'["poll"] = u \/ answer'["pollFile"] = u
      <4>1. p = "poll" \/ p = "pollFile"  BY DEF Pollers
      <4>2. answer[p] \notin Tasks  BY <2>1, QueuesApart
      <4> QED  BY <1>1, <3>1, <3>2, <4>1, <4>2, QueuesApart DEF Custody
    <3> QED  BY <1>1, <2>1, <2>2, <2>4, <3>1, <3>3, <3>4, <3>5 DEF Custody
  <2> QED  BY <1>3, <2>3, <2>4 DEF HandleClaim, Waiting
<1>4. ASSUME NEW p \in Pollers, ClaimFails(p) PROVE Custody'
  <2>1. asking[p] # None /\ UNCHANGED <<running, daemon>>  BY <1>4 DEF ClaimFails
  <2>2. \A o \in Pollers : answer'[o] \notin Tasks
    <3>1. answer' = [answer EXCEPT ![p] = None]  BY <1>4 DEF ClaimFails, Returns
    <3>2. \A o \in Pollers : o # p => answer[o] = None
          BY <1>1, <2>1, QueuesApart DEF Asking, Pollers
    <3> QED  BY <1>1, <3>1, <3>2, QueuesApart DEF TypeOK
  <2>3. \A u \in Tasks :
            \/ place'[u] = place[u] /\ u # answer[p]
            \/ place[u] \in {"queued", "claimed"} /\ place'[u] = "lost"
    <3>1. CASE answer[p] \in {Pending, None} /\ UNCHANGED place  BY <3>1, QueuesApart
    <3>2. ASSUME NEW t \in IF answer[p] = Pending THEN Waiting(asking[p]) ELSE {answer[p]} \ {None},
                 place' = [place EXCEPT ![t] = "lost"]
          PROVE  \A u \in Tasks :
                     \/ place'[u] = place[u] /\ u # answer[p]
                     \/ place[u] \in {"queued", "claimed"} /\ place'[u] = "lost"
      <4>1. CASE answer[p] = Pending
        <5>1. t \in Tasks /\ place[t] = "queued"  BY <3>2, <4>1 DEF Waiting
        <5> QED  BY <1>1, <3>2, <4>1, <5>1, QueuesApart DEF TypeOK
      <4>2. CASE answer[p] # Pending
        <5>1. t = answer[p] /\ t \in Tasks  BY <1>1, <3>2, <4>2 DEF TypeOK
        <5>2. place[t] = "claimed"  BY <1>1, <5>1 DEF Custody
        <5> QED  BY <1>1, <3>2, <5>1, <5>2 DEF TypeOK
      <4> QED  BY <4>1, <4>2
    <3> QED  BY <1>4, <3>1, <3>2 DEF ClaimFails
  <2> QED  BY <1>b, <2>1, <2>2, <2>3, DoneCustody
<1>5. CASE BecomesReady \/ HeartbeatFails \/ Stop \/ CancelCommands \/ Exit
      BY <1>1, <1>5 DEF BecomesReady, HeartbeatFails, Stop, CancelCommands, Exit, pollVars, Custody
<1>6. CASE PollBegins \/ PollFileBegins
  <2>1. UNCHANGED <<place, running, daemon>>  BY <1>6 DEF PollBegins, PollFileBegins
  <2>2. \A p \in Pollers : answer[p] = None  BY <1>1, <1>6, QueuesApart DEF PollBegins, PollFileBegins, Asking, Pollers
  <2>3. \A p \in Pollers : answer'[p] \in {Pending, None}
        BY <1>1, <1>6, <2>2 DEF PollBegins, PollFileBegins, Asks, TypeOK
  <2> QED  BY <1>1, <2>1, <2>2, <2>3, QueuesApart DEF Custody
<1>7. ASSUME NEW p \in Pollers, asking[p] # None, answer[p] # Pending, LeaveOut(answer[p]),
             Returns(p), UNCHANGED daemon, daemon # "up" \/ answer[p] = None
      PROVE  Custody'
  <2>1. \A o \in Pollers : answer'[o] \notin Tasks
    <3>1. answer' = [answer EXCEPT ![p] = None]  BY <1>7 DEF Returns
    <3>2. \A o \in Pollers : o # p => answer[o] = None
          BY <1>1, <1>7, QueuesApart DEF Asking, Pollers
    <3> QED  BY <1>1, <3>1, <3>2, QueuesApart DEF TypeOK
  <2>2. UNCHANGED running  BY <1>7 DEF LeaveOut
  <2>3. \A u \in Tasks :
            \/ place'[u] = place[u] /\ u # answer[p]
            \/ place[u] = "claimed" /\ place'[u] = "dropped" /\ daemon' # "up"
    <3>1. CASE answer[p] = None  BY <1>7, <3>1, QueuesApart DEF LeaveOut
    <3>2. CASE answer[p] # None
      <4>1. answer[p] \in Tasks  BY <1>1, <1>7, <3>2 DEF TypeOK
      <4>2. place[answer[p]] = "claimed"  BY <1>1, <4>1 DEF Custody
      <4>3. place' = [place EXCEPT ![answer[p]] = "dropped"]  BY <1>7, <3>2 DEF LeaveOut
      <4> QED  BY <1>1, <1>7, <3>2, <4>1, <4>2, <4>3 DEF TypeOK
    <3> QED  BY <3>1, <3>2
  <2> QED  BY <1>b, <1>7, <2>1, <2>2, <2>3, DoneCustody
<1>8. CASE MaintenanceAnswered
  <2>1. /\ asking["poll"] \in Rotated /\ asking["pollFile"] = None /\ running["maintenance"] = None
        /\ answer["poll"] # Pending /\ UNCHANGED daemon
        BY <1>1, <1>8, QueuesApart DEF MaintenanceAnswered, Asking
  <2>2. answer["pollFile"] = None /\ answer["poll"] \in Tasks \cup {None}
        BY <1>1, <2>1, QueuesApart DEF Asking, TypeOK
  <2>3. asking["poll"] # None /\ answer["pollFile"] \notin Tasks  BY <2>1, <2>2, QueuesApart
  <2>4. CASE stopped /\ LeaveOut(answer["poll"]) /\ Returns("poll")
        BY <1>7, <2>1, <2>3, <2>4, QueuesApart DEF stopped
  <2>5. CASE answer["poll"] # None /\ Launch("maintenance", answer["poll"]) /\ GoesOnToShell
    <3>1. answer["poll"] \in Tasks  BY <2>2, <2>5
    <3>2. \A o \in Pollers : answer'[o] \notin Tasks
          BY <1>1, <2>3, <2>5, QueuesApart DEF GoesOnToShell, Asks, Returns, TypeOK, Pollers
    <3> QED  BY <1>b, <2>1, <2>5, <3>1, <3>2, QueuesApart, LaunchCustody
  <2>6. CASE answer["poll"] = None /\ UNCHANGED <<place, running>>
             /\ (Asks("poll", QueueAt(offset + 1)) \/ GoesOnToShell)
    <3>1. \A o \in Pollers : answer[o] \notin Tasks /\ answer'[o] \notin Tasks
      <4> HIDE DEF QueueAt
      <4> QED  BY <1>1, <2>3, <2>6, QueuesApart DEF GoesOnToShell, Asks, Returns, TypeOK, Pollers
    <3> QED  BY <1>1, <2>1, <2>6, <3>1, QueuesApart DEF Custody, Pollers, TypeOK
  <2> QED  BY <1>8, <2>4, <2>5, <2>6 DEF MaintenanceAnswered
<1>9. CASE ShellAnswered
  <2>1. /\ asking["poll"] = "shell" /\ running["shell"] = None /\ answer["poll"] # Pending
        /\ Returns("poll") /\ UNCHANGED daemon /\ asking["poll"] # None
        BY <1>1, <1>9, QueuesApart DEF ShellAnswered, Asking
  <2>2. CASE answer["poll"] # None /\ Launch("shell", answer["poll"])
    <3>1. answer["poll"] \in Tasks  BY <1>1, <2>1, <2>2, QueuesApart DEF TypeOK
    <3>2. asking["pollFile"] = None /\ answer["pollFile"] = None
          BY <1>1, <2>1, QueuesApart DEF Asking
    <3>3. \A o \in Pollers : answer'[o] \notin Tasks
          BY <1>1, <2>1, <3>2, QueuesApart DEF Returns, TypeOK, Pollers
    <3> QED  BY <1>b, <2>1, <2>2, <3>1, <3>3, QueuesApart, LaunchCustody
  <2>3. CASE LeaveOut(answer["poll"]) /\ (stopped \/ answer["poll"] = None)
        BY <1>7, <2>1, <2>3, QueuesApart DEF stopped
  <2> QED  BY <1>9, <2>2, <2>3 DEF ShellAnswered
<1>10. CASE FilesAnswered
  <2>1. /\ asking["pollFile"] = "files" /\ running["maintenance"] = None /\ answer["pollFile"] # Pending
        /\ Returns("pollFile") /\ UNCHANGED daemon /\ asking["pollFile"] # None
        BY <1>1, <1>10, QueuesApart DEF FilesAnswered, Asking
  <2>2. CASE answer["pollFile"] # None /\ Launch("maintenance", answer["pollFile"])
    <3>1. answer["pollFile"] \in Tasks  BY <1>1, <2>1, <2>2, QueuesApart DEF TypeOK
    <3>2. asking["poll"] = None /\ answer["poll"] = None
          BY <1>1, <2>1, QueuesApart DEF Asking
    <3>3. \A o \in Pollers : answer'[o] \notin Tasks
          BY <1>1, <2>1, <3>2, QueuesApart DEF Returns, TypeOK, Pollers
    <3> QED  BY <1>b, <2>1, <2>2, <3>1, <3>3, QueuesApart, LaunchCustody
  <2>3. CASE LeaveOut(answer["pollFile"]) /\ (stopped \/ answer["pollFile"] = None)
        BY <1>7, <2>1, <2>3, QueuesApart DEF stopped
  <2> QED  BY <1>10, <2>1, <2>2, <2>3 DEF FilesAnswered, Free
<1>11. ASSUME NEW l \in Lanes, Finish(l) PROVE Custody'
  <2> DEFINE t == running[l]
  <2>1. t \in Tasks /\ UNCHANGED <<answer, daemon>>
        BY <1>1, <1>11 DEF Finish, Free, pollVars, TypeOK
  <2>2. running' = [running EXCEPT ![l] = None] /\ place' = [place EXCEPT ![t] = "over"]
        BY <1>11 DEF Finish
  <2>3. place[t] = "running"  BY <1>1, <2>1, QueuesApart DEF Custody
  <2>4. l \in {"maintenance", "shell"} /\ Lanes = {"maintenance", "shell"}  BY DEF Lanes
  <2>5. \A k \in Lanes : k # l /\ running[k] # None => running[k] # t
        BY <1>1, <2>1, <2>4, QueuesApart DEF Custody
  <2> HIDE DEF t
  <2>6. \A u \in Tasks : place'[u] = IF u = t THEN "over" ELSE place[u]
        BY <1>1, <2>2 DEF TypeOK
  <2>7. \A k \in Lanes : running'[k] = IF k = l THEN None ELSE running[k]
        BY <1>1, <2>2 DEF TypeOK
  <2>8. \A p \in Pollers : answer[p] \in Tasks => answer[p] # t  BY <1>1, <2>3 DEF Custody
  <2>9. \A k \in Lanes : running[k] \in Tasks \cup {None}  BY <1>1 DEF TypeOK
  <2>10. \A k \in Lanes : running'[k] # None => place'[running'[k]] = "running"
         BY <1>1, <2>5, <2>6, <2>7, <2>9 DEF Custody
  <2>11. \A u \in Tasks : place'[u] = "running" =>
             running'["maintenance"] = u \/ running'["shell"] = u
    <3> SUFFICES ASSUME NEW u \in Tasks, place'[u] = "running"
                 PROVE  running'["maintenance"] = u \/ running'["shell"] = u
        OBVIOUS
    <3>1. u # t /\ place[u] = "running"  BY <2>6
    <3>2. running["maintenance"] = u \/ running["shell"] = u  BY <1>1, <3>1 DEF Custody
    <3> QED  BY <2>4, <2>7, <3>1, <3>2 DEF t
  <2>12. running'["maintenance"] = running'["shell"] => running'["shell"] = None
         BY <1>1, <2>4, <2>7 DEF Custody
  <2>13. /\ \A p \in Pollers : answer'[p] \in Tasks => place'[answer'[p]] = "claimed"
         /\ \A u \in Tasks : place'[u] = "claimed" => answer'["poll"] = u \/ answer'["pollFile"] = u
         /\ \A u \in Tasks : place'[u] = "dropped" => daemon' # "up"
         BY <1>1, <2>1, <2>6, <2>8 DEF Custody
  <2> QED  BY <2>10, <2>11, <2>12, <2>13 DEF Custody
<1>12. CASE UNCHANGED vars  BY <1>1, <1>12 DEF vars, pollVars, Custody
<1> QED  BY <1>2, <1>3, <1>4, <1>5, <1>6, <1>8, <1>9, <1>10, <1>11, <1>12 DEF Next

LEMMA LaneInvHolds == Spec => []LaneInv
<1>1. Init => LaneInv
  <2> SUFFICES ASSUME Init PROVE LaneInv  OBVIOUS
  <2>1. TypeOK  BY InitTyped
  <2>2. Asking  BY QueuesApart DEF Init, Asking
  <2>3. Custody  BY QueuesApart DEF Init, Custody, Pollers, Lanes
  <2> QED  BY <2>1, <2>2, <2>3 DEF LaneInv
<1>2. LaneInv /\ [Next]_vars => LaneInv'
  <2>1. LaneInv => TypeOK  BY DEF LaneInv
  <2> QED  BY <2>1, NextTyped, AskingNext, CustodyNext DEF LaneInv
<1> QED  BY <1>1, <1>2, PTL DEF Spec

\* A task the control plane has handed out is not thrown away by a poller while
\* the Daemon is up (task-lanes.mjs, poll and pollFile).
THEOREM NothingDropped == Spec => []NoneDropped
<1>1. LaneInv => NoneDropped  BY DEF LaneInv, Custody, NoneDropped
<1> QED  BY <1>1, LaneInvHolds, PTL

\* The lock of the node is released only when nothing is claimed or running
\* (shutdown, drain).
THEOREM LeavesIdle == Spec => []ExitsIdle
<1>1. LaneInv => ExitsIdle
  <2> SUFFICES ASSUME LaneInv, daemon = "exited", NEW t \in Tasks
               PROVE  place[t] \notin {"claimed", "running"}
      BY DEF ExitsIdle
  <2>1. \A p \in Pollers : answer[p] = None  BY DEF LaneInv, Asking
  <2>2. \A l \in Lanes : running[l] = None  BY DEF LaneInv, Asking
  <2> QED  BY <2>1, <2>2, QueuesApart DEF LaneInv, Custody
<1> QED  BY <1>1, LaneInvHolds, PTL

\* A lane is given a task only when it is free (task-lanes.mjs, polling).
THEOREM LanesKept == Spec => LaneKept
<1> DEFINE Step == \A l \in Lanes : running[l] # None => running'[l] \in {running[l], None}
<1>1. LaneInv /\ [Next]_vars => [Step]_vars
  <2> SUFFICES ASSUME LaneInv, Next PROVE Step  BY DEF vars
  <2>1. Asking /\ TypeOK  BY DEF LaneInv
  <2>2. CASE UNCHANGED running  BY <2>2
  <2>3. CASE MaintenanceAnswered
        BY <2>1, <2>3, QueuesApart DEF MaintenanceAnswered, Asking, Launch, LeaveOut, TypeOK
  <2>4. CASE ShellAnswered
        BY <2>1, <2>4, QueuesApart DEF ShellAnswered, Asking, Launch, LeaveOut, TypeOK
  <2>5. CASE FilesAnswered
        BY <2>1, <2>5, QueuesApart DEF FilesAnswered, Free, Launch, LeaveOut, TypeOK
  <2>6. ASSUME NEW l \in Lanes, Finish(l) PROVE Step
        BY <2>1, <2>6 DEF Finish, TypeOK
  <2> QED  BY <2>2, <2>3, <2>4, <2>5, <2>6
           DEF Next, Submit, HandleClaim, ClaimFails, BecomesReady, HeartbeatFails, PollBegins,
               PollFileBegins, Stop, CancelCommands, Exit
<1> QED  BY <1>1, LaneInvHolds, PTL DEF Spec, LaneKept

-----------------------------------------------------------------------------
(* The rotation.                                                             *)

\* How many places of the rotation come before place k.
Before(k) == IF k >= cursor THEN k - cursor ELSE k - cursor + N

QueueOf(k) == Maintenance[k + 1]

\* The longer a queue has been waiting, the nearer it is; a queue the present
\* poll has passed was found empty, and nobody has had a turn since.
Rotation ==
    /\ \A k \in 0 .. N - 1 : overtaken[QueueOf(k)] <= N - 1 - Before(k)
    /\ asking["poll"] \in Rotated =>
          /\ asking["poll"] = QueueOf(At(cursor, offset))
          /\ \A k \in 0 .. N - 1 : Before(k) < offset => overtaken[QueueOf(k)] = 0
          /\ answer["poll"] = None => overtaken[asking["poll"]] = 0

LEMMA Places ==
    ASSUME TypeOK
    PROVE  /\ cursor \in 0 .. N - 1 /\ offset \in 0 .. N - 1
           /\ \A k \in 0 .. N - 1 : /\ Before(k) \in 0 .. N - 1 /\ At(cursor, Before(k)) = k
                                    /\ QueueOf(k) \in Rotated /\ QueueOf(k) \in Queues
                                    /\ overtaken[QueueOf(k)] \in Nat
           /\ \A j \in 0 .. N - 1 : At(cursor, j) \in 0 .. N - 1 /\ Before(At(cursor, j)) = j
<1>1. cursor \in 0 .. N - 1 /\ offset \in 0 .. N - 1  BY DEF TypeOK, N
<1>2. \A k \in 0 .. N - 1 : Before(k) \in 0 .. N - 1 /\ At(cursor, Before(k)) = k
      BY <1>1, Bounds DEF Before, At
<1>3. \A j \in 0 .. N - 1 : At(cursor, j) \in 0 .. N - 1 /\ Before(At(cursor, j)) = j
      BY <1>1, Bounds DEF Before, At
<1>4. \A k \in 0 .. N - 1 : QueueOf(k) \in Rotated /\ QueueOf(k) \in Queues
      BY Bounds DEF QueueOf, Queues
<1>5. \A k \in 0 .. N - 1 : overtaken[QueueOf(k)] \in Nat  BY <1>4 DEF TypeOK
<1> QED  BY <1>1, <1>2, <1>3, <1>4, <1>5

\* Counts only fall, and the poll rests or asks what it asked.
LEMMA RotationFalls ==
    ASSUME LaneInv, Rotation, cursor' = cursor,
           \A r \in Queues : overtaken'[r] = overtaken[r] \/ overtaken'[r] = 0,
           asking'["poll"] \in Rotated =>
               /\ asking'["poll"] = asking["poll"] /\ offset' = offset
               /\ answer'["poll"] = None => answer["poll"] = None \/ overtaken'[asking["poll"]] = 0
    PROVE  Rotation'
<1> USE DEF LaneInv
<1>1. \A k \in 0 .. N - 1 : /\ overtaken[QueueOf(k)] \in Nat /\ Before(k) \in 0 .. N - 1
                            /\ \/ overtaken'[QueueOf(k)] = overtaken[QueueOf(k)]
                               \/ overtaken'[QueueOf(k)] = 0
      BY Places
<1>2. \A k \in 0 .. N - 1 : overtaken'[QueueOf(k)] <= N - 1 - Before(k)
      BY <1>1, Bounds DEF Rotation
<1>3. \A k : Before(k)' = Before(k)  BY DEF Before
<1>4. ASSUME asking'["poll"] \in Rotated
      PROVE  /\ asking'["poll"] = QueueOf(At(cursor, offset'))
             /\ \A k \in 0 .. N - 1 : Before(k) < offset' => overtaken'[QueueOf(k)] = 0
             /\ answer'["poll"] = None => overtaken'[asking'["poll"]] = 0
  <2>1. asking["poll"] \in Rotated /\ asking["poll"] \in Queues  BY <1>4 DEF Queues
  <2> QED  BY <1>1, <1>4, <2>1 DEF Rotation
<1> QED  BY <1>2, <1>3, <1>4 DEF Rotation

LEMMA Recounted ==
    ASSUME TypeOK, Recount
    PROVE  \A r \in Queues : overtaken'[r] = overtaken[r] \/ overtaken'[r] = 0
BY DEF Recount

\* A queue has its turn: the others come nearer by at least one place.
LEMMA TurnTaken ==
    ASSUME LaneInv, Rotation, asking["poll"] \in Rotated, cursor' = NextCursor,
           TurnOf(asking["poll"]), asking'["poll"] \notin Rotated
    PROVE  Rotation'
<1> USE DEF LaneInv
<1> DEFINE i == At(cursor, offset)
<1>1. /\ cursor \in 0 .. N - 1 /\ offset \in 0 .. N - 1 /\ i \in 0 .. N - 1
      /\ asking["poll"] = QueueOf(i) /\ Before(i) = offset
      BY Places DEF Rotation
<1>2. cursor' = At(i, 1)
  <2>a. offset + 1 \in 0 .. N  BY <1>1, Bounds
  <2>1. (cursor + (offset + 1)) % N = At(cursor, offset + 1)  BY <1>1, <2>a, Wraps
  <2>2. cursor' = (cursor + (offset + 1)) % N  BY <1>1, Bounds DEF NextCursor, N
  <2> QED  BY <1>1, <2>1, <2>2, Bounds DEF At
<1>3. ASSUME NEW k \in 0 .. N - 1
      PROVE  overtaken'[QueueOf(k)] <= N - 1 - Before(k)'
  <2>1. Before(k)' = IF k >= cursor' THEN k - cursor' ELSE k - cursor' + N  BY DEF Before
  <2>2. Before(k)' \in 0 .. N - 1  BY <1>1, <1>2, <2>1, Bounds DEF At
  <2>3. /\ Before(k) \in 0 .. N - 1 /\ overtaken[QueueOf(k)] \in Nat /\ QueueOf(k) \in Queues
        BY Places
  <2>4. overtaken'[QueueOf(k)] \in {0, overtaken[QueueOf(k)] + 1}
        /\ (QueueOf(k) = QueueOf(i) => overtaken'[QueueOf(k)] = 0)
        BY <1>1, <2>3 DEF TurnOf
  <2>5. CASE overtaken'[QueueOf(k)] = 0  BY <2>2, <2>5, Bounds
  <2>6. CASE overtaken'[QueueOf(k)] # 0
    <3>1. k # i /\ overtaken'[QueueOf(k)] = overtaken[QueueOf(k)] + 1  BY <2>4, <2>6
    <3>2. CASE Before(k) > offset
      <4>1. Before(k)' = Before(k) - offset - 1
            BY <1>1, <1>2, <2>1, <3>2, Bounds DEF Before, At
      <4>2. overtaken[QueueOf(k)] <= N - 1 - Before(k)  BY DEF Rotation
      <4> QED  BY <1>1, <2>3, <3>1, <4>1, <4>2, Bounds
    <3>3. CASE Before(k) < offset
      <4>1. overtaken[QueueOf(k)] = 0  BY <3>3 DEF Rotation
      <4>2. Before(k)' = Before(k) - offset - 1 + N
            BY <1>1, <1>2, <2>1, <3>3, Bounds DEF Before, At
      <4> QED  BY <1>1, <2>3, <3>1, <3>3, <4>1, <4>2, Bounds
    <3>4. CASE Before(k) = offset
      <4>1. k = i  BY <3>4, Places
      <4> QED  BY <3>1, <4>1
    <3> QED  BY <1>1, <2>3, <3>2, <3>3, <3>4
  <2> QED  BY <2>5, <2>6
<1> QED  BY <1>3 DEF Rotation

LEMMA RotationNext == LaneInv /\ Rotation /\ [Next]_vars => Rotation'
<1> SUFFICES ASSUME LaneInv, Rotation, [Next]_vars PROVE Rotation'  OBVIOUS
<1>1. TypeOK /\ Asking  BY DEF LaneInv
<1>2. CASE UNCHANGED <<overtaken, pollVars>>  BY <1>2, RotationFalls DEF pollVars
<1>3. ASSUME NEW p \in Pollers, HandleClaim(p) PROVE Rotation'
  <2>1. /\ UNCHANGED <<cursor, asking, offset, queue>> /\ Recount
        BY <1>3 DEF HandleClaim
  <2>2. answer'["poll"] = None => answer["poll"] = None \/ Waiting(asking["poll"])' = {}
    <3>1. CASE p = "poll"
          BY <1>1, <1>3, <3>1, QueuesApart DEF HandleClaim, Waiting, TypeOK
    <3>2. CASE p # "poll"
          BY <1>1, <1>3, <3>2, QueuesApart DEF HandleClaim, TypeOK
    <3> QED  BY <3>1, <3>2
  <2>3. asking["poll"] \in Rotated => asking["poll"] \in Queues  BY DEF Queues
  <2>4. asking["poll"] \in Rotated /\ Waiting(asking["poll"])' = {} => overtaken'[asking["poll"]] = 0
        BY <2>1, <2>3 DEF Recount
  <2> QED  BY <1>1, <2>1, <2>2, <2>4, Recounted, RotationFalls
<1>4. ASSUME NEW p \in Pollers, ClaimFails(p) PROVE Rotation'
  <2>1. UNCHANGED <<cursor, offset>> /\ Recount /\ Returns(p)  BY <1>4 DEF ClaimFails
  <2>2. asking'["poll"] \in Rotated =>
            asking'["poll"] = asking["poll"] /\ answer'["poll"] = answer["poll"]
        BY <1>1, <2>1, QueuesApart DEF Returns, TypeOK
  <2> QED  BY <1>1, <2>1, <2>2, Recounted, RotationFalls
<1>5. CASE PollBegins
  <2>1. 0 \in 0 .. N - 1  BY Bounds
  <2>2. QueueAt(0) = QueueOf(At(cursor, 0))  BY <1>1, <2>1, QueueAtTyped DEF QueueOf
  <2>3. /\ UNCHANGED <<cursor, overtaken>> /\ offset' = 0
        /\ asking'["poll"] \in {QueueOf(At(cursor, 0)), "shell"} /\ answer'["poll"] = Pending
        BY <1>1, <1>5, <2>2, QueuesApart DEF PollBegins, Asks, TypeOK
  <2>4. \A k \in 0 .. N - 1 : Before(k) \in 0 .. N - 1 /\ Before(k)' = Before(k)
        BY <1>1, <2>3, Places DEF Before
  <2>5. \A k \in 0 .. N - 1 : ~ (Before(k)' < offset')  BY <2>3, <2>4, Bounds
  <2>6. \A k \in 0 .. N - 1 : overtaken'[QueueOf(k)] <= N - 1 - Before(k)'
        BY <2>3, <2>4 DEF Rotation
  <2> QED  BY <2>3, <2>5, <2>6, QueuesApart DEF Rotation
<1>6. CASE PollFileBegins \/ FilesAnswered \/ ShellAnswered
  <2>1. UNCHANGED <<cursor, offset, overtaken>>
        BY <1>6 DEF PollFileBegins, FilesAnswered, ShellAnswered
  <2>2. asking'["poll"] \in Rotated =>
            asking'["poll"] = asking["poll"] /\ answer'["poll"] = answer["poll"]
        BY <1>1, <1>6, QueuesApart
        DEF PollFileBegins, FilesAnswered, ShellAnswered, Asks, Returns, TypeOK
  <2> QED  BY <2>1, <2>2, RotationFalls
<1>7. CASE MaintenanceAnswered
  <2>1. asking["poll"] \in Rotated  BY <1>1, <1>7, QueuesApart DEF MaintenanceAnswered, Asking
  <2>2. CASE Returns("poll") /\ UNCHANGED <<cursor, offset, overtaken>>
    <3>1. asking'["poll"] \notin Rotated  BY <1>1, <2>2, QueuesApart DEF Returns, TypeOK
    <3> QED  BY <2>2, <3>1, RotationFalls
  <2>3. CASE cursor' = NextCursor /\ TurnOf(asking["poll"]) /\ GoesOnToShell
    <3>1. asking'["poll"] \notin Rotated
          BY <1>1, <2>3, QueuesApart DEF GoesOnToShell, Asks, Returns, TypeOK
    <3> QED  BY <2>1, <2>3, <3>1, TurnTaken
  <2>4. CASE /\ answer["poll"] = None /\ offset + 1 < Len(Maintenance)
             /\ Asks("poll", QueueAt(offset + 1)) /\ offset' = offset + 1
             /\ UNCHANGED <<cursor, overtaken>>
    <3>1. offset + 1 \in 0 .. N - 1 /\ offset \in 0 .. N - 1  BY <1>1, <2>4, Bounds DEF TypeOK, N
    <3>2. QueueAt(offset + 1) = QueueOf(At(cursor, offset + 1))
          BY <1>1, <3>1, QueueAtTyped DEF QueueOf
    <3>3. asking'["poll"] = QueueOf(At(cursor, offset + 1)) /\ answer'["poll"] = Pending
          BY <1>1, <2>4, <3>2, QueuesApart DEF Asks, TypeOK
    <3>4. \A k \in 0 .. N - 1 : /\ Before(k) \in 0 .. N - 1 /\ Before(k)' = Before(k)
                                /\ At(cursor, Before(k)) = k
          BY <1>1, <2>4, Places DEF Before
    <3>5. ASSUME NEW k \in 0 .. N - 1, Before(k) < offset + 1
          PROVE  overtaken[QueueOf(k)] = 0
      <4>1. CASE Before(k) < offset  BY <2>1, <4>1 DEF Rotation
      <4>2. CASE Before(k) = offset
        <5>1. QueueOf(k) = asking["poll"]  BY <2>1, <3>4, <4>2 DEF Rotation
        <5> QED  BY <2>1, <2>4, <5>1 DEF Rotation
      <4> QED  BY <3>1, <3>4, <3>5, <4>1, <4>2
    <3>6. \A k \in 0 .. N - 1 : overtaken'[QueueOf(k)] <= N - 1 - Before(k)'
          BY <2>4, <3>4 DEF Rotation
    <3> QED  BY <2>4, <3>3, <3>4, <3>5, <3>6, QueuesApart DEF Rotation
  <2>5. CASE GoesOnToShell /\ UNCHANGED <<cursor, offset, overtaken>>
    <3>1. asking'["poll"] \notin Rotated
          BY <1>1, <2>5, QueuesApart DEF GoesOnToShell, Asks, Returns, TypeOK
    <3> QED  BY <2>5, <3>1, RotationFalls
  <2> QED  BY <1>7, <2>2, <2>3, <2>4, <2>5 DEF MaintenanceAnswered
<1> QED  BY <1>2, <1>3, <1>4, <1>5, <1>6, <1>7
         DEF Next, Submit, BecomesReady, HeartbeatFails, Finish, Stop, CancelCommands, Exit, vars

\* While a maintenance queue has a task waiting, at most as many turns go to
\* others as there are other places in the rotation (task-lanes.mjs, cursor).
THEOREM QueuesRotate == Spec => []RotatesFairly
<1>1. Init => Rotation
  <2> SUFFICES ASSUME Init PROVE Rotation  OBVIOUS
  <2>1. TypeOK  BY InitTyped
  <2>2. asking["poll"] = None /\ \A q \in Queues : overtaken[q] = 0
        BY QueuesApart DEF Init
  <2>3. \A k \in 0 .. N - 1 : overtaken[QueueOf(k)] = 0 /\ Before(k) \in 0 .. N - 1
        BY <2>1, <2>2, Places
  <2>4. \A k \in 0 .. N - 1 : overtaken[QueueOf(k)] <= N - 1 - Before(k)  BY <2>3, Bounds
  <2> QED  BY <2>2, <2>4, QueuesApart DEF Rotation
<1>2. LaneInv /\ Rotation => RotatesFairly
  <2> SUFFICES ASSUME LaneInv, Rotation, NEW q \in Queues \ {"files", "shell"}
               PROVE  overtaken[q] < N
      BY DEF RotatesFairly, N
  <2>1. PICK j \in 1 .. N : q = Maintenance[j]  BY DEF Queues, Rotated, N
  <2>2. j - 1 \in 0 .. N - 1 /\ (j - 1) + 1 = j  BY <2>1, Bounds
  <2>3. q = QueueOf(j - 1)  BY <2>1, <2>2 DEF QueueOf
  <2>4. overtaken[q] \in Nat /\ Before(j - 1) \in 0 .. N - 1
        /\ overtaken[q] <= N - 1 - Before(j - 1)
        BY <2>2, <2>3, Places DEF LaneInv, Rotation
  <2> QED  BY <2>4, Bounds
<1> QED  BY <1>1, <1>2, LaneInvHolds, RotationNext, PTL DEF Spec
=============================================================================
