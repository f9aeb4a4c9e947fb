----------------------------- MODULE TaskContract -----------------------------
(***************************************************************************)
(* What every persistent task queue of the control plane promises the one  *)
(* who submits a task (packages/jobs/jobs/README.md, line 3): a node takes *)
(* the task at most once, what has ended stays ended, a withdrawn task was *)
(* never taken, and a taken task whose lease has run out ends as unknown   *)
(* and in no other way.  Where LateReports holds the last promise is       *)
(* weaker: the lease may be renewed, or the result delivered, after it ran *)
(* out, as long as nobody has noticed.                                     *)
(*                                                                         *)
(* One step may move many tasks, because an expiry sweep does.             *)
(***************************************************************************)
EXTENDS Naturals

CONSTANTS Tasks, LateReports      \* LateReports is TRUE or FALSE

VARIABLES phase,    \* [Tasks -> Phases]
          held      \* [Tasks -> the lease of the task is valid]

contractVars == <<phase, held>>

Over   == {"reported", "unknown", "withdrawn"}
Phases == {"new", "waiting", "taken", "gone"} \cup Over

Init ==
    /\ phase = [t \in Tasks |-> "new"]
    /\ held = [t \in Tasks |-> FALSE]

Moves(t, from, to) == phase[t] = from /\ phase'[t] = to

Submit(t)   == Moves(t, "new", "waiting") /\ ~ held'[t]
Take(t)     == Moves(t, "waiting", "taken") /\ held'[t]
Withdraw(t) == Moves(t, "waiting", "withdrawn") /\ ~ held'[t]
Report(t)   == Moves(t, "taken", "reported") /\ (held[t] \/ LateReports) /\ ~ held'[t]
Lose(t)     == Moves(t, "taken", "unknown") /\ ~ held[t] /\ ~ held'[t]
Forget(t)   == phase[t] \in Over /\ phase'[t] = "gone" /\ ~ held'[t]

\* Nothing happens to the task, but its lease may run out, or come back to
\* life where that is allowed.
Rest(t) ==
    /\ phase'[t] = phase[t]
    /\ held'[t] => held[t] \/ (LateReports /\ phase[t] = "taken")

Next == \A t \in Tasks : \/ Submit(t) \/ Take(t) \/ Withdraw(t) \/ Report(t)
                         \/ Lose(t) \/ Forget(t) \/ Rest(t)

Spec == Init /\ [][Next]_contractVars
=============================================================================
