------------------------------ MODULE LeaseQueue ------------------------------
(***************************************************************************)
(* What the queues of host, runtime and file tasks share.  Each keeps one  *)
(* row per task with a status, a lease counted in ticks (0 is a lease that *)
(* is NULL or over), the place in the creation order and, as the message   *)
(* and result columns tell it, how the task came to its end.               *)
(*                                                                         *)
(* Task ids are random and no two rows ever have the same one, so the      *)
(* queues draw from one set of ids; it bounds the tasks of a behaviour.    *)
(***************************************************************************)
EXTENDS LocalDaemon, FiniteSets

CONSTANTS Tasks, LeaseDuration     \* ids, and the 30 s of a lease in ticks

ASSUME LeaseQueueAssumption == IsFiniteSet(Tasks) /\ LeaseDuration \in Nat \ {0}

Leases == 0 .. LeaseDuration
Ends   == {"none", "reported", "unknown", "withdrawn"}

RowCount(T) == Cardinality({t \in Tasks : T[t].status # "absent"})

Lapsed(T, t) == T[t].status = "running" /\ T[t].lease = 0

\* The sweep that marks as failed, outcome unknown, what ran out in S.
Swept(T, S) ==
    [t \in Tasks |-> IF t \in S /\ Lapsed(T, t)
                     THEN [T[t] EXCEPT !.status = "failed", !.end = "unknown"]
                     ELSE T[t]]

\* ORDER BY created_at, rowid LIMIT 1
Oldest(T, S, t) == t \in S /\ \A u \in S : T[t].order <= T[u].order

Aged(T) == [t \in Tasks |-> [T[t] EXCEPT !.lease = IF @ = 0 THEN 0 ELSE @ - 1]]

\* The refinement mapping to TaskContract.
PhaseOf(row) ==
    CASE row.status = "absent"  -> "new"
      [] row.status = "queued"  -> "waiting"
      [] row.status = "running" -> "taken"
      [] row.status = "deleted" -> "gone"
      [] OTHER                  -> row.end

PhasesOf(T) == [t \in Tasks |-> PhaseOf(T[t])]
HeldIn(T)   == [t \in Tasks |-> T[t].status = "running" /\ T[t].lease > 0]
=============================================================================
