----------------------------- MODULE LocalDaemon -----------------------------
(***************************************************************************)
(* The control plane's registry of Daemon nodes                            *)
(* (packages/host/daemon/src/local-daemon.ts).  A node row holds the time  *)
(* of the last heartbeat and the capabilities it announced; a node is      *)
(* online while that time is at most heartbeatLifetimeMs old.  The stored  *)
(* status column is never more than that: listDaemonNodes sets it to       *)
(* offline only for rows that are already stale, and every reader goes     *)
(* through toNode.                                                         *)
(*                                                                         *)
(* Time is counted in ticks.  silence[n] is the age of the last heartbeat, *)
(* capped one past the lifetime, because no reader tells older ages apart. *)
(***************************************************************************)
EXTENDS Naturals

CONSTANTS Nodes,               \* ids of registered nodes
          HeartbeatLifetime    \* ticks a heartbeat keeps its node online

ASSUME HeartbeatLifetimeAssumption == HeartbeatLifetime \in Nat

VARIABLES silence,       \* [Nodes -> age of the last heartbeat]
          sandboxCap     \* [Nodes -> the last heartbeat announced the AppContainer sandbox]

registryVars == <<silence, sandboxCap>>

RegistryTypeOK ==
    /\ silence \in [Nodes -> 0 .. HeartbeatLifetime + 1]
    /\ sandboxCap \in [Nodes -> BOOLEAN]

\* Rows written by an earlier session of the control plane: known, and stale.
RegistryInit ==
    /\ silence = [n \in Nodes |-> HeartbeatLifetime + 1]
    /\ sandboxCap = [n \in Nodes |-> FALSE]

Online(n) == silence[n] <= HeartbeatLifetime

RecordDaemonHeartbeat(n, sandbox) ==
    /\ silence' = [silence EXCEPT ![n] = 0]
    /\ sandboxCap' = [sandboxCap EXCEPT ![n] = sandbox]

AgeHeartbeats ==
    /\ silence' = [n \in Nodes |->
                     IF Online(n) THEN silence[n] + 1 ELSE silence[n]]
    /\ UNCHANGED sandboxCap
=============================================================================
