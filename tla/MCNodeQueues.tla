----------------------------- MODULE MCNodeQueues -----------------------------
(* A small instance of NodeQueues for TLC. *)
EXTENDS NodeQueues, TLC

CONSTANT n1

\* One cluster with its two shards.
OneNode    == [s \in Servers |-> n1]
OneCluster == [s \in Servers |-> Servers]

\* SteamCMD tasks share with the other queues only the ids, the clock and the
\* heartbeat: a behaviour uses them or the others.
Apart ==
    \/ /\ \A t \in Tasks : steam[t].status = "absent"
       /\ \A s \in Servers : server[s].status = "unknown"
    \/ \A t \in Tasks : {host[t].status, runtime[t].status, file[t].status} = {"absent"}

QueueSymmetry == Permutations(Tasks) \cup Permutations(Jobs) \cup Permutations(Servers)
=============================================================================
