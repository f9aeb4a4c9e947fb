------------------------------ MODULE MCTaskLanes ------------------------------
(* A small instance of TaskLanes for TLC: two of the maintenance queues. *)
EXTENDS TaskLanes

TwoQueues == <<"runtime", "tasks">>
=============================================================================
