-------------------------- MODULE MCExecutionControl --------------------------
(* Small instances of ExecutionControl for TLC. *)
EXTENDS ExecutionControl, TLC

ExecSymmetry == Permutations(Tasks)
=============================================================================
