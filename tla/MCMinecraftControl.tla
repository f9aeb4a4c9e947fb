-------------------------- MODULE MCMinecraftControl --------------------------
(* Small instances of MinecraftControl for TLC. *)
EXTENDS MinecraftControl, TLC

TaskSymmetry == Permutations(Tasks)
=============================================================================
