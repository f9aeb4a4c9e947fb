----------------------------- MODULE MCSessionLog -----------------------------
(* Small instances of SessionLog for TLC. *)
EXTENDS SessionLog

\* A first turn with a batch of two calls, others with one call each.
TwoThenOne == [t \in Turns |-> IF t = 1 THEN 2 ELSE 1]
=============================================================================
