------------------------------ MODULE MCApprovals ------------------------------
(* Small instances of Approvals for TLC. *)
EXTENDS Approvals

CONSTANTS c1, c2, c3

\* c1 and c2 belong to one task and its child, c3 to another task.
TwoFamilies == [c \in Calls |-> IF c = c3 THEN c3 ELSE c1]
=============================================================================
