------------------------------ MODULE MCDelivery ------------------------------
(* Small instances of Delivery: operations in two processes. *)
EXTENDS Delivery

CONSTANTS p1, p2, a, b, c

\* Two operations of one process and one of another.
TwoAndOne == [o \in {a, b, c} |-> IF o = c THEN p2 ELSE p1]

\* A process is killed where its delivery, its lock or its rollback is at stake.
Anywhere == MergePcs \cup RollbackPcs
Commands == {"check", "push", "timeout", "fetch", "revert"}
=============================================================================
