------------------------------ MODULE MCLockQueue ------------------------------
(* Small instances of LockQueue. *)
EXTENDS LockQueue, TLC

CONSTANTS p1, p2, p3

Symmetry == Permutations(Proc)

Nowhere == {}
Points == PCs \cup {"exit"}
\* A process is killed while it waits, writes its ticket or holds the lock.
CrashSome == {"stamp", "scan", "in", "exit"}
\* It is suspended while it waits, or before it has written its ticket.
FreezeWaiting == {"stamp", "poll"}
FailSome == {"stamp", "scan", "remove", "unlink", "giveUp"}
FailUnlink == {"unlink"}
\* A process dies with its ticket, or with the lock.
CrashWaiting == {"stamp", "scan", "in"}
=============================================================================
