----------------------------- MODULE AbstractLock -----------------------------
(***************************************************************************)
(* What withMainLock promises (src/src/lock.ts): one holder at a time, and  *)
(* the lock is free between two holders, however the first one ended.       *)
(***************************************************************************)
CONSTANTS Proc, Nobody

VARIABLE holder

Init == holder = Nobody

Acquire(p) == holder = Nobody /\ holder' = p

\* Released, or lost with the process that held it.
Free(p) == holder = p /\ holder' = Nobody

Next == \E p \in Proc : Acquire(p) \/ Free(p)

Spec == Init /\ [][Next]_holder
===============================================================================
