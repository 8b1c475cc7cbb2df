------------------------------- MODULE Delivery -------------------------------
(***************************************************************************)
(* Deferred deliveries (src/src/delivery.ts, src/src/orchestrator.ts): the   *)
(* commit of a merge is pushed after the main lock is released, one push at  *)
(* a time per process and repository, while other operations merge and roll  *)
(* back; a rollback waits for the deliveries of its own process, asks origin *)
(* whether the merge is published, and resets or reverts.                    *)
(*                                                                           *)
(* An operation makes one call, a merge (autoPush set, delivery "push") or a *)
(* rollback.  The merge itself is MergeChain; here it is the one commit.     *)
(***************************************************************************)
EXTENDS Publication, FiniteSets

CONSTANTS
  Proc,           \* processes of Striart
  Home,           \* the process each operation runs in
  NoOne,          \* no operation
  MaxForeign,     \* bound on the pushes of other people
  CrashAt,        \* program points of an operation whose process may be killed
  FailAt,         \* commands that may fail: "check", "push", "timeout", "list", "fetch", "revert"
  Overlapping     \* a delivery no rollback waits for may be under way while one decides

ASSUME DeliveryAssumption ==
  /\ Home \in [Op -> Proc]
  /\ NoOne \notin Op
  /\ MaxForeign \in Nat
  /\ Overlapping \in BOOLEAN

VARIABLES
  lock,           \* the operation that holds the main lock
  pc,             \* program point of each operation
  head,           \* the merge it made, or the one it is about to undo
  chain,          \* per process, the deliveries not answered yet, in order (chains)
  awaited,        \* the deliveries a rollback waits for
  published,      \* what a rollback was told of its merge
  report,         \* the DeliveryReport of each operation
  tracking        \* origin/<branch> as a rollback last tracking it

opvars == <<pc, head, chain, awaited, published, report>>
vars == <<branch, remote, lock, opvars, tracking>>

MergePcs == {"commit", "release", "events", "queued", "push", "list"}
RollbackPcs == {"rbRead", "rbSettle", "rbWait", "rbApply"}
PCs == {"out", "done", "dead", "orphan"} \cup MergePcs \cup RollbackPcs

Delivered == {"pushed", "alreadyDelivered"}
Refused == {"superseded", "nonFastForward", "rejected", "timeout", "failed"}

TypeOK ==
  /\ branch \in Seq(Commit) /\ remote \in Seq(Commit)
  /\ lock \in Op \cup {NoOne}
  /\ pc \in [Op -> PCs]
  /\ head \in [Op -> Seq(Commit)]
  /\ chain \in [Proc -> Seq(Op)]
  /\ awaited \in [Op -> SUBSET Op]
  /\ published \in [Op -> BOOLEAN]
  /\ report \in [Op -> {"none"} \cup Delivered \cup Refused]
  /\ \A p \in Proc : \A i \in DOMAIN chain[p] :
       pc[chain[p][i]] \in IF i = 1 THEN {"queued", "push", "list"} ELSE {"queued"}
  /\ tracking \in Seq(Commit)

DeliveryInit ==
  /\ Init
  /\ lock = NoOne
  /\ pc = [o \in Op |-> "out"]
  /\ head = [o \in Op |-> <<>>]
  /\ chain = [p \in Proc |-> <<>>]
  /\ awaited = [o \in Op |-> {}]
  /\ published = [o \in Op |-> FALSE]
  /\ report = [o \in Op |-> "none"]
  /\ tracking = <<>>

Goto(o, l) == pc' = [pc EXCEPT ![o] = l]
Fails(c) == c \in FailAt

-----------------------------------------------------------------------------
(* A merge: the commit under the lock, then the effects once it is released. *)

Acquire(o) ==
  /\ pc[o] = "out"
  /\ lock = NoOne
  /\ lock' = o
  /\ Goto(o, "commit") \/ Goto(o, "rbRead")
  /\ UNCHANGED <<branch, remote, head, chain, awaited, published, report, tracking>>

\* finalizeMergeCommit: the delivery is planned for HEAD, in the memory of the operation.
CommitMerge(o) ==
  /\ pc[o] = "commit"
  /\ Land(MergeOf(o))
  /\ head' = [head EXCEPT ![o] = branch']
  /\ Goto(o, "release")
  /\ UNCHANGED <<lock, chain, awaited, published, report, tracking>>

\* withMainLock, finally.  A rollback has nothing to deliver.
Release(o) ==
  /\ pc[o] = "release"
  /\ lock' = NoOne
  /\ Goto(o, IF MergeOf(o) \in Range(head[o]) THEN "events" ELSE "done")
  /\ UNCHANGED <<branch, remote, head, chain, awaited, published, report, tracking>>

\* runWithDeferredEffects: the events (webhooks) first, then deliverSerialized.
Register(o) ==
  /\ pc[o] = "events"
  /\ chain' = [chain EXCEPT ![Home[o]] = Append(@, o)]
  /\ Goto(o, "queued")
  /\ UNCHANGED <<branch, remote, lock, head, awaited, published, report, tracking>>

\* Mutant: a delivery that fails unexpectedly stops its chain.
AnswerStuck(o, r) ==
  /\ report' = [report EXCEPT ![o] = r]
  /\ chain' = [chain EXCEPT ![Home[o]] = IF r = "failed" THEN @ ELSE Tail(@)]
  /\ Goto(o, "done")

\* The delivery of o is answered, and the next of its chain may start.
Answer(o, r) ==
  /\ report' = [report EXCEPT ![o] = r]
  /\ chain' = [chain EXCEPT ![Home[o]] = Tail(@)]
  /\ Goto(o, "done")

\* Unless Overlapping, a rollback that decides and a delivery it does not wait
\* for are not under way together.
Apart(rb, o) == Overlapping \/ o \in awaited[rb]

\* deliverSha: is the commit still in the local branch?
CheckAncestor(o) ==
  /\ pc[o] = "queued"
  /\ Head(chain[Home[o]]) = o
  /\ \A rb \in Op : pc[rb] = "rbApply" => Apart(rb, o)
  /\ \/ /\ IsPrefix(head[o], branch)
        /\ Goto(o, "push")
        /\ UNCHANGED <<chain, report>>
     \/ ~IsPrefix(head[o], branch) /\ Answer(o, "superseded")
     \/ Fails("check") /\ Answer(o, "failed")
  /\ UNCHANGED <<branch, remote, lock, head, awaited, published, tracking>>

\* What git push does to origin: a fast-forward or nothing.
FastForward(s) == IsPrefix(remote, s)
Receive(s) == remote' = s

\* deliverSha, git push.  Killed by the time limit, it may have been received.
Push(o) ==
  /\ pc[o] = "push"
  /\ \/ FastForward(head[o]) /\ Receive(head[o]) /\ Answer(o, "pushed")
     \/ Fails("timeout") /\ FastForward(head[o]) /\ Receive(head[o]) /\ Answer(o, "timeout")
     \/ Fails("timeout") /\ UNCHANGED remote /\ Answer(o, "timeout")
     \/ Fails("push") /\ UNCHANGED remote /\ (Answer(o, "rejected") \/ Answer(o, "failed"))
     \/ ~FastForward(head[o]) /\ Goto(o, "list") /\ UNCHANGED <<remote, chain, report>>
  /\ UNCHANGED <<branch, lock, head, awaited, published, tracking>>

\* The local object store has the commits of other people it fetched.
Known(s) == \A i \in DOMAIN s : s[i] = Foreign => i \in DOMAIN tracking

\* Mutant: a refused fast-forward is never looked into.
NeverHas(s) == FALSE

\* remoteAlreadyHas: ls-remote, then an ancestor check among local objects.
AlreadyHas(s) == Published(s) /\ Known(remote)

ListRemote(o) ==
  /\ pc[o] = "list"
  /\ \/ AlreadyHas(head[o]) /\ Answer(o, "alreadyDelivered")
     \/ (~AlreadyHas(head[o]) \/ Fails("list")) /\ Answer(o, "nonFastForward")
  /\ UNCHANGED <<branch, remote, lock, head, awaited, published, tracking>>

-----------------------------------------------------------------------------
(* A rollback.                                                               *)

\* Only a merge of Striart at the head of the branch is undone.
RbRead(o) ==
  /\ pc[o] = "rbRead"
  /\ IF branch # <<>> /\ Last(branch).kind = "merge"
     THEN head' = [head EXCEPT ![o] = branch] /\ Goto(o, "rbSettle")
     ELSE UNCHANGED head /\ Goto(o, "release")
  /\ UNCHANGED <<branch, remote, lock, chain, awaited, published, report, tracking>>

\* settlePendingDeliveries: the last delivery of our chain, and so all of them.
RbSettle(o) ==
  /\ pc[o] = "rbSettle"
  /\ awaited' = [awaited EXCEPT ![o] = Range(chain[Home[o]])]
  /\ Goto(o, "rbWait")
  /\ UNCHANGED <<branch, remote, lock, head, chain, published, report, tracking>>

\* Mutant: a rollback does not wait for its deliveries.
SettledAtOnce(o) == TRUE

Settled(o) == awaited[o] \cap Range(chain[Home[o]]) = {}

\* Mutant: origin is not fetched, its last known state decides.
RbFetchStale(o) ==
  /\ pc[o] = "rbWait"
  /\ Settled(o)
  /\ \A q \in Op : pc[q] \in {"push", "orphan"} => Apart(o, q)
  /\ published' = [published EXCEPT ![o] = IsPrefix(branch, tracking)]
  /\ Goto(o, "rbApply")
  /\ UNCHANGED <<branch, remote, lock, head, chain, awaited, report, tracking>>

\* isPublishedOnOrigin: a fetch, then HEAD against origin; in doubt, yes.
RbFetch(o) ==
  /\ pc[o] = "rbWait"
  /\ Settled(o)
  /\ \A q \in Op : pc[q] \in {"push", "orphan"} => Apart(o, q)
  /\ \/ /\ published' = [published EXCEPT ![o] = Published(branch)]
        /\ tracking' = remote
     \/ /\ Fails("fetch")
        /\ published' = [published EXCEPT ![o] = TRUE]
        /\ UNCHANGED tracking
  /\ Goto(o, "rbApply")
  /\ UNCHANGED <<branch, remote, lock, head, chain, awaited, report>>

\* revert -m 1 if it is published (it may be refused), else reset --hard.
RbApply(o) ==
  /\ pc[o] = "rbApply"
  /\ \/ published[o] /\ branch' = Append(branch, RevertOf(Last(head[o]).op))
     \/ published[o] /\ Fails("revert") /\ UNCHANGED branch
     \/ ~published[o] /\ branch' = Front(head[o])
  /\ Goto(o, "release")
  /\ UNCHANGED <<remote, lock, head, chain, awaited, published, report, tracking>>

-----------------------------------------------------------------------------
(* Faults, and other people.                                                 *)

\* The process of o is killed: its operations, its lock and its chain are gone.
\* git push runs in a process group of its own and goes on.
Crash(o) ==
  /\ pc[o] \in CrashAt
  /\ LET mates == {q \in Op : Home[q] = Home[o]} IN
       /\ pc' = [q \in Op |-> IF q \notin mates \/ pc[q] \in {"done", "orphan"} THEN pc[q]
                              ELSE IF pc[q] = "push" THEN "orphan" ELSE "dead"]
       /\ lock' = IF lock \in mates THEN NoOne ELSE lock
  /\ chain' = [chain EXCEPT ![Home[o]] = <<>>]
  /\ UNCHANGED <<branch, remote, head, awaited, published, report, tracking>>

OrphanPush(o) ==
  /\ pc[o] = "orphan"
  /\ Goto(o, "dead")
  /\ IF FastForward(head[o]) THEN Receive(head[o]) ELSE UNCHANGED remote
  /\ UNCHANGED <<branch, lock, head, chain, awaited, published, report, tracking>>

ForeignPush ==
  /\ Cardinality({i \in DOMAIN remote : remote[i] = Foreign}) < MaxForeign
  /\ SomebodyPushes
  /\ UNCHANGED <<lock, opvars, tracking>>

OpStep(o) ==
  \/ CommitMerge(o) \/ Release(o) \/ Register(o)
  \/ CheckAncestor(o) \/ Push(o) \/ ListRemote(o)
  \/ RbRead(o) \/ RbSettle(o) \/ RbFetch(o) \/ RbApply(o)
  \/ OrphanPush(o)

DeliveryNext ==
  \/ \E o \in Op : Acquire(o) \/ OpStep(o) \/ Crash(o)
  \/ ForeignPush

DeliverySpec == DeliveryInit /\ [][DeliveryNext]_vars

(* Commands have time limits, and a chain starts its next delivery.          *)
FairSpec == DeliverySpec /\ \A o \in Op : WF_vars(OpStep(o))

-----------------------------------------------------------------------------
(* Properties.                                                               *)

\* What a delivery reports stays true: a commit reported delivered is on origin,
\* one reported superseded never gets there, and a refused fast-forward is the
\* doing of somebody else (delivery.ts: "origin a avance hors de Striart").
ReportsTrue ==
  \A o \in Op :
    /\ report[o] \in Delivered => Published(head[o])
    /\ report[o] = "superseded" => ~Published(head[o])
    /\ report[o] = "nonFastForward" => Foreign \in Range(remote)

\* Every operation that got the lock ends, whatever fails in the deliveries
\* before its own (deliverSerialized: a failed delivery never stops the chain,
\* and the rollback that waits for one holds the main lock).
Answered == \A o \in Op : pc[o] \notin {"out", "done", "dead"} ~> pc[o] \in {"done", "dead"}

\* Deliveries and rollbacks, in all their steps, implement a branch whose
\* published part is never rewritten and an origin that only receives the branch.
ImplementsPublication == Spec
=============================================================================
