---------------------------- MODULE TaskCycle_proofs ----------------------------
(***************************************************************************)
(* The life of a task is right for any number of processes with any duties,*)
(* any agents, requests and predictions, and for kills at any other point  *)
(* than the two of Guarded, as long as nothing happens in Windows.  The    *)
(* argument: who changes the clones, the queue, or the entry of another    *)
(* agent holds the lock, and what it looked at is still so (StartInv,      *)
(* RemovalInv, SyncInv); the cycle of a session takes no lock, but its     *)
(* entry has its PID, which keeps the others away (CycleInv, SessInv,      *)
(* DecidedInv).  A step touches one entry and one clone (EntryStep,        *)
(* CloneStep, LandedStep, SetStep): each part of the invariant is carried  *)
(* over by these, not by a walk through the actions.                       *)
(***************************************************************************)
EXTENDS TaskCycle, TLAPS, SequenceTheorems

\* People and sessions leave alone what was decided, nobody stops or gives away what is
\* being published, and no process is killed where section 5 of the README says what
\* comes of it.
Guarded == Windows = {} /\ CrashAt \cap {"announce", "dequeue"} = {}

-----------------------------------------------------------------------------
(* The inductive invariant. *)

LockedPCs == {"clone", "register", "dequeue", "retry", "stopRemove", "mark", "flag", "rm",
              "unregister", "unmark", "resume", "sync"}
CyclePCs == {"spawn", "announce", "session", "commit", "unpublish"}

Allowed(f, g) == WholeRepo \in f \cup g

\* Who changes the clones, the queue or the entries for others holds the lock.
LockInv == \A p \in Proc : pc[p] \in LockedPCs => lock = p

\* Every operation is about an agent.
AgentInv ==
  \A p \in Proc : IF pc[p] = "idle" THEN job[p].why = "asked"
                  ELSE pc[p] \notin {"retry", "resume"} => job[p].agent \in Agent

\* Only what was asked for may be forced.
ForceInv ==
  \A p \in Proc :
    pc[p] \in {"routed", "clone", "register"} =>
      job[p].why \in {"asked", "queue"} /\ (job[p].force => job[p].why = "asked")

\* An entry without an announced removal has its clone, and what it says is merged is.
EntryInv ==
  \A a \in DOMAIN registry :
    /\ ~registry[a].removing => a \in OnDisk
    /\ registry[a].removing => a \in marker
    /\ a \in OnDisk => registry[a].merged <= landed[a]

\* A clone without an entry has nothing to lose.
CloneInv ==
  \A a \in DOMAIN clone :
    /\ landed[a] <= clone[a].commits
    /\ a \notin Active => clone[a].commits <= landed[a] \/ a \in forsaken

\* A running session is registered.
LiveInv == \A a \in live : Alive(a)

\* A cycle under way: its PID is registered until the session is over, its entry has
\* not failed, and no other cycle has the same entry.
CycleInv ==
  \A p \in Proc :
    LET a == job[p].agent
    IN  /\ pc[p] \in CyclePCs =>
             /\ a \in Active
             /\ pc[p] # "session" => registry[a].sess = p
             /\ pc[p] = "session" => registry[a].sess \in {NoPid, AgentPid}
        /\ pc[p] \in {"publish", "spawn", "commit", "unpublish"} => a \notin live
        /\ pc[p] \in CyclePCs \cup {"publish"} =>
             /\ a \in Active => ~registry[a].failed
             /\ \A q \in Proc \ {p} :
                  pc[q] \in CyclePCs \cup {"publish", "register"} => job[q].agent # a

\* A registered PID of Striart is that of the process of the cycle.
SessInv ==
  \A a \in DOMAIN registry :
    registry[a].sess \in Proc =>
      /\ job[registry[a].sess].agent = a
      /\ pc[registry[a].sess] \in {"spawn", "announce", "commit", "unpublish"}

\* What was decided about a stays true until it is done.
DecidedInv ==
  \A a \in DOMAIN registry : Decided(a) =>
    /\ ~Alive(a)
    /\ \A q \in Proc : pc[q] \in CyclePCs => job[q].agent # a
    /\ a \in OnDisk => \/ clone[a].commits <= landed[a]
                       \/ a \in forsaken

\* A removal, unlike a stop, takes the work that is not committed.
CleanInv ==
  \A a \in DOMAIN registry :
    /\ a \in OnDisk
    /\ registry[a].removing \/ \E p \in Proc : job[p].agent = a /\ pc[p] \in {"mark", "flag"}
    => ~clone[a].dirty \/ a \in forsaken

\* How far a removal is.
RemovalInv ==
  \A p \in Proc :
    LET a == job[p].agent
    IN  /\ pc[p] = "flag" => a \in marker
        /\ pc[p] \in {"rm", "unregister"} => (a \in Active => registry[a].removing)
        /\ pc[p] = "unregister" => a \notin OnDisk
        /\ pc[p] = "unmark" => a \notin Active

\* How far the start of an agent is: its clone is new when it is registered; and, if it is
\* the start of a task, its name is free and who may collide with it has failed.
StartInv ==
  \A p \in Proc :
    LET a == job[p].agent
    IN  /\ pc[p] \in {"clone", "register"} /\ job[p].like = a =>
             /\ a \notin Active
             /\ \A b \in Active : Clash(Predicted[a], registry[b].files) =>
                  Allowed(Predicted[a], registry[b].files) /\ registry[b].failed
             /\ job[p].why # "queue" => a \notin Queued
        /\ pc[p] = "register" =>
             a \notin Active /\ a \in OnDisk /\ clone[a].commits = 0 /\ landed[a] = 0

\* A name is in the queue once.
QueueInv == \A i, j \in DOMAIN queue : queue[i].agent = queue[j].agent => i = j

\* What is about to be recorded as merged is.
SyncInv == \A p \in Proc : pc[p] = "sync" => job[p].sha <= landed[job[p].agent]

TInv ==
  /\ TypeOK
  /\ AgentInv
  /\ ForceInv
  /\ LockInv
  /\ EntryInv
  /\ CloneInv
  /\ LiveInv
  /\ CycleInv
  /\ SessInv
  /\ DecidedInv
  /\ CleanInv
  /\ RemovalInv
  /\ StartInv
  /\ QueueInv
  /\ SyncInv
  /\ NoCollision
  /\ NotTwice
-----------------------------------------------------------------------------
(* Steps. *)

\* One step of a process.
Step(p) ==
  \/ Goes(p) \/ Reconcile(p) \/ Crash(p)
  \/ \E r \in Requests : Ask(p, r)
  \/ \E s \in Starts : Start(p, s)
  \/ \E a \in Agent, force \in BOOLEAN : Stop(p, a, force)
  \/ \E a \in Agent, force \in BOOLEAN : Clean(p, a, force)
  \/ \E a \in Agent : Merge(p, a)

LEMMA StepCases ==
  ASSUME Next
  PROVE  (\E p \in Proc : Step(p)) \/ (\E a \in Agent : SessionEnds(a) \/ Work(a))
BY DEF Next, Step

-----------------------------------------------------------------------------
(* The data. *)

LEMMA WithoutDef ==
  ASSUME NEW f, NEW a
  PROVE  /\ DOMAIN Without(f, a) = DOMAIN f \ {a}
         /\ \A b \in DOMAIN f \ {a} : Without(f, a)[b] = f[b]
BY DEF Without

LEMMA WithTypes ==
  ASSUME NEW S, NEW T, NEW f, DOMAIN f \subseteq S, \A b \in DOMAIN f : f[b] \in T,
         NEW a \in S, NEW v \in T
  PROVE  /\ DOMAIN With(f, a, v) \subseteq S
         /\ \A b \in DOMAIN With(f, a, v) : With(f, a, v)[b] \in T
BY DEF With

LEMMA WithoutTypes ==
  ASSUME NEW S, NEW T, NEW f, DOMAIN f \subseteq S, \A b \in DOMAIN f : f[b] \in T, NEW a
  PROVE  /\ DOMAIN Without(f, a) \subseteq S
         /\ \A b \in DOMAIN Without(f, a) : Without(f, a)[b] \in T
BY DEF Without

LEMMA RemoveAtDef ==
  ASSUME NEW S, NEW s \in Seq(S), NEW i \in 1..Len(s)
  PROVE  /\ RemoveAt(s, i) \in Seq(S)
         /\ Len(RemoveAt(s, i)) = Len(s) - 1
         /\ \A j \in 1..(Len(s) - 1) : RemoveAt(s, i)[j] = IF j < i THEN s[j] ELSE s[j + 1]
<1> DEFINE u == SubSeq(s, 1, i - 1)
           v == SubSeq(s, i + 1, Len(s))
<1>1. u \in Seq(S) /\ Len(u) = i - 1 /\ \A j \in 1..(i - 1) : u[j] = s[j]
  OBVIOUS
<1>2. v \in Seq(S) /\ Len(v) = Len(s) - i /\ \A j \in 1..(Len(s) - i) : v[j] = s[i + j]
  OBVIOUS
<1>3. RemoveAt(s, i) = u \o v
  BY DEF RemoveAt
<1> HIDE DEF u, v
<1>4. /\ u \o v \in Seq(S) /\ Len(u \o v) = Len(s) - 1
      /\ \A j \in 1..(Len(s) - 1) : (u \o v)[j] = IF j < i THEN u[j] ELSE v[j - (i - 1)]
  <2>1. /\ u \o v \in Seq(S) /\ Len(u \o v) = Len(u) + Len(v)
        /\ \A j \in 1..(Len(u) + Len(v)) : (u \o v)[j] = IF j <= Len(u) THEN u[j] ELSE v[j - Len(u)]
    BY <1>1, <1>2, ConcatProperties
  <2>2. Len(u) + Len(v) = Len(s) - 1
    BY <1>1, <1>2
  <2>3. \A j \in 1..(Len(s) - 1) : (j <= Len(u)) <=> (j < i)
    BY <1>1
  <2> QED
    BY <1>1, <2>1, <2>2, <2>3
<1>5. \A j \in 1..(Len(s) - 1) : (u \o v)[j] = IF j < i THEN s[j] ELSE s[j + 1]
  <2> TAKE j \in 1..(Len(s) - 1)
  <2>1. CASE j < i
    BY <1>1, <1>4, <2>1
  <2>2. CASE ~(j < i)
    <3>1. j - (i - 1) \in 1..(Len(s) - i) /\ i + (j - (i - 1)) = j + 1
      BY <2>2
    <3> QED
      BY <1>2, <1>4, <2>2, <3>1
  <2> QED
    BY <2>1, <2>2
<1> QED
  BY <1>3, <1>4, <1>5

LEMMA NoJobType == NoJob \in Job
BY DEF NoJob, Job, Modes

-----------------------------------------------------------------------------
(* Control: where a process goes, and what it leaves to the others. *)

LEMMA Others ==
  ASSUME pc \in [Proc -> PCs], job \in [Proc -> Job], NEW p \in Proc, Step(p)
  PROVE  /\ pc' = [pc EXCEPT ![p] = pc'[p]] /\ job' = [job EXCEPT ![p] = job'[p]]
         /\ \A q \in Proc \ {p} : pc'[q] = pc[q] /\ job'[q] = job[q]
<1>0. pc \in [Proc -> PCs] /\ job \in [Proc -> Job]
  OBVIOUS
<1>1. CASE RunLocked(p)
  BY <1>0, <1>1 DEF RunLocked, Done, Goto, Locks
<1>2. CASE Withdraw(p)
  BY <1>0, <1>2 DEF Withdraw, RemoveTask, Done, Goto
<1>3. CASE CreateClone(p)
  BY <1>0, <1>3 DEF CreateClone, NotStarted, Done, Goto
<1>4. CASE ReuseClone(p)
  BY <1>0, <1>4 DEF ReuseClone, NotStarted, Done, Goto
<1>5. CASE Register(p)
  BY <1>0, <1>5 DEF Register, NotStarted, Done, Goto
<1>6. CASE Retry(p)
  BY <1>0, <1>6 DEF Retry, Done, Goto
<1>7. CASE Dequeue(p)
  BY <1>0, <1>7 DEF Dequeue, RemoveTask, Goto
<1>8. CASE StopRemove(p)
  BY <1>0, <1>8 DEF StopRemove, Passes, Goto
<1>9. CASE Mark(p)
  BY <1>0, <1>9 DEF Mark, Goto
<1>10. CASE Flag(p)
  BY <1>0, <1>10 DEF Flag, Goto
<1>11. CASE Rm(p)
  BY <1>0, <1>11 DEF Rm, Removed, Done, Goto
<1>12. CASE Unregister(p)
  BY <1>0, <1>12 DEF Unregister, Goto
<1>13. CASE Unmark(p)
  BY <1>0, <1>13 DEF Unmark, Removed, Done, Goto
<1>14. CASE Resume(p)
  BY <1>0, <1>14 DEF Resume, Passes, Goto
<1>15. CASE Sync(p)
  BY <1>0, <1>15 DEF Sync, Done, Goto
<1>16. CASE Publish(p)
  BY <1>0, <1>16 DEF Publish, SetSess, Done, Goto
<1>17. CASE Spawn(p)
  BY <1>0, <1>17 DEF Spawn, Goto
<1>18. CASE Announce(p)
  BY <1>0, <1>18 DEF Announce, SetSess, Goto
<1>19. CASE Conclude(p)
  BY <1>0, <1>19 DEF Conclude, Done, Goto
<1>20. CASE Commit(p)
  BY <1>0, <1>20 DEF Commit, Goto
<1>21. CASE Unpublish(p)
  BY <1>0, <1>21 DEF Unpublish, SetSess, Done, Goto
<1>22. CASE Tip(p)
  BY <1>0, <1>22 DEF Tip, Done, Goto
<1>23. CASE CycleMerge(p)
  BY <1>0, <1>23 DEF CycleMerge, MergeUnder, Locks, Done, Goto
<1>24. CASE Cleanup(p)
  BY <1>0, <1>24 DEF Cleanup, Locks, Done, Goto
<1>25. CASE \E r \in Requests : Ask(p, r)
  BY <1>0, <1>25 DEF Ask, Does, Goto
<1>26. CASE Reconcile(p)
  BY <1>0, <1>26 DEF Reconcile, Does, Locks, Goto
<1>27. CASE \E a \in Agent, force \in BOOLEAN : Stop(p, a, force)
  BY <1>0, <1>27 DEF Stop, Does, Locks, Goto, About, GiveUp
<1>28. CASE \E a \in Agent, force \in BOOLEAN : Clean(p, a, force)
  BY <1>0, <1>28 DEF Clean, Does, Locks, Goto, About, GiveUp
<1>29. CASE \E a \in Agent : Merge(p, a)
  BY <1>0, <1>29 DEF Merge, Does, MergeUnder, Locks, Done, Goto
<1>30. CASE Crash(p)
  BY <1>0, <1>30 DEF Crash, Done, Goto
<1>31. CASE \E s \in Starts : Start(p, s)
  BY <1>0, <1>31 DEF Start, Does, Locks, Goto
<1> QED
  BY <1>1, <1>2, <1>3, <1>4, <1>5, <1>6, <1>7, <1>8, <1>9, <1>10, <1>11, <1>12, <1>13, <1>14,
     <1>15, <1>16, <1>17, <1>18, <1>19, <1>20, <1>21, <1>22, <1>23, <1>24, <1>25, <1>26, <1>27,
     <1>28, <1>29, <1>30, <1>31 DEF Step, Goes

\* Which action brings a process where.
LEMMA Arrivals ==
  ASSUME pc \in [Proc -> PCs], NEW p \in Proc, Step(p)
  PROVE  /\ pc'[p] = "routed" => \E r \in Requests : Ask(p, r)
         /\ pc'[p] = "clone" => RunLocked(p) \/ Retry(p) \/ \E s \in Starts : Start(p, s)
         /\ pc'[p] = "register" => CreateClone(p) \/ ReuseClone(p)
         /\ pc'[p] \in {"dequeue", "publish"} => Register(p)
         /\ pc'[p] = "stopRemove" => \E a \in Agent, force \in BOOLEAN : Stop(p, a, force)
         /\ pc'[p] = "mark" =>
              Cleanup(p) \/ \E a \in Agent, force \in BOOLEAN : Clean(p, a, force)
         /\ pc'[p] = "flag" => Mark(p)
         /\ pc'[p] = "rm" => Flag(p) \/ Resume(p)
         /\ pc'[p] = "unregister" => Rm(p)
         /\ pc'[p] = "unmark" => Unregister(p)
         /\ pc'[p] = "sync" => CycleMerge(p) \/ \E a \in Agent : Merge(p, a)
         /\ pc'[p] = "spawn" => Publish(p)
         /\ pc'[p] = "announce" => Spawn(p)
         /\ pc'[p] = "session" => Announce(p)
         /\ pc'[p] = "commit" => Conclude(p)
         /\ pc'[p] = "unpublish" => Commit(p)
<1>0. pc \in [Proc -> PCs]
  OBVIOUS
<1>1. CASE RunLocked(p)
  BY <1>0, <1>1 DEF RunLocked, Done, Goto, Locks
<1>2. CASE Withdraw(p)
  BY <1>0, <1>2 DEF Withdraw, RemoveTask, Done, Goto
<1>3. CASE CreateClone(p)
  BY <1>0, <1>3 DEF CreateClone, NotStarted, Done, Goto
<1>4. CASE ReuseClone(p)
  BY <1>0, <1>4 DEF ReuseClone, NotStarted, Done, Goto
<1>5. CASE Register(p)
  BY <1>0, <1>5 DEF Register, NotStarted, Done, Goto
<1>6. CASE Retry(p)
  BY <1>0, <1>6 DEF Retry, Done, Goto
<1>7. CASE Dequeue(p)
  BY <1>0, <1>7 DEF Dequeue, RemoveTask, Goto
<1>8. CASE StopRemove(p)
  BY <1>0, <1>8 DEF StopRemove, Passes, Goto
<1>9. CASE Mark(p)
  BY <1>0, <1>9 DEF Mark, Goto
<1>10. CASE Flag(p)
  BY <1>0, <1>10 DEF Flag, Goto
<1>11. CASE Rm(p)
  BY <1>0, <1>11 DEF Rm, Removed, Done, Goto
<1>12. CASE Unregister(p)
  BY <1>0, <1>12 DEF Unregister, Goto
<1>13. CASE Unmark(p)
  BY <1>0, <1>13 DEF Unmark, Removed, Done, Goto
<1>14. CASE Resume(p)
  BY <1>0, <1>14 DEF Resume, Passes, Goto
<1>15. CASE Sync(p)
  BY <1>0, <1>15 DEF Sync, Done, Goto
<1>16. CASE Publish(p)
  BY <1>0, <1>16 DEF Publish, SetSess, Done, Goto
<1>17. CASE Spawn(p)
  BY <1>0, <1>17 DEF Spawn, Goto
<1>18. CASE Announce(p)
  BY <1>0, <1>18 DEF Announce, SetSess, Goto
<1>19. CASE Conclude(p)
  BY <1>0, <1>19 DEF Conclude, Done, Goto
<1>20. CASE Commit(p)
  BY <1>0, <1>20 DEF Commit, Goto
<1>21. CASE Unpublish(p)
  BY <1>0, <1>21 DEF Unpublish, SetSess, Done, Goto
<1>22. CASE Tip(p)
  BY <1>0, <1>22 DEF Tip, Done, Goto
<1>23. CASE CycleMerge(p)
  BY <1>0, <1>23 DEF CycleMerge, MergeUnder, Locks, Done, Goto
<1>24. CASE Cleanup(p)
  BY <1>0, <1>24 DEF Cleanup, Locks, Done, Goto
<1>25. CASE \E r \in Requests : Ask(p, r)
  BY <1>0, <1>25 DEF Ask, Does, Goto
<1>26. CASE Reconcile(p)
  BY <1>0, <1>26 DEF Reconcile, Does, Locks, Goto
<1>27. CASE \E a \in Agent, force \in BOOLEAN : Stop(p, a, force)
  BY <1>0, <1>27 DEF Stop, Does, Locks, Goto, About, GiveUp
<1>28. CASE \E a \in Agent, force \in BOOLEAN : Clean(p, a, force)
  BY <1>0, <1>28 DEF Clean, Does, Locks, Goto, About, GiveUp
<1>29. CASE \E a \in Agent : Merge(p, a)
  BY <1>0, <1>29 DEF Merge, Does, MergeUnder, Locks, Done, Goto
<1>30. CASE Crash(p)
  BY <1>0, <1>30 DEF Crash, Done, Goto
<1>31. CASE \E s \in Starts : Start(p, s)
  BY <1>0, <1>31 DEF Start, Does, Locks, Goto
<1> QED
  BY <1>1, <1>2, <1>3, <1>4, <1>5, <1>6, <1>7, <1>8, <1>9, <1>10, <1>11, <1>12, <1>13, <1>14,
     <1>15, <1>16, <1>17, <1>18, <1>19, <1>20, <1>21, <1>22, <1>23, <1>24, <1>25, <1>26, <1>27,
     <1>28, <1>29, <1>30, <1>31 DEF Step, Goes

\* Which actions write what.
Writes(p) ==
  /\ \/ registry' = registry
     \/ Register(p) \/ StopRemove(p) \/ Flag(p) \/ Unregister(p) \/ Reconcile(p) \/ Sync(p)
     \/ Publish(p) \/ Announce(p) \/ Conclude(p) \/ Unpublish(p) \/ Crash(p)
  /\ \/ clone' = clone
     \/ CreateClone(p) \/ ReuseClone(p) \/ Register(p) \/ Rm(p) \/ Commit(p)
  /\ \/ landed' = landed
     \/ CreateClone(p) \/ ReuseClone(p) \/ Rm(p) \/ CycleMerge(p)
     \/ \E a \in Agent : Merge(p, a)
  /\ \/ marker' = marker
     \/ CreateClone(p) \/ ReuseClone(p) \/ Mark(p) \/ Unmark(p)
  /\ queue' = queue \/ RunLocked(p) \/ Withdraw(p) \/ Dequeue(p)
  /\ live' = live \/ Spawn(p)
  /\ \/ forsaken' = forsaken
     \/ CreateClone(p) \/ ReuseClone(p) \/ Rm(p)
     \/ \E a \in Agent, force \in BOOLEAN : Stop(p, a, force)
     \/ \E a \in Agent, force \in BOOLEAN : Clean(p, a, force)
  /\ \/ pass' = pass
     \/ Retry(p) \/ StopRemove(p) \/ Resume(p) \/ Crash(p)
     \/ CreateClone(p) \/ ReuseClone(p) \/ Register(p)
  /\ over' = over \/ Register(p)

LEMMA Writers ==
  ASSUME NEW p \in Proc, Step(p)
  PROVE  Writes(p)
<1>1. CASE RunLocked(p)
  BY <1>1 DEF Writes, RunLocked
<1>2. CASE Withdraw(p)
  BY <1>2 DEF Writes, Withdraw
<1>3. CASE CreateClone(p)
  BY <1>3 DEF Writes, CreateClone
<1>4. CASE ReuseClone(p)
  BY <1>4 DEF Writes, ReuseClone
<1>5. CASE Register(p)
  BY <1>5 DEF Writes, Register
<1>6. CASE Retry(p)
  BY <1>6 DEF Writes, Retry
<1>7. CASE Dequeue(p)
  BY <1>7 DEF Writes, Dequeue
<1>8. CASE StopRemove(p)
  BY <1>8 DEF Writes, StopRemove
<1>9. CASE Mark(p)
  BY <1>9 DEF Writes, Mark
<1>10. CASE Flag(p)
  BY <1>10 DEF Writes, Flag
<1>11. CASE Rm(p)
  BY <1>11 DEF Writes, Rm
<1>12. CASE Unregister(p)
  BY <1>12 DEF Writes, Unregister
<1>13. CASE Unmark(p)
  BY <1>13 DEF Writes, Unmark
<1>14. CASE Resume(p)
  BY <1>14 DEF Writes, Resume
<1>15. CASE Sync(p)
  BY <1>15 DEF Writes, Sync
<1>16. CASE Publish(p)
  BY <1>16 DEF Writes, Publish
<1>17. CASE Spawn(p)
  BY <1>17 DEF Writes, Spawn
<1>18. CASE Announce(p)
  BY <1>18 DEF Writes, Announce
<1>19. CASE Conclude(p)
  BY <1>19 DEF Writes, Conclude
<1>20. CASE Commit(p)
  BY <1>20 DEF Writes, Commit
<1>21. CASE Unpublish(p)
  BY <1>21 DEF Writes, Unpublish
<1>22. CASE Tip(p)
  BY <1>22 DEF Writes, Tip
<1>23. CASE CycleMerge(p)
  BY <1>23 DEF Writes, CycleMerge
<1>24. CASE Cleanup(p)
  BY <1>24 DEF Writes, Cleanup
<1>25. CASE \E r \in Requests : Ask(p, r)
  BY <1>25 DEF Writes, Ask
<1>26. CASE Reconcile(p)
  BY <1>26 DEF Writes, Reconcile
<1>27. CASE \E a \in Agent, force \in BOOLEAN : Stop(p, a, force)
  BY <1>27 DEF Writes, Stop
<1>28. CASE \E a \in Agent, force \in BOOLEAN : Clean(p, a, force)
  BY <1>28 DEF Writes, Clean
<1>29. CASE \E a \in Agent : Merge(p, a)
  BY <1>29 DEF Writes, Merge
<1>30. CASE Crash(p)
  BY <1>30 DEF Writes, Crash
<1>31. CASE \E s \in Starts : Start(p, s)
  BY <1>31 DEF Writes, Start
<1> QED
  BY <1>1, <1>2, <1>3, <1>4, <1>5, <1>6, <1>7, <1>8, <1>9, <1>10, <1>11, <1>12, <1>13, <1>14,
     <1>15, <1>16, <1>17, <1>18, <1>19, <1>20, <1>21, <1>22, <1>23, <1>24, <1>25, <1>26, <1>27,
     <1>28, <1>29, <1>30, <1>31 DEF Step, Goes

-----------------------------------------------------------------------------
(* Types. *)

LEMMA ControlTypes ==
  ASSUME lock \in Proc \cup {Nobody}, pc \in [Proc -> PCs], crashes \in 0..MaxCrashes,
         NEW p \in Proc, Step(p)
  PROVE  lock' \in Proc \cup {Nobody} /\ pc' \in [Proc -> PCs] /\ crashes' \in 0..MaxCrashes
<1>0. lock \in Proc \cup {Nobody} /\ pc \in [Proc -> PCs] /\ crashes \in 0..MaxCrashes /\ MaxCrashes \in Nat
  BY TaskAssumption
<1>1. CASE RunLocked(p)
  BY <1>0, <1>1 DEF RunLocked, Done, Goto, Locks, PCs
<1>2. CASE Withdraw(p)
  BY <1>0, <1>2 DEF Withdraw, RemoveTask, Done, Goto, PCs
<1>3. CASE CreateClone(p)
  BY <1>0, <1>3 DEF CreateClone, NotStarted, Done, Goto, PCs
<1>4. CASE ReuseClone(p)
  BY <1>0, <1>4 DEF ReuseClone, NotStarted, Done, Goto, PCs
<1>5. CASE Register(p)
  BY <1>0, <1>5 DEF Register, NotStarted, Done, Goto, PCs
<1>6. CASE Retry(p)
  BY <1>0, <1>6 DEF Retry, Done, Goto, PCs
<1>7. CASE Dequeue(p)
  BY <1>0, <1>7 DEF Dequeue, RemoveTask, Goto, PCs
<1>8. CASE StopRemove(p)
  BY <1>0, <1>8 DEF StopRemove, Passes, Goto, PCs
<1>9. CASE Mark(p)
  BY <1>0, <1>9 DEF Mark, Goto, PCs
<1>10. CASE Flag(p)
  BY <1>0, <1>10 DEF Flag, Goto, PCs
<1>11. CASE Rm(p)
  BY <1>0, <1>11 DEF Rm, Removed, Done, Goto, PCs
<1>12. CASE Unregister(p)
  BY <1>0, <1>12 DEF Unregister, Goto, PCs
<1>13. CASE Unmark(p)
  BY <1>0, <1>13 DEF Unmark, Removed, Done, Goto, PCs
<1>14. CASE Resume(p)
  BY <1>0, <1>14 DEF Resume, Passes, Goto, PCs
<1>15. CASE Sync(p)
  BY <1>0, <1>15 DEF Sync, Done, Goto, PCs
<1>16. CASE Publish(p)
  BY <1>0, <1>16 DEF Publish, SetSess, Done, Goto, PCs
<1>17. CASE Spawn(p)
  BY <1>0, <1>17 DEF Spawn, Goto, PCs
<1>18. CASE Announce(p)
  BY <1>0, <1>18 DEF Announce, SetSess, Goto, PCs
<1>19. CASE Conclude(p)
  BY <1>0, <1>19 DEF Conclude, Done, Goto, PCs
<1>20. CASE Commit(p)
  BY <1>0, <1>20 DEF Commit, Goto, PCs
<1>21. CASE Unpublish(p)
  BY <1>0, <1>21 DEF Unpublish, SetSess, Done, Goto, PCs
<1>22. CASE Tip(p)
  BY <1>0, <1>22 DEF Tip, Done, Goto, PCs
<1>23. CASE CycleMerge(p)
  BY <1>0, <1>23 DEF CycleMerge, MergeUnder, Locks, Done, Goto, PCs
<1>24. CASE Cleanup(p)
  BY <1>0, <1>24 DEF Cleanup, Locks, Done, Goto, PCs
<1>25. CASE \E r \in Requests : Ask(p, r)
  BY <1>0, <1>25 DEF Ask, Does, Goto, PCs
<1>26. CASE Reconcile(p)
  BY <1>0, <1>26 DEF Reconcile, Does, Locks, Goto, PCs
<1>27. CASE \E a \in Agent, force \in BOOLEAN : Stop(p, a, force)
  BY <1>0, <1>27 DEF Stop, Does, Locks, Goto, About, GiveUp, PCs
<1>28. CASE \E a \in Agent, force \in BOOLEAN : Clean(p, a, force)
  BY <1>0, <1>28 DEF Clean, Does, Locks, Goto, About, GiveUp, PCs
<1>29. CASE \E a \in Agent : Merge(p, a)
  BY <1>0, <1>29 DEF Merge, Does, MergeUnder, Locks, Done, Goto, PCs
<1>30. CASE Crash(p)
  BY <1>0, <1>30 DEF Crash, Done, Goto, PCs
<1>31. CASE \E s \in Starts : Start(p, s)
  BY <1>0, <1>31 DEF Start, Does, Locks, Goto, PCs
<1> QED
  BY <1>1, <1>2, <1>3, <1>4, <1>5, <1>6, <1>7, <1>8, <1>9, <1>10, <1>11, <1>12, <1>13, <1>14,
     <1>15, <1>16, <1>17, <1>18, <1>19, <1>20, <1>21, <1>22, <1>23, <1>24, <1>25, <1>26, <1>27,
     <1>28, <1>29, <1>30, <1>31 DEF Step, Goes

LEMMA JobTypes ==
  ASSUME TypeOK, NEW p \in Proc, Step(p)
  PROVE  job' \in [Proc -> Job]
<1>0. job \in [Proc -> Job] /\ NoJob \in Job /\ pass \in [Proc -> Seq(Task)]
  BY NoJobType DEF TypeOK
<1>1. CASE RunLocked(p)
  BY <1>0, <1>1 DEF RunLocked, Done, Goto, Locks
<1>2. CASE Withdraw(p)
  BY <1>0, <1>2 DEF Withdraw, RemoveTask, Done, Goto
<1>3. CASE CreateClone(p)
  BY <1>0, <1>3 DEF CreateClone, NotStarted, Done, Goto
<1>4. CASE ReuseClone(p)
  BY <1>0, <1>4 DEF ReuseClone, NotStarted, Done, Goto
<1>5. CASE Register(p)
  <2>1. job[p].agent \in Agent \cup {NoAgent} /\ job[p].like \in Agent \cup {NoAgent}
    BY <1>0 DEF Job
  <2> DEFINE j == [NoJob EXCEPT !.why = "cycle", !.agent = job[p].agent, !.like = job[p].like]
  <2>8. j \in Job
    BY <2>1 DEF NoJob, Job, Modes
  <2>9. job' = [job EXCEPT ![p] = j] \/ job' = [job EXCEPT ![p] = NoJob] \/ job' = job
    BY <1>5 DEF Register, NotStarted, Done
  <2> HIDE DEF j
  <2> QED
    BY <1>0, <2>8, <2>9
<1>6. CASE Retry(p)
  <2>1. CASE pass[p] = <<>>
    BY <1>0, <2>1, <1>6 DEF Retry, Done
  <2>2. CASE pass[p] # <<>>
    <3> DEFINE t == Head(pass[p])
               j == [NoJob EXCEPT !.why = "queue", !.agent = t.agent, !.like = t.agent,
                                  !.reuse = t.reuse]
    <3>1. t \in Task
      BY <1>0, <2>2
    <3> HIDE DEF t
    <3>2. j \in Job
      BY <3>1 DEF NoJob, Job, Modes, Task
    <3> USE DEF t
    <3>3. job' = [job EXCEPT ![p] = j] \/ job' = job
      BY <2>2, <1>6 DEF Retry
    <3> HIDE DEF j, t
    <3> QED
      BY <1>0, <3>2, <3>3
  <2> QED
    BY <2>1, <2>2
<1>7. CASE Dequeue(p)
  BY <1>0, <1>7 DEF Dequeue, RemoveTask, Goto
<1>8. CASE StopRemove(p)
  BY <1>0, <1>8 DEF StopRemove, Passes, Goto
<1>9. CASE Mark(p)
  BY <1>0, <1>9 DEF Mark, Goto
<1>10. CASE Flag(p)
  BY <1>0, <1>10 DEF Flag, Goto
<1>11. CASE Rm(p)
  BY <1>0, <1>11 DEF Rm, Removed, Done, Goto
<1>12. CASE Unregister(p)
  BY <1>0, <1>12 DEF Unregister, Goto
<1>13. CASE Unmark(p)
  BY <1>0, <1>13 DEF Unmark, Removed, Done, Goto
<1>14. CASE Resume(p)
  <2>1. job[p] \in Job /\ job[p].todo \subseteq Agent
    BY <1>0 DEF Job
  <2>2. ASSUME NEW a \in job[p].todo, job' = [job EXCEPT ![p].todo = @ \ {a}]
        PROVE  job' \in [Proc -> Job]
    BY <1>0, <2>1, <2>2 DEF Job
  <2>3. ASSUME NEW a \in job[p].todo, job' = [job EXCEPT ![p].todo = @ \ {a}, ![p].agent = a]
        PROVE  job' \in [Proc -> Job]
    BY <1>0, <2>1, <2>3 DEF Job
  <2> QED
    BY <1>0, <1>14, <2>2, <2>3 DEF Resume, Passes, Goto
<1>15. CASE Sync(p)
  BY <1>0, <1>15 DEF Sync, Done, Goto
<1>16. CASE Publish(p)
  BY <1>0, <1>16 DEF Publish, SetSess, Done, Goto
<1>17. CASE Spawn(p)
  BY <1>0, <1>17 DEF Spawn, Goto
<1>18. CASE Announce(p)
  BY <1>0, <1>18 DEF Announce, SetSess, Goto
<1>19. CASE Conclude(p)
  BY <1>0, <1>19 DEF Conclude, Done, Goto
<1>20. CASE Commit(p)
  <2>1. [job EXCEPT ![p].force = TRUE] \in [Proc -> Job]
    BY <1>0 DEF Job
  <2> QED
    BY <1>0, <1>20, <2>1 DEF Commit, Goto
<1>21. CASE Unpublish(p)
  BY <1>0, <1>21 DEF Unpublish, SetSess, Done, Goto
<1>22. CASE Tip(p)
  BY <1>0, <1>22 DEF Tip, Done, Goto
<1>23. CASE CycleMerge(p)
  <2>1. ASSUME NEW a \in Agent \cup {NoAgent}, MergeUnder(p, a)
        PROVE  job' \in [Proc -> Job]
    <3> DEFINE j == [NoJob EXCEPT !.why = job[p].why, !.agent = a, !.sha = clone[a].commits]
    <3>1. CASE a \in OnDisk
      <4>1. clone[a].commits \in Nat
        BY <3>1 DEF TypeOK, Clone, OnDisk
      <4>2. job[p].why \in {"asked", "queue", "cycle", "resume"}
        BY <1>0 DEF Job
      <4>3. j \in Job
        BY <4>1, <4>2 DEF NoJob, Job, Modes
      <4>4. job' = [job EXCEPT ![p] = j] \/ job' = [job EXCEPT ![p] = NoJob] \/ job' = job
        BY <2>1 DEF MergeUnder, Done
      <4> HIDE DEF j
      <4> QED
        BY <1>0, <4>3, <4>4
    <3>2. CASE a \notin OnDisk
      BY <1>0, <2>1, <3>2 DEF MergeUnder, Done
    <3> QED
      BY <3>1, <3>2
  <2>2. job[p].agent \in Agent \cup {NoAgent}
    BY <1>0 DEF Job
  <2> QED
    BY <1>23, <2>1, <2>2 DEF CycleMerge
<1>24. CASE Cleanup(p)
  BY <1>0, <1>24 DEF Cleanup, Locks, Done, Goto
<1>25. CASE \E r \in Requests : Ask(p, r)
  <2>1. PICK r \in Requests : Ask(p, r)
    BY <1>25
  <2> DEFINE j == [NoJob EXCEPT !.agent = r.agent, !.like = r.agent, !.after = r.after,
                           !.mode = r.mode, !.reuse = r.reuse, !.force = r.force]
  <2>8. j \in Job
    BY TaskAssumption DEF NoJob, Job, Modes
  <2>9. job' = [job EXCEPT ![p] = j] \/ job' = [job EXCEPT ![p] = NoJob] \/ job' = job
    BY <2>1 DEF Ask
  <2> HIDE DEF j
  <2> QED
    BY <1>0, <2>8, <2>9
<1>26. CASE Reconcile(p)
  <2> DEFINE S == marker \cup {a \in Active : registry[a].removing}
             j == [NoJob EXCEPT !.why = "resume", !.todo = S]
  <2>1. S \in SUBSET Agent
    BY DEF TypeOK, Active
  <2>2. job' = [job EXCEPT ![p] = j]
    BY <1>26 DEF Reconcile
  <2> HIDE DEF S
  <2>3. j \in Job
    BY <2>1 DEF NoJob, Job, Modes
  <2> HIDE DEF j
  <2> QED
    BY <1>0, <2>2, <2>3
<1>27. CASE \E a \in Agent, force \in BOOLEAN : Stop(p, a, force)
  <2>1. PICK a \in Agent, force \in BOOLEAN : Stop(p, a, force)
    BY <1>27
  <2> DEFINE j == [NoJob EXCEPT !.agent = a]
  <2>8. j \in Job
    BY DEF NoJob, Job, Modes
  <2>9. job' = [job EXCEPT ![p] = j] \/ job' = [job EXCEPT ![p] = NoJob] \/ job' = job
    BY <2>1 DEF Stop, About
  <2> HIDE DEF j
  <2> QED
    BY <1>0, <2>8, <2>9
<1>28. CASE \E a \in Agent, force \in BOOLEAN : Clean(p, a, force)
  <2>1. PICK a \in Agent, force \in BOOLEAN : Clean(p, a, force)
    BY <1>28
  <2> DEFINE j == [NoJob EXCEPT !.agent = a]
  <2>8. j \in Job
    BY DEF NoJob, Job, Modes
  <2>9. job' = [job EXCEPT ![p] = j] \/ job' = [job EXCEPT ![p] = NoJob] \/ job' = job
    BY <2>1 DEF Clean, About
  <2> HIDE DEF j
  <2> QED
    BY <1>0, <2>8, <2>9
<1>29. CASE \E a \in Agent : Merge(p, a)
  <2>1. ASSUME NEW a \in Agent \cup {NoAgent}, MergeUnder(p, a)
        PROVE  job' \in [Proc -> Job]
    <3> DEFINE j == [NoJob EXCEPT !.why = job[p].why, !.agent = a, !.sha = clone[a].commits]
    <3>1. CASE a \in OnDisk
      <4>1. clone[a].commits \in Nat
        BY <3>1 DEF TypeOK, Clone, OnDisk
      <4>2. job[p].why \in {"asked", "queue", "cycle", "resume"}
        BY <1>0 DEF Job
      <4>3. j \in Job
        BY <4>1, <4>2 DEF NoJob, Job, Modes
      <4>4. job' = [job EXCEPT ![p] = j] \/ job' = [job EXCEPT ![p] = NoJob] \/ job' = job
        BY <2>1 DEF MergeUnder, Done
      <4> HIDE DEF j
      <4> QED
        BY <1>0, <4>3, <4>4
    <3>2. CASE a \notin OnDisk
      BY <1>0, <2>1, <3>2 DEF MergeUnder, Done
    <3> QED
      BY <3>1, <3>2
  <2> QED
    BY <1>29, <2>1 DEF Merge
<1>30. CASE Crash(p)
  BY <1>0, <1>30 DEF Crash, Done, Goto
<1>31. CASE \E s \in Starts : Start(p, s)
  <2>1. PICK s \in Starts : Start(p, s)
    BY <1>31
  <2> DEFINE m == IF s.like = NoAgent THEN "attended" ELSE "autonomous"
             j == [NoJob EXCEPT !.agent = s.agent, !.like = s.like, !.reuse = s.reuse,
                                !.force = s.force, !.mode = m]
  <2>8. j \in Job
    BY TaskAssumption DEF NoJob, Job, Modes
  <2>9. job' = [job EXCEPT ![p] = j]
    BY <2>1 DEF Start
  <2> HIDE DEF j
  <2> QED
    BY <1>0, <2>8, <2>9
<1> QED
  BY <1>1, <1>2, <1>3, <1>4, <1>5, <1>6, <1>7, <1>8, <1>9, <1>10, <1>11, <1>12, <1>13, <1>14,
     <1>15, <1>16, <1>17, <1>18, <1>19, <1>20, <1>21, <1>22, <1>23, <1>24, <1>25, <1>26, <1>27,
     <1>28, <1>29, <1>30, <1>31 DEF Step, Goes

\* A process that goes on with what it does is about the same agent.
LEMMA Subjects ==
  ASSUME TypeOK, NEW p \in Proc, Step(p)
  PROVE  /\ pc'[p] \in {"register", "dequeue", "publish", "flag", "unregister", "unmark", "spawn",
                        "announce", "session", "commit", "unpublish", "tip", "merge", "cleanup"} =>
              job'[p].agent = job[p].agent
         /\ pc'[p] \in {"register", "dequeue", "flag", "unregister", "unmark", "spawn", "announce",
                        "session", "commit"} => job'[p] = job[p]
<1>0. pc \in [Proc -> PCs] /\ job \in [Proc -> Job] /\ job[p] \in Job
  BY DEF TypeOK
<1>1. CASE RunLocked(p)
  BY <1>0, <1>1 DEF RunLocked, Done, Goto, Locks
<1>2. CASE Withdraw(p)
  BY <1>0, <1>2 DEF Withdraw, RemoveTask, Done, Goto
<1>3. CASE CreateClone(p)
  BY <1>0, <1>3 DEF CreateClone, NotStarted, Done, Goto
<1>4. CASE ReuseClone(p)
  BY <1>0, <1>4 DEF ReuseClone, NotStarted, Done, Goto
<1>5. CASE Register(p)
  BY <1>0, <1>5 DEF Register, NotStarted, Done, Goto, NoJob
<1>6. CASE Retry(p)
  BY <1>0, <1>6 DEF Retry, Done, Goto
<1>7. CASE Dequeue(p)
  BY <1>0, <1>7 DEF Dequeue, RemoveTask, Goto
<1>8. CASE StopRemove(p)
  BY <1>0, <1>8 DEF StopRemove, Passes, Goto
<1>9. CASE Mark(p)
  BY <1>0, <1>9 DEF Mark, Goto
<1>10. CASE Flag(p)
  BY <1>0, <1>10 DEF Flag, Goto
<1>11. CASE Rm(p)
  BY <1>0, <1>11 DEF Rm, Removed, Done, Goto
<1>12. CASE Unregister(p)
  BY <1>0, <1>12 DEF Unregister, Goto
<1>13. CASE Unmark(p)
  BY <1>0, <1>13 DEF Unmark, Removed, Done, Goto
<1>14. CASE Resume(p)
  BY <1>0, <1>14 DEF Resume, Passes, Goto
<1>15. CASE Sync(p)
  BY <1>0, <1>15 DEF Sync, Done, Goto
<1>16. CASE Publish(p)
  BY <1>0, <1>16 DEF Publish, SetSess, Done, Goto
<1>17. CASE Spawn(p)
  BY <1>0, <1>17 DEF Spawn, Goto
<1>18. CASE Announce(p)
  BY <1>0, <1>18 DEF Announce, SetSess, Goto
<1>19. CASE Conclude(p)
  BY <1>0, <1>19 DEF Conclude, Done, Goto
<1>20. CASE Commit(p)
  BY <1>0, <1>20 DEF Commit, Goto, Job
<1>21. CASE Unpublish(p)
  BY <1>0, <1>21 DEF Unpublish, SetSess, Done, Goto
<1>22. CASE Tip(p)
  BY <1>0, <1>22 DEF Tip, Done, Goto
<1>23. CASE CycleMerge(p)
  BY <1>0, <1>23 DEF CycleMerge, MergeUnder, Locks, Done, Goto, NoJob
<1>24. CASE Cleanup(p)
  BY <1>0, <1>24 DEF Cleanup, Locks, Done, Goto
<1>25. CASE \E r \in Requests : Ask(p, r)
  BY <1>0, <1>25 DEF Ask, Does, Goto
<1>26. CASE Reconcile(p)
  BY <1>0, <1>26 DEF Reconcile, Does, Locks, Goto
<1>27. CASE \E a \in Agent, force \in BOOLEAN : Stop(p, a, force)
  BY <1>0, <1>27 DEF Stop, Does, Locks, Goto, About, GiveUp
<1>28. CASE \E a \in Agent, force \in BOOLEAN : Clean(p, a, force)
  BY <1>0, <1>28 DEF Clean, Does, Locks, Goto, About, GiveUp
<1>29. CASE \E a \in Agent : Merge(p, a)
  BY <1>0, <1>29 DEF Merge, Does, MergeUnder, Locks, Done, Goto, NoJob
<1>30. CASE Crash(p)
  BY <1>0, <1>30 DEF Crash, Done, Goto
<1>31. CASE \E s \in Starts : Start(p, s)
  BY <1>0, <1>31 DEF Start, Does, Locks, Goto
<1> QED
  BY <1>1, <1>2, <1>3, <1>4, <1>5, <1>6, <1>7, <1>8, <1>9, <1>10, <1>11, <1>12, <1>13, <1>14,
     <1>15, <1>16, <1>17, <1>18, <1>19, <1>20, <1>21, <1>22, <1>23, <1>24, <1>25, <1>26, <1>27,
     <1>28, <1>29, <1>30, <1>31 DEF Step, Goes

LEMMA Ends ==
  ASSUME pc \in [Proc -> PCs], NEW p \in Proc, Step(p), pc'[p] = "idle"
  PROVE  Done(p)
<1>0. pc \in [Proc -> PCs] /\ pc'[p] = "idle"
  OBVIOUS
<1>1. CASE RunLocked(p)
  BY <1>0, <1>1 DEF RunLocked, Goto, Locks
<1>2. CASE Withdraw(p)
  BY <1>0, <1>2 DEF Withdraw, RemoveTask, Goto
<1>3. CASE CreateClone(p)
  BY <1>0, <1>3 DEF CreateClone, NotStarted, Goto
<1>4. CASE ReuseClone(p)
  BY <1>0, <1>4 DEF ReuseClone, NotStarted, Goto
<1>5. CASE Register(p)
  BY <1>0, <1>5 DEF Register, NotStarted, Goto
<1>6. CASE Retry(p)
  BY <1>0, <1>6 DEF Retry, Goto
<1>7. CASE Dequeue(p)
  BY <1>0, <1>7 DEF Dequeue, RemoveTask, Goto
<1>8. CASE StopRemove(p)
  BY <1>0, <1>8 DEF StopRemove, Passes, Goto
<1>9. CASE Mark(p)
  BY <1>0, <1>9 DEF Mark, Goto
<1>10. CASE Flag(p)
  BY <1>0, <1>10 DEF Flag, Goto
<1>11. CASE Rm(p)
  BY <1>0, <1>11 DEF Rm, Removed, Goto
<1>12. CASE Unregister(p)
  BY <1>0, <1>12 DEF Unregister, Goto
<1>13. CASE Unmark(p)
  BY <1>0, <1>13 DEF Unmark, Removed, Goto
<1>14. CASE Resume(p)
  BY <1>0, <1>14 DEF Resume, Passes, Goto
<1>15. CASE Sync(p)
  BY <1>0, <1>15 DEF Sync, Goto
<1>16. CASE Publish(p)
  BY <1>0, <1>16 DEF Publish, SetSess, Goto
<1>17. CASE Spawn(p)
  BY <1>0, <1>17 DEF Spawn, Goto
<1>18. CASE Announce(p)
  BY <1>0, <1>18 DEF Announce, SetSess, Goto
<1>19. CASE Conclude(p)
  BY <1>0, <1>19 DEF Conclude, Goto
<1>20. CASE Commit(p)
  BY <1>0, <1>20 DEF Commit, Goto
<1>21. CASE Unpublish(p)
  BY <1>0, <1>21 DEF Unpublish, SetSess, Goto
<1>22. CASE Tip(p)
  BY <1>0, <1>22 DEF Tip, Goto
<1>23. CASE CycleMerge(p)
  BY <1>0, <1>23 DEF CycleMerge, MergeUnder, Locks, Goto
<1>24. CASE Cleanup(p)
  BY <1>0, <1>24 DEF Cleanup, Locks, Goto
<1>25. CASE \E r \in Requests : Ask(p, r)
  BY <1>0, <1>25 DEF Ask, Does, Goto
<1>26. CASE Reconcile(p)
  BY <1>0, <1>26 DEF Reconcile, Does, Locks, Goto
<1>27. CASE \E a \in Agent, force \in BOOLEAN : Stop(p, a, force)
  BY <1>0, <1>27 DEF Stop, Does, Locks, Goto, About, GiveUp
<1>28. CASE \E a \in Agent, force \in BOOLEAN : Clean(p, a, force)
  BY <1>0, <1>28 DEF Clean, Does, Locks, Goto, About, GiveUp
<1>29. CASE \E a \in Agent : Merge(p, a)
  BY <1>0, <1>29 DEF Merge, Does, MergeUnder, Locks, Goto
<1>30. CASE Crash(p)
  BY <1>0, <1>30 DEF Crash, Goto
<1>31. CASE \E s \in Starts : Start(p, s)
  BY <1>0, <1>31 DEF Start, Does, Locks, Goto
<1> QED
  BY <1>1, <1>2, <1>3, <1>4, <1>5, <1>6, <1>7, <1>8, <1>9, <1>10, <1>11, <1>12, <1>13, <1>14,
     <1>15, <1>16, <1>17, <1>18, <1>19, <1>20, <1>21, <1>22, <1>23, <1>24, <1>25, <1>26, <1>27,
     <1>28, <1>29, <1>30, <1>31 DEF Step, Goes

LEMMA AgentStep ==
  ASSUME TypeOK, AgentInv, NEW p \in Proc, Step(p)
  PROVE  AgentInv'
<1>0. /\ pc \in [Proc -> PCs] /\ job \in [Proc -> Job] /\ job[p] \in Job
      /\ pc[p] = "idle" => job[p].why = "asked"
      /\ pc[p] \notin {"idle", "retry", "resume"} => job[p].agent \in Agent
  BY DEF TypeOK, AgentInv
<1>i. pc'[p] = "idle" => job'[p].why = "asked"
  BY Ends, <1>0 DEF Done, NoJob
<1>a. SUFFICES pc'[p] \notin {"idle", "retry", "resume"} => job'[p].agent \in Agent
  BY Others, <1>0, <1>i DEF AgentInv
<1>1. CASE RunLocked(p)
  BY <1>0, <1>1 DEF RunLocked, Done, Goto, Locks, NoJob
<1>2. CASE Withdraw(p)
  BY <1>0, <1>2 DEF Withdraw, RemoveTask, Done, Goto, NoJob
<1>3. CASE CreateClone(p)
  BY <1>0, <1>3 DEF CreateClone, NotStarted, Done, Goto, NoJob
<1>4. CASE ReuseClone(p)
  BY <1>0, <1>4 DEF ReuseClone, NotStarted, Done, Goto, NoJob
<1>5. CASE Register(p)
  BY <1>0, <1>5 DEF Register, NotStarted, Done, Goto, NoJob
<1>6. CASE Retry(p)
  <2>1. CASE pass[p] = <<>>
    BY <1>0, <2>1, <1>6 DEF Retry, Done, Goto
  <2>2. CASE pass[p] # <<>>
    <3>1. Head(pass[p]) \in Task
      BY <2>2 DEF TypeOK
    <3>2. Head(pass[p]).agent \in Agent
      BY <3>1 DEF Task
    <3>3. \/ job' = job /\ pc' = pc
          \/ job' = [job EXCEPT ![p] = [NoJob EXCEPT !.why = "queue", !.agent = Head(pass[p]).agent,
                                                     !.like = Head(pass[p]).agent,
                                                     !.reuse = Head(pass[p]).reuse]]
      BY <2>2, <1>6 DEF Retry
    <3> QED
      BY <1>0, <3>2, <3>3 DEF NoJob
  <2> QED
    BY <2>1, <2>2
<1>7. CASE Dequeue(p)
  BY <1>0, <1>7 DEF Dequeue, RemoveTask, Goto, NoJob
<1>8. CASE StopRemove(p)
  BY <1>0, <1>8 DEF StopRemove, Passes, Goto, NoJob
<1>9. CASE Mark(p)
  BY <1>0, <1>9 DEF Mark, Goto, NoJob
<1>10. CASE Flag(p)
  BY <1>0, <1>10 DEF Flag, Goto, NoJob
<1>11. CASE Rm(p)
  BY <1>0, <1>11 DEF Rm, Removed, Done, Goto, NoJob
<1>12. CASE Unregister(p)
  BY <1>0, <1>12 DEF Unregister, Goto, NoJob
<1>13. CASE Unmark(p)
  BY <1>0, <1>13 DEF Unmark, Removed, Done, Goto, NoJob
<1>14. CASE Resume(p)
  <2>1. job[p].todo \subseteq Agent
    BY <1>0 DEF Job
  <2>2. ASSUME NEW a \in job[p].todo, job' = [job EXCEPT ![p].todo = @ \ {a}, ![p].agent = a]
        PROVE  job'[p].agent \in Agent
    BY <1>0, <2>1, <2>2 DEF Job
  <2>3. \/ pc'[p] = "retry" \/ pc' = pc
        \/ \E a \in job[p].todo : job' = [job EXCEPT ![p].todo = @ \ {a}, ![p].agent = a]
    BY <1>0, <1>14 DEF Resume, Passes, Goto
  <2>4. pc[p] = "resume"
    BY <1>14 DEF Resume
  <2> QED
    BY <2>2, <2>3, <2>4
<1>15. CASE Sync(p)
  BY <1>0, <1>15 DEF Sync, Done, Goto, NoJob
<1>16. CASE Publish(p)
  BY <1>0, <1>16 DEF Publish, SetSess, Done, Goto, NoJob
<1>17. CASE Spawn(p)
  BY <1>0, <1>17 DEF Spawn, Goto, NoJob
<1>18. CASE Announce(p)
  BY <1>0, <1>18 DEF Announce, SetSess, Goto, NoJob
<1>19. CASE Conclude(p)
  BY <1>0, <1>19 DEF Conclude, Done, Goto, NoJob
<1>20. CASE Commit(p)
  BY <1>0, <1>20 DEF Commit, Goto, NoJob, Job
<1>21. CASE Unpublish(p)
  BY <1>0, <1>21 DEF Unpublish, SetSess, Done, Goto, NoJob
<1>22. CASE Tip(p)
  BY <1>0, <1>22 DEF Tip, Done, Goto, NoJob
<1>23. CASE CycleMerge(p)
  BY <1>0, <1>23 DEF CycleMerge, MergeUnder, Locks, Done, Goto, NoJob
<1>24. CASE Cleanup(p)
  BY <1>0, <1>24 DEF Cleanup, Locks, Done, Goto, NoJob
<1>25. CASE \E r \in Requests : Ask(p, r)
  <2>1. PICK r \in Requests : Ask(p, r)
    BY <1>25
  <2>2. r.agent \in Agent
    BY TaskAssumption
  <2> QED
    BY <1>0, <2>1, <2>2 DEF Ask, NoJob
<1>26. CASE Reconcile(p)
  BY <1>0, <1>26 DEF Reconcile, Does, Locks, Goto, NoJob
<1>27. CASE \E a \in Agent, force \in BOOLEAN : Stop(p, a, force)
  BY <1>0, <1>27 DEF Stop, Does, Locks, Goto, About, GiveUp, NoJob
<1>28. CASE \E a \in Agent, force \in BOOLEAN : Clean(p, a, force)
  BY <1>0, <1>28 DEF Clean, Does, Locks, Goto, About, GiveUp, NoJob
<1>29. CASE \E a \in Agent : Merge(p, a)
  <2>1. PICK a \in Agent : Merge(p, a)
    BY <1>29
  <2> QED
    BY <1>0, <2>1 DEF Merge, Does, MergeUnder, Locks, Done, Goto, NoJob
<1>30. CASE Crash(p)
  BY <1>0, <1>30 DEF Crash, Done, Goto, NoJob
<1>31. CASE \E s \in Starts : Start(p, s)
  <2>1. PICK s \in Starts : Start(p, s)
    BY <1>31
  <2>2. s.agent \in Agent
    BY TaskAssumption
  <2>3. job'[p].agent = s.agent
    BY <1>0, <2>1 DEF Start, NoJob
  <2> QED
    BY <2>2, <2>3
<1> QED
  BY <1>1, <1>2, <1>3, <1>4, <1>5, <1>6, <1>7, <1>8, <1>9, <1>10, <1>11, <1>12, <1>13, <1>14,
     <1>15, <1>16, <1>17, <1>18, <1>19, <1>20, <1>21, <1>22, <1>23, <1>24, <1>25, <1>26, <1>27,
     <1>28, <1>29, <1>30, <1>31 DEF Step, Goes

LEMMA SetTypes ==
  ASSUME TypeOK, AgentInv, NEW p \in Proc, Step(p)
  PROVE  marker' \subseteq Agent /\ live' \subseteq Agent /\ forsaken' \subseteq Agent
<1>0. /\ marker \subseteq Agent /\ live \subseteq Agent /\ forsaken \subseteq Agent
      /\ pc[p] \notin {"idle", "retry", "resume"} => job[p].agent \in Agent
  BY DEF TypeOK, AgentInv
<1>1. marker' \subseteq Agent
  BY <1>0, Writers DEF Writes, CreateClone, ReuseClone, Mark, Unmark
<1>2. live' \subseteq Agent
  BY <1>0, Writers DEF Writes, Spawn
<1>3. forsaken' \subseteq Agent
  BY <1>0, Writers DEF Writes, CreateClone, ReuseClone, Rm, Stop, Clean, GiveUp
<1> QED
  BY <1>1, <1>2, <1>3

LEMMA QueueTypes ==
  ASSUME TypeOK, AgentInv, NEW p \in Proc, Step(p)
  PROVE  queue' \in Seq(Task) /\ pass' \in [Proc -> Seq(Task)]
<1>0. queue \in Seq(Task) /\ pass \in [Proc -> Seq(Task)] /\ job[p] \in Job
  BY DEF TypeOK
<1>1. CASE RunLocked(p)
  <2>1. pc[p] = "routed" /\ job[p].agent \in Agent /\ job[p].after \in Agent \cup {NoAgent}
        /\ job[p].reuse \in BOOLEAN
    BY <1>0, <1>1 DEF RunLocked, AgentInv, Job
  <2> DEFINE t == [agent |-> job[p].agent, after |-> job[p].after, reuse |-> job[p].reuse, by |-> p]
  <2>2. t \in Task
    BY <2>1 DEF Task
  <2>3. (queue' = queue \/ queue' = Append(queue, t)) /\ pass' = pass
    BY <1>1 DEF RunLocked
  <2> HIDE DEF t
  <2>4. Append(queue, t) \in Seq(Task)
    BY <1>0, <2>2
  <2> QED
    BY <1>0, <2>3, <2>4
<1>2. ASSUME NEW S \in SUBSET DOMAIN queue, RemoveTask(S)
      PROVE  queue' \in Seq(Task)
  <2>1. CASE S = {}
    BY <1>0, <1>2, <2>1 DEF RemoveTask
  <2>2. CASE S # {}
    <3> DEFINE i == CHOOSE i \in S : TRUE
    <3>1. i \in S /\ queue' = RemoveAt(queue, i)
      BY <1>2, <2>2 DEF RemoveTask
    <3>2. i \in 1..Len(queue)
      BY <1>0, <3>1
    <3> QED
      BY <1>0, <3>1, <3>2, RemoveAtDef
  <2> QED
    BY <2>1, <2>2
<1>3. CASE Withdraw(p)
  BY <1>0, <1>2, <1>3 DEF Withdraw
<1>4. CASE Dequeue(p)
  BY <1>0, <1>2, <1>4 DEF Dequeue
<1>5. CASE Retry(p)
  <2>1. CASE pass[p] = <<>>
    BY <1>0, <1>5, <2>1 DEF Retry
  <2>2. CASE pass[p] # <<>>
    <3>1. pass' = [pass EXCEPT ![p] = Tail(pass[p])] /\ queue' = queue
      BY <1>5, <2>2 DEF Retry
    <3>2. Tail(pass[p]) \in Seq(Task)
      BY <1>0, <2>2
    <3> QED
      BY <1>0, <3>1, <3>2
  <2> QED
    BY <2>1, <2>2
<1>6. CASE StopRemove(p)
  BY <1>0, <1>6 DEF StopRemove, Passes
<1>7. CASE Resume(p)
  BY <1>0, <1>7 DEF Resume, Passes
<1>8. CASE Crash(p)
  BY <1>0, <1>8 DEF Crash
<1>9. CASE queue' = queue /\ pass' = pass
  BY <1>0, <1>9
<1>10. CASE CreateClone(p) \/ ReuseClone(p) \/ Register(p)
  <2>1. queue' = queue /\ (pass' = pass \/ pass' = [pass EXCEPT ![p] = <<>>])
    BY <1>10 DEF CreateClone, ReuseClone, Register, NotStarted
  <2>2. <<>> \in Seq(Task)
    OBVIOUS
  <2>3. ASSUME NEW none \in Seq(Task) PROVE [pass EXCEPT ![p] = none] \in [Proc -> Seq(Task)]
    BY <1>0
  <2> QED
    BY <1>0, <2>1, <2>2, <2>3
<1> QED
  BY <1>1, <1>3, <1>4, <1>5, <1>6, <1>7, <1>8, <1>9, <1>10, Writers
     DEF Writes, Withdraw, Dequeue

LEMMA CloneTypes ==
  ASSUME TypeOK, AgentInv, NEW p \in Proc, Step(p)
  PROVE  /\ DOMAIN clone' \subseteq Agent /\ \A a \in DOMAIN clone' : clone'[a] \in Clone
         /\ landed' \in [Agent -> Nat]
<1>0. /\ DOMAIN clone \subseteq Agent /\ \A a \in DOMAIN clone : clone[a] \in Clone
      /\ landed \in [Agent -> Nat] /\ pc \in [Proc -> PCs] /\ job \in [Proc -> Job]
      /\ pc[p] \notin {"idle", "retry", "resume"} => job[p].agent \in Agent
  BY DEF TypeOK, AgentInv
<1>1. [commits |-> 0, dirty |-> FALSE] \in Clone
  BY DEF Clone
<1>2. CASE CreateClone(p)
  <2>1. job[p].agent \in Agent
    BY <1>0, <1>2 DEF CreateClone
  <2> DEFINE c == [commits |-> 0, dirty |-> FALSE]
             f == With(clone, job[p].agent, c)
  <2>2. (clone' = f \/ clone' = clone) /\ (landed' = [landed EXCEPT ![job[p].agent] = 0] \/ landed' = landed)
    BY <1>2 DEF CreateClone
  <2>3. c \in Clone
    BY <1>1
  <2> HIDE DEF c
  <2>4. DOMAIN f \subseteq Agent /\ \A b \in DOMAIN f : f[b] \in Clone
    BY <1>0, <2>1, <2>3, WithTypes
  <2> HIDE DEF f
  <2> QED
    BY <1>0, <2>2, <2>4
<1>3. CASE ReuseClone(p)
  BY <1>0, <1>1, <1>3 DEF ReuseClone
<1>4. CASE Register(p)
  BY <1>0, <1>4, WithoutTypes DEF Register
<1>5. CASE Rm(p)
  <2>1. /\ clone' = clone \/ clone' = Without(clone, job[p].agent)
        /\ landed' = landed \/ landed' = [landed EXCEPT ![job[p].agent] = 0]
    BY <1>5 DEF Rm
  <2> DEFINE f == Without(clone, job[p].agent)
  <2>2. DOMAIN f \subseteq Agent /\ \A b \in DOMAIN f : f[b] \in Clone
    BY <1>0, WithoutTypes
  <2> HIDE DEF f
  <2>3. DOMAIN clone' \subseteq Agent /\ \A b \in DOMAIN clone' : clone'[b] \in Clone
    BY <1>0, <2>1, <2>2 DEF f
  <2>4. landed' \in [Agent -> Nat]
    BY <1>0, <2>1
  <2> QED
    BY <2>3, <2>4
<1>6. CASE Commit(p)
  <2> DEFINE a == job[p].agent
  <2>1. CASE clone' = clone
    BY <1>0, <1>6, <2>1 DEF Commit
  <2>2. CASE clone' # clone
    <3>1. /\ a \in DOMAIN clone /\ landed' = landed
          /\ clone' = [clone EXCEPT ![a] = [commits |-> clone[a].commits + 1, dirty |-> FALSE]]
      BY <1>6, <2>2 DEF Commit, OnDisk
    <3>2. clone[a].commits \in Nat
      BY <1>0, <3>1 DEF Clone
    <3>3. [commits |-> clone[a].commits + 1, dirty |-> FALSE] \in Clone
      BY <3>2 DEF Clone
    <3> QED
      BY <1>0, <3>1, <3>3
  <2> QED
    BY <2>1, <2>2
<1>7. ASSUME NEW a, MergeUnder(p, a)
      PROVE  landed' \in [Agent -> Nat]
  <2>1. a \in OnDisk => clone[a].commits \in Nat
    BY <1>0 DEF Clone, OnDisk
  <2> QED
    BY <1>0, <1>7, <2>1 DEF MergeUnder
<1>8. CASE CycleMerge(p)
  BY <1>0, <1>7, <1>8 DEF CycleMerge
<1>9. CASE \E a \in Agent : Merge(p, a)
  BY <1>0, <1>7, <1>9 DEF Merge
<1>10. CASE clone' = clone /\ landed' = landed
  BY <1>0, <1>10
<1> QED
  BY <1>2, <1>3, <1>4, <1>5, <1>6, <1>8, <1>9, <1>10, Writers DEF Writes

\* The prediction an agent is registered with.
Wanted(p) == IF job[p].like = NoAgent THEN {} ELSE Predicted[job[p].like]

LEMMA RegistryTypes ==
  ASSUME TypeOK, AgentInv, NEW p \in Proc, Step(p)
  PROVE  DOMAIN registry' \subseteq Agent /\ \A a \in DOMAIN registry' : registry'[a] \in Entry
<1>0. /\ DOMAIN registry \subseteq Agent /\ \A a \in DOMAIN registry : registry[a] \in Entry
      /\ pc \in [Proc -> PCs] /\ job \in [Proc -> Job] /\ job[p] \in Job
      /\ pc[p] \notin {"idle", "retry", "resume"} => job[p].agent \in Agent
  BY DEF TypeOK, AgentInv
<1>1. CASE Register(p)
  <2> DEFINE a == job[p].agent
             e == [mode |-> job[p].mode, files |-> Wanted(p), merged |-> 0, sess |-> NoPid,
                   failed |-> FALSE, removing |-> FALSE]
  <2>1. a \in Agent /\ job[p].mode \in Modes /\ job[p].like \in Agent \cup {NoAgent}
    BY <1>0, <1>1 DEF Register, Job
  <2>f. Wanted(p) \in SUBSET Files
    BY <2>1 DEF Wanted, Files
  <2>2. e \in Entry
    BY <2>1, <2>f DEF Entry, Pid
  <2> DEFINE f == With(registry, a, e)
  <2>3. registry' = f \/ registry' = registry
    BY <1>1 DEF Register, Wanted
  <2> HIDE DEF e
  <2>4. DOMAIN f \subseteq Agent /\ \A b \in DOMAIN f : f[b] \in Entry
    BY <1>0, <2>1, <2>2, WithTypes
  <2> HIDE DEF f
  <2> QED
    BY <1>0, <2>3, <2>4
<1>2. CASE StopRemove(p)
  BY <1>0, <1>2, WithoutTypes DEF StopRemove
<1>3. CASE Flag(p)
  BY <1>0, <1>3 DEF Flag, Entry, Active
<1>4. CASE Unregister(p)
  <2> DEFINE f == Without(registry, job[p].agent)
  <2>1. DOMAIN f \subseteq Agent /\ \A b \in DOMAIN f : f[b] \in Entry
    BY <1>0, WithoutTypes
  <2>2. registry' = f \/ registry' = registry
    BY <1>4 DEF Unregister
  <2> HIDE DEF f
  <2> QED
    BY <1>0, <2>1, <2>2
<1>5. CASE Reconcile(p)
  BY <1>0, <1>5 DEF Reconcile, Entry, Active, Pid
<1>6. CASE Sync(p)
  BY <1>0, <1>6 DEF Sync, Entry, Active, Job
<1>7. CASE Publish(p)
  BY <1>0, <1>7 DEF Publish, SetSess, Entry, Pid
<1>8. CASE Announce(p)
  BY <1>0, <1>8 DEF Announce, SetSess, Entry, Pid
<1>9. CASE Conclude(p)
  BY <1>0, <1>9 DEF Conclude, Entry, Active, Pid
<1>10. CASE Unpublish(p)
  BY <1>0, <1>10 DEF Unpublish, SetSess, Entry, Pid
<1>11. CASE Crash(p)
  BY <1>0, <1>11 DEF Crash, Entry, Active, Pid
<1>12. CASE registry' = registry
  BY <1>0, <1>12
<1> QED
  BY <1>1, <1>2, <1>3, <1>4, <1>5, <1>6, <1>7, <1>8, <1>9, <1>10, <1>11, <1>12, Writers DEF Writes

LEMMA OverTypes ==
  ASSUME TypeOK, NEW p \in Proc, Step(p)
  PROVE  over' \in [Agent -> SUBSET Agent]
<1>0. over \in [Agent -> SUBSET Agent] /\ Active \subseteq Agent
  BY DEF TypeOK, Active
<1>1. CASE Register(p)
  BY <1>0, <1>1 DEF Register
<1>2. CASE over' = over
  BY <1>0, <1>2
<1> QED
  BY <1>1, <1>2, Writers DEF Writes

LEMMA TypeInit == Init => TypeOK /\ AgentInv
<1> SUFFICES ASSUME Init PROVE TypeOK /\ AgentInv
  OBVIOUS
<1>1. lock \in Proc \cup {Nobody} /\ landed \in [Agent -> Nat] /\ crashes \in 0..MaxCrashes
  BY TaskAssumption DEF Init
<1>2. /\ DOMAIN registry = {} /\ DOMAIN clone = {} /\ marker = {} /\ live = {} /\ forsaken = {}
      /\ over \in [Agent -> SUBSET Agent]
  BY DEF Init
<1>3. queue \in Seq(Task) /\ pass \in [Proc -> Seq(Task)]
  BY DEF Init
<1>4. pc \in [Proc -> PCs] /\ job \in [Proc -> Job] /\ AgentInv
  BY NoJobType DEF Init, PCs, AgentInv, NoJob
<1> QED
  BY <1>1, <1>2, <1>3, <1>4 DEF TypeOK

LEMMA TypeStep ==
  ASSUME TypeOK, AgentInv, [Next]_vars
  PROVE  TypeOK' /\ AgentInv'
<1>1. ASSUME NEW p \in Proc, Step(p) PROVE TypeOK' /\ AgentInv'
  <2>1. lock' \in Proc \cup {Nobody} /\ pc' \in [Proc -> PCs] /\ crashes' \in 0..MaxCrashes
    BY <1>1, ControlTypes DEF TypeOK
  <2>2. job' \in [Proc -> Job]
    BY <1>1, JobTypes
  <2>3. AgentInv'
    BY <1>1, AgentStep
  <2>4. marker' \subseteq Agent /\ live' \subseteq Agent /\ forsaken' \subseteq Agent
    BY <1>1, SetTypes
  <2>5. queue' \in Seq(Task) /\ pass' \in [Proc -> Seq(Task)]
    BY <1>1, QueueTypes
  <2>6. /\ DOMAIN clone' \subseteq Agent /\ \A a \in DOMAIN clone' : clone'[a] \in Clone
        /\ landed' \in [Agent -> Nat]
    BY <1>1, CloneTypes
  <2>7. DOMAIN registry' \subseteq Agent /\ \A a \in DOMAIN registry' : registry'[a] \in Entry
    BY <1>1, RegistryTypes
  <2>8. over' \in [Agent -> SUBSET Agent]
    BY <1>1, OverTypes
  <2> QED
    BY <2>1, <2>2, <2>3, <2>4, <2>5, <2>6, <2>7, <2>8 DEF TypeOK
<1>2. ASSUME NEW a \in Agent, SessionEnds(a) PROVE TypeOK' /\ AgentInv'
  BY <1>2 DEF SessionEnds, TypeOK, AgentInv
<1>3. ASSUME NEW a \in Agent, Work(a) PROVE TypeOK' /\ AgentInv'
  <2>1. DOMAIN clone' = DOMAIN clone /\ \A b \in DOMAIN clone : clone'[b] \in Clone
    <3>1. a \in DOMAIN clone /\ clone[a] \in Clone /\ \A b \in DOMAIN clone : clone[b] \in Clone
      BY <1>3 DEF Work, TypeOK, OnDisk
    <3>2. [commits |-> clone[a].commits + 1, dirty |-> FALSE] \in Clone
      BY <3>1 DEF Clone
    <3>3. \/ clone' = [clone EXCEPT ![a] = [commits |-> clone[a].commits + 1, dirty |-> FALSE]]
          \/ clone' = [clone EXCEPT ![a].dirty = TRUE]
      BY <1>3 DEF Work
    <3>4. CASE clone' = [clone EXCEPT ![a] = [commits |-> clone[a].commits + 1, dirty |-> FALSE]]
      BY <3>1, <3>2, <3>4
    <3>5. CASE clone' = [clone EXCEPT ![a].dirty = TRUE]
      BY <3>1, <3>5 DEF Clone
    <3> QED
      BY <3>3, <3>4, <3>5
  <2> QED
    BY <1>3, <2>1 DEF Work, TypeOK, AgentInv
<1>4. ASSUME UNCHANGED vars PROVE TypeOK' /\ AgentInv'
  BY <1>4 DEF vars, TypeOK, AgentInv
<1> QED
  BY <1>1, <1>2, <1>3, <1>4, StepCases

\* Every value stays in its type, whatever the windows and the crashes.
THEOREM TaskTypes == Spec => []TypeOK
<1>1. Init => TypeOK /\ AgentInv
  BY TypeInit
<1>2. (TypeOK /\ AgentInv) /\ [Next]_vars => (TypeOK /\ AgentInv)'
  BY TypeStep
<1> QED
  BY <1>1, <1>2, PTL DEF Spec

-----------------------------------------------------------------------------
(* What a step does to one entry, one clone. *)

\* The last words of each disjunct: the action that does it, on the agent it is about.
Entered(a, e) ==
  ~e.removing /\ ~e.failed /\ e.merged = 0 /\ e.sess = NoPid

SessStep(p, a) ==
  \/ registry'[a].sess = registry[a].sess
  \/ registry'[a].sess = p /\ a = job[p].agent /\ (Publish(p) \/ Conclude(p))
  \/ registry'[a].sess = AgentPid /\ a = job[p].agent /\ Announce(p)
  \/ registry'[a].sess = NoPid /\ a = job[p].agent /\ (Conclude(p) \/ Unpublish(p))
  \/ registry'[a].sess = NoPid /\ ~Alive(a) /\ Reconcile(p)
  \/ registry'[a].sess = DeadPid /\ registry[a].sess = p /\ Crash(p)

EntryStep(p) ==
  /\ \A a \in DOMAIN registry' \ DOMAIN registry :
       /\ Register(p) /\ a = job[p].agent
       /\ Entered(a, registry'[a]) /\ registry'[a].files = Wanted(p)
  /\ \A a \in DOMAIN registry \ DOMAIN registry' :
       (StopRemove(p) \/ Unregister(p)) /\ a = job[p].agent
  /\ \A a \in DOMAIN registry \cap DOMAIN registry' :
       /\ registry'[a].files = registry[a].files
       /\ \/ registry'[a].removing = registry[a].removing
          \/ registry'[a].removing /\ a = job[p].agent /\ Flag(p)
       /\ \/ registry'[a].merged = registry[a].merged
          \/ registry'[a].merged = job[p].sha /\ a = job[p].agent /\ Sync(p)
       /\ \/ registry'[a].failed = registry[a].failed
          \/ a = job[p].agent /\ Conclude(p)
       /\ SessStep(p, a)

LEMMA EntrySteps ==
  ASSUME TypeOK, StartInv, NEW p \in Proc, Step(p)
  PROVE  EntryStep(p)
<1>0. \A a \in DOMAIN registry : registry[a] \in Entry
  BY DEF TypeOK
<1>1. CASE Register(p)
  <2> DEFINE a == job[p].agent
             e == [mode |-> job[p].mode, files |-> Wanted(p), merged |-> 0, sess |-> NoPid,
                   failed |-> FALSE, removing |-> FALSE]
             f == With(registry, a, e)
  <2>1. a \notin DOMAIN registry
    BY <1>1 DEF Register, StartInv, Active
  <2>2. registry' = f \/ registry' = registry
    BY <1>1 DEF Register, Wanted
  <2>3. Entered(a, e) /\ e.files = Wanted(p)
    BY DEF Entered
  <2> HIDE DEF e
  <2>4. DOMAIN f = DOMAIN registry \cup {a} /\ f[a] = e /\ \A b \in DOMAIN registry \ {a} : f[b] = registry[b]
    <3> HIDE DEF a
    <3> QED
      BY DEF With
  <2> HIDE DEF f
  <2> QED
    BY <1>1, <2>1, <2>2, <2>3, <2>4 DEF EntryStep, SessStep
<1>2. CASE StopRemove(p)
  <2> DEFINE f == Without(registry, job[p].agent)
  <2>1. registry' = f
    BY <1>2 DEF StopRemove
  <2>2. /\ DOMAIN f = DOMAIN registry \ {job[p].agent}
        /\ \A b \in DOMAIN registry \ {job[p].agent} : f[b] = registry[b]
    BY WithoutDef
  <2> HIDE DEF f
  <2> QED
    BY <1>2, <2>1, <2>2 DEF EntryStep, SessStep
<1>3. CASE Flag(p)
  <2>1. /\ DOMAIN registry' = DOMAIN registry
        /\ \A a \in DOMAIN registry :
             IF a = job[p].agent THEN registry'[a] = [registry[a] EXCEPT !.removing = TRUE]
             ELSE registry'[a] = registry[a]
    BY <1>3 DEF Flag, Active
  <2>2. \A a \in DOMAIN registry :
          /\ registry'[a].files = registry[a].files
          /\ registry'[a].merged = registry[a].merged /\ registry'[a].failed = registry[a].failed
          /\ registry'[a].sess = registry[a].sess
          /\ registry'[a].removing = registry[a].removing \/ (registry'[a].removing /\ a = job[p].agent)
    BY <1>0, <2>1 DEF Entry
  <2> QED
    BY <1>3, <2>1, <2>2 DEF EntryStep, SessStep
<1>4. CASE Unregister(p)
  <2> DEFINE f == Without(registry, job[p].agent)
  <2>1. registry' = f \/ registry' = registry
    BY <1>4 DEF Unregister
  <2>2. /\ DOMAIN f = DOMAIN registry \ {job[p].agent}
        /\ \A b \in DOMAIN registry \ {job[p].agent} : f[b] = registry[b]
    BY WithoutDef
  <2> HIDE DEF f
  <2> QED
    BY <1>4, <2>1, <2>2 DEF EntryStep, SessStep
<1>5. CASE Reconcile(p)
  <2>1. /\ DOMAIN registry' = DOMAIN registry
        /\ \A a \in DOMAIN registry : \/ registry'[a] = registry[a]
                                      \/ ~Alive(a) /\ registry'[a] = [registry[a] EXCEPT !.sess = NoPid]
    BY <1>5 DEF Reconcile, Active
  <2>2. \A a \in DOMAIN registry :
          /\ registry'[a].files = registry[a].files
          /\ registry'[a].merged = registry[a].merged /\ registry'[a].failed = registry[a].failed
          /\ registry'[a].removing = registry[a].removing
          /\ registry'[a].sess = registry[a].sess \/ (~Alive(a) /\ registry'[a].sess = NoPid)
    BY <1>0, <2>1 DEF Entry
  <2> QED
    BY <1>5, <2>1, <2>2 DEF EntryStep, SessStep
<1>6. CASE Sync(p)
  <2>1. /\ DOMAIN registry' = DOMAIN registry
        /\ \A a \in DOMAIN registry :
             \/ registry'[a] = registry[a]
             \/ a = job[p].agent /\ registry'[a] = [registry[a] EXCEPT !.merged = job[p].sha]
    BY <1>6 DEF Sync, Active
  <2>2. \A a \in DOMAIN registry :
          /\ registry'[a].files = registry[a].files
          /\ registry'[a].removing = registry[a].removing /\ registry'[a].failed = registry[a].failed
          /\ registry'[a].sess = registry[a].sess
          /\ \/ registry'[a].merged = registry[a].merged
             \/ registry'[a].merged = job[p].sha /\ a = job[p].agent
    BY <1>0, <2>1 DEF Entry
  <2> QED
    BY <1>6, <2>1, <2>2 DEF EntryStep, SessStep
<1>7. ASSUME NEW s, registry' = registry \/ SetSess(job[p].agent, s)
      PROVE  /\ DOMAIN registry' = DOMAIN registry
             /\ \A a \in DOMAIN registry :
                  /\ registry'[a].files = registry[a].files
                  /\ registry'[a].removing = registry[a].removing
                  /\ registry'[a].failed = registry[a].failed
                  /\ registry'[a].merged = registry[a].merged
                  /\ \/ registry'[a].sess = registry[a].sess
                     \/ registry'[a].sess = s /\ a = job[p].agent
  <2>1. /\ DOMAIN registry' = DOMAIN registry
        /\ \A a \in DOMAIN registry :
             \/ registry'[a] = registry[a]
             \/ a = job[p].agent /\ registry'[a] = [registry[a] EXCEPT !.sess = s]
    BY <1>7 DEF SetSess
  <2> QED
    BY <1>0, <2>1 DEF Entry
<1>8. CASE Publish(p)
  <2>1. registry' = registry \/ SetSess(job[p].agent, p)
    BY <1>8 DEF Publish
  <2> QED
    BY <1>7, <1>8, <2>1 DEF EntryStep, SessStep
<1>9. CASE Announce(p)
  <2>1. registry' = registry \/ SetSess(job[p].agent, AgentPid)
    BY <1>9 DEF Announce
  <2> QED
    BY <1>7, <1>9, <2>1 DEF EntryStep, SessStep
<1>10. CASE Conclude(p)
  <2> DEFINE race == job[p].like # job[p].agent
             kept == race /\ registry[job[p].agent].failed
             none == ~(job[p].agent \in OnDisk => clone[job[p].agent].commits > 0)
  <2>0. kept \in BOOLEAN /\ none \in BOOLEAN
    OBVIOUS
  <2>1. PICK s \in {p, NoPid}, failed \in BOOLEAN :
          \/ registry' = registry
          \/ registry' = [registry EXCEPT ![job[p].agent].sess = s, ![job[p].agent].failed = failed]
    <3>1. \/ registry' = registry
          \/ registry' = [registry EXCEPT ![job[p].agent].sess = p, ![job[p].agent].failed = kept]
          \/ \E failed \in {FALSE, none} :
                registry' = [registry EXCEPT ![job[p].agent].sess = NoPid, ![job[p].agent].failed = failed]
      BY <1>10 DEF Conclude
    <3> HIDE DEF kept, none
    <3> QED
      BY <2>0, <3>1
  <2>2. DOMAIN registry' = DOMAIN registry
    BY <2>1
  <2>3. \A a \in DOMAIN registry :
          /\ registry'[a].files = registry[a].files
          /\ registry'[a].merged = registry[a].merged /\ registry'[a].removing = registry[a].removing
          /\ registry'[a].failed = registry[a].failed \/ a = job[p].agent
          /\ registry'[a].sess = registry[a].sess \/ (a = job[p].agent /\ registry'[a].sess = s)
    BY <1>0, <2>1 DEF Entry
  <2> QED
    BY <1>10, <2>2, <2>3 DEF EntryStep, SessStep
<1>11. CASE Unpublish(p)
  <2>1. registry' = registry \/ SetSess(job[p].agent, NoPid)
    BY <1>11 DEF Unpublish
  <2> QED
    BY <1>7, <1>11, <2>1 DEF EntryStep, SessStep
<1>12. CASE Crash(p)
  <2>1. /\ DOMAIN registry' = DOMAIN registry
        /\ \A a \in DOMAIN registry :
             \/ registry'[a] = registry[a]
             \/ registry[a].sess = p /\ registry'[a] = [registry[a] EXCEPT !.sess = DeadPid]
    BY <1>12 DEF Crash, Active
  <2>2. \A a \in DOMAIN registry :
          /\ registry'[a].files = registry[a].files
          /\ registry'[a].merged = registry[a].merged /\ registry'[a].failed = registry[a].failed
          /\ registry'[a].removing = registry[a].removing
          /\ \/ registry'[a].sess = registry[a].sess
             \/ registry[a].sess = p /\ registry'[a].sess = DeadPid
    BY <1>0, <2>1 DEF Entry
  <2> QED
    BY <1>12, <2>1, <2>2 DEF EntryStep, SessStep
<1>13. CASE registry' = registry
  BY <1>13 DEF EntryStep, SessStep
<1> QED
  BY <1>1, <1>2, <1>3, <1>4, <1>5, <1>6, <1>8, <1>9, <1>10, <1>11, <1>12, <1>13, Writers
     DEF Writes

\* The clone of an agent that is not there, made anew.
Fresh(p) ==
  LET a == job[p].agent
  IN  /\ CreateClone(p) \/ ReuseClone(p)
      /\ pc'[p] = "register"
      /\ a \notin DOMAIN registry /\ registry' = registry
      /\ a \in DOMAIN clone' /\ clone'[a].commits = 0 /\ ~clone'[a].dirty /\ landed'[a] = 0

CloneStep(p) ==
  /\ \A a \in DOMAIN clone' \ DOMAIN clone : a = job[p].agent /\ Fresh(p)
  /\ \A a \in DOMAIN clone \ DOMAIN clone' : a = job[p].agent /\ (Register(p) \/ Rm(p))
  /\ \A a \in DOMAIN clone \cap DOMAIN clone' :
       \/ clone'[a] = clone[a]
       \/ a = job[p].agent /\ Fresh(p)
       \/ /\ a = job[p].agent /\ Commit(p)
          /\ clone'[a].commits > clone[a].commits /\ ~clone'[a].dirty

LandedStep(p) ==
  \A a \in Agent :
    \/ landed'[a] = landed[a]
    \/ landed'[a] = 0 /\ a = job[p].agent /\ Fresh(p)
    \/ landed'[a] = 0 /\ a = job[p].agent /\ Rm(p) /\ a \notin DOMAIN clone'
    \/ /\ landed'[a] = clone[a].commits /\ a \in DOMAIN clone
       /\ lock = Nobody /\ clone' = clone /\ registry' = registry

SetStep(p) ==
  /\ \A a \in marker' \ marker : a = job[p].agent /\ Mark(p)
  /\ \A a \in marker \ marker' : a = job[p].agent /\ (Fresh(p) \/ Unmark(p))
  /\ live \subseteq live' /\ \A a \in live' \ live : a = job[p].agent /\ Spawn(p)
  /\ \A a \in forsaken \ forsaken' :
       a = job[p].agent /\ (Fresh(p) \/ (Rm(p) /\ a \notin DOMAIN clone'))

LEMMA FreshSteps ==
  ASSUME TypeOK, AgentInv, NEW p \in Proc, CreateClone(p) \/ ReuseClone(p)
  PROVE  \/ /\ Fresh(p)
            /\ \A b \in DOMAIN clone \cup DOMAIN clone' : b # job[p].agent =>
                 b \in DOMAIN clone /\ b \in DOMAIN clone' /\ clone'[b] = clone[b]
            /\ landed' = [landed EXCEPT ![job[p].agent] = 0]
            /\ marker' = marker \ {job[p].agent} /\ forsaken' = forsaken \ {job[p].agent}
         \/ /\ clone' = clone /\ landed' = landed /\ marker' = marker /\ forsaken' = forsaken
            /\ pc'[p] # "register"
<1> DEFINE a == job[p].agent
           c == [commits |-> 0, dirty |-> FALSE]
<1>0. landed \in [Agent -> Nat] /\ a \in Agent /\ pc \in [Proc -> PCs] /\ job \in [Proc -> Job]
  BY DEF TypeOK, AgentInv, CreateClone, ReuseClone
<1>1. \/ /\ clone' = clone /\ landed' = landed /\ marker' = marker /\ forsaken' = forsaken
         /\ pc'[p] # "register"
      \/ /\ pc'[p] = "register" /\ a \notin DOMAIN registry /\ registry' = registry
         /\ clone' = With(clone, a, c) \/ (a \in DOMAIN clone /\ clone' = [clone EXCEPT ![a] = c])
         /\ landed' = [landed EXCEPT ![a] = 0]
         /\ marker' = marker \ {a} /\ forsaken' = forsaken \ {a}
  BY <1>0 DEF CreateClone, ReuseClone, Active, OnDisk, NotStarted, Done, Goto
<1>2. c.commits = 0 /\ ~c.dirty
  OBVIOUS
<1> HIDE DEF c
<1>3. ASSUME clone' = With(clone, a, c) \/ (a \in DOMAIN clone /\ clone' = [clone EXCEPT ![a] = c])
      PROVE  /\ a \in DOMAIN clone' /\ clone'[a] = c
             /\ \A b \in DOMAIN clone \cup DOMAIN clone' : b # a =>
                  b \in DOMAIN clone /\ b \in DOMAIN clone' /\ clone'[b] = clone[b]
  BY <1>3 DEF With
<1> QED
  BY <1>0, <1>1, <1>2, <1>3 DEF Fresh

LEMMA CloneSteps ==
  ASSUME TypeOK, AgentInv, NEW p \in Proc, Step(p)
  PROVE  CloneStep(p)
<1>0. /\ \A a \in DOMAIN clone : clone[a] \in Clone
      /\ landed \in [Agent -> Nat]
      /\ pc[p] \notin {"idle", "retry", "resume"} => job[p].agent \in Agent
  BY DEF TypeOK, AgentInv
<1>1. CASE CreateClone(p) \/ ReuseClone(p)
  <2>1. CASE clone' = clone
    BY <2>1 DEF CloneStep
  <2>2. CASE /\ Fresh(p)
             /\ \A b \in DOMAIN clone \cup DOMAIN clone' : b # job[p].agent =>
                  b \in DOMAIN clone /\ b \in DOMAIN clone' /\ clone'[b] = clone[b]
    BY <2>2 DEF CloneStep, Fresh
  <2> QED
    BY <1>1, <2>1, <2>2, FreshSteps
<1>2. CASE Register(p) \/ Rm(p)
  <2> DEFINE f == Without(clone, job[p].agent)
  <2>1. clone' = f \/ clone' = clone
    BY <1>2 DEF Register, Rm
  <2>2. /\ DOMAIN f = DOMAIN clone \ {job[p].agent}
        /\ \A b \in DOMAIN clone \ {job[p].agent} : f[b] = clone[b]
    BY WithoutDef
  <2> HIDE DEF f
  <2> QED
    BY <1>2, <2>1, <2>2 DEF CloneStep
<1>3. CASE Commit(p)
  <2> DEFINE a == job[p].agent
  <2>1. CASE clone' = clone
    BY <2>1 DEF CloneStep
  <2>2. CASE clone' # clone
    <3>1. /\ a \in DOMAIN clone
          /\ clone' = [clone EXCEPT ![a] = [commits |-> clone[a].commits + 1, dirty |-> FALSE]]
      BY <1>3, <2>2 DEF Commit, OnDisk
    <3>2. clone[a].commits \in Nat
      BY <1>0, <3>1 DEF Clone
    <3>3. /\ DOMAIN clone' = DOMAIN clone /\ clone'[a].commits > clone[a].commits /\ ~clone'[a].dirty
          /\ \A b \in DOMAIN clone : b # a => clone'[b] = clone[b]
      BY <3>1, <3>2
    <3> QED
      BY <1>3, <3>3 DEF CloneStep
  <2> QED
    BY <2>1, <2>2
<1>4. CASE clone' = clone
  BY <1>4 DEF CloneStep
<1> QED
  BY <1>1, <1>2, <1>3, <1>4, Writers DEF Writes

LEMMA LandedSteps ==
  ASSUME TypeOK, AgentInv, NEW p \in Proc, Step(p)
  PROVE  LandedStep(p)
<1>0. landed \in [Agent -> Nat]
  BY DEF TypeOK
<1>1. CASE CreateClone(p) \/ ReuseClone(p)
  BY <1>0, <1>1, FreshSteps DEF LandedStep
<1>2. CASE Rm(p)
  <2>1. CASE landed' = landed
    BY <2>1 DEF LandedStep
  <2>2. CASE landed' # landed
    <3>1. landed' = [landed EXCEPT ![job[p].agent] = 0] /\ clone' = Without(clone, job[p].agent)
      BY <1>2, <2>2 DEF Rm
    <3>2. job[p].agent \notin DOMAIN clone'
      BY <3>1 DEF Without
    <3> QED
      BY <1>0, <1>2, <3>1, <3>2 DEF LandedStep
  <2> QED
    BY <2>1, <2>2
<1>3. ASSUME NEW b, MergeUnder(p, b), lock = Nobody, clone' = clone, registry' = registry
      PROVE  LandedStep(p)
  <2>1. landed' = landed \/ (b \in DOMAIN clone /\ landed' = [landed EXCEPT ![b] = clone[b].commits])
    BY <1>3 DEF MergeUnder, OnDisk
  <2> QED
    BY <1>0, <1>3, <2>1 DEF LandedStep
<1>4. CASE CycleMerge(p)
  BY <1>3, <1>4 DEF CycleMerge
<1>5. CASE \E a \in Agent : Merge(p, a)
  BY <1>3, <1>5 DEF Merge
<1>6. CASE landed' = landed
  BY <1>6 DEF LandedStep
<1> QED
  BY <1>1, <1>2, <1>4, <1>5, <1>6, Writers DEF Writes

LEMMA SetSteps ==
  ASSUME TypeOK, AgentInv, NEW p \in Proc, Step(p)
  PROVE  SetStep(p)
<1> DEFINE a == job[p].agent
           M == marker' = marker /\ live' = live /\ forsaken \subseteq forsaken'
<1>1. CASE CreateClone(p) \/ ReuseClone(p)
  <2>1. live' = live
    BY <1>1 DEF CreateClone, ReuseClone
  <2> QED
    BY <1>1, <2>1, FreshSteps DEF SetStep
<1>2. CASE Rm(p)
  <2>1. /\ marker' = marker /\ live' = live
        /\ \/ forsaken' = forsaken \ {a} /\ clone' = Without(clone, a)
           \/ forsaken' = forsaken
    BY <1>2 DEF Rm
  <2>2. a \notin DOMAIN Without(clone, a)
    BY DEF Without
  <2> QED
    BY <1>2, <2>1, <2>2 DEF SetStep
<1>3. CASE Mark(p)
  <2>1. marker' = marker \cup {a} /\ live' = live /\ forsaken' = forsaken
    BY <1>3 DEF Mark
  <2> QED
    BY <1>3, <2>1 DEF SetStep
<1>4. CASE Unmark(p)
  <2>1. marker' = marker \ {a} /\ live' = live /\ forsaken' = forsaken
    BY <1>4 DEF Unmark
  <2> QED
    BY <1>4, <2>1 DEF SetStep
<1>5. CASE Spawn(p)
  <2>1. marker' = marker /\ live' = live \cup {a} /\ forsaken' = forsaken
    BY <1>5 DEF Spawn
  <2> QED
    BY <1>5, <2>1 DEF SetStep
<1>6. CASE \E b \in Agent, force \in BOOLEAN : Stop(p, b, force) \/ Clean(p, b, force)
  <2>1. M
    BY <1>6 DEF Stop, Clean, GiveUp
  <2> QED
    BY <2>1 DEF SetStep
<1>7. CASE M
  BY <1>7 DEF SetStep
<1> QED
  BY <1>1, <1>2, <1>3, <1>4, <1>5, <1>6, <1>7, Writers DEF Writes

-----------------------------------------------------------------------------
(* The lock, and what was asked for. *)

LEMMA LockStep ==
  ASSUME TypeOK, LockInv, NEW p \in Proc, Step(p)
  PROVE  LockInv'
<1>0. /\ pc \in [Proc -> PCs] /\ job \in [Proc -> Job] /\ Nobody \notin Proc
      /\ pc[p] \in LockedPCs => lock = p
  BY TaskAssumption DEF TypeOK, LockInv
<1> DEFINE Kept == /\ pc'[p] \in LockedPCs => lock' = p
                   /\ lock' # lock => lock \in {p, Nobody}
<1>a. ASSUME Kept PROVE LockInv'
  BY <1>0, <1>a, Others DEF LockInv
<1>b. SUFFICES Kept
  BY <1>a
<1>1. CASE RunLocked(p)
  BY <1>0, <1>1 DEF RunLocked, Done, Goto, Locks, LockedPCs
<1>2. CASE Withdraw(p)
  BY <1>0, <1>2 DEF Withdraw, RemoveTask, Done, Goto, LockedPCs
<1>3. CASE CreateClone(p)
  BY <1>0, <1>3 DEF CreateClone, NotStarted, Done, Goto, LockedPCs
<1>4. CASE ReuseClone(p)
  BY <1>0, <1>4 DEF ReuseClone, NotStarted, Done, Goto, LockedPCs
<1>5. CASE Register(p)
  BY <1>0, <1>5 DEF Register, NotStarted, Done, Goto, LockedPCs
<1>6. CASE Retry(p)
  BY <1>0, <1>6 DEF Retry, Done, Goto, LockedPCs
<1>7. CASE Dequeue(p)
  BY <1>0, <1>7 DEF Dequeue, RemoveTask, Goto, LockedPCs
<1>8. CASE StopRemove(p)
  BY <1>0, <1>8 DEF StopRemove, Passes, Goto, LockedPCs
<1>9. CASE Mark(p)
  BY <1>0, <1>9 DEF Mark, Goto, LockedPCs
<1>10. CASE Flag(p)
  BY <1>0, <1>10 DEF Flag, Goto, LockedPCs
<1>11. CASE Rm(p)
  BY <1>0, <1>11 DEF Rm, Removed, Done, Goto, LockedPCs
<1>12. CASE Unregister(p)
  BY <1>0, <1>12 DEF Unregister, Goto, LockedPCs
<1>13. CASE Unmark(p)
  BY <1>0, <1>13 DEF Unmark, Removed, Done, Goto, LockedPCs
<1>14. CASE Resume(p)
  BY <1>0, <1>14 DEF Resume, Passes, Goto, LockedPCs
<1>15. CASE Sync(p)
  BY <1>0, <1>15 DEF Sync, Done, Goto, LockedPCs
<1>16. CASE Publish(p)
  BY <1>0, <1>16 DEF Publish, SetSess, Done, Goto, LockedPCs
<1>17. CASE Spawn(p)
  BY <1>0, <1>17 DEF Spawn, Goto, LockedPCs
<1>18. CASE Announce(p)
  BY <1>0, <1>18 DEF Announce, SetSess, Goto, LockedPCs
<1>19. CASE Conclude(p)
  BY <1>0, <1>19 DEF Conclude, Done, Goto, LockedPCs
<1>20. CASE Commit(p)
  BY <1>0, <1>20 DEF Commit, Goto, LockedPCs
<1>21. CASE Unpublish(p)
  BY <1>0, <1>21 DEF Unpublish, SetSess, Done, Goto, LockedPCs
<1>22. CASE Tip(p)
  BY <1>0, <1>22 DEF Tip, Done, Goto, LockedPCs
<1>23. CASE CycleMerge(p)
  BY <1>0, <1>23 DEF CycleMerge, MergeUnder, Locks, Done, Goto, LockedPCs
<1>24. CASE Cleanup(p)
  BY <1>0, <1>24 DEF Cleanup, Locks, Done, Goto, LockedPCs
<1>25. CASE \E r \in Requests : Ask(p, r)
  BY <1>0, <1>25 DEF Ask, Does, Goto, LockedPCs
<1>26. CASE Reconcile(p)
  BY <1>0, <1>26 DEF Reconcile, Does, Locks, Goto, LockedPCs
<1>27. CASE \E a \in Agent, force \in BOOLEAN : Stop(p, a, force)
  BY <1>0, <1>27 DEF Stop, Does, Locks, Goto, About, GiveUp, LockedPCs
<1>28. CASE \E a \in Agent, force \in BOOLEAN : Clean(p, a, force)
  BY <1>0, <1>28 DEF Clean, Does, Locks, Goto, About, GiveUp, LockedPCs
<1>29. CASE \E a \in Agent : Merge(p, a)
  BY <1>0, <1>29 DEF Merge, Does, MergeUnder, Locks, Done, Goto, LockedPCs
<1>30. CASE Crash(p)
  BY <1>0, <1>30 DEF Crash, Done, Goto, LockedPCs
<1>31. CASE \E s \in Starts : Start(p, s)
  BY <1>0, <1>31 DEF Start, Does, Locks, Goto, LockedPCs
<1> QED
  BY <1>1, <1>2, <1>3, <1>4, <1>5, <1>6, <1>7, <1>8, <1>9, <1>10, <1>11, <1>12, <1>13, <1>14,
     <1>15, <1>16, <1>17, <1>18, <1>19, <1>20, <1>21, <1>22, <1>23, <1>24, <1>25, <1>26, <1>27,
     <1>28, <1>29, <1>30, <1>31 DEF Step, Goes

LEMMA ForceStep ==
  ASSUME TypeOK, ForceInv, NEW p \in Proc, Step(p)
  PROVE  ForceInv'
<1>0. pc \in [Proc -> PCs] /\ job \in [Proc -> Job]
  BY DEF TypeOK
<1>a. SUFFICES pc'[p] \in {"routed", "clone", "register"} =>
                 job'[p].why \in {"asked", "queue"} /\ (job'[p].force => job'[p].why = "asked")
  BY <1>0, Others DEF ForceInv
<1>1. CASE pc'[p] = "routed"
  <2>1. PICK r \in Requests : Ask(p, r)
    BY <1>0, <1>1, Arrivals
  <2>2. job' = [job EXCEPT ![p] = [NoJob EXCEPT !.agent = r.agent, !.like = r.agent, !.after = r.after,
                                    !.mode = r.mode, !.reuse = r.reuse, !.force = r.force]]
    BY <2>1 DEF Ask
  <2> QED
    BY <1>0, <2>2 DEF NoJob
<1>2. CASE pc'[p] = "clone"
  <2>1. CASE RunLocked(p)
    BY <1>0, <1>2, <2>1 DEF RunLocked, Done, Goto, ForceInv
  <2>2. CASE Retry(p)
    <3>1. pc[p] = "retry" /\ pass[p] # <<>>
      BY <1>0, <1>2, <2>2 DEF Retry, Done, Goto
    <3>2. \/ pc' = pc
          \/ job' = [job EXCEPT ![p] = [NoJob EXCEPT !.why = "queue", !.agent = Head(pass[p]).agent,
                                                     !.like = Head(pass[p]).agent,
                                                     !.reuse = Head(pass[p]).reuse]]
      BY <2>2, <3>1 DEF Retry
    <3> QED
      BY <1>0, <1>2, <3>1, <3>2 DEF NoJob
  <2>3. CASE \E s \in Starts : Start(p, s)
    <3>1. PICK s \in Starts : Start(p, s)
      BY <2>3
    <3>2. job'[p].why = "asked"
      BY <1>0, <3>1 DEF Start, NoJob
    <3> QED
      BY <3>2
  <2> QED
    BY <1>0, <1>2, <2>1, <2>2, <2>3, Arrivals
<1>3. CASE pc'[p] = "register"
  <2>1. pc[p] = "clone" /\ job'[p] = job[p]
    BY <1>0, <1>3, Arrivals, Subjects DEF CreateClone, ReuseClone
  <2> QED
    BY <2>1 DEF ForceInv
<1> QED
  BY <1>0, <1>1, <1>2, <1>3

-----------------------------------------------------------------------------
(* What a point of the program says of the step taken there. *)

\* Nobody else holds the lock.
LEMMA Alone ==
  ASSUME LockInv, NEW p \in Proc, pc[p] \in LockedPCs \/ lock = Nobody \/ lock = p
  PROVE  \A q \in Proc \ {p} : pc[q] \notin LockedPCs
BY TaskAssumption DEF LockInv

\* What the points of a cycle lead to.
Departure(p) ==
  /\ pc[p] = "spawn" => Spawn(p)
  /\ pc[p] = "announce" => Announce(p)
  /\ pc[p] = "session" => Conclude(p)
  /\ pc[p] = "commit" => Commit(p)
  /\ pc[p] = "unpublish" => Unpublish(p)
  /\ pc[p] = "dequeue" => Dequeue(p)

LEMMA Departures ==
  ASSUME NEW p \in Proc, Step(p)
  PROVE  Departure(p) \/ Crash(p)
<1>1. CASE RunLocked(p)
  BY <1>1 DEF Departure, RunLocked
<1>2. CASE Withdraw(p)
  BY <1>2 DEF Departure, Withdraw
<1>3. CASE CreateClone(p)
  BY <1>3 DEF Departure, CreateClone
<1>4. CASE ReuseClone(p)
  BY <1>4 DEF Departure, ReuseClone
<1>5. CASE Register(p)
  BY <1>5 DEF Departure, Register
<1>6. CASE Retry(p)
  BY <1>6 DEF Departure, Retry
<1>7. CASE Dequeue(p)
  BY <1>7 DEF Departure, Dequeue
<1>8. CASE StopRemove(p)
  BY <1>8 DEF Departure, StopRemove
<1>9. CASE Mark(p)
  BY <1>9 DEF Departure, Mark
<1>10. CASE Flag(p)
  BY <1>10 DEF Departure, Flag
<1>11. CASE Rm(p)
  BY <1>11 DEF Departure, Rm
<1>12. CASE Unregister(p)
  BY <1>12 DEF Departure, Unregister
<1>13. CASE Unmark(p)
  BY <1>13 DEF Departure, Unmark
<1>14. CASE Resume(p)
  BY <1>14 DEF Departure, Resume
<1>15. CASE Sync(p)
  BY <1>15 DEF Departure, Sync
<1>16. CASE Publish(p)
  BY <1>16 DEF Departure, Publish
<1>17. CASE Spawn(p)
  BY <1>17 DEF Departure, Spawn
<1>18. CASE Announce(p)
  BY <1>18 DEF Departure, Announce
<1>19. CASE Conclude(p)
  BY <1>19 DEF Departure, Conclude
<1>20. CASE Commit(p)
  BY <1>20 DEF Departure, Commit
<1>21. CASE Unpublish(p)
  BY <1>21 DEF Departure, Unpublish
<1>22. CASE Tip(p)
  BY <1>22 DEF Departure, Tip
<1>23. CASE CycleMerge(p)
  BY <1>23 DEF Departure, CycleMerge
<1>24. CASE Cleanup(p)
  BY <1>24 DEF Departure, Cleanup
<1>25. CASE \E r \in Requests : Ask(p, r)
  BY <1>25 DEF Departure, Ask, Does
<1>26. CASE Reconcile(p)
  BY <1>26 DEF Departure, Reconcile, Does
<1>27. CASE \E a \in Agent, force \in BOOLEAN : Stop(p, a, force)
  BY <1>27 DEF Departure, Stop, Does
<1>28. CASE \E a \in Agent, force \in BOOLEAN : Clean(p, a, force)
  BY <1>28 DEF Departure, Clean, Does
<1>29. CASE \E a \in Agent : Merge(p, a)
  BY <1>29 DEF Departure, Merge, Does
<1>30. CASE Crash(p)
  BY <1>30
<1>31. CASE \E s \in Starts : Start(p, s)
  BY <1>31 DEF Departure, Start, Does
<1> QED
  BY <1>1, <1>2, <1>3, <1>4, <1>5, <1>6, <1>7, <1>8, <1>9, <1>10, <1>11, <1>12, <1>13, <1>14,
     <1>15, <1>16, <1>17, <1>18, <1>19, <1>20, <1>21, <1>22, <1>23, <1>24, <1>25, <1>26, <1>27,
     <1>28, <1>29, <1>30, <1>31 DEF Step, Goes

\* What each step of a cycle leaves in the entry, when nothing happens in between.
LEMMA CycleSteps ==
  ASSUME TypeOK, Guarded, NEW p \in Proc, NEW a, a = job[p].agent
  PROVE  /\ Publish(p) /\ pc'[p] = "spawn" =>
              ~Decided(a) /\ a \in DOMAIN registry' /\ registry'[a].sess = p
         /\ Announce(p) /\ a \in DOMAIN registry => registry'[a].sess = AgentPid
         /\ Conclude(p) => a \notin live
         /\ Conclude(p) /\ a \in DOMAIN registry =>
              IF pc'[p] = "commit"
              THEN registry'[a].sess = p /\ (registry'[a].failed => registry[a].failed) /\ ~Decided(a)
              ELSE registry'[a].sess = NoPid
         /\ Unpublish(p) /\ a \in DOMAIN registry => registry'[a].sess = NoPid
<1>0. /\ pc \in [Proc -> PCs] /\ \A b \in DOMAIN registry : registry[b] \in Entry
      /\ "publish" \notin Windows
  BY DEF TypeOK, Guarded
<1>1. ASSUME NEW s, a \in DOMAIN registry, SetSess(a, s)
      PROVE  a \in DOMAIN registry' /\ registry'[a].sess = s
  BY <1>0, <1>1 DEF SetSess, Entry
<1>2. Publish(p) /\ pc'[p] = "spawn" => a \in DOMAIN registry /\ MayPublish(a) /\ SetSess(a, p)
  BY <1>0 DEF Publish, Done, Goto, Active
<1>3. Announce(p) /\ a \in DOMAIN registry => SetSess(a, AgentPid)
  BY DEF Announce, Active
<1>4. Unpublish(p) /\ a \in DOMAIN registry => SetSess(a, NoPid)
  BY DEF Unpublish, Active
<1>5. ASSUME Conclude(p), a \in DOMAIN registry
      PROVE  IF pc'[p] = "commit"
             THEN registry'[a].sess = p /\ (registry'[a].failed => registry[a].failed) /\ MayPublish(a)
             ELSE registry'[a].sess = NoPid
  <2> DEFINE b == job[p].agent
             kept == job[p].like # b /\ registry[b].failed
             none == ~(b \in OnDisk => clone[b].commits > 0)
  <2>1. \/ /\ Goto(p, "commit") /\ MayPublish(b)
           /\ registry' = [registry EXCEPT ![b].sess = p, ![b].failed = kept]
        \/ /\ Goto(p, "tip") \/ Done(p)
           /\ \E failed \in {FALSE, none} :
                registry' = [registry EXCEPT ![b].sess = NoPid, ![b].failed = failed]
    BY <1>5 DEF Conclude, Active
  <2>2. ASSUME NEW s, NEW failed, registry' = [registry EXCEPT ![a].sess = s, ![a].failed = failed]
        PROVE  registry'[a].sess = s /\ registry'[a].failed = failed
    BY <1>0, <1>5, <2>2 DEF Entry
  <2>3. kept => registry[a].failed
    OBVIOUS
  <2> HIDE DEF kept, none
  <2>4. CASE Goto(p, "commit") /\ MayPublish(b) /\ registry' = [registry EXCEPT ![b].sess = p, ![b].failed = kept]
    <3>1. pc'[p] = "commit"
      BY <1>0, <2>4 DEF Goto
    <3>2. registry'[a].sess = p /\ registry'[a].failed = kept
      BY <2>2, <2>4
    <3> QED
      BY <2>3, <2>4, <3>1, <3>2
  <2>5. CASE \E failed \in {FALSE, none} :
                (Goto(p, "tip") \/ Done(p)) /\ registry' = [registry EXCEPT ![b].sess = NoPid, ![b].failed = failed]
    <3>1. pc'[p] # "commit"
      BY <1>0, <2>5 DEF Goto, Done
    <3>2. registry'[a].sess = NoPid
      BY <2>2, <2>5
    <3> QED
      BY <3>1, <3>2
  <2> QED
    BY <2>1, <2>4, <2>5
<1>6. Conclude(p) => a \notin live
  BY DEF Conclude
<1> QED
  BY <1>0, <1>1, <1>2, <1>3, <1>4, <1>5, <1>6 DEF MayPublish

\* What was decided about an agent was, or is now: by a look that found it quiet.
Chosen(p, a) ==
  \/ \E force \in BOOLEAN : Stop(p, a, force) \/ Clean(p, a, force)
  \/ Cleanup(p) /\ a = job[p].agent /\ pc'[p] = "mark"

LEMMA DecisionSteps ==
  ASSUME TInv, NEW p \in Proc, Step(p), EntryStep(p), NEW a \in DOMAIN registry', Decided(a)'
  PROVE  a \in DOMAIN registry /\ (Decided(a) \/ Chosen(p, a))
<1>0. /\ TypeOK /\ LockInv /\ EntryInv
      /\ pc \in [Proc -> PCs] /\ job \in [Proc -> Job]
      /\ \A q \in Proc \ {p} : pc'[q] = pc[q] /\ job'[q] = job[q]
  BY Others DEF TInv, TypeOK
<1> DEFINE D == {"stopRemove", "mark", "flag", "rm", "unregister"}
<1>1. CASE a \in DOMAIN registry /\ a \in marker' /\ registry'[a].removing
  <2>1. CASE registry[a].removing
    BY <1>0, <1>1, <2>1 DEF EntryInv, Decided, Active
  <2>2. CASE ~registry[a].removing
    <3>1. Flag(p) /\ a = job[p].agent
      BY <1>1, <2>2 DEF EntryStep
    <3> QED
      BY <1>1, <3>1 DEF Flag, Decided
  <2> QED
    BY <2>1, <2>2
<1>2. CASE a \notin DOMAIN registry
  <2>1. Register(p) /\ a = job[p].agent /\ ~registry'[a].removing
    BY <1>2 DEF EntryStep, Entered
  <2>2. pc[p] = "register" /\ pc'[p] \notin D
    BY <1>0, <2>1 DEF Register, Goto, Done, NotStarted
  <2>3. \A q \in Proc \ {p} : pc[q] \notin D
    BY <1>0, <2>2, Alone DEF LockedPCs
  <2> QED
    BY <1>0, <2>1, <2>2, <2>3 DEF Decided, Active
<1>3. ASSUME NEW q \in Proc, job'[q].agent = a, pc'[q] \in D, a \in DOMAIN registry
      PROVE  Decided(a) \/ Chosen(p, a)
  <2>1. CASE q # p
    BY <1>0, <1>3, <2>1 DEF Decided
  <2>2. CASE pc'[p] = "stopRemove" /\ q = p
    <3>1. PICK b \in Agent, force \in BOOLEAN : Stop(p, b, force)
      BY <1>0, <2>2, Arrivals
    <3>2. job'[p].agent = b
      BY <1>0, <3>1 DEF Stop, About, NoJob
    <3> QED
      BY <1>3, <2>2, <3>1, <3>2 DEF Chosen
  <2>3. CASE pc'[p] = "mark" /\ q = p
    <3>1. CASE Cleanup(p)
      <4>1. job'[p].agent = job[p].agent
        BY <1>0, <2>3, <3>1 DEF Cleanup, Done, Locks, Goto
      <4> QED
        BY <1>3, <2>3, <3>1, <4>1 DEF Chosen
    <3>2. CASE \E b \in Agent, force \in BOOLEAN : Clean(p, b, force)
      <4>1. PICK b \in Agent, force \in BOOLEAN : Clean(p, b, force)
        BY <3>2
      <4>2. job'[p].agent = b
        BY <1>0, <4>1 DEF Clean, About, NoJob
      <4> QED
        BY <1>3, <2>3, <4>1, <4>2 DEF Chosen
    <3> QED
      BY <1>0, <2>3, <3>1, <3>2, Arrivals
  <2>4. CASE pc'[p] \in {"flag", "unregister"} /\ q = p
    <3>1. pc[p] \in {"mark", "rm"} /\ job'[p].agent = job[p].agent
      BY <1>0, <2>4, Arrivals, Subjects DEF Mark, Rm
    <3> QED
      BY <1>3, <2>4, <3>1 DEF Decided
  <2>5. CASE pc'[p] = "rm" /\ q = p
    <3>1. CASE Flag(p)
      BY <1>3, <2>5, <3>1 DEF Flag, Decided
    <3>2. CASE Resume(p)
      <4>1. pc[p] = "resume" /\ job[p] \in Job
        BY <1>0, <3>2 DEF Resume
      <4>2. PICK b \in job[p].todo : /\ ~(b \in Active /\ ~registry[b].removing)
                                     /\ job' = [job EXCEPT ![p].todo = @ \ {b}, ![p].agent = b]
        BY <1>0, <2>5, <3>2, <4>1 DEF Resume, Passes, Goto
      <4>3. job'[p].agent = b
        BY <1>0, <4>1, <4>2 DEF Job
      <4> QED
        BY <1>0, <1>3, <2>5, <4>2, <4>3 DEF EntryInv, Decided, Active
    <3> QED
      BY <1>0, <2>5, <3>1, <3>2, Arrivals
  <2> QED
    BY <1>3, <2>1, <2>2, <2>3, <2>4, <2>5
<1> QED
  BY <1>1, <1>2, <1>3 DEF Decided, Active

LEMMA StepFacts ==
  ASSUME TInv, NEW p \in Proc, Step(p)
  PROVE  /\ EntryStep(p) /\ CloneStep(p) /\ LandedStep(p) /\ SetStep(p)
         /\ Departure(p) \/ Crash(p)
         /\ pc \in [Proc -> PCs] /\ job \in [Proc -> Job]
         /\ \A q \in Proc \ {p} : pc'[q] = pc[q] /\ job'[q] = job[q]
         /\ TypeOK /\ TypeOK'
<1>1. TypeOK /\ AgentInv /\ StartInv
  BY DEF TInv
<1>2. pc \in [Proc -> PCs] /\ job \in [Proc -> Job]
  BY <1>1 DEF TypeOK
<1>3. Next
  BY DEF Next, Step
<1>4. TypeOK'
  BY <1>1, <1>3, TypeStep
<1> QED
  BY <1>1, <1>2, <1>4, EntrySteps, CloneSteps, LandedSteps, SetSteps, Departures, Others

\* A removal goes as far as its point says.
LEMMA RemovalSteps ==
  ASSUME TypeOK, NEW p \in Proc, NEW a, a = job[p].agent
  PROVE  /\ Mark(p) => a \in marker'
         /\ Flag(p) /\ a \in DOMAIN registry' => registry'[a].removing
         /\ Rm(p) /\ pc'[p] = "unregister" => a \notin DOMAIN clone' /\ registry' = registry
         /\ Unregister(p) /\ (a \in DOMAIN registry => registry[a].removing) => a \notin DOMAIN registry'
<1>0. pc \in [Proc -> PCs] /\ \A b \in DOMAIN registry : registry[b] \in Entry
  BY DEF TypeOK
<1>1. Mark(p) => a \in marker'
  BY DEF Mark
<1>2. Flag(p) /\ a \in DOMAIN registry' => registry'[a].removing
  BY <1>0 DEF Flag, Active, Entry
<1>3. Rm(p) /\ pc'[p] = "unregister" => a \notin DOMAIN clone' /\ registry' = registry
  <2>1. Rm(p) /\ pc'[p] = "unregister" => clone' = Without(clone, a) /\ registry' = registry
    BY <1>0 DEF Rm, Removed, Done, Goto
  <2> QED
    BY <2>1 DEF Without
<1>4. Unregister(p) /\ (a \in DOMAIN registry => registry[a].removing) => a \notin DOMAIN registry'
  BY DEF Unregister, Active, Without
<1> QED
  BY <1>1, <1>2, <1>3, <1>4

-----------------------------------------------------------------------------
(* What a step preserves. *)

LEMMA EntryKept ==
  ASSUME TInv, NEW p \in Proc, Step(p)
  PROVE  EntryInv'
<1>0. /\ EntryStep(p) /\ CloneStep(p) /\ LandedStep(p) /\ SetStep(p) /\ TypeOK /\ TypeOK'
      /\ EntryInv /\ CloneInv /\ RemovalInv /\ StartInv /\ SyncInv
  BY StepFacts DEF TInv
<1>1. /\ landed \in [Agent -> Nat] /\ landed' \in [Agent -> Nat] /\ DOMAIN registry' \subseteq Agent
      /\ \A a \in DOMAIN registry : registry[a].merged \in Nat
      /\ \A a \in DOMAIN registry' : registry'[a].merged \in Nat /\ registry'[a].removing \in BOOLEAN
      /\ \A a \in DOMAIN clone : clone[a].commits \in Nat
      /\ \A q \in Proc : job[q].sha \in Nat
  BY <1>0 DEF TypeOK, Entry, Clone, Job
<1> SUFFICES ASSUME NEW a \in DOMAIN registry'
               PROVE  /\ ~registry'[a].removing => a \in DOMAIN clone'
                      /\ registry'[a].removing => a \in marker'
                      /\ a \in DOMAIN clone' => registry'[a].merged <= landed'[a]
  BY DEF EntryInv, OnDisk
<1>2. CASE a \notin DOMAIN registry
  <2>1. Register(p) /\ a = job[p].agent /\ Entered(a, registry'[a])
    BY <1>0, <1>2 DEF EntryStep
  <2>2. a \in DOMAIN clone
    BY <1>0, <2>1 DEF Register, StartInv, OnDisk
  <2>3. clone' = clone
    BY <1>2, <2>1 DEF Register
  <2> QED
    BY <1>1, <2>1, <2>2, <2>3 DEF Entered
<1>3. CASE a \in DOMAIN registry
  <2>1. /\ ~registry[a].removing => a \in DOMAIN clone
        /\ registry[a].removing => a \in marker
        /\ a \in DOMAIN clone => registry[a].merged <= landed[a] /\ landed[a] <= clone[a].commits
    BY <1>0, <1>3 DEF EntryInv, CloneInv, OnDisk
  <2>2. ~(a = job[p].agent /\ (Fresh(p) \/ Register(p)))
    BY <1>0, <1>3 DEF Fresh, Register, StartInv, Active
  <2>3. ASSUME ~registry'[a].removing PROVE a \in DOMAIN clone'
    <3>1. ~registry[a].removing
      BY <1>0, <1>3, <2>3 DEF EntryStep
    <3>2. ~(a = job[p].agent /\ Rm(p))
      BY <1>0, <1>3, <3>1 DEF Rm, RemovalInv, Active
    <3> QED
      BY <1>0, <2>1, <2>2, <3>1, <3>2 DEF CloneStep
  <2>4. ASSUME registry'[a].removing PROVE a \in marker'
    <3>1. a \in marker
      BY <1>0, <1>3, <2>1, <2>4 DEF EntryStep, Flag, RemovalInv
    <3>2. ~(a = job[p].agent /\ Unmark(p))
      BY <1>0, <1>3 DEF Unmark, RemovalInv, Active
    <3> QED
      BY <1>0, <2>2, <3>1, <3>2 DEF SetStep
  <2>5. ASSUME a \in DOMAIN clone' PROVE registry'[a].merged <= landed'[a]
    <3>1. a \in DOMAIN clone
      BY <1>0, <2>2, <2>5 DEF CloneStep
    <3>2. registry[a].merged <= landed'[a] /\ landed[a] <= landed'[a]
      BY <1>0, <1>1, <1>3, <2>1, <2>2, <2>5, <3>1 DEF LandedStep
    <3>3. CASE registry'[a].merged = registry[a].merged
      BY <3>2, <3>3
    <3>4. CASE registry'[a].merged = job[p].sha /\ a = job[p].agent /\ Sync(p)
      <4>1. job[p].sha <= landed[a]
        BY <1>0, <3>4 DEF Sync, SyncInv
      <4> QED
        BY <1>1, <1>3, <3>2, <3>4, <4>1
    <3> QED
      BY <1>0, <1>3, <3>3, <3>4 DEF EntryStep
  <2> QED
    BY <2>3, <2>4, <2>5
<1> QED
  BY <1>2, <1>3

LEMMA CloneKept ==
  ASSUME TInv, NEW p \in Proc, Step(p)
  PROVE  CloneInv'
<1>0. /\ EntryStep(p) /\ CloneStep(p) /\ LandedStep(p) /\ SetStep(p) /\ TypeOK /\ TypeOK'
      /\ CloneInv /\ RemovalInv /\ CycleInv /\ DecidedInv
  BY StepFacts DEF TInv
<1>1. /\ landed \in [Agent -> Nat] /\ landed' \in [Agent -> Nat]
      /\ DOMAIN clone \subseteq Agent /\ DOMAIN clone' \subseteq Agent
      /\ \A a \in DOMAIN clone : clone[a].commits \in Nat
      /\ \A a \in DOMAIN clone' : clone'[a].commits \in Nat
  BY <1>0 DEF TypeOK, Clone
<1> SUFFICES ASSUME NEW a \in DOMAIN clone'
               PROVE  /\ landed'[a] <= clone'[a].commits
                      /\ a \notin DOMAIN registry' => clone'[a].commits <= landed'[a] \/ a \in forsaken'
  BY DEF CloneInv, Active
<1>2. CASE a = job[p].agent /\ Fresh(p)
  BY <1>1, <1>2 DEF Fresh
<1>3. CASE a \in DOMAIN clone /\ ~(a = job[p].agent /\ Fresh(p))
  <2>1. /\ landed[a] <= clone[a].commits
        /\ a \notin DOMAIN registry => clone[a].commits <= landed[a] \/ a \in forsaken
    BY <1>0, <1>3 DEF CloneInv, Active
  <2>2. a \in forsaken => a \in forsaken'
    BY <1>0, <1>3 DEF SetStep
  <2>3. \/ landed'[a] = landed[a]
        \/ landed'[a] = clone[a].commits /\ clone' = clone
    BY <1>0, <1>1, <1>3 DEF LandedStep
  <2>4. CASE clone'[a] = clone[a]
    <3>1. CASE a \in DOMAIN registry /\ a \notin DOMAIN registry'
      <4>1. (StopRemove(p) \/ Unregister(p)) /\ a = job[p].agent
        BY <1>0, <3>1 DEF EntryStep
      <4>2. StopRemove(p)
        BY <1>0, <1>3, <4>1 DEF Unregister, RemovalInv, OnDisk
      <4>3. clone[a].commits <= landed[a] \/ a \in forsaken
        BY <1>0, <1>3, <3>1, <4>1, <4>2 DEF StopRemove, DecidedInv, Decided, OnDisk
      <4> QED
        BY <1>1, <2>1, <2>2, <2>3, <2>4, <4>3
    <3>2. CASE a \notin DOMAIN registry \/ a \in DOMAIN registry'
      BY <1>1, <1>3, <2>1, <2>2, <2>3, <2>4, <3>2
    <3> QED
      BY <3>1, <3>2
  <2>5. CASE a = job[p].agent /\ Commit(p) /\ clone'[a].commits > clone[a].commits
    <3>1. a \in DOMAIN registry /\ registry' = registry
      BY <1>0, <2>5 DEF Commit, CycleInv, CyclePCs, Active
    <3> QED
      BY <1>1, <1>3, <2>1, <2>3, <2>5, <3>1
  <2> QED
    BY <1>0, <1>3, <2>4, <2>5 DEF CloneStep
<1> QED
  BY <1>0, <1>2, <1>3 DEF CloneStep

\* A step about an agent is the only one that touches its cycle.
LEMMA Apart ==
  ASSUME CycleInv, NEW p \in Proc, NEW q \in Proc \ {p},
         pc[q] \in CyclePCs \cup {"publish"}, job[p].agent = job[q].agent
  PROVE  pc[p] \notin CyclePCs \cup {"publish", "register"}
BY DEF CycleInv

LEMMA LiveKept ==
  ASSUME TInv, Guarded, NEW p \in Proc, Step(p)
  PROVE  LiveInv'
<1>0. /\ EntryStep(p) /\ SetStep(p) /\ (Departure(p) \/ Crash(p))
      /\ LiveInv /\ RemovalInv /\ CycleInv /\ DecidedInv /\ SessInv /\ TypeOK
      /\ "announce" \notin CrashAt
  BY StepFacts DEF TInv, Guarded
<1> SUFFICES ASSUME NEW a \in live' PROVE Alive(a)'
  BY DEF LiveInv
<1>1. CASE a \notin live
  <2>1. Spawn(p) /\ a = job[p].agent
    BY <1>0, <1>1 DEF SetStep
  <2>2. a \in DOMAIN registry /\ registry[a].sess = p /\ registry' = registry
    BY <1>0, <2>1 DEF Spawn, CycleInv, CyclePCs, Active
  <2> QED
    BY <2>2 DEF Alive, Active
<1>2. CASE a \in live
  <2>1. Alive(a) /\ a \in DOMAIN registry
    BY <1>0, <1>2 DEF LiveInv, Alive, Active
  <2>2. a \in DOMAIN registry'
    <3>1. ASSUME StopRemove(p) \/ Unregister(p), a = job[p].agent PROVE FALSE
      BY <1>0, <2>1, <3>1 DEF StopRemove, Unregister, Decided, DecidedInv
    <3> QED
      BY <1>0, <2>1, <3>1 DEF EntryStep
  <2>3. CASE registry'[a].sess = registry[a].sess \/ registry'[a].sess \in {p, AgentPid}
    BY <2>1, <2>2, <2>3 DEF Alive, Active
  <2>4. ~(a = job[p].agent /\ (Conclude(p) \/ Unpublish(p)))
    BY <1>0, <1>2 DEF Conclude, Unpublish, CycleInv
  <2>5. ~(registry[a].sess = p /\ Crash(p))
    BY <1>0, <1>2, <2>1 DEF Crash, SessInv, CycleInv
  <2> QED
    BY <1>0, <2>1, <2>2, <2>3, <2>4, <2>5 DEF EntryStep, SessStep
<1> QED
  BY <1>1, <1>2

LEMMA SessKept ==
  ASSUME TInv, Guarded, NEW p \in Proc, Step(p)
  PROVE  SessInv'
<1>0. /\ EntryStep(p) /\ TypeOK /\ SessInv /\ pc \in [Proc -> PCs] /\ job \in [Proc -> Job]
      /\ Departure(p) \/ Crash(p)
      /\ \A q \in Proc \ {p} : pc'[q] = pc[q] /\ job'[q] = job[q]
      /\ NoPid \notin Proc /\ AgentPid \notin Proc /\ DeadPid \notin Proc
  BY StepFacts, TaskAssumption DEF TInv
<1> DEFINE S == {"spawn", "announce", "commit", "unpublish"}
<1> SUFFICES ASSUME NEW a \in DOMAIN registry', NEW q \in Proc, registry'[a].sess = q
               PROVE  job'[q].agent = a /\ pc'[q] \in S
  BY DEF SessInv
<1>1. CASE a \notin DOMAIN registry
  BY <1>0, <1>1 DEF EntryStep, Entered
<1>2. CASE a \in DOMAIN registry /\ registry[a].sess = q
  <2>1. job[q].agent = a /\ pc[q] \in S
    BY <1>0, <1>2 DEF SessInv
  <2>2. CASE q # p
    BY <1>0, <2>1, <2>2
  <2>3. CASE q = p /\ (Spawn(p) \/ Commit(p))
    <3>1. pc'[p] \in {"announce", "unpublish"}
      BY <1>0, <2>3 DEF Spawn, Commit, Goto
    <3>2. job'[p].agent = job[p].agent
      BY <3>1, <1>0, Subjects
    <3> QED
      BY <2>1, <2>3, <3>1, <3>2
  <2>4. CASE q = p /\ (Announce(p) \/ Unpublish(p))
    BY <1>0, <1>2, <2>1, <2>4, CycleSteps
  <2>5. CASE q = p /\ Crash(p)
    <3>1. registry'[a].sess = DeadPid
      <4>1. registry[a] \in Entry
        BY <1>0, <1>2 DEF TypeOK
      <4> QED
        BY <1>2, <2>5, <4>1 DEF Crash, Active, Entry
    <3> QED
      BY <1>0, <3>1
  <2> QED
    BY <1>0, <2>1, <2>2, <2>3, <2>4, <2>5 DEF Departure
<1>3. CASE a \in DOMAIN registry /\ registry[a].sess # q
  <2>1. q = p /\ a = job[p].agent /\ (Publish(p) \/ Conclude(p))
    BY <1>0, <1>3 DEF EntryStep, SessStep
  <2>2. pc'[p] \in {"spawn", "commit"}
    <3>1. CASE Publish(p)
      BY <1>0, <1>3, <2>1, <3>1 DEF Publish, Goto, Done
    <3>2. CASE Conclude(p)
      BY <1>0, <1>3, <2>1, <3>2, CycleSteps
    <3> QED
      BY <2>1, <3>1, <3>2
  <2>3. job'[p].agent = job[p].agent
    BY <1>0, <2>2, Subjects
  <2> QED
    BY <2>1, <2>2, <2>3
<1> QED
  BY <1>1, <1>2, <1>3

LEMMA CycleKept ==
  ASSUME TInv, Guarded, NEW p \in Proc, Step(p)
  PROVE  CycleInv'
<1>0. /\ EntryStep(p) /\ SetStep(p) /\ TypeOK /\ TypeOK' /\ AgentInv /\ LockInv /\ LiveInv /\ RemovalInv
      /\ CycleInv /\ DecidedInv /\ SessInv /\ StartInv
      /\ pc \in [Proc -> PCs] /\ job \in [Proc -> Job]
      /\ \A q \in Proc \ {p} : pc'[q] = pc[q] /\ job'[q] = job[q]
      /\ "publish" \notin Windows /\ NoPid \notin Proc /\ AgentPid \notin Proc /\ DeadPid \notin Proc
  BY StepFacts, TaskAssumption DEF TInv, Guarded
<1> DEFINE Cycle == CyclePCs \cup {"publish"}
           me == job[p].agent
<1>a. ASSUME NEW a, a = me, Register(p)
      PROVE  a \notin DOMAIN registry /\ a \notin live
  BY <1>0, <1>a DEF Register, StartInv, LiveInv, Alive, Active
<1>b. pc'[p] \in Cycle => job'[p].agent = me /\ pc[p] \in Cycle \cup {"register"}
  <2>1. ASSUME pc'[p] \in Cycle PROVE pc[p] \in Cycle \cup {"register"}
    <3>1. \/ Register(p) \/ Publish(p) \/ Spawn(p) \/ Announce(p) \/ Conclude(p) \/ Commit(p)
      BY <1>0, <2>1, Arrivals DEF CyclePCs
    <3> QED
      BY <3>1 DEF CyclePCs, Register, Publish, Spawn, Announce, Conclude, Commit
  <2> QED
    BY <1>0, <2>1, Subjects DEF CyclePCs
\* The other processes.
<1>1. ASSUME NEW q \in Proc \ {p}, NEW a, a = job[q].agent, pc[q] \in Cycle
      PROVE  /\ pc[q] \in CyclePCs =>
                  /\ a \in DOMAIN registry'
                  /\ pc[q] # "session" => registry'[a].sess = q
                  /\ pc[q] = "session" => registry'[a].sess \in {NoPid, AgentPid}
             /\ pc[q] \in {"publish", "spawn", "commit", "unpublish"} => a \notin live'
             /\ a \in DOMAIN registry' => ~registry'[a].failed
             /\ pc'[p] \in Cycle \cup {"register"} => job'[p].agent # a
  <2>0. ~(a = me /\ pc[p] \in Cycle \cup {"register"})
    BY <1>0, <1>1, Apart
  <2>p. ~(a = me /\ (Publish(p) \/ Spawn(p) \/ Announce(p) \/ Conclude(p) \/ Unpublish(p)))
    BY <2>0 DEF CyclePCs, Publish, Spawn, Announce, Conclude, Unpublish
  <2>1. ASSUME pc[q] \in CyclePCs
        PROVE  /\ a \in DOMAIN registry'
               /\ pc[q] # "session" => registry'[a].sess = q
               /\ pc[q] = "session" => registry'[a].sess \in {NoPid, AgentPid}
    <3>1. /\ a \in DOMAIN registry
          /\ pc[q] # "session" => registry[a].sess = q
          /\ pc[q] = "session" => registry[a].sess \in {NoPid, AgentPid}
      BY <1>0, <1>1, <2>1 DEF CycleInv, Active
    <3>2. ~Decided(a)
      BY <1>0, <1>1, <2>1, <3>1 DEF DecidedInv
    <3>3. a \in DOMAIN registry'
      <4>1. ~((StopRemove(p) \/ Unregister(p)) /\ a = me)
        BY <3>2 DEF StopRemove, Unregister, Decided
      <4> QED
        BY <1>0, <3>1, <4>1 DEF EntryStep
    <3>4. SessStep(p, a)
      BY <1>0, <3>1, <3>3 DEF EntryStep
    <3>5. ~(registry[a].sess = p /\ Crash(p))
      BY <1>0, <1>1, <3>1
    <3>6. pc[q] # "session" => Alive(a)
      BY <1>1, <3>1 DEF Alive, Active
    <3> QED
      BY <2>p, <3>1, <3>3, <3>4, <3>5, <3>6 DEF SessStep
  <2>2. ASSUME pc[q] \in {"publish", "spawn", "commit", "unpublish"} PROVE a \notin live'
    BY <1>0, <1>1, <2>2, <2>p DEF CycleInv, SetStep
  <2>3. ASSUME a \in DOMAIN registry' PROVE ~registry'[a].failed
    <3>1. CASE a \in DOMAIN registry
      BY <1>0, <1>1, <2>3, <2>p, <3>1 DEF CycleInv, EntryStep, Active
    <3>2. CASE a \notin DOMAIN registry
      BY <1>0, <2>3, <3>2 DEF EntryStep, Entered
    <3> QED
      BY <3>1, <3>2
  <2>4. ASSUME pc'[p] \in Cycle PROVE job'[p].agent # a
    BY <1>b, <2>0, <2>4
  <2>5. ASSUME pc'[p] = "register" PROVE job'[p].agent # a
    <3>1. job'[p].agent = me
      BY <1>0, <2>5, Subjects
    <3>2. Fresh(p) /\ MayCreate(me)
      BY <1>0, <2>5, Arrivals, FreshSteps DEF CreateClone, ReuseClone
    <3>3. a = me => pc[q] # "publish"
      BY <1>0, <1>1, <3>2 DEF MayCreate, Awaited
    <3>4. a = me => pc[q] \notin CyclePCs
      BY <1>0, <1>1, <3>2 DEF Fresh, CycleInv, Active
    <3> QED
      BY <1>1, <3>1, <3>3, <3>4
  <2> QED
    BY <2>1, <2>2, <2>3, <2>4, <2>5
\* The process of the step.
<1>2. ASSUME NEW a, a = me, pc'[p] \in Cycle
      PROVE  /\ pc'[p] \in CyclePCs =>
                  /\ a \in DOMAIN registry'
                  /\ pc'[p] # "session" => registry'[a].sess = p
                  /\ pc'[p] = "session" => registry'[a].sess \in {NoPid, AgentPid}
             /\ pc'[p] \in {"publish", "spawn", "commit", "unpublish"} => a \notin live'
             /\ a \in DOMAIN registry' => ~registry'[a].failed
  <2>1. CASE pc'[p] = "publish"
    <3>1. Register(p)
      BY <1>0, <2>1, Arrivals
    <3>2. a \notin DOMAIN registry /\ a \notin live /\ live' = live
      BY <1>2, <1>a, <3>1 DEF Register
    <3> QED
      BY <1>0, <2>1, <3>2 DEF CyclePCs, EntryStep, Entered
  <2>2. CASE pc'[p] = "spawn"
    <3>1. Publish(p) /\ pc[p] = "publish" /\ live' = live
      BY <1>0, <2>2, Arrivals DEF Publish
    <3>2. a \in DOMAIN registry' /\ registry'[a].sess = p
      BY <1>0, <1>2, <2>2, <3>1, CycleSteps
    <3>3. a \in DOMAIN registry /\ a \notin live
      BY <1>0, <1>2, <2>2, <3>1 DEF CycleInv, Publish, Done, Goto, Active
    <3>4. ~registry[a].failed /\ registry'[a].failed = registry[a].failed
      BY <1>0, <1>2, <3>1, <3>2, <3>3 DEF CycleInv, EntryStep, Conclude, Publish, Active
    <3> QED
      BY <2>2, <3>1, <3>2, <3>3, <3>4
  <2>3. CASE pc'[p] \in {"announce", "unpublish"}
    <3>1. pc[p] \in {"spawn", "commit"} /\ registry' = registry
      BY <1>0, <2>3, Arrivals DEF Spawn, Commit
    <3>2. a \in DOMAIN registry /\ registry[a].sess = p /\ ~registry[a].failed
      BY <1>0, <1>2, <3>1 DEF CycleInv, CyclePCs, Active
    <3>3. pc'[p] = "unpublish" => a \notin live /\ live' = live
      BY <1>0, <1>2, <2>3, Arrivals DEF Commit, CycleInv
    <3> QED
      BY <2>3, <3>1, <3>2, <3>3
  <2>4. CASE pc'[p] \in {"session", "commit"}
    <3>1. /\ pc'[p] = "session" => Announce(p)
          /\ pc'[p] = "commit" => Conclude(p)
      BY <1>0, <2>4, Arrivals
    <3>2. pc[p] \in {"announce", "session"} /\ live' = live
      BY <2>4, <3>1 DEF Announce, Conclude
    <3>3. a \in DOMAIN registry /\ ~registry[a].failed
      BY <1>0, <1>2, <3>2 DEF CycleInv, CyclePCs, Active
    <3>4. a \in DOMAIN registry'
      BY <1>0, <2>4, <3>1, <3>3 DEF EntryStep, StopRemove, Unregister, Announce, Conclude
    <3>5. CASE pc'[p] = "session"
      <4>1. registry'[a].sess = AgentPid
        BY <1>0, <1>2, <3>1, <3>3, <3>5, CycleSteps
      <4>2. registry'[a].failed = registry[a].failed
        BY <1>0, <3>1, <3>3, <3>4, <3>5 DEF EntryStep, Announce, Conclude
      <4> QED
        BY <3>3, <3>4, <3>5, <4>1, <4>2
    <3>6. CASE pc'[p] = "commit"
      BY <1>0, <1>2, <3>1, <3>2, <3>3, <3>4, <3>6, CycleSteps
    <3> QED
      BY <2>4, <3>5, <3>6
  <2> QED
    BY <1>2, <2>1, <2>2, <2>3, <2>4 DEF CyclePCs
<1>3. ASSUME NEW q \in Proc \ {p}, pc'[p] \in Cycle, pc[q] \in Cycle \cup {"register"}
      PROVE  job[q].agent # me
  <2>1. CASE pc[p] \in Cycle
    BY <1>0, <1>3, <2>1, Apart
  <2>2. CASE pc[p] = "register" /\ pc[q] \in Cycle
    BY <1>0, <1>3, <2>2, Apart
  <2>3. CASE pc[p] = "register" /\ pc[q] = "register"
    BY <1>0, <2>3, Alone DEF LockedPCs
  <2> QED
    BY <1>3, <1>b, <2>1, <2>2, <2>3
<1>4. ASSUME NEW q \in Proc \ {p}, NEW r \in Proc \ {p}, r # q, pc[q] \in Cycle, pc[r] \in Cycle \cup {"register"}
      PROVE  job[r].agent # job[q].agent
  BY <1>0, <1>4 DEF CycleInv
<1> QED
  BY <1>0, <1>b, <1>1, <1>2, <1>3, <1>4 DEF CycleInv, Active, CyclePCs

\* What a look found: nobody at work, nothing to lose.
LEMMA ChosenQuiet ==
  ASSUME TInv, Guarded, NEW p \in Proc, NEW a \in DOMAIN registry, Chosen(p, a)
  PROVE  /\ ~Alive(a)
         /\ \A q \in Proc : pc[q] \in CyclePCs => job[q].agent # a
         /\ a \in DOMAIN clone => clone[a].commits <= landed[a] \/ a \in forsaken'
         /\ a \in DOMAIN clone /\ ~Stop(p, a, FALSE) /\ ~Stop(p, a, TRUE) =>
              ~clone[a].dirty \/ a \in forsaken'
         /\ UNCHANGED <<registry, clone, landed, live>>
         /\ forsaken \subseteq forsaken'
<1>0. /\ TypeOK /\ LiveInv /\ CycleInv /\ EntryInv /\ "publish" \notin Windows
      /\ pc \in [Proc -> PCs]
  BY DEF TInv, Guarded, TypeOK
<1>1. UNCHANGED <<registry, clone, landed, live>>
  BY DEF Chosen, Stop, Clean, Cleanup
<1>2. ~Alive(a) /\ MayLook(a)
  BY <1>0 DEF Chosen, Stop, Clean, Cleanup, Removable, Active, Done, Goto
<1>3. ASSUME NEW q \in Proc, pc[q] \in CyclePCs, job[q].agent = a PROVE FALSE
  <2>1. CASE pc[q] # "session"
    BY <1>0, <1>2, <1>3, <2>1 DEF CycleInv, Alive, Active
  <2>2. CASE pc[q] = "session"
    <3>1. a \notin live
      BY <1>0, <1>2 DEF LiveInv
    <3> QED
      BY <1>0, <1>2, <1>3, <2>2, <3>1 DEF MayLook, Ending
  <2> QED
    BY <2>1, <2>2
<1>4. a \in DOMAIN clone => clone[a].commits = registry[a].merged \/ a \in forsaken'
  BY <1>0 DEF Chosen, Stop, Clean, Cleanup, Removable, GiveUp, Pending, Active, OnDisk, Done, Goto
<1>5. a \in DOMAIN clone => clone[a].commits <= landed[a] \/ a \in forsaken'
  BY <1>0, <1>4 DEF EntryInv, OnDisk
<1>6. a \in DOMAIN clone /\ ~Stop(p, a, FALSE) /\ ~Stop(p, a, TRUE) =>
        ~clone[a].dirty \/ a \in forsaken'
  <2>1. ~Stop(p, a, FALSE) /\ ~Stop(p, a, TRUE) =>
          Cleanup(p) \/ \E force \in BOOLEAN : Clean(p, a, force)
    BY DEF Chosen
  <2> QED
    BY <1>0, <2>1 DEF Chosen, Clean, Cleanup, Removable, GiveUp, Pending, Active, OnDisk, Done, Goto
<1>7. forsaken \subseteq forsaken'
  BY DEF Chosen, Stop, Clean, Cleanup, GiveUp
<1> QED
  BY <1>1, <1>2, <1>3, <1>5, <1>6, <1>7

LEMMA DecidedKept ==
  ASSUME TInv, Guarded, NEW p \in Proc, Step(p)
  PROVE  DecidedInv'
<1>0. /\ EntryStep(p) /\ CloneStep(p) /\ LandedStep(p) /\ SetStep(p) /\ TypeOK /\ TypeOK'
      /\ DecidedInv /\ CycleInv /\ CloneInv
      /\ pc \in [Proc -> PCs] /\ job \in [Proc -> Job]
      /\ \A q \in Proc \ {p} : pc'[q] = pc[q] /\ job'[q] = job[q]
      /\ NoPid \notin Proc /\ AgentPid \notin Proc /\ DeadPid \notin Proc
      /\ NoPid # AgentPid /\ NoPid # DeadPid /\ AgentPid # DeadPid
  BY StepFacts, TaskAssumption DEF TInv
<1> SUFFICES ASSUME NEW a \in DOMAIN registry', Decided(a)'
             PROVE  /\ ~Alive(a)'
                    /\ \A q \in Proc : pc'[q] \in CyclePCs => job'[q].agent # a
                    /\ a \in DOMAIN clone' => clone'[a].commits <= landed'[a] \/ a \in forsaken'
  BY DEF DecidedInv, OnDisk
<1>1. a \in DOMAIN registry /\ (Decided(a) \/ Chosen(p, a))
  BY <1>0, DecisionSteps
<1>2. CASE Chosen(p, a)
  <2>1. /\ ~Alive(a)
        /\ \A q \in Proc : pc[q] \in CyclePCs => job[q].agent # a
        /\ a \in DOMAIN clone => clone[a].commits <= landed[a] \/ a \in forsaken'
        /\ UNCHANGED <<registry, clone, landed, live>>
    BY <1>1, <1>2, ChosenQuiet
  <2>2. pc'[p] \notin CyclePCs
    BY <1>0, <1>2 DEF Chosen, Stop, Clean, Cleanup, Locks, Goto, CyclePCs
  <2> QED
    BY <1>0, <2>1, <2>2 DEF Alive, Active
<1>3. CASE Decided(a)
  <2>1. /\ ~Alive(a)
        /\ \A q \in Proc : pc[q] \in CyclePCs => job[q].agent # a
        /\ a \in DOMAIN clone => clone[a].commits <= landed[a] \/ a \in forsaken
    BY <1>0, <1>1, <1>3 DEF DecidedInv, OnDisk
  <2>2. ~(a = job[p].agent /\ (Spawn(p) \/ Announce(p) \/ Conclude(p) \/ Commit(p) \/ Unpublish(p)))
    BY <2>1 DEF CyclePCs, Spawn, Announce, Conclude, Commit, Unpublish
  <2>3. ~(a = job[p].agent /\ Publish(p) /\ pc'[p] = "spawn")
    BY <1>0, <1>3, CycleSteps
  <2>4. ~Alive(a)'
    <3>1. SessStep(p, a) /\ ~(registry[a].sess \in Proc)
      BY <1>0, <1>1, <2>1 DEF EntryStep, Alive, Active
    <3>2. registry'[a].sess = registry[a].sess \/ registry'[a].sess = NoPid \/ registry'[a].sess = p
      BY <2>2, <3>1 DEF SessStep
    <3>3. a \notin live' \/ a \in live
      BY <1>0, <2>2 DEF SetStep
    <3>4. registry'[a].sess = p => registry'[a].sess = registry[a].sess
      <4>1. Publish(p) /\ a = job[p].agent => pc'[p] = "spawn" \/ registry' = registry
        BY <1>0, <1>1 DEF Publish, Goto
      <4> QED
        BY <1>0, <2>2, <2>3, <3>1, <4>1 DEF SessStep
    <3> QED
      BY <1>0, <1>1, <2>1, <3>2, <3>3, <3>4 DEF Alive, Active
  <2>5. ASSUME NEW q \in Proc, pc'[q] \in CyclePCs, job'[q].agent = a PROVE FALSE
    <3>1. CASE q # p
      BY <1>0, <2>1, <2>5, <3>1
    <3>2. CASE q = p
      <4>1. job[p].agent = a
        BY <1>0, <2>5, <3>2, Subjects DEF CyclePCs
      <4>2. (Publish(p) /\ pc'[p] = "spawn") \/ Spawn(p) \/ Announce(p) \/ Conclude(p) \/ Commit(p)
        BY <1>0, <2>5, <3>2, Arrivals DEF CyclePCs
      <4> QED
        BY <2>2, <2>3, <4>1, <4>2
    <3> QED
      BY <3>1, <3>2
  <2>6. ASSUME a \in DOMAIN clone' PROVE clone'[a].commits <= landed'[a] \/ a \in forsaken'
    <3>1. ~(a = job[p].agent /\ Fresh(p))
      BY <1>1 DEF Fresh
    <3>2. a \in DOMAIN clone /\ clone'[a] = clone[a]
      BY <1>0, <2>2, <2>6, <3>1 DEF CloneStep
    <3>3. a \in forsaken => a \in forsaken'
      BY <1>0, <2>6, <3>1 DEF SetStep
    <3>4. landed'[a] = landed[a] \/ landed'[a] = clone[a].commits
      BY <1>0, <2>6, <3>1, <3>2 DEF LandedStep, TypeOK
    <3>5. clone[a].commits \in Nat
      BY <1>0, <3>2 DEF TypeOK, Clone
    <3> QED
      BY <2>1, <3>2, <3>3, <3>4, <3>5
  <2> QED
    BY <2>4, <2>5, <2>6
<1> QED
  BY <1>1, <1>2, <1>3

LEMMA CleanKept ==
  ASSUME TInv, Guarded, NEW p \in Proc, Step(p)
  PROVE  CleanInv'
<1>0. /\ EntryStep(p) /\ CloneStep(p) /\ SetStep(p) /\ TypeOK /\ LockInv /\ CleanInv
      /\ pc \in [Proc -> PCs] /\ job \in [Proc -> Job]
      /\ \A q \in Proc \ {p} : pc'[q] = pc[q] /\ job'[q] = job[q]
  BY StepFacts DEF TInv
<1> SUFFICES ASSUME NEW a \in DOMAIN registry', a \in DOMAIN clone',
                    \/ registry'[a].removing
                    \/ \E q \in Proc : job'[q].agent = a /\ pc'[q] \in {"mark", "flag"}
             PROVE  ~clone'[a].dirty \/ a \in forsaken'
  BY DEF CleanInv, OnDisk
<1> DEFINE Taken == \/ registry[a].removing
                    \/ \E q \in Proc : job[q].agent = a /\ pc[q] \in {"mark", "flag"}
<1>1. a \in DOMAIN registry
  <2> SUFFICES ASSUME a \notin DOMAIN registry PROVE FALSE
    OBVIOUS
  <2>1. Register(p) /\ a = job[p].agent /\ ~registry'[a].removing
    BY <1>0 DEF EntryStep, Entered
  <2>2. pc[p] = "register" /\ pc'[p] \notin {"mark", "flag"}
    BY <1>0, <2>1 DEF Register, Goto, Done, NotStarted
  <2>3. \A q \in Proc \ {p} : pc[q] \notin {"mark", "flag"}
    BY <1>0, <2>2, Alone DEF LockedPCs
  <2> QED
    BY <1>0, <2>1, <2>2, <2>3
<1>2. Taken \/ (Chosen(p, a) /\ pc'[p] = "mark")
  <2>1. ASSUME registry'[a].removing PROVE Taken
    BY <1>0, <1>1, <2>1 DEF EntryStep, Flag
  <2>2. ASSUME NEW q \in Proc, job'[q].agent = a, pc'[q] \in {"mark", "flag"}
        PROVE  Taken \/ (Chosen(p, a) /\ pc'[p] = "mark")
    <3>1. CASE q # p
      BY <1>0, <2>2, <3>1
    <3>2. CASE q = p /\ pc'[p] = "flag"
      <4>1. pc[p] = "mark" /\ job[p].agent = a
        BY <1>0, <2>2, <3>2, Arrivals, Subjects DEF Mark
      <4> QED
        BY <4>1
    <3>3. CASE q = p /\ pc'[p] = "mark"
      <4>1. CASE Cleanup(p)
        <5>1. job'[p].agent = job[p].agent
          BY <1>0, <3>3, <4>1 DEF Cleanup, Done, Locks, Goto
        <5> QED
          BY <2>2, <3>3, <4>1, <5>1 DEF Chosen
      <4>2. CASE \E b \in Agent, force \in BOOLEAN : Clean(p, b, force)
        <5>1. PICK b \in Agent, force \in BOOLEAN : Clean(p, b, force)
          BY <4>2
        <5>2. job'[p].agent = b
          BY <1>0, <5>1 DEF Clean, About, NoJob
        <5> QED
          BY <2>2, <3>3, <5>1, <5>2 DEF Chosen
      <4> QED
        BY <1>0, <3>3, <4>1, <4>2, Arrivals
    <3> QED
      BY <2>2, <3>1, <3>2, <3>3
  <2> QED
    BY <2>1, <2>2
<1>3. CASE Taken
  <2>1. a \in DOMAIN clone => ~clone[a].dirty \/ a \in forsaken
    BY <1>0, <1>1, <1>3 DEF CleanInv, OnDisk
  <2>2. ~(a = job[p].agent /\ Fresh(p))
    BY <1>1 DEF Fresh
  <2>3. a \in forsaken => a \in forsaken'
    BY <1>0, <2>2 DEF SetStep
  <2> QED
    BY <1>0, <2>1, <2>2, <2>3 DEF CloneStep
<1>4. CASE Chosen(p, a) /\ pc'[p] = "mark"
  <2>1. ~Stop(p, a, FALSE) /\ ~Stop(p, a, TRUE)
    BY <1>0, <1>4 DEF Stop, Locks, Goto
  <2> QED
    BY <1>1, <1>4, <2>1, ChosenQuiet
<1> QED
  BY <1>2, <1>3, <1>4

LEMMA RemovalKept ==
  ASSUME TInv, NEW p \in Proc, Step(p)
  PROVE  RemovalInv'
<1>0. /\ EntryStep(p) /\ CloneStep(p) /\ SetStep(p) /\ TypeOK /\ LockInv /\ RemovalInv
      /\ pc \in [Proc -> PCs] /\ job \in [Proc -> Job]
      /\ \A q \in Proc \ {p} : pc'[q] = pc[q] /\ job'[q] = job[q]
      /\ \A b \in DOMAIN registry : registry[b].removing \in BOOLEAN
  BY StepFacts DEF TInv, TypeOK, Entry
<1>1. ASSUME NEW q \in Proc \ {p}, NEW a, a = job[q].agent
      PROVE  /\ pc[q] = "flag" => a \in marker'
             /\ pc[q] \in {"rm", "unregister"} => (a \in DOMAIN registry' => registry'[a].removing)
             /\ pc[q] = "unregister" => a \notin DOMAIN clone'
             /\ pc[q] = "unmark" => a \notin DOMAIN registry'
  <2> SUFFICES ASSUME pc[q] \in {"flag", "rm", "unregister", "unmark"}
               PROVE  /\ pc[q] = "flag" => a \in marker'
                      /\ pc[q] \in {"rm", "unregister"} => (a \in DOMAIN registry' => registry'[a].removing)
                      /\ pc[q] = "unregister" => a \notin DOMAIN clone'
                      /\ pc[q] = "unmark" => a \notin DOMAIN registry'
    OBVIOUS
  <2>1. pc[p] \notin LockedPCs
    BY <1>0, Alone DEF LockedPCs
  <2>2. ~Register(p) /\ ~Fresh(p) /\ ~Unmark(p) /\ ~Flag(p)
    BY <2>1 DEF Register, Fresh, CreateClone, ReuseClone, Unmark, Flag, LockedPCs
  <2>3. pc[q] = "flag" => a \in marker'
    BY <1>0, <1>1, <2>2 DEF RemovalInv, SetStep
  <2>4. pc[q] \in {"rm", "unregister"} => (a \in DOMAIN registry' => registry'[a].removing)
    BY <1>0, <1>1, <2>2 DEF RemovalInv, EntryStep, Active
  <2>5. pc[q] = "unregister" => a \notin DOMAIN clone'
    BY <1>0, <1>1, <2>2 DEF RemovalInv, CloneStep, OnDisk
  <2>6. pc[q] = "unmark" => a \notin DOMAIN registry'
    BY <1>0, <1>1, <2>2 DEF RemovalInv, EntryStep, Active
  <2> QED
    BY <2>3, <2>4, <2>5, <2>6
<1>2. ASSUME NEW a, a = job'[p].agent
      PROVE  /\ pc'[p] = "flag" => a \in marker'
             /\ pc'[p] \in {"rm", "unregister"} => (a \in DOMAIN registry' => registry'[a].removing)
             /\ pc'[p] = "unregister" => a \notin DOMAIN clone'
             /\ pc'[p] = "unmark" => a \notin DOMAIN registry'
  <2>1. CASE pc'[p] = "flag"
    BY <1>0, <1>2, <2>1, Arrivals, Subjects, RemovalSteps
  <2>2. CASE pc'[p] = "rm"
    <3>1. CASE Flag(p)
      <4>1. job'[p].agent = job[p].agent
        BY <3>1 DEF Flag
      <4> QED
        BY <1>0, <1>2, <2>2, <3>1, <4>1, RemovalSteps
    <3>2. CASE Resume(p)
      <4>1. pc[p] = "resume" /\ job[p] \in Job /\ registry' = registry
        BY <1>0, <3>2 DEF Resume
      <4>2. PICK b \in job[p].todo : /\ ~(b \in Active /\ ~registry[b].removing)
                                     /\ job' = [job EXCEPT ![p].todo = @ \ {b}, ![p].agent = b]
        BY <1>0, <2>2, <3>2, <4>1 DEF Resume, Passes, Goto
      <4>3. job'[p].agent = b
        BY <1>0, <4>1, <4>2 DEF Job
      <4> QED
        BY <1>2, <2>2, <4>1, <4>2, <4>3 DEF Active
    <3> QED
      BY <1>0, <2>2, <3>1, <3>2, Arrivals
  <2>3. CASE pc'[p] = "unregister"
    <3>1. Rm(p) /\ pc[p] = "rm" /\ job[p].agent = a
      BY <1>0, <1>2, <2>3, Arrivals, Subjects DEF Rm
    <3>2. a \notin DOMAIN clone' /\ registry' = registry
      BY <1>0, <2>3, <3>1, RemovalSteps
    <3>3. a \in DOMAIN registry => registry[a].removing
      BY <1>0, <3>1 DEF RemovalInv, Active
    <3> QED
      BY <2>3, <3>2, <3>3
  <2>4. CASE pc'[p] = "unmark"
    <3>1. Unregister(p) /\ pc[p] = "unregister" /\ job[p].agent = a
      BY <1>0, <1>2, <2>4, Arrivals, Subjects DEF Unregister
    <3>2. a \in DOMAIN registry => registry[a].removing
      BY <1>0, <3>1 DEF RemovalInv, Active
    <3> QED
      BY <1>0, <2>4, <3>1, <3>2, RemovalSteps
  <2> QED
    BY <2>1, <2>2, <2>3, <2>4
<1> QED
  BY <1>0, <1>1, <1>2 DEF RemovalInv, Active, OnDisk

\* A task that may start touches nothing of the agents that are there, unless they failed.
LEMMA NoCollisions ==
  ASSUME NEW a, Collisions(a) = {}, NEW b \in DOMAIN registry,
         Clash(Predicted[a], registry[b].files)
  PROVE  Allowed(Predicted[a], registry[b].files) /\ registry[b].failed
<1>1. ~Collides(a, b)
  BY DEF Collisions, Active
<1> QED
  BY <1>1 DEF Collides, Allowed, FailedKept

\* Tasks leave the queue, or one enters it.
LEMMA QueueSteps ==
  ASSUME TypeOK, NEW p \in Proc, Step(p)
  PROVE  \/ RunLocked(p) /\ job[p].agent \notin DOMAIN registry /\ job[p].agent \notin Queued
                         /\ Len(queue') = Len(queue) + 1 /\ queue'[Len(queue) + 1].agent = job[p].agent
                         /\ \A i \in 1..Len(queue) : queue'[i] = queue[i]
         \/ queue' = queue
         \/ /\ Withdraw(p) \/ Dequeue(p)
            /\ Len(queue') = Len(queue) - 1
            /\ \E i \in 1..Len(queue) :
                 /\ queue[i].agent = job[p].agent
                 /\ \A j \in 1..(Len(queue) - 1) : queue'[j] = IF j < i THEN queue[j] ELSE queue[j + 1]
<1>0. queue \in Seq(Task)
  BY DEF TypeOK
<1>1. CASE RunLocked(p)
  <2> DEFINE t == [agent |-> job[p].agent, after |-> job[p].after, reuse |-> job[p].reuse, by |-> p]
  <2>1. \/ queue' = queue
        \/ /\ job[p].agent \notin DOMAIN registry /\ job[p].agent \notin Queued
           /\ queue' = Append(queue, t)
    BY <1>1 DEF RunLocked, Admissible, Active
  <2>2. t.agent = job[p].agent
    OBVIOUS
  <2> HIDE DEF t
  <2>3. /\ Len(Append(queue, t)) = Len(queue) + 1 /\ Append(queue, t)[Len(queue) + 1] = t
        /\ \A i \in 1..Len(queue) : Append(queue, t)[i] = queue[i]
    BY <1>0
  <2> QED
    BY <1>1, <2>1, <2>2, <2>3
<1>2. ASSUME Withdraw(p) \/ Dequeue(p), queue' # queue
      PROVE  /\ Len(queue') = Len(queue) - 1
             /\ \E i \in 1..Len(queue) :
                  /\ queue[i].agent = job[p].agent
                  /\ \A j \in 1..(Len(queue) - 1) : queue'[j] = IF j < i THEN queue[j] ELSE queue[j + 1]
  <2>1. PICK S \in SUBSET DOMAIN queue :
          RemoveTask(S) /\ \A i \in S : queue[i].agent = job[p].agent
    BY <1>2 DEF Withdraw, Dequeue
  <2> DEFINE i == CHOOSE i \in S : TRUE
  <2>2. i \in S /\ queue' = RemoveAt(queue, i)
    BY <1>2, <2>1 DEF RemoveTask
  <2>3. i \in 1..Len(queue) /\ queue[i].agent = job[p].agent
    BY <1>0, <2>1, <2>2
  <2> HIDE DEF i
  <2> QED
    BY <1>0, <2>2, <2>3, RemoveAtDef
<1> QED
  BY <1>1, <1>2, Writers DEF Writes

\* Nothing new waits, but what RunLocked has just let in.
LEMMA QueuedSteps ==
  ASSUME TypeOK, TypeOK', NEW p \in Proc, Step(p), NEW a \in Queued', a \notin Queued
  PROVE  RunLocked(p) /\ a = job[p].agent /\ a \notin DOMAIN registry
<1>0. queue \in Seq(Task) /\ queue' \in Seq(Task)
  BY DEF TypeOK
<1>1. PICK k \in 1..Len(queue') : a = queue'[k].agent
  BY <1>0 DEF Queued
<1>2. \A i \in 1..Len(queue) : queue[i].agent # a
  BY <1>0 DEF Queued
<1>3. queue' # queue
  BY <1>0, <1>1, <1>2
<1>4. CASE /\ Len(queue') = Len(queue) - 1
           /\ \E i \in 1..Len(queue) :
                 \A j \in 1..(Len(queue) - 1) : queue'[j] = IF j < i THEN queue[j] ELSE queue[j + 1]
  <2>1. k \in 1..Len(queue) /\ k + 1 \in 1..Len(queue)
    BY <1>0, <1>4
  <2> QED
    BY <1>0, <1>1, <1>2, <1>4, <2>1
<1>5. CASE /\ RunLocked(p) /\ job[p].agent \notin DOMAIN registry
           /\ Len(queue') = Len(queue) + 1 /\ queue'[Len(queue) + 1].agent = job[p].agent
           /\ \A i \in 1..Len(queue) : queue'[i] = queue[i]
  <2>1. k \in 1..Len(queue) \/ k = Len(queue) + 1
    BY <1>0, <1>5
  <2> QED
    BY <1>1, <1>2, <1>5, <2>1
<1> QED
  BY <1>3, <1>4, <1>5, QueueSteps

\* What failed stays failed while its entry is there.
LEMMA FailedStays ==
  ASSUME TypeOK, CycleInv, NEW p \in Proc, EntryStep(p),
         NEW b \in DOMAIN registry \cap DOMAIN registry', registry[b].failed
  PROVE  registry'[b].failed
<1>1. ~(b = job[p].agent /\ Conclude(p))
  BY DEF Conclude, CycleInv, CyclePCs, Active
<1> QED
  BY <1>1 DEF EntryStep

LEMMA StartKept ==
  ASSUME TInv, NEW p \in Proc, Step(p)
  PROVE  StartInv'
<1>0. /\ EntryStep(p) /\ CloneStep(p) /\ LandedStep(p) /\ TypeOK /\ TypeOK'
      /\ AgentInv /\ LockInv /\ StartInv /\ CycleInv
      /\ pc \in [Proc -> PCs] /\ job \in [Proc -> Job] /\ Nobody \notin Proc
      /\ \A q \in Proc \ {p} : pc'[q] = pc[q] /\ job'[q] = job[q]
  BY StepFacts, TaskAssumption DEF TInv
<1> DEFINE Free(a) == /\ a \notin DOMAIN registry'
                      /\ \A b \in DOMAIN registry' : Clash(Predicted[a], registry'[b].files) =>
                           Allowed(Predicted[a], registry'[b].files) /\ registry'[b].failed
           Anew(a) == /\ a \notin DOMAIN registry' /\ a \in DOMAIN clone' /\ clone'[a].commits = 0 /\ landed'[a] = 0
<1>1. ASSUME NEW q \in Proc \ {p}, NEW a, a = job[q].agent, pc[q] \in {"clone", "register"}
      PROVE  /\ job[q].like = a => Free(a) /\ (job[q].why # "queue" => a \notin Queued')
             /\ pc[q] = "register" => Anew(a)
  <2>1. pc[p] \notin LockedPCs /\ lock # Nobody
    BY <1>0, <1>1, Alone DEF LockedPCs, LockInv
  <2>2. ~Register(p) /\ ~Fresh(p) /\ ~Rm(p) /\ ~RunLocked(p)
    BY <2>1 DEF Register, Fresh, CreateClone, ReuseClone, Rm, RunLocked, LockedPCs
  <2>d. DOMAIN registry' \subseteq DOMAIN registry
    BY <1>0, <2>2 DEF EntryStep
  <2>3. ASSUME job[q].like = a PROVE Free(a)
    <3>1. a \notin DOMAIN registry'
      BY <1>0, <1>1, <2>3, <2>d DEF StartInv, Active
    <3>2. ASSUME NEW b \in DOMAIN registry', Clash(Predicted[a], registry'[b].files)
          PROVE  Allowed(Predicted[a], registry'[b].files) /\ registry'[b].failed
      <4>0. b \in DOMAIN registry /\ registry'[b].files = registry[b].files
        BY <1>0, <2>d DEF EntryStep
      <4>1. Allowed(Predicted[a], registry[b].files) /\ registry[b].failed
        BY <1>0, <1>1, <2>3, <3>2, <4>0 DEF StartInv, Active
      <4> QED
        BY <1>0, <4>0, <4>1, FailedStays
    <3> QED
      BY <3>1, <3>2
  <2>4. ASSUME job[q].like = a PROVE job[q].why # "queue" => a \notin Queued'
    <3>1. job[q].why # "queue" => a \notin Queued
      BY <1>0, <1>1, <2>4 DEF StartInv
    <3> QED
      BY <1>0, <2>2, <3>1, QueuedSteps
  <2>5. pc[q] = "register" => Anew(a)
    <3> SUFFICES ASSUME pc[q] = "register" PROVE Anew(a)
      OBVIOUS
    <3>1. /\ a \in DOMAIN clone /\ clone[a].commits = 0 /\ landed[a] = 0 /\ a \in Agent
          /\ a \notin DOMAIN registry'
      BY <1>0, <1>1, <2>d DEF StartInv, OnDisk, AgentInv, Active
    <3>2. ~(a = job[p].agent /\ Commit(p))
      BY <1>0, <1>1 DEF Commit, CycleInv, CyclePCs, StartInv, Active
    <3>3. a \in DOMAIN clone' /\ clone'[a] = clone[a]
      BY <1>0, <2>2, <3>1, <3>2 DEF CloneStep
    <3>4. landed'[a] = landed[a]
      BY <1>0, <2>1, <2>2, <3>1 DEF LandedStep
    <3> QED
      BY <3>1, <3>3, <3>4
  <2> QED
    BY <2>3, <2>4, <2>5
<1>2. ASSUME NEW a, a = job'[p].agent, pc'[p] \in {"clone", "register"}
      PROVE  /\ job'[p].like = a => Free(a) /\ (job'[p].why # "queue" => a \notin Queued')
             /\ pc'[p] = "register" => Anew(a)
  <2>1. CASE pc'[p] = "clone" /\ RunLocked(p)
    <3>1. /\ job' = job /\ registry' = registry /\ queue' = queue /\ pc[p] = "routed"
          /\ Admissible(job[p].agent, job[p].after) /\ Collisions(job[p].agent) = {}
      BY <1>0, <2>1 DEF RunLocked, Done, Goto
    <3>2. a \in Agent /\ a \notin DOMAIN registry /\ a \notin Queued /\ Queued' = Queued
      BY <1>0, <1>2, <3>1 DEF AgentInv, Admissible, Active, Queued
    <3> QED
      BY <1>0, <1>2, <2>1, <3>1, <3>2, NoCollisions
  <2>2. CASE pc'[p] = "clone" /\ Retry(p)
    <3>1. pc[p] = "retry" /\ pass[p] # <<>> /\ registry' = registry
      BY <1>0, <2>2 DEF Retry, Done, Goto
    <3> DEFINE t == Head(pass[p])
    <3>2. /\ ~HeldBack(t)
          /\ job' = [job EXCEPT ![p] = [NoJob EXCEPT !.why = "queue", !.agent = t.agent,
                                                     !.like = t.agent, !.reuse = t.reuse]]
      BY <1>0, <2>2, <3>1 DEF Retry
    <3>3. t \in Task
      BY <1>0, <3>1 DEF TypeOK
    <3> HIDE DEF t
    <3>4. a = t.agent /\ job'[p].why = "queue"
      BY <1>0, <1>2, <3>2 DEF NoJob
    <3>5. a \in Agent /\ a \notin DOMAIN registry /\ Collisions(a) = {}
      BY <3>2, <3>3, <3>4 DEF HeldBack, Task, Active
    <3> QED
      BY <1>0, <2>2, <3>1, <3>4, <3>5, NoCollisions
  <2>s. CASE pc'[p] = "clone" /\ \E s \in Starts : Start(p, s)
    <3>1. PICK s \in Starts : Start(p, s)
      BY <2>s
    <3>2. job'[p].agent = s.agent /\ job'[p].like = s.like
      BY <1>0, <3>1 DEF Start, NoJob
    <3> QED
      BY <1>2, <2>s, <3>2, TaskAssumption
  <2>3. CASE pc'[p] = "register"
    <3>1. /\ pc[p] = "clone" /\ job'[p] = job[p] /\ Fresh(p) /\ queue' = queue
      BY <1>0, <2>3, Arrivals, Subjects, FreshSteps DEF CreateClone, ReuseClone
    <3>2. registry' = registry /\ Anew(a)
      BY <1>2, <3>1 DEF Fresh
    <3> QED
      BY <1>0, <1>2, <2>3, <3>1, <3>2 DEF StartInv, Active, Queued
  <2> QED
    BY <1>0, <1>2, <2>1, <2>2, <2>s, <2>3, Arrivals
<1> QED
  BY <1>0, <1>1, <1>2 DEF StartInv, Active, OnDisk

LEMMA QueueKept ==
  ASSUME TInv, NEW p \in Proc, Step(p)
  PROVE  QueueInv'
<1>0. queue \in Seq(Task) /\ queue' \in Seq(Task) /\ QueueInv /\ TypeOK
  BY StepFacts DEF TInv, TypeOK
<1>1. \A i, j \in 1..Len(queue) : queue[i].agent = queue[j].agent => i = j
  BY <1>0 DEF QueueInv
<1> SUFFICES \A i, j \in 1..Len(queue') : queue'[i].agent = queue'[j].agent => i = j
  BY <1>0 DEF QueueInv
<1>2. CASE queue' = queue
  BY <1>1, <1>2
<1>3. CASE /\ job[p].agent \notin Queued
           /\ Len(queue') = Len(queue) + 1 /\ queue'[Len(queue) + 1].agent = job[p].agent
           /\ \A i \in 1..Len(queue) : queue'[i] = queue[i]
  <2>1. \A i \in 1..Len(queue) : queue[i].agent # job[p].agent
    BY <1>0, <1>3 DEF Queued
  <2> QED
    BY <1>0, <1>1, <1>3, <2>1
<1>4. CASE /\ Len(queue') = Len(queue) - 1
           /\ \E k \in 1..Len(queue) :
                 \A j \in 1..(Len(queue) - 1) : queue'[j] = IF j < k THEN queue[j] ELSE queue[j + 1]
  <2>1. PICK k \in 1..Len(queue) :
          \A j \in 1..(Len(queue) - 1) : queue'[j] = IF j < k THEN queue[j] ELSE queue[j + 1]
    BY <1>4
  <2> DEFINE was(j) == IF j < k THEN j ELSE j + 1
  <2>2. \A j \in 1..(Len(queue) - 1) : was(j) \in 1..Len(queue) /\ queue'[j] = queue[was(j)]
    BY <1>0, <2>1
  <2>3. \A i, j \in 1..(Len(queue) - 1) : was(i) = was(j) => i = j
    BY <1>0
  <2> HIDE DEF was
  <2> QED
    BY <1>1, <1>4, <2>2, <2>3
<1> QED
  BY <1>0, <1>2, <1>3, <1>4, QueueSteps

LEMMA SyncKept ==
  ASSUME TInv, NEW p \in Proc, Step(p)
  PROVE  SyncInv'
<1>0. /\ LandedStep(p) /\ TypeOK /\ TypeOK' /\ AgentInv /\ LockInv /\ SyncInv
      /\ pc \in [Proc -> PCs] /\ job \in [Proc -> Job] /\ Nobody \notin Proc
      /\ landed \in [Agent -> Nat] /\ landed' \in [Agent -> Nat]
      /\ \A q \in Proc \ {p} : pc'[q] = pc[q] /\ job'[q] = job[q]
  BY StepFacts, TaskAssumption DEF TInv, TypeOK
<1>1. ASSUME NEW q \in Proc \ {p}, pc[q] = "sync"
      PROVE  job[q].sha <= landed'[job[q].agent]
  <2>1. pc[p] \notin LockedPCs /\ lock # Nobody /\ job[q].agent \in Agent
    BY <1>0, <1>1, Alone DEF LockedPCs, LockInv, AgentInv
  <2>2. ~Fresh(p) /\ ~Rm(p)
    BY <2>1 DEF Fresh, CreateClone, ReuseClone, Rm, LockedPCs
  <2>3. landed'[job[q].agent] = landed[job[q].agent]
    BY <1>0, <2>1, <2>2 DEF LandedStep
  <2> QED
    BY <1>0, <1>1, <2>3 DEF SyncInv
<1>2. ASSUME NEW b \in Agent, MergeUnder(p, b), pc'[p] = "sync", pc[p] # "sync"
      PROVE  job'[p].sha <= landed'[job'[p].agent]
  <2> DEFINE head == clone[b].commits
             j == [NoJob EXCEPT !.why = job[p].why, !.agent = b, !.sha = head]
  <2>1. b \in DOMAIN clone /\ landed' = [landed EXCEPT ![b] = head] /\ job' = [job EXCEPT ![p] = j]
    BY <1>0, <1>2 DEF MergeUnder, Done, Goto, OnDisk
  <2>2. head \in Nat
    BY <1>0, <2>1 DEF TypeOK, Clone
  <2> HIDE DEF head
  <2>3. j.agent = b /\ j.sha = head
    BY DEF NoJob
  <2> HIDE DEF j
  <2> QED
    BY <1>0, <1>2, <2>1, <2>2, <2>3
<1>3. ASSUME pc'[p] = "sync"
      PROVE  job'[p].sha <= landed'[job'[p].agent]
  <2>1. CASE CycleMerge(p)
    <3>1. pc[p] = "merge" /\ job[p].agent \in Agent /\ MergeUnder(p, job[p].agent)
      BY <1>0, <2>1 DEF CycleMerge, AgentInv
    <3> QED
      BY <1>2, <1>3, <3>1
  <2>2. CASE \E a \in Agent : Merge(p, a)
    BY <1>2, <1>3, <2>2 DEF Merge, Does
  <2> QED
    BY <1>0, <1>3, <2>1, <2>2, Arrivals
<1> QED
  BY <1>0, <1>1, <1>3 DEF SyncInv

\* Who was started over whom is written down when it is.
LEMMA OverSteps ==
  ASSUME TypeOK, TypeOK', StartInv, NEW p \in Proc, Step(p), EntryStep(p)
  PROVE  /\ \A a \in DOMAIN registry' \ DOMAIN registry :
              job[p].like # a => a \in over'[a] /\ DOMAIN registry \subseteq over'[a]
         /\ \A a, b \in DOMAIN registry : b \in over[a] => b \in over'[a]
<1>0. DOMAIN registry \subseteq Agent /\ DOMAIN registry' \subseteq Agent
  BY DEF TypeOK
<1>1. CASE Register(p) /\ registry' # registry
  <2> DEFINE me == job[p].agent
  <2>1. me \notin DOMAIN registry
    BY <1>1 DEF Register, StartInv, Active
  <2>2. over' = [b \in Agent |-> IF b # me THEN over[b] \ {me}
                                 ELSE IF job[p].like = me THEN {} ELSE Active \cup {me}]
    BY <1>1 DEF Register
  <2>3. \A a \in DOMAIN registry' \ DOMAIN registry : a = me
    BY DEF EntryStep
  <2> QED
    BY <1>0, <2>1, <2>2, <2>3 DEF Active
<1>2. CASE registry' = registry \/ ~Register(p)
  <2>1. DOMAIN registry' \ DOMAIN registry = {}
    BY <1>2 DEF EntryStep
  <2>2. CASE over' = over
    BY <2>1, <2>2
  <2>3. CASE over' # over
    <3>1. Register(p) /\ registry' = registry
      BY <1>2, <2>3, Writers DEF Writes
    <3>2. \A a, b \in DOMAIN registry : b \in over[a] => b \in over'[a]
      BY <1>0, <2>3, <3>1 DEF Register, StartInv, Active
    <3> QED
      BY <2>1, <3>2
  <2> QED
    BY <2>2, <2>3
<1> QED
  BY <1>1, <1>2

LEMMA NoCollisionKept ==
  ASSUME TInv, NEW p \in Proc, Step(p)
  PROVE  NoCollision'
<1>0. EntryStep(p) /\ TypeOK /\ TypeOK' /\ StartInv /\ CycleInv /\ NoCollision
  BY StepFacts DEF TInv
<1> DEFINE Over(a, b) == a \in over'[b] \/ b \in over'[a]
           Alright(a, b) == /\ Allowed(registry'[a].files, registry'[b].files)
                            /\ registry'[a].failed \/ registry'[b].failed
<1>1. \A a, b \in DOMAIN registry : a # b /\ Clash(registry[a].files, registry[b].files) =>
         \/ a \in over[b] \/ b \in over[a]
         \/ Allowed(registry[a].files, registry[b].files) /\ (registry[a].failed \/ registry[b].failed)
  BY <1>0 DEF NoCollision, Allowed, Active
<1>2. \A f, g : (Clash(f, g) <=> Clash(g, f)) /\ (Allowed(f, g) <=> Allowed(g, f))
  BY DEF Clash, Allowed
<1>3. ASSUME NEW a \in DOMAIN registry' \ DOMAIN registry, NEW b \in DOMAIN registry', a # b,
             Clash(registry'[a].files, registry'[b].files)
      PROVE  Over(a, b) \/ Alright(a, b)
  <2>1. Register(p) /\ a = job[p].agent /\ b \in DOMAIN registry /\ registry'[a].files = Wanted(p)
    BY <1>0, <1>3 DEF EntryStep
  <2>2. CASE job[p].like # a
    BY <1>0, <1>3, <2>1, <2>2, OverSteps
  <2>3. CASE job[p].like = a
    <3>1. a # NoAgent
      BY <1>0, <1>3, TaskAssumption DEF TypeOK
    <3>2. registry'[a].files = Predicted[a] /\ registry'[b].files = registry[b].files
      BY <1>0, <2>1, <2>3, <3>1 DEF Wanted, EntryStep
    <3>3. Allowed(Predicted[a], registry[b].files) /\ registry[b].failed
      BY <1>0, <1>3, <2>1, <2>3, <3>2 DEF Register, StartInv, Active
    <3>4. registry'[b].failed
      BY <1>0, <2>1, <3>3, FailedStays
    <3> QED
      BY <3>2, <3>3, <3>4
  <2> QED
    BY <2>2, <2>3
<1>4. ASSUME NEW a \in DOMAIN registry', NEW b \in DOMAIN registry', a # b,
             Clash(registry'[a].files, registry'[b].files)
      PROVE  Over(a, b) \/ Alright(a, b)
  <2>1. CASE a \in DOMAIN registry /\ b \in DOMAIN registry
    <3>1. registry'[a].files = registry[a].files /\ registry'[b].files = registry[b].files
      BY <1>0, <2>1 DEF EntryStep
    <3>2. \/ a \in over[b] \/ b \in over[a]
          \/ Allowed(registry[a].files, registry[b].files) /\ (registry[a].failed \/ registry[b].failed)
      BY <1>1, <1>4, <2>1, <3>1
    <3>3. CASE a \in over[b] \/ b \in over[a]
      BY <1>0, <2>1, <3>3, OverSteps
    <3>4. CASE Allowed(registry[a].files, registry[b].files) /\ (registry[a].failed \/ registry[b].failed)
      BY <1>0, <2>1, <3>1, <3>4, FailedStays
    <3> QED
      BY <3>2, <3>3, <3>4
  <2>2. CASE a \notin DOMAIN registry
    BY <1>3, <1>4, <2>2
  <2>3. CASE b \notin DOMAIN registry
    BY <1>2, <1>3, <1>4, <2>3
  <2> QED
    BY <2>1, <2>2, <2>3
<1> QED
  BY <1>4 DEF NoCollision, Allowed, Active

LEMMA NotTwiceKept ==
  ASSUME TInv, Guarded, NEW p \in Proc, Step(p)
  PROVE  NotTwice'
<1>0. /\ EntryStep(p) /\ (Departure(p) \/ Crash(p)) /\ TypeOK /\ TypeOK' /\ StartInv /\ QueueInv /\ NotTwice
      /\ pc \in [Proc -> PCs] /\ job \in [Proc -> Job] /\ queue \in Seq(Task) /\ queue' \in Seq(Task)
      /\ \A q \in Proc \ {p} : pc'[q] = pc[q] /\ job'[q] = job[q]
      /\ "dequeue" \notin CrashAt
  BY StepFacts DEF TInv, Guarded, TypeOK
<1> SUFFICES ASSUME NEW a \in DOMAIN registry', a \in Queued'
             PROVE  a \in over'[a] \/ \E q \in Proc : job'[q].agent = a /\ pc'[q] = "dequeue"
  BY DEF NotTwice, Active
<1>1. CASE a \notin Queued
  <2>1. RunLocked(p) /\ a \notin DOMAIN registry
    BY <1>0, <1>1, QueuedSteps
  <2> QED
    BY <2>1 DEF RunLocked
<1>2. CASE a \in Queued /\ a \notin DOMAIN registry
  <2>1. Register(p) /\ a = job[p].agent
    BY <1>0, <1>2 DEF EntryStep
  <2>2. CASE job[p].like # a
    BY <1>0, <1>2, <2>2, OverSteps
  <2>3. CASE job[p].like = a
    <3>1. job[p].why = "queue"
      BY <1>0, <1>2, <2>1, <2>3 DEF Register, StartInv
    <3>2. pc'[p] = "dequeue" /\ job' = job
      BY <1>0, <1>2, <2>1, <3>1 DEF Register, Goto
    <3> QED
      BY <2>1, <3>2
  <2> QED
    BY <2>2, <2>3
<1>4. CASE a \in Queued /\ a \in DOMAIN registry /\ a \in over[a]
  BY <1>0, <1>4, OverSteps
<1>3. CASE a \in Queued /\ a \in DOMAIN registry /\ a \notin over[a]
  <2>1. PICK q \in Proc : job[q].agent = a /\ pc[q] = "dequeue"
    BY <1>0, <1>3 DEF NotTwice, Active
  <2>2. CASE q # p
    BY <1>0, <2>1, <2>2
  <2>3. CASE q = p
    <3>1. Dequeue(p)
      BY <1>0, <2>1, <2>3 DEF Departure, Crash
    <3> DEFINE S == {i \in DOMAIN queue : queue[i].agent = a}
    <3>2. PICK i \in 1..Len(queue) : S = {i} /\ queue' = RemoveAt(queue, i)
      <4>1. PICK i \in 1..Len(queue) : queue[i].agent = a
        BY <1>0, <1>3 DEF Queued
      <4>2. S = {i}
        BY <1>0, <4>1 DEF QueueInv
      <4>3. RemoveTask(S)
        BY <2>1, <2>3, <3>1 DEF Dequeue
      <4> HIDE DEF S
      <4>4. (CHOOSE k \in S : TRUE) = i
        BY <4>2
      <4> QED
        BY <4>2, <4>3, <4>4 DEF RemoveTask
    <3>3. /\ Len(queue') = Len(queue) - 1
          /\ \A j \in 1..(Len(queue) - 1) : queue'[j] = IF j < i THEN queue[j] ELSE queue[j + 1]
      BY <1>0, <3>2, RemoveAtDef
    <3>4. \A j \in 1..Len(queue) : j # i => queue[j].agent # a
      BY <1>0, <3>2
    <3>5. \A j \in 1..Len(queue') : queue'[j].agent # a
      BY <1>0, <3>3, <3>4
    <3> QED
      BY <1>0, <3>5 DEF Queued
  <2> QED
    BY <2>2, <2>3
<1> QED
  BY <1>1, <1>2, <1>3, <1>4

-----------------------------------------------------------------------------
(* What people and sessions preserve. *)

\* Nobody works in the clone of an agent that was decided about, nor in one without an
\* agent.
LEMMA WorkSteps ==
  ASSUME TInv, Guarded, NEW a \in Agent, Work(a)
  PROVE  /\ a \in DOMAIN clone /\ a \in DOMAIN registry /\ ~Decided(a)
         /\ DOMAIN clone' = DOMAIN clone /\ \A b \in DOMAIN clone : b # a => clone'[b] = clone[b]
         /\ clone[a].commits \in Nat /\ clone'[a].commits \in Nat
         /\ clone'[a].commits >= clone[a].commits
         /\ clone[a].dirty => clone'[a].commits > clone[a].commits
         /\ UNCHANGED <<lock, registry, landed, marker, queue, live, pc, job, pass, forsaken, over>>
<1>1. a \in DOMAIN clone /\ clone[a] \in Clone
  BY DEF Work, OnDisk, TInv, TypeOK
<1>2. clone[a].commits \in Nat
  BY <1>1 DEF Clone
<1>3. \/ clone' = [clone EXCEPT ![a] = [commits |-> clone[a].commits + 1, dirty |-> FALSE]]
      \/ clone' = [clone EXCEPT ![a].dirty = TRUE] /\ ~clone[a].dirty
  BY DEF Work
<1>4. /\ DOMAIN clone' = DOMAIN clone /\ \A b \in DOMAIN clone : b # a => clone'[b] = clone[b]
      /\ clone'[a].commits \in Nat /\ clone'[a].commits >= clone[a].commits
      /\ clone[a].dirty => clone'[a].commits > clone[a].commits
  <2>1. CASE clone' = [clone EXCEPT ![a] = [commits |-> clone[a].commits + 1, dirty |-> FALSE]]
    BY <1>1, <1>2, <2>1
  <2>2. CASE clone' = [clone EXCEPT ![a].dirty = TRUE] /\ ~clone[a].dirty
    BY <1>1, <1>2, <2>2 DEF Clone
  <2> QED
    BY <1>3, <2>1, <2>2
<1>5. a \in DOMAIN registry
  BY DEF Work, TInv, LiveInv, Alive, Active
<1>6. ~Decided(a)
  BY DEF Work, Guarded
<1> QED
  BY <1>1, <1>2, <1>4, <1>5, <1>6 DEF Work

\* What somebody does in a clone disturbs nothing that is known of the agents.
LEMMA WorkKeeps ==
  ASSUME TInv, Guarded, NEW a \in Agent, Work(a)
  PROVE  TInv'
<1>1. /\ a \in DOMAIN clone /\ a \in DOMAIN registry /\ ~Decided(a)
      /\ DOMAIN clone' = DOMAIN clone /\ \A b \in DOMAIN clone : b # a => clone'[b] = clone[b]
      /\ clone[a].commits \in Nat /\ clone'[a].commits \in Nat
      /\ clone'[a].commits >= clone[a].commits
      /\ registry' = registry /\ landed' = landed /\ marker' = marker /\ queue' = queue
      /\ lock' = lock /\ live' = live /\ pc' = pc /\ job' = job /\ forsaken' = forsaken
      /\ over' = over
  BY WorkSteps
<1>2. TypeOK' /\ AgentInv'
  BY TypeStep DEF TInv, Next
<1>3. ForceInv' /\ LockInv' /\ EntryInv' /\ QueueInv' /\ SyncInv' /\ NoCollision'
  BY <1>1 DEF TInv, ForceInv, LockInv, EntryInv, OnDisk, QueueInv, SyncInv, NoCollision, Active
<1>4. CloneInv'
  <2>1. landed[a] \in Nat /\ landed[a] <= clone[a].commits
    BY <1>1 DEF TInv, TypeOK, CloneInv
  <2>2. landed[a] <= clone'[a].commits
    BY <1>1, <2>1
  <2> QED
    BY <1>1, <2>2 DEF TInv, CloneInv, Active
<1>5. LiveInv' /\ CycleInv' /\ SessInv' /\ RemovalInv'
  BY <1>1 DEF TInv, LiveInv, Alive, Active, CycleInv, SessInv, RemovalInv, OnDisk
<1>6. DecidedInv'
  BY <1>1 DEF TInv, DecidedInv, Decided, Alive, Active, OnDisk
<1>7. CleanInv'
  <2> SUFFICES ASSUME NEW b \in DOMAIN registry, b \in DOMAIN clone,
                      \/ registry[b].removing
                      \/ \E p \in Proc : job[p].agent = b /\ pc[p] \in {"mark", "flag"}
               PROVE  ~clone'[b].dirty \/ b \in forsaken
    BY <1>1 DEF CleanInv, OnDisk
  <2>1. Decided(b)
    BY DEF TInv, EntryInv, Decided
  <2> QED
    BY <1>1, <2>1 DEF TInv, CleanInv, OnDisk
<1>8. StartInv'
  BY <1>1 DEF TInv, StartInv, Active, OnDisk, Queued
<1>9. NotTwice'
  BY <1>1 DEF TInv, NotTwice, Active, Queued
<1> QED
  BY <1>2, <1>3, <1>4, <1>5, <1>6, <1>7, <1>8, <1>9 DEF TInv

\* A session that ends is a session less: its PID may be registered still.
LEMMA SessionEndKeeps ==
  ASSUME TInv, NEW a \in Agent, SessionEnds(a)
  PROVE  TInv'
<1>1. /\ live' = live \ {a} /\ registry' = registry /\ landed' = landed /\ marker' = marker
      /\ queue' = queue /\ lock' = lock /\ clone' = clone /\ pc' = pc /\ job' = job
      /\ forsaken' = forsaken /\ over' = over
  BY DEF SessionEnds
<1>2. TypeOK' /\ AgentInv'
  BY TypeStep DEF TInv, Next
<1>3. /\ ForceInv' /\ LockInv' /\ EntryInv' /\ QueueInv' /\ SyncInv' /\ NoCollision' /\ CloneInv'
      /\ SessInv' /\ RemovalInv' /\ StartInv' /\ NotTwice' /\ CleanInv'
  BY <1>1 DEF TInv, ForceInv, LockInv, EntryInv, QueueInv, SyncInv, NoCollision, CloneInv,
              SessInv, RemovalInv, StartInv, NotTwice, CleanInv, Active, OnDisk, Queued
<1>4. LiveInv' /\ CycleInv'
  BY <1>1 DEF TInv, LiveInv, CycleInv, Alive, Active
<1>5. DecidedInv'
  BY <1>1 DEF TInv, DecidedInv, Decided, Alive, Active, OnDisk
<1> QED
  BY <1>2, <1>3, <1>4, <1>5 DEF TInv

-----------------------------------------------------------------------------
(* The invariant, and what it says. *)

\* Nothing is there at first.
LEMMA TInvInit == Init => TInv
<1> SUFFICES ASSUME Init PROVE TInv
  OBVIOUS
<1>1. /\ DOMAIN registry = {} /\ DOMAIN clone = {} /\ live = {} /\ DOMAIN queue = {}
      /\ \A p \in Proc : pc[p] = "idle" /\ job[p] = NoJob
  BY DEF Init
<1>2. TypeOK /\ AgentInv
  BY TypeInit
<1>3. ForceInv /\ LockInv /\ CycleInv /\ RemovalInv /\ StartInv /\ SyncInv
  BY <1>1 DEF ForceInv, LockInv, LockedPCs, CycleInv, CyclePCs, RemovalInv, StartInv, SyncInv
<1>4. /\ EntryInv /\ CloneInv /\ LiveInv /\ SessInv /\ DecidedInv /\ CleanInv /\ QueueInv
      /\ NoCollision /\ NotTwice
  BY <1>1 DEF EntryInv, CloneInv, LiveInv, SessInv, DecidedInv, CleanInv, QueueInv, NoCollision,
              NotTwice, Active
<1> QED
  BY <1>2, <1>3, <1>4 DEF TInv

\* One lemma per part, over the steps of one process.
LEMMA TInvStep ==
  ASSUME Guarded, TInv, [Next]_vars
  PROVE  TInv'
<1>1. ASSUME NEW p \in Proc, Step(p) PROVE TInv'
  <2>1. TypeOK' /\ AgentInv'
    BY TypeStep DEF TInv
  <2>2. ForceInv' /\ LockInv'
    BY <1>1, ForceStep, LockStep DEF TInv
  <2>3. EntryInv' /\ CloneInv' /\ LiveInv' /\ SessInv' /\ CycleInv'
    BY <1>1, EntryKept, CloneKept, LiveKept, SessKept, CycleKept
  <2>4. DecidedInv' /\ CleanInv' /\ RemovalInv' /\ StartInv'
    BY <1>1, DecidedKept, CleanKept, RemovalKept, StartKept
  <2>5. QueueInv' /\ SyncInv' /\ NoCollision' /\ NotTwice'
    BY <1>1, QueueKept, SyncKept, NoCollisionKept, NotTwiceKept
  <2> QED
    BY <2>1, <2>2, <2>3, <2>4, <2>5 DEF TInv
<1>2. ASSUME UNCHANGED vars PROVE TInv'
  <2>1. TypeOK' /\ AgentInv'
    BY TypeStep DEF TInv
  <2>2. /\ lock' = lock /\ registry' = registry /\ clone' = clone /\ landed' = landed
        /\ marker' = marker /\ queue' = queue /\ live' = live /\ pc' = pc /\ job' = job
        /\ forsaken' = forsaken /\ over' = over
    BY <1>2 DEF vars
  <2>3. /\ ForceInv' /\ LockInv' /\ EntryInv' /\ QueueInv' /\ SyncInv' /\ NoCollision' /\ CloneInv'
        /\ SessInv' /\ RemovalInv' /\ StartInv' /\ NotTwice' /\ CleanInv'
    BY <2>2 DEF TInv, ForceInv, LockInv, EntryInv, QueueInv, SyncInv, NoCollision, CloneInv,
                SessInv, RemovalInv, StartInv, NotTwice, CleanInv, Active, OnDisk, Queued
  <2>4. LiveInv' /\ CycleInv' /\ DecidedInv'
    BY <2>2 DEF TInv, LiveInv, CycleInv, DecidedInv, Decided, Alive, Active, OnDisk
  <2> QED
    BY <2>1, <2>3, <2>4 DEF TInv
<1> QED
  BY <1>1, <1>2, StepCases, WorkKeeps, SessionEndKeeps

\* The invariant holds in every state of every behaviour.
LEMMA Invariant ==
  ASSUME Guarded
  PROVE  Spec => []TInv
<1>1. Init => TInv
  BY TInvInit
<1>2. TInv /\ [Next]_vars => TInv'
  BY TInvStep
<1> QED
  BY <1>1, <1>2, PTL DEF Spec

\* SessionKept: nobody stops, cleans, merges or reconciles away an agent that works.  A
\* removal announced in the entry is also in the markers (EntryInv), hence decided, and
\* no agent that was decided about lives (DecidedInv).
THEOREM SessionStays ==
  ASSUME Guarded
  PROVE  Spec => []SessionKept
<1>1. TInv => SessionKept
  <2> SUFFICES ASSUME TInv, NEW a \in Agent, Alive(a)
               PROVE  a \in OnDisk /\ ~registry[a].removing
    BY DEF TInv, LiveInv, SessionKept
  <2>1. a \in DOMAIN registry
    BY DEF Alive, Active
  <2>2. ~registry[a].removing
    <3>1. ASSUME registry[a].removing PROVE Decided(a)
      BY <2>1, <3>1 DEF TInv, EntryInv, Decided
    <3> QED
      BY <2>1, <3>1 DEF TInv, DecidedInv
  <2> QED
    BY <2>1, <2>2 DEF TInv, EntryInv
<1> QED
  BY <1>1, Invariant, PTL

\* NoCollision: agents that are there together have disjoint predictions, or one of them
\* failed, or was started over the other without a look.  Who starts a task holds the lock from its look at the registry to its entry in it
\* (StartInv), and a failure that was recorded stays (FailedStays).
THEOREM AgentsApart ==
  ASSUME Guarded
  PROVE  Spec => []NoCollision
<1>1. TInv => NoCollision
  BY DEF TInv
<1> QED
  BY <1>1, Invariant, PTL

\* NotTwice: a task of the queue that has an agent is being taken out of the queue, by the
\* process that started it, unless its agent was started directly.
THEOREM StartsOnce ==
  ASSUME Guarded
  PROVE  Spec => []NotTwice
<1>1. TInv => NotTwice
  BY DEF TInv
<1> QED
  BY <1>1, Invariant, PTL

\* WorkKept: a step that takes commits away takes what is merged, what somebody gave up,
\* or is the one somebody asked for with force.
THEOREM WorkStays ==
  ASSUME Guarded
  PROVE  Spec => WorkKept
<1> DEFINE Kept(a) ==
             \/ /\ a \in OnDisk'
                /\ clone'[a].commits >= clone[a].commits
                /\ clone[a].dirty => clone'[a].dirty \/ clone'[a].commits > clone[a].commits
             \/ /\ clone[a].commits <= landed[a]
                /\ a \in Active \cup OnDisk' => ~clone[a].dirty
             \/ a \in forsaken
             \/ \E p \in Proc : job[p].agent = a /\ job[p].why = "asked" /\ job[p].force
<1>1. ASSUME TInv, Next, NEW a \in OnDisk PROVE Kept(a)
  <2>1. a \in DOMAIN clone /\ a \in Agent /\ clone[a].commits \in Nat /\ landed[a] \in Nat
    BY <1>1 DEF TInv, TypeOK, Clone, OnDisk
  <2>2. ASSUME NEW p \in Proc, Step(p) PROVE Kept(a)
    <3>1. CloneStep(p) /\ pc \in [Proc -> PCs]
      BY <1>1, <2>2, StepFacts
    <3>2. CASE a \notin DOMAIN clone'
      <4>1. a = job[p].agent /\ (Register(p) \/ Rm(p))
        BY <2>1, <3>1, <3>2 DEF CloneStep
      <4>2. CASE Register(p)
        <5>1. a \notin Active /\ clone[a].commits = 0
          BY <1>1, <4>1, <4>2 DEF TInv, StartInv, Register
        <5> QED
          BY <2>1, <3>2, <5>1 DEF OnDisk
      <4>3. CASE Rm(p)
        <5>1. pc[p] = "rm"
          BY <4>3 DEF Rm
        <5>2. CASE a \in DOMAIN registry
          <6>1. registry[a].removing /\ Decided(a)
            BY <1>1, <4>1, <5>1, <5>2 DEF TInv, RemovalInv, Decided, Active
          <6>2. clone[a].commits <= landed[a] \/ a \in forsaken
            BY <1>1, <5>2, <6>1 DEF TInv, DecidedInv
          <6>3. ~clone[a].dirty \/ a \in forsaken
            BY <1>1, <5>2, <6>1 DEF TInv, CleanInv
          <6> QED
            BY <6>2, <6>3
        <5>3. CASE a \notin DOMAIN registry
          BY <1>1, <2>1, <3>2, <5>3 DEF TInv, CloneInv, Active, OnDisk
        <5> QED
          BY <5>2, <5>3
      <4> QED
        BY <4>1, <4>2, <4>3
    <3>3. CASE a \in DOMAIN clone' /\ a = job[p].agent /\ Fresh(p)
      <4>1. ReuseClone(p) /\ a \notin Active 
            /\ (~job[p].force => clone[a].commits <= landed[a] /\ ~clone[a].dirty)
        BY <1>1, <2>1, <3>1, <3>3
           DEF Fresh, CreateClone, ReuseClone, Active, OnDisk, NotStarted, Done, Goto
      <4>2. pc[p] = "clone"
        BY <4>1 DEF ReuseClone
      <4>3. job[p].force => job[p].why = "asked"
        BY <1>1, <4>2 DEF TInv, ForceInv
      <4> QED
        BY <3>3, <4>1, <4>3
    <3>4. CASE a \in DOMAIN clone' /\ clone'[a] = clone[a]
      BY <2>1, <3>4 DEF OnDisk
    <3>5. CASE a \in DOMAIN clone' /\ clone'[a].commits > clone[a].commits
      <4>1. clone'[a].commits \in Nat
        BY <1>1, <2>2, <3>5, StepFacts DEF TypeOK, Clone
      <4> QED
        BY <2>1, <3>5, <4>1 DEF OnDisk
    <3> QED
      BY <2>1, <3>1, <3>2, <3>3, <3>4, <3>5 DEF CloneStep
  <2>3. ASSUME NEW b \in Agent, Work(b) PROVE Kept(a)
    BY <1>1, <2>1, <2>3, WorkSteps DEF OnDisk
  <2>4. ASSUME NEW b \in Agent, SessionEnds(b) PROVE Kept(a)
    BY <2>1, <2>4 DEF SessionEnds, OnDisk
  <2> QED
    BY <1>1, <2>2, <2>3, <2>4, StepCases
<1>2. TInv /\ [Next]_vars => [\A a \in OnDisk : Kept(a)]_vars
  <2> HIDE DEF Kept
  <2> QED
    BY <1>1 DEF vars
<1> QED
  BY <1>2, Invariant, PTL DEF Spec, WorkKept
=============================================================================
