--------------------------- MODULE MergeChain_proofs ---------------------------
(***************************************************************************)
(* What happens to the main repository is right for any number of processes,   *)
(* agents and commits, with crashes anywhere, suspensions in what lasts (the    *)
(* LLM, the gates) and locks taken from suspended holders, as long as no human  *)
(* acts between a look at the repository and the effect it allows (Shielded).   *)
(* The argument has two halves.  Who does not hold the lock is outside, on its  *)
(* way out, or was suspended in what lasts and will look at the lock before     *)
(* anything else: it changes nothing the others share.  Who holds the lock      *)
(* knows, at each point of its operation, what it looked at that is still so    *)
(* (Knows): its own steps carry that over, nobody else's step disturbs it.      *)
(* The answers are at the end: what the holder will say of the branch (Tells).  *)
(***************************************************************************)
EXTENDS MergeChain, TLAPS, FiniteSetTheorems, SequenceTheorems, WellFoundedInduction
-----------------------------------------------------------------------------
(* The lock. *)

\* Where a process may be without the lock: outside, on its way out, or because it was
\* suspended and has not looked yet.
Adrift == {"out", "leave", "llm", "gate", "check", "pmGate", "pmCheck"}

\* Who is suspended is in what lasts, who is dead does nothing.
StatusInv ==
  \A p \in Proc : /\ status[p] = "frozen" => pc[p] \in Long
                  /\ status[p] = "dead" => pc[p] = "out"

\* Everybody else holds the lock.
Held == \A p \in Proc : pc[p] \notin Adrift => holder = p

\* While a main session is declared, whoever holds the lock does nothing with it.
SessionHolds == session => \A p \in Proc : holder = p => pc[p] \in {"out", "enter", "leave"}

\* Neither does anybody once an operation recorded that the open merge is not its own,
\* which the marker says.
NoticedHolds ==
  noticed => /\ merge # None /\ Covers
             /\ \A p \in Proc : holder = p => pc[p] \in {"out", "enter", "recover", "leave"}

LockInv == StatusInv /\ Held /\ SessionHolds /\ NoticedHolds

-----------------------------------------------------------------------------
(* What an operation knows of itself. *)

Semantic == {"SEMANTIC_MERGE_FAILED", "SEMANTIC_GATE_FAILED"}

\* It has looked at nothing yet.
Fresh(p) ==
  /\ job[p].sha = 0 /\ job[p].retries = 0 /\ ~job[p].fused
  /\ job[p].goal = "none" /\ job[p].reason = "none"

OpenMergePcs == {"open", "blindAbort", "classify", "llm", "check", "write", "stamp", "gate",
                 "commit", "abort", "count", "ticket", "record", "meta", "apply", "drop", "close"}

KindInv(p) ==
  /\ pc[p] = "enter" => job[p].kind \in Kinds
  /\ pc[p] \in {"recover", "abortOrphan", "ready"} =>
       job[p].kind \in {"merge", "resolve", "rollback", "promote"}
  /\ job[p].kind \in {"merge", "resolve"} => job[p].agent \in Agent
  /\ pc[p] = "fetch" => job[p].kind = "merge"
  /\ pc[p] = "replay" => job[p].kind = "resolve"
  /\ pc[p] \in OpenMergePcs => job[p].kind \in {"merge", "resolve"} /\ job[p].sha > 0
  /\ pc[p] \in RollbackPcs => job[p].kind = "rollback"
  /\ pc[p] \in PromotePcs => job[p].kind = "promote"

GoalInv(p) ==
  /\ pc[p] \in {"enter", "recover", "abortOrphan", "ready", "fetch", "replay"} => Fresh(p)
  /\ pc[p] \in {"open", "classify", "apply"} =>
       job[p].retries = 0 /\ ~job[p].fused /\ job[p].goal = "none"
  /\ pc[p] \in {"open", "classify", "apply", "llm", "write", "stamp", "gate", "commit"} =>
       job[p].reason \notin Semantic
  /\ pc[p] = "check" /\ job[p].goal \in {"write", "commit"} => job[p].reason \notin Semantic
  /\ pc[p] = "write" => job[p].goal = "write"
  /\ pc[p] = "check" => job[p].goal \in {"write", "commit", "abort"}
  /\ pc[p] = "count" => job[p].reason \in Semantic
  /\ pc[p] \in {"rbAssert"} => job[p].goal \in {"rbReset", "rbRevert"}
  /\ pc[p] = "pmCheck" => job[p].goal \in {"pmSwap", "pmReset", "pmTicket"}
  /\ pc[p] \in {"pmGate", "pmCheck", "pmSwap"} => IsPrefix(job[p].base, job[p].head)
  /\ pc[p] = "gate" \/ (pc[p] = "check" /\ job[p].goal = "commit") => job[p].index \in Index

Own(p) == KindInv(p) /\ GoalInv(p)

-----------------------------------------------------------------------------
(* What the holder of the lock knows of the repository. *)

Mine(p) == merge # None /\ merge.by = p /\ merge.work = MyWork(p)

\* Between the look and the effect nothing is open.
ArrivalInv(p) ==
  /\ pc[p] \in {"ready", "fetch", "open", "blindAbort", "replay",
                "rbRead", "rbSettle", "rbAssert", "rbReset", "rbRevert", "pmRead"} => merge = None
  /\ pc[p] \in {"fetch", "open", "blindAbort", "replay"} => index = CleanIndex

\* The merge is the one the operation opened, unless a human closed it or opened another.
OpenInv(p) ==
  /\ pc[p] \in {"classify", "llm", "check", "write", "stamp", "gate", "commit", "abort"} =>
       merge = None \/ Mine(p) \/ merge.by = Human
  /\ pc[p] \in {"apply", "drop"} => merge = None \/ Mine(p)

\* The fingerprint does not match, and will not match again.
Stale(p) == ~Mine(p) \/ (index.touched /\ ~job[p].index.touched)

\* What was tested is what the fingerprint says, or the last look will tell.
TestedInv(p) ==
  /\ pc[p] = "gate" => index = job[p].index \/ Stale(p)
  /\ pc[p] = "check" /\ job[p].goal = "commit" => job[p].tested = job[p].index \/ Stale(p)
  /\ pc[p] \in {"write", "commit", "abort"} => Mine(p) /\ target = job[p].head
  /\ pc[p] = "commit" => index = job[p].tested

\* One write for the first fusion and one for each retry.
VersionInv(p) ==
  /\ pc[p] \in {"classify", "apply"} => index.version <= 1
  /\ pc[p] \in {"llm", "write"} \/ (pc[p] = "check" /\ job[p].goal = "write") =>
       index.version <= job[p].retries + 1
  /\ pc[p] \in {"stamp", "gate"} => index.version <= job[p].retries + 2

\* What a rollback read is still the branch, and its last commit is ours.
RollbackInv(p) ==
  pc[p] \in {"rbSettle", "rbAssert", "rbReset"} =>
    /\ target = job[p].head /\ target # <<>>
    /\ target[Len(target)].by \in Proc

\* What a promotion tested, and what it takes back.
PromotionInv(p) ==
  /\ pc[p] = "pmCheck" => job[p].gated = target
  /\ pc[p] = "pmSwap" => Tree(job[p].gated) = Tree(job[p].head)
  /\ pc[p] = "pmReset" => target = job[p].head

\* The LLM is at work, or was: the manual mode was not set, and only the holder sets it.
Fusing(p) ==
  /\ pc[p] \in {"llm", "check", "write", "stamp", "gate", "commit", "abort", "count"}
  /\ pc[p] = "llm" \/ job[p].goal = "write" \/ job[p].fused \/ job[p].reason \in Semantic

ManualInv(p) == Fusing(p) => ~manual

\* A failure on its way to be counted is one more than those counted.
CountInv(p) == Uncounted(p) => failures = MaxSemanticFailures \/ streak < failures

Knows(p) ==
  /\ ArrivalInv(p) /\ OpenInv(p) /\ TestedInv(p) /\ VersionInv(p)
  /\ RollbackInv(p) /\ PromotionInv(p) /\ ManualInv(p) /\ CountInv(p)

-----------------------------------------------------------------------------
(* The rest. *)

MergeInv == merge # None => IF merge.by = Human THEN merge.work \in HumanWork ELSE merge.work \in Work

StreakInv ==
  /\ ~manual => streak < MaxSemanticFailures
  /\ failures = MaxSemanticFailures \/ streak <= failures

MInv ==
  /\ TypeOK /\ LockInv /\ MergeInv /\ StreakInv
  /\ \A p \in Proc : Own(p)
  /\ \A p \in Proc : holder = p => Knows(p)
-----------------------------------------------------------------------------
(* Numbers and sets. *)

LEMMA MinOfTwo ==
  ASSUME NEW a \in Nat, NEW b \in Nat
  PROVE  Min({a, b}) = IF a <= b THEN a ELSE b
<1> DEFINE m == IF a <= b THEN a ELSE b
<1>1. m \in {a, b} /\ \A y \in {a, b} : m <= y
  OBVIOUS
<1>2. \A x \in {a, b} : (\A y \in {a, b} : x <= y) => x = m
  OBVIOUS
<1> QED
  BY <1>1, <1>2, SMT DEF Min

LEMMA MaxExists ==
  ASSUME NEW n \in Nat, NEW S \in SUBSET (0..n), S # {}
  PROVE  Max(S) \in S /\ \A x \in S : x <= Max(S)
<1> DEFINE Gap == {n - k : k \in S}
<1>1. Gap \subseteq Nat /\ Gap # {}
  OBVIOUS
<1>2. PICK g \in Gap : \A h \in Gap : ~(<<h, g>> \in OpToRel(<, Nat))
  BY <1>1, WFMin, NatLessThanWellFounded
<1>3. PICK m \in S : g = n - m
  OBVIOUS
<1>4. \A x \in S : n - x \in Gap
  OBVIOUS
<1>5. ASSUME NEW x \in S PROVE x <= m
  <2>1. n - x \in Nat /\ g \in Nat
    BY <1>1, <1>4
  <2>2. ~(n - x < g)
    BY <1>2, <1>4, <2>1 DEF OpToRel
  <2> QED
    BY <1>3, <2>2
<1>6. \E x \in S : \A y \in S : x >= y
  BY <1>5
<1> QED
  BY <1>6 DEF Max

LEMMA Constants ==
  /\ CleanIndex \in Index /\ MergedIndex \in Index /\ ConflictedIndex \in Index
  /\ CleanIndex.version = 0 /\ MergedIndex.version = 1 /\ ConflictedIndex.version = 1
  /\ NoJob \in Job
<1>1. 0 \in 0..(GateRetries + 2) /\ 1 \in 0..(GateRetries + 2) /\ 0 \in 0..MaxWork /\ 0 \in 0..GateRetries
  BY MergeChainAssumption
<1>2. CleanIndex \in Index /\ MergedIndex \in Index /\ ConflictedIndex \in Index
  BY <1>1 DEF CleanIndex, MergedIndex, ConflictedIndex, Index
<1>3. CleanIndex.version = 0 /\ MergedIndex.version = 1 /\ ConflictedIndex.version = 1
  BY DEF CleanIndex, MergedIndex, ConflictedIndex
<1>4. <<>> \in Seq(Commit)
  OBVIOUS
<1>5. NoJob \in Job
  BY <1>1, <1>4 DEF NoJob, Job, Goals, Results, Reasons
<1> QED
  BY <1>2, <1>3, <1>5
-----------------------------------------------------------------------------
(* Steps. *)

\* What one process does.
ProcStep(p) ==
  \/ \E kind \in Kinds, a \in Agent \cup {NoOne} :
       (kind \in {"merge", "resolve"} => a \in Agent) /\ Acquire(p, kind, a)
  \/ OperationStep(p)
  \/ Crash(p) \/ Freeze(p) \/ Thaw(p)

\* What people and agents do.
PeopleStep ==
  \/ \E a \in Agent : AgentCommits(a)
  \/ HumanOpens \/ HumanAborts \/ HumanTouches \/ HumanCommits \/ HumanCommitsNothing
  \/ HumanCommitsToMain \/ SessionEnds \/ Unlock

\* What the operations share.
Shared == <<session, repo, marker, lastMerged, streak, manual, tickets, noticed>>

LEMMA Steps ==
  ASSUME Next PROVE PeopleStep \/ \E p \in Proc : ProcStep(p)
  BY Zenon DEF Next, PeopleStep, ProcStep

\* A step of a process leaves the others where they are, and what they share alone
\* unless it holds the lock.
LEMMA Frames ==
  ASSUME TypeOK, Held, NEW p \in Proc, ProcStep(p)
  PROVE  /\ \A q \in Proc : q # p => pc'[q] = pc[q] /\ job'[q] = job[q] /\ status'[q] = status[q]
         /\ holder' \in {holder, p, NoOne}
         /\ holder = p \/ UNCHANGED Shared
<1> USE DEF Shared, repo, branches, books, people, history
<1>0. /\ pc \in [Proc -> PCs] /\ job \in [Proc -> Job] /\ status \in [Proc -> {"up", "frozen", "dead"}]
      /\ pc[p] \notin Adrift => holder = p
  BY DEF TypeOK, Held
<1>1. CASE Enter(p)
  BY <1>0, <1>1 DEF Adrift, Enter, At, Finish, Goto
<1>2. CASE Recover(p)
  BY <1>0, <1>2 DEF Adrift, Recover, At, Finish, Goto
<1>3. CASE AbortOrphan(p)
  BY <1>0, <1>3 DEF Adrift, AbortOrphan, At, Finish, Goto, Close
<1>4. CASE Ready(p)
  BY <1>0, <1>4 DEF Adrift, Ready, At, Finish, Goto
<1>5. CASE Leave(p)
  BY <1>0, <1>5 DEF Adrift, Leave, At, Goto
<1>6. CASE Fetch(p)
  BY <1>0, <1>6 DEF Adrift, Fetch, At, Goto
<1>7. CASE OpenTheMerge(p)
  BY <1>0, <1>7 DEF Adrift, OpenTheMerge, At, Refuse, Goto
<1>8. CASE BlindAbort(p)
  BY <1>0, <1>8 DEF Adrift, BlindAbort, At, Finish, Goto, Close
<1>9. CASE Classify(p)
  BY <1>0, <1>9 DEF Adrift, Classify, At, Refuse, Goto
<1>10. CASE Llm(p)
  BY <1>0, <1>10 DEF Adrift, Llm, At, Refuse, Goto
<1>11. CASE Check(p)
  BY <1>0, <1>11 DEF Adrift, Check, At, Finish, Goto
<1>12. CASE Write(p)
  BY <1>0, <1>12 DEF Adrift, Write, At, Refuse, Goto
<1>13. CASE Stamp(p)
  BY <1>0, <1>13 DEF Adrift, Stamp, At, Goto
<1>14. CASE GateGreen(p)
  BY <1>0, <1>14 DEF Adrift, GateGreen, At, Goto
<1>15. CASE GateRed(p)
  BY <1>0, <1>15 DEF Adrift, GateRed, At, Refuse, Goto
<1>16. CASE Conclude(p)
  BY <1>0, <1>16 DEF Adrift, Conclude, At, Refuse, Goto, Close
<1>17. CASE Record(p)
  BY <1>0, <1>17 DEF Adrift, Record, At, Goto
<1>18. CASE Meta(p)
  BY <1>0, <1>18 DEF Adrift, Meta, At, Finish, Goto
<1>19. CASE Abort(p)
  BY <1>0, <1>19 DEF Adrift, Abort, At, Finish, Goto, Close
<1>20. CASE Count(p)
  BY <1>0, <1>20 DEF Adrift, Count, At, Goto
<1>21. CASE FileTicket(p)
  BY <1>0, <1>21 DEF Adrift, FileTicket, At, Finish, Goto
<1>22. CASE Replay(p)
  BY <1>0, <1>22 DEF Adrift, Replay, At, Finish, Goto
<1>23. CASE Apply(p)
  BY <1>0, <1>23 DEF Adrift, Apply, At, Goto
<1>24. CASE Drop(p)
  BY <1>0, <1>24 DEF Adrift, Drop, At, Finish, Goto, Close
<1>25. CASE CloseTickets(p)
  BY <1>0, <1>25 DEF Adrift, CloseTickets, At, Finish, Goto
<1>26. CASE RbRead(p)
  BY <1>0, <1>26 DEF Adrift, RbRead, At, Finish, Goto
<1>27. CASE RbSettle(p)
  BY <1>0, <1>27 DEF Adrift, RbSettle, At, Goto
<1>28. CASE RbAssert(p)
  BY <1>0, <1>28 DEF Adrift, RbAssert, At, Finish, Goto
<1>29. CASE RbReset(p)
  BY <1>0, <1>29 DEF Adrift, RbReset, At, Goto, Close
<1>30. CASE RbRevert(p)
  BY <1>0, <1>30 DEF Adrift, RbRevert, At, Finish, Close, Goto
<1>31. CASE RbSync(p)
  BY <1>0, <1>31 DEF Adrift, RbSync, At, Finish, Goto
<1>32. CASE PmRead(p)
  BY <1>0, <1>32 DEF Adrift, PmRead, At, Finish, Goto
<1>33. CASE PmGate(p)
  BY <1>0, <1>33 DEF Adrift, PmGate, At, Goto
<1>34. CASE PmCheck(p)
  BY <1>0, <1>34 DEF Adrift, PmCheck, At, Finish, Goto
<1>35. CASE PmSwap(p)
  BY <1>0, <1>35 DEF Adrift, PmSwap, At, Finish, Goto
<1>36. CASE PmReset(p)
  BY <1>0, <1>36 DEF Adrift, PmReset, At, Goto, Close
<1>37. CASE PmTicket(p)
  BY <1>0, <1>37 DEF Adrift, PmTicket, At, Finish, Goto
<1>38. CASE \E kind \in Kinds, a \in Agent \cup {NoOne} : Acquire(p, kind, a)
  BY <1>0, <1>38 DEF Acquire, At, Goto
<1>39. CASE Crash(p) \/ Freeze(p) \/ Thaw(p)
  BY <1>0, <1>39 DEF Crash, Freeze, Thaw, Goto
<1> QED
  BY <1>1, <1>2, <1>3, <1>4, <1>5, <1>6, <1>7, <1>8, <1>9, <1>10, <1>11, <1>12, <1>13, <1>14, <1>15,
     <1>16, <1>17, <1>18, <1>19, <1>20, <1>21, <1>22, <1>23, <1>24, <1>25, <1>26, <1>27, <1>28,
     <1>29, <1>30, <1>31, <1>32, <1>33, <1>34, <1>35, <1>36, <1>37, <1>38, <1>39
     DEF ProcStep, OperationStep, MergeStep, ResolveStep, RollbackStep, PromoteStep

-----------------------------------------------------------------------------
(* Types. *)

LEMMA FinishJob ==
  ASSUME TypeOK, NEW p \in Proc, NEW r \in Results, Finish(p, r)
  PROVE  /\ pc' = [pc EXCEPT ![p] = "leave"]
         /\ job' = [job EXCEPT ![p] = job'[p]]
         /\ job'[p] \in Job
         /\ job'[p].kind = job[p].kind /\ job'[p].agent = job[p].agent
         /\ job'[p].sha = job[p].sha /\ job'[p].result = r
<1>1. job[p] \in Job /\ NoJob \in Job /\ p \in DOMAIN job
  BY Constants DEF TypeOK
<1>2. /\ [NoJob EXCEPT !.kind = job[p].kind, !.agent = job[p].agent,
                      !.sha = job[p].sha, !.result = r] \in Job
  BY <1>1 DEF Job
<1>3. /\ job'[p] = [NoJob EXCEPT !.kind = job[p].kind, !.agent = job[p].agent,
                                !.sha = job[p].sha, !.result = r]
      /\ job' = [job EXCEPT ![p] = job'[p]]
      /\ pc' = [pc EXCEPT ![p] = "leave"]
  BY <1>1 DEF Finish, Goto
<1> QED
  BY <1>1, <1>2, <1>3 DEF Job

\* The retries bound the writes.
LEMMA WriteType ==
  ASSUME MInv, NEW p \in Proc, Write(p) PROVE index' \in Index
<1>1. holder = p
  BY DEF MInv, LockInv, Held, Adrift, Write, At
<1>2. index.version <= job[p].retries + 1
  BY <1>1 DEF MInv, Knows, VersionInv, Write, At
<1>3. index \in Index /\ job[p] \in Job
  BY DEF MInv, TypeOK
<1>4. /\ index.version \in 0..(GateRetries + 2) /\ job[p].retries \in 0..GateRetries
      /\ index.touched \in BOOLEAN
      /\ index = [unmerged |-> index.unmerged, version |-> index.version, touched |-> index.touched]
  BY <1>3 DEF Index, Job
<1>5. index.version + 1 \in 0..(GateRetries + 2)
  BY <1>2, <1>4, MergeChainAssumption
<1>6. \/ index' = index
      \/ \E u \in {FALSE, index.unmerged} :
           index' = [unmerged |-> u, version |-> index.version + 1, touched |-> index.touched]
  <2>1. \/ index' = index
        \/ index' = [index EXCEPT !.unmerged = FALSE, !.version = @ + 1]
        \/ \E u \in {FALSE, index.unmerged} : index' = [index EXCEPT !.unmerged = u, !.version = @ + 1]
    BY DEF Write
  <2> QED
    BY <1>4, <2>1
<1>7. index.unmerged \in BOOLEAN
  BY <1>3 DEF Index
<1>8. \A u \in BOOLEAN :
        [unmerged |-> u, version |-> index.version + 1, touched |-> index.touched] \in Index
  BY <1>4, <1>5 DEF Index
<1> QED
  BY <1>3, <1>6, <1>7, <1>8

\* The updates of a job.
LEMMA Edits ==
  ASSUME NEW j \in Job
  PROVE  /\ \A g \in Goals : [j EXCEPT !.goal = g] \in Job
         /\ \A g \in Goals, r \in Reasons : [j EXCEPT !.goal = g, !.reason = r] \in Job
         /\ \A g \in Goals, r \in Reasons : [j EXCEPT !.goal = g, !.reason = r, !.spared = TRUE] \in Job
         /\ \A s \in 0..MaxWork, r \in Results : [j EXCEPT !.sha = s, !.result = r] \in Job
         /\ \A s \in 0..MaxWork, t \in Seq(Commit), r \in Reasons :
              [j EXCEPT !.sha = s, !.head = t, !.reason = r] \in Job
         /\ \A s \in 0..MaxWork, t \in Seq(Commit), g \in Goals :
              [j EXCEPT !.sha = s, !.head = t, !.goal = g] \in Job
         /\ \A s \in 0..MaxWork, t \in Seq(Commit), a \in Agent \cup {NoOne} :
              [j EXCEPT !.head = t, !.agent = a, !.sha = s] \in Job
         /\ \A t, b \in Seq(Commit) : [j EXCEPT !.head = t, !.base = b] \in Job
         /\ \A g \in Goals, t \in Seq(Commit) : [j EXCEPT !.goal = g, !.gated = t] \in Job
         /\ \A i \in Index : [j EXCEPT !.index = i] \in Job
         /\ \A i \in Index : [j EXCEPT !.index = i, !.fused = TRUE] \in Job
         /\ \A i \in Index \cup {None}, g \in Goals : [j EXCEPT !.tested = i, !.goal = g] \in Job
         /\ j.retries < GateRetries => [j EXCEPT !.retries = @ + 1] \in Job
<1>1. /\ \A g \in Goals : [j EXCEPT !.goal = g] \in Job
      /\ \A g \in Goals, r \in Reasons : [j EXCEPT !.goal = g, !.reason = r] \in Job
  BY MergeChainAssumption DEF Job
<1>2. /\ \A g \in Goals, r \in Reasons : [j EXCEPT !.goal = g, !.reason = r, !.spared = TRUE] \in Job
      /\ \A s \in 0..MaxWork, r \in Results : [j EXCEPT !.sha = s, !.result = r] \in Job
  BY MergeChainAssumption DEF Job
<1>3. \A s \in 0..MaxWork, t \in Seq(Commit), r \in Reasons : [j EXCEPT !.sha = s, !.head = t, !.reason = r] \in Job
  BY MergeChainAssumption DEF Job
<1>8. \A s \in 0..MaxWork, t \in Seq(Commit), g \in Goals : [j EXCEPT !.sha = s, !.head = t, !.goal = g] \in Job
  BY MergeChainAssumption DEF Job
<1>9. \A s \in 0..MaxWork, t \in Seq(Commit), a \in Agent \cup {NoOne} :
        [j EXCEPT !.head = t, !.agent = a, !.sha = s] \in Job
  BY MergeChainAssumption DEF Job
<1>4. /\ \A t, b \in Seq(Commit) : [j EXCEPT !.head = t, !.base = b] \in Job
      /\ \A g \in Goals, t \in Seq(Commit) : [j EXCEPT !.goal = g, !.gated = t] \in Job
  BY MergeChainAssumption DEF Job
<1>5. /\ \A i \in Index : [j EXCEPT !.index = i] \in Job
      /\ \A i \in Index : [j EXCEPT !.index = i, !.fused = TRUE] \in Job
  BY MergeChainAssumption DEF Job
<1>6. /\ \A i \in Index \cup {None}, g \in Goals : [j EXCEPT !.tested = i, !.goal = g] \in Job
  BY MergeChainAssumption DEF Job
<1>7. /\ j.retries < GateRetries => [j EXCEPT !.retries = @ + 1] \in Job
  <2> SUFFICES ASSUME j.retries < GateRetries PROVE [j EXCEPT !.retries = @ + 1] \in Job
    OBVIOUS
  <2>1. j.retries + 1 \in 0..GateRetries
    BY MergeChainAssumption DEF Job
  <2> QED
    BY <2>1 DEF Job
<1> QED
  BY <1>1, <1>2, <1>3, <1>4, <1>5, <1>6, <1>7, <1>8, <1>9

LEMMA JobType ==
  ASSUME MInv, NEW p \in Proc, ProcStep(p)
  PROVE  job' \in [Proc -> Job]
<1> DEFINE j == job[p]
<1>0. /\ TypeOK /\ job \in [Proc -> Job] /\ j \in Job /\ NoJob \in Job /\ NoOne \notin Agent
      /\ KindInv(p)
  BY Constants, MergeChainAssumption DEF MInv, TypeOK, Own
<1>t. /\ target \in Seq(Commit) /\ main \in Seq(Commit) /\ index \in Index
      /\ head \in [Agent -> 0..MaxWork]
  BY <1>0 DEF TypeOK
<1>a. ASSUME NEW r \in Results, Finish(p, r) PROVE job' \in [Proc -> Job]
  BY <1>0, <1>a, FinishJob
<1>b. ASSUME NEW i \in Job, job' = [job EXCEPT ![p] = i] PROVE job' \in [Proc -> Job]
  BY <1>0, <1>b
<1>c. ASSUME NEW r \in Reasons, Refuse(p, r) PROVE job' \in [Proc -> Job]
  <2>1. job' = [job EXCEPT ![p] = [j EXCEPT !.goal = "abort", !.reason = r]]
    BY <1>c DEF Refuse
  <2>2. [j EXCEPT !.goal = "abort", !.reason = r] \in Job
    BY <1>0, Edits DEF Goals
  <2> QED
    BY <1>b, <2>1, <2>2
<1>1. CASE Enter(p)
  BY <1>0, <1>1, <1>a DEF Enter, Results
<1>2. CASE Recover(p)
  BY <1>0, <1>2, <1>a DEF Recover, Results
<1>3. CASE AbortOrphan(p)
  BY <1>0, <1>3, <1>a DEF AbortOrphan, Results
<1>4. CASE Ready(p)
  BY <1>0, <1>4, <1>a DEF Ready, Results
<1>5. CASE Leave(p)
  BY <1>0, <1>5, <1>b DEF Leave
<1>6. CASE Fetch(p)
  <2> DEFINE sha == head[j.agent]
  <2>1. sha \in 0..MaxWork
    BY <1>0, <1>t, <1>6 DEF Fetch, At, KindInv
  <2>2. /\ [j EXCEPT !.sha = sha, !.result = "upToDate"] \in Job
        /\ [j EXCEPT !.sha = sha, !.head = target, !.reason = "none"] \in Job
        /\ [j EXCEPT !.sha = sha, !.head = target, !.reason = "PROTECTED_PATHS_CHANGED"] \in Job
    BY <1>0, <1>t, <2>1, Edits DEF Results, Reasons
  <2>3. \/ job' = [job EXCEPT ![p] = [j EXCEPT !.sha = sha, !.result = "upToDate"]]
        \/ job' = [job EXCEPT ![p] = [j EXCEPT !.sha = sha, !.head = target, !.reason = "none"]]
        \/ job' = [job EXCEPT ![p] = [j EXCEPT !.sha = sha, !.head = target,
                                             !.reason = "PROTECTED_PATHS_CHANGED"]]
    BY <1>6 DEF Fetch
  <2> QED
    BY <1>b, <2>2, <2>3
<1>7. CASE OpenTheMerge(p)
  BY <1>0, <1>7, <1>c DEF OpenTheMerge, Reasons
<1>8. CASE BlindAbort(p)
  BY <1>0, <1>8, <1>a DEF BlindAbort, Results
<1>9. CASE Classify(p)
  BY <1>0, <1>9, <1>c DEF Classify, Reasons
<1>10. CASE Llm(p)
  <2>1. PICK r \in Reasons : \/ job' = [job EXCEPT ![p] = [j EXCEPT !.goal = "write"]]
                            \/ job' = [job EXCEPT ![p] = [j EXCEPT !.goal = "abort", !.reason = r]]
                            \/ job' = [job EXCEPT ![p] = [j EXCEPT !.goal = "abort", !.reason = r,
                                                                  !.spared = TRUE]]
    BY <1>10 DEF Llm, Refuse, SemanticReason, Reasons
  <2>2. /\ [j EXCEPT !.goal = "write"] \in Job
        /\ [j EXCEPT !.goal = "abort", !.reason = r] \in Job
        /\ [j EXCEPT !.goal = "abort", !.reason = r, !.spared = TRUE] \in Job
    BY <1>0, Edits DEF Goals
  <2> QED
    BY <1>b, <2>1, <2>2
<1>11. CASE Check(p)
  BY <1>0, <1>11, <1>a DEF Check, Results
<1>12. CASE Write(p)
  <2>1. index' \in Index
    BY <1>12, WriteType
  <2>2. CASE job' = [job EXCEPT ![p] = [j EXCEPT !.index = index', !.fused = TRUE]]
    BY <1>0, <1>b, <2>1, <2>2, Edits
  <2>3. ASSUME NEW r \in Reasons, Refuse(p, r) PROVE job' \in [Proc -> Job]
    BY <1>c, <2>3
  <2>4. ASSUME NEW r \in Reasons, NEW known \in {j.index, index, index'},
               job' = [job EXCEPT ![p] = [j EXCEPT !.goal = "abort", !.reason = r, !.index = known]]
        PROVE  job' \in [Proc -> Job]
    <3>1. known \in Index \cup {None}
      BY <1>0, <1>t, <2>1 DEF Job
    <3>2. [j EXCEPT !.goal = "abort", !.reason = r] \in Job
      BY <1>0, Edits DEF Goals
    <3>3. [j EXCEPT !.goal = "abort", !.reason = r, !.index = known] \in Job
      BY <3>1, <3>2 DEF Job
    <3> QED
      BY <1>b, <2>4, <3>3
  <2>5. SemanticReason(p) \in Reasons
    BY DEF SemanticReason, Reasons
  <2>6. \/ job' = [job EXCEPT ![p] = [j EXCEPT !.index = index', !.fused = TRUE]]
        \/ Refuse(p, SemanticReason(p))
        \/ \E known \in {j.index, index, index'} :
             job' = [job EXCEPT ![p] = [j EXCEPT !.goal = "abort", !.reason = SemanticReason(p),
                                                !.index = known]]
    BY <1>12 DEF Write
  <2> QED
    BY <2>2, <2>3, <2>4, <2>5, <2>6
<1>13. CASE Stamp(p)
  <2>1. job' = [job EXCEPT ![p] = [j EXCEPT !.index = index]]
    BY <1>13 DEF Stamp
  <2> QED
    BY <1>0, <1>b, <1>t, <2>1, Edits
<1>14. CASE GateGreen(p)
  <2>1. PICK i \in Index \cup {None} :
           job' = [job EXCEPT ![p] = [j EXCEPT !.tested = i, !.goal = "commit"]]
    BY <1>t, <1>14 DEF GateGreen
  <2> QED
    BY <1>0, <1>b, <2>1, Edits DEF Goals
<1>15. CASE GateRed(p)
  <2>1. CASE j.retries < GateRetries /\ job' = [job EXCEPT ![p] = [j EXCEPT !.retries = @ + 1]]
    BY <1>0, <1>b, <2>1, Edits
  <2> QED
    BY <1>c, <1>15, <2>1 DEF GateRed, Reasons
<1>16. CASE Conclude(p)
  BY <1>0, <1>16, <1>c DEF Conclude, Reasons
<1>17. CASE Record(p)
  BY <1>0, <1>17 DEF Record
<1>18. CASE Meta(p)
  BY <1>0, <1>18, <1>a DEF Meta, Results
<1>19. CASE Abort(p)
  BY <1>0, <1>19, <1>a DEF Abort, Results
<1>20. CASE Count(p)
  BY <1>0, <1>20 DEF Count
<1>21. CASE FileTicket(p)
  BY <1>0, <1>21, <1>a DEF FileTicket, Results
<1>22. CASE Replay(p)
  <2>1. \/ Finish(p, "failed")
        \/ \E t \in tickets : \E goal \in {"none", "close"} :
             /\ t.work[1] = j.agent
             /\ job' = [job EXCEPT ![p].sha = t.work[2], ![p].head = target, ![p].goal = goal]
    BY <1>22 DEF Replay
  <2>2. CASE Finish(p, "failed")
    BY <1>a, <2>2 DEF Results
  <2>3. ASSUME NEW t \in tickets, NEW goal \in {"none", "close"}, t.work[1] = j.agent,
               job' = [job EXCEPT ![p].sha = t.work[2], ![p].head = target, ![p].goal = goal]
        PROVE  job' \in [Proc -> Job]
    <3>1. j.agent \in Agent /\ t \in Ticket
      BY <1>0, <1>22 DEF Replay, At, KindInv, TypeOK
    <3>2. t.work[2] \in 0..MaxWork
      BY <1>0, <2>3, <3>1, MergeChainAssumption DEF Ticket, Work
    <3>3. job' = [job EXCEPT ![p] = [j EXCEPT !.sha = t.work[2], !.head = target, !.goal = goal]]
      BY <2>3
    <3> QED
      BY <1>0, <1>b, <1>t, <3>2, <3>3, Edits DEF Goals
  <2> QED
    BY <2>1, <2>2, <2>3
<1>23. CASE Apply(p)
  BY <1>0, <1>23 DEF Apply
<1>24. CASE Drop(p)
  BY <1>0, <1>24, <1>a DEF Drop, Results
<1>25. CASE CloseTickets(p)
  BY <1>0, <1>25, <1>a DEF CloseTickets, Results
<1>26. CASE RbRead(p)
  <2>1. CASE /\ target # <<>>
             /\ job' = [job EXCEPT ![p] = [j EXCEPT !.head = target,
                         !.agent = target[Len(target)].work[1], !.sha = target[Len(target)].work[2]]]
    <3>1. target[Len(target)] \in Commit
      BY <1>t, <2>1
    <3>2. target[Len(target)].work[1] \in Agent \cup {NoOne} /\ target[Len(target)].work[2] \in 0..MaxWork
      BY <3>1, MergeChainAssumption DEF Commit, Work
    <3> QED
      BY <1>0, <1>b, <1>t, <2>1, <3>2, Edits
  <2> QED
    BY <1>a, <1>26, <2>1 DEF RbRead, Results
<1>27. CASE RbSettle(p)
  <2>1. PICK goal \in Goals : job' = [job EXCEPT ![p] = [j EXCEPT !.goal = goal]]
    BY <1>27 DEF RbSettle, Goals
  <2> QED
    BY <1>0, <1>b, <2>1, Edits
<1>28. CASE RbAssert(p)
  BY <1>0, <1>28, <1>a DEF RbAssert, Results
<1>29. CASE RbReset(p)
  BY <1>0, <1>29 DEF RbReset
<1>30. CASE RbRevert(p)
  BY <1>0, <1>30, <1>a DEF RbRevert, Results
<1>31. CASE RbSync(p)
  BY <1>0, <1>31, <1>a DEF RbSync, Results
<1>32. CASE PmRead(p)
  <2>1. CASE job' = [job EXCEPT ![p] = [j EXCEPT !.head = target, !.base = main]]
    BY <1>0, <1>b, <1>t, <2>1, Edits
  <2> QED
    BY <1>a, <1>32, <2>1 DEF PmRead, Results
<1>33. CASE PmGate(p)
  <2>1. PICK goal \in Goals : job' = [job EXCEPT ![p] = [j EXCEPT !.goal = goal, !.gated = target]]
    BY <1>33 DEF PmGate, Goals
  <2> QED
    BY <1>0, <1>b, <1>t, <2>1, <1>t, Edits
<1>34. CASE PmCheck(p)
  BY <1>0, <1>34, <1>a DEF PmCheck, Results
<1>35. CASE PmSwap(p)
  BY <1>0, <1>35, <1>a DEF PmSwap, Results
<1>36. CASE PmReset(p)
  BY <1>0, <1>36 DEF PmReset
<1>37. CASE PmTicket(p)
  BY <1>0, <1>37, <1>a DEF PmTicket, Results
<1>38. CASE \E kind \in Kinds, a \in Agent \cup {NoOne} : Acquire(p, kind, a)
  <2>1. PICK kind \in Kinds, a \in Agent \cup {NoOne} :
           job' = [job EXCEPT ![p] = [NoJob EXCEPT !.kind = kind, !.agent = a]]
    BY <1>38 DEF Acquire
  <2>2. [NoJob EXCEPT !.kind = kind, !.agent = a] \in Job
    BY <1>0 DEF Job
  <2> QED
    BY <1>b, <2>1, <2>2
<1>39. CASE Crash(p) \/ Freeze(p) \/ Thaw(p)
  BY <1>0, <1>b, <1>39 DEF Crash, Freeze, Thaw
<1> QED
  BY <1>1, <1>2, <1>3, <1>4, <1>5, <1>6, <1>7, <1>8, <1>9, <1>10, <1>11, <1>12, <1>13, <1>14, <1>15,
     <1>16, <1>17, <1>18, <1>19, <1>20, <1>21, <1>22, <1>23, <1>24, <1>25, <1>26, <1>27, <1>28,
     <1>29, <1>30, <1>31, <1>32, <1>33, <1>34, <1>35, <1>36, <1>37, <1>38, <1>39
     DEF ProcStep, OperationStep, MergeStep, ResolveStep, RollbackStep, PromoteStep

\* The last commit that landed, in a given branch.
LandedIn(s, a) ==
  Max({0} \cup {c.work[2] : c \in {d \in {s[i] : i \in 1..Len(s)} : d.kind = "merge" /\ d.work[1] = a}})

Merges(s, a, i) == i \in 1..Len(s) /\ s[i].kind = "merge" /\ s[i].work[1] = a

LEMMA LandedMax ==
  ASSUME NEW s \in Seq(Commit), NEW a
  PROVE  /\ LandedIn(s, a) \in 0..MaxWork
         /\ \A i : Merges(s, a, i) => s[i].work[2] <= LandedIn(s, a)
         /\ LandedIn(s, a) = 0 \/ \E i : Merges(s, a, i) /\ s[i].work[2] = LandedIn(s, a)
<1> DEFINE S == {0} \cup {c.work[2] : c \in {d \in {s[i] : i \in 1..Len(s)} : d.kind = "merge" /\ d.work[1] = a}}
<1>1. ASSUME NEW x \in S, x # 0 PROVE \E i : Merges(s, a, i) /\ s[i].work[2] = x
  BY <1>1 DEF Merges
<1>2. ASSUME NEW i, Merges(s, a, i) PROVE s[i].work[2] \in 0..MaxWork /\ s[i].work[2] \in S
  <2>1. s[i] \in Commit
    BY <1>2 DEF Merges
  <2>2. s[i].work[2] \in 0..MaxWork
    BY <2>1, MergeChainAssumption DEF Commit, Work
  <2> QED
    BY <1>2, <2>2 DEF Merges
<1>3. S \in SUBSET (0..MaxWork) /\ S # {}
  <2>1. 0 \in S
    OBVIOUS
  <2> HIDE DEF S
  <2>2. \A x \in S : x \in 0..MaxWork
    BY <1>1, <1>2, MergeChainAssumption
  <2> QED
    BY <2>1, <2>2
<1>4. Max(S) \in S /\ \A x \in S : x <= Max(S)
  <2> HIDE DEF S
  <2> QED
    BY <1>3, MaxExists, MergeChainAssumption
<1>5. LandedIn(s, a) = Max(S)
  BY DEF LandedIn
<1> QED
  BY <1>1, <1>2, <1>3, <1>4, <1>5

LEMMA LandedHere == \A a : Landed(a) = LandedIn(target, a) /\ Landed(a)' = LandedIn(target', a)
  BY DEF Landed, LandedIn, Commits

\* One more failure is a number within the bound.
LEMMA FailuresType ==
  ASSUME failures \in 0..MaxSemanticFailures, OneMoreFailure
  PROVE  /\ failures' \in 0..MaxSemanticFailures /\ failures' >= failures
         /\ failures' = MaxSemanticFailures \/ failures' = failures + 1
<1>1. failures' = IF failures + 1 <= MaxSemanticFailures THEN failures + 1 ELSE MaxSemanticFailures
  BY MinOfTwo, MergeChainAssumption DEF OneMoreFailure
<1> QED
  BY <1>1, MergeChainAssumption


\* The steps that move the repository, those that write the books, those that count
\* failures.
RepoStep(p) ==
  \/ AbortOrphan(p) \/ OpenTheMerge(p) \/ BlindAbort(p) \/ Write(p) \/ Conclude(p) \/ Abort(p)
  \/ Replay(p) \/ Apply(p) \/ Drop(p) \/ RbReset(p) \/ RbRevert(p) \/ PmSwap(p) \/ PmReset(p)
BookStep(p) ==
  \/ Recover(p) \/ Fetch(p) \/ Check(p) \/ Record(p) \/ Meta(p) \/ Count(p) \/ FileTicket(p)
  \/ CloseTickets(p) \/ RbSync(p) \/ PmTicket(p)
FailureStep(p) ==
  \/ Llm(p) \/ Write(p) \/ GateRed(p) \/ Record(p)

LEMMA Untouched ==
  ASSUME NEW p \in Proc, ProcStep(p)
  PROVE  /\ RepoStep(p) \/ UNCHANGED repo
         /\ BookStep(p) \/ UNCHANGED books
         /\ FailureStep(p) \/ UNCHANGED failures
         /\ UNCHANGED <<head, gestures>>
<1> USE DEF repo, branches, books, people, history, RepoStep, BookStep, FailureStep
<1>1. CASE Enter(p) \/ Recover(p) \/ AbortOrphan(p) \/ Ready(p) \/ Leave(p)
  BY <1>1 DEF Enter, Recover, AbortOrphan, Ready, Leave
<1>2. CASE MergeStep(p)
  BY <1>2 DEF MergeStep, Fetch, OpenTheMerge, BlindAbort, Classify, Llm, Check, Write, Stamp,
         GateGreen, GateRed, Conclude, Record, Meta, Abort, Count, FileTicket
<1>3. CASE ResolveStep(p)
  BY <1>3 DEF ResolveStep, Replay, Apply, Drop, CloseTickets
<1>4. CASE RollbackStep(p)
  BY <1>4 DEF RollbackStep, RbRead, RbSettle, RbAssert, RbReset, RbRevert, RbSync
<1>5. CASE PromoteStep(p)
  BY <1>5 DEF PromoteStep, PmRead, PmGate, PmCheck, PmSwap, PmReset, PmTicket
<1>6. CASE \E kind \in Kinds, a \in Agent \cup {NoOne} : Acquire(p, kind, a)
  BY <1>6 DEF Acquire
<1>7. CASE Crash(p) \/ Freeze(p) \/ Thaw(p)
  BY <1>7 DEF Crash, Freeze, Thaw
<1> QED
  BY <1>1, <1>2, <1>3, <1>4, <1>5, <1>6, <1>7 DEF ProcStep, OperationStep

ControlTypes ==
  /\ status \in [Proc -> {"up", "frozen", "dead"}]
  /\ holder \in Proc \cup {NoOne}
  /\ session \in BOOLEAN
  /\ pc \in [Proc -> PCs]

RepoTypes ==
  /\ target \in Seq(Commit) /\ main \in Seq(Commit) /\ forgotten \subseteq Agent
  /\ merge \in OpenMerge \cup {None}
  /\ index \in Index

Markers == {None} \cup {[mergeHead |-> w] : w \in Work \cup HumanWork \cup {None}}

BookTypes ==
  /\ marker \in Markers
  /\ lastMerged \in [Agent -> 0..MaxWork]
  /\ streak \in 0..MaxSemanticFailures
  /\ manual \in BOOLEAN
  /\ tickets \subseteq Ticket

LEMMA StepControlTypes ==
  ASSUME MInv, NEW p \in Proc, ProcStep(p)
  PROVE  ControlTypes'
<1> USE DEF ControlTypes, PCs, MergePcs, ResolvePcs, RollbackPcs, PromotePcs, repo, branches, books,
            people, history
<1>0. ControlTypes /\ KindInv(p) /\ GoalInv(p)
  BY DEF MInv, Own, TypeOK
<1>1. CASE Enter(p)
  BY <1>0, <1>1 DEF Enter, At, Finish, Goto
<1>2. CASE Recover(p)
  BY <1>0, <1>2 DEF Recover, At, Finish, Goto
<1>3. CASE AbortOrphan(p)
  BY <1>0, <1>3 DEF AbortOrphan, At, Finish, Goto, Close
<1>4. CASE Ready(p)
  BY <1>0, <1>4 DEF Ready, At, Finish, Goto, KindInv
<1>5. CASE Leave(p)
  BY <1>0, <1>5 DEF Leave, At, Goto
<1>6. CASE Fetch(p)
  BY <1>0, <1>6 DEF Fetch, At, Goto
<1>7. CASE OpenTheMerge(p)
  BY <1>0, <1>7 DEF OpenTheMerge, At, Refuse, Goto
<1>8. CASE BlindAbort(p)
  BY <1>0, <1>8 DEF BlindAbort, At, Finish, Goto, Close
<1>9. CASE Classify(p)
  BY <1>0, <1>9 DEF Classify, At, Refuse, Goto
<1>10. CASE Llm(p)
  BY <1>0, <1>10 DEF Llm, At, Refuse, Goto
<1>11. CASE Check(p)
  BY <1>0, <1>11 DEF Check, At, Finish, Goto, GoalInv
<1>12. CASE Write(p)
  BY <1>0, <1>12 DEF Write, At, Refuse, Goto
<1>13. CASE Stamp(p)
  BY <1>0, <1>13 DEF Stamp, At, Goto
<1>14. CASE GateGreen(p)
  BY <1>0, <1>14 DEF GateGreen, At, Goto
<1>15. CASE GateRed(p)
  BY <1>0, <1>15 DEF GateRed, At, Refuse, Goto
<1>16. CASE Conclude(p)
  BY <1>0, <1>16 DEF Conclude, At, Refuse, Goto, Close
<1>17. CASE Record(p)
  BY <1>0, <1>17 DEF Record, At, Goto
<1>18. CASE Meta(p)
  BY <1>0, <1>18 DEF Meta, At, Finish, Goto
<1>19. CASE Abort(p)
  BY <1>0, <1>19 DEF Abort, At, Finish, Goto, Close
<1>20. CASE Count(p)
  BY <1>0, <1>20 DEF Count, At, Goto
<1>21. CASE FileTicket(p)
  BY <1>0, <1>21 DEF FileTicket, At, Finish, Goto
<1>22. CASE Replay(p)
  BY <1>0, <1>22 DEF Replay, At, Finish, Goto
<1>23. CASE Apply(p)
  BY <1>0, <1>23 DEF Apply, At, Goto
<1>24. CASE Drop(p)
  BY <1>0, <1>24 DEF Drop, At, Finish, Goto, Close
<1>25. CASE CloseTickets(p)
  BY <1>0, <1>25 DEF CloseTickets, At, Finish, Goto
<1>26. CASE RbRead(p)
  BY <1>0, <1>26 DEF RbRead, At, Finish, Goto
<1>27. CASE RbSettle(p)
  BY <1>0, <1>27 DEF RbSettle, At, Goto
<1>28. CASE RbAssert(p)
  BY <1>0, <1>28 DEF RbAssert, At, Finish, Goto, GoalInv
<1>29. CASE RbReset(p)
  BY <1>0, <1>29 DEF RbReset, At, Goto, Close
<1>30. CASE RbRevert(p)
  BY <1>0, <1>30 DEF RbRevert, At, Finish, Close, Goto
<1>31. CASE RbSync(p)
  BY <1>0, <1>31 DEF RbSync, At, Finish, Goto
<1>32. CASE PmRead(p)
  BY <1>0, <1>32 DEF PmRead, At, Finish, Goto
<1>33. CASE PmGate(p)
  BY <1>0, <1>33 DEF PmGate, At, Goto
<1>34. CASE PmCheck(p)
  BY <1>0, <1>34 DEF PmCheck, At, Finish, Goto, GoalInv
<1>35. CASE PmSwap(p)
  BY <1>0, <1>35 DEF PmSwap, At, Finish, Goto
<1>36. CASE PmReset(p)
  BY <1>0, <1>36 DEF PmReset, At, Goto, Close
<1>37. CASE PmTicket(p)
  BY <1>0, <1>37 DEF PmTicket, At, Finish, Goto
<1>38. CASE \E kind \in Kinds, a \in Agent \cup {NoOne} : Acquire(p, kind, a)
  BY <1>0, <1>38 DEF Acquire, At, Goto
<1>39. CASE Crash(p) \/ Freeze(p) \/ Thaw(p)
  BY <1>0, <1>39 DEF Crash, Freeze, Thaw, Goto
<1> QED
  BY <1>1, <1>2, <1>3, <1>4, <1>5, <1>6, <1>7, <1>8, <1>9, <1>10, <1>11, <1>12, <1>13, <1>14, <1>15,
     <1>16, <1>17, <1>18, <1>19, <1>20, <1>21, <1>22, <1>23, <1>24, <1>25, <1>26, <1>27, <1>28,
     <1>29, <1>30, <1>31, <1>32, <1>33, <1>34, <1>35, <1>36, <1>37, <1>38, <1>39
     DEF ProcStep, OperationStep, MergeStep, ResolveStep, RollbackStep, PromoteStep

\* The commit an operation is about, once it knows it.
LEMMA MyWorkType ==
  ASSUME MInv, NEW p \in Proc, pc[p] \in OpenMergePcs
  PROVE  MyWork(p) \in Work
<1>1. job[p].agent \in Agent /\ job[p].sha \in 1..MaxWork
  BY MergeChainAssumption DEF MInv, TypeOK, Job, Own, KindInv
<1> QED
  BY <1>1 DEF MyWork, Work

LEMMA FrontType ==
  ASSUME NEW S, NEW s \in Seq(S), s # <<>>
  PROVE  /\ Front(s) \in Seq(S) /\ Len(Front(s)) = Len(s) - 1
         /\ \A i \in 1..(Len(s) - 1) : Front(s)[i] = s[i]
<1>1. PICK a \in Int, m \in Int : a = 1 /\ m = Len(s) - 1
  OBVIOUS
<1>2. \A i \in a..m : s[i] \in S
  BY <1>1
<1>3. /\ SubSeq(s, a, m) \in Seq(S)
      /\ Len(SubSeq(s, a, m)) = IF a <= m THEN m - a + 1 ELSE 0
      /\ \A i \in 1..(m - a + 1) : SubSeq(s, a, m)[i] = s[a + i - 1]
  BY <1>2, SubSeqProperties
<1>4. Front(s) = SubSeq(s, a, m)
  BY <1>1, Zenon DEF Front
<1>5. Len(s) \in Nat /\ Len(s) >= 1
  OBVIOUS
<1>6. Front(s) \in Seq(S)
  BY <1>3, <1>4, Zenon
<1>7. Len(Front(s)) = Len(s) - 1
  <2>1. Len(Front(s)) = IF a <= m THEN m - a + 1 ELSE 0
    BY <1>3, <1>4, Zenon
  <2> QED
    BY <1>1, <1>5, <2>1
<1>8. ASSUME NEW i \in 1..(Len(s) - 1) PROVE Front(s)[i] = s[i]
  <2>1. i \in 1..(m - a + 1) /\ a + i - 1 = i
    BY <1>1, <1>5
  <2>2. SubSeq(s, a, m)[i] = s[a + i - 1]
    BY <1>3, <2>1, Zenon
  <2> QED
    BY <1>4, <2>1, <2>2, Zenon
<1> QED
  BY <1>6, <1>7, <1>8

LEMMA OneMoreWrite ==
  ASSUME NEW i \in Index, i.version + 1 \in 0..(GateRetries + 2)
  PROVE  [i EXCEPT !.unmerged = FALSE, !.version = @ + 1] \in Index
  BY DEF Index

LEMMA StepRepoTypes ==
  ASSUME MInv, NEW p \in Proc, ProcStep(p)
  PROVE  RepoTypes'
<1> USE DEF RepoTypes, repo, branches
<1>0. /\ RepoTypes /\ KindInv(p) /\ job[p] \in Job /\ Human \notin Proc /\ NoOne \notin Agent
      /\ CleanIndex \in Index /\ MergedIndex \in Index /\ ConflictedIndex \in Index
      /\ MergeInv /\ tickets \subseteq Ticket
  BY MergeChainAssumption, Constants DEF MInv, Own, TypeOK
<1>1. CASE AbortOrphan(p)
  BY <1>0, <1>1 DEF AbortOrphan, At, Finish, Goto, Close
<1>2. CASE OpenTheMerge(p)
  <2>1. MyWork(p) \in Work
    BY <1>2, MyWorkType DEF OpenTheMerge, At, OpenMergePcs
  <2>2. [by |-> p, work |-> MyWork(p)] \in OpenMerge
    BY <2>1 DEF OpenMerge
  <2> QED
    BY <1>0, <1>2, <2>2 DEF OpenTheMerge
<1>3. CASE BlindAbort(p)
  BY <1>0, <1>3 DEF BlindAbort, At, Finish, Goto, Close
<1>4. CASE Write(p)
  BY <1>0, <1>4, WriteType DEF Write
<1>5. CASE Conclude(p)
  <2>1. holder = p /\ Mine(p)
    BY <1>5 DEF MInv, LockInv, Held, Adrift, Knows, TestedInv, Conclude, At
  <2>2. merge.work \in Work
    BY <1>5, <2>1, MyWorkType DEF Mine, Conclude, At, OpenMergePcs
  <2>3. [by |-> p, kind |-> "merge", work |-> merge.work] \in Commit
    BY <2>2 DEF Commit
  <2>4. Append(target, [by |-> p, kind |-> "merge", work |-> merge.work]) \in Seq(Commit)
    BY <1>0, <2>3
  <2> QED
    BY <1>0, <1>5, <2>4 DEF Conclude, Close
<1>6. CASE Abort(p)
  BY <1>0, <1>6 DEF Abort, At, Finish, Goto, Close
<1>7. CASE Replay(p)
  <2>1. ASSUME NEW t \in tickets, t.work[1] = job[p].agent
        PROVE  [by |-> p, work |-> t.work] \in OpenMerge
    <3>1. job[p].agent \in Agent /\ t \in Ticket
      BY <1>0, <1>7 DEF Replay, At, KindInv
    <3>2. t.work \in Work
      BY <1>0, <2>1, <3>1 DEF Ticket
    <3> QED
      BY <3>2 DEF OpenMerge
  <2> QED
    BY <1>0, <1>7, <2>1 DEF Replay
<1>8. CASE Apply(p)
  <2>1. index.version <= 1
    BY <1>8 DEF MInv, LockInv, Held, Adrift, Knows, VersionInv, Apply, At
  <2>2. index.version \in 0..(GateRetries + 2)
    BY <1>0 DEF Index
  <2>3. index.version + 1 \in 0..(GateRetries + 2)
    BY <2>1, <2>2, MergeChainAssumption
  <2>4. [index EXCEPT !.unmerged = FALSE, !.version = @ + 1] \in Index
    BY <1>0, <2>3, OneMoreWrite
  <2> QED
    BY <1>0, <1>8, <2>4 DEF Apply
<1>9. CASE Drop(p)
  BY <1>0, <1>9 DEF Drop, At, Finish, Goto, Close
<1>10. CASE RbReset(p)
  <2>1. job[p].head \in Seq(Commit) /\ job[p].head # <<>>
    BY <1>0, <1>10 DEF MInv, LockInv, Held, Adrift, Knows, RollbackInv, RbReset, At, Job
  <2>2. Front(job[p].head) \in Seq(Commit)
    BY <2>1, FrontType
  <2> QED
    BY <1>0, <1>10, <2>2 DEF RbReset, Close
<1>11. CASE RbRevert(p)
  <2>1. [by |-> p, kind |-> "revert", work |-> <<NoOne, 0>>] \in Commit
    BY DEF Commit
  <2>2. Append(target, [by |-> p, kind |-> "revert", work |-> <<NoOne, 0>>]) \in Seq(Commit)
    BY <1>0, <2>1
  <2> QED
    BY <1>0, <1>11, <2>2 DEF RbRevert, Close
<1>12. CASE PmSwap(p)
  <2>1. job[p].head \in Seq(Commit)
    BY <1>0 DEF Job
  <2> QED
    BY <1>0, <1>12, <2>1 DEF PmSwap
<1>13. CASE PmReset(p)
  BY <1>0, <1>13 DEF PmReset, At, Goto, Close
<1> QED
  BY <1>0, <1>1, <1>2, <1>3, <1>4, <1>5, <1>6, <1>7, <1>8, <1>9, <1>10, <1>11, <1>12, <1>13,
     Untouched DEF RepoStep


LEMMA StepBookTypes ==
  ASSUME MInv, NEW p \in Proc, ProcStep(p)
  PROVE  BookTypes'
<1> USE DEF BookTypes, books
<1>0. /\ BookTypes /\ KindInv(p) /\ job[p] \in Job /\ head \in [Agent -> 0..MaxWork]
      /\ MergeInv /\ merge \in OpenMerge \cup {None}
  BY DEF MInv, Own, TypeOK, Markers
<1>l. \A a : Landed(a) \in 0..MaxWork
  BY LandedMax, LandedHere DEF MInv, TypeOK
<1>1. CASE Recover(p)
  BY <1>0, <1>1 DEF Recover, Markers
<1>2. CASE Fetch(p)
  <2>1. head[job[p].agent] \in 0..MaxWork
    BY <1>0, <1>2 DEF Fetch, At, KindInv
  <2> QED
    BY <1>0, <1>2, <2>1 DEF Fetch
<1>3. CASE Check(p)
  <2>1. MergeHead \in Work \cup HumanWork \cup {None}
    BY <1>0 DEF MergeHead, OpenMerge
  <2>2. [mergeHead |-> MergeHead] \in Markers
    BY <2>1 DEF Markers
  <2> QED
    BY <1>0, <1>3, <2>2 DEF Check
<1>4. CASE Record(p)
  BY <1>0, <1>4, MergeChainAssumption DEF Record
<1>5. CASE Meta(p)
  <2>1. job[p].sha \in 0..MaxWork
    BY <1>0 DEF Job
  <2> QED
    BY <1>0, <1>5, <2>1 DEF Meta
<1>6. CASE Count(p)
  <2>1. streak' \in 0..MaxSemanticFailures
    <3>1. holder = p /\ Fusing(p)
      BY <1>6 DEF MInv, LockInv, Held, Adrift, Own, GoalInv, Fusing, Count, At
    <3>2. streak < MaxSemanticFailures
      BY <3>1 DEF MInv, Knows, ManualInv, StreakInv
    <3> QED
      BY <1>0, <1>6, <3>2, MergeChainAssumption DEF Count
  <2>2. manual' \in BOOLEAN
    BY <1>6 DEF Count
  <2> QED
    BY <1>0, <1>6, <2>1, <2>2 DEF Count
<1>7. CASE FileTicket(p)
  <2>1. MyWork(p) \in Work
    BY <1>7, MyWorkType DEF FileTicket, At, OpenMergePcs
  <2>2. [work |-> MyWork(p), subject |-> Subject(job[p].reason)] \in Ticket
    BY <2>1 DEF Ticket, Subject
  <2> QED
    BY <1>0, <1>7, <2>2 DEF FileTicket
<1>8. CASE CloseTickets(p)
  BY <1>0, <1>8 DEF CloseTickets, At, Finish, Goto
<1>9. CASE RbSync(p)
  BY <1>0, <1>l, <1>9 DEF RbSync
<1>10. CASE PmTicket(p)
  <2>1. [work |-> <<NoOne, 0>>, subject |-> "other"] \in Ticket
    BY DEF Ticket
  <2> QED
    BY <1>0, <1>10, <2>1 DEF PmTicket
<1> QED
  BY <1>0, <1>1, <1>2, <1>3, <1>4, <1>5, <1>6, <1>7, <1>8, <1>9, <1>10, Untouched DEF BookStep


LEMMA StepTypes ==
  ASSUME MInv, NEW p \in Proc, ProcStep(p)
  PROVE  TypeOK'
<1>0. /\ noticed \in BOOLEAN /\ failures \in 0..MaxSemanticFailures
      /\ head \in [Agent -> 0..MaxWork] /\ gestures \in 0..MaxHuman
  BY DEF MInv, TypeOK
<1>1. noticed' \in BOOLEAN
  <2> USE DEF history, Close
  <2>1. CASE Enter(p) \/ Recover(p) \/ AbortOrphan(p) \/ Ready(p) \/ Leave(p)
    BY <1>0, <2>1 DEF Enter, Recover, AbortOrphan, Ready, Leave
  <2>2. CASE MergeStep(p)
    BY <1>0, <2>2 DEF MergeStep, Fetch, OpenTheMerge, BlindAbort, Classify, Llm, Check, Write,
           Stamp, GateGreen, GateRed, Conclude, Record, Meta, Abort, Count, FileTicket
  <2>3. CASE ResolveStep(p)
    BY <1>0, <2>3 DEF ResolveStep, Replay, Apply, Drop, CloseTickets
  <2>4. CASE RollbackStep(p)
    BY <1>0, <2>4 DEF RollbackStep, RbRead, RbSettle, RbAssert, RbReset, RbRevert, RbSync
  <2>5. CASE PromoteStep(p)
    BY <1>0, <2>5 DEF PromoteStep, PmRead, PmGate, PmCheck, PmSwap, PmReset, PmTicket
  <2>6. CASE \E kind \in Kinds, a \in Agent \cup {NoOne} : Acquire(p, kind, a)
    BY <1>0, <2>6 DEF Acquire
  <2>7. CASE Crash(p) \/ Freeze(p) \/ Thaw(p)
    BY <1>0, <2>7 DEF Crash, Freeze, Thaw
  <2> QED
    BY <2>1, <2>2, <2>3, <2>4, <2>5, <2>6, <2>7 DEF ProcStep, OperationStep
<1>2. failures' \in 0..MaxSemanticFailures
  <2>1. CASE Llm(p)
    BY <1>0, <2>1, FailuresType DEF Llm
  <2>2. CASE GateRed(p)
    BY <1>0, <2>2, FailuresType DEF GateRed
  <2>3. CASE Record(p)
    BY <1>0, <2>3, MergeChainAssumption DEF Record
  <2>4. CASE Write(p)
    BY <1>0, <2>4, FailuresType DEF Write
  <2> QED
    BY <1>0, <2>1, <2>2, <2>3, <2>4, Untouched DEF FailureStep
<1>3. ControlTypes' /\ RepoTypes' /\ BookTypes' /\ job' \in [Proc -> Job]
  BY StepControlTypes, StepRepoTypes, StepBookTypes, JobType
<1> QED
  BY <1>0, <1>1, <1>2, <1>3, Untouched DEF TypeOK, ControlTypes, RepoTypes, BookTypes, Markers

\* A gesture of a human.
LEMMA GestureFrame ==
  ASSUME TypeOK, Gesture
  PROVE  /\ gestures' \in 0..MaxHuman /\ gestures' \in 1..MaxHuman
         /\ UNCHANGED <<status, holder, head, marker, lastMerged, tickets, pc, job>>
  BY MergeChainAssumption DEF TypeOK, Gesture

\* The failures that are not counted yet are few.
LEMMA UnlockType ==
  ASSUME Unlock
  PROVE  /\ failures' \in 0..MaxSemanticFailures
         /\ (\E p \in Proc : Uncounted(p)) => failures' >= 1
<1> DEFINE S == {p \in Proc : Uncounted(p)}
<1>1. IsFiniteSet(S)
  BY MergeChainAssumption, FS_Subset
<1>2. Cardinality(S) \in Nat /\ (S # {} => Cardinality(S) >= 1)
  BY <1>1, FS_CardinalityType, FS_EmptySet
<1>3. failures' = Min({Cardinality(S), MaxSemanticFailures})
  BY DEF Unlock
<1> HIDE DEF S
<1>4. failures' = IF Cardinality(S) <= MaxSemanticFailures THEN Cardinality(S) ELSE MaxSemanticFailures
  BY <1>2, <1>3, MinOfTwo, MergeChainAssumption
<1>5. failures' \in 0..MaxSemanticFailures /\ (S # {} => failures' >= 1)
  BY <1>2, <1>4, MergeChainAssumption
<1> QED
  BY <1>5 DEF S

LEMMA PeopleTypes ==
  ASSUME MInv, PeopleStep
  PROVE  TypeOK'
<1> USE DEF repo, branches, books, people, history
<1>0. TypeOK /\ Human \notin Proc /\ CleanIndex \in Index /\ MergeInv /\ 0 \in 0..MaxSemanticFailures
  BY Constants, MergeChainAssumption DEF MInv
<1>t. /\ target \in Seq(Commit) /\ main \in Seq(Commit) /\ index \in Index
      /\ merge \in OpenMerge \cup {None}
  BY <1>0 DEF TypeOK
<1>1. CASE \E a \in Agent : AgentCommits(a)
  <2>1. PICK a \in Agent : AgentCommits(a)
    BY <1>1
  <2>2. head' \in [Agent -> 0..MaxWork]
    BY <1>0, <2>1, MergeChainAssumption DEF TypeOK, AgentCommits
  <2> QED
    BY <1>0, <2>1, <2>2 DEF TypeOK, AgentCommits
<1>2. CASE HumanOpens
  <2>1. Gesture /\ gestures' \in 1..MaxHuman /\ gestures' \in 0..MaxHuman
    BY <1>0, <1>2, GestureFrame DEF HumanOpens
  <2>2. [by |-> Human, work |-> <<NoOne, gestures'>>] \in OpenMerge
    BY <2>1 DEF OpenMerge, HumanWork
  <2>3. index' \in Index
    <3>1. 1 \in 0..(GateRetries + 2)
      BY MergeChainAssumption
    <3> QED
      BY <1>2, <3>1 DEF HumanOpens, Index
  <2>4. UNCHANGED <<session, target, branches, streak, manual, failures>> /\ noticed' = FALSE
    BY <1>2 DEF HumanOpens
  <2>5. merge' \in OpenMerge
    BY <1>2, <2>2 DEF HumanOpens
  <2> QED
    BY <1>0, <2>1, <2>3, <2>4, <2>5, GestureFrame DEF TypeOK
<1>3. CASE HumanAborts
  BY <1>0, <1>3, GestureFrame DEF TypeOK, HumanAborts, Close
<1>4. CASE HumanTouches
  <2>1. index' \in Index
    BY <1>t, <1>4 DEF HumanTouches, Index
  <2> QED
    BY <1>0, <1>4, <2>1, GestureFrame DEF TypeOK, HumanTouches
<1>5. CASE HumanCommits
  <2>1. /\ [by |-> Human, kind |-> "other", work |-> <<NoOne, 0>>] \in Commit
        /\ merge # None /\ merge.by # Human
             => [by |-> Human, kind |-> "merge", work |-> merge.work] \in Commit
    BY <1>0 DEF Commit, MergeInv
  <2>2. target' \in Seq(Commit)
    BY <1>t, <1>5, <2>1 DEF HumanCommits
  <2> QED
    BY <1>0, <1>5, <2>2, GestureFrame DEF TypeOK, HumanCommits, Close
<1>6. CASE HumanCommitsNothing
  <2>1. [by |-> Human, kind |-> "empty", work |-> <<NoOne, 0>>] \in Commit
    BY DEF Commit
  <2>2. target' \in Seq(Commit)
    BY <1>t, <1>6, <2>1 DEF HumanCommitsNothing
  <2> QED
    BY <1>0, <1>6, <2>2, GestureFrame DEF TypeOK, HumanCommitsNothing
<1>7. CASE HumanCommitsToMain
  <2>1. [by |-> Human, kind |-> "other", work |-> <<NoOne, 0>>] \in Commit
    BY DEF Commit
  <2>2. main' \in Seq(Commit)
    BY <1>t, <1>7, <2>1 DEF HumanCommitsToMain
  <2> QED
    BY <1>0, <1>7, <2>2, GestureFrame DEF TypeOK, HumanCommitsToMain
<1>8. CASE SessionEnds
  BY <1>0, <1>8 DEF TypeOK, SessionEnds
<1>9. CASE Unlock
  BY <1>0, <1>9, GestureFrame, UnlockType DEF TypeOK, Unlock
<1> QED
  BY <1>1, <1>2, <1>3, <1>4, <1>5, <1>6, <1>7, <1>8, <1>9 DEF PeopleStep

-----------------------------------------------------------------------------
(* The lock, along the steps. *)

LEMMA LockHere ==
  ASSUME MInv, NEW p \in Proc, ProcStep(p)
  PROVE  /\ pc'[p] \notin Adrift => holder' = p
         /\ session' /\ holder' = p => pc'[p] \in {"out", "enter", "leave"}
         /\ noticed' => merge' # None /\ Covers'
         /\ noticed' /\ holder' = p => pc'[p] \in {"out", "enter", "recover", "leave"}
<1> USE DEF repo, branches, books, people, history
<1>0. /\ pc \in [Proc -> PCs] /\ job \in [Proc -> Job]
      /\ pc[p] \notin Adrift => holder = p
      /\ session /\ holder = p => pc[p] \in {"out", "enter", "leave"}
      /\ noticed => merge # None /\ Covers
      /\ noticed /\ holder = p => pc[p] \in {"out", "enter", "recover", "leave"}
  BY DEF MInv, TypeOK, LockInv, Held, SessionHolds, NoticedHolds
<1>1. CASE Enter(p)
  BY <1>0, <1>1 DEF Enter, At, Finish, Goto, Adrift, Covers, MergeHead
<1>2. CASE Recover(p)
  BY <1>0, <1>2 DEF Recover, At, Finish, Goto, Adrift, Covers, MergeHead
<1>3. CASE AbortOrphan(p)
  BY <1>0, <1>3 DEF AbortOrphan, At, Finish, Goto, Close, Adrift, Covers, MergeHead
<1>4. CASE Ready(p)
  BY <1>0, <1>4 DEF Ready, At, Finish, Goto, Adrift, Covers, MergeHead
<1>5. CASE Leave(p)
  BY <1>0, <1>5 DEF Leave, At, Goto, Adrift, Covers, MergeHead
<1>6. CASE Fetch(p)
  BY <1>0, <1>6 DEF Fetch, At, Goto, Adrift, Covers, MergeHead
<1>7. CASE OpenTheMerge(p)
  BY <1>0, <1>7 DEF OpenTheMerge, At, Refuse, Goto, Adrift, Covers, MergeHead
<1>8. CASE BlindAbort(p)
  BY <1>0, <1>8 DEF BlindAbort, At, Finish, Goto, Close, Adrift, Covers, MergeHead
<1>9. CASE Classify(p)
  BY <1>0, <1>9 DEF Classify, At, Refuse, Goto, Adrift, Covers, MergeHead
<1>10. CASE Llm(p)
  BY <1>0, <1>10 DEF Llm, At, Refuse, Goto, Adrift, Covers, MergeHead
<1>11. CASE Check(p)
  <2>1. pc[p] = "check" /\ UNCHANGED <<holder, session, merge>>
    BY <1>11 DEF Check, At
  <2>2. /\ holder = p => ~session /\ ~noticed
        /\ holder # p => pc'[p] = "leave" /\ UNCHANGED <<noticed, marker>>
    BY <1>0, <1>11, <2>1 DEF Check, Finish, Goto
  <2>3. CASE holder = p /\ Intact(p)
    BY <1>0, <1>11, <2>1, <2>2, <2>3 DEF Check
  <2>4. CASE holder = p /\ ~Intact(p) /\ UNCHANGED <<marker, noticed>>
    BY <1>0, <2>1, <2>2, <2>4
  <2>5. CASE holder = p /\ marker' = [mergeHead |-> MergeHead] /\ noticed' = (merge # None) /\ Finish(p, "changed")
    <3>1. pc'[p] = "leave"
      BY <1>0, <2>5 DEF Finish, Goto
    <3>2. noticed' => merge' # None /\ Covers'
      BY <2>1, <2>5 DEF Covers, MergeHead
    <3> QED
      BY <2>1, <2>2, <2>5, <3>1, <3>2 DEF Adrift
  <2> QED
    BY <1>0, <1>11, <2>1, <2>2, <2>3, <2>4, <2>5 DEF Check, Covers, MergeHead, Adrift
<1>12. CASE Write(p)
  BY <1>0, <1>12 DEF Write, At, Refuse, Goto, Adrift, Covers, MergeHead
<1>13. CASE Stamp(p)
  BY <1>0, <1>13 DEF Stamp, At, Goto, Adrift, Covers, MergeHead
<1>14. CASE GateGreen(p)
  BY <1>0, <1>14 DEF GateGreen, At, Goto, Adrift, Covers, MergeHead
<1>15. CASE GateRed(p)
  BY <1>0, <1>15 DEF GateRed, At, Refuse, Goto, Adrift, Covers, MergeHead
<1>16. CASE Conclude(p)
  BY <1>0, <1>16 DEF Conclude, At, Refuse, Goto, Close, Adrift, Covers, MergeHead
<1>17. CASE Record(p)
  BY <1>0, <1>17 DEF Record, At, Goto, Adrift, Covers, MergeHead
<1>18. CASE Meta(p)
  BY <1>0, <1>18 DEF Meta, At, Finish, Goto, Adrift, Covers, MergeHead
<1>19. CASE Abort(p)
  BY <1>0, <1>19 DEF Abort, At, Finish, Goto, Close, Adrift, Covers, MergeHead
<1>20. CASE Count(p)
  BY <1>0, <1>20 DEF Count, At, Goto, Adrift, Covers, MergeHead
<1>21. CASE FileTicket(p)
  BY <1>0, <1>21 DEF FileTicket, At, Finish, Goto, Adrift, Covers, MergeHead
<1>22. CASE Replay(p)
  <2>1. pc[p] = "replay" /\ holder = p /\ ~session /\ ~noticed
    BY <1>0, <1>22 DEF Replay, At, Adrift
  <2>2. UNCHANGED <<holder, session>>
    BY <1>22 DEF Replay
  <2>3. ~noticed'
    BY <2>1, <1>22 DEF Replay
  <2> QED
    BY <2>1, <2>2, <2>3
<1>23. CASE Apply(p)
  BY <1>0, <1>23 DEF Apply, At, Goto, Adrift, Covers, MergeHead
<1>24. CASE Drop(p)
  BY <1>0, <1>24 DEF Drop, At, Finish, Goto, Close, Adrift, Covers, MergeHead
<1>25. CASE CloseTickets(p)
  BY <1>0, <1>25 DEF CloseTickets, At, Finish, Goto, Adrift, Covers, MergeHead
<1>26. CASE RbRead(p)
  BY <1>0, <1>26 DEF RbRead, At, Finish, Goto, Adrift, Covers, MergeHead
<1>27. CASE RbSettle(p)
  BY <1>0, <1>27 DEF RbSettle, At, Goto, Adrift, Covers, MergeHead
<1>28. CASE RbAssert(p)
  BY <1>0, <1>28 DEF RbAssert, At, Finish, Goto, Adrift, Covers, MergeHead
<1>29. CASE RbReset(p)
  BY <1>0, <1>29 DEF RbReset, At, Goto, Close, Adrift, Covers, MergeHead
<1>30. CASE RbRevert(p)
  BY <1>0, <1>30 DEF RbRevert, At, Finish, Close, Goto, Adrift, Covers, MergeHead
<1>31. CASE RbSync(p)
  BY <1>0, <1>31 DEF RbSync, At, Finish, Goto, Adrift, Covers, MergeHead
<1>32. CASE PmRead(p)
  BY <1>0, <1>32 DEF PmRead, At, Finish, Goto, Adrift, Covers, MergeHead
<1>33. CASE PmGate(p)
  BY <1>0, <1>33 DEF PmGate, At, Goto, Adrift, Covers, MergeHead
<1>34. CASE PmCheck(p)
  BY <1>0, <1>34 DEF PmCheck, At, Finish, Goto, Adrift, Covers, MergeHead
<1>35. CASE PmSwap(p)
  BY <1>0, <1>35 DEF PmSwap, At, Finish, Goto, Adrift, Covers, MergeHead
<1>36. CASE PmReset(p)
  BY <1>0, <1>36 DEF PmReset, At, Goto, Close, Adrift, Covers, MergeHead
<1>37. CASE PmTicket(p)
  BY <1>0, <1>37 DEF PmTicket, At, Finish, Goto, Adrift, Covers, MergeHead
<1>38. CASE \E kind \in Kinds, a \in Agent \cup {NoOne} : Acquire(p, kind, a)
  BY <1>0, <1>38 DEF Acquire, At, Goto, Adrift, Covers, MergeHead
<1>39. CASE Crash(p) \/ Freeze(p) \/ Thaw(p)
  BY <1>0, <1>39 DEF Crash, Freeze, Thaw, Goto, Adrift, Covers, MergeHead
<1> QED
  BY <1>1, <1>2, <1>3, <1>4, <1>5, <1>6, <1>7, <1>8, <1>9, <1>10, <1>11, <1>12, <1>13, <1>14,
     <1>15, <1>16, <1>17, <1>18, <1>19, <1>20, <1>21, <1>22, <1>23, <1>24, <1>25, <1>26, <1>27,
     <1>28, <1>29, <1>30, <1>31, <1>32, <1>33, <1>34, <1>35, <1>36, <1>37, <1>38, <1>39
     DEF ProcStep, OperationStep, MergeStep, ResolveStep, RollbackStep, PromoteStep

\* Only the holder lets the lock go, and only a dead or a suspended one loses it.
LEMMA HolderMoves ==
  ASSUME MInv, NEW p \in Proc, ProcStep(p), NEW q \in Proc, q # p, holder = q
  PROVE  holder' = q \/ (pc'[q] = pc[q] /\ pc[q] \in Adrift)
<1>0. /\ \A r \in Proc : r # p => pc'[r] = pc[r] /\ job'[r] = job[r] /\ status'[r] = status[r]
      /\ status[q] \in {"up", "frozen", "dead"}
  BY Frames DEF MInv, LockInv, TypeOK
<1>1. CASE \E kind \in Kinds, a \in Agent \cup {NoOne} : Acquire(p, kind, a)
  <2>1. status[q] \in {"frozen", "dead"}
    BY <1>0, <1>1, MergeChainAssumption DEF Acquire
  <2>2. pc[q] \in Adrift
    BY <2>1 DEF MInv, LockInv, StatusInv, Long, Adrift
  <2> QED
    BY <1>0, <2>2
<1>2. CASE Leave(p)
  BY <1>2 DEF Leave
<1>3. CASE Enter(p) \/ Recover(p) \/ AbortOrphan(p) \/ Ready(p)
  BY <1>3 DEF Enter, Recover, AbortOrphan, Ready
<1>4. CASE MergeStep(p)
  BY <1>4 DEF MergeStep, Fetch, OpenTheMerge, BlindAbort, Classify, Llm, Check, Write, Stamp,
         GateGreen, GateRed, Conclude, Record, Meta, Abort, Count, FileTicket
<1>5. CASE ResolveStep(p)
  BY <1>5 DEF ResolveStep, Replay, Apply, Drop, CloseTickets
<1>6. CASE RollbackStep(p)
  BY <1>6 DEF RollbackStep, RbRead, RbSettle, RbAssert, RbReset, RbRevert, RbSync
<1>7. CASE PromoteStep(p)
  BY <1>7 DEF PromoteStep, PmRead, PmGate, PmCheck, PmSwap, PmReset, PmTicket
<1>8. CASE Crash(p) \/ Freeze(p) \/ Thaw(p)
  BY <1>8 DEF Crash, Freeze, Thaw
<1> QED
  BY <1>1, <1>2, <1>3, <1>4, <1>5, <1>6, <1>7, <1>8 DEF ProcStep, OperationStep

LEMMA StatusStep ==
  ASSUME MInv, FreezeAt \subseteq Long, NEW p \in Proc, ProcStep(p)
  PROVE  StatusInv'
<1> USE DEF repo, branches, books, people, history
<1>0. /\ status \in [Proc -> {"up", "frozen", "dead"}] /\ pc \in [Proc -> PCs]
      /\ StatusInv
      /\ \A q \in Proc : q # p => pc'[q] = pc[q] /\ job'[q] = job[q] /\ status'[q] = status[q]
  BY Frames DEF MInv, LockInv, TypeOK
<1>1. CASE status[p] = "up" /\ UNCHANGED status
  BY <1>0, <1>1 DEF StatusInv
<1>2. CASE Crash(p)
  BY <1>0, <1>2 DEF Crash, Goto, StatusInv
<1>3. CASE Freeze(p)
  BY <1>0, <1>3 DEF Freeze, StatusInv
<1>4. CASE Thaw(p)
  BY <1>0, <1>4 DEF Thaw, StatusInv
<1>5. CASE Enter(p) \/ Recover(p) \/ AbortOrphan(p) \/ Ready(p) \/ Leave(p)
  BY <1>1, <1>5 DEF Enter, Recover, AbortOrphan, Ready, Leave, At
<1>6. CASE MergeStep(p)
  BY <1>1, <1>6 DEF MergeStep, Fetch, OpenTheMerge, BlindAbort, Classify, Llm, Check, Write, Stamp,
         GateGreen, GateRed, Conclude, Record, Meta, Abort, Count, FileTicket, At
<1>7. CASE ResolveStep(p)
  BY <1>1, <1>7 DEF ResolveStep, Replay, Apply, Drop, CloseTickets, At
<1>8. CASE RollbackStep(p)
  BY <1>1, <1>8 DEF RollbackStep, RbRead, RbSettle, RbAssert, RbReset, RbRevert, RbSync, At
<1>9. CASE PromoteStep(p)
  BY <1>1, <1>9 DEF PromoteStep, PmRead, PmGate, PmCheck, PmSwap, PmReset, PmTicket, At
<1>10. CASE \E kind \in Kinds, a \in Agent \cup {NoOne} : Acquire(p, kind, a)
  BY <1>1, <1>10 DEF Acquire, At
<1> QED
  BY <1>2, <1>3, <1>4, <1>5, <1>6, <1>7, <1>8, <1>9, <1>10 DEF ProcStep, OperationStep

LEMMA LockStep ==
  ASSUME MInv, FreezeAt \subseteq Long, NEW p \in Proc, ProcStep(p)
  PROVE  LockInv'
<1>0. /\ \A q \in Proc : q # p => pc'[q] = pc[q] /\ job'[q] = job[q] /\ status'[q] = status[q]
      /\ holder' \in {holder, p, NoOne}
      /\ holder = p \/ UNCHANGED <<session, merge, marker, noticed>>
      /\ NoOne \notin Proc
  BY Frames, MergeChainAssumption DEF MInv, LockInv, Shared, repo
<1>1. Held'
  <2>1. ASSUME NEW q \in Proc, pc'[q] \notin Adrift PROVE holder' = q
    BY <1>0, <2>1, LockHere, HolderMoves DEF MInv, LockInv, Held
  <2> QED
    BY <2>1 DEF Held
<1>2. ASSUME NEW q \in Proc, q # p, holder' = q
      PROVE  holder = q /\ pc'[q] = pc[q] /\ UNCHANGED <<session, merge, marker, noticed>>
  BY <1>0, <1>2
<1>3. SessionHolds'
  <2>1. ASSUME session', NEW q \in Proc, holder' = q
        PROVE  pc'[q] \in {"out", "enter", "leave"}
    BY <1>2, <2>1, LockHere DEF MInv, LockInv, SessionHolds
  <2> QED
    BY <2>1 DEF SessionHolds
<1>4. NoticedHolds'
  <2>1. ASSUME noticed', NEW q \in Proc, holder' = q
        PROVE  pc'[q] \in {"out", "enter", "recover", "leave"}
    BY <1>2, <2>1, LockHere DEF MInv, LockInv, NoticedHolds
  <2>2. noticed' => merge' # None /\ Covers'
    BY LockHere
  <2> QED
    BY <2>1, <2>2 DEF NoticedHolds
<1> QED
  BY <1>1, <1>3, <1>4, StatusStep DEF LockInv

\* People take nobody's lock and declare no session; what they do to the open merge ends
\* what was recorded of it.
LEMMA LockPeople ==
  ASSUME MInv, PeopleStep
  PROVE  LockInv'
<1> USE DEF repo, branches, books, people, history
<1>0. LockInv /\ UNCHANGED <<status, holder, pc, marker>>
  <2>1. CASE \E a \in Agent : AgentCommits(a)
    BY <2>1 DEF MInv, AgentCommits
  <2>2. CASE SessionEnds
    BY <2>2 DEF MInv, SessionEnds
  <2>3. CASE Gesture
    BY <2>3 DEF MInv, Gesture
  <2> QED
    BY <2>1, <2>2, <2>3 DEF PeopleStep, HumanOpens, HumanAborts, HumanTouches, HumanCommits,
       HumanCommitsNothing, HumanCommitsToMain, Unlock
<1>1. StatusInv' /\ Held'
  BY <1>0 DEF LockInv, StatusInv, Held
<1>2. SessionHolds'
  <2>1. session' => session
    BY DEF PeopleStep, AgentCommits, HumanOpens, HumanAborts, HumanTouches, HumanCommits,
       HumanCommitsNothing, HumanCommitsToMain, SessionEnds, Unlock
  <2> QED
    BY <1>0, <2>1 DEF LockInv, SessionHolds
<1>3. NoticedHolds'
  <2>1. noticed' => noticed /\ UNCHANGED merge
    BY DEF PeopleStep, AgentCommits, HumanOpens, HumanAborts, HumanTouches, HumanCommits, Close,
       HumanCommitsNothing, HumanCommitsToMain, SessionEnds, Unlock
  <2> QED
    BY <1>0, <2>1 DEF LockInv, NoticedHolds, Covers, MergeHead
<1> QED
  BY <1>1, <1>2, <1>3 DEF LockInv

-----------------------------------------------------------------------------
(* What becomes of the locals of an operation. *)

KeepsName(p) == job'[p].kind = job[p].kind /\ job'[p].agent = job[p].agent /\ job'[p].sha = job[p].sha
KeepsLooks(p) ==
  /\ job'[p].head = job[p].head /\ job'[p].base = job[p].base /\ job'[p].gated = job[p].gated
  /\ job'[p].index = job[p].index /\ job'[p].tested = job[p].tested
KeepsMode(p) ==
  /\ job'[p].reason = job[p].reason /\ job'[p].fused = job[p].fused
  /\ job'[p].spared = job[p].spared /\ job'[p].retries = job[p].retries

LEMMA RefuseJob ==
  ASSUME TypeOK, NEW p \in Proc, NEW r \in Reasons, Refuse(p, r)
  PROVE  /\ pc'[p] = "check"
         /\ job'[p].goal = "abort" /\ job'[p].reason = r
         /\ KeepsName(p) /\ KeepsLooks(p) /\ job'[p].fused = job[p].fused
         /\ job'[p].spared = job[p].spared /\ job'[p].retries = job[p].retries
<1>1. job[p] \in Job /\ p \in DOMAIN job /\ p \in DOMAIN pc
  BY DEF TypeOK
<1>2. job' = [job EXCEPT ![p] = [job[p] EXCEPT !.goal = "abort", !.reason = r]]
  BY DEF Refuse
<1>3. job'[p] = [job[p] EXCEPT !.goal = "abort", !.reason = r]
  BY <1>1, <1>2
<1>4. /\ pc'[p] = "check"
  BY <1>1 DEF Refuse, Goto
<1> QED
  BY <1>1, <1>3, <1>4 DEF Job, KeepsName, KeepsLooks, KeepsMode

LEMMA WriteDoes ==
  ASSUME TypeOK, NEW p \in Proc, Write(p)
  PROVE  /\ KeepsName(p) /\ job'[p].head = job[p].head /\ job'[p].base = job[p].base
         /\ job'[p].gated = job[p].gated /\ job'[p].tested = job[p].tested
         /\ job'[p].spared = job[p].spared /\ job'[p].retries = job[p].retries
         /\ \/ /\ pc'[p] = "stamp" /\ job'[p].index = index' /\ job'[p].fused = TRUE
               /\ job'[p].reason = job[p].reason /\ job'[p].goal = job[p].goal
               /\ index' = [index EXCEPT !.unmerged = FALSE, !.version = @ + 1] /\ UNCHANGED failures
            \/ /\ pc'[p] = "check" /\ job'[p].fused = job[p].fused
               /\ job'[p].goal = "abort" /\ job'[p].reason \in Semantic /\ OneMoreFailure
<1>1. job[p] \in Job /\ p \in DOMAIN job /\ p \in DOMAIN pc
  BY DEF TypeOK
<1> DEFINE r == SemanticReason(p)
<1>r. r \in Semantic
  BY DEF Semantic, SemanticReason
<1>2. \/ /\ job' = [job EXCEPT ![p] = [job[p] EXCEPT !.index = index', !.fused = TRUE]]
         /\ index' = [index EXCEPT !.unmerged = FALSE, !.version = @ + 1]
         /\ Goto(p, "stamp") /\ UNCHANGED failures
      \/ Refuse(p, r) /\ OneMoreFailure
      \/ \E known \in {job[p].index, index, index'} :
           /\ job' = [job EXCEPT ![p] = [job[p] EXCEPT !.goal = "abort", !.reason = r, !.index = known]]
           /\ Goto(p, "check") /\ OneMoreFailure
  BY DEF Write
<1> HIDE DEF r
<1>3. CASE /\ job' = [job EXCEPT ![p] = [job[p] EXCEPT !.index = index', !.fused = TRUE]]
           /\ index' = [index EXCEPT !.unmerged = FALSE, !.version = @ + 1]
           /\ Goto(p, "stamp") /\ UNCHANGED failures
  <2>1. job'[p] = [job[p] EXCEPT !.index = index', !.fused = TRUE] /\ pc'[p] = "stamp"
    BY <1>1, <1>3 DEF Goto
  <2> QED
    BY <1>1, <1>3, <2>1 DEF Job, KeepsName
<1>4. CASE Refuse(p, r) /\ OneMoreFailure
  <2>1. r \in Reasons
    BY <1>r DEF Semantic, Reasons
  <2> QED
    BY <1>4, <1>r, <2>1, RefuseJob DEF KeepsLooks
<1>5. ASSUME NEW known \in {job[p].index, index, index'},
             job' = [job EXCEPT ![p] = [job[p] EXCEPT !.goal = "abort", !.reason = r, !.index = known]],
             Goto(p, "check"), OneMoreFailure
      PROVE  /\ KeepsName(p) /\ job'[p].head = job[p].head /\ job'[p].base = job[p].base
             /\ job'[p].gated = job[p].gated /\ job'[p].tested = job[p].tested
             /\ job'[p].spared = job[p].spared /\ job'[p].retries = job[p].retries
             /\ pc'[p] = "check" /\ job'[p].fused = job[p].fused
             /\ job'[p].goal = "abort" /\ job'[p].reason \in Semantic
  <2>1. /\ job'[p] = [job[p] EXCEPT !.goal = "abort", !.reason = r, !.index = known]
        /\ pc'[p] = "check"
    BY <1>1, <1>5 DEF Goto
  <2> QED
    BY <1>1, <1>r, <2>1 DEF Job, KeepsName
<1> QED
  BY <1>2, <1>3, <1>4, <1>5

LEMMA StampJob ==
  ASSUME TypeOK, NEW p \in Proc, Stamp(p)
  PROVE  /\ pc'[p] = "gate"
         /\ job'[p].index = index
         /\ KeepsName(p) /\ job'[p].head = job[p].head /\ job'[p].base = job[p].base
         /\ job'[p].gated = job[p].gated /\ job'[p].tested = job[p].tested /\ KeepsMode(p)
         /\ job'[p].goal = job[p].goal
<1>1. job[p] \in Job /\ p \in DOMAIN job /\ p \in DOMAIN pc
  BY DEF TypeOK
<1>2. job' = [job EXCEPT ![p] = [job[p] EXCEPT !.index = index]]
  BY DEF Stamp
<1>3. job'[p] = [job[p] EXCEPT !.index = index]
  BY <1>1, <1>2
<1>4. /\ pc'[p] = "gate"
  BY <1>1 DEF Stamp, Goto
<1> QED
  BY <1>1, <1>3, <1>4 DEF Job, KeepsName, KeepsLooks, KeepsMode

LEMMA GreenJob ==
  ASSUME TypeOK, NEW p \in Proc, GateGreen(p)
  PROVE  /\ pc'[p] = "check"
         /\ job'[p].tested = (IF index = job[p].index THEN index ELSE None)
         /\ job'[p].goal = "commit"
         /\ KeepsName(p) /\ job'[p].head = job[p].head /\ job'[p].base = job[p].base
         /\ job'[p].gated = job[p].gated /\ job'[p].index = job[p].index /\ KeepsMode(p)
<1>1. job[p] \in Job /\ p \in DOMAIN job /\ p \in DOMAIN pc
  BY DEF TypeOK
<1>2. job' = [job EXCEPT ![p] = [job[p] EXCEPT !.tested = (IF index = job[p].index THEN index ELSE None), !.goal = "commit"]]
  BY DEF GateGreen
<1>3. job'[p] = [job[p] EXCEPT !.tested = (IF index = job[p].index THEN index ELSE None), !.goal = "commit"]
  BY <1>1, <1>2
<1>4. /\ pc'[p] = "check"
  BY <1>1 DEF GateGreen, Goto
<1> QED
  BY <1>1, <1>3, <1>4 DEF Job, KeepsName, KeepsLooks, KeepsMode

LEMMA RbSettleJob ==
  ASSUME TypeOK, NEW p \in Proc, NEW g \in Goals,
         job' = [job EXCEPT ![p].goal = g]
  PROVE  /\ job'[p].goal = g
         /\ KeepsName(p) /\ KeepsLooks(p) /\ KeepsMode(p)
<1>1. job[p] \in Job /\ p \in DOMAIN job /\ p \in DOMAIN pc
  BY DEF TypeOK
<1>2. job' = [job EXCEPT ![p] = [job[p] EXCEPT !.goal = g]]
  BY DEF TypeOK
<1>3. job'[p] = [job[p] EXCEPT !.goal = g]
  BY <1>1, <1>2
<1> QED
  BY <1>1, <1>3 DEF Job, KeepsName, KeepsLooks, KeepsMode

LEMMA PmGateJob ==
  ASSUME TypeOK, NEW p \in Proc, NEW g \in Goals,
         job' = [job EXCEPT ![p].goal = g, ![p].gated = target]
  PROVE  /\ job'[p].goal = g /\ job'[p].gated = target
         /\ KeepsName(p) /\ job'[p].head = job[p].head /\ job'[p].base = job[p].base
         /\ job'[p].index = job[p].index /\ job'[p].tested = job[p].tested /\ KeepsMode(p)
<1>1. job[p] \in Job /\ p \in DOMAIN job /\ p \in DOMAIN pc
  BY DEF TypeOK
<1>2. job' = [job EXCEPT ![p] = [job[p] EXCEPT !.goal = g, !.gated = target]]
  BY DEF TypeOK
<1>3. job'[p] = [job[p] EXCEPT !.goal = g, !.gated = target]
  BY <1>1, <1>2
<1> QED
  BY <1>1, <1>3 DEF Job, KeepsName, KeepsLooks, KeepsMode

LEMMA RetryJob ==
  ASSUME TypeOK, NEW p \in Proc, job' = [job EXCEPT ![p].retries = @ + 1]
  PROVE  /\ job'[p].retries = job[p].retries + 1
         /\ KeepsName(p) /\ KeepsLooks(p) /\ job'[p].reason = job[p].reason
         /\ job'[p].fused = job[p].fused /\ job'[p].spared = job[p].spared
         /\ job'[p].goal = job[p].goal
<1>1. job[p] \in Job /\ p \in DOMAIN job /\ p \in DOMAIN pc
  BY DEF TypeOK
<1>2. job' = [job EXCEPT ![p] = [job[p] EXCEPT !.retries = job[p].retries + 1]]
  BY DEF TypeOK
<1>3. job'[p] = [job[p] EXCEPT !.retries = job[p].retries + 1]
  BY <1>1, <1>2
<1> QED
  BY <1>1, <1>3 DEF Job, KeepsName, KeepsLooks, KeepsMode

LEMMA FetchJob ==
  ASSUME TypeOK, NEW p \in Proc, NEW s \in 0..MaxWork, NEW r \in Reasons,
         job' = [job EXCEPT ![p].sha = s, ![p].head = target, ![p].reason = r]
  PROVE  /\ job'[p].sha = s /\ job'[p].head = target /\ job'[p].reason = r
         /\ job'[p].kind = job[p].kind /\ job'[p].agent = job[p].agent
         /\ job'[p].base = job[p].base /\ job'[p].gated = job[p].gated
         /\ job'[p].index = job[p].index /\ job'[p].tested = job[p].tested
         /\ job'[p].fused = job[p].fused /\ job'[p].spared = job[p].spared
         /\ job'[p].retries = job[p].retries /\ job'[p].goal = job[p].goal
<1>1. job[p] \in Job /\ p \in DOMAIN job /\ p \in DOMAIN pc
  BY DEF TypeOK
<1>2. job' = [job EXCEPT ![p] = [job[p] EXCEPT !.sha = s, !.head = target, !.reason = r]]
  BY DEF TypeOK
<1>3. job'[p] = [job[p] EXCEPT !.sha = s, !.head = target, !.reason = r]
  BY <1>1, <1>2
<1> QED
  BY <1>1, <1>3 DEF Job, KeepsName, KeepsLooks, KeepsMode

LEMMA ReplayJob ==
  ASSUME TypeOK, NEW p \in Proc, NEW s \in 0..MaxWork, NEW g \in Goals,
         job' = [job EXCEPT ![p].sha = s, ![p].head = target, ![p].goal = g]
  PROVE  /\ job'[p].sha = s /\ job'[p].head = target /\ job'[p].goal = g
         /\ job'[p].kind = job[p].kind /\ job'[p].agent = job[p].agent
         /\ job'[p].base = job[p].base /\ job'[p].gated = job[p].gated
         /\ job'[p].index = job[p].index /\ job'[p].tested = job[p].tested /\ KeepsMode(p)
<1>1. job[p] \in Job /\ p \in DOMAIN job /\ p \in DOMAIN pc
  BY DEF TypeOK
<1>2. job' = [job EXCEPT ![p] = [job[p] EXCEPT !.sha = s, !.head = target, !.goal = g]]
  BY DEF TypeOK
<1>3. job'[p] = [job[p] EXCEPT !.sha = s, !.head = target, !.goal = g]
  BY <1>1, <1>2
<1> QED
  BY <1>1, <1>3 DEF Job, KeepsName, KeepsLooks, KeepsMode

LEMMA RbReadJob ==
  ASSUME TypeOK, NEW p \in Proc, NEW a \in Agent \cup {NoOne}, NEW s \in 0..MaxWork,
         job' = [job EXCEPT ![p].head = target, ![p].agent = a, ![p].sha = s]
  PROVE  /\ job'[p].head = target /\ job'[p].agent = a /\ job'[p].sha = s
         /\ job'[p].kind = job[p].kind /\ job'[p].base = job[p].base
         /\ job'[p].gated = job[p].gated /\ job'[p].index = job[p].index
         /\ job'[p].tested = job[p].tested /\ KeepsMode(p) /\ job'[p].goal = job[p].goal
<1>1. job[p] \in Job /\ p \in DOMAIN job /\ p \in DOMAIN pc
  BY DEF TypeOK
<1>2. job' = [job EXCEPT ![p] = [job[p] EXCEPT !.head = target, !.agent = a, !.sha = s]]
  BY DEF TypeOK
<1>3. job'[p] = [job[p] EXCEPT !.head = target, !.agent = a, !.sha = s]
  BY <1>1, <1>2
<1> QED
  BY <1>1, <1>3 DEF Job, KeepsName, KeepsLooks, KeepsMode

LEMMA PmReadJob ==
  ASSUME TypeOK, NEW p \in Proc, job' = [job EXCEPT ![p].head = target, ![p].base = main]
  PROVE  /\ job'[p].head = target /\ job'[p].base = main
         /\ KeepsName(p) /\ job'[p].gated = job[p].gated /\ job'[p].index = job[p].index
         /\ job'[p].tested = job[p].tested /\ KeepsMode(p) /\ job'[p].goal = job[p].goal
<1>1. job[p] \in Job /\ p \in DOMAIN job /\ p \in DOMAIN pc
  BY DEF TypeOK
<1>2. job' = [job EXCEPT ![p] = [job[p] EXCEPT !.head = target, !.base = main]]
  BY DEF TypeOK
<1>3. job'[p] = [job[p] EXCEPT !.head = target, !.base = main]
  BY <1>1, <1>2
<1> QED
  BY <1>1, <1>3 DEF Job, KeepsName, KeepsLooks, KeepsMode

LEMMA SparedJob ==
  ASSUME TypeOK, NEW p \in Proc, NEW r \in Reasons,
         job' = [job EXCEPT ![p].goal = "abort", ![p].reason = r, ![p].spared = TRUE]
  PROVE  /\ job'[p].goal = "abort" /\ job'[p].reason = r /\ job'[p].spared = TRUE
         /\ KeepsName(p) /\ KeepsLooks(p) /\ job'[p].fused = job[p].fused
         /\ job'[p].retries = job[p].retries
<1>1. job[p] \in Job /\ p \in DOMAIN job /\ p \in DOMAIN pc
  BY DEF TypeOK
<1>2. job' = [job EXCEPT ![p] = [job[p] EXCEPT !.goal = "abort", !.reason = r, !.spared = TRUE]]
  BY DEF TypeOK
<1>3. job'[p] = [job[p] EXCEPT !.goal = "abort", !.reason = r, !.spared = TRUE]
  BY <1>1, <1>2
<1> QED
  BY <1>1, <1>3 DEF Job, KeepsName, KeepsLooks, KeepsMode

LEMMA FailedJob ==
  ASSUME TypeOK, NEW p \in Proc, NEW r \in Reasons,
         job' = [job EXCEPT ![p].goal = "abort", ![p].reason = r]
  PROVE  /\ job'[p].goal = "abort" /\ job'[p].reason = r
         /\ KeepsName(p) /\ KeepsLooks(p) /\ job'[p].fused = job[p].fused
         /\ job'[p].spared = job[p].spared /\ job'[p].retries = job[p].retries
<1>1. job[p] \in Job /\ p \in DOMAIN job /\ p \in DOMAIN pc
  BY DEF TypeOK
<1>2. job' = [job EXCEPT ![p] = [job[p] EXCEPT !.goal = "abort", !.reason = r]]
  BY DEF TypeOK
<1>3. job'[p] = [job[p] EXCEPT !.goal = "abort", !.reason = r]
  BY <1>1, <1>2
<1> QED
  BY <1>1, <1>3 DEF Job, KeepsName, KeepsLooks, KeepsMode

LEMMA FetchDoes ==
  ASSUME TypeOK, NEW p \in Proc, KindInv(p), Fetch(p)
  PROVE  /\ job'[p].kind = job[p].kind /\ job'[p].agent = job[p].agent
         /\ job'[p].sha = head[job[p].agent] /\ job'[p].sha \in 0..MaxWork
         /\ \/ pc'[p] = "leave" /\ job'[p].result = "upToDate"
            \/ /\ pc'[p] = "open" /\ UNCHANGED lastMerged
               /\ job'[p].sha > Landed(job[p].agent) /\ job'[p].head = target
               /\ job'[p].reason \in {"none", "PROTECTED_PATHS_CHANGED"}
               /\ job'[p].goal = job[p].goal /\ job'[p].index = job[p].index
               /\ job'[p].fused = job[p].fused /\ job'[p].retries = job[p].retries
<1>1. /\ job[p].agent \in Agent /\ job[p] \in Job /\ p \in DOMAIN job /\ p \in DOMAIN pc
      /\ head[job[p].agent] \in 0..MaxWork
  BY DEF TypeOK, KindInv, Fetch, At
<1> DEFINE s == head[job[p].agent]
<1>2. \/ pc'[p] = "leave" /\ job' = [job EXCEPT ![p].sha = s, ![p].result = "upToDate"]
      \/ /\ pc'[p] = "open" /\ UNCHANGED lastMerged /\ s > Landed(job[p].agent)
         /\ \E r \in {"none", "PROTECTED_PATHS_CHANGED"} :
              job' = [job EXCEPT ![p].sha = s, ![p].head = target, ![p].reason = r]
  BY <1>1, Zenon DEF Fetch, Goto
<1>3. CASE pc'[p] = "leave" /\ job' = [job EXCEPT ![p].sha = s, ![p].result = "upToDate"]
  <2>1. job'[p] = [job[p] EXCEPT !.sha = s, !.result = "upToDate"]
    BY <1>1, <1>3
  <2> QED
    BY <1>1, <1>3, <2>1 DEF Job
<1>4. ASSUME pc'[p] = "open", UNCHANGED lastMerged, s > Landed(job[p].agent),
             NEW r \in {"none", "PROTECTED_PATHS_CHANGED"},
             job' = [job EXCEPT ![p].sha = s, ![p].head = target, ![p].reason = r]
      PROVE  /\ job'[p].kind = job[p].kind /\ job'[p].agent = job[p].agent
             /\ job'[p].sha = s /\ job'[p].sha > Landed(job[p].agent) /\ job'[p].head = target
             /\ job'[p].reason \in {"none", "PROTECTED_PATHS_CHANGED"}
             /\ job'[p].goal = job[p].goal /\ job'[p].index = job[p].index
             /\ job'[p].fused = job[p].fused /\ job'[p].retries = job[p].retries
  <2>1. r \in Reasons /\ s \in 0..MaxWork
    BY <1>1, <1>4 DEF Reasons
  <2>2. /\ job'[p].sha = s /\ job'[p].head = target /\ job'[p].reason = r
        /\ job'[p].kind = job[p].kind /\ job'[p].agent = job[p].agent
        /\ job'[p].goal = job[p].goal /\ job'[p].index = job[p].index
        /\ job'[p].fused = job[p].fused /\ job'[p].retries = job[p].retries
    BY <1>4, <2>1, FetchJob
  <2>3. job'[p].sha > Landed(job[p].agent)
    BY <1>4, <2>2
  <2> QED
    BY <1>4, <2>2, <2>3
<1>5. CASE /\ pc'[p] = "open" /\ UNCHANGED lastMerged /\ s > Landed(job[p].agent)
           /\ \E r \in {"none", "PROTECTED_PATHS_CHANGED"} :
                job' = [job EXCEPT ![p].sha = s, ![p].head = target, ![p].reason = r]
  <2>1. PICK r \in {"none", "PROTECTED_PATHS_CHANGED"} :
          job' = [job EXCEPT ![p].sha = s, ![p].head = target, ![p].reason = r]
    BY <1>5, Zenon
  <2> HIDE DEF s
  <2>2. /\ job'[p].kind = job[p].kind /\ job'[p].agent = job[p].agent
        /\ job'[p].sha = s /\ job'[p].sha > Landed(job[p].agent) /\ job'[p].head = target
        /\ job'[p].reason \in {"none", "PROTECTED_PATHS_CHANGED"}
        /\ job'[p].goal = job[p].goal /\ job'[p].index = job[p].index
        /\ job'[p].fused = job[p].fused /\ job'[p].retries = job[p].retries
    BY <1>5, <2>1, <1>4
  <2> QED
    BY <1>1, <1>5, <2>2 DEF s
<1> QED
  BY <1>2, <1>3, <1>5, Zenon

LEMMA LlmDoes ==
  ASSUME TypeOK, NEW p \in Proc, Llm(p)
  PROVE  /\ pc'[p] = "check" /\ KeepsName(p) /\ KeepsLooks(p)
         /\ job'[p].fused = job[p].fused /\ job'[p].retries = job[p].retries
         /\ \/ /\ job'[p].goal = "write" /\ job'[p].reason = job[p].reason
               /\ job'[p].spared = job[p].spared /\ UNCHANGED failures
            \/ /\ job'[p].goal = "abort" /\ job'[p].reason \in Semantic
               /\ OneMoreFailure \/ (job'[p].spared /\ UNCHANGED failures)
<1>1. job[p] \in Job /\ p \in DOMAIN job /\ p \in DOMAIN pc
  BY DEF TypeOK
<1>2. PICK r \in Semantic :
        \/ job' = [job EXCEPT ![p].goal = "write"] /\ UNCHANGED failures
        \/ job' = [job EXCEPT ![p].goal = "abort", ![p].reason = r] /\ OneMoreFailure
        \/ job' = [job EXCEPT ![p].goal = "abort", ![p].reason = r, ![p].spared = TRUE] /\ UNCHANGED failures
  BY DEF Llm, Refuse, Semantic, SemanticReason
<1>3. r \in Reasons /\ "write" \in Goals
  BY DEF Semantic, Reasons, Goals
<1>4. pc'[p] = "check"
  BY <1>1 DEF Llm, Refuse, Goto
<1>5. CASE job' = [job EXCEPT ![p].goal = "write"] /\ UNCHANGED failures
  BY <1>3, <1>4, <1>5, RbSettleJob DEF KeepsName, KeepsLooks, KeepsMode
<1>6. CASE job' = [job EXCEPT ![p].goal = "abort", ![p].reason = r] /\ OneMoreFailure
  BY <1>3, <1>4, <1>6, FailedJob DEF KeepsName, KeepsLooks, KeepsMode
<1>7. CASE job' = [job EXCEPT ![p].goal = "abort", ![p].reason = r, ![p].spared = TRUE] /\ UNCHANGED failures
  BY <1>3, <1>4, <1>7, SparedJob DEF KeepsName, KeepsLooks, KeepsMode
<1> QED
  BY <1>2, <1>5, <1>6, <1>7

LEMMA RedDoes ==
  ASSUME TypeOK, NEW p \in Proc, GateRed(p)
  PROVE  /\ KeepsName(p) /\ KeepsLooks(p)
         /\ job'[p].fused = job[p].fused /\ job'[p].spared = job[p].spared
         /\ \/ /\ pc'[p] = "llm" /\ job[p].fused /\ UNCHANGED failures
               /\ job'[p].retries = job[p].retries + 1 /\ job'[p].reason = job[p].reason
               /\ job'[p].goal = job[p].goal
            \/ /\ pc'[p] = "check" /\ job'[p].goal = "abort" /\ job'[p].retries = job[p].retries
               /\ \/ job[p].fused /\ job'[p].reason = "SEMANTIC_GATE_FAILED" /\ OneMoreFailure
                  \/ ~job[p].fused /\ job'[p].reason = "GATE_FAILED" /\ UNCHANGED failures
<1>1. job[p] \in Job /\ p \in DOMAIN job /\ p \in DOMAIN pc
  BY DEF TypeOK
<1>2. CASE Goto(p, "llm")
  <2>1. pc'[p] = "llm" /\ pc'[p] # "check"
    BY <1>1, <1>2 DEF Goto
  <2>2. job[p].fused /\ UNCHANGED failures /\ job' = [job EXCEPT ![p].retries = @ + 1]
    BY <1>1, <2>1 DEF GateRed, Refuse, Goto
  <2> QED
    BY <2>1, <2>2, RetryJob DEF KeepsName, KeepsLooks, KeepsMode
<1>3. CASE ~Goto(p, "llm")
  <2>1. \/ job[p].fused /\ Refuse(p, "SEMANTIC_GATE_FAILED") /\ OneMoreFailure
        \/ ~job[p].fused /\ Refuse(p, "GATE_FAILED") /\ UNCHANGED failures
    BY <1>3 DEF GateRed
  <2> QED
    BY <2>1, RefuseJob DEF Reasons
<1> QED
  BY <1>2, <1>3

LEMMA ReplayDoes ==
  ASSUME TypeOK, NEW p \in Proc, KindInv(p), Replay(p), ~Finish(p, "failed")
  PROVE  /\ job'[p].kind = job[p].kind /\ job'[p].agent = job[p].agent
         /\ job'[p].sha \in 1..MaxWork /\ job'[p].head = target /\ KeepsMode(p)
         /\ job'[p].index = job[p].index /\ job'[p].goal \in {"none", "close"}
         /\ \E t \in tickets : t.work = <<job'[p].agent, job'[p].sha>>
         /\ \/ /\ pc'[p] = "drop" /\ job'[p].goal = "close" /\ UNCHANGED <<merge, index, noticed>>
               /\ job'[p].sha <= Landed(job[p].agent)
            \/ /\ pc'[p] \in {"apply", "drop"}
               /\ pc'[p] = "apply" => job'[p].goal = "none"
               /\ merge' = [by |-> p, work |-> <<job'[p].agent, job'[p].sha>>]
               /\ index' \in {MergedIndex, ConflictedIndex} /\ noticed' = FALSE
               /\ job'[p].sha > Landed(job[p].agent)
<1>1. job[p] \in Job /\ p \in DOMAIN job /\ p \in DOMAIN pc /\ job[p].agent \in Agent /\ tickets \subseteq Ticket
  BY DEF TypeOK, KindInv, Replay, At
<1>2. PICK t \in tickets, l \in {"apply", "drop"}, g \in {"none", "close"} :
        /\ t.work[1] = job[p].agent
        /\ Goto(p, l) /\ job' = [job EXCEPT ![p].sha = t.work[2], ![p].head = target, ![p].goal = g]
        /\ \/ /\ t.work[2] <= Landed(job[p].agent)
              /\ l = "drop" /\ g = "close" /\ UNCHANGED <<merge, index, noticed>>
           \/ /\ t.work[2] > Landed(job[p].agent)
              /\ merge' = [by |-> p, work |-> t.work]
              /\ index' \in {MergedIndex, ConflictedIndex} /\ noticed' = FALSE
              /\ l = "apply" => g = "none"
  <2>1. PICK t \in tickets :
          /\ t.work[1] = job[p].agent
          /\ \/ /\ t.work[2] <= Landed(job[p].agent)
                /\ Goto(p, "drop")
                /\ job' = [job EXCEPT ![p].sha = t.work[2], ![p].head = target, ![p].goal = "close"]
                /\ UNCHANGED <<merge, index, noticed>>
             \/ /\ t.work[2] > Landed(job[p].agent)
                /\ merge' = [by |-> p, work |-> t.work]
                /\ index' \in {MergedIndex, ConflictedIndex} /\ noticed' = FALSE
                /\ \/ /\ Goto(p, "apply")
                      /\ job' = [job EXCEPT ![p].sha = t.work[2], ![p].head = target, ![p].goal = "none"]
                   \/ /\ Goto(p, "drop")
                      /\ job' = [job EXCEPT ![p].sha = t.work[2], ![p].head = target, ![p].goal = "none"]
                   \/ /\ Goto(p, "drop")
                      /\ job' = [job EXCEPT ![p].sha = t.work[2], ![p].head = target, ![p].goal = "close"]
    BY Zenon DEF Replay
  <2> QED
    BY <2>1, Zenon
<1>3. t.work \in Work
  BY <1>1, <1>2, MergeChainAssumption DEF Ticket
<1>4. t.work[2] \in 1..MaxWork /\ t.work = <<t.work[1], t.work[2]>>
  BY <1>3 DEF Work
<1>5. g \in Goals /\ t.work[2] \in 0..MaxWork
  BY <1>4, MergeChainAssumption DEF Goals
<1>6. /\ job'[p].sha = t.work[2] /\ job'[p].head = target /\ job'[p].goal = g
      /\ job'[p].kind = job[p].kind /\ job'[p].agent = job[p].agent /\ KeepsMode(p)
      /\ job'[p].index = job[p].index
  <2>1. job' = [job EXCEPT ![p].sha = t.work[2], ![p].head = target, ![p].goal = g]
    BY <1>2
  <2> QED
    BY <1>5, <2>1, ReplayJob
<1>7. pc'[p] = l
  BY <1>1, <1>2 DEF Goto
<1> QED
  BY <1>2, <1>4, <1>6, <1>7

LEMMA RbReadDoes ==
  ASSUME TypeOK, NEW p \in Proc, RbRead(p), ~Finish(p, "failed")
  PROVE  /\ pc'[p] = "rbSettle" /\ job'[p].kind = job[p].kind /\ job'[p].head = target
         /\ target # <<>> /\ target[Len(target)].by \in Proc
         /\ job'[p].agent = target[Len(target)].work[1]
<1>1. job[p] \in Job /\ p \in DOMAIN job /\ p \in DOMAIN pc /\ target \in Seq(Commit)
  BY DEF TypeOK
<1> DEFINE tip == target[Len(target)]
<1>2. /\ target # <<>> /\ tip.by \in Proc /\ Goto(p, "rbSettle")
      /\ job' = [job EXCEPT ![p].head = target, ![p].agent = tip.work[1], ![p].sha = tip.work[2]]
  BY Zenon DEF RbRead
<1>3. tip \in Commit
  BY <1>1, <1>2
<1>4. tip.work[1] \in Agent \cup {NoOne} /\ tip.work[2] \in 0..MaxWork
  BY <1>3, MergeChainAssumption DEF Commit, Work
<1> HIDE DEF tip
<1>5. job'[p].kind = job[p].kind /\ job'[p].head = target /\ job'[p].agent = tip.work[1]
  BY <1>2, <1>4, RbReadJob
<1>6. pc'[p] = "rbSettle"
  BY <1>1, <1>2 DEF Goto
<1> QED
  BY <1>2, <1>5, <1>6 DEF tip

LEMMA RbSettleDoes ==
  ASSUME TypeOK, NEW p \in Proc, RbSettle(p)
  PROVE  /\ pc'[p] = "rbAssert" /\ job'[p].goal \in {"rbReset", "rbRevert"}
         /\ KeepsName(p) /\ KeepsLooks(p)
<1>1. p \in DOMAIN pc
  BY DEF TypeOK
<1>2. PICK g \in {"rbReset", "rbRevert"} : job' = [job EXCEPT ![p].goal = g]
  BY DEF RbSettle
<1>3. g \in Goals
  BY DEF Goals
<1> QED
  BY <1>1, <1>2, <1>3, RbSettleJob DEF RbSettle, Goto

LEMMA PmReadDoes ==
  ASSUME TypeOK, NEW p \in Proc, PmRead(p)
  PROVE  \/ \E r \in Results : Finish(p, r)
         \/ /\ pc'[p] = "pmGate" /\ job'[p].kind = job[p].kind
            /\ job'[p].head = target /\ job'[p].base = main /\ IsPrefix(main, target)
<1>1. p \in DOMAIN pc
  BY DEF TypeOK
<1> QED
  BY <1>1, PmReadJob DEF PmRead, Goto, Results, KeepsName

LEMMA PmGateDoes ==
  ASSUME TypeOK, NEW p \in Proc, PmGate(p)
  PROVE  /\ pc'[p] = "pmCheck" /\ job'[p].goal \in {"pmSwap", "pmReset", "pmTicket"}
         /\ job'[p].kind = job[p].kind /\ job'[p].gated = target
         /\ job'[p].head = job[p].head /\ job'[p].base = job[p].base
<1>1. p \in DOMAIN pc
  BY DEF TypeOK
<1>2. PICK g \in {"pmSwap", "pmReset", "pmTicket"} :
        job' = [job EXCEPT ![p].goal = g, ![p].gated = target]
  BY DEF PmGate
<1>3. g \in Goals
  BY DEF Goals
<1> QED
  BY <1>1, <1>2, <1>3, PmGateJob DEF PmGate, Goto, KeepsName

LEMMA AcquireDoes ==
  ASSUME TypeOK, NEW p \in Proc, NEW kind, NEW a, Acquire(p, kind, a)
  PROVE  /\ pc'[p] = "enter" /\ holder' = p
         /\ job'[p].kind = kind /\ job'[p].agent = a
         /\ job'[p].sha = 0 /\ job'[p].retries = 0 /\ ~job'[p].fused /\ ~job'[p].spared
         /\ job'[p].goal = "none" /\ job'[p].reason = "none"
<1>1. p \in DOMAIN pc /\ p \in DOMAIN job
  BY DEF TypeOK
<1>2. job'[p] = [NoJob EXCEPT !.kind = kind, !.agent = a] /\ pc'[p] = "enter" /\ holder' = p
  BY <1>1 DEF Acquire, Goto
<1> QED
  BY <1>2 DEF NoJob

-----------------------------------------------------------------------------
(* What an operation knows of itself, along the steps. *)

LEMMA KindHere ==
  ASSUME MInv, NEW p \in Proc, ProcStep(p)
  PROVE  KindInv(p)'
<1>0. /\ TypeOK /\ pc \in [Proc -> PCs] /\ job \in [Proc -> Job] /\ job[p] \in Job
      /\ KindInv(p)
  BY DEF MInv, TypeOK, Own
<1>f. ASSUME NEW r \in Results, Finish(p, r) PROVE KindInv(p)'
  <2>1. pc'[p] = "leave" /\ job'[p].kind = job[p].kind /\ job'[p].agent = job[p].agent
    BY <1>0, <1>f, FinishJob DEF MInv
  <2> QED
    BY <1>0, <2>1 DEF KindInv, OpenMergePcs, RollbackPcs, PromotePcs
<1>r. ASSUME NEW r \in Reasons, Refuse(p, r), pc[p] \in OpenMergePcs PROVE KindInv(p)'
  <2>1. pc'[p] = "check" /\ KeepsName(p)
    BY <1>0, <1>r, RefuseJob
  <2> QED
    BY <1>0, <1>r, <2>1 DEF KindInv, OpenMergePcs, RollbackPcs, PromotePcs, KeepsName
<1>l. \A a : Landed(a) \in Nat
  BY LandedMax, LandedHere, MergeChainAssumption DEF MInv, TypeOK
<1>1. CASE Enter(p)
  BY <1>0, <1>1, <1>f, MergeChainAssumption DEF Enter, At, Goto, Results, KindInv, OpenMergePcs, RollbackPcs, PromotePcs
<1>2. CASE Recover(p)
  BY <1>0, <1>2, <1>f DEF Recover, At, Results, Goto, KindInv, OpenMergePcs, RollbackPcs, PromotePcs
<1>3. CASE AbortOrphan(p)
  BY <1>0, <1>3, <1>f DEF AbortOrphan, At, Results, Goto, KindInv, OpenMergePcs, RollbackPcs, PromotePcs
<1>4. CASE Ready(p)
  BY <1>0, <1>4, <1>f DEF Ready, At, Results, Goto, KindInv, OpenMergePcs, RollbackPcs, PromotePcs
<1>5. CASE Leave(p)
  BY <1>0, <1>5 DEF Leave, Goto, NoJob, KindInv, OpenMergePcs, RollbackPcs, PromotePcs
<1>6. CASE Fetch(p)
  <2>1. Landed(job[p].agent) >= 0 /\ pc[p] = "fetch"
    BY <1>l, <1>6 DEF Fetch, At
  <2>2. /\ job'[p].kind = job[p].kind /\ job'[p].agent = job[p].agent
        /\ pc'[p] = "leave" \/ (pc'[p] = "open" /\ job'[p].sha > 0)
    BY <1>0, <1>l, <1>6, <2>1, FetchDoes
  <2> QED
    BY <1>0, <2>1, <2>2 DEF KindInv, OpenMergePcs, RollbackPcs, PromotePcs
<1>7. CASE OpenTheMerge(p)
  BY <1>0, <1>7, <1>r DEF OpenTheMerge, At, Reasons, Goto, KindInv, OpenMergePcs, RollbackPcs, PromotePcs
<1>8. CASE BlindAbort(p)
  BY <1>0, <1>8, <1>f DEF BlindAbort, At, Results, Goto, KindInv, OpenMergePcs, RollbackPcs, PromotePcs
<1>9. CASE Classify(p)
  BY <1>0, <1>9, <1>r DEF Classify, At, Reasons, Goto, KindInv, OpenMergePcs, RollbackPcs, PromotePcs
<1>10. CASE Llm(p)
  BY <1>0, <1>10, LlmDoes DEF Llm, At, KeepsName, KeepsLooks, KeepsMode, KindInv, OpenMergePcs, RollbackPcs, PromotePcs
<1>11. CASE Check(p)
  BY <1>0, <1>11, <1>f DEF MInv, Own, GoalInv, Check, At, Goto, Results, KindInv, OpenMergePcs, RollbackPcs, PromotePcs
<1>12. CASE Write(p)
  BY <1>0, <1>12, WriteDoes DEF Write, At, KeepsName, KindInv, OpenMergePcs, RollbackPcs, PromotePcs
<1>13. CASE Stamp(p)
  BY <1>0, <1>13, StampJob DEF Stamp, At, KeepsName, KeepsLooks, KeepsMode, KindInv, OpenMergePcs, RollbackPcs, PromotePcs
<1>14. CASE GateGreen(p)
  BY <1>0, <1>14, GreenJob DEF GateGreen, At, KeepsName, KeepsLooks, KeepsMode, KindInv, OpenMergePcs, RollbackPcs, PromotePcs
<1>15. CASE GateRed(p)
  BY <1>0, <1>15, RedDoes DEF GateRed, At, KeepsName, KeepsLooks, KeepsMode, KindInv, OpenMergePcs, RollbackPcs, PromotePcs
<1>16. CASE Conclude(p)
  BY <1>0, <1>16, <1>r DEF Conclude, At, Reasons, Goto, KindInv, OpenMergePcs, RollbackPcs, PromotePcs
<1>17. CASE Record(p)
  BY <1>0, <1>17 DEF Record, At, Goto, KindInv, OpenMergePcs, RollbackPcs, PromotePcs
<1>18. CASE Meta(p)
  BY <1>0, <1>18, <1>f DEF Meta, At, Results, Goto, KindInv, OpenMergePcs, RollbackPcs, PromotePcs
<1>19. CASE Abort(p)
  BY <1>0, <1>19, <1>f DEF Abort, At, Results, Goto, KindInv, OpenMergePcs, RollbackPcs, PromotePcs
<1>20. CASE Count(p)
  BY <1>0, <1>20 DEF Count, At, Goto, KindInv, OpenMergePcs, RollbackPcs, PromotePcs
<1>21. CASE FileTicket(p)
  BY <1>0, <1>21, <1>f DEF FileTicket, At, Results, Goto, KindInv, OpenMergePcs, RollbackPcs, PromotePcs
<1>22. CASE Replay(p)
  <2>1. CASE Finish(p, "failed")
    BY <1>f, <2>1 DEF Results
  <2>2. CASE ~Finish(p, "failed")
    <3>1. /\ job'[p].kind = job[p].kind /\ job'[p].agent = job[p].agent
          /\ pc'[p] \in {"apply", "drop"} /\ job'[p].sha \in 1..MaxWork
      BY <1>0, <1>22, <2>2, ReplayDoes
    <3>2. pc[p] = "replay"
      BY <1>22 DEF Replay, At
    <3>3. job'[p].sha > 0
      BY <3>1, MergeChainAssumption
    <3> QED
      BY <1>0, <3>1, <3>2, <3>3 DEF KindInv, OpenMergePcs, RollbackPcs, PromotePcs
  <2> QED
    BY <2>1, <2>2
<1>23. CASE Apply(p)
  BY <1>0, <1>23 DEF Apply, At, Goto, KindInv, OpenMergePcs, RollbackPcs, PromotePcs
<1>24. CASE Drop(p)
  BY <1>0, <1>24, <1>f DEF Drop, At, Results, Goto, KindInv, OpenMergePcs, RollbackPcs, PromotePcs
<1>25. CASE CloseTickets(p)
  BY <1>0, <1>25, <1>f DEF CloseTickets, At, Results, Goto, KindInv, OpenMergePcs, RollbackPcs, PromotePcs
<1>26. CASE RbRead(p)
  BY <1>0, <1>26, <1>f, RbReadDoes DEF RbRead, At, Results, KindInv, OpenMergePcs, RollbackPcs, PromotePcs
<1>27. CASE RbSettle(p)
  BY <1>0, <1>27, RbSettleDoes DEF RbSettle, At, KeepsName, KeepsLooks, KeepsMode, KindInv, OpenMergePcs, RollbackPcs, PromotePcs
<1>28. CASE RbAssert(p)
  BY <1>0, <1>28, <1>f DEF MInv, Own, GoalInv, RbAssert, At, Goto, Results, KindInv, OpenMergePcs, RollbackPcs, PromotePcs
<1>29. CASE RbReset(p)
  BY <1>0, <1>29 DEF RbReset, At, Goto, KindInv, OpenMergePcs, RollbackPcs, PromotePcs
<1>30. CASE RbRevert(p)
  BY <1>0, <1>30, <1>f DEF RbRevert, At, Results, Goto, KindInv, OpenMergePcs, RollbackPcs, PromotePcs
<1>31. CASE RbSync(p)
  BY <1>0, <1>31, <1>f DEF RbSync, At, Results, Goto, KindInv, OpenMergePcs, RollbackPcs, PromotePcs
<1>32. CASE PmRead(p)
  BY <1>0, <1>32, <1>f, PmReadDoes DEF PmRead, At, KeepsName, KeepsLooks, KeepsMode, KindInv, OpenMergePcs, RollbackPcs, PromotePcs
<1>33. CASE PmGate(p)
  BY <1>0, <1>33, PmGateDoes DEF PmGate, At, KeepsName, KeepsLooks, KeepsMode, KindInv, OpenMergePcs, RollbackPcs, PromotePcs
<1>34. CASE PmCheck(p)
  BY <1>0, <1>34, <1>f DEF MInv, Own, GoalInv, PmCheck, At, Goto, Results, KindInv, OpenMergePcs, RollbackPcs, PromotePcs
<1>35. CASE PmSwap(p)
  BY <1>0, <1>35, <1>f DEF PmSwap, At, Results, Goto, KindInv, OpenMergePcs, RollbackPcs, PromotePcs
<1>36. CASE PmReset(p)
  BY <1>0, <1>36 DEF PmReset, At, Goto, KindInv, OpenMergePcs, RollbackPcs, PromotePcs
<1>37. CASE PmTicket(p)
  BY <1>0, <1>37, <1>f DEF PmTicket, At, Results, Goto, KindInv, OpenMergePcs, RollbackPcs, PromotePcs
<1>38. CASE \E kind \in Kinds, a \in Agent \cup {NoOne} :
            (kind \in {"merge", "resolve"} => a \in Agent) /\ Acquire(p, kind, a)
  BY <1>0, <1>38, AcquireDoes DEF KindInv, OpenMergePcs, RollbackPcs, PromotePcs
<1>39. CASE Crash(p) \/ Freeze(p) \/ Thaw(p)
  BY <1>0, <1>39 DEF Crash, Freeze, Thaw, Goto, NoJob, KindInv, OpenMergePcs, RollbackPcs, PromotePcs
<1> QED
  BY <1>1, <1>2, <1>3, <1>4, <1>5, <1>6, <1>7, <1>8, <1>9, <1>10, <1>11, <1>12, <1>13, <1>14,
     <1>15, <1>16, <1>17, <1>18, <1>19, <1>20, <1>21, <1>22, <1>23, <1>24, <1>25, <1>26, <1>27,
     <1>28, <1>29, <1>30, <1>31, <1>32, <1>33, <1>34, <1>35, <1>36, <1>37, <1>38, <1>39
     DEF ProcStep, OperationStep, MergeStep, ResolveStep, RollbackStep, PromoteStep

LEMMA GoalHere ==
  ASSUME MInv, NEW p \in Proc, ProcStep(p)
  PROVE  GoalInv(p)'
<1>0. /\ TypeOK /\ pc \in [Proc -> PCs] /\ job \in [Proc -> Job] /\ job[p] \in Job
      /\ GoalInv(p) /\ KindInv(p)
  BY DEF MInv, TypeOK, Own
<1>f. ASSUME NEW r \in Results, Finish(p, r) PROVE GoalInv(p)'
  <2>1. pc'[p] = "leave"
    BY <1>0, <1>f, FinishJob DEF MInv
  <2> QED
    BY <2>1 DEF GoalInv
<1>r. ASSUME NEW r \in Reasons, Refuse(p, r) PROVE GoalInv(p)'
  <2>1. pc'[p] = "check" /\ job'[p].goal = "abort"
    BY <1>0, <1>r, RefuseJob
  <2> QED
    BY <2>1 DEF GoalInv
<1>1. CASE Enter(p)
  BY <1>0, <1>1, <1>f DEF Enter, At, Results, Goto, GoalInv, Fresh, Semantic
<1>2. CASE Recover(p)
  BY <1>0, <1>2, <1>f DEF Recover, At, Results, Goto, GoalInv, Fresh, Semantic
<1>3. CASE AbortOrphan(p)
  BY <1>0, <1>3, <1>f DEF AbortOrphan, At, Results, Goto, GoalInv, Fresh, Semantic
<1>4. CASE Ready(p)
  <2>1. \/ Finish(p, "failed")
        \/ /\ job[p].kind \in {"merge", "resolve", "rollback", "promote"} /\ UNCHANGED job
           /\ pc[p] = "ready" /\ pc'[p] \in {"fetch", "replay", "rbRead", "pmRead"}
    BY <1>0, <1>4 DEF Ready, At, Goto, KindInv
  <2> QED
    BY <1>0, <1>f, <2>1 DEF Results, GoalInv, Fresh
<1>5. CASE Leave(p)
  BY <1>0, <1>5 DEF Leave, At, Goto, GoalInv, Fresh, Semantic
<1>6. CASE Fetch(p)
  BY <1>0, <1>6, FetchDoes DEF Fetch, At, KeepsName, KeepsLooks, KeepsMode, GoalInv, Fresh, Semantic
<1>7. CASE OpenTheMerge(p)
  BY <1>0, <1>7, <1>r DEF OpenTheMerge, At, Reasons, Goto, GoalInv, Fresh, Semantic
<1>8. CASE BlindAbort(p)
  BY <1>0, <1>8, <1>f DEF BlindAbort, At, Results, Goto, GoalInv, Fresh, Semantic
<1>9. CASE Classify(p)
  BY <1>0, <1>9, <1>r DEF Classify, At, Reasons, Goto, GoalInv, Fresh, Semantic
<1>10. CASE Llm(p)
  <2>1. /\ pc[p] = "llm" /\ pc'[p] = "check"
        /\ (job'[p].goal = "write" /\ job'[p].reason = job[p].reason) \/ job'[p].goal = "abort"
    BY <1>0, <1>10, LlmDoes DEF Llm, At
  <2> QED
    BY <1>0, <2>1 DEF GoalInv
<1>11. CASE Check(p)
  <2>1. \/ Finish(p, "lost") \/ Finish(p, "changed")
        \/ pc[p] = "check" /\ pc'[p] = job[p].goal /\ UNCHANGED job
    BY <1>0, <1>11 DEF Check, At, Goto
  <2>2. CASE pc[p] = "check" /\ pc'[p] = job[p].goal /\ UNCHANGED job
    BY <1>0, <2>2 DEF GoalInv
  <2> QED
    BY <1>f, <2>1, <2>2 DEF Results
<1>12. CASE Write(p)
  <2>1. /\ pc[p] = "write"
        /\ \/ pc'[p] = "stamp" /\ job'[p].reason = job[p].reason
           \/ pc'[p] = "check" /\ job'[p].goal = "abort"
    BY <1>0, <1>12, WriteDoes DEF Write, At
  <2> QED
    BY <1>0, <2>1 DEF GoalInv
<1>13. CASE Stamp(p)
  <2>1. index \in Index
    BY <1>0 DEF TypeOK
  <2> QED
    BY <1>0, <1>13, <2>1, StampJob DEF Stamp, At, KeepsName, KeepsLooks, KeepsMode, GoalInv, Fresh, Semantic
<1>14. CASE GateGreen(p)
  <2>1. /\ pc[p] = "gate" /\ pc'[p] = "check" /\ job'[p].goal = "commit"
        /\ job'[p].reason = job[p].reason /\ job'[p].index = job[p].index
    BY <1>0, <1>14, GreenJob DEF GateGreen, At, KeepsMode
  <2> QED
    BY <1>0, <2>1 DEF GoalInv
<1>15. CASE GateRed(p)
  BY <1>0, <1>15, RedDoes DEF GateRed, At, KeepsName, KeepsLooks, KeepsMode, GoalInv, Fresh, Semantic
<1>16. CASE Conclude(p)
  BY <1>0, <1>16, <1>r DEF Conclude, At, Reasons, Goto, GoalInv, Fresh, Semantic
<1>17. CASE Record(p)
  BY <1>0, <1>17 DEF Record, At, Goto, GoalInv, Fresh, Semantic
<1>18. CASE Meta(p)
  BY <1>0, <1>18, <1>f DEF Meta, At, Results, Goto, GoalInv, Fresh, Semantic
<1>19. CASE Abort(p)
  BY <1>0, <1>19, <1>f DEF Abort, At, Results, Goto, GoalInv, Fresh, Semantic
<1>20. CASE Count(p)
  BY <1>0, <1>20 DEF Count, At, Goto, GoalInv, Fresh, Semantic
<1>21. CASE FileTicket(p)
  BY <1>0, <1>21, <1>f DEF FileTicket, At, Results, Goto, GoalInv, Fresh, Semantic
<1>22. CASE Replay(p)
  <2>1. CASE Finish(p, "failed")
    BY <1>f, <2>1 DEF Results
  <2>2. CASE ~Finish(p, "failed")
    <3>1. /\ KeepsMode(p) /\ pc'[p] \in {"apply", "drop"}
          /\ pc'[p] = "apply" => job'[p].goal = "none"
      BY <1>0, <1>22, <2>2, ReplayDoes
    <3>2. pc[p] = "replay" /\ Fresh(p)
      BY <1>0, <1>22 DEF Replay, At, GoalInv
    <3> QED
      BY <3>1, <3>2 DEF GoalInv, Fresh, KeepsMode, Semantic
  <2> QED
    BY <2>1, <2>2
<1>23. CASE Apply(p)
  BY <1>0, <1>23 DEF Apply, At, Goto, GoalInv, Fresh, Semantic
<1>24. CASE Drop(p)
  BY <1>0, <1>24, <1>f DEF Drop, At, Results, Goto, GoalInv, Fresh, Semantic
<1>25. CASE CloseTickets(p)
  BY <1>0, <1>25, <1>f DEF CloseTickets, At, Results, Goto, GoalInv, Fresh, Semantic
<1>26. CASE RbRead(p)
  BY <1>0, <1>26, <1>f, RbReadDoes DEF RbRead, At, Results, GoalInv, Fresh, Semantic
<1>27. CASE RbSettle(p)
  BY <1>0, <1>27, RbSettleDoes DEF RbSettle, At, KeepsName, KeepsLooks, KeepsMode, GoalInv, Fresh, Semantic
<1>28. CASE RbAssert(p)
  BY <1>0, <1>28, <1>f DEF RbAssert, At, Results, Goto, GoalInv, Fresh, Semantic
<1>29. CASE RbReset(p)
  BY <1>0, <1>29 DEF RbReset, At, Goto, GoalInv, Fresh, Semantic
<1>30. CASE RbRevert(p)
  BY <1>0, <1>30, <1>f DEF RbRevert, At, Results, Goto, GoalInv, Fresh, Semantic
<1>31. CASE RbSync(p)
  BY <1>0, <1>31, <1>f DEF RbSync, At, Results, Goto, GoalInv, Fresh, Semantic
<1>32. CASE PmRead(p)
  BY <1>0, <1>32, <1>f, PmReadDoes DEF PmRead, At, KeepsName, KeepsLooks, KeepsMode, GoalInv, Fresh, Semantic
<1>33. CASE PmGate(p)
  BY <1>0, <1>33, PmGateDoes DEF PmGate, At, KeepsName, KeepsLooks, KeepsMode, GoalInv, Fresh, Semantic
<1>34. CASE PmCheck(p)
  BY <1>0, <1>34, <1>f DEF PmCheck, At, Results, Goto, GoalInv, Fresh, Semantic
<1>35. CASE PmSwap(p)
  BY <1>0, <1>35, <1>f DEF PmSwap, At, Results, Goto, GoalInv, Fresh, Semantic
<1>36. CASE PmReset(p)
  BY <1>0, <1>36 DEF PmReset, At, Goto, GoalInv, Fresh, Semantic
<1>37. CASE PmTicket(p)
  BY <1>0, <1>37, <1>f DEF PmTicket, At, Results, Goto, GoalInv, Fresh, Semantic
<1>38. CASE \E kind \in Kinds, a \in Agent \cup {NoOne} :
            (kind \in {"merge", "resolve"} => a \in Agent) /\ Acquire(p, kind, a)
  BY <1>0, <1>38, AcquireDoes DEF GoalInv, Fresh, Semantic
<1>39. CASE Crash(p) \/ Freeze(p) \/ Thaw(p)
  BY <1>0, <1>39 DEF Crash, Freeze, Thaw, Goto, NoJob, GoalInv, Fresh, Semantic
<1> QED
  BY <1>1, <1>2, <1>3, <1>4, <1>5, <1>6, <1>7, <1>8, <1>9, <1>10, <1>11, <1>12, <1>13, <1>14,
     <1>15, <1>16, <1>17, <1>18, <1>19, <1>20, <1>21, <1>22, <1>23, <1>24, <1>25, <1>26, <1>27,
     <1>28, <1>29, <1>30, <1>31, <1>32, <1>33, <1>34, <1>35, <1>36, <1>37, <1>38, <1>39
     DEF ProcStep, OperationStep, MergeStep, ResolveStep, RollbackStep, PromoteStep
-----------------------------------------------------------------------------
(* What the holder of the lock knows of the repository, along the steps. *)

LEMMA ArrivalHere ==
  ASSUME MInv, NEW p \in Proc, holder = p, ProcStep(p)
  PROVE  ArrivalInv(p)'
<1> USE DEF repo, branches, books, people, history
<1>0. /\ TypeOK /\ pc \in [Proc -> PCs] /\ job \in [Proc -> Job] /\ job[p] \in Job /\ holder = p
      /\ KindInv(p) /\ GoalInv(p) /\ ArrivalInv(p)
  BY DEF MInv, TypeOK, Own, Knows
<1>f. ASSUME NEW r \in Results, Finish(p, r) PROVE ArrivalInv(p)'
  <2>1. pc'[p] = "leave"
    BY <1>0, <1>f, FinishJob
  <2> QED
    BY <2>1 DEF ArrivalInv
<1>r. ASSUME NEW r \in Reasons, Refuse(p, r) PROVE ArrivalInv(p)'
  <2>1. pc'[p] = "check"
    BY <1>0, <1>r, RefuseJob
  <2> QED
    BY <2>1 DEF ArrivalInv
<1>1. CASE Enter(p)
  BY <1>0, <1>1, <1>f DEF Enter, At, Results, Goto, ArrivalInv
<1>2. CASE Recover(p)
  BY <1>0, <1>2, <1>f DEF Recover, At, Results, Goto, ArrivalInv
<1>3. CASE AbortOrphan(p)
  BY <1>0, <1>3, <1>f DEF AbortOrphan, At, Results, Goto, Close, ArrivalInv
<1>4. CASE Ready(p)
  <2>1. \/ Finish(p, "failed")
        \/ pc[p] = "ready" /\ index = CleanIndex /\ UNCHANGED <<merge, index>>
    BY <1>4 DEF Ready, At
  <2> QED
    BY <1>0, <1>f, <2>1 DEF Results, ArrivalInv
<1>5. CASE Leave(p)
  BY <1>0, <1>5 DEF Leave, At, Goto, ArrivalInv
<1>6. CASE Fetch(p)
  BY <1>0, <1>6, FetchDoes DEF Fetch, At, KeepsName, KeepsLooks, KeepsMode, ArrivalInv
<1>7. CASE OpenTheMerge(p)
  BY <1>0, <1>7, <1>r, Constants DEF OpenTheMerge, At, Reasons, Goto, ArrivalInv, CleanIndex
<1>8. CASE BlindAbort(p)
  BY <1>0, <1>8, <1>f DEF BlindAbort, At, Results, Goto, Close, ArrivalInv
<1>9. CASE Classify(p)
  BY <1>0, <1>9, <1>r DEF Classify, At, Reasons, Goto, ArrivalInv
<1>10. CASE Llm(p)
  BY <1>0, <1>10, LlmDoes DEF Llm, At, KeepsName, KeepsLooks, KeepsMode, ArrivalInv
<1>11. CASE Check(p)
  <2>1. \/ Finish(p, "lost") \/ Finish(p, "changed")
        \/ pc[p] = "check" /\ pc'[p] = job[p].goal
    BY <1>0, <1>11 DEF Check, At, Goto
  <2>2. CASE pc[p] = "check" /\ pc'[p] = job[p].goal
    BY <1>0, <2>2 DEF GoalInv, ArrivalInv
  <2> QED
    BY <1>f, <2>1, <2>2 DEF Results
<1>12. CASE Write(p)
  BY <1>0, <1>12, WriteDoes DEF Write, At, ArrivalInv
<1>13. CASE Stamp(p)
  BY <1>0, <1>13, StampJob DEF Stamp, At, KeepsName, KeepsLooks, KeepsMode, ArrivalInv
<1>14. CASE GateGreen(p)
  BY <1>0, <1>14, GreenJob DEF GateGreen, At, KeepsName, KeepsLooks, KeepsMode, ArrivalInv
<1>15. CASE GateRed(p)
  BY <1>0, <1>15, RedDoes DEF GateRed, At, KeepsName, KeepsLooks, KeepsMode, ArrivalInv
<1>16. CASE Conclude(p)
  BY <1>0, <1>16, <1>r DEF Conclude, At, Reasons, Goto, ArrivalInv
<1>17. CASE Record(p)
  BY <1>0, <1>17 DEF Record, At, Goto, ArrivalInv
<1>18. CASE Meta(p)
  BY <1>0, <1>18, <1>f DEF Meta, At, Results, Goto, ArrivalInv
<1>19. CASE Abort(p)
  BY <1>0, <1>19, <1>f DEF Abort, At, Results, Goto, ArrivalInv
<1>20. CASE Count(p)
  BY <1>0, <1>20 DEF Count, At, Goto, ArrivalInv
<1>21. CASE FileTicket(p)
  BY <1>0, <1>21, <1>f DEF FileTicket, At, Results, Goto, ArrivalInv
<1>22. CASE Replay(p)
  BY <1>0, <1>22, <1>f, ReplayDoes DEF Replay, At, Results, ArrivalInv
<1>23. CASE Apply(p)
  BY <1>0, <1>23 DEF Apply, At, Goto, ArrivalInv
<1>24. CASE Drop(p)
  BY <1>0, <1>24, <1>f DEF Drop, At, Results, Goto, ArrivalInv
<1>25. CASE CloseTickets(p)
  BY <1>0, <1>25, <1>f DEF CloseTickets, At, Results, Goto, ArrivalInv
<1>26. CASE RbRead(p)
  BY <1>0, <1>26, <1>f, RbReadDoes DEF RbRead, At, Results, ArrivalInv
<1>27. CASE RbSettle(p)
  BY <1>0, <1>27, RbSettleDoes DEF RbSettle, At, KeepsName, KeepsLooks, KeepsMode, ArrivalInv
<1>28. CASE RbAssert(p)
  <2>1. pc[p] = "rbAssert" /\ pc'[p] = job[p].goal /\ UNCHANGED <<merge, index>>
    BY <1>0, <1>28 DEF RbAssert, At, Goto
  <2> QED
    BY <1>0, <2>1 DEF GoalInv, ArrivalInv
<1>29. CASE RbReset(p)
  BY <1>0, <1>29 DEF RbReset, At, Goto, ArrivalInv
<1>30. CASE RbRevert(p)
  BY <1>0, <1>30, <1>f DEF RbRevert, At, Results, Goto, ArrivalInv
<1>31. CASE RbSync(p)
  BY <1>0, <1>31, <1>f DEF RbSync, At, Results, Goto, ArrivalInv
<1>32. CASE PmRead(p)
  BY <1>0, <1>32, <1>f, PmReadDoes DEF PmRead, At, KeepsName, KeepsLooks, KeepsMode, ArrivalInv
<1>33. CASE PmGate(p)
  BY <1>0, <1>33, PmGateDoes DEF PmGate, At, KeepsName, KeepsLooks, KeepsMode, ArrivalInv
<1>34. CASE PmCheck(p)
  <2>1. \/ Finish(p, "lost") \/ Finish(p, "changed")
        \/ pc[p] = "pmCheck" /\ pc'[p] = job[p].goal
    BY <1>0, <1>34 DEF PmCheck, At, Goto
  <2>2. CASE pc[p] = "pmCheck" /\ pc'[p] = job[p].goal
    BY <1>0, <2>2 DEF GoalInv, ArrivalInv
  <2> QED
    BY <1>f, <2>1, <2>2 DEF Results
<1>35. CASE PmSwap(p)
  BY <1>0, <1>35, <1>f DEF PmSwap, At, Results, Goto, ArrivalInv
<1>36. CASE PmReset(p)
  BY <1>0, <1>36 DEF PmReset, At, Goto, ArrivalInv
<1>37. CASE PmTicket(p)
  BY <1>0, <1>37, <1>f DEF PmTicket, At, Results, Goto, ArrivalInv
<1>38. CASE \E kind \in Kinds, a \in Agent \cup {NoOne} :
            (kind \in {"merge", "resolve"} => a \in Agent) /\ Acquire(p, kind, a)
  BY <1>0, <1>38, AcquireDoes DEF ArrivalInv
<1>39. CASE Crash(p) \/ Freeze(p) \/ Thaw(p)
  BY <1>0, <1>39 DEF Crash, Freeze, Thaw, Goto, NoJob, ArrivalInv
<1> QED
  BY <1>1, <1>2, <1>3, <1>4, <1>5, <1>6, <1>7, <1>8, <1>9, <1>10, <1>11, <1>12, <1>13, <1>14,
     <1>15, <1>16, <1>17, <1>18, <1>19, <1>20, <1>21, <1>22, <1>23, <1>24, <1>25, <1>26, <1>27,
     <1>28, <1>29, <1>30, <1>31, <1>32, <1>33, <1>34, <1>35, <1>36, <1>37, <1>38, <1>39
     DEF ProcStep, OperationStep, MergeStep, ResolveStep, RollbackStep, PromoteStep

LEMMA OpenHere ==
  ASSUME MInv, NEW p \in Proc, holder = p, ProcStep(p)
  PROVE  OpenInv(p)'
<1> USE DEF repo, branches, books, people, history
<1>0. /\ TypeOK /\ pc \in [Proc -> PCs] /\ job \in [Proc -> Job] /\ job[p] \in Job /\ holder = p
      /\ KindInv(p) /\ GoalInv(p) /\ OpenInv(p)
      /\ p # Human /\ None \notin OpenMerge /\ MergeInv
  BY MergeChainAssumption, NoneAssumption DEF MInv, TypeOK, Own, Knows
<1>f. ASSUME NEW r \in Results, Finish(p, r) PROVE OpenInv(p)'
  <2>1. pc'[p] = "leave"
    BY <1>0, <1>f, FinishJob
  <2> QED
    BY <2>1 DEF OpenInv
<1>r. ASSUME NEW r \in Reasons, Refuse(p, r),
             merge' = None \/ merge' = [by |-> p, work |-> MyWork(p)]
               \/ (UNCHANGED merge /\ (merge = None \/ Mine(p) \/ merge.by = Human))
      PROVE  OpenInv(p)'
  <2>1. pc'[p] = "check" /\ job'[p].agent = job[p].agent /\ job'[p].sha = job[p].sha
    BY <1>0, <1>r, RefuseJob DEF KeepsName
  <2> QED
    BY <1>0, <1>r, <2>1 DEF OpenInv, Mine, MyWork
<1>1. CASE Enter(p)
  BY <1>0, <1>1, <1>f DEF Enter, At, Results, Goto, OpenInv
<1>2. CASE Recover(p)
  BY <1>0, <1>2, <1>f DEF Recover, At, Results, Goto, OpenInv
<1>3. CASE AbortOrphan(p)
  BY <1>0, <1>3, <1>f DEF AbortOrphan, At, Results, Goto, OpenInv
<1>4. CASE Ready(p)
  <2>1. \/ Finish(p, "failed")
        \/ pc'[p] \in {"fetch", "replay", "rbRead", "pmRead"}
    BY <1>0, <1>4 DEF Ready, At, Goto, KindInv
  <2> QED
    BY <1>f, <2>1 DEF Results, OpenInv
<1>5. CASE Leave(p)
  BY <1>0, <1>5 DEF Leave, At, Goto, OpenInv
<1>6. CASE Fetch(p)
  <2>1. pc'[p] \in {"leave", "open"}
    BY <1>0, <1>6, FetchDoes
  <2> QED
    BY <2>1 DEF OpenInv
<1>7. CASE OpenTheMerge(p)
  <2>0. /\ index = CleanIndex /\ merge = None /\ pc[p] = "open"
        /\ [by |-> p, work |-> MyWork(p)] # None
    <3>1. pc[p] = "open" /\ index = CleanIndex /\ merge = None
      BY <1>0, <1>7 DEF OpenTheMerge, At, MInv, Knows, ArrivalInv
    <3>2. [by |-> p, work |-> MyWork(p)] \in OpenMerge
      BY <3>1, MyWorkType DEF OpenMergePcs, OpenMerge
    <3> QED
      BY <1>0, <3>1, <3>2
  <2>1. CASE merge' = [by |-> p, work |-> MyWork(p)]
    <3>1. \/ Refuse(p, job[p].reason)
          \/ UNCHANGED job /\ pc'[p] \in {"classify", "stamp"}
      BY <1>0, <1>7, <2>0, <2>1 DEF OpenTheMerge, Goto
    <3>2. CASE Refuse(p, job[p].reason)
      BY <1>0, <1>r, <2>1, <3>2 DEF Job
    <3>3. CASE UNCHANGED job /\ pc'[p] \in {"classify", "stamp"}
      BY <2>0, <2>1, <3>3 DEF OpenInv, Mine, MyWork
    <3> QED
      BY <3>1, <3>2, <3>3
  <2>2. CASE merge' # [by |-> p, work |-> MyWork(p)]
    <3>1. UNCHANGED merge
      BY <1>7, <2>2 DEF OpenTheMerge
    <3>2. pc'[p] = "blindAbort"
      BY <1>0, <1>7, <2>0, <2>2 DEF OpenTheMerge, Goto, CleanIndex
    <3> QED
      BY <3>2 DEF OpenInv
  <2> QED
    BY <2>1, <2>2
<1>8. CASE BlindAbort(p)
  BY <1>0, <1>8, <1>f DEF BlindAbort, At, Results, Goto, Close, OpenInv
<1>9. CASE Classify(p)
  <2>1. /\ pc[p] = "classify" /\ UNCHANGED merge
        /\ \/ \E r \in {"UNMERGEABLE_CONFLICT", "MERGE_CONFLICT"} : Refuse(p, r)
           \/ pc'[p] = "llm" /\ UNCHANGED job
    BY <1>0, <1>9 DEF Classify, At, Goto
  <2> QED
    BY <1>0, <1>r, <2>1 DEF Reasons, OpenInv, Mine, MyWork
<1>10. CASE Llm(p)
  <2>1. /\ pc[p] = "llm" /\ pc'[p] = "check" /\ UNCHANGED merge
        /\ job'[p].agent = job[p].agent /\ job'[p].sha = job[p].sha
    BY <1>0, <1>10, LlmDoes DEF Llm, At, KeepsName
  <2> QED
    BY <1>0, <2>1 DEF OpenInv, Mine, MyWork
<1>11. CASE Check(p)
  <2>1. \/ Finish(p, "lost") \/ Finish(p, "changed")
        \/ pc[p] = "check" /\ pc'[p] = job[p].goal /\ UNCHANGED <<merge, job>>
    BY <1>0, <1>11 DEF Check, At, Goto
  <2> QED
    BY <1>0, <1>f, <2>1 DEF Results, GoalInv, OpenInv, Mine, MyWork
<1>12. CASE Write(p)
  <2>1. /\ pc[p] = "write" /\ pc'[p] \in {"stamp", "check"} /\ UNCHANGED merge
        /\ job'[p].agent = job[p].agent /\ job'[p].sha = job[p].sha
    BY <1>0, <1>12, WriteDoes DEF Write, At, KeepsName
  <2> QED
    BY <1>0, <2>1 DEF OpenInv, Mine, MyWork
<1>13. CASE Stamp(p)
  <2>1. /\ pc[p] = "stamp" /\ pc'[p] = "gate" /\ UNCHANGED merge
        /\ job'[p].agent = job[p].agent /\ job'[p].sha = job[p].sha
    BY <1>0, <1>13, StampJob DEF Stamp, At, KeepsName
  <2> QED
    BY <1>0, <2>1 DEF OpenInv, Mine, MyWork
<1>14. CASE GateGreen(p)
  <2>1. /\ pc[p] = "gate" /\ pc'[p] \in {"check", "llm"} /\ UNCHANGED merge
        /\ job'[p].agent = job[p].agent /\ job'[p].sha = job[p].sha
    BY <1>0, <1>14, GreenJob DEF GateGreen, At, KeepsName
  <2> QED
    BY <1>0, <2>1 DEF OpenInv, Mine, MyWork
<1>15. CASE GateRed(p)
  <2>1. /\ pc[p] = "gate" /\ pc'[p] \in {"check", "llm"} /\ UNCHANGED merge
        /\ job'[p].agent = job[p].agent /\ job'[p].sha = job[p].sha
    BY <1>0, <1>15, RedDoes DEF GateRed, At, KeepsName
  <2> QED
    BY <1>0, <2>1 DEF OpenInv, Mine, MyWork
<1>16. CASE Conclude(p)
  <2>1. /\ pc[p] = "commit"
        /\ merge' = None \/ UNCHANGED merge
        /\ \/ pc'[p] = "record"
           \/ \E r \in {"none", "COMMIT_HOOK_REJECTED"} : Refuse(p, r)
    BY <1>0, <1>16 DEF Conclude, At, Goto, Close
  <2> QED
    BY <1>0, <1>r, <2>1 DEF Reasons, OpenInv
<1>17. CASE Record(p)
  BY <1>0, <1>17 DEF Record, At, Goto, OpenInv
<1>18. CASE Meta(p)
  BY <1>0, <1>18, <1>f DEF Meta, At, Results, Goto, OpenInv
<1>19. CASE Abort(p)
  BY <1>0, <1>19, <1>f DEF Abort, At, Results, Goto, Close, OpenInv
<1>20. CASE Count(p)
  BY <1>0, <1>20 DEF Count, At, Goto, OpenInv
<1>21. CASE FileTicket(p)
  BY <1>0, <1>21, <1>f DEF FileTicket, At, Results, Goto, OpenInv
<1>22. CASE Replay(p)
  <2>1. CASE Finish(p, "failed")
    BY <1>f, <2>1 DEF Results
  <2>2. CASE ~Finish(p, "failed")
    <3>1. \/ UNCHANGED merge
          \/ merge' = [by |-> p, work |-> <<job'[p].agent, job'[p].sha>>]
      BY <1>0, <1>22, <2>2, ReplayDoes
    <3>2. merge = None
      BY <1>22 DEF MInv, Knows, ArrivalInv, Replay, At
    <3>3. merge' = None \/ Mine(p)'
      BY <1>0, <3>1, <3>2 DEF Mine, MyWork
    <3> QED
      BY <3>3 DEF OpenInv
  <2> QED
    BY <2>1, <2>2
<1>23. CASE Apply(p)
  <2>1. pc[p] = "apply" /\ UNCHANGED <<merge, job>>
    BY <1>23 DEF Apply, At
  <2> QED
    BY <1>0, <2>1 DEF OpenInv, Mine, MyWork
<1>24. CASE Drop(p)
  BY <1>0, <1>24, <1>f DEF Drop, At, Results, Goto, Close, OpenInv
<1>25. CASE CloseTickets(p)
  BY <1>0, <1>25, <1>f DEF CloseTickets, At, Results, Goto, OpenInv
<1>26. CASE RbRead(p)
  BY <1>0, <1>26, <1>f, RbReadDoes DEF RbRead, At, Results, OpenInv
<1>27. CASE RbSettle(p)
  BY <1>0, <1>27, RbSettleDoes DEF RbSettle, At, KeepsName, KeepsLooks, KeepsMode, OpenInv
<1>28. CASE RbAssert(p)
  <2>1. pc[p] = "rbAssert" /\ pc'[p] = job[p].goal
    BY <1>0, <1>28 DEF RbAssert, At, Goto
  <2> QED
    BY <1>0, <2>1 DEF GoalInv, OpenInv
<1>29. CASE RbReset(p)
  BY <1>0, <1>29 DEF RbReset, At, Goto, OpenInv
<1>30. CASE RbRevert(p)
  BY <1>0, <1>30, <1>f DEF RbRevert, At, Results, Goto, OpenInv
<1>31. CASE RbSync(p)
  BY <1>0, <1>31, <1>f DEF RbSync, At, Results, Goto, OpenInv
<1>32. CASE PmRead(p)
  BY <1>0, <1>32, <1>f, PmReadDoes DEF PmRead, At, KeepsName, KeepsLooks, KeepsMode, OpenInv
<1>33. CASE PmGate(p)
  BY <1>0, <1>33, PmGateDoes DEF PmGate, At, KeepsName, KeepsLooks, KeepsMode, OpenInv
<1>34. CASE PmCheck(p)
  <2>1. \/ Finish(p, "lost") \/ Finish(p, "changed")
        \/ pc[p] = "pmCheck" /\ pc'[p] = job[p].goal
    BY <1>0, <1>34 DEF PmCheck, At, Goto
  <2>2. CASE pc[p] = "pmCheck" /\ pc'[p] = job[p].goal
    BY <1>0, <2>2 DEF GoalInv, OpenInv
  <2> QED
    BY <1>f, <2>1, <2>2 DEF Results
<1>35. CASE PmSwap(p)
  BY <1>0, <1>35, <1>f DEF PmSwap, At, Results, Goto, OpenInv
<1>36. CASE PmReset(p)
  BY <1>0, <1>36 DEF PmReset, At, Goto, OpenInv
<1>37. CASE PmTicket(p)
  BY <1>0, <1>37, <1>f DEF PmTicket, At, Results, Goto, OpenInv
<1>38. CASE \E kind \in Kinds, a \in Agent \cup {NoOne} :
            (kind \in {"merge", "resolve"} => a \in Agent) /\ Acquire(p, kind, a)
  BY <1>0, <1>38, AcquireDoes DEF OpenInv
<1>39. CASE Crash(p) \/ Freeze(p) \/ Thaw(p)
  <2>1. pc'[p] = "out" \/ UNCHANGED <<target, merge, index, main, streak, manual, failures, pc, job>>
    BY <1>0, <1>39 DEF Crash, Freeze, Thaw, Goto
  <2> QED
    BY <1>0, <2>1 DEF OpenInv, Mine, MyWork
<1> QED
  BY <1>1, <1>2, <1>3, <1>4, <1>5, <1>6, <1>7, <1>8, <1>9, <1>10, <1>11, <1>12, <1>13, <1>14,
     <1>15, <1>16, <1>17, <1>18, <1>19, <1>20, <1>21, <1>22, <1>23, <1>24, <1>25, <1>26, <1>27,
     <1>28, <1>29, <1>30, <1>31, <1>32, <1>33, <1>34, <1>35, <1>36, <1>37, <1>38, <1>39
     DEF ProcStep, OperationStep, MergeStep, ResolveStep, RollbackStep, PromoteStep

LEMMA TestedHere ==
  ASSUME MInv, NEW p \in Proc, holder = p, ProcStep(p)
  PROVE  TestedInv(p)'
<1> USE DEF repo, branches, books, people, history
<1>0. /\ TypeOK /\ pc \in [Proc -> PCs] /\ job \in [Proc -> Job] /\ job[p] \in Job /\ holder = p
      /\ KindInv(p) /\ GoalInv(p) /\ TestedInv(p)
  BY DEF MInv, TypeOK, Own, Knows
<1>f. ASSUME NEW r \in Results, Finish(p, r) PROVE TestedInv(p)'
  <2>1. pc'[p] = "leave"
    BY <1>0, <1>f, FinishJob
  <2> QED
    BY <2>1 DEF TestedInv
<1>r. ASSUME NEW r \in Reasons, Refuse(p, r) PROVE TestedInv(p)'
  <2>1. pc'[p] = "check" /\ job'[p].goal = "abort"
    BY <1>0, <1>r, RefuseJob
  <2> QED
    BY <2>1 DEF TestedInv
<1>1. CASE Enter(p)
  BY <1>0, <1>1, <1>f DEF Enter, At, Results, Goto, TestedInv
<1>2. CASE Recover(p)
  BY <1>0, <1>2, <1>f DEF Recover, At, Results, Goto, TestedInv
<1>3. CASE AbortOrphan(p)
  BY <1>0, <1>3, <1>f DEF AbortOrphan, At, Results, Goto, TestedInv
<1>4. CASE Ready(p)
  <2>1. \/ Finish(p, "failed")
        \/ pc'[p] \in {"fetch", "replay", "rbRead", "pmRead"}
    BY <1>0, <1>4 DEF Ready, At, Goto, KindInv
  <2> QED
    BY <1>f, <2>1 DEF Results, TestedInv
<1>5. CASE Leave(p)
  BY <1>0, <1>5 DEF Leave, At, Goto, TestedInv
<1>6. CASE Fetch(p)
  <2>1. pc'[p] \in {"leave", "open"}
    BY <1>0, <1>6, FetchDoes
  <2> QED
    BY <2>1 DEF TestedInv
<1>7. CASE OpenTheMerge(p)
  <2>1. \/ Refuse(p, job[p].reason) /\ job[p].reason \in Reasons
        \/ pc'[p] \in {"classify", "stamp", "blindAbort"}
    BY <1>0, <1>7 DEF OpenTheMerge, Goto, Job
  <2> QED
    BY <1>r, <2>1 DEF TestedInv
<1>8. CASE BlindAbort(p)
  <2>1. \/ Finish(p, "lost") \/ Finish(p, "failed") \/ pc'[p] = "ticket"
    BY <1>0, <1>8 DEF BlindAbort, At, Goto
  <2> QED
    BY <1>f, <2>1 DEF Results, TestedInv
<1>9. CASE Classify(p)
  <2>1. \/ \E r \in {"UNMERGEABLE_CONFLICT", "MERGE_CONFLICT"} : Refuse(p, r)
        \/ pc'[p] = "llm"
    BY <1>0, <1>9 DEF Classify, Goto
  <2> QED
    BY <1>r, <2>1 DEF Reasons, TestedInv
<1>10. CASE Llm(p)
  <2>1. pc'[p] = "check" /\ job'[p].goal # "commit"
    BY <1>0, <1>10, LlmDoes
  <2> QED
    BY <2>1 DEF TestedInv
<1>11. CASE Check(p)
  <2>1. \/ Finish(p, "lost") \/ Finish(p, "changed")
        \/ /\ pc[p] = "check" /\ pc'[p] = job[p].goal /\ UNCHANGED job
           /\ Intact(p)
    BY <1>0, <1>11 DEF Check, At, Goto
  <2>2. CASE /\ pc[p] = "check" /\ pc'[p] = job[p].goal /\ UNCHANGED job
             /\ Intact(p)
    <3>1. MyWork(p) \in Work
      BY <2>2, MyWorkType DEF OpenMergePcs
    <3>2. MyWork(p) # None /\ ~(MyWork(p) \in HumanWork)
      BY <3>1, NoneAssumption, MergeChainAssumption DEF Work, HumanWork
    <3>3. merge # None /\ merge.work = MyWork(p) /\ target = job[p].head
      BY <2>2, <3>2 DEF Intact, MergeHead
    <3>4. merge.by # Human
      BY <3>2, <3>3 DEF MInv, MergeInv
    <3>5. Mine(p)
      BY <2>2, <3>3, <3>4 DEF MInv, Knows, OpenInv
    <3>6. job[p].goal = "commit" => index = job[p].tested
      <4>1. SUFFICES ASSUME job[p].goal = "commit" PROVE index = job[p].tested
        OBVIOUS
      <4>2. job[p].index \in Index /\ job[p].index # None
        BY <1>0, <2>2, <4>1, NoneAssumption DEF GoalInv
      <4>3. index = job[p].index
        BY <2>2, <4>2 DEF Intact
      <4> QED
        BY <1>0, <2>2, <3>5, <4>1, <4>3 DEF TestedInv, Stale
    <3>7. Mine(p)' /\ target' = job'[p].head /\ index' = index
      BY <1>11, <2>2, <3>3, <3>5 DEF Mine, MyWork, Check
    <3>8. pc'[p] \in {"write", "commit", "abort"} /\ (pc'[p] = "commit" => index' = job'[p].tested)
      BY <1>0, <2>2, <3>6, <3>7 DEF GoalInv
    <3> QED
      BY <3>7, <3>8 DEF TestedInv
  <2> QED
    BY <1>f, <2>1, <2>2 DEF Results
<1>12. CASE Write(p)
  <2>1. pc'[p] = "stamp" \/ (pc'[p] = "check" /\ job'[p].goal = "abort")
    BY <1>0, <1>12, WriteDoes
  <2> QED
    BY <2>1 DEF TestedInv
<1>13. CASE Stamp(p)
  <2>1. pc'[p] = "gate" /\ job'[p].index = index /\ UNCHANGED index
    BY <1>0, <1>13, StampJob DEF Stamp
  <2> QED
    BY <2>1 DEF TestedInv
<1>14. CASE GateGreen(p)
  <2>1. /\ pc[p] = "gate" /\ pc'[p] = "check" /\ job'[p].goal = "commit"
        /\ job'[p].tested = (IF index = job[p].index THEN index ELSE None)
        /\ job'[p].index = job[p].index /\ KeepsName(p) /\ UNCHANGED <<merge, index>>
    BY <1>0, <1>14, GreenJob DEF GateGreen, At
  <2>2. index = job[p].index \/ Stale(p)
    BY <1>0, <2>1 DEF TestedInv
  <2>3. Stale(p) => Stale(p)'
    BY <2>1 DEF Stale, Mine, MyWork, KeepsName
  <2>4. job'[p].tested = job'[p].index \/ Stale(p)'
    BY <2>1, <2>2, <2>3
  <2> QED
    BY <2>1, <2>4 DEF TestedInv
<1>15. CASE GateRed(p)
  <2>1. pc'[p] = "llm" \/ (pc'[p] = "check" /\ job'[p].goal # "commit")
    BY <1>0, <1>15, RedDoes
  <2> QED
    BY <2>1 DEF TestedInv
<1>16. CASE Conclude(p)
  <2>1. \/ pc'[p] = "record"
        \/ \E r \in {"none", "COMMIT_HOOK_REJECTED"} : Refuse(p, r)
    BY <1>0, <1>16 DEF Conclude, Goto
  <2> QED
    BY <1>r, <2>1 DEF Reasons, TestedInv
<1>17. CASE Record(p)
  BY <1>0, <1>17 DEF Record, At, Goto, TestedInv
<1>18. CASE Meta(p)
  BY <1>0, <1>18, <1>f DEF Meta, At, Results, Goto, TestedInv
<1>19. CASE Abort(p)
  <2>1. \/ Finish(p, "lost") \/ Finish(p, "failed") \/ Finish(p, "refused")
        \/ pc'[p] \in {"count", "ticket"}
    BY <1>0, <1>19 DEF Abort, At, Goto
  <2> QED
    BY <1>f, <2>1 DEF Results, TestedInv
<1>20. CASE Count(p)
  BY <1>0, <1>20 DEF Count, At, Goto, TestedInv
<1>21. CASE FileTicket(p)
  BY <1>0, <1>21, <1>f DEF FileTicket, At, Results, Goto, TestedInv
<1>22. CASE Replay(p)
  <2>1. \/ Finish(p, "failed")
        \/ pc'[p] \in {"apply", "drop"}
    BY <1>0, <1>22, ReplayDoes
  <2> QED
    BY <1>f, <2>1 DEF Results, TestedInv
<1>23. CASE Apply(p)
  <2>1. pc'[p] \in {"stamp", "drop"}
    BY <1>0, <1>23 DEF Apply, Goto
  <2> QED
    BY <2>1 DEF TestedInv
<1>24. CASE Drop(p)
  <2>1. \/ Finish(p, "lost") \/ Finish(p, "failed") \/ pc'[p] = "close"
    BY <1>0, <1>24 DEF Drop, At, Goto
  <2> QED
    BY <1>f, <2>1 DEF Results, TestedInv
<1>25. CASE CloseTickets(p)
  BY <1>0, <1>25, <1>f DEF CloseTickets, At, Results, Goto, TestedInv
<1>26. CASE RbRead(p)
  <2>1. \/ Finish(p, "failed")
        \/ pc'[p] = "rbSettle"
    BY <1>0, <1>26, RbReadDoes
  <2> QED
    BY <1>f, <2>1 DEF Results, TestedInv
<1>27. CASE RbSettle(p)
  <2>1. pc'[p] = "rbAssert"
    BY <1>0, <1>27, RbSettleDoes
  <2> QED
    BY <2>1 DEF TestedInv
<1>28. CASE RbAssert(p)
  <2>1. pc[p] = "rbAssert" /\ pc'[p] = job[p].goal
    BY <1>0, <1>28 DEF RbAssert, At, Goto
  <2> QED
    BY <1>0, <2>1 DEF GoalInv, TestedInv
<1>29. CASE RbReset(p)
  BY <1>0, <1>29 DEF RbReset, At, Goto, TestedInv
<1>30. CASE RbRevert(p)
  <2>1. Finish(p, "rolledBack") \/ Finish(p, "failed") \/ Finish(p, "lost")
    BY <1>30 DEF RbRevert
  <2> QED
    BY <1>f, <2>1 DEF Results
<1>31. CASE RbSync(p)
  <2>1. Finish(p, "rolledBack")
    BY <1>31 DEF RbSync
  <2> QED
    BY <1>f, <2>1 DEF Results
<1>32. CASE PmRead(p)
  <2>1. (\E r \in Results : Finish(p, r)) \/ pc'[p] = "pmGate"
    BY <1>0, <1>32, PmReadDoes
  <2> QED
    BY <1>f, <2>1 DEF TestedInv
<1>33. CASE PmGate(p)
  <2>1. pc'[p] = "pmCheck"
    BY <1>0, <1>33, PmGateDoes
  <2> QED
    BY <2>1 DEF TestedInv
<1>34. CASE PmCheck(p)
  <2>1. \/ Finish(p, "lost") \/ Finish(p, "changed")
        \/ pc[p] = "pmCheck" /\ pc'[p] = job[p].goal
    BY <1>0, <1>34 DEF PmCheck, At, Goto
  <2>2. CASE pc[p] = "pmCheck" /\ pc'[p] = job[p].goal
    BY <1>0, <2>2 DEF GoalInv, TestedInv
  <2> QED
    BY <1>f, <2>1, <2>2 DEF Results
<1>35. CASE PmSwap(p)
  <2>1. Finish(p, "promoted") \/ Finish(p, "failed")
    BY <1>35 DEF PmSwap
  <2> QED
    BY <1>f, <2>1 DEF Results
<1>36. CASE PmReset(p)
  BY <1>0, <1>36 DEF PmReset, At, Goto, TestedInv
<1>37. CASE PmTicket(p)
  BY <1>0, <1>37, <1>f DEF PmTicket, At, Results, Goto, TestedInv
<1>38. CASE \E kind \in Kinds, a \in Agent \cup {NoOne} :
            (kind \in {"merge", "resolve"} => a \in Agent) /\ Acquire(p, kind, a)
  BY <1>0, <1>38, AcquireDoes DEF TestedInv
<1>39. CASE Crash(p) \/ Freeze(p) \/ Thaw(p)
  <2>1. pc'[p] = "out" \/ UNCHANGED <<target, merge, index, main, streak, manual, failures, pc, job>>
    BY <1>0, <1>39 DEF Crash, Freeze, Thaw, Goto
  <2> QED
    BY <1>0, <2>1 DEF TestedInv, Stale, Mine, MyWork
<1> QED
  BY <1>1, <1>2, <1>3, <1>4, <1>5, <1>6, <1>7, <1>8, <1>9, <1>10, <1>11, <1>12, <1>13, <1>14,
     <1>15, <1>16, <1>17, <1>18, <1>19, <1>20, <1>21, <1>22, <1>23, <1>24, <1>25, <1>26, <1>27,
     <1>28, <1>29, <1>30, <1>31, <1>32, <1>33, <1>34, <1>35, <1>36, <1>37, <1>38, <1>39
     DEF ProcStep, OperationStep, MergeStep, ResolveStep, RollbackStep, PromoteStep

LEMMA VersionHere ==
  ASSUME MInv, NEW p \in Proc, holder = p, ProcStep(p)
  PROVE  VersionInv(p)'
<1> USE DEF repo, branches, books, people, history
<1>v. /\ TypeOK /\ pc \in [Proc -> PCs] /\ job \in [Proc -> Job] /\ job[p] \in Job /\ holder = p
      /\ KindInv(p) /\ GoalInv(p) /\ VersionInv(p) /\ index \in Index
  BY DEF MInv, TypeOK, Own, Knows
<1>w. job[p].retries \in Nat /\ index.version \in Nat
  BY <1>v, MergeChainAssumption DEF Job, Index
<1>0. /\ TypeOK /\ pc \in [Proc -> PCs] /\ job \in [Proc -> Job] /\ job[p] \in Job /\ holder = p
      /\ KindInv(p) /\ GoalInv(p) /\ VersionInv(p)
      /\ job[p].retries \in Nat /\ index.version \in Nat
      /\ MergedIndex.version = 1 /\ ConflictedIndex.version = 1 /\ CleanIndex.version = 0
  BY <1>v, <1>w, Constants
<1>f. ASSUME NEW r \in Results, Finish(p, r) PROVE VersionInv(p)'
  <2>1. pc'[p] = "leave"
    BY <1>0, <1>f, FinishJob
  <2> QED
    BY <2>1 DEF VersionInv
<1>r. ASSUME NEW r \in Reasons, Refuse(p, r) PROVE VersionInv(p)'
  <2>1. pc'[p] = "check" /\ job'[p].goal = "abort"
    BY <1>0, <1>r, RefuseJob
  <2> QED
    BY <2>1 DEF VersionInv
<1>1. CASE Enter(p)
  <2>1. Finish(p, "refused") \/ Finish(p, "none") \/ pc'[p] = "recover"
    BY <1>0, <1>1 DEF Enter, Goto
  <2> QED
    BY <1>f, <2>1 DEF Results, VersionInv
<1>2. CASE Recover(p)
  <2>1. Finish(p, "refused") \/ pc'[p] \in {"ready", "abortOrphan"}
    BY <1>0, <1>2 DEF Recover, Goto
  <2> QED
    BY <1>f, <2>1 DEF Results, VersionInv
<1>3. CASE AbortOrphan(p)
  <2>1. Finish(p, "failed") \/ pc'[p] = "ready"
    BY <1>0, <1>3 DEF AbortOrphan, Goto
  <2> QED
    BY <1>f, <2>1 DEF Results, VersionInv
<1>4. CASE Ready(p)
  <2>1. \/ Finish(p, "failed")
        \/ pc'[p] \in {"fetch", "replay", "rbRead", "pmRead"}
    BY <1>0, <1>4 DEF Ready, At, Goto, KindInv
  <2> QED
    BY <1>f, <2>1 DEF Results, VersionInv
<1>5. CASE Leave(p)
  BY <1>0, <1>5 DEF Leave, At, Goto, VersionInv
<1>6. CASE Fetch(p)
  <2>1. pc'[p] \in {"leave", "open"}
    BY <1>0, <1>6, FetchDoes
  <2> QED
    BY <2>1 DEF VersionInv
<1>7. CASE OpenTheMerge(p)
  <2>1. index = CleanIndex
    BY <1>7 DEF MInv, Knows, ArrivalInv, OpenTheMerge, At
  <2>2. \/ Refuse(p, job[p].reason) /\ job[p].reason \in Reasons
        \/ /\ pc'[p] \in {"classify", "stamp"} /\ UNCHANGED job
           /\ index' \in {MergedIndex, ConflictedIndex}
        \/ pc'[p] = "blindAbort"
    BY <1>0, <1>7, <2>1 DEF OpenTheMerge, Goto, Job, CleanIndex
  <2>3. CASE /\ pc'[p] \in {"classify", "stamp"} /\ UNCHANGED job
             /\ index' \in {MergedIndex, ConflictedIndex}
    BY <1>0, <2>3 DEF VersionInv
  <2> QED
    BY <1>r, <2>2, <2>3 DEF VersionInv
<1>8. CASE BlindAbort(p)
  <2>1. \/ Finish(p, "lost") \/ Finish(p, "failed") \/ pc'[p] = "ticket"
    BY <1>0, <1>8 DEF BlindAbort, At, Goto
  <2> QED
    BY <1>f, <2>1 DEF Results, VersionInv
<1>9. CASE Classify(p)
  <2>1. \/ \E r \in {"UNMERGEABLE_CONFLICT", "MERGE_CONFLICT"} : Refuse(p, r)
        \/ pc[p] = "classify" /\ pc'[p] = "llm" /\ UNCHANGED <<index, job>>
    BY <1>0, <1>9 DEF Classify, Goto, At
  <2>2. CASE pc[p] = "classify" /\ pc'[p] = "llm" /\ UNCHANGED <<index, job>>
    BY <1>0, <2>2 DEF VersionInv
  <2> QED
    BY <1>r, <2>1, <2>2 DEF Reasons
<1>10. CASE Llm(p)
  <2>1. /\ pc[p] = "llm" /\ pc'[p] = "check" /\ job'[p].retries = job[p].retries
        /\ UNCHANGED index
    BY <1>0, <1>10, LlmDoes DEF Llm, At
  <2> QED
    BY <1>0, <2>1 DEF VersionInv
<1>11. CASE Check(p)
  <2>1. \/ Finish(p, "lost") \/ Finish(p, "changed")
        \/ /\ pc[p] = "check" /\ pc'[p] = job[p].goal
           /\ UNCHANGED <<index, merge, target, streak, manual, failures, job>>
    BY <1>0, <1>11 DEF Check, At, Goto
  <2>2. CASE /\ pc[p] = "check" /\ pc'[p] = job[p].goal
             /\ UNCHANGED <<index, merge, target, streak, manual, failures, job>>
    BY <1>0, <2>2 DEF GoalInv, VersionInv
  <2> QED
    BY <1>f, <2>1, <2>2 DEF Results
<1>12. CASE Write(p)
  <2>1. /\ pc[p] = "write" /\ job'[p].retries = job[p].retries
        /\ \/ pc'[p] = "stamp" /\ index'.version = index.version + 1
           \/ pc'[p] = "check" /\ job'[p].goal = "abort"
    <3>1. index \in Index
      BY <1>0 DEF TypeOK
    <3> QED
      BY <1>0, <1>12, <3>1, WriteDoes DEF Write, At, Index
  <2> QED
    BY <1>0, <2>1 DEF VersionInv
<1>13. CASE Stamp(p)
  <2>1. /\ pc[p] = "stamp" /\ pc'[p] = "gate" /\ job'[p].retries = job[p].retries
        /\ UNCHANGED index
    BY <1>0, <1>13, StampJob DEF Stamp, At, KeepsMode
  <2> QED
    BY <1>0, <2>1 DEF VersionInv
<1>14. CASE GateGreen(p)
  <2>1. pc'[p] = "check" /\ job'[p].goal # "write"
    BY <1>0, <1>14, GreenJob
  <2> QED
    BY <2>1 DEF VersionInv
<1>15. CASE GateRed(p)
  <2>1. /\ pc[p] = "gate" /\ UNCHANGED index
        /\ \/ pc'[p] = "llm" /\ job'[p].retries = job[p].retries + 1
           \/ pc'[p] = "check" /\ job'[p].goal # "write"
    BY <1>0, <1>15, RedDoes DEF GateRed, At
  <2>2. CASE pc'[p] = "llm" /\ job'[p].retries = job[p].retries + 1
    BY <1>0, <2>1, <2>2 DEF VersionInv
  <2> QED
    BY <2>1, <2>2 DEF VersionInv
<1>16. CASE Conclude(p)
  <2>1. /\ pc[p] = "commit"
        /\ \/ pc'[p] = "record"
           \/ \E r \in {"none", "COMMIT_HOOK_REJECTED"} : Refuse(p, r)
    BY <1>0, <1>16 DEF Conclude, At, Goto
  <2> QED
    BY <1>0, <1>r, <2>1 DEF Reasons, VersionInv
<1>17. CASE Record(p)
  BY <1>0, <1>17 DEF Record, At, Goto, VersionInv
<1>18. CASE Meta(p)
  BY <1>0, <1>18, <1>f DEF Meta, At, Results, Goto, VersionInv
<1>19. CASE Abort(p)
  <2>1. \/ Finish(p, "lost") \/ Finish(p, "failed") \/ Finish(p, "refused")
        \/ pc'[p] \in {"count", "ticket"}
    BY <1>0, <1>19 DEF Abort, At, Goto
  <2> QED
    BY <1>f, <2>1 DEF Results, VersionInv
<1>20. CASE Count(p)
  BY <1>0, <1>20 DEF Count, At, Goto, VersionInv
<1>21. CASE FileTicket(p)
  BY <1>0, <1>21, <1>f DEF FileTicket, At, Results, Goto, VersionInv
<1>22. CASE Replay(p)
  <2>1. CASE Finish(p, "failed")
    BY <1>f, <2>1 DEF Results
  <2>2. CASE ~Finish(p, "failed")
    <3>1. pc'[p] = "drop" \/ (pc'[p] = "apply" /\ index' \in {MergedIndex, ConflictedIndex})
      BY <1>0, <1>22, <2>2, ReplayDoes
    <3> QED
      BY <1>0, <3>1 DEF VersionInv
  <2> QED
    BY <2>1, <2>2
<1>23. CASE Apply(p)
  <2>1. /\ pc[p] = "apply" /\ UNCHANGED job
        /\ \/ pc'[p] = "drop"
           \/ pc'[p] = "stamp" /\ index'.version = index.version + 1
    BY <1>0, <1>23 DEF Apply, At, Goto, TypeOK, Index
  <2> QED
    BY <1>0, <2>1 DEF VersionInv
<1>24. CASE Drop(p)
  <2>1. \/ Finish(p, "lost") \/ Finish(p, "failed") \/ pc'[p] = "close"
    BY <1>0, <1>24 DEF Drop, At, Goto
  <2> QED
    BY <1>f, <2>1 DEF Results, VersionInv
<1>25. CASE CloseTickets(p)
  BY <1>0, <1>25, <1>f DEF CloseTickets, At, Results, Goto, VersionInv
<1>26. CASE RbRead(p)
  <2>1. \/ Finish(p, "failed")
        \/ pc'[p] = "rbSettle"
    BY <1>0, <1>26, RbReadDoes
  <2> QED
    BY <1>f, <2>1 DEF Results, VersionInv
<1>27. CASE RbSettle(p)
  <2>1. pc'[p] = "rbAssert"
    BY <1>0, <1>27, RbSettleDoes
  <2> QED
    BY <2>1 DEF VersionInv
<1>28. CASE RbAssert(p)
  <2>1. pc[p] = "rbAssert" /\ pc'[p] = job[p].goal
    BY <1>0, <1>28 DEF RbAssert, At, Goto
  <2> QED
    BY <1>0, <2>1 DEF GoalInv, VersionInv
<1>29. CASE RbReset(p)
  BY <1>0, <1>29 DEF RbReset, At, Goto, VersionInv
<1>30. CASE RbRevert(p)
  <2>1. Finish(p, "rolledBack") \/ Finish(p, "failed") \/ Finish(p, "lost")
    BY <1>30 DEF RbRevert
  <2> QED
    BY <1>f, <2>1 DEF Results
<1>31. CASE RbSync(p)
  <2>1. Finish(p, "rolledBack")
    BY <1>31 DEF RbSync
  <2> QED
    BY <1>f, <2>1 DEF Results
<1>32. CASE PmRead(p)
  <2>1. (\E r \in Results : Finish(p, r)) \/ pc'[p] = "pmGate"
    BY <1>0, <1>32, PmReadDoes
  <2> QED
    BY <1>f, <2>1 DEF VersionInv
<1>33. CASE PmGate(p)
  <2>1. pc'[p] = "pmCheck"
    BY <1>0, <1>33, PmGateDoes
  <2> QED
    BY <2>1 DEF VersionInv
<1>34. CASE PmCheck(p)
  <2>1. \/ Finish(p, "lost") \/ Finish(p, "changed")
        \/ pc[p] = "pmCheck" /\ pc'[p] = job[p].goal
    BY <1>0, <1>34 DEF PmCheck, At, Goto
  <2>2. CASE pc[p] = "pmCheck" /\ pc'[p] = job[p].goal
    BY <1>0, <2>2 DEF GoalInv, VersionInv
  <2> QED
    BY <1>f, <2>1, <2>2 DEF Results
<1>35. CASE PmSwap(p)
  <2>1. Finish(p, "promoted") \/ Finish(p, "failed")
    BY <1>35 DEF PmSwap
  <2> QED
    BY <1>f, <2>1 DEF Results
<1>36. CASE PmReset(p)
  BY <1>0, <1>36 DEF PmReset, At, Goto, VersionInv
<1>37. CASE PmTicket(p)
  BY <1>0, <1>37, <1>f DEF PmTicket, At, Results, Goto, VersionInv
<1>38. CASE \E kind \in Kinds, a \in Agent \cup {NoOne} :
            (kind \in {"merge", "resolve"} => a \in Agent) /\ Acquire(p, kind, a)
  BY <1>0, <1>38, AcquireDoes DEF VersionInv
<1>39. CASE Crash(p) \/ Freeze(p) \/ Thaw(p)
  <2>1. pc'[p] = "out" \/ UNCHANGED <<target, merge, index, main, streak, manual, failures, pc, job>>
    BY <1>0, <1>39 DEF Crash, Freeze, Thaw, Goto
  <2> QED
    BY <1>0, <2>1 DEF VersionInv
<1> QED
  BY <1>1, <1>2, <1>3, <1>4, <1>5, <1>6, <1>7, <1>8, <1>9, <1>10, <1>11, <1>12, <1>13, <1>14,
     <1>15, <1>16, <1>17, <1>18, <1>19, <1>20, <1>21, <1>22, <1>23, <1>24, <1>25, <1>26, <1>27,
     <1>28, <1>29, <1>30, <1>31, <1>32, <1>33, <1>34, <1>35, <1>36, <1>37, <1>38, <1>39
     DEF ProcStep, OperationStep, MergeStep, ResolveStep, RollbackStep, PromoteStep

LEMMA UndoHere ==
  ASSUME MInv, NEW p \in Proc, holder = p, ProcStep(p)
  PROVE  (RollbackInv(p) /\ PromotionInv(p))'
<1> USE DEF repo, branches, books, people, history
<1>0. /\ TypeOK /\ pc \in [Proc -> PCs] /\ job \in [Proc -> Job] /\ job[p] \in Job /\ holder = p
      /\ KindInv(p) /\ GoalInv(p) /\ RollbackInv(p) /\ PromotionInv(p)
  BY DEF MInv, TypeOK, Own, Knows
<1>f. ASSUME NEW r \in Results, Finish(p, r) PROVE (RollbackInv(p) /\ PromotionInv(p))'
  <2>1. pc'[p] = "leave"
    BY <1>0, <1>f, FinishJob
  <2> QED
    BY <2>1 DEF RollbackInv, PromotionInv
<1>r. ASSUME NEW r \in Reasons, Refuse(p, r) PROVE (RollbackInv(p) /\ PromotionInv(p))'
  <2>1. pc'[p] = "check" /\ job'[p].goal = "abort"
    BY <1>0, <1>r, RefuseJob
  <2> QED
    BY <2>1 DEF RollbackInv, PromotionInv
<1>1. CASE Enter(p)
  <2>1. Finish(p, "refused") \/ Finish(p, "none") \/ pc'[p] = "recover"
    BY <1>0, <1>1 DEF Enter, Goto
  <2> QED
    BY <1>f, <2>1 DEF Results, RollbackInv, PromotionInv
<1>2. CASE Recover(p)
  <2>1. Finish(p, "refused") \/ pc'[p] \in {"ready", "abortOrphan"}
    BY <1>0, <1>2 DEF Recover, Goto
  <2> QED
    BY <1>f, <2>1 DEF Results, RollbackInv, PromotionInv
<1>3. CASE AbortOrphan(p)
  <2>1. Finish(p, "failed") \/ pc'[p] = "ready"
    BY <1>0, <1>3 DEF AbortOrphan, Goto
  <2> QED
    BY <1>f, <2>1 DEF Results, RollbackInv, PromotionInv
<1>4. CASE Ready(p)
  <2>1. \/ Finish(p, "failed")
        \/ pc'[p] \in {"fetch", "replay", "rbRead", "pmRead"}
    BY <1>0, <1>4 DEF Ready, At, Goto, KindInv
  <2> QED
    BY <1>f, <2>1 DEF Results, RollbackInv, PromotionInv
<1>5. CASE Leave(p)
  BY <1>0, <1>5 DEF Leave, At, Goto, RollbackInv, PromotionInv
<1>6. CASE Fetch(p)
  <2>1. pc'[p] \in {"leave", "open"}
    BY <1>0, <1>6, FetchDoes
  <2> QED
    BY <2>1 DEF RollbackInv, PromotionInv
<1>7. CASE OpenTheMerge(p)
  <2>1. \/ Refuse(p, job[p].reason) /\ job[p].reason \in Reasons
        \/ pc'[p] \in {"classify", "stamp", "blindAbort"}
    BY <1>0, <1>7 DEF OpenTheMerge, Goto, Job
  <2> QED
    BY <1>r, <2>1 DEF RollbackInv, PromotionInv
<1>8. CASE BlindAbort(p)
  <2>1. \/ Finish(p, "lost") \/ Finish(p, "failed") \/ pc'[p] = "ticket"
    BY <1>0, <1>8 DEF BlindAbort, At, Goto
  <2> QED
    BY <1>f, <2>1 DEF Results, RollbackInv, PromotionInv
<1>9. CASE Classify(p)
  <2>1. \/ \E r \in {"UNMERGEABLE_CONFLICT", "MERGE_CONFLICT"} : Refuse(p, r)
        \/ pc'[p] = "llm"
    BY <1>0, <1>9 DEF Classify, Goto
  <2> QED
    BY <1>r, <2>1 DEF Reasons, RollbackInv, PromotionInv
<1>10. CASE Llm(p)
  <2>1. pc'[p] = "check"
    BY <1>0, <1>10, LlmDoes
  <2> QED
    BY <2>1 DEF RollbackInv, PromotionInv
<1>11. CASE Check(p)
  <2>1. \/ Finish(p, "lost") \/ Finish(p, "changed")
        \/ /\ pc[p] = "check" /\ pc'[p] = job[p].goal
           /\ UNCHANGED <<index, merge, target, streak, manual, failures, job>>
    BY <1>0, <1>11 DEF Check, At, Goto
  <2>2. CASE /\ pc[p] = "check" /\ pc'[p] = job[p].goal
             /\ UNCHANGED <<index, merge, target, streak, manual, failures, job>>
    BY <1>0, <2>2 DEF GoalInv, RollbackInv, PromotionInv
  <2> QED
    BY <1>f, <2>1, <2>2 DEF Results
<1>12. CASE Write(p)
  <2>1. pc'[p] \in {"stamp", "check"}
    BY <1>0, <1>12, WriteDoes
  <2> QED
    BY <2>1 DEF RollbackInv, PromotionInv
<1>13. CASE Stamp(p)
  <2>1. pc'[p] = "gate"
    BY <1>0, <1>13, StampJob
  <2> QED
    BY <2>1 DEF RollbackInv, PromotionInv
<1>14. CASE GateGreen(p)
  <2>1. pc'[p] = "check"
    BY <1>0, <1>14, GreenJob
  <2> QED
    BY <2>1 DEF RollbackInv, PromotionInv
<1>15. CASE GateRed(p)
  <2>1. pc'[p] \in {"llm", "check"}
    BY <1>0, <1>15, RedDoes
  <2> QED
    BY <2>1 DEF RollbackInv, PromotionInv
<1>16. CASE Conclude(p)
  <2>1. /\ pc[p] = "commit"
        /\ \/ pc'[p] = "record"
           \/ \E r \in {"none", "COMMIT_HOOK_REJECTED"} : Refuse(p, r)
    BY <1>0, <1>16 DEF Conclude, At, Goto
  <2> QED
    BY <1>0, <1>r, <2>1 DEF Reasons, RollbackInv, PromotionInv
<1>17. CASE Record(p)
  BY <1>0, <1>17 DEF Record, At, Goto, RollbackInv, PromotionInv
<1>18. CASE Meta(p)
  BY <1>0, <1>18, <1>f DEF Meta, At, Results, Goto, RollbackInv, PromotionInv
<1>19. CASE Abort(p)
  <2>1. \/ Finish(p, "lost") \/ Finish(p, "failed") \/ Finish(p, "refused")
        \/ pc'[p] \in {"count", "ticket"}
    BY <1>0, <1>19 DEF Abort, At, Goto
  <2> QED
    BY <1>f, <2>1 DEF Results, RollbackInv, PromotionInv
<1>20. CASE Count(p)
  BY <1>0, <1>20 DEF Count, At, Goto, RollbackInv, PromotionInv
<1>21. CASE FileTicket(p)
  BY <1>0, <1>21, <1>f DEF FileTicket, At, Results, Goto, RollbackInv, PromotionInv
<1>22. CASE Replay(p)
  <2>1. \/ Finish(p, "failed")
        \/ pc'[p] \in {"apply", "drop"}
    BY <1>0, <1>22, ReplayDoes
  <2> QED
    BY <1>f, <2>1 DEF Results, RollbackInv, PromotionInv
<1>23. CASE Apply(p)
  <2>1. pc'[p] \in {"stamp", "drop"}
    BY <1>0, <1>23 DEF Apply, Goto
  <2> QED
    BY <2>1 DEF RollbackInv, PromotionInv
<1>24. CASE Drop(p)
  <2>1. \/ Finish(p, "lost") \/ Finish(p, "failed") \/ pc'[p] = "close"
    BY <1>0, <1>24 DEF Drop, At, Goto
  <2> QED
    BY <1>f, <2>1 DEF Results, RollbackInv, PromotionInv
<1>25. CASE CloseTickets(p)
  BY <1>0, <1>25, <1>f DEF CloseTickets, At, Results, Goto, RollbackInv, PromotionInv
<1>26. CASE RbRead(p)
  <2>1. CASE Finish(p, "failed")
    BY <1>f, <2>1 DEF Results
  <2>2. CASE ~Finish(p, "failed")
    <3>1. UNCHANGED target
      BY <1>26 DEF RbRead
    <3>2. /\ pc'[p] = "rbSettle" /\ target' = job'[p].head /\ target' # <<>>
          /\ target'[Len(target')].by \in Proc
      BY <1>0, <1>26, <2>2, <3>1, RbReadDoes
    <3> QED
      BY <3>2 DEF RollbackInv, PromotionInv
  <2> QED
    BY <2>1, <2>2
<1>27. CASE RbSettle(p)
  <2>1. /\ pc[p] = "rbSettle" /\ pc'[p] = "rbAssert" /\ job'[p].head = job[p].head
        /\ UNCHANGED target
    BY <1>0, <1>27, RbSettleDoes DEF RbSettle, At, KeepsLooks
  <2> QED
    BY <1>0, <2>1 DEF RollbackInv, PromotionInv
<1>28. CASE RbAssert(p)
  <2>1. pc[p] = "rbAssert" /\ pc'[p] = job[p].goal /\ UNCHANGED <<target, job>>
    BY <1>0, <1>28 DEF RbAssert, At, Goto
  <2> QED
    BY <1>0, <2>1 DEF GoalInv, RollbackInv, PromotionInv
<1>29. CASE RbReset(p)
  BY <1>0, <1>29 DEF RbReset, At, Goto, RollbackInv, PromotionInv
<1>30. CASE RbRevert(p)
  <2>1. Finish(p, "rolledBack") \/ Finish(p, "failed") \/ Finish(p, "lost")
    BY <1>30 DEF RbRevert
  <2> QED
    BY <1>f, <2>1 DEF Results
<1>31. CASE RbSync(p)
  <2>1. Finish(p, "rolledBack")
    BY <1>31 DEF RbSync
  <2> QED
    BY <1>f, <2>1 DEF Results
<1>32. CASE PmRead(p)
  <2>1. (\E r \in Results : Finish(p, r)) \/ pc'[p] = "pmGate"
    BY <1>0, <1>32, PmReadDoes
  <2> QED
    BY <1>f, <2>1 DEF RollbackInv, PromotionInv
<1>33. CASE PmGate(p)
  <2>1. pc'[p] = "pmCheck" /\ job'[p].gated = target /\ UNCHANGED target
    BY <1>0, <1>33, PmGateDoes DEF PmGate
  <2> QED
    BY <2>1 DEF RollbackInv, PromotionInv
<1>34. CASE PmCheck(p)
  <2>1. \/ Finish(p, "lost") \/ Finish(p, "changed")
        \/ /\ pc[p] = "pmCheck" /\ pc'[p] = job[p].goal /\ UNCHANGED <<target, job>>
           /\ job[p].goal = "pmSwap" => Tree(target) = Tree(job[p].head)
           /\ job[p].goal = "pmReset" => target = job[p].head
    BY <1>0, <1>34 DEF PmCheck, At, Goto
  <2>2. CASE /\ pc[p] = "pmCheck" /\ pc'[p] = job[p].goal /\ UNCHANGED <<target, job>>
             /\ job[p].goal = "pmSwap" => Tree(target) = Tree(job[p].head)
             /\ job[p].goal = "pmReset" => target = job[p].head
    <3>1. job[p].gated = target
      BY <1>0, <2>2 DEF PromotionInv
    <3>2. job[p].goal \in {"pmSwap", "pmReset", "pmTicket"}
      BY <1>0, <2>2 DEF GoalInv
    <3>3. RollbackInv(p)'
      BY <2>2, <3>2 DEF RollbackInv
    <3>4. pc'[p] = "pmSwap" => Tree(job'[p].gated) = Tree(job'[p].head)
      BY <2>2, <3>1
    <3>5. pc'[p] = "pmReset" => target' = job'[p].head
      BY <2>2
    <3>6. pc'[p] # "pmCheck"
      BY <2>2, <3>2
    <3> QED
      BY <3>3, <3>4, <3>5, <3>6 DEF PromotionInv
  <2> QED
    BY <1>f, <2>1, <2>2 DEF Results
<1>35. CASE PmSwap(p)
  <2>1. Finish(p, "promoted") \/ Finish(p, "failed")
    BY <1>35 DEF PmSwap
  <2> QED
    BY <1>f, <2>1 DEF Results
<1>36. CASE PmReset(p)
  BY <1>0, <1>36 DEF PmReset, At, Goto, RollbackInv, PromotionInv
<1>37. CASE PmTicket(p)
  BY <1>0, <1>37, <1>f DEF PmTicket, At, Results, Goto, RollbackInv, PromotionInv
<1>38. CASE \E kind \in Kinds, a \in Agent \cup {NoOne} :
            (kind \in {"merge", "resolve"} => a \in Agent) /\ Acquire(p, kind, a)
  BY <1>0, <1>38, AcquireDoes DEF RollbackInv, PromotionInv
<1>39. CASE Crash(p) \/ Freeze(p) \/ Thaw(p)
  <2>1. pc'[p] = "out" \/ UNCHANGED <<target, merge, index, main, streak, manual, failures, pc, job>>
    BY <1>0, <1>39 DEF Crash, Freeze, Thaw, Goto
  <2> QED
    BY <1>0, <2>1 DEF RollbackInv, PromotionInv
<1> QED
  BY <1>1, <1>2, <1>3, <1>4, <1>5, <1>6, <1>7, <1>8, <1>9, <1>10, <1>11, <1>12, <1>13, <1>14,
     <1>15, <1>16, <1>17, <1>18, <1>19, <1>20, <1>21, <1>22, <1>23, <1>24, <1>25, <1>26, <1>27,
     <1>28, <1>29, <1>30, <1>31, <1>32, <1>33, <1>34, <1>35, <1>36, <1>37, <1>38, <1>39
     DEF ProcStep, OperationStep, MergeStep, ResolveStep, RollbackStep, PromoteStep

LEMMA ManualHere ==
  ASSUME MInv, NEW p \in Proc, holder = p, ProcStep(p)
  PROVE  ManualInv(p)'
<1> USE DEF repo, branches, books, people, history
<1>0. /\ TypeOK /\ pc \in [Proc -> PCs] /\ job \in [Proc -> Job] /\ job[p] \in Job /\ holder = p
      /\ KindInv(p) /\ GoalInv(p) /\ ManualInv(p)
  BY DEF MInv, TypeOK, Own, Knows
<1>f. ASSUME NEW r \in Results, Finish(p, r) PROVE ManualInv(p)'
  <2>1. pc'[p] = "leave"
    BY <1>0, <1>f, FinishJob
  <2> QED
    BY <2>1 DEF ManualInv, Fusing
<1>r. ASSUME NEW r \in Reasons, Refuse(p, r), UNCHANGED manual,
             Fusing(p) \/ (~job[p].fused /\ r \notin Semantic)
      PROVE  ManualInv(p)'
  <2>1. pc'[p] = "check" /\ job'[p].goal = "abort" /\ job'[p].reason = r /\ job'[p].fused = job[p].fused
    BY <1>0, <1>r, RefuseJob
  <2> QED
    BY <1>0, <1>r, <2>1 DEF ManualInv, Fusing
<1>1. CASE Enter(p)
  <2>1. Finish(p, "refused") \/ Finish(p, "none") \/ pc'[p] = "recover"
    BY <1>0, <1>1 DEF Enter, Goto
  <2> QED
    BY <1>f, <2>1 DEF Results, ManualInv, Fusing, Semantic
<1>2. CASE Recover(p)
  <2>1. Finish(p, "refused") \/ pc'[p] \in {"ready", "abortOrphan"}
    BY <1>0, <1>2 DEF Recover, Goto
  <2> QED
    BY <1>f, <2>1 DEF Results, ManualInv, Fusing, Semantic
<1>3. CASE AbortOrphan(p)
  <2>1. Finish(p, "failed") \/ pc'[p] = "ready"
    BY <1>0, <1>3 DEF AbortOrphan, Goto
  <2> QED
    BY <1>f, <2>1 DEF Results, ManualInv, Fusing, Semantic
<1>4. CASE Ready(p)
  <2>1. \/ Finish(p, "failed")
        \/ pc'[p] \in {"fetch", "replay", "rbRead", "pmRead"}
    BY <1>0, <1>4 DEF Ready, At, Goto, KindInv
  <2> QED
    BY <1>f, <2>1 DEF Results, ManualInv, Fusing, Semantic
<1>5. CASE Leave(p)
  BY <1>0, <1>5 DEF Leave, At, Goto, ManualInv, Fusing, Semantic
<1>6. CASE Fetch(p)
  <2>1. pc'[p] \in {"leave", "open"}
    BY <1>0, <1>6, FetchDoes
  <2> QED
    BY <2>1 DEF ManualInv, Fusing, Semantic
<1>7. CASE OpenTheMerge(p)
  <2>1. /\ pc[p] = "open" /\ UNCHANGED manual
        /\ \/ Refuse(p, "PROTECTED_PATHS_CHANGED")
           \/ pc'[p] \in {"classify", "stamp", "blindAbort"} /\ UNCHANGED job
    BY <1>0, <1>7 DEF OpenTheMerge, Goto, At
  <2>2. ~job[p].fused /\ job[p].goal = "none" /\ job[p].reason \notin Semantic
    BY <1>0, <2>1 DEF GoalInv
  <2>3. CASE Refuse(p, "PROTECTED_PATHS_CHANGED")
    BY <1>r, <2>1, <2>2, <2>3 DEF Reasons, Semantic
  <2>4. CASE pc'[p] \in {"classify", "stamp", "blindAbort"} /\ UNCHANGED job
    BY <2>2, <2>4 DEF ManualInv, Fusing
  <2> QED
    BY <2>1, <2>3, <2>4
<1>8. CASE BlindAbort(p)
  <2>1. \/ Finish(p, "lost") \/ Finish(p, "failed") \/ pc'[p] = "ticket"
    BY <1>0, <1>8 DEF BlindAbort, At, Goto
  <2> QED
    BY <1>f, <2>1 DEF Results, ManualInv, Fusing, Semantic
<1>9. CASE Classify(p)
  <2>1. /\ pc[p] = "classify" /\ UNCHANGED manual
        /\ \/ \E r \in {"UNMERGEABLE_CONFLICT", "MERGE_CONFLICT"} : Refuse(p, r)
           \/ pc'[p] = "llm" /\ ~manual
    BY <1>0, <1>9 DEF Classify, Goto, At
  <2>2. ~job[p].fused
    BY <1>0, <2>1 DEF GoalInv
  <2>3. CASE \E r \in {"UNMERGEABLE_CONFLICT", "MERGE_CONFLICT"} : Refuse(p, r)
    BY <1>r, <2>1, <2>2, <2>3 DEF Reasons, Semantic
  <2> QED
    BY <2>1, <2>3 DEF ManualInv
<1>10. CASE Llm(p)
  <2>1. pc[p] = "llm" /\ UNCHANGED manual
    BY <1>10 DEF Llm, At
  <2> QED
    BY <1>0, <2>1 DEF ManualInv, Fusing
<1>11. CASE Check(p)
  <2>1. \/ Finish(p, "lost") \/ Finish(p, "changed")
        \/ pc[p] = "check" /\ pc'[p] = job[p].goal /\ UNCHANGED <<manual, job>>
    BY <1>0, <1>11 DEF Check, At, Goto
  <2>2. CASE pc[p] = "check" /\ pc'[p] = job[p].goal /\ UNCHANGED <<manual, job>>
    BY <1>0, <2>2 DEF ManualInv, Fusing, GoalInv
  <2> QED
    BY <1>f, <2>1, <2>2 DEF Results
<1>12. CASE Write(p)
  <2>1. pc[p] = "write" /\ UNCHANGED manual
    BY <1>12 DEF Write, At
  <2> QED
    BY <1>0, <2>1 DEF GoalInv, ManualInv, Fusing
<1>13. CASE Stamp(p)
  <2>1. /\ pc[p] = "stamp" /\ pc'[p] = "gate" /\ UNCHANGED manual /\ job'[p].fused = job[p].fused
        /\ job'[p].reason = job[p].reason /\ job'[p].goal = job[p].goal
    BY <1>0, <1>13, StampJob DEF Stamp, At, KeepsMode
  <2> QED
    BY <1>0, <2>1 DEF ManualInv, Fusing
<1>14. CASE GateGreen(p)
  <2>1. /\ pc[p] = "gate" /\ pc'[p] = "check" /\ UNCHANGED manual /\ job'[p].fused = job[p].fused
        /\ job'[p].reason = job[p].reason /\ job'[p].goal = "commit"
    BY <1>0, <1>14, GreenJob DEF GateGreen, At, KeepsMode
  <2> QED
    BY <1>0, <2>1 DEF ManualInv, Fusing
<1>15. CASE GateRed(p)
  <2>1. /\ pc[p] = "gate" /\ UNCHANGED manual /\ job'[p].fused = job[p].fused
        /\ \/ job[p].fused
           \/ /\ ~job[p].fused /\ pc'[p] = "check" /\ job'[p].goal = "abort"
              /\ job'[p].reason = "GATE_FAILED"
    BY <1>0, <1>15, RedDoes DEF GateRed, At
  <2> QED
    BY <1>0, <2>1 DEF ManualInv, Fusing, Semantic
<1>16. CASE Conclude(p)
  <2>1. /\ pc[p] = "commit" /\ UNCHANGED manual
        /\ \/ pc'[p] = "record"
           \/ \E r \in {"none", "COMMIT_HOOK_REJECTED"} : Refuse(p, r)
    BY <1>0, <1>16 DEF Conclude, At, Goto
  <2>2. Fusing(p) \/ ~job[p].fused
    BY <2>1 DEF Fusing
  <2>3. CASE pc'[p] = "record"
    BY <2>3 DEF ManualInv, Fusing
  <2>4. CASE \E r \in {"none", "COMMIT_HOOK_REJECTED"} : Refuse(p, r)
    BY <1>r, <2>1, <2>2, <2>4 DEF Reasons, Semantic
  <2> QED
    BY <2>1, <2>3, <2>4
<1>17. CASE Record(p)
  <2>1. pc'[p] = "meta"
    BY <1>0, <1>17 DEF Record, Goto
  <2> QED
    BY <2>1 DEF ManualInv, Fusing
<1>18. CASE Meta(p)
  BY <1>0, <1>18, <1>f DEF Meta, At, Results, Goto, ManualInv, Fusing, Semantic
<1>19. CASE Abort(p)
  <2>1. \/ Finish(p, "lost") \/ Finish(p, "failed") \/ Finish(p, "refused")
        \/ /\ pc[p] = "abort" /\ pc'[p] \in {"count", "ticket"} /\ UNCHANGED <<manual, job>>
    BY <1>0, <1>19 DEF Abort, At, Goto
  <2>2. CASE pc[p] = "abort" /\ pc'[p] \in {"count", "ticket"} /\ UNCHANGED <<manual, job>>
    BY <1>0, <2>2 DEF ManualInv, Fusing
  <2> QED
    BY <1>f, <2>1, <2>2 DEF Results
<1>20. CASE Count(p)
  <2>1. pc'[p] = "ticket"
    BY <1>0, <1>20 DEF Count, Goto
  <2> QED
    BY <2>1 DEF ManualInv, Fusing
<1>21. CASE FileTicket(p)
  BY <1>0, <1>21, <1>f DEF FileTicket, At, Results, Goto, ManualInv, Fusing, Semantic
<1>22. CASE Replay(p)
  <2>1. \/ Finish(p, "failed")
        \/ pc'[p] \in {"apply", "drop"}
    BY <1>0, <1>22, ReplayDoes
  <2> QED
    BY <1>f, <2>1 DEF Results, ManualInv, Fusing, Semantic
<1>23. CASE Apply(p)
  <2>1. pc[p] = "apply" /\ UNCHANGED job
    BY <1>23 DEF Apply, At
  <2>2. pc'[p] \in {"stamp", "drop"}
    BY <1>0, <1>23 DEF Apply, Goto
  <2> QED
    BY <1>0, <2>1, <2>2 DEF GoalInv, ManualInv, Fusing
<1>24. CASE Drop(p)
  <2>1. \/ Finish(p, "lost") \/ Finish(p, "failed") \/ pc'[p] = "close"
    BY <1>0, <1>24 DEF Drop, At, Goto
  <2> QED
    BY <1>f, <2>1 DEF Results, ManualInv, Fusing, Semantic
<1>25. CASE CloseTickets(p)
  BY <1>0, <1>25, <1>f DEF CloseTickets, At, Results, Goto, ManualInv, Fusing, Semantic
<1>26. CASE RbRead(p)
  <2>1. \/ Finish(p, "failed")
        \/ pc'[p] = "rbSettle"
    BY <1>0, <1>26, RbReadDoes
  <2> QED
    BY <1>f, <2>1 DEF Results, ManualInv, Fusing, Semantic
<1>27. CASE RbSettle(p)
  <2>1. pc'[p] = "rbAssert"
    BY <1>0, <1>27, RbSettleDoes
  <2> QED
    BY <2>1 DEF ManualInv, Fusing, Semantic
<1>28. CASE RbAssert(p)
  <2>1. pc[p] = "rbAssert" /\ pc'[p] = job[p].goal
    BY <1>0, <1>28 DEF RbAssert, At, Goto
  <2> QED
    BY <1>0, <2>1 DEF GoalInv, ManualInv, Fusing, Semantic
<1>29. CASE RbReset(p)
  BY <1>0, <1>29 DEF RbReset, At, Goto, ManualInv, Fusing, Semantic
<1>30. CASE RbRevert(p)
  <2>1. Finish(p, "rolledBack") \/ Finish(p, "failed") \/ Finish(p, "lost")
    BY <1>30 DEF RbRevert
  <2> QED
    BY <1>f, <2>1 DEF Results
<1>31. CASE RbSync(p)
  <2>1. Finish(p, "rolledBack")
    BY <1>31 DEF RbSync
  <2> QED
    BY <1>f, <2>1 DEF Results
<1>32. CASE PmRead(p)
  <2>1. (\E r \in Results : Finish(p, r)) \/ pc'[p] = "pmGate"
    BY <1>0, <1>32, PmReadDoes
  <2> QED
    BY <1>f, <2>1 DEF ManualInv, Fusing, Semantic
<1>33. CASE PmGate(p)
  <2>1. pc'[p] = "pmCheck"
    BY <1>0, <1>33, PmGateDoes
  <2> QED
    BY <2>1 DEF ManualInv, Fusing, Semantic
<1>34. CASE PmCheck(p)
  <2>1. \/ Finish(p, "lost") \/ Finish(p, "changed")
        \/ pc[p] = "pmCheck" /\ pc'[p] = job[p].goal
    BY <1>0, <1>34 DEF PmCheck, At, Goto
  <2>2. CASE pc[p] = "pmCheck" /\ pc'[p] = job[p].goal
    BY <1>0, <2>2 DEF GoalInv, ManualInv, Fusing, Semantic
  <2> QED
    BY <1>f, <2>1, <2>2 DEF Results
<1>35. CASE PmSwap(p)
  <2>1. Finish(p, "promoted") \/ Finish(p, "failed")
    BY <1>35 DEF PmSwap
  <2> QED
    BY <1>f, <2>1 DEF Results
<1>36. CASE PmReset(p)
  BY <1>0, <1>36 DEF PmReset, At, Goto, ManualInv, Fusing, Semantic
<1>37. CASE PmTicket(p)
  BY <1>0, <1>37, <1>f DEF PmTicket, At, Results, Goto, ManualInv, Fusing, Semantic
<1>38. CASE \E kind \in Kinds, a \in Agent \cup {NoOne} :
            (kind \in {"merge", "resolve"} => a \in Agent) /\ Acquire(p, kind, a)
  BY <1>0, <1>38, AcquireDoes DEF ManualInv, Fusing, Semantic
<1>39. CASE Crash(p) \/ Freeze(p) \/ Thaw(p)
  <2>1. pc'[p] = "out" \/ UNCHANGED <<target, merge, index, main, streak, manual, failures, pc, job>>
    BY <1>0, <1>39 DEF Crash, Freeze, Thaw, Goto
  <2> QED
    BY <1>0, <2>1 DEF ManualInv, Fusing
<1> QED
  BY <1>1, <1>2, <1>3, <1>4, <1>5, <1>6, <1>7, <1>8, <1>9, <1>10, <1>11, <1>12, <1>13, <1>14,
     <1>15, <1>16, <1>17, <1>18, <1>19, <1>20, <1>21, <1>22, <1>23, <1>24, <1>25, <1>26, <1>27,
     <1>28, <1>29, <1>30, <1>31, <1>32, <1>33, <1>34, <1>35, <1>36, <1>37, <1>38, <1>39
     DEF ProcStep, OperationStep, MergeStep, ResolveStep, RollbackStep, PromoteStep

LEMMA CountHere ==
  ASSUME MInv, NEW p \in Proc, holder = p, ProcStep(p)
  PROVE  CountInv(p)'
<1> USE DEF repo, branches, books, people, history
<1>0. /\ TypeOK /\ pc \in [Proc -> PCs] /\ job \in [Proc -> Job] /\ job[p] \in Job /\ holder = p
      /\ KindInv(p) /\ GoalInv(p) /\ CountInv(p)
      /\ streak \in Nat /\ failures \in 0..MaxSemanticFailures
      /\ failures = MaxSemanticFailures \/ streak <= failures
  BY MergeChainAssumption DEF MInv, TypeOK, Own, Knows, StreakInv
<1>f. ASSUME NEW r \in Results, Finish(p, r) PROVE CountInv(p)'
  <2>1. pc'[p] = "leave"
    BY <1>0, <1>f, FinishJob
  <2> QED
    BY <2>1 DEF CountInv, Uncounted
<1>r. ASSUME NEW r \in Reasons, Refuse(p, r), r \notin Semantic PROVE CountInv(p)'
  <2>1. job'[p].reason = r
    BY <1>0, <1>r, RefuseJob
  <2> QED
    BY <1>r, <2>1 DEF CountInv, Uncounted, Semantic
<1>o. ASSUME OneMoreFailure, UNCHANGED streak PROVE CountInv(p)'
  <2>1. failures' = MaxSemanticFailures \/ failures' = failures + 1
    BY <1>0, <1>o, FailuresType
  <2>2. failures' >= failures /\ failures' \in 0..MaxSemanticFailures
    BY <1>0, <1>o, FailuresType
  <2>3. failures' = MaxSemanticFailures \/ streak' < failures'
    BY <1>0, <1>o, <2>1, <2>2, MergeChainAssumption
  <2> QED
    BY <2>3 DEF CountInv
<1>1. CASE Enter(p)
  <2>1. Finish(p, "refused") \/ Finish(p, "none") \/ pc'[p] = "recover"
    BY <1>0, <1>1 DEF Enter, Goto
  <2> QED
    BY <1>f, <2>1 DEF Results, CountInv, Uncounted, Semantic
<1>2. CASE Recover(p)
  <2>1. Finish(p, "refused") \/ pc'[p] \in {"ready", "abortOrphan"}
    BY <1>0, <1>2 DEF Recover, Goto
  <2> QED
    BY <1>f, <2>1 DEF Results, CountInv, Uncounted, Semantic
<1>3. CASE AbortOrphan(p)
  <2>1. Finish(p, "failed") \/ pc'[p] = "ready"
    BY <1>0, <1>3 DEF AbortOrphan, Goto
  <2> QED
    BY <1>f, <2>1 DEF Results, CountInv, Uncounted, Semantic
<1>4. CASE Ready(p)
  <2>1. \/ Finish(p, "failed")
        \/ pc'[p] \in {"fetch", "replay", "rbRead", "pmRead"}
    BY <1>0, <1>4 DEF Ready, At, Goto, KindInv
  <2> QED
    BY <1>f, <2>1 DEF Results, CountInv, Uncounted, Semantic
<1>5. CASE Leave(p)
  BY <1>0, <1>5 DEF Leave, At, Goto, CountInv, Uncounted, Semantic
<1>6. CASE Fetch(p)
  <2>1. pc'[p] \in {"leave", "open"}
    BY <1>0, <1>6, FetchDoes
  <2> QED
    BY <2>1 DEF CountInv, Uncounted, Semantic
<1>7. CASE OpenTheMerge(p)
  <2>1. \/ Refuse(p, "PROTECTED_PATHS_CHANGED")
        \/ pc'[p] \in {"classify", "stamp", "blindAbort"}
    BY <1>0, <1>7 DEF OpenTheMerge, Goto
  <2> QED
    BY <1>r, <2>1 DEF Reasons, CountInv, Uncounted, Semantic
<1>8. CASE BlindAbort(p)
  <2>1. \/ Finish(p, "lost") \/ Finish(p, "failed") \/ pc'[p] = "ticket"
    BY <1>0, <1>8 DEF BlindAbort, At, Goto
  <2> QED
    BY <1>f, <2>1 DEF Results, CountInv, Uncounted, Semantic
<1>9. CASE Classify(p)
  <2>1. \/ \E r \in {"UNMERGEABLE_CONFLICT", "MERGE_CONFLICT"} : Refuse(p, r)
        \/ pc'[p] = "llm"
    BY <1>0, <1>9 DEF Classify, Goto
  <2> QED
    BY <1>r, <2>1 DEF Reasons, CountInv, Uncounted, Semantic
<1>10. CASE Llm(p)
  <2>1. /\ pc[p] = "llm" /\ UNCHANGED streak
        /\ \/ OneMoreFailure
           \/ job'[p].spared
           \/ job'[p].reason = job[p].reason
    BY <1>0, <1>10, LlmDoes DEF Llm, At
  <2> QED
    BY <1>0, <1>o, <2>1 DEF GoalInv, CountInv, Uncounted, Semantic
<1>11. CASE Check(p)
  <2>1. \/ Finish(p, "lost") \/ Finish(p, "changed")
        \/ pc[p] = "check" /\ UNCHANGED <<streak, failures, job>>
    BY <1>11 DEF Check, At
  <2>2. CASE pc[p] = "check" /\ UNCHANGED <<streak, failures, job>>
    BY <1>0, <2>2 DEF CountInv, Uncounted
  <2> QED
    BY <1>f, <2>1, <2>2 DEF Results
<1>12. CASE Write(p)
  <2>1. /\ UNCHANGED streak
        /\ pc'[p] = "stamp" \/ OneMoreFailure
    BY <1>0, <1>12, WriteDoes DEF Write
  <2> QED
    BY <1>0, <1>o, <2>1 DEF CountInv, Uncounted
<1>13. CASE Stamp(p)
  <2>1. pc'[p] = "gate"
    BY <1>0, <1>13, StampJob
  <2> QED
    BY <2>1 DEF CountInv, Uncounted
<1>14. CASE GateGreen(p)
  <2>1. pc[p] = "gate" /\ job'[p].reason = job[p].reason
    BY <1>0, <1>14, GreenJob DEF GateGreen, At, KeepsMode
  <2> QED
    BY <1>0, <2>1 DEF GoalInv, CountInv, Uncounted, Semantic
<1>15. CASE GateRed(p)
  <2>1. /\ pc[p] = "gate" /\ UNCHANGED streak
        /\ \/ OneMoreFailure
           \/ job'[p].reason = "GATE_FAILED"
           \/ pc'[p] = "llm"
    BY <1>0, <1>15, RedDoes DEF GateRed, At
  <2> QED
    BY <1>0, <1>o, <2>1 DEF CountInv, Uncounted, Semantic
<1>16. CASE Conclude(p)
  <2>1. \/ pc'[p] = "record"
        \/ \E r \in {"none", "COMMIT_HOOK_REJECTED"} : Refuse(p, r)
    BY <1>0, <1>16 DEF Conclude, Goto
  <2> QED
    BY <1>r, <2>1 DEF Reasons, CountInv, Uncounted, Semantic
<1>17. CASE Record(p)
  <2>1. pc'[p] = "meta"
    BY <1>0, <1>17 DEF Record, Goto
  <2> QED
    BY <2>1 DEF CountInv, Uncounted
<1>18. CASE Meta(p)
  BY <1>0, <1>18, <1>f DEF Meta, At, Results, Goto, CountInv, Uncounted, Semantic
<1>19. CASE Abort(p)
  <2>1. \/ Finish(p, "lost") \/ Finish(p, "failed") \/ Finish(p, "refused")
        \/ pc[p] = "abort" /\ UNCHANGED <<streak, failures, job>>
    BY <1>19 DEF Abort, At
  <2>2. CASE pc[p] = "abort" /\ UNCHANGED <<streak, failures, job>>
    BY <1>0, <2>2 DEF CountInv, Uncounted
  <2> QED
    BY <1>f, <2>1, <2>2 DEF Results
<1>20. CASE Count(p)
  <2>1. pc'[p] = "ticket"
    BY <1>0, <1>20 DEF Count, Goto
  <2> QED
    BY <2>1 DEF CountInv, Uncounted
<1>21. CASE FileTicket(p)
  BY <1>0, <1>21, <1>f DEF FileTicket, At, Results, Goto, CountInv, Uncounted, Semantic
<1>22. CASE Replay(p)
  <2>1. \/ Finish(p, "failed")
        \/ pc'[p] \in {"apply", "drop"}
    BY <1>0, <1>22, ReplayDoes
  <2> QED
    BY <1>f, <2>1 DEF Results, CountInv, Uncounted, Semantic
<1>23. CASE Apply(p)
  <2>1. pc'[p] \in {"stamp", "drop"}
    BY <1>0, <1>23 DEF Apply, Goto
  <2> QED
    BY <2>1 DEF CountInv, Uncounted, Semantic
<1>24. CASE Drop(p)
  <2>1. \/ Finish(p, "lost") \/ Finish(p, "failed") \/ pc'[p] = "close"
    BY <1>0, <1>24 DEF Drop, At, Goto
  <2> QED
    BY <1>f, <2>1 DEF Results, CountInv, Uncounted, Semantic
<1>25. CASE CloseTickets(p)
  BY <1>0, <1>25, <1>f DEF CloseTickets, At, Results, Goto, CountInv, Uncounted, Semantic
<1>26. CASE RbRead(p)
  <2>1. \/ Finish(p, "failed")
        \/ pc'[p] = "rbSettle"
    BY <1>0, <1>26, RbReadDoes
  <2> QED
    BY <1>f, <2>1 DEF Results, CountInv, Uncounted, Semantic
<1>27. CASE RbSettle(p)
  <2>1. pc'[p] = "rbAssert"
    BY <1>0, <1>27, RbSettleDoes
  <2> QED
    BY <2>1 DEF CountInv, Uncounted, Semantic
<1>28. CASE RbAssert(p)
  <2>1. pc[p] = "rbAssert" /\ pc'[p] = job[p].goal
    BY <1>0, <1>28 DEF RbAssert, At, Goto
  <2> QED
    BY <1>0, <2>1 DEF GoalInv, CountInv, Uncounted, Semantic
<1>29. CASE RbReset(p)
  BY <1>0, <1>29 DEF RbReset, At, Goto, CountInv, Uncounted, Semantic
<1>30. CASE RbRevert(p)
  <2>1. Finish(p, "rolledBack") \/ Finish(p, "failed") \/ Finish(p, "lost")
    BY <1>30 DEF RbRevert
  <2> QED
    BY <1>f, <2>1 DEF Results
<1>31. CASE RbSync(p)
  <2>1. Finish(p, "rolledBack")
    BY <1>31 DEF RbSync
  <2> QED
    BY <1>f, <2>1 DEF Results
<1>32. CASE PmRead(p)
  <2>1. (\E r \in Results : Finish(p, r)) \/ pc'[p] = "pmGate"
    BY <1>0, <1>32, PmReadDoes
  <2> QED
    BY <1>f, <2>1 DEF CountInv, Uncounted, Semantic
<1>33. CASE PmGate(p)
  <2>1. pc'[p] = "pmCheck"
    BY <1>0, <1>33, PmGateDoes
  <2> QED
    BY <2>1 DEF CountInv, Uncounted, Semantic
<1>34. CASE PmCheck(p)
  <2>1. \/ Finish(p, "lost") \/ Finish(p, "changed")
        \/ pc[p] = "pmCheck" /\ pc'[p] = job[p].goal
    BY <1>0, <1>34 DEF PmCheck, At, Goto
  <2>2. CASE pc[p] = "pmCheck" /\ pc'[p] = job[p].goal
    BY <1>0, <2>2 DEF GoalInv, CountInv, Uncounted, Semantic
  <2> QED
    BY <1>f, <2>1, <2>2 DEF Results
<1>35. CASE PmSwap(p)
  <2>1. Finish(p, "promoted") \/ Finish(p, "failed")
    BY <1>35 DEF PmSwap
  <2> QED
    BY <1>f, <2>1 DEF Results
<1>36. CASE PmReset(p)
  BY <1>0, <1>36 DEF PmReset, At, Goto, CountInv, Uncounted, Semantic
<1>37. CASE PmTicket(p)
  BY <1>0, <1>37, <1>f DEF PmTicket, At, Results, Goto, CountInv, Uncounted, Semantic
<1>38. CASE \E kind \in Kinds, a \in Agent \cup {NoOne} :
            (kind \in {"merge", "resolve"} => a \in Agent) /\ Acquire(p, kind, a)
  BY <1>0, <1>38, AcquireDoes DEF CountInv, Uncounted, Semantic
<1>39. CASE Crash(p) \/ Freeze(p) \/ Thaw(p)
  <2>1. pc'[p] = "out" \/ UNCHANGED <<target, merge, index, main, streak, manual, failures, pc, job>>
    BY <1>0, <1>39 DEF Crash, Freeze, Thaw, Goto
  <2> QED
    BY <1>0, <2>1 DEF CountInv, Uncounted
<1> QED
  BY <1>1, <1>2, <1>3, <1>4, <1>5, <1>6, <1>7, <1>8, <1>9, <1>10, <1>11, <1>12, <1>13, <1>14,
     <1>15, <1>16, <1>17, <1>18, <1>19, <1>20, <1>21, <1>22, <1>23, <1>24, <1>25, <1>26, <1>27,
     <1>28, <1>29, <1>30, <1>31, <1>32, <1>33, <1>34, <1>35, <1>36, <1>37, <1>38, <1>39
     DEF ProcStep, OperationStep, MergeStep, ResolveStep, RollbackStep, PromoteStep

LEMMA KnowsHere ==
  ASSUME MInv, NEW p \in Proc, holder = p, ProcStep(p)
  PROVE  Knows(p)'
  BY ArrivalHere, OpenHere, TestedHere, VersionHere, UndoHere, ManualHere, CountHere DEF Knows

\* A process that takes the lock knows nothing yet.
LEMMA KnowsNothing ==
  ASSUME MInv, NEW p \in Proc, holder # p, holder' = p, ProcStep(p)
  PROVE  Knows(p)'
<1>1. \E kind \in Kinds, a \in Agent \cup {NoOne} : Acquire(p, kind, a)
  <2> USE MergeChainAssumption
  <2>1. CASE Enter(p) \/ Recover(p) \/ AbortOrphan(p) \/ Ready(p) \/ Leave(p)
    BY <2>1 DEF Enter, Recover, AbortOrphan, Ready, Leave
  <2>2. CASE MergeStep(p)
    BY <2>2 DEF MergeStep, Fetch, OpenTheMerge, BlindAbort, Classify, Llm, Check, Write,
           Stamp, GateGreen, GateRed, Conclude, Record, Meta, Abort, Count, FileTicket
  <2>3. CASE ResolveStep(p)
    BY <2>3 DEF ResolveStep, Replay, Apply, Drop, CloseTickets
  <2>4. CASE RollbackStep(p)
    BY <2>4 DEF RollbackStep, RbRead, RbSettle, RbAssert, RbReset, RbRevert, RbSync
  <2>5. CASE PromoteStep(p)
    BY <2>5 DEF PromoteStep, PmRead, PmGate, PmCheck, PmSwap, PmReset, PmTicket
  <2>6. CASE Crash(p) \/ Freeze(p) \/ Thaw(p)
    BY <2>6 DEF Crash, Freeze, Thaw
  <2> QED
    BY <2>1, <2>2, <2>3, <2>4, <2>5, <2>6 DEF ProcStep, OperationStep
<1>2. pc'[p] = "enter"
  BY <1>1, AcquireDoes DEF MInv
<1> QED
  BY <1>2 DEF Knows, ArrivalInv, OpenInv, TestedInv, VersionInv, RollbackInv, PromotionInv,
     ManualInv, Fusing, CountInv, Uncounted

\* The failures of a process that lost the lock come on top of those of the others.
LEMMA FailuresGrow ==
  ASSUME MInv, NEW p \in Proc, holder # p, ProcStep(p)
  PROVE  failures' >= failures /\ failures' \in 0..MaxSemanticFailures
<1>0. failures \in 0..MaxSemanticFailures /\ pc[p] \in Adrift
  BY DEF MInv, TypeOK, LockInv, Held
<1>1. failures >= failures
  BY <1>0, MergeChainAssumption
<1>2. CASE Llm(p)
  BY <1>0, <1>1, <1>2, FailuresType DEF Llm
<1>3. CASE GateRed(p)
  BY <1>0, <1>1, <1>3, FailuresType DEF GateRed
<1>4. CASE Record(p) \/ Write(p)
  BY <1>0, <1>4 DEF Record, Write, At, Adrift
<1> QED
  BY <1>0, <1>1, <1>2, <1>3, <1>4, Untouched DEF FailureStep

\* What the holder knows is true after a step of another process.
LEMMA KnowsThere ==
  ASSUME MInv, NEW p \in Proc, ProcStep(p), NEW q \in Proc, q # p, holder = q, Knows(q)
  PROVE  Knows(q)'
<1>1. /\ pc'[q] = pc[q] /\ job'[q] = job[q]
      /\ UNCHANGED <<target, merge, index, streak, manual>>
  BY Frames DEF MInv, LockInv, Shared, repo
<1>2. CountInv(q)'
  <2>1. /\ failures' >= failures /\ failures' \in 0..MaxSemanticFailures
        /\ failures \in 0..MaxSemanticFailures /\ streak \in 0..MaxSemanticFailures
    BY FailuresGrow DEF MInv, TypeOK
  <2>2. failures = MaxSemanticFailures \/ streak < failures
          => failures' = MaxSemanticFailures \/ streak' < failures'
    BY <1>1, <2>1, MergeChainAssumption
  <2>3. Uncounted(q)' <=> Uncounted(q)
    BY <1>1 DEF Uncounted
  <2> QED
    BY <2>2, <2>3 DEF Knows, CountInv
<1>3. ArrivalInv(q)' /\ OpenInv(q)' /\ TestedInv(q)'
  BY <1>1 DEF Knows, ArrivalInv, OpenInv, TestedInv, Stale, Mine, MyWork
<1>4. VersionInv(q)' /\ RollbackInv(q)' /\ PromotionInv(q)' /\ ManualInv(q)'
  BY <1>1 DEF Knows, VersionInv, RollbackInv, PromotionInv, ManualInv, Fusing
<1> QED
  BY <1>2, <1>3, <1>4 DEF Knows

\* Whose work is in the open merge.
LEMMA MergeStepInv ==
  ASSUME MInv, NEW p \in Proc, ProcStep(p)
  PROVE  MergeInv'
<1> USE DEF repo, branches
<1>0. TypeOK /\ MergeInv /\ p # Human /\ KindInv(p) /\ None \notin OpenMerge
  BY MergeChainAssumption, NoneAssumption DEF MInv, Own
<1>1. CASE UNCHANGED merge \/ merge' = None
  BY <1>0, <1>1 DEF MergeInv
<1>2. CASE OpenTheMerge(p)
  <2>1. MyWork(p) \in Work
    BY <1>2, MyWorkType DEF OpenTheMerge, At, OpenMergePcs
  <2>2. UNCHANGED merge \/ merge' = [by |-> p, work |-> MyWork(p)]
    BY <1>2 DEF OpenTheMerge
  <2>3. CASE merge' = [by |-> p, work |-> MyWork(p)]
    BY <1>0, <2>1, <2>3 DEF MergeInv
  <2> QED
    BY <1>1, <2>2, <2>3
<1>3. CASE Replay(p)
  <2>1. CASE Finish(p, "failed")
    <3>1. \/ UNCHANGED merge
          \/ \E t \in tickets : t.work[1] = job[p].agent /\ merge' = [by |-> p, work |-> t.work]
      BY <1>3 DEF Replay
    <3>2. ASSUME NEW t \in tickets, t.work[1] = job[p].agent, merge' = [by |-> p, work |-> t.work]
          PROVE  MergeInv'
      <4>1. job[p].agent \in Agent /\ t \in Ticket
        BY <1>0, <1>3 DEF TypeOK, Replay, At, KindInv
      <4>2. t.work \in Work
        BY <3>2, <4>1, MergeChainAssumption DEF Ticket
      <4> QED
        BY <1>0, <3>2, <4>2 DEF MergeInv
    <3> QED
      BY <1>1, <3>1, <3>2
  <2>2. CASE ~Finish(p, "failed")
    <3>1. \/ UNCHANGED merge
          \/ /\ merge' = [by |-> p, work |-> <<job'[p].agent, job'[p].sha>>]
             /\ job'[p].agent = job[p].agent /\ job'[p].sha \in 1..MaxWork
      BY <1>0, <1>3, <2>2, ReplayDoes
    <3>2. CASE /\ merge' = [by |-> p, work |-> <<job'[p].agent, job'[p].sha>>]
               /\ job'[p].agent = job[p].agent /\ job'[p].sha \in 1..MaxWork
      <4>1. job[p].agent \in Agent
        BY <1>0, <1>3 DEF Replay, At, KindInv
      <4>2. <<job'[p].agent, job'[p].sha>> \in Work
        BY <3>2, <4>1 DEF Work
      <4> QED
        BY <1>0, <3>2, <4>2 DEF MergeInv
    <3> QED
      BY <1>1, <3>1, <3>2
  <2> QED
    BY <2>1, <2>2
<1>4. RepoStep(p) => OpenTheMerge(p) \/ Replay(p) \/ UNCHANGED merge \/ merge' = None
  BY DEF RepoStep, AbortOrphan, BlindAbort, Write, Conclude, Abort, Apply, Drop, RbReset, RbRevert,
     PmSwap, PmReset, Close
<1> QED
  BY <1>1, <1>2, <1>3, <1>4, Untouched

LEMMA StreakStep ==
  ASSUME MInv, NEW p \in Proc, ProcStep(p)
  PROVE  StreakInv'
<1> USE DEF books
<1>0. /\ StreakInv /\ streak \in 0..MaxSemanticFailures /\ failures \in 0..MaxSemanticFailures
      /\ manual \in BOOLEAN /\ MaxSemanticFailures \in Nat \ {0}
  BY MergeChainAssumption DEF MInv, TypeOK
<1>1. CASE Record(p)
  BY <1>0, <1>1 DEF Record, StreakInv
<1>2. CASE Count(p)
  <2>1. /\ holder = p /\ pc[p] = "count" /\ job[p].reason \in Semantic /\ ~manual
        /\ UNCHANGED failures
    <3>1. holder = p /\ pc[p] = "count"
      BY <1>2 DEF MInv, LockInv, Held, Adrift, Count, At
    <3>2. job[p].reason \in Semantic
      BY <3>1 DEF MInv, Own, GoalInv
    <3>3. Fusing(p) /\ ManualInv(p)
      BY <3>1, <3>2 DEF MInv, Knows, Fusing
    <3> QED
      BY <1>2, <3>1, <3>2, <3>3 DEF ManualInv, Count, history
  <2>2. CASE job[p].spared
    BY <1>0, <1>2, <2>1, <2>2 DEF Count, StreakInv
  <2>3. CASE ~job[p].spared
    <3>1. failures = MaxSemanticFailures \/ streak < failures
      BY <2>1, <2>3 DEF MInv, Knows, CountInv, Uncounted, Semantic
    <3>2. streak' = streak + 1 /\ manual' = (manual \/ streak' >= MaxSemanticFailures)
      BY <1>2, <2>3 DEF Count
    <3>3. failures' = MaxSemanticFailures \/ streak' <= failures'
      BY <1>0, <2>1, <3>1, <3>2
    <3>4. ~manual' => streak' < MaxSemanticFailures
      <4>1. ~manual' => ~(streak' >= MaxSemanticFailures)
        BY <3>2, Zenon
      <4>2. streak' \in Nat
        BY <1>0, <3>2
      <4> QED
        BY <1>0, <4>1, <4>2
    <3> QED
      BY <3>3, <3>4 DEF StreakInv
  <2> QED
    BY <2>2, <2>3
<1>3. CASE UNCHANGED <<streak, manual>> /\ failures' >= failures /\ failures' \in 0..MaxSemanticFailures
  BY <1>0, <1>3 DEF StreakInv
<1>4. ~Record(p) /\ ~Count(p) => UNCHANGED <<streak, manual>>
  <2>1. BookStep(p) /\ ~Record(p) /\ ~Count(p) => UNCHANGED <<streak, manual>>
    BY DEF BookStep, Recover, Fetch, Check, Meta, FileTicket, CloseTickets, RbSync, PmTicket
  <2> QED
    BY <2>1, Untouched
<1>5. ~Record(p) => failures' >= failures /\ failures' \in 0..MaxSemanticFailures
  <2>1. CASE Llm(p)
    BY <1>0, <2>1, FailuresType DEF Llm
  <2>2. CASE GateRed(p)
    BY <1>0, <2>2, FailuresType DEF GateRed
  <2>3. CASE Write(p)
    BY <1>0, <2>3, FailuresType DEF Write
  <2> QED
    BY <1>0, <2>1, <2>2, <2>3, Untouched DEF FailureStep
<1> QED
  BY <1>1, <1>2, <1>3, <1>4, <1>5

\* What the holder knows is true after people acted: where they do, it knows little.
LEMMA KnowsPeople ==
  ASSUME MInv, Shielded, PeopleStep, NEW p \in Proc, holder = p
  PROVE  Knows(p)'
<1> USE DEF repo, branches, books, people, history
<1>0. /\ Knows(p) /\ Own(p) /\ TypeOK /\ p # Human /\ MaxSemanticFailures \in Nat \ {0}
      /\ None \notin OpenMerge
      /\ MergedIndex.version = 1 /\ CleanIndex.version = 0 /\ job[p].retries \in Nat
      /\ index \in Index
  <2>1. Knows(p) /\ Own(p) /\ TypeOK /\ job[p] \in Job /\ index \in Index
    BY DEF MInv, TypeOK
  <2>2. job[p].retries \in Nat
    BY <2>1, MergeChainAssumption DEF Job
  <2> QED
    BY <2>1, <2>2, MergeChainAssumption, NoneAssumption, Constants
<1>1. CASE (\E a \in Agent : AgentCommits(a)) \/ SessionEnds
  <2>1. UNCHANGED <<target, merge, index, streak, manual, failures, pc, job>>
    BY <1>1 DEF AgentCommits, SessionEnds
  <2> QED
    BY <1>0, <2>1 DEF Knows, ArrivalInv, OpenInv, TestedInv, Stale, Mine, MyWork, VersionInv,
       RollbackInv, PromotionInv, ManualInv, Fusing, CountInv, Uncounted
<1>2. CASE Gesture
  <2>1. pc[p] \notin Windows /\ UNCHANGED <<pc, job>>
    <3>1. status[p] \in {"up", "frozen", "dead"}
      BY <1>0 DEF TypeOK
    <3>2. UNCHANGED <<pc, job>>
      BY <1>2 DEF Gesture
    <3>3. CASE status[p] = "up"
      <4>1. pc[p] \notin Quiet
        BY <1>2, <3>3, Zenon DEF Gesture
      <4> QED
        BY <3>2, <4>1 DEF Shielded
    <3>4. CASE status[p] # "up"
      <4>1. pc[p] \in Long \/ pc[p] = "out"
        BY <3>1, <3>4 DEF MInv, LockInv, StatusInv
      <4> QED
        BY <3>2, <4>1 DEF Long, Windows
    <3> QED
      BY <3>3, <3>4
  <2>2. \/ UNCHANGED <<merge, index>>
        \/ merge' = None /\ index' = CleanIndex
        \/ /\ merge'.by = Human /\ merge' # None /\ index'.version = 1
        \/ UNCHANGED merge /\ index' = [index EXCEPT !.touched = TRUE]
    <3>1. CASE HumanOpens
      <4>1. [by |-> Human, work |-> <<NoOne, gestures'>>] \in OpenMerge
        <5>1. gestures' \in 1..MaxHuman
          BY <1>0, <1>2, GestureFrame
        <5> QED
          BY <5>1 DEF OpenMerge, HumanWork
      <4> QED
        BY <1>0, <3>1, <4>1 DEF HumanOpens
    <3>2. CASE HumanAborts \/ HumanCommits
      BY <3>2 DEF HumanAborts, HumanCommits, Close
    <3>3. CASE HumanTouches
      BY <3>3 DEF HumanTouches
    <3>4. CASE HumanCommitsNothing \/ HumanCommitsToMain \/ Unlock
      BY <3>4 DEF HumanCommitsNothing, HumanCommitsToMain, Unlock
    <3>5. CASE (\E a \in Agent : AgentCommits(a)) \/ SessionEnds
      BY <3>5 DEF AgentCommits, SessionEnds
    <3> QED
      BY <3>1, <3>2, <3>3, <3>4, <3>5 DEF PeopleStep
  <2>3. \/ UNCHANGED <<manual, streak, failures>>
        \/ /\ manual' = FALSE /\ streak' = 0 /\ failures' \in 0..MaxSemanticFailures
           /\ (\E q \in Proc : Uncounted(q)) => failures' >= 1
    BY UnlockType DEF PeopleStep, AgentCommits, HumanOpens, HumanAborts, HumanTouches, HumanCommits,
       HumanCommitsNothing, HumanCommitsToMain, SessionEnds, Unlock
  <2>4. ArrivalInv(p)' /\ RollbackInv(p)' /\ PromotionInv(p)'
    BY <2>1 DEF ArrivalInv, RollbackInv, PromotionInv, Windows
  <2>5. OpenInv(p)'
    BY <1>0, <2>1, <2>2 DEF Knows, OpenInv, Mine, MyWork, Windows
  <2>6. Stale(p) => Stale(p)'
    BY <1>0, <2>1, <2>2 DEF Stale, Mine, MyWork, Index
  <2>7. index = job[p].index => index' = job'[p].index \/ Stale(p)'
    <3>1. CASE UNCHANGED <<merge, index>>
      BY <2>1, <3>1
    <3>2. CASE merge' = None \/ merge'.by = Human
      BY <1>0, <3>2 DEF Stale, Mine
    <3>3. CASE UNCHANGED merge /\ index' = [index EXCEPT !.touched = TRUE] /\ index.touched
      <4>1. index' = index
        BY <1>0, <3>3 DEF Index
      <4> QED
        BY <2>1, <4>1
    <3>4. CASE UNCHANGED merge /\ index' = [index EXCEPT !.touched = TRUE] /\ ~index.touched
      BY <1>0, <2>1, <3>4 DEF Stale, Index
    <3> QED
      BY <2>2, <3>1, <3>2, <3>3, <3>4
  <2>8. TestedInv(p)'
    BY <1>0, <2>1, <2>6, <2>7 DEF Knows, TestedInv, Windows
  <2>9. VersionInv(p)'
    <3>1. index'.version = index.version \/ index'.version \in {0, 1}
      BY <1>0, <2>2 DEF Index
    <3> QED
      BY <1>0, <2>1, <3>1 DEF Knows, VersionInv
  <2>10. ManualInv(p)'
    BY <1>0, <2>1, <2>3 DEF Knows, ManualInv, Fusing
  <2>11. CountInv(p)'
    <3>1. Uncounted(p)' <=> Uncounted(p)
      BY <2>1 DEF Uncounted
    <3>2. Uncounted(p) => failures' = MaxSemanticFailures \/ streak' < failures'
      BY <1>0, <2>3 DEF Knows, CountInv
    <3> QED
      BY <3>1, <3>2 DEF CountInv
  <2> QED
    BY <2>4, <2>5, <2>8, <2>9, <2>10, <2>11 DEF Knows
<1> QED
  BY <1>1, <1>2 DEF PeopleStep, HumanOpens, HumanAborts, HumanTouches, HumanCommits,
     HumanCommitsNothing, HumanCommitsToMain, Unlock

LEMMA OthersPeople ==
  ASSUME MInv, PeopleStep
  PROVE  MergeInv' /\ StreakInv' /\ UNCHANGED <<holder, pc, job>>
<1> USE DEF repo, branches, books, people, history
<1>0. /\ MergeInv /\ StreakInv /\ TypeOK /\ Human \notin Proc /\ MaxSemanticFailures \in Nat \ {0}
  BY MergeChainAssumption DEF MInv
<1>1. CASE HumanOpens
  <2>1. gestures' \in 1..MaxHuman
    BY <1>0, <1>1, GestureFrame DEF HumanOpens
  <2>2. MergeInv'
    BY <1>1, <2>1 DEF HumanOpens, MergeInv, HumanWork
  <2> QED
    BY <1>0, <1>1, <2>2 DEF HumanOpens, Gesture, StreakInv
<1>2. CASE HumanAborts \/ HumanCommits
  BY <1>0, <1>2 DEF HumanAborts, HumanCommits, Close, Gesture, MergeInv, StreakInv
<1>3. CASE HumanTouches \/ HumanCommitsNothing \/ HumanCommitsToMain
  <2>1. UNCHANGED <<merge, streak, manual, failures, holder, pc, job>>
    BY <1>3 DEF HumanTouches, HumanCommitsNothing, HumanCommitsToMain, Gesture
  <2> QED
    BY <1>0, <2>1 DEF MergeInv, StreakInv
<1>4. CASE (\E a \in Agent : AgentCommits(a)) \/ SessionEnds
  <2>1. UNCHANGED <<merge, streak, manual, failures, holder, pc, job>>
    BY <1>4 DEF AgentCommits, SessionEnds
  <2> QED
    BY <1>0, <2>1 DEF MergeInv, StreakInv
<1>5. CASE Unlock
  <2>1. /\ streak' = 0 /\ failures' \in 0..MaxSemanticFailures /\ UNCHANGED <<merge, holder, pc, job>>
    BY <1>5, UnlockType DEF Unlock, Gesture
  <2> QED
    BY <1>0, <2>1 DEF MergeInv, StreakInv
<1> QED
  BY <1>1, <1>2, <1>3, <1>4, <1>5 DEF PeopleStep

-----------------------------------------------------------------------------
(* The invariant. *)

LEMMA MInvInit == Init => MInv
<1> SUFFICES ASSUME Init PROVE MInv
  OBVIOUS
<1>1. TypeOK
  <2>1. /\ 0 \in 0..MaxWork /\ 0 \in 0..MaxSemanticFailures /\ 0 \in 0..MaxHuman
        /\ <<>> \in Seq(Commit)
    BY MergeChainAssumption
  <2>2. NoJob \in Job /\ CleanIndex \in Index
    BY Constants
  <2> QED
    BY <2>1, <2>2 DEF Init, TypeOK, PCs
<1>2. \A p \in Proc : pc[p] = "out" /\ job[p] = NoJob /\ status[p] = "up"
  BY DEF Init
<1>3. LockInv
  BY <1>2 DEF Init, LockInv, StatusInv, Held, SessionHolds, NoticedHolds, Adrift
<1>4. MergeInv /\ StreakInv
  BY MergeChainAssumption DEF Init, MergeInv, StreakInv
<1>5. ASSUME NEW p \in Proc PROVE Own(p)
  BY <1>2 DEF Own, KindInv, GoalInv, NoJob, OpenMergePcs, RollbackPcs, PromotePcs
<1>6. \A p \in Proc : holder # p
  BY MergeChainAssumption DEF Init
<1> QED
  BY <1>1, <1>3, <1>4, <1>5, <1>6 DEF MInv

LEMMA MInvStep ==
  ASSUME MInv, Shielded, [Next]_vars
  PROVE  MInv'
<1>1. ASSUME NEW p \in Proc, ProcStep(p) PROVE MInv'
  <2>1. /\ \A q \in Proc : q # p => pc'[q] = pc[q] /\ job'[q] = job[q]
        /\ holder' \in {holder, p, NoOne} /\ NoOne \notin Proc
    BY <1>1, Frames, MergeChainAssumption DEF MInv, LockInv
  <2>2. ASSUME NEW q \in Proc PROVE Own(q)'
    <3>1. CASE q = p
      BY <1>1, <3>1, KindHere, GoalHere DEF Own
    <3>2. CASE q # p
      BY <2>1, <3>2 DEF MInv, Own, KindInv, GoalInv, Fresh
    <3> QED
      BY <3>1, <3>2
  <2>3. ASSUME NEW q \in Proc, holder' = q PROVE Knows(q)'
    <3>1. CASE q = p /\ holder = p
      BY <1>1, <3>1, KnowsHere
    <3>2. CASE q = p /\ holder # p
      BY <1>1, <2>3, <3>2, KnowsNothing
    <3>3. CASE q # p
      <4>1. holder = q
        BY <2>1, <2>3, <3>3
      <4> QED
        BY <1>1, <3>3, <4>1, KnowsThere DEF MInv
    <3> QED
      BY <3>1, <3>2, <3>3
  <2>4. TypeOK' /\ LockInv' /\ MergeInv' /\ StreakInv'
    BY <1>1, StepTypes, LockStep, MergeStepInv, StreakStep DEF Shielded
  <2> QED
    BY <2>2, <2>3, <2>4 DEF MInv
<1>2. CASE PeopleStep
  <2>1. UNCHANGED <<holder, pc, job>> /\ MergeInv' /\ StreakInv'
    BY <1>2, OthersPeople
  <2>2. ASSUME NEW p \in Proc PROVE Own(p)'
    BY <2>1 DEF MInv, Own, KindInv, GoalInv, Fresh
  <2>3. ASSUME NEW p \in Proc, holder' = p PROVE Knows(p)'
    BY <1>2, <2>1, <2>3, KnowsPeople
  <2> QED
    BY <1>2, <2>1, <2>2, <2>3, PeopleTypes, LockPeople DEF MInv
<1>3. CASE UNCHANGED vars
  <2> USE <1>3 DEF vars, repo, branches, books, people, history
  <2>1. TypeOK' /\ MergeInv' /\ StreakInv'
    BY DEF MInv, TypeOK, MergeInv, StreakInv
  <2>2. LockInv'
    BY DEF MInv, LockInv, StatusInv, Held, SessionHolds, NoticedHolds, Covers, MergeHead
  <2>3. ASSUME NEW p \in Proc PROVE Own(p)'
    BY DEF MInv, Own, KindInv, GoalInv, Fresh
  <2>4. ASSUME NEW p \in Proc, holder' = p PROVE Knows(p)'
    BY <2>4 DEF MInv, Knows, ArrivalInv, OpenInv, TestedInv, Stale, Mine, MyWork, VersionInv,
       RollbackInv, PromotionInv, ManualInv, Fusing, CountInv, Uncounted
  <2> QED
    BY <2>1, <2>2, <2>3, <2>4 DEF MInv
<1> QED
  BY <1>1, <1>2, <1>3, Steps

LEMMA Invariant == Shielded /\ Spec => []MInv
<1>1. Shielded /\ MInv /\ [Next]_vars => MInv'
  BY MInvStep
<1>2. CASE Shielded
  <2>1. MInv /\ [Next]_vars => MInv'
    BY <1>1, <1>2
  <2> QED
    BY <2>1, MInvInit, PTL DEF Spec
<1> QED
  BY <1>2


-----------------------------------------------------------------------------
(* The properties. *)

\* Who moves in a step is the process that takes it.
LEMMA Alone ==
  ASSUME MInv, NEW p \in Proc, Acting(p), [Next]_vars
  PROVE  ProcStep(p)
<1>1. CASE UNCHANGED vars
  BY <1>1 DEF Acting, vars
<1>2. CASE PeopleStep
  BY <1>2, OthersPeople DEF Acting
<1>3. ASSUME NEW q \in Proc, ProcStep(q) PROVE ProcStep(p)
  <2>1. CASE q = p
    BY <1>3, <2>1
  <2>2. CASE q # p
    BY <1>3, <2>2, Frames DEF MInv, LockInv, Acting
  <2> QED
    BY <2>1, <2>2
<1> QED
  BY <1>1, <1>2, <1>3, Steps

\* What moves the repository.
LEMMA Moves ==
  ASSUME MInv, NEW p \in Proc, ProcStep(p)
  PROVE  /\ main' # main => PmSwap(p)
         /\ target' # target => Conclude(p) \/ RbReset(p) \/ RbRevert(p) \/ PmReset(p)
         /\ merge' = merge \/ AbortOrphan(p) \/ OpenTheMerge(p) \/ BlindAbort(p) \/ Conclude(p)
              \/ Abort(p) \/ Replay(p) \/ Drop(p) \/ RbReset(p) \/ RbRevert(p) \/ PmReset(p)
<1> USE DEF repo, branches
<1>1. CASE Enter(p) \/ Recover(p) \/ AbortOrphan(p) \/ Ready(p) \/ Leave(p)
  BY <1>1 DEF Enter, Recover, AbortOrphan, Ready, Leave
<1>2. CASE MergeStep(p)
  BY <1>2 DEF MergeStep, Fetch, OpenTheMerge, BlindAbort, Classify, Llm, Check, Write,
     Stamp, GateGreen, GateRed, Conclude, Record, Meta, Abort, Count, FileTicket
<1>3. CASE ResolveStep(p)
  BY <1>3 DEF ResolveStep, Replay, Apply, Drop, CloseTickets
<1>4. CASE RollbackStep(p)
  BY <1>4 DEF RollbackStep, RbRead, RbSettle, RbAssert, RbReset, RbRevert, RbSync
<1>5. CASE PromoteStep(p)
  BY <1>5 DEF PromoteStep, PmRead, PmGate, PmCheck, PmSwap, PmReset, PmTicket
<1>6. CASE Crash(p) \/ Freeze(p) \/ Thaw(p)
  BY <1>6 DEF Crash, Freeze, Thaw
<1>7. CASE \E kind \in Kinds, a \in Agent \cup {NoOne} : Acquire(p, kind, a)
  BY <1>7 DEF Acquire
<1> QED
  BY <1>1, <1>2, <1>3, <1>4, <1>5, <1>6, <1>7 DEF ProcStep, OperationStep

\* Who has not looked at the repository yet, or has done with it, leaves it as it is.
LEMMA StepStill ==
  ASSUME MInv, NEW p \in Proc, ProcStep(p), pc[p] \in {"out", "enter", "recover", "leave"}
  PROVE  UNCHANGED repo
<1> USE DEF At
<1>1. CASE Enter(p) \/ Recover(p) \/ AbortOrphan(p) \/ Ready(p) \/ Leave(p)
  BY <1>1 DEF Enter, Recover, AbortOrphan, Ready, Leave
<1>2. CASE MergeStep(p)
  BY <1>2 DEF MergeStep, Fetch, OpenTheMerge, BlindAbort, Classify, Llm, Check, Write,
     Stamp, GateGreen, GateRed, Conclude, Record, Meta, Abort, Count, FileTicket
<1>3. CASE ResolveStep(p)
  BY <1>3 DEF ResolveStep, Replay, Apply, Drop, CloseTickets
<1>4. CASE RollbackStep(p)
  BY <1>4 DEF RollbackStep, RbRead, RbSettle, RbAssert, RbReset, RbRevert, RbSync
<1>5. CASE PromoteStep(p)
  BY <1>5 DEF PromoteStep, PmRead, PmGate, PmCheck, PmSwap, PmReset, PmTicket
<1>6. CASE Crash(p) \/ Freeze(p) \/ Thaw(p)
  BY <1>6 DEF Crash, Freeze, Thaw
<1>7. CASE \E kind \in Kinds, a \in Agent \cup {NoOne} : Acquire(p, kind, a)
  BY <1>7 DEF Acquire
<1> QED
  BY <1>1, <1>2, <1>3, <1>4, <1>5, <1>6, <1>7 DEF ProcStep, OperationStep

\* The manual mode is set by recordSemanticFailure.
LEMMA ManualSet ==
  ASSUME MInv, ~manual, manual', [Next]_vars
  PROVE  \E p \in Proc : Count(p)
<1> USE DEF books
<1>1. CASE UNCHANGED vars
  BY <1>1 DEF vars
<1>2. CASE PeopleStep
  BY <1>2 DEF PeopleStep, AgentCommits, HumanOpens, HumanAborts, HumanTouches, HumanCommits,
     HumanCommitsNothing, HumanCommitsToMain, SessionEnds, Unlock
<1>3. ASSUME NEW p \in Proc, ProcStep(p) PROVE Count(p)
  <2>1. CASE Enter(p) \/ Recover(p) \/ AbortOrphan(p) \/ Ready(p) \/ Leave(p)
    BY <2>1 DEF Enter, Recover, AbortOrphan, Ready, Leave
  <2>2. CASE MergeStep(p)
    BY <2>2 DEF MergeStep, Fetch, OpenTheMerge, BlindAbort, Classify, Llm, Check, Write,
       Stamp, GateGreen, GateRed, Conclude, Record, Meta, Abort, FileTicket
  <2>3. CASE ResolveStep(p)
    BY <2>3 DEF ResolveStep, Replay, Apply, Drop, CloseTickets
  <2>4. CASE RollbackStep(p)
    BY <2>4 DEF RollbackStep, RbRead, RbSettle, RbAssert, RbReset, RbRevert, RbSync
  <2>5. CASE PromoteStep(p)
    BY <2>5 DEF PromoteStep, PmRead, PmGate, PmCheck, PmSwap, PmReset, PmTicket
  <2>6. CASE Crash(p) \/ Freeze(p) \/ Thaw(p)
    BY <2>6 DEF Crash, Freeze, Thaw
  <2>7. CASE \E kind \in Kinds, a \in Agent \cup {NoOne} : Acquire(p, kind, a)
    BY <2>7 DEF Acquire
  <2> QED
    BY <1>3, <2>1, <2>2, <2>3, <2>4, <2>5, <2>6, <2>7 DEF ProcStep, OperationStep
<1> QED
  BY <1>1, <1>2, <1>3, Steps

\* What keeps the commits of humans: git only appends, a rollback takes one commit of
\* Striart away, and the rollback of a promotion what it read.
LEMMA CommitsKept ==
  ASSUME MInv, [Next]_vars, NEW n \in 1..Len(target), target[n].by = Human
  PROVE  \/ n <= Len(target') /\ target'[n] = target[n]
         \/ \E p \in Proc : Acting(p) /\ job[p].kind = "promote" /\ target = job[p].head
<1>0. /\ target \in Seq(Commit) /\ n \in 1..Len(target) /\ Len(target) \in Nat
      /\ Human \notin Proc /\ n <= Len(target)
  BY MergeChainAssumption DEF MInv, TypeOK
<1>a. ASSUME NEW c, target' = Append(target, c)
      PROVE  n <= Len(target') /\ target'[n] = target[n]
  BY <1>0, <1>a
<1>1. CASE UNCHANGED vars
  BY <1>0, <1>1 DEF vars, repo
<1>2. CASE PeopleStep
  <2>1. UNCHANGED target \/ \E c : target' = Append(target, c)
    BY <1>2 DEF PeopleStep, AgentCommits, HumanOpens, HumanAborts, HumanTouches, HumanCommits,
       HumanCommitsNothing, HumanCommitsToMain, SessionEnds, Unlock, repo
  <2> QED
    BY <1>0, <1>a, <2>1
<1>3. ASSUME NEW p \in Proc, ProcStep(p), target' # target
      PROVE  \/ n <= Len(target') /\ target'[n] = target[n]
             \/ \E q \in Proc : Acting(q) /\ job[q].kind = "promote" /\ target = job[q].head
  <2>1. CASE Conclude(p)
    BY <1>3, <1>a, <2>1 DEF Conclude
  <2>2. CASE RbRevert(p)
    BY <1>3, <1>a, <2>2 DEF RbRevert
  <2>3. CASE RbReset(p)
    <3>1. pc[p] = "rbReset" /\ target' = Front(job[p].head)
      BY <2>3 DEF RbReset, At
    <3>2. holder = p
      BY <3>1 DEF MInv, LockInv, Held, Adrift
    <3>3. target = job[p].head /\ target # <<>> /\ target[Len(target)].by \in Proc
      BY <3>1, <3>2 DEF MInv, Knows, RollbackInv
    <3>4. n # Len(target)
      BY <1>0, <3>3
    <3>5. /\ Len(target') = Len(target) - 1
          /\ \A i \in 1..(Len(target) - 1) : target'[i] = target[i]
      BY <1>0, <3>1, <3>3, FrontType
    <3> QED
      BY <1>0, <3>4, <3>5
  <2>4. CASE PmReset(p)
    <3>1. pc[p] = "pmReset" /\ pc'[p] = "pmTicket"
      BY <2>4 DEF PmReset, At, Goto, MInv, TypeOK
    <3>2. holder = p
      BY <3>1 DEF MInv, LockInv, Held, Adrift
    <3>3. target = job[p].head /\ job[p].kind = "promote"
      BY <3>1, <3>2 DEF MInv, Own, KindInv, PromotePcs, Knows, PromotionInv
    <3> QED
      BY <3>1, <3>3 DEF Acting
  <2> QED
    BY <1>3, <2>1, <2>2, <2>3, <2>4, Moves
<1>4. CASE UNCHANGED target
  BY <1>0, <1>4
<1> QED
  BY <1>1, <1>2, <1>3, <1>4, Steps

\* Every variable keeps its type, however many commits the target and main branches get:
\* git, the registry, state.json, and the locals of mergeAgentCommit, applyTicketResolution,
\* rollbackLastMerge and promoteStaging.
THEOREM ChainTypes ==
  ASSUME Shielded
  PROVE  Spec => []TypeOK
<1>1. MInv => TypeOK
  BY DEF MInv
<1> QED
  BY <1>1, Invariant, PTL

\* What mergeAgentCommit and applyTicketResolution commit is the merge they opened, on the
\* HEAD they merged into, with the index the gate found green: assertMergeIntact, called
\* just before git commit, is enough as long as no human acts between the two.
THEOREM ChainLandsTested ==
  ASSUME Shielded
  PROVE  Spec => OnlyTestedLands
<1>1. MInv /\ [Next]_vars =>
        [\A p \in Proc :
           (Acting(p) /\ pc[p] = "commit" /\ target' # target) =>
             /\ holder = p
             /\ merge.by = p
             /\ target = job[p].head
             /\ index = job[p].tested]_vars
  <2> SUFFICES ASSUME MInv, NEW p \in Proc, pc[p] = "commit"
               PROVE  holder = p /\ merge.by = p /\ target = job[p].head /\ index = job[p].tested
    OBVIOUS
  <2>1. holder = p
    BY DEF MInv, LockInv, Held, Adrift
  <2> QED
    BY <2>1 DEF MInv, Knows, TestedInv, Mine
<1> QED
  BY <1>1, Invariant, PTL DEF Spec, OnlyTestedLands

\* promoteStaging gives the main branch the tree its gate found green, and nothing but a
\* fast-forward of what the main branch is: assertPromotedTreeIsTested and the value that
\* update-ref expects, under the lock.
THEOREM ChainPromotesTested ==
  ASSUME Shielded
  PROVE  Spec => TestedPromoted
<1>1. MInv /\ [Next]_vars =>
        [\A p \in Proc :
           (Acting(p) /\ main' # main) =>
             /\ holder = p
             /\ Tree(main') = Tree(job[p].gated)
             /\ IsPrefix(main, main')]_vars
  <2> SUFFICES ASSUME MInv, [Next]_vars, NEW p \in Proc, Acting(p), main' # main
               PROVE  holder = p /\ Tree(main') = Tree(job[p].gated) /\ IsPrefix(main, main')
    OBVIOUS
  <2>1. PmSwap(p)
    BY Alone, Moves
  <2>2. pc[p] = "pmSwap" /\ main = job[p].base /\ main' = job[p].head
    BY <2>1 DEF PmSwap, At
  <2>3. holder = p
    BY <2>2 DEF MInv, LockInv, Held, Adrift
  <2>4. Tree(job[p].gated) = Tree(job[p].head) /\ IsPrefix(job[p].base, job[p].head)
    BY <2>2, <2>3 DEF MInv, Own, GoalInv, Knows, PromotionInv
  <2> QED
    BY <2>2, <2>3, <2>4
<1> QED
  BY <1>1, Invariant, PTL DEF Spec, TestedPromoted

\* An operation under way undoes no merge but its own: assertMergeIntact before abortMerge,
\* and the look at the repository on arrival before the aborts that check nothing.
THEOREM ChainUndoesItsOwn ==
  ASSUME Shielded
  PROVE  Spec => OwnMergesOnly
<1>1. MInv /\ [Next]_vars =>
        [\A p \in Proc :
           (Acting(p) /\ merge # None /\ merge' = None /\ pc[p] \notin {"abortOrphan", "pmReset"})
             => merge.by = p]_vars
  <2> SUFFICES ASSUME MInv, [Next]_vars, NEW p \in Proc, Acting(p), merge # None, merge' = None,
                      pc[p] \notin {"abortOrphan", "pmReset"}
               PROVE  merge.by = p
    OBVIOUS
  <2> USE DEF At
  <2>1. /\ ProcStep(p)
        /\ p \notin {q \in Proc : AbortOrphan(q) \/ PmReset(q)}
    BY Alone DEF AbortOrphan, PmReset
  <2>2. CASE OpenTheMerge(p) \/ BlindAbort(p) \/ RbReset(p) \/ RbRevert(p) \/ Replay(p)
    <3>1. pc[p] \in {"open", "blindAbort", "rbReset", "rbRevert", "replay"}
      BY <2>2 DEF OpenTheMerge, BlindAbort, RbReset, RbRevert, Replay
    <3>2. holder = p
      BY <3>1 DEF MInv, LockInv, Held, Adrift
    <3> QED
      BY <3>1, <3>2 DEF MInv, Knows, ArrivalInv
  <2>3. CASE Conclude(p) \/ Abort(p) \/ Drop(p)
    <3>1. pc[p] \in {"commit", "abort", "drop"}
      BY <2>3 DEF Conclude, Abort, Drop
    <3>2. holder = p
      BY <3>1 DEF MInv, LockInv, Held, Adrift
    <3> QED
      BY <3>1, <3>2 DEF MInv, Knows, TestedInv, OpenInv, Mine
  <2> QED
    BY <2>1, <2>2, <2>3, Moves
<1> QED
  BY <1>1, Invariant, PTL DEF Spec, OwnMergesOnly

\* A merge that assertMergeIntact recorded as somebody else's is closed by people alone: the
\* marker, bound to its MERGE_HEAD, holds off recoverOrphanMerge.
THEOREM ChainKeepsNoticed ==
  ASSUME Shielded
  PROVE  Spec => NoticedKept
<1>1. MInv /\ [Next]_vars =>
        [\A p \in Proc : (Acting(p) /\ noticed) => merge' = merge]_vars
  <2> SUFFICES ASSUME MInv, [Next]_vars, NEW p \in Proc, Acting(p), noticed
               PROVE  merge' = merge
    OBVIOUS
  <2>1. ProcStep(p)
    BY Alone
  <2>2. CASE holder = p
    <3>1. pc[p] \in {"out", "enter", "recover", "leave"}
      BY <2>2 DEF MInv, LockInv, NoticedHolds
    <3> QED
      BY <2>1, <3>1, StepStill DEF repo
  <2>3. CASE holder # p
    BY <2>1, <2>3, Frames DEF MInv, LockInv, Shared, repo
  <2> QED
    BY <2>2, <2>3
<1> QED
  BY <1>1, Invariant, PTL DEF Spec, NoticedKept

\* While a human has reserved the repository (striart main), nothing of Striart moves it:
\* assertNoLiveMainSession under the lock, for who comes, and the check of the lock, for who
\* wakes up late.
THEOREM ChainRespectsSession ==
  ASSUME Shielded
  PROVE  Spec => SessionRespected
<1>1. MInv /\ [Next]_vars =>
        [\A p \in Proc : (Acting(p) /\ session) => UNCHANGED repo]_vars
  <2> SUFFICES ASSUME MInv, [Next]_vars, NEW p \in Proc, Acting(p), session
               PROVE  UNCHANGED repo
    OBVIOUS
  <2>1. ProcStep(p)
    BY Alone
  <2>2. CASE holder = p
    <3>1. pc[p] \in {"out", "enter", "leave"}
      BY <2>2 DEF MInv, LockInv, SessionHolds
    <3> QED
      BY <2>1, <3>1, StepStill
  <2>3. CASE holder # p
    BY <2>1, <2>3, Frames DEF MInv, LockInv, Shared
  <2> QED
    BY <2>2, <2>3
<1> QED
  BY <1>1, Invariant, PTL DEF Spec, SessionRespected

\* No commit of a human is undone: rollbackLastMerge resets one merge commit of Striart, and
\* promoteStaging only what it read when it began.
THEOREM ChainKeepsHumanCommits ==
  ASSUME Shielded
  PROVE  Spec => HumanCommitsStay
<1>1. MInv /\ [Next]_vars =>
        [\A n \in 1..Len(target) :
           target[n].by = Human =>
             \/ n <= Len(target') /\ target'[n] = target[n]
             \/ \E p \in Proc : Acting(p) /\ job[p].kind = "promote" /\ target = job[p].head]_vars
  BY CommitsKept
<1> QED
  BY <1>1, Invariant, PTL DEF Spec, HumanCommitsStay

\* Three resolutions that failed in a row, and nothing else, set the manual mode: a refused budget
\* is not counted (isBudgetRefusal).
THEOREM ChainCountsFailures ==
  ASSUME Shielded
  PROVE  Spec => ManualOnFailures
<1>1. MInv /\ [Next]_vars =>
        [~manual /\ manual' => failures >= MaxSemanticFailures]_vars
  <2> SUFFICES ASSUME MInv, [Next]_vars, ~manual, manual'
               PROVE  failures >= MaxSemanticFailures
    OBVIOUS
  <2>1. PICK p \in Proc : Count(p)
    BY ManualSet
  <2>2. pc[p] = "count"
    BY <2>1 DEF Count, At
  <2>3. holder = p
    BY <2>2 DEF MInv, LockInv, Held, Adrift
  <2>4. /\ job[p].reason \in Semantic /\ streak < MaxSemanticFailures
        /\ Uncounted(p) => failures = MaxSemanticFailures \/ streak < failures
        /\ streak \in Nat /\ failures \in Nat /\ MaxSemanticFailures \in Nat
    BY <2>2, <2>3, MergeChainAssumption DEF MInv, Own, GoalInv, StreakInv, Knows, CountInv, TypeOK
  <2>5. ~job[p].spared /\ streak + 1 >= MaxSemanticFailures
    <3>1. streak' >= MaxSemanticFailures
      BY <2>1, Zenon DEF Count
    <3>2. streak' = IF job[p].spared THEN streak ELSE streak + 1
      BY <2>1 DEF Count
    <3> QED
      BY <2>4, <3>1, <3>2
  <2>6. Uncounted(p)
    BY <2>2, <2>4, <2>5 DEF Uncounted, Semantic
  <2> QED
    BY <2>4, <2>5, <2>6
<1> QED
  BY <1>1, Invariant, PTL DEF Spec, ManualOnFailures

-----------------------------------------------------------------------------
(* What an operation answers. *)

\* A commit that git made is not reported as refused, and a rollback that reset the
\* branch gets to the registry.
Told == "commit" \notin FailAt /\ "rbSync" \notin FailAt \cup CrashAt

\* What the registry says is merged is in the branch, or was taken away: by a promotion,
\* or by a rollback that is about to say so.
RegistryInv ==
  \A a \in Agent :
    lastMerged[a] > Landed(a) => \/ a \in forgotten
                                 \/ \E p \in Proc : pc[p] = "rbSync" /\ job[p].agent = a

\* Who leaves without the lock says so.
LeaveInv == \A p \in Proc : pc[p] = "leave" => holder = p \/ job[p].result = "lost"

\* Where the work of an operation is not committed yet.
Merging == {"open", "blindAbort", "classify", "llm", "check", "write", "stamp", "gate", "commit",
            "abort", "count", "ticket", "apply", "drop"}

\* Not committed, unless the operation found it in the branch and only closes the ticket.
PendingInv(p) ==
  pc[p] \in Merging =>
    /\ ~CommittedBy(p) \/ (pc[p] = "drop" /\ job[p].goal = "close" /\ merge = None)
    /\ job[p].kind = "resolve" => \E t \in tickets : t.work = MyWork(p)

\* Committed, and then recorded.
DoneInv(p) ==
  /\ pc[p] \in {"commit", "record", "meta"} => job[p].goal # "close"
  /\ pc[p] \in {"record", "meta"} => job[p].sha <= Landed(job[p].agent)
  /\ pc[p] = "close" /\ job[p].goal # "close" =>
       job[p].sha <= Landed(job[p].agent) /\ lastMerged[job[p].agent] = job[p].sha

\* The answer.
Truth(p) ==
  /\ job[p].result \in {"merged", "upToDate"} =>
       job[p].sha <= Landed(job[p].agent) \/ job[p].agent \in forgotten
  /\ job[p].result = "merged" => lastMerged[job[p].agent] = job[p].sha
  /\ job[p].result \in {"refused", "changed", "failed"} /\ job[p].sha > 0 => ~CommittedBy(p)
  /\ job[p].result = "refused" /\ job[p].sha > 0 => \E t \in tickets : t.work = MyWork(p)
  /\ job[p].kind = "resolve" /\ job[p].result \in {"merged", "clean"} =>
       \A t \in tickets : t.work # MyWork(p)

AnsweredInv(p) == pc[p] = "leave" /\ job[p].kind \in {"merge", "resolve"} => Truth(p)

\* A rollback takes the last merge from the agent it names.
TipInv(p) ==
  pc[p] \in {"rbSettle", "rbAssert", "rbReset"} => target[Len(target)].work[1] = job[p].agent

Tells(p) == PendingInv(p) /\ DoneInv(p) /\ AnsweredInv(p) /\ TipInv(p)

AInv ==
  /\ MInv /\ RegistryInv /\ LeaveInv
  /\ \A p \in Proc : holder = p => Tells(p)

-----------------------------------------------------------------------------
(* The branch only grows but for what undoes a merge. *)

LEMMA LandedGrows ==
  ASSUME NEW s \in Seq(Commit), NEW c \in Commit, NEW a
  PROVE  /\ LandedIn(s, a) <= LandedIn(Append(s, c), a)
         /\ c.kind = "merge" /\ c.work[1] = a => c.work[2] <= LandedIn(Append(s, c), a)
<1>1. /\ Append(s, c) \in Seq(Commit) /\ Len(s) \in Nat /\ Len(Append(s, c)) = Len(s) + 1
      /\ \A i \in 1..Len(s) : Append(s, c)[i] = s[i]
      /\ Append(s, c)[Len(s) + 1] = c
  OBVIOUS
<1>2. /\ LandedIn(s, a) \in Nat /\ LandedIn(Append(s, c), a) \in Nat
      /\ LandedIn(s, a) = 0 \/ \E i : Merges(s, a, i) /\ s[i].work[2] = LandedIn(s, a)
      /\ \A i : Merges(Append(s, c), a, i) => Append(s, c)[i].work[2] <= LandedIn(Append(s, c), a)
  <2>1. /\ LandedIn(s, a) \in 0..MaxWork
        /\ LandedIn(s, a) = 0 \/ \E i : Merges(s, a, i) /\ s[i].work[2] = LandedIn(s, a)
    BY LandedMax
  <2> DEFINE u == Append(s, c)
  <2>2. u \in Seq(Commit)
    BY <1>1
  <2> HIDE DEF u
  <2>3. LandedIn(u, a) \in 0..MaxWork /\ \A i : Merges(u, a, i) => u[i].work[2] <= LandedIn(u, a)
    BY <2>2, LandedMax
  <2>4. LandedIn(s, a) \in Nat /\ LandedIn(u, a) \in Nat
    BY <2>1, <2>3, MergeChainAssumption
  <2> QED
    BY <2>1, <2>3, <2>4, Zenon DEF u
<1>3. \A i : Merges(s, a, i) => Merges(Append(s, c), a, i) /\ Append(s, c)[i] = s[i]
  BY <1>1 DEF Merges
<1>4. c.kind = "merge" /\ c.work[1] = a => Merges(Append(s, c), a, Len(s) + 1)
  BY <1>1 DEF Merges
<1>5. LandedIn(s, a) <= LandedIn(Append(s, c), a)
  <2>1. CASE LandedIn(s, a) = 0
    BY <1>2, <2>1
  <2>2. ASSUME NEW i, Merges(s, a, i), s[i].work[2] = LandedIn(s, a)
        PROVE  LandedIn(s, a) <= LandedIn(Append(s, c), a)
    <3>1. Append(s, c)[i].work[2] <= LandedIn(Append(s, c), a)
      BY <1>2, <1>3, <2>2
    <3> QED
      BY <1>3, <2>2, <3>1
  <2> QED
    BY <1>2, <2>1, <2>2
<1>6. ASSUME c.kind = "merge", c.work[1] = a PROVE c.work[2] <= LandedIn(Append(s, c), a)
  <2>1. Append(s, c)[Len(s) + 1].work[2] <= LandedIn(Append(s, c), a)
    BY <1>2, <1>4, <1>6
  <2> QED
    BY <1>1, <2>1
<1> QED
  BY <1>5, <1>6

\* A rollback takes the last commit of the branch from one agent.
LEMMA LandedFront ==
  ASSUME NEW s \in Seq(Commit), s # <<>>, NEW a, s[Len(s)].work[1] # a
  PROVE  LandedIn(s, a) <= LandedIn(Front(s), a)
<1>1. /\ Front(s) \in Seq(Commit) /\ Len(Front(s)) = Len(s) - 1 /\ Len(s) \in Nat
      /\ \A i \in 1..(Len(s) - 1) : Front(s)[i] = s[i]
  BY FrontType
<1>2. /\ LandedIn(s, a) \in Nat /\ LandedIn(Front(s), a) \in Nat
      /\ LandedIn(s, a) = 0 \/ \E i : Merges(s, a, i) /\ s[i].work[2] = LandedIn(s, a)
      /\ \A i : Merges(Front(s), a, i) => Front(s)[i].work[2] <= LandedIn(Front(s), a)
  BY <1>1, LandedMax, MergeChainAssumption
<1>3. \A i : Merges(s, a, i) => Merges(Front(s), a, i) /\ Front(s)[i] = s[i]
  BY <1>1 DEF Merges
<1>4. CASE LandedIn(s, a) = 0
  BY <1>2, <1>4
<1>5. ASSUME NEW i, Merges(s, a, i), s[i].work[2] = LandedIn(s, a)
      PROVE  LandedIn(s, a) <= LandedIn(Front(s), a)
  <2>1. Front(s)[i].work[2] <= LandedIn(Front(s), a)
    BY <1>2, <1>3, <1>5
  <2> QED
    BY <1>3, <1>5, <2>1
<1> QED
  BY <1>2, <1>4, <1>5

\* A commit that has not landed is not in the branch.
LEMMA NotLanded ==
  ASSUME TypeOK, NEW p \in Proc, NEW a, NEW n \in Nat, n > Landed(a)
  PROVE  [by |-> p, kind |-> "merge", work |-> <<a, n>>] \notin Commits
<1> DEFINE c == [by |-> p, kind |-> "merge", work |-> <<a, n>>]
<1>1. SUFFICES ASSUME NEW i \in 1..Len(target), target[i] = c PROVE FALSE
  BY DEF Commits
<1>2. target \in Seq(Commit)
  BY DEF TypeOK
<1>3. Merges(target, a, i) /\ target[i].work[2] = n
  BY <1>1 DEF Merges
<1>4. n <= LandedIn(target, a) /\ LandedIn(target, a) \in Nat
  BY <1>2, <1>3, LandedMax, MergeChainAssumption
<1> QED
  BY <1>4, LandedHere

-----------------------------------------------------------------------------
(* Who writes what an answer is about. *)

LEMMA Writers ==
  ASSUME NEW p \in Proc, ProcStep(p)
  PROVE  /\ UNCHANGED holder \/ Leave(p)
              \/ \E kind \in Kinds, a \in Agent \cup {NoOne} : Acquire(p, kind, a)
         /\ UNCHANGED lastMerged \/ Fetch(p) \/ Meta(p) \/ RbSync(p)
         /\ UNCHANGED forgotten \/ PmReset(p)
         /\ UNCHANGED tickets \/ Record(p) \/ FileTicket(p) \/ CloseTickets(p) \/ PmTicket(p)
<1> USE DEF repo, branches, books
<1>1. CASE Enter(p) \/ Recover(p) \/ AbortOrphan(p) \/ Ready(p) \/ Leave(p)
  BY <1>1 DEF Enter, Recover, AbortOrphan, Ready, Leave
<1>2. CASE MergeStep(p)
  BY <1>2 DEF MergeStep, Fetch, OpenTheMerge, BlindAbort, Classify, Llm, Check, Write,
     Stamp, GateGreen, GateRed, Conclude, Record, Meta, Abort, Count, FileTicket
<1>3. CASE ResolveStep(p)
  BY <1>3 DEF ResolveStep, Replay, Apply, Drop, CloseTickets
<1>4. CASE RollbackStep(p)
  BY <1>4 DEF RollbackStep, RbRead, RbSettle, RbAssert, RbReset, RbRevert, RbSync
<1>5. CASE PromoteStep(p)
  BY <1>5 DEF PromoteStep, PmRead, PmGate, PmCheck, PmSwap, PmReset, PmTicket
<1>6. CASE Crash(p) \/ Freeze(p) \/ Thaw(p)
  BY <1>6 DEF Crash, Freeze, Thaw
<1>7. CASE \E kind \in Kinds, a \in Agent \cup {NoOne} : Acquire(p, kind, a)
  BY <1>7 DEF Acquire
<1> QED
  BY <1>1, <1>2, <1>3, <1>4, <1>5, <1>6, <1>7 DEF ProcStep, OperationStep

\* A process that lost the lock says so before it leaves.
LEMMA LostSaid ==
  ASSUME MInv, NEW p \in Proc, ProcStep(p), holder # p, pc'[p] = "leave"
  PROVE  \/ job'[p].result = "lost"
         \/ pc[p] = "leave" /\ job'[p] = job[p] /\ UNCHANGED holder
<1>0. TypeOK /\ pc \in [Proc -> PCs] /\ pc[p] \in Adrift
  BY DEF MInv, TypeOK, LockInv, Held
<1>1. CASE \E kind \in Kinds, a \in Agent \cup {NoOne} : Acquire(p, kind, a)
  BY <1>0, <1>1 DEF Acquire, Goto
<1>2. CASE Leave(p)
  BY <1>0, <1>2 DEF Leave, Goto
<1>3. CASE Check(p) \/ PmCheck(p)
  <2>1. Finish(p, "lost")
    BY <1>3 DEF Check, PmCheck
  <2>2. "lost" \in Results
    BY DEF Results
  <2> QED
    BY <1>0, <2>1, <2>2, FinishJob
<1>4. CASE Llm(p) \/ GateGreen(p) \/ PmGate(p)
  BY <1>0, <1>4 DEF Llm, GateGreen, PmGate, Refuse, Goto
<1>5. CASE GateRed(p)
  <2>1. pc'[p] \in {"llm", "check"}
    BY <1>0, <1>5, RedDoes
  <2> QED
    BY <2>1
<1>6. CASE Crash(p) \/ Freeze(p) \/ Thaw(p)
  BY <1>0, <1>6 DEF Crash, Freeze, Thaw, Goto
<1>7. CASE Enter(p) \/ Recover(p) \/ AbortOrphan(p) \/ Ready(p)
  BY <1>0, <1>7 DEF Enter, Recover, AbortOrphan, Ready, At, Adrift
<1>8. CASE MergeStep(p)
  BY <1>0, <1>3, <1>4, <1>5, <1>8 DEF MergeStep, Fetch, OpenTheMerge, BlindAbort, Classify, Write,
     Stamp, Conclude, Record, Meta, Abort, Count, FileTicket, At, Adrift
<1>9. CASE ResolveStep(p)
  BY <1>0, <1>9 DEF ResolveStep, Replay, Apply, Drop, CloseTickets, At, Adrift
<1>10. CASE RollbackStep(p)
  BY <1>0, <1>10 DEF RollbackStep, RbRead, RbSettle, RbAssert, RbReset, RbRevert, RbSync, At, Adrift
<1>11. CASE PromoteStep(p)
  BY <1>0, <1>3, <1>4, <1>11 DEF PromoteStep, PmRead, PmSwap, PmReset, PmTicket, At, Adrift
<1> QED
  BY <1>1, <1>2, <1>6, <1>7, <1>8, <1>9, <1>10, <1>11 DEF ProcStep, OperationStep

LEMMA LeaveStep ==
  ASSUME MInv, LeaveInv, NEW p \in Proc, ProcStep(p)
  PROVE  LeaveInv'
<1>0. /\ TypeOK /\ pc \in [Proc -> PCs] /\ NoOne \notin Proc
      /\ \A q \in Proc : q # p => pc'[q] = pc[q] /\ job'[q] = job[q]
      /\ UNCHANGED holder \/ Leave(p)
           \/ \E kind \in Kinds, a \in Agent \cup {NoOne} : Acquire(p, kind, a)
  BY Frames, Writers, MergeChainAssumption DEF MInv, TypeOK, LockInv
<1>1. ASSUME NEW q \in Proc, q # p, pc'[q] = "leave"
      PROVE  holder' = q \/ job'[q].result = "lost"
  <2>1. CASE holder # q
    BY <1>0, <1>1, <2>1 DEF LeaveInv
  <2>2. CASE holder = q
    <3>1. status[q] = "up"
      <4>1. status[q] \in {"up", "frozen", "dead"} /\ pc[q] = "leave"
        BY <1>0, <1>1 DEF TypeOK
      <4> QED
        BY <4>1 DEF MInv, LockInv, StatusInv, Long
    <3>2. ~\E kind \in Kinds, a \in Agent \cup {NoOne} : Acquire(p, kind, a)
      BY <1>0, <2>2, <3>1 DEF Acquire
    <3> QED
      BY <1>0, <1>1, <2>2, <3>2 DEF Leave
  <2> QED
    BY <2>1, <2>2
<1>2. ASSUME pc'[p] = "leave"
      PROVE  holder' = p \/ job'[p].result = "lost"
  <2>1. CASE holder = p
    <3>1. ~Leave(p) /\ ~\E kind \in Kinds, a \in Agent \cup {NoOne} : Acquire(p, kind, a)
      BY <1>0, <1>2 DEF Leave, Acquire, Goto
    <3> QED
      BY <1>0, <2>1, <3>1
  <2>2. CASE holder # p
    BY <1>2, <2>2, LostSaid DEF LeaveInv
  <2> QED
    BY <2>1, <2>2
<1> QED
  BY <1>1, <1>2 DEF LeaveInv

-----------------------------------------------------------------------------
(* The registry and the branch. *)

LEMMA RegistryStep ==
  ASSUME AInv, Told, FreezeAt \subseteq Long, NEW p \in Proc, ProcStep(p)
  PROVE  RegistryInv'
<1>0. /\ MInv /\ TypeOK /\ RegistryInv /\ pc \in [Proc -> PCs] /\ job \in [Proc -> Job]
      /\ target \in Seq(Commit) /\ main \in Seq(Commit) /\ lastMerged \in [Agent -> 0..MaxWork]
      /\ \A q \in Proc : q # p => pc'[q] = pc[q] /\ job'[q] = job[q]
      /\ pc[p] \notin Adrift => holder = p
      /\ TypeOK'
  BY Frames, StepTypes DEF AInv, MInv, TypeOK, LockInv, Held
<1>1. ASSUME NEW a \in Agent
      PROVE  /\ Landed(a) \in Nat /\ Landed(a)' \in Nat /\ lastMerged[a] \in Nat /\ lastMerged'[a] \in Nat
             /\ Landed(a) = LandedIn(target, a) /\ Landed(a)' = LandedIn(target', a)
  <2>1. /\ target' \in Seq(Commit) /\ lastMerged' \in [Agent -> 0..MaxWork]
    BY <1>0 DEF TypeOK
  <2>2. LandedIn(target, a) \in Nat /\ LandedIn(target', a) \in Nat
    BY <1>0, <2>1, LandedMax, MergeChainAssumption
  <2>3. Landed(a) = LandedIn(target, a) /\ Landed(a)' = LandedIn(target', a)
    BY LandedHere
  <2> QED
    BY <1>0, <2>1, <2>2, <2>3, MergeChainAssumption
\* Somebody else's rollback is where it was; that of p is about to write.
<1>2. ASSUME NEW a \in Agent, NEW q \in Proc, pc[q] = "rbSync", job[q].agent = a, pc[p] # "rbSync"
      PROVE  \E r \in Proc : pc'[r] = "rbSync" /\ job'[r].agent = a
  <2>1. q # p
    BY <1>2
  <2> QED
    BY <1>0, <1>2, <2>1
<1>3. CASE pc[p] = "rbSync"
  <2>0. holder = p
    BY <1>0, <1>3 DEF Adrift
  <2>1. \A q \in Proc : pc[q] = "rbSync" => q = p
    BY <2>0 DEF MInv, AInv, LockInv, Held, Adrift
  <2>2. CASE RbSync(p)
    <3>1. UNCHANGED <<target, forgotten>>
      BY <2>2 DEF RbSync, repo, branches
    <3>2. lastMerged' = [lastMerged EXCEPT ![job[p].agent] = Landed(job[p].agent)]
      BY <2>2 DEF RbSync, Told, Fails
    <3>3. ASSUME NEW a \in Agent, lastMerged'[a] > Landed(a)'
          PROVE  a \in forgotten'
      <4>1. Landed(a)' = Landed(a)
        BY <1>1, <3>1
      <4>2. a # job[p].agent
        BY <1>0, <1>1, <3>2, <3>3, <4>1
      <4>3. lastMerged'[a] = lastMerged[a]
        BY <1>0, <3>2, <4>2
      <4> QED
        BY <1>0, <2>1, <3>1, <3>3, <4>1, <4>2, <4>3 DEF RegistryInv
    <3> QED
      BY <3>3 DEF RegistryInv
  <2>3. RbSync(p)
    <3>1. CASE Enter(p) \/ Recover(p) \/ AbortOrphan(p) \/ Ready(p) \/ Leave(p)
      BY <1>3, <3>1 DEF Enter, Recover, AbortOrphan, Ready, Leave, At
    <3>2. CASE MergeStep(p)
      BY <1>3, <3>2 DEF MergeStep, Fetch, OpenTheMerge, BlindAbort, Classify, Llm, Check, Write,
         Stamp, GateGreen, GateRed, Conclude, Record, Meta, Abort, Count, FileTicket, At
    <3>3. CASE ResolveStep(p)
      BY <1>3, <3>3 DEF ResolveStep, Replay, Apply, Drop, CloseTickets, At
    <3>4. CASE RollbackStep(p)
      BY <1>3, <3>4 DEF RollbackStep, RbRead, RbSettle, RbAssert, RbReset, RbRevert, At
    <3>5. CASE PromoteStep(p)
      BY <1>3, <3>5 DEF PromoteStep, PmRead, PmGate, PmCheck, PmSwap, PmReset, PmTicket, At
    <3>6. CASE Crash(p) \/ Freeze(p) \/ Thaw(p)
      <4>1. ~Crash(p) /\ ~Freeze(p)
        BY <1>3 DEF Crash, Freeze, Told, Long
      <4>2. status[p] # "frozen"
        BY <1>0, <1>3 DEF MInv, LockInv, StatusInv, Long
      <4> QED
        BY <3>6, <4>1, <4>2 DEF Thaw
    <3>7. CASE \E kind \in Kinds, a \in Agent \cup {NoOne} : Acquire(p, kind, a)
      BY <1>3, <3>7 DEF Acquire, At
    <3> QED
      BY <3>1, <3>2, <3>3, <3>4, <3>5, <3>6, <3>7 DEF ProcStep, OperationStep
  <2> QED
    BY <2>2, <2>3
<1>4. CASE pc[p] # "rbSync" /\ UNCHANGED <<target, lastMerged, forgotten>>
  <2>1. ASSUME NEW a \in Agent, lastMerged'[a] > Landed(a)'
        PROVE  a \in forgotten' \/ \E r \in Proc : pc'[r] = "rbSync" /\ job'[r].agent = a
    <3>1. lastMerged[a] > Landed(a)
      BY <1>1, <1>4, <2>1
    <3> QED
      BY <1>0, <1>2, <1>4, <3>1 DEF RegistryInv
  <2> QED
    BY <2>1 DEF RegistryInv
\* What is written in the registry is in the branch.
<1>5. CASE Fetch(p) \/ Meta(p)
  <2>1. UNCHANGED <<target, forgotten>> /\ pc[p] # "rbSync" /\ holder = p
    BY <1>0, <1>5 DEF Fetch, Meta, repo, branches, At, Adrift
  <2>2. PICK b \in Agent, n \in 0..MaxWork :
          n <= Landed(b) /\ (UNCHANGED lastMerged \/ lastMerged' = [lastMerged EXCEPT ![b] = n])
    <3>0. job[p].agent \in Agent /\ job[p].sha \in 0..MaxWork
      BY <1>0, <1>5 DEF MInv, Own, KindInv, OpenMergePcs, Fetch, Meta, At, Job
    <3>1. CASE Fetch(p)
      <4>1. \/ UNCHANGED lastMerged
            \/ /\ head[job[p].agent] <= Landed(job[p].agent)
               /\ lastMerged' = [lastMerged EXCEPT ![job[p].agent] = head[job[p].agent]]
        BY <3>1, Zenon DEF Fetch
      <4>2. head[job[p].agent] \in 0..MaxWork
        BY <1>0, <3>0 DEF TypeOK
      <4>3. 0 \in 0..MaxWork /\ 0 <= Landed(job[p].agent)
        BY <1>1, <3>0, MergeChainAssumption
      <4> QED
        BY <3>0, <4>1, <4>2, <4>3
    <3>2. CASE Meta(p)
      <4>1. job[p].sha <= Landed(job[p].agent)
        BY <2>1, <3>2 DEF Meta, At, AInv, Tells, DoneInv
      <4> QED
        BY <3>0, <3>2, <4>1 DEF Meta
    <3> QED
      BY <1>5, <3>1, <3>2
  <2>3. ASSUME NEW a \in Agent, lastMerged'[a] > Landed(a)'
        PROVE  a \in forgotten' \/ \E r \in Proc : pc'[r] = "rbSync" /\ job'[r].agent = a
    <3>1. Landed(a)' = Landed(a)
      BY <1>1, <2>1
    <3>2. lastMerged[a] > Landed(a)
      <4>1. CASE UNCHANGED lastMerged
        BY <2>3, <3>1, <4>1
      <4>2. CASE lastMerged' = [lastMerged EXCEPT ![b] = n]
        <5>1. a # b
          BY <1>0, <1>1, <2>2, <2>3, <3>1, <4>2
        <5> QED
          BY <1>0, <2>3, <3>1, <4>2, <5>1
      <4> QED
        BY <2>2, <4>1, <4>2
    <3> QED
      BY <1>0, <1>2, <2>1, <3>2 DEF RegistryInv
  <2> QED
    BY <2>3 DEF RegistryInv
\* The branch gets a commit.
<1>6. CASE Conclude(p) \/ RbRevert(p)
  <2>1. UNCHANGED <<lastMerged, forgotten>> /\ pc[p] # "rbSync"
    BY <1>6 DEF Conclude, RbRevert, books, branches, At
  <2>2. \A a \in Agent : Landed(a) <= Landed(a)'
    <3>1. CASE UNCHANGED target
      BY <1>1, <3>1
    <3>2. ASSUME NEW c, target' = Append(target, c) PROVE \A a \in Agent : Landed(a) <= Landed(a)'
      <4>1. target' \in Seq(Commit) /\ Len(target') = Len(target) + 1 /\ target'[Len(target) + 1] = c
        BY <1>0, <3>2 DEF TypeOK
      <4>2. c \in Commit
        BY <1>0, <4>1
      <4> QED
        BY <1>0, <1>1, <3>2, <4>2, LandedGrows
    <3> QED
      BY <1>6, <3>1, <3>2 DEF Conclude, RbRevert
  <2>3. ASSUME NEW a \in Agent, lastMerged'[a] > Landed(a)'
        PROVE  a \in forgotten' \/ \E r \in Proc : pc'[r] = "rbSync" /\ job'[r].agent = a
    <3>1. lastMerged[a] > Landed(a)
      BY <1>1, <2>1, <2>2, <2>3
    <3> QED
      BY <1>0, <1>2, <2>1, <3>1 DEF RegistryInv
  <2> QED
    BY <2>3 DEF RegistryInv
\* The branch loses the commit of one agent, which is said next.
<1>7. CASE RbReset(p)
  <2>1. UNCHANGED <<lastMerged, forgotten, job>> /\ pc[p] = "rbReset" /\ pc'[p] = "rbSync"
    BY <1>0, <1>7 DEF RbReset, books, branches, At, Goto
  <2>2. holder = p
    BY <1>0, <2>1 DEF Adrift
  <2>3. target # <<>> /\ target[Len(target)].work[1] = job[p].agent /\ target' = Front(target)
    BY <1>7, <2>1, <2>2 DEF AInv, MInv, Knows, RollbackInv, Tells, TipInv, RbReset
  <2>4. ASSUME NEW a \in Agent, lastMerged'[a] > Landed(a)', a # job[p].agent
        PROVE  a \in forgotten' \/ \E r \in Proc : pc'[r] = "rbSync" /\ job'[r].agent = a
    <3>1. Landed(a) <= Landed(a)'
      BY <1>0, <1>1, <2>3, <2>4, LandedFront
    <3>2. lastMerged[a] > Landed(a)
      BY <1>1, <2>1, <2>4, <3>1
    <3> QED
      BY <1>0, <1>2, <2>1, <3>2 DEF RegistryInv
  <2> QED
    BY <2>1, <2>4 DEF RegistryInv
<1>8. CASE PmReset(p)
  <2>1. /\ UNCHANGED lastMerged /\ pc[p] # "rbSync"
        /\ forgotten' = forgotten \cup {a \in Agent : Landed(a)' < Landed(a)}
    BY <1>8 DEF PmReset, books, At
  <2>2. ASSUME NEW a \in Agent, lastMerged'[a] > Landed(a)'
        PROVE  a \in forgotten' \/ \E r \in Proc : pc'[r] = "rbSync" /\ job'[r].agent = a
    <3>1. CASE Landed(a)' < Landed(a)
      BY <2>1, <3>1
    <3>2. CASE ~(Landed(a)' < Landed(a))
      <4>1. lastMerged[a] > Landed(a)
        BY <1>1, <2>1, <2>2, <3>2
      <4> QED
        BY <1>0, <1>2, <2>1, <4>1 DEF RegistryInv
    <3> QED
      BY <3>1, <3>2
  <2> QED
    BY <2>2 DEF RegistryInv
<1> QED
  BY <1>0, <1>3, <1>4, <1>5, <1>6, <1>7, <1>8, Moves, Writers DEF RbSync, At

-----------------------------------------------------------------------------
(* What the holder of the lock will answer. *)

\* An operation that goes on with its merge.
LEMMA Onward ==
  ASSUME NEW p \in Proc, Tells(p), KeepsName(p), UNCHANGED <<target, tickets>>,
         pc[p] \in Merging \ {"drop"}, pc'[p] \in Merging \ {"commit"}
  PROVE  Tells(p)'
<1>1. /\ ~CommittedBy(p)
      /\ job[p].kind = "resolve" => \E t \in tickets : t.work = MyWork(p)
  BY DEF Tells, PendingInv
<1>2. CommittedBy(p)' <=> CommittedBy(p)
  BY DEF CommittedBy, Commits, MyWork, KeepsName
<1>3. PendingInv(p)'
  BY <1>1, <1>2 DEF PendingInv, MyWork, KeepsName
<1>4. DoneInv(p)' /\ AnsweredInv(p)' /\ TipInv(p)'
  BY DEF DoneInv, AnsweredInv, TipInv, Merging
<1> QED
  BY <1>3, <1>4 DEF Tells

\* An operation that ends without having merged anything.
LEMMA Ending ==
  ASSUME TypeOK, NEW p \in Proc, NEW r \in Results, Finish(p, r),
         UNCHANGED <<target, tickets>>,
         job[p].kind \in {"merge", "resolve"} =>
           /\ r \notin {"merged", "upToDate", "clean"}
           /\ r \in {"refused", "changed", "failed"} /\ job[p].sha > 0 => ~CommittedBy(p)
           /\ r = "refused" /\ job[p].sha > 0 => \E t \in tickets : t.work = MyWork(p)
  PROVE  Tells(p)'
<1>1. /\ pc'[p] = "leave" /\ KeepsName(p) /\ job'[p].result = r
  BY FinishJob DEF TypeOK, KeepsName
<1>2. CommittedBy(p)' <=> CommittedBy(p)
  BY <1>1 DEF CommittedBy, Commits, MyWork, KeepsName
<1>3. AnsweredInv(p)'
  BY <1>1, <1>2 DEF AnsweredInv, Truth, MyWork, KeepsName
<1>4. PendingInv(p)' /\ DoneInv(p)' /\ TipInv(p)'
  BY <1>1 DEF PendingInv, DoneInv, TipInv, Merging
<1> QED
  BY <1>3, <1>4 DEF Tells

\* Where nothing is claimed yet.
Silent == PCs \ (Merging \cup {"record", "meta", "close", "leave", "rbSettle", "rbAssert", "rbReset"})

LEMMA Silence ==
  ASSUME NEW p \in Proc, pc'[p] \in Silent
  PROVE  Tells(p)'
  BY DEF Silent, Merging, Tells, PendingInv, DoneInv, AnsweredInv, TipInv

LEMMA LandedOf ==
  ASSUME NEW p \in Proc
  PROVE  (Landed(job[p].agent))' = LandedIn(target', job'[p].agent)
  BY DEF Landed, LandedIn, Commits

\* What the others leave alone stays true.
LEMMA Unmoved ==
  ASSUME NEW p \in Proc, Tells(p), pc'[p] = pc[p], job'[p] = job[p],
         UNCHANGED <<target, merge, lastMerged, tickets, forgotten>>
  PROVE  Tells(p)'
<1>1. CommittedBy(p)' <=> CommittedBy(p)
  BY DEF CommittedBy, Commits, MyWork
<1>2. (Landed(job[p].agent))' = Landed(job[p].agent)
  BY LandedHere, LandedOf
<1>3. PendingInv(p)' /\ DoneInv(p)' /\ TipInv(p)'
  BY <1>1, <1>2 DEF Tells, PendingInv, DoneInv, TipInv, MyWork
<1>4. AnsweredInv(p)'
  BY <1>1, <1>2 DEF Tells, AnsweredInv, Truth, MyWork
<1> QED
  BY <1>3, <1>4 DEF Tells

\* The look at what is to be merged.
LEMMA FetchTells ==
  ASSUME AInv, NEW p \in Proc, holder = p, Fetch(p)
  PROVE  Tells(p)'
<1>0. /\ TypeOK /\ KindInv(p) /\ pc[p] = "fetch" /\ job[p].kind = "merge"
      /\ job[p].agent \in Agent /\ lastMerged \in [Agent -> 0..MaxWork]
      /\ UNCHANGED <<target, forgotten, tickets>>
      /\ job[p] \in Job /\ p \in DOMAIN job /\ p \in DOMAIN pc
  BY DEF AInv, MInv, Own, KindInv, Fetch, At, repo, branches, TypeOK
<1>1. /\ job'[p].kind = "merge" /\ job'[p].agent = job[p].agent
      /\ job'[p].sha = head[job[p].agent] /\ job'[p].sha \in 0..MaxWork
  BY <1>0, FetchDoes
<1>2. /\ Landed(job[p].agent) \in Nat /\ \A a : Landed(a)' = Landed(a)
      /\ MaxWork \in Nat
  <2>1. LandedIn(target, job[p].agent) \in 0..MaxWork
    BY <1>0, LandedMax DEF TypeOK
  <2>2. Landed(job[p].agent) \in 0..MaxWork
    BY <2>1, LandedHere
  <2>3. \A a : Landed(a)' = Landed(a)
    BY <1>0, LandedHere
  <2> QED
    BY <1>0, <1>1, <2>2, <2>3, MergeChainAssumption
<1>3. CASE pc'[p] = "open" /\ job'[p].sha > Landed(job[p].agent)
  <2>1. [by |-> p, kind |-> "merge", work |-> <<job[p].agent, job'[p].sha>>] \notin Commits
    BY <1>0, <1>1, <1>2, <1>3, NotLanded
  <2>2. ~CommittedBy(p)'
    BY <1>0, <1>1, <2>1 DEF CommittedBy, Commits, MyWork
  <2> QED
    BY <1>1, <1>3, <2>2 DEF Tells, PendingInv, DoneInv, AnsweredInv, TipInv, Merging
<1>4. CASE pc'[p] = "leave" /\ job'[p].result = "upToDate"
  <2>1. head[job[p].agent] <= Landed(job[p].agent) \/ job[p].agent \in forgotten
    <3>1. \/ head[job[p].agent] = lastMerged[job[p].agent]
          \/ head[job[p].agent] <= Landed(job[p].agent)
      BY <1>0, <1>4 DEF Fetch, Goto
    <3>2. \A q \in Proc : pc[q] # "rbSync"
      <4>1. \A q \in Proc : pc[q] = "rbSync" => q = p
        BY DEF AInv, MInv, LockInv, Held, Adrift
      <4> QED
        BY <1>0, <4>1
    <3>3. lastMerged[job[p].agent] <= Landed(job[p].agent) \/ job[p].agent \in forgotten
      <4>1. lastMerged[job[p].agent] \in Nat
        BY <1>0, <1>2
      <4> QED
        BY <1>0, <1>2, <3>2, <4>1 DEF AInv, RegistryInv
    <3> QED
      BY <3>1, <3>3
  <2>2. AnsweredInv(p)'
    <3>1. (Landed(job[p].agent))' = Landed(job[p].agent)
      BY <1>0, <1>1, LandedHere, LandedOf
    <3> QED
      BY <1>0, <1>1, <1>4, <2>1, <3>1 DEF AnsweredInv, Truth
  <2> QED
    BY <1>4, <2>2 DEF Tells, PendingInv, DoneInv, TipInv, Merging
<1> QED
  BY <1>0, <1>3, <1>4, FetchDoes

LEMMA ReplayTells ==
  ASSUME AInv, NEW p \in Proc, holder = p, Replay(p)
  PROVE  Tells(p)'
<1>0. /\ TypeOK /\ KindInv(p) /\ GoalInv(p) /\ pc[p] = "replay" /\ job[p].kind = "resolve"
      /\ job[p].sha = 0 /\ merge = None
      /\ UNCHANGED <<target, tickets>>
  BY DEF AInv, MInv, Own, KindInv, GoalInv, Fresh, Knows, ArrivalInv, Replay, At, repo, branches, books
<1>1. CASE Finish(p, "failed")
  BY <1>0, <1>1, Ending DEF Results
<1>2. CASE ~Finish(p, "failed")
  <2>1. /\ job'[p].kind = "resolve" /\ job'[p].agent = job[p].agent /\ job'[p].sha \in 1..MaxWork
        /\ \E t \in tickets : t.work = <<job'[p].agent, job'[p].sha>>
        /\ \/ pc'[p] = "drop" /\ job'[p].goal = "close" /\ UNCHANGED merge
           \/ pc'[p] \in {"apply", "drop"} /\ job'[p].sha > Landed(job[p].agent)
    BY <1>0, <1>2, ReplayDoes
  <2>2. job'[p].sha > Landed(job[p].agent) => ~CommittedBy(p)'
    <3>1. job'[p].sha > Landed(job[p].agent) =>
            [by |-> p, kind |-> "merge", work |-> <<job[p].agent, job'[p].sha>>] \notin Commits
      BY <1>0, <2>1, NotLanded, MergeChainAssumption
    <3> QED
      BY <1>0, <2>1, <3>1 DEF CommittedBy, Commits, MyWork
  <2>3. PendingInv(p)'
    BY <1>0, <2>1, <2>2 DEF PendingInv, MyWork, Merging
  <2> QED
    BY <2>1, <2>3 DEF Tells, DoneInv, AnsweredInv, TipInv
<1> QED
  BY <1>1, <1>2

\* git commit: the open merge is the operation's own.
LEMMA ConcludeTells ==
  ASSUME AInv, Told, NEW p \in Proc, holder = p, Conclude(p)
  PROVE  Tells(p)'
<1>0. /\ TypeOK /\ Tells(p) /\ pc[p] = "commit" /\ Mine(p) /\ UNCHANGED tickets
      /\ p \in DOMAIN pc /\ target \in Seq(Commit)
  BY DEF AInv, MInv, Knows, TestedInv, Conclude, At, books, TypeOK
<1>1. CASE \E reason \in {"none", "COMMIT_HOOK_REJECTED"} : Refuse(p, reason) /\ UNCHANGED target
  <2>1. PICK reason \in {"none", "COMMIT_HOOK_REJECTED"} : Refuse(p, reason)
    BY <1>1
  <2>2. pc'[p] = "check" /\ KeepsName(p)
    BY <1>0, <2>1, RefuseJob DEF Reasons
  <2> QED
    BY <1>0, <1>1, <2>2, Onward DEF Merging
<1>2. CASE /\ target' = Append(target, [by |-> p, kind |-> "merge", work |-> merge.work])
           /\ Goto(p, "record") /\ UNCHANGED job
  <2> DEFINE c == [by |-> p, kind |-> "merge", work |-> MyWork(p)]
  <2>1. pc'[p] = "record" /\ target' = Append(target, c)
    BY <1>0, <1>2 DEF Mine, Goto
  <2>2. c \in Commit
    <3>1. MyWork(p) \in Work
      BY <1>0, MyWorkType DEF AInv, OpenMergePcs
    <3> QED
      BY <3>1 DEF Commit
  <2>3. c.kind = "merge" /\ c.work[1] = job[p].agent /\ c.work[2] = job[p].sha
    BY DEF MyWork
  <2> HIDE DEF c
  <2>4. job[p].sha <= LandedIn(target', job[p].agent)
    BY <1>0, <2>1, <2>2, <2>3, LandedGrows
  <2>5. DoneInv(p)'
    <3>1. job'[p].sha <= (Landed(job[p].agent))'
      BY <1>2, <2>4, LandedOf
    <3>2. job'[p].goal # "close"
      BY <1>0, <1>2 DEF Tells, DoneInv
    <3> QED
      BY <2>1, <3>1, <3>2 DEF DoneInv
  <2> QED
    BY <2>1, <2>5 DEF Tells, PendingInv, AnsweredInv, TipInv, Merging
<1> QED
  BY <1>1, <1>2 DEF Conclude, Told, Fails

\* The registry, then the tickets.
LEMMA MetaTells ==
  ASSUME AInv, NEW p \in Proc, holder = p, Meta(p)
  PROVE  Tells(p)'
<1>0. /\ TypeOK /\ Tells(p) /\ pc[p] = "meta" /\ UNCHANGED <<target, tickets, forgotten>>
      /\ job[p].kind \in {"merge", "resolve"} /\ job[p].agent \in Agent
      /\ lastMerged \in [Agent -> 0..MaxWork] /\ p \in DOMAIN pc
  BY DEF AInv, MInv, Own, KindInv, OpenMergePcs, Meta, At, repo, branches, TypeOK
<1>1. /\ job[p].sha <= Landed(job[p].agent) /\ job[p].goal # "close"
      /\ lastMerged'[job[p].agent] = job[p].sha
  BY <1>0 DEF Tells, DoneInv, Meta
<1>2. CASE job[p].kind = "resolve"
  <2>1. pc'[p] = "close" /\ UNCHANGED job
    BY <1>0, <1>2 DEF Meta, Goto
  <2>2. (Landed(job[p].agent))' = Landed(job[p].agent)
    BY <1>0, <2>1, LandedHere, LandedOf
  <2>3. DoneInv(p)'
    BY <1>1, <2>1, <2>2 DEF DoneInv
  <2> QED
    BY <2>1, <2>3 DEF Tells, PendingInv, AnsweredInv, TipInv, Merging
<1>3. CASE job[p].kind # "resolve"
  <2>1. /\ pc'[p] = "leave" /\ job'[p].result = "merged" /\ job'[p].kind = job[p].kind
        /\ job'[p].agent = job[p].agent /\ job'[p].sha = job[p].sha
    BY <1>0, <1>3, FinishJob DEF Meta, Results
  <2>2. (Landed(job[p].agent))' = Landed(job[p].agent)
    BY <1>0, <2>1, LandedHere, LandedOf
  <2>3. AnsweredInv(p)'
    BY <1>1, <1>3, <2>1, <2>2 DEF AnsweredInv, Truth
  <2> QED
    BY <2>1, <2>3 DEF Tells, PendingInv, DoneInv, TipInv, Merging
<1> QED
  BY <1>2, <1>3

LEMMA CloseTells ==
  ASSUME AInv, NEW p \in Proc, holder = p, CloseTickets(p)
  PROVE  Tells(p)'
<1>0. /\ TypeOK /\ p \in DOMAIN pc /\ Tells(p) /\ pc[p] = "close"
      /\ UNCHANGED <<target, lastMerged, forgotten>>
      /\ job[p].goal # "close" =>
           job[p].sha <= Landed(job[p].agent) /\ lastMerged[job[p].agent] = job[p].sha
  BY DEF AInv, MInv, TypeOK, CloseTickets, At, repo, branches, Tells, DoneInv
<1>1. PICK r \in {"clean", "merged"} : /\ Finish(p, r)
                                       /\ r = "merged" => job[p].goal # "close"
  BY DEF CloseTickets
<1>2. /\ pc'[p] = "leave" /\ job'[p].result = r /\ job'[p].kind = job[p].kind
      /\ job'[p].agent = job[p].agent /\ job'[p].sha = job[p].sha
  <2>1. r \in Results /\ Finish(p, r)
    BY <1>1 DEF Results
  <2> QED
    BY <1>0, <2>1, FinishJob
<1>3. \A t \in tickets' : t.work # <<job[p].agent, job[p].sha>>
  BY DEF CloseTickets, MyWork
<1>4. (Landed(job[p].agent))' = Landed(job[p].agent)
  BY <1>0, <1>2, LandedHere, LandedOf
<1>5. AnsweredInv(p)'
  BY <1>0, <1>1, <1>2, <1>3, <1>4 DEF AnsweredInv, Truth, MyWork
<1> QED
  BY <1>2, <1>5 DEF Tells, PendingInv, DoneInv, TipInv, Merging

LEMMA TicketTells ==
  ASSUME AInv, NEW p \in Proc, holder = p, FileTicket(p)
  PROVE  Tells(p)'
<1>0. TypeOK /\ p \in DOMAIN pc /\ Tells(p) /\ pc[p] = "ticket" /\ UNCHANGED target
  BY DEF AInv, MInv, TypeOK, FileTicket, At, repo
<1>1. /\ pc'[p] = "leave" /\ job'[p].result = "refused" /\ job'[p].kind = job[p].kind
      /\ job'[p].agent = job[p].agent /\ job'[p].sha = job[p].sha
  <2>1. Finish(p, "refused") /\ "refused" \in Results
    BY DEF FileTicket, Results
  <2> QED
    BY <1>0, <2>1, FinishJob
<1>2. ~CommittedBy(p) /\ \E t \in tickets' : t.work = <<job[p].agent, job[p].sha>>
  <2>1. ~CommittedBy(p)
    BY <1>0 DEF Tells, PendingInv, Merging
  <2>2. \E t \in tickets' : t = [work |-> MyWork(p), subject |-> Subject(job[p].reason)]
    BY DEF FileTicket
  <2> QED
    BY <2>1, <2>2 DEF MyWork
<1>3. ~CommittedBy(p)'
  BY <1>0, <1>1, <1>2 DEF CommittedBy, Commits, MyWork
<1>4. AnsweredInv(p)'
  BY <1>1, <1>2, <1>3 DEF AnsweredInv, Truth, MyWork
<1> QED
  BY <1>1, <1>4 DEF Tells, PendingInv, DoneInv, TipInv, Merging

\* What leaves the merge behind.
LEMMA DropTells ==
  ASSUME AInv, NEW p \in Proc, holder = p, Drop(p)
  PROVE  Tells(p)'
<1>0. /\ TypeOK /\ Tells(p) /\ pc[p] = "drop" /\ UNCHANGED <<target, tickets>> /\ p \in DOMAIN pc
      /\ ~CommittedBy(p) \/ (job[p].goal = "close" /\ merge = None)
  BY DEF AInv, MInv, Drop, At, books, TypeOK, Tells, PendingInv, Merging
<1>1. \/ Finish(p, "failed") /\ ~CommittedBy(p)
      \/ pc'[p] = "close" /\ UNCHANGED job /\ job[p].goal = "close"
  BY <1>0 DEF Drop, Goto
<1>2. CASE Finish(p, "failed") /\ ~CommittedBy(p)
  BY <1>0, <1>2, Ending DEF Results
<1>3. CASE pc'[p] = "close" /\ UNCHANGED job /\ job[p].goal = "close"
  BY <1>3 DEF Tells, PendingInv, DoneInv, AnsweredInv, TipInv, Merging
<1> QED
  BY <1>1, <1>2, <1>3

LEMMA CheckTells ==
  ASSUME AInv, NEW p \in Proc, holder = p, Check(p)
  PROVE  Tells(p)'
<1>0. /\ TypeOK /\ Tells(p) /\ pc[p] = "check" /\ UNCHANGED <<target, tickets>> /\ p \in DOMAIN pc
      /\ job[p].goal \in {"write", "commit", "abort"}
  BY DEF AInv, MInv, Own, GoalInv, Check, At, repo, TypeOK
<1>1. /\ ~CommittedBy(p)
      /\ job[p].kind = "resolve" => \E t \in tickets : t.work = MyWork(p)
  BY <1>0 DEF Tells, PendingInv, Merging
<1>2. CASE Finish(p, "changed")
  BY <1>0, <1>1, <1>2, Ending DEF Results
<1>3. CASE pc'[p] = job[p].goal /\ UNCHANGED job
  <2>1. CommittedBy(p)' <=> CommittedBy(p)
    BY <1>0, <1>3 DEF CommittedBy, Commits, MyWork
  <2>2. PendingInv(p)'
    BY <1>0, <1>1, <1>3, <2>1 DEF PendingInv, MyWork
  <2> QED
    BY <1>0, <1>3, <2>2 DEF Tells, DoneInv, AnsweredInv, TipInv
<1> QED
  BY <1>0, <1>2, <1>3 DEF Check, Goto

LEMMA AbortTells ==
  ASSUME AInv, NEW p \in Proc, holder = p, Abort(p)
  PROVE  Tells(p)'
<1>0. /\ TypeOK /\ Tells(p) /\ pc[p] = "abort" /\ UNCHANGED <<target, tickets>> /\ p \in DOMAIN pc
  BY DEF AInv, MInv, Abort, At, books, TypeOK
<1>1. /\ ~CommittedBy(p)
      /\ job[p].kind = "resolve" => \E t \in tickets : t.work = MyWork(p)
  BY <1>0 DEF Tells, PendingInv, Merging
<1>2. \/ Finish(p, "failed")
      \/ Finish(p, "refused") /\ job[p].kind = "resolve"
      \/ pc'[p] \in {"count", "ticket"} /\ UNCHANGED job
  BY <1>0 DEF Abort, Goto
<1>3. CASE Finish(p, "failed")
  BY <1>0, <1>1, <1>3, Ending DEF Results
<1>4. CASE Finish(p, "refused") /\ job[p].kind = "resolve"
  BY <1>0, <1>1, <1>4, Ending DEF Results
<1>5. CASE pc'[p] \in {"count", "ticket"} /\ UNCHANGED job
  BY <1>0, <1>5, Onward DEF Merging, KeepsName
<1> QED
  BY <1>2, <1>3, <1>4, <1>5

LEMMA TellsHere ==
  ASSUME AInv, Told, NEW p \in Proc, holder = p, ProcStep(p)
  PROVE  Tells(p)'
<1> USE DEF repo, branches, books, people, history
<1>0. /\ MInv /\ TypeOK /\ pc \in [Proc -> PCs] /\ job \in [Proc -> Job] /\ job[p] \in Job
      /\ KindInv(p) /\ GoalInv(p) /\ Tells(p)
  BY DEF AInv, MInv, TypeOK, Own
<1>f. ASSUME NEW r \in Results \ {"merged", "upToDate", "clean"}, Finish(p, r),
             UNCHANGED <<target, tickets>>, job[p].sha = 0
      PROVE  Tells(p)'
  BY <1>0, <1>f, Ending
<1>k. ASSUME NEW r \in Results, Finish(p, r), job[p].kind \notin {"merge", "resolve"}
      PROVE  Tells(p)'
  <2>1. pc'[p] = "leave" /\ job'[p].kind = job[p].kind
    BY <1>0, <1>k, FinishJob
  <2> QED
    BY <1>k, <2>1 DEF Tells, PendingInv, DoneInv, AnsweredInv, TipInv, Merging
<1>r. ASSUME NEW r \in Reasons, Refuse(p, r) PROVE pc'[p] = "check" /\ KeepsName(p)
  BY <1>0, <1>r, RefuseJob
<1>n. ASSUME UNCHANGED job PROVE KeepsName(p)
  BY <1>n DEF KeepsName
<1>a. CASE Enter(p) \/ Recover(p) \/ AbortOrphan(p) \/ Ready(p)
  <2>1. job[p].sha = 0 /\ UNCHANGED <<target, tickets>>
    BY <1>0, <1>a DEF Enter, Recover, AbortOrphan, Ready, At, GoalInv, Fresh
  <2>2. \/ \E r \in {"refused", "none", "failed"} : Finish(p, r)
        \/ pc'[p] \in {"recover", "ready", "abortOrphan", "fetch", "replay", "rbRead", "pmRead"}
    <3>1. CASE Enter(p)
      BY <1>0, <3>1 DEF Enter, Goto
    <3>2. CASE Recover(p)
      BY <1>0, <3>2 DEF Recover, Goto
    <3>3. CASE AbortOrphan(p)
      BY <1>0, <3>3 DEF AbortOrphan, Goto
    <3>4. CASE Ready(p)
      BY <1>0, <3>4 DEF Ready, At, Goto, KindInv
    <3> QED
      BY <1>a, <3>1, <3>2, <3>3, <3>4
  <2> QED
    BY <1>f, <2>1, <2>2, Silence DEF Results, Silent, PCs, Merging, MergePcs, ResolvePcs,
       RollbackPcs, PromotePcs
<1>b. CASE Leave(p) \/ Crash(p) \/ \E kind \in Kinds, a \in Agent \cup {NoOne} : Acquire(p, kind, a)
  <2>1. pc'[p] \in {"out", "enter"}
    BY <1>0, <1>b DEF Leave, Crash, Acquire, Goto
  <2> QED
    BY <2>1, Silence DEF Silent, PCs, Merging
<1>c. CASE Freeze(p) \/ Thaw(p)
  BY <1>0, <1>c, Unmoved DEF Freeze, Thaw
<1>1. CASE OpenTheMerge(p)
  <2>1. KeepsName(p) /\ pc'[p] \in {"check", "classify", "stamp", "blindAbort"}
    <3>1. job[p].reason \in Reasons
      BY <1>0 DEF Job
    <3> QED
      BY <1>0, <1>1, <1>r, <1>n, <3>1 DEF OpenTheMerge, Goto
  <2> QED
    BY <1>0, <1>1, <2>1, Onward DEF OpenTheMerge, At, Merging
<1>2. CASE BlindAbort(p)
  <2>1. ~CommittedBy(p) /\ UNCHANGED <<target, tickets>> /\ pc[p] = "blindAbort"
    BY <1>0, <1>2 DEF BlindAbort, At, Tells, PendingInv, Merging
  <2>2. Finish(p, "failed") \/ (pc'[p] = "ticket" /\ UNCHANGED job)
    BY <1>0, <1>2 DEF BlindAbort, Goto
  <2> QED
    BY <1>0, <1>n, <2>1, <2>2, Ending, Onward DEF Results, Merging
<1>3. CASE Classify(p)
  <2>1. KeepsName(p) /\ pc'[p] \in {"check", "llm"}
    BY <1>0, <1>3, <1>r, <1>n DEF Classify, Goto, Reasons
  <2> QED
    BY <1>0, <1>3, <2>1, Onward DEF Classify, At, Merging
<1>4. CASE Llm(p) \/ GateRed(p) \/ Write(p) \/ Stamp(p) \/ GateGreen(p)
  <2>1. KeepsName(p) /\ pc'[p] \in {"check", "llm", "stamp", "gate"}
    BY <1>0, <1>4, LlmDoes, RedDoes, WriteDoes, StampJob, GreenJob
  <2>2. UNCHANGED <<target, tickets>> /\ pc[p] \in Merging \ {"drop"}
    BY <1>4 DEF Llm, GateRed, Write, Stamp, GateGreen, At, Merging
  <2> QED
    BY <1>0, <2>1, <2>2, Onward DEF Merging
<1>5. CASE Count(p) \/ Apply(p)
  <2>1. KeepsName(p) /\ pc'[p] \in {"ticket", "stamp", "drop"}
    BY <1>0, <1>5, <1>n DEF Count, Apply, Goto
  <2> QED
    BY <1>0, <1>5, <2>1, Onward DEF Count, Apply, At, Merging
<1>6. CASE Record(p)
  <2>1. pc[p] = "record" /\ pc'[p] = "meta" /\ UNCHANGED <<job, target>>
    BY <1>0, <1>6 DEF Record, At, Goto
  <2>2. (Landed(job[p].agent))' = Landed(job[p].agent)
    BY <2>1, LandedHere, LandedOf
  <2> QED
    BY <1>0, <2>1, <2>2 DEF Tells, PendingInv, DoneInv, AnsweredInv, TipInv, Merging
<1>7. CASE MergeStep(p)
  BY <1>1, <1>2, <1>3, <1>4, <1>5, <1>6, <1>7, FetchTells, CheckTells, ConcludeTells, MetaTells,
     AbortTells, TicketTells DEF MergeStep
<1>8. CASE ResolveStep(p)
  BY <1>5, <1>8, ReplayTells, DropTells, CloseTells DEF ResolveStep
<1>9. CASE RollbackStep(p)
  <2>0. job[p].kind \notin {"merge", "resolve"}
    BY <1>0, <1>9 DEF RollbackStep, RbRead, RbSettle, RbAssert, RbReset, RbRevert, RbSync, At,
       KindInv, RollbackPcs
  <2>1. CASE RbRead(p)
    <3>1. CASE ~Finish(p, "failed")
      <4>1. /\ pc'[p] = "rbSettle" /\ job'[p].agent = target[Len(target)].work[1]
            /\ UNCHANGED target
        BY <1>0, <2>1, <3>1, RbReadDoes DEF RbRead
      <4> QED
        BY <4>1 DEF Tells, PendingInv, DoneInv, AnsweredInv, TipInv, Merging
    <3> QED
      BY <1>k, <2>0, <3>1 DEF Results
  <2>2. CASE RbSettle(p)
    <3>1. /\ pc[p] = "rbSettle" /\ pc'[p] = "rbAssert" /\ job'[p].agent = job[p].agent
          /\ UNCHANGED target
      BY <1>0, <2>2, RbSettleDoes DEF RbSettle, At, KeepsName
    <3> QED
      BY <1>0, <3>1 DEF Tells, PendingInv, DoneInv, AnsweredInv, TipInv, Merging
  <2>3. CASE RbAssert(p)
    <3>1. /\ pc[p] = "rbAssert" /\ pc'[p] \in {"rbReset", "rbRevert"} /\ UNCHANGED <<job, target>>
      BY <1>0, <2>3 DEF RbAssert, At, Goto, GoalInv
    <3> QED
      BY <1>0, <3>1 DEF Tells, PendingInv, DoneInv, AnsweredInv, TipInv, Merging
  <2>4. CASE RbReset(p)
    <3>1. pc'[p] = "rbSync"
      BY <1>0, <2>4 DEF RbReset, Goto
    <3> QED
      BY <3>1, Silence DEF Silent, PCs, RollbackPcs, Merging
  <2>5. CASE RbRevert(p) \/ RbSync(p)
    <3>1. \E r \in {"rolledBack", "failed", "lost"} : Finish(p, r)
      BY <2>5 DEF RbRevert, RbSync
    <3> QED
      BY <1>k, <2>0, <3>1 DEF Results
  <2> QED
    BY <1>9, <2>1, <2>2, <2>3, <2>4, <2>5 DEF RollbackStep
<1>10. CASE PromoteStep(p)
  <2>0. job[p].kind \notin {"merge", "resolve"}
    BY <1>0, <1>10 DEF PromoteStep, PmRead, PmGate, PmCheck, PmSwap, PmReset, PmTicket, At,
       KindInv, PromotePcs
  <2>1. (\E r \in Results : Finish(p, r)) \/ pc'[p] \in PromotePcs
    <3>1. CASE PmRead(p)
      BY <1>0, <3>1, PmReadDoes DEF PromotePcs
    <3>2. CASE PmGate(p)
      BY <1>0, <3>2, PmGateDoes DEF PromotePcs
    <3>3. CASE PmCheck(p)
      BY <1>0, <3>3 DEF PmCheck, At, Goto, GoalInv, PromotePcs, Results
    <3>4. CASE PmSwap(p) \/ PmTicket(p)
      BY <3>4 DEF PmSwap, PmTicket, Results
    <3>5. CASE PmReset(p)
      BY <1>0, <3>5 DEF PmReset, Goto, PromotePcs
    <3> QED
      BY <1>10, <3>1, <3>2, <3>3, <3>4, <3>5 DEF PromoteStep
  <2> QED
    BY <1>k, <2>0, <2>1, Silence DEF Silent, PCs, PromotePcs, Merging
<1> QED
  BY <1>a, <1>b, <1>c, <1>7, <1>8, <1>9, <1>10 DEF ProcStep, OperationStep

\* What people do adds to the branch, if anything.
LEMMA TellsPeople ==
  ASSUME AInv, Shielded, PeopleStep
  PROVE  RegistryInv' /\ LeaveInv' /\ \A p \in Proc : holder' = p => Tells(p)'
<1> USE DEF repo, branches, books, people, history
<1>0. /\ MInv /\ TypeOK /\ target \in Seq(Commit) /\ lastMerged \in [Agent -> 0..MaxWork]
      /\ Human \notin Proc /\ UNCHANGED <<holder, pc, job, lastMerged, tickets, forgotten>>
      /\ TypeOK'
  <2>1. /\ MInv /\ TypeOK /\ target \in Seq(Commit) /\ lastMerged \in [Agent -> 0..MaxWork]
        /\ Human \notin Proc
    BY MergeChainAssumption DEF AInv, MInv, TypeOK
  <2>2. UNCHANGED <<holder, pc, job>>
    BY <2>1, OthersPeople
  <2>3. UNCHANGED <<lastMerged, tickets, forgotten>>
    BY DEF PeopleStep, AgentCommits, HumanOpens, HumanAborts, HumanTouches, HumanCommits,
       HumanCommitsNothing, HumanCommitsToMain, SessionEnds, Unlock, Gesture
  <2> QED
    BY <2>1, <2>2, <2>3, PeopleTypes
<1>1. UNCHANGED target \/ \E c : c.by = Human /\ target' = Append(target, c)
  <2>1. CASE HumanCommits
    <3> DEFINE c == IF merge # None /\ merge.by # Human
                    THEN [by |-> Human, kind |-> "merge", work |-> merge.work]
                    ELSE [by |-> Human, kind |-> "other", work |-> <<NoOne, 0>>]
    <3>1. c.by = Human
      OBVIOUS
    <3>2. target' = Append(target, c)
      BY <2>1 DEF HumanCommits
    <3> HIDE DEF c
    <3> QED
      BY <3>1, <3>2
  <2>2. CASE HumanCommitsNothing
    BY <2>2 DEF HumanCommitsNothing
  <2> QED
    BY <2>1, <2>2 DEF PeopleStep, AgentCommits, HumanOpens, HumanAborts, HumanTouches,
       HumanCommitsToMain, SessionEnds, Unlock
<1>2. \A a : Landed(a) \in Nat /\ Landed(a)' \in Nat /\ Landed(a) <= Landed(a)'
  <2>1. ASSUME NEW a PROVE LandedIn(target, a) \in Nat /\ LandedIn(target', a) \in Nat
    <3>1. target' \in Seq(Commit)
      BY <1>0 DEF TypeOK
    <3> QED
      BY <1>0, <3>1, LandedMax, MergeChainAssumption
  <2>2. ASSUME NEW c, target' = Append(target, c), NEW a
        PROVE  LandedIn(target, a) <= LandedIn(target', a)
    <3>1. target' \in Seq(Commit) /\ Len(target') = Len(target) + 1 /\ target'[Len(target) + 1] = c
      BY <1>0, <2>2 DEF TypeOK
    <3>2. c \in Commit
      BY <1>0, <3>1
    <3> QED
      BY <1>0, <2>2, <3>2, LandedGrows
  <2>3. \A a : LandedIn(target, a) <= LandedIn(target', a)
    BY <1>1, <2>1, <2>2
  <2> QED
    BY <2>1, <2>3, LandedHere
<1>3. RegistryInv'
  <2>1. ASSUME NEW a \in Agent, lastMerged'[a] > Landed(a)'
        PROVE  a \in forgotten' \/ \E p \in Proc : pc'[p] = "rbSync" /\ job'[p].agent = a
    <3>1. lastMerged[a] \in Nat
      BY <1>0, MergeChainAssumption
    <3>2. lastMerged[a] > Landed(a)
      BY <1>0, <1>2, <2>1, <3>1
    <3> QED
      BY <1>0, <3>2 DEF AInv, RegistryInv
  <2> QED
    BY <2>1 DEF RegistryInv
<1>4. LeaveInv'
  BY <1>0 DEF AInv, LeaveInv
<1>5. ASSUME NEW p \in Proc, holder' = p PROVE Tells(p)'
  <2>1. Tells(p) /\ holder = p
    BY <1>0, <1>5 DEF AInv
  <2>2. (Landed(job[p].agent))' \in Nat /\ Landed(job[p].agent) <= (Landed(job[p].agent))'
    <3>1. LandedIn(target', job[p].agent) = (Landed(job[p].agent))'
      BY <1>0, LandedOf
    <3>2. /\ LandedIn(target', job[p].agent) \in Nat
          /\ Landed(job[p].agent) <= LandedIn(target', job[p].agent)
      BY <1>2, LandedHere
    <3> QED
      BY <3>1, <3>2
  <2>3. Landed(job[p].agent) \in Nat /\ job[p].sha \in Nat
    <3>1. job[p] \in Job
      BY <1>0 DEF TypeOK
    <3>2. job[p].sha \in 0..MaxWork
      BY <3>1 DEF Job
    <3> QED
      BY <1>2, <3>2, MergeChainAssumption
  <2>4. job[p].sha <= Landed(job[p].agent) => job'[p].sha <= (Landed(job[p].agent))'
    BY <1>0, <2>2, <2>3
  <2>5. CommittedBy(p)' => CommittedBy(p)
    <3>1. p # Human
      BY <1>0
    <3>2. ASSUME NEW c, c.by = Human, target' = Append(target, c),
                 NEW i \in 1..Len(target'), target'[i] = [by |-> p, kind |-> "merge", work |-> MyWork(p)]
          PROVE  i \in 1..Len(target) /\ target[i] = target'[i]
      BY <1>0, <3>1, <3>2
    <3> QED
      BY <1>0, <1>1, <3>2 DEF CommittedBy, Commits, MyWork
  <2>6. pc[p] \in Windows => UNCHANGED <<merge, target>>
    <3>1. ASSUME pc[p] \in Windows, Gesture PROVE FALSE
      <4>1. status[p] = "up"
        <5>1. status[p] \in {"up", "frozen", "dead"}
          BY <1>0 DEF TypeOK
        <5>2. pc[p] \notin Long /\ pc[p] # "out"
          BY <3>1 DEF Windows, Long
        <5> QED
          BY <1>0, <5>1, <5>2 DEF MInv, LockInv, StatusInv
      <4> QED
        BY <3>1, <4>1, Zenon DEF Gesture, Shielded
    <3> QED
      BY <3>1 DEF PeopleStep, AgentCommits, HumanOpens, HumanAborts, HumanTouches, HumanCommits,
         HumanCommitsNothing, HumanCommitsToMain, SessionEnds, Unlock
  <2>7. PendingInv(p)'
    <3>1. pc[p] = "drop" => UNCHANGED merge
      BY <2>6 DEF Windows
    <3> QED
      BY <1>0, <2>1, <2>5, <3>1 DEF Tells, PendingInv, MyWork
  <2>8. DoneInv(p)'
    BY <1>0, <2>1, <2>4 DEF Tells, DoneInv
  <2>9. AnsweredInv(p)'
    BY <1>0, <2>1, <2>4, <2>5 DEF Tells, AnsweredInv, Truth, MyWork
  <2>10. TipInv(p)'
    BY <1>0, <2>1, <2>6 DEF Tells, TipInv, Windows
  <2> QED
    BY <2>7, <2>8, <2>9, <2>10 DEF Tells
<1> QED
  BY <1>3, <1>4, <1>5

LEMMA AInvInit == Init => AInv
<1> SUFFICES ASSUME Init PROVE AInv
  OBVIOUS
<1>1. MInv
  BY MInvInit
<1>2. \A p \in Proc : pc[p] = "out" /\ holder # p
  BY MergeChainAssumption DEF Init
<1>3. ASSUME NEW a \in Agent PROVE ~(lastMerged[a] > Landed(a))
  <2>1. Landed(a) \in Nat
    <3>1. LandedIn(target, a) \in 0..MaxWork
      BY <1>1, LandedMax DEF MInv, TypeOK
    <3> QED
      BY <3>1, LandedHere, MergeChainAssumption
  <2> QED
    BY <2>1 DEF Init
<1> QED
  BY <1>1, <1>2, <1>3 DEF AInv, RegistryInv, LeaveInv

LEMMA AInvStep ==
  ASSUME AInv, Shielded, Told, [Next]_vars
  PROVE  AInv'
<1>0. MInv /\ MInv'
  BY MInvStep DEF AInv
<1>1. ASSUME NEW p \in Proc, ProcStep(p) PROVE AInv'
  <2>1. /\ \A q \in Proc : q # p => pc'[q] = pc[q] /\ job'[q] = job[q]
        /\ holder' \in {holder, p, NoOne} /\ NoOne \notin Proc
        /\ holder = p \/ UNCHANGED Shared
    BY <1>0, <1>1, Frames, MergeChainAssumption DEF MInv, LockInv
  <2>2. ASSUME NEW q \in Proc, holder' = q PROVE Tells(q)'
    <3>1. CASE q = p /\ holder = p
      BY <1>1, <3>1, TellsHere
    <3>2. CASE q = p /\ holder # p
      <4>1. ~Leave(p) /\ ~UNCHANGED holder
        BY <2>1, <2>2, <3>2 DEF Leave
      <4>2. pc'[p] = "enter"
        BY <1>0, <1>1, <4>1, Writers, AcquireDoes DEF MInv
      <4> QED
        BY <3>2, <4>2, Silence DEF Silent, PCs, Merging
    <3>3. CASE q # p
      <4>1. holder = q
        BY <2>1, <2>2, <3>3
      <4>2. UNCHANGED <<target, merge, lastMerged, tickets, forgotten>>
        BY <2>1, <3>3, <4>1 DEF Shared, repo, branches
      <4> QED
        BY <2>1, <3>3, <4>1, <4>2, Unmoved DEF AInv
    <3> QED
      BY <3>1, <3>2, <3>3
  <2>3. RegistryInv' /\ LeaveInv'
    BY <1>1, RegistryStep, LeaveStep DEF AInv, Shielded
  <2> QED
    BY <1>0, <2>2, <2>3 DEF AInv
<1>2. CASE PeopleStep
  BY <1>0, <1>2, TellsPeople DEF AInv
<1>3. CASE UNCHANGED vars
  <2>1. UNCHANGED <<holder, target, merge, lastMerged, tickets, forgotten, pc, job>>
    BY <1>3 DEF vars, repo, branches, books
  <2>2. \A p \in Proc : holder' = p => Tells(p)'
    BY <2>1, Unmoved DEF AInv
  <2>3. \A a : Landed(a)' = Landed(a)
    BY <2>1, LandedHere
  <2>4. RegistryInv' /\ LeaveInv'
    BY <2>1, <2>3 DEF AInv, RegistryInv, LeaveInv
  <2> QED
    BY <1>0, <2>2, <2>4 DEF AInv
<1> QED
  BY <1>1, <1>2, <1>3, Steps

LEMMA AInvAlways == Shielded /\ Told /\ Spec => []AInv
<1>1. CASE Shielded /\ Told
  <2>1. AInv /\ [Next]_vars => AInv'
    BY <1>1, AInvStep
  <2> QED
    BY <2>1, AInvInit, PTL DEF Spec
<1> QED
  BY <1>1

\* What mergeAgentCommit and applyTicketResolution answer is true of the branch, of the
\* registry and of the tickets when they answer, whatever else goes on, as long as git
\* commit does not report a commit it made as refused and no rollback stops between the
\* reset and updateAgentMeta.
THEOREM ChainAnswersTrue ==
  ASSUME Shielded, Told
  PROVE  Spec => []AnswersTrue
<1>1. AInv => AnswersTrue
  <2> SUFFICES ASSUME AInv, NEW p \in Proc, pc[p] = "leave", job[p].kind \in {"merge", "resolve"}
               PROVE  Truth(p)
    BY DEF AnswersTrue, Truth
  <2>1. CASE holder = p
    BY <2>1 DEF AInv, Tells, AnsweredInv
  <2>2. CASE holder # p
    BY <2>2 DEF AInv, LeaveInv, Truth
  <2> QED
    BY <2>1, <2>2
<1> QED
  BY <1>1, AInvAlways, PTL
====
