------------------------------ MODULE MergeChain ------------------------------
(***************************************************************************)
(* What happens to the main repository under the main lock                  *)
(* (src/src/orchestrator.ts, src/src/lock.ts): the merge of an agent's      *)
(* commit behind the Test Gate, the resolution of a ticket by hand, the     *)
(* rollback of the last merge, the promotion of the target branch, the      *)
(* reservation of the repository by a human, the recovery of a merge left   *)
(* open by a process that died, and the people who use git there meanwhile. *)
(*                                                                          *)
(* The lock is the holder of AbstractLock (implemented by MainLock), with   *)
(* the one liberty the configuration gives it: with breakFrozenHolderAfterMs*)
(* a suspended holder loses it and wakes up in the middle of its merge.     *)
(*                                                                          *)
(* Git is reduced to what these operations look at: the commits of the      *)
(* target branch and of the main branch it is promoted to, MERGE_HEAD, the  *)
(* index.  One conflicted file stands for the loop over the conflicted      *)
(* files; the rebase before the merge (autoRebase) is left out.             *)
(***************************************************************************)
EXTENDS Naturals, FiniteSets, Sequences, FiniteSetsExt, SequencesExt

CONSTANTS
  Proc,           \* processes of Striart
  Agent,          \* agents, each with its clone
  Human,          \* whoever uses git in the main repository
  NoOne,          \* no process, no agent
  Kinds,          \* the operations somebody may ask for
  None,           \* no open merge, no marker, no fingerprint
  MaxWork,        \* bound on the commits of one agent
  MaxTarget,      \* bound on the commits of the target branch
  MaxHuman,       \* bound on the gestures of the human
  GateRetries,    \* config.semanticGateRetries
  SemanticMerge,  \* config.semanticMerge
  MaxSemanticFailures,  \* failures in a row before the manual mode: 3 in the code
  BreakFrozen,    \* lock.breakFrozenHolderAfterMs is set
  CrashAt,        \* program points where a process may be killed
  FreezeAt,       \* program points where it may be suspended for long
  FailAt,         \* program points whose command may fail for good
  Quiet           \* program points of an operation during which no human acts

ASSUME MergeChainAssumption ==
  /\ MaxWork \in Nat /\ MaxTarget \in Nat /\ MaxHuman \in Nat /\ GateRetries \in Nat
  /\ MaxSemanticFailures \in Nat \ {0}
  /\ IsFiniteSet(Proc)
  /\ Human \notin Proc /\ NoOne \notin Proc /\ NoOne \notin Agent
  /\ Kinds \subseteq {"merge", "resolve", "rollback", "promote", "reserve"}

VARIABLES
  status,      \* process -> "up", "frozen" or "dead"
  holder,      \* the holder of main.lock
  session,     \* a main session is declared, and its PID is alive
  head,        \* agent -> the last commit of its clone
  target,      \* the commits of the target branch: HEAD is the whole sequence
  main,        \* the commits of config.mainBranch, which the target is promoted to
  merge,       \* MERGE_HEAD: None or an OpenMerge
  index,       \* the index (and the worktree) of the main repository
  marker,      \* merge-state-changed.json: None, or the MERGE_HEAD it recorded
  lastMerged,  \* agent -> lastMergedCommit of the registry
  streak,      \* semanticFailureStreak of state.json
  manual,      \* manualMode of state.json
  tickets,     \* open conflict tickets
  pc,          \* process -> where its operation stands
  job,         \* process -> the locals of its operation
  gestures,    \* gestures of the human so far
  forgotten,   \* history: the agents whose merged commits a promotion has reset
  noticed,     \* history: an operation recorded that the open merge is not its own
  failures     \* history: resolutions by the LLM that failed since the last success or unlock

branches == <<main, forgotten>>
repo == <<target, branches, merge, index>>
books == <<marker, lastMerged, streak, manual, tickets>>
people == <<session, head, gestures>>
history == <<noticed, failures>>
vars == <<status, holder, repo, books, people, history, pc, job>>

-----------------------------------------------------------------------------
(* Git.  Commit number k of an agent contains its commits 1..k.             *)

Work == Agent \X (1..MaxWork)
HumanWork == {NoOne} \X (1..MaxHuman)
OpenMerge == [by : Proc \cup {Human}, work : Work \cup HumanWork]
\* A commit of kind "empty" leaves the tree as it was.
Commit == [by : Proc \cup {Human}, kind : {"merge", "revert", "other", "empty"},
           work : Work \cup {<<NoOne, 0>>}]
Tree(s) == SelectSeq(s, LAMBDA c : c.kind # "empty")

\* version counts what Striart wrote; touched: somebody else wrote too.
Index == [unmerged : BOOLEAN, version : 0..(GateRetries + 2), touched : BOOLEAN]
CleanIndex == [unmerged |-> FALSE, version |-> 0, touched |-> FALSE]
MergedIndex == [CleanIndex EXCEPT !.version = 1]
ConflictedIndex == [MergedIndex EXCEPT !.unmerged = TRUE]

\* What is absent is not something else.
ASSUME NoneAssumption ==
  None \notin Work \cup HumanWork \cup OpenMerge \cup Index

Commits == {target[i] : i \in 1..Len(target)}
\* The last commit of agent a that the target contains.
Landed(a) ==
  Max({0} \cup {c.work[2] : c \in {d \in Commits : d.kind = "merge" /\ d.work[1] = a}})
MergeHead == IF merge = None THEN None ELSE merge.work

Reasons == {"none", "PROTECTED_PATHS_CHANGED", "UNMERGEABLE_CONFLICT", "MERGE_CONFLICT",
            "SEMANTIC_MERGE_FAILED", "SEMANTIC_GATE_FAILED", "GATE_FAILED",
            "COMMIT_HOOK_REJECTED"}
\* What tells tickets apart: the reason is one of MANUALLY_APPLICABLE_REASONS, it is
\* COMMIT_HOOK_REJECTED, or neither.  <<NoOne, 0>> is a refused promotion.
Subject(reason) == CASE reason = "COMMIT_HOOK_REJECTED" -> "hook"
                     [] reason = "GATE_FAILED" -> "other"
                     [] OTHER -> "files"
Ticket == [work : Work \cup {<<NoOne, 0>>}, subject : {"files", "hook", "other"}]

Results == {"none", "merged", "upToDate", "clean", "refused", "changed", "lost", "failed",
            "rolledBack", "promoted"}

\* Where the operation goes once it has looked.
Goals == {"none", "write", "commit", "abort", "close", "rbReset", "rbRevert", "pmSwap", "pmReset",
          "pmTicket"}

Job == [kind : Kinds \cup {"none"}, agent : Agent \cup {NoOne},
        sha : 0..MaxWork, head : Seq(Commit), base : Seq(Commit), gated : Seq(Commit),
        index : Index \cup {None},
        tested : Index \cup {None}, goal : Goals, reason : Reasons, fused : BOOLEAN,
        spared : BOOLEAN, retries : 0..GateRetries, result : Results]
NoJob == [kind |-> "none", agent |-> NoOne, sha |-> 0, head |-> <<>>, base |-> <<>>, gated |-> <<>>,
          index |-> None, tested |-> None, goal |-> "none", reason |-> "none", fused |-> FALSE,
          spared |-> FALSE, retries |-> 0, result |-> "none"]

MergePcs == {"fetch", "open", "blindAbort", "classify", "llm", "check", "write", "stamp",
             "gate", "commit", "abort", "count", "ticket", "record", "meta"}
ResolvePcs == {"replay", "apply", "drop", "close"}
RollbackPcs == {"rbRead", "rbSettle", "rbAssert", "rbReset", "rbRevert", "rbSync"}
PromotePcs == {"pmRead", "pmGate", "pmCheck", "pmSwap", "pmReset", "pmTicket"}
PCs == {"out", "enter", "recover", "abortOrphan", "ready", "leave"}
       \cup MergePcs \cup ResolvePcs \cup RollbackPcs \cup PromotePcs

TypeOK ==
  /\ status \in [Proc -> {"up", "frozen", "dead"}]
  /\ holder \in Proc \cup {NoOne}
  /\ session \in BOOLEAN
  /\ head \in [Agent -> 0..MaxWork]
  /\ target \in Seq(Commit)
  /\ main \in Seq(Commit)
  /\ forgotten \subseteq Agent
  /\ merge \in OpenMerge \cup {None}
  /\ index \in Index
  /\ marker \in {None} \cup {[mergeHead |-> w] : w \in Work \cup HumanWork \cup {None}}
  /\ lastMerged \in [Agent -> 0..MaxWork]
  /\ streak \in 0..MaxSemanticFailures
  /\ manual \in BOOLEAN
  /\ tickets \subseteq Ticket
  /\ pc \in [Proc -> PCs]
  /\ job \in [Proc -> Job]
  /\ gestures \in 0..MaxHuman
  /\ noticed \in BOOLEAN
  /\ failures \in 0..MaxSemanticFailures

Init ==
  /\ status = [p \in Proc |-> "up"]
  /\ holder = NoOne
  /\ session = FALSE
  /\ head = [a \in Agent |-> 0]
  /\ target = <<>>
  /\ main = <<>>
  /\ forgotten = {}
  /\ merge = None
  /\ index = CleanIndex
  /\ marker = None
  /\ lastMerged = [a \in Agent |-> 0]
  /\ streak = 0
  /\ manual = FALSE
  /\ tickets = {}
  /\ pc = [p \in Proc |-> "out"]
  /\ job = [p \in Proc |-> NoJob]
  /\ gestures = 0
  /\ noticed = FALSE
  /\ failures = 0

-----------------------------------------------------------------------------
At(p, l) == status[p] = "up" /\ pc[p] = l
Goto(p, l) == pc' = [pc EXCEPT ![p] = l]
Fails(l) == l \in FailAt
MyWork(p) == <<job[p].agent, job[p].sha>>

\* The operation ends with this result; its lock is still to be released.
Finish(p, result) ==
  /\ Goto(p, "leave")
  /\ job' = [job EXCEPT ![p] = [NoJob EXCEPT !.kind = job[p].kind, !.agent = job[p].agent,
                                           !.sha = job[p].sha, !.result = result]]

\* bound: what matters is whether there were MaxSemanticFailures of them.
OneMoreFailure == failures' = Min({failures + 1, MaxSemanticFailures})

\* The open merge is gone, one way or another.
Close == merge' = None /\ index' = CleanIndex /\ noticed' = FALSE

-----------------------------------------------------------------------------
(* withMainLock: the lock, the declared session, the orphan merge.          *)

Acquire(p, kind, a) ==
  /\ At(p, "out")
  /\ \/ holder = NoOne
     \/ holder # NoOne /\ (status[holder] = "dead" \/ (BreakFrozen /\ status[holder] = "frozen"))
  /\ holder' = p
  /\ job' = [job EXCEPT ![p] = [NoJob EXCEPT !.kind = kind, !.agent = a]]
  /\ Goto(p, "enter")
  /\ UNCHANGED <<status, repo, books, people, history>>

\* assertNoLiveMainSession; reserveMainSession publishes the session and is done.
Enter(p) ==
  /\ At(p, "enter")
  /\ \/ session /\ Finish(p, "refused") /\ UNCHANGED session
     \/ ~session /\ job[p].kind = "reserve" /\ session' = TRUE /\ Finish(p, "none")
     \/ ~session /\ job[p].kind # "reserve" /\ Goto(p, "recover") /\ UNCHANGED <<session, job>>
  /\ UNCHANGED <<status, holder, repo, books, head, gestures, history>>

\* Mutant: a missing marker covers any merge.
CoversUnmarked == marker \in {None, [mergeHead |-> MergeHead]}

\* markerCoversMerge.
Covers == marker = [mergeHead |-> MergeHead]

\* Mutant: the marker is bound to no merge in particular, and never blocks.
RecoverAlways(p) ==
  /\ At(p, "recover")
  /\ Goto(p, IF merge = None THEN "ready" ELSE "abortOrphan")
  /\ marker' = None
  /\ UNCHANGED <<status, holder, repo, lastMerged, streak, manual, tickets, people, history, job>>

\* recoverOrphanMerge, up to its git command.
Recover(p) ==
  /\ At(p, "recover")
  /\ \/ merge = None /\ marker' = None /\ Goto(p, "ready") /\ UNCHANGED job
     \/ merge # None /\ Covers /\ Finish(p, "refused") /\ UNCHANGED marker
     \/ merge # None /\ ~Covers /\ marker' = None /\ Goto(p, "abortOrphan") /\ UNCHANGED job
  /\ UNCHANGED <<status, holder, repo, lastMerged, streak, manual, tickets, people, history>>

AbortOrphan(p) ==
  /\ At(p, "abortOrphan")
  /\ \/ Close /\ Goto(p, "ready") /\ UNCHANGED job
     \/ Fails("abortOrphan") /\ merge # None /\ Finish(p, "failed") /\ UNCHANGED <<merge, index, noticed>>
  /\ UNCHANGED <<status, holder, target, branches, books, people, failures>>

\* assertMainReady: nothing uncommitted.
Ready(p) ==
  /\ At(p, "ready")
  /\ \/ index # CleanIndex /\ Finish(p, "failed")
     \/ /\ index = CleanIndex
        /\ Goto(p, CASE job[p].kind = "merge" -> "fetch"
                     [] job[p].kind = "resolve" -> "replay"
                     [] job[p].kind = "rollback" -> "rbRead"
                     [] job[p].kind = "promote" -> "pmRead")
        /\ UNCHANGED job
  /\ UNCHANGED <<status, holder, repo, books, people, history>>

\* releaseLock, which leaves the lock of another process alone.
Leave(p) ==
  /\ At(p, "leave")
  /\ holder' = IF holder = p THEN NoOne ELSE holder
  /\ Goto(p, "out")
  /\ job' = [job EXCEPT ![p] = NoJob]
  /\ UNCHANGED <<status, repo, books, people, history>>

-----------------------------------------------------------------------------
(* mergeAgentCommitImpl.                                                    *)

\* The agent's head is fetched: already merged, already in the target, or to
\* be merged.  Whether the diff changes a protected path is up to the commit.
Fetch(p) ==
  /\ At(p, "fetch")
  /\ LET a == job[p].agent
         sha == head[a]
     IN \/ /\ sha = lastMerged[a]
           /\ Goto(p, "leave")
           /\ job' = [job EXCEPT ![p].sha = sha, ![p].result = "upToDate"]
           /\ UNCHANGED lastMerged
        \/ /\ sha # lastMerged[a]
           /\ sha <= Landed(a)
           /\ lastMerged' = [lastMerged EXCEPT ![a] = sha]
           /\ Goto(p, "leave")
           /\ job' = [job EXCEPT ![p].sha = sha, ![p].result = "upToDate"]
        \/ /\ sha # lastMerged[a]
           /\ sha > Landed(a)
           /\ Len(target) < MaxTarget                     \* bound
           /\ \E reason \in {"none", "PROTECTED_PATHS_CHANGED"} :
                job' = [job EXCEPT ![p].sha = sha, ![p].head = target, ![p].reason = reason]
           /\ Goto(p, "open")
           /\ UNCHANGED lastMerged
  /\ UNCHANGED <<status, holder, repo, marker, streak, manual, tickets, people, history>>

\* The operation gives up for this reason: the open merge is to be aborted.
Refuse(p, reason) ==
  /\ Goto(p, "check")
  /\ job' = [job EXCEPT ![p].goal = "abort", ![p].reason = reason]

\* git merge --no-commit --no-ff: it opens the merge, with or without conflicts,
\* or git refuses to start (a file in the way, another merge open, a dirty index).
OpenTheMerge(p) ==
  /\ At(p, "open")
  /\ LET guard == job[p].reason = "PROTECTED_PATHS_CHANGED" IN
     \/ /\ index = CleanIndex
        /\ merge' = [by |-> p, work |-> MyWork(p)]
        /\ noticed' = FALSE
        /\ index' \in {MergedIndex, ConflictedIndex}
        /\ IF guard
           THEN Refuse(p, job[p].reason)
           ELSE Goto(p, IF index'.unmerged THEN "classify" ELSE "stamp") /\ UNCHANGED job
     \/ /\ index = CleanIndex => Fails("open")
        /\ Goto(p, IF index.unmerged /\ ~guard THEN "classify" ELSE "blindAbort")
        /\ UNCHANGED <<merge, index, noticed, job>>
  /\ UNCHANGED <<status, holder, target, branches, books, people, failures>>

\* abortMerge called for a merge that git did not open: the lock is checked,
\* whose merge is aborted is not.
BlindAbort(p) ==
  /\ At(p, "blindAbort")
  /\ \/ holder # p /\ Finish(p, "lost") /\ UNCHANGED <<merge, index, noticed>>
     \/ /\ holder = p
        /\ IF merge = None THEN UNCHANGED <<merge, index, noticed>> ELSE Close
        /\ IF job[p].reason = "none" THEN Finish(p, "failed") ELSE Goto(p, "ticket") /\ UNCHANGED job
  /\ UNCHANGED <<status, holder, target, branches, books, people, failures>>

\* classifyConflict, then the manual mode.
Classify(p) ==
  /\ At(p, "classify")
  /\ \/ Refuse(p, "UNMERGEABLE_CONFLICT")
     \/ (~SemanticMerge \/ manual) /\ Refuse(p, "MERGE_CONFLICT")
     \/ SemanticMerge /\ ~manual /\ Goto(p, "llm") /\ UNCHANGED job
  /\ UNCHANGED <<status, holder, repo, books, people, history>>

\* A failure during a retry leaves the gate red.
SemanticReason(p) == IF job[p].fused THEN "SEMANTIC_GATE_FAILED" ELSE "SEMANTIC_MERGE_FAILED"

\* semanticMerge answers, fails, or is refused by a token budget.
Llm(p) ==
  /\ At(p, "llm")
  /\ \/ /\ Goto(p, "check")
        /\ job' = [job EXCEPT ![p].goal = "write"]
        /\ UNCHANGED failures
     \/ /\ Refuse(p, SemanticReason(p))
        /\ OneMoreFailure
     \/ /\ Goto(p, "check")
        /\ job' = [job EXCEPT ![p].goal = "abort", ![p].reason = SemanticReason(p), ![p].spared = TRUE]
        /\ UNCHANGED failures
  /\ UNCHANGED <<status, holder, repo, books, people, noticed>>

\* The open merge and HEAD are those of the operation, and so is the index once
\* its fingerprint was taken.
Intact(p) ==
  /\ MergeHead = MyWork(p)
  /\ target = job[p].head
  /\ job[p].index # None => index = job[p].index

\* Mutant: HEAD and MERGE_HEAD are compared, the index is not.
CheckWithoutIndex(p) ==
  /\ At(p, "check")
  /\ \/ holder # p /\ Finish(p, "lost") /\ UNCHANGED <<marker, noticed>>
     \/ /\ holder = p
        /\ MergeHead = MyWork(p) /\ target = job[p].head
        /\ Goto(p, job[p].goal)
        /\ UNCHANGED <<marker, noticed, job>>
     \/ /\ holder = p
        /\ ~(MergeHead = MyWork(p) /\ target = job[p].head)
        /\ marker' = [mergeHead |-> MergeHead]
        /\ noticed' = (merge # None)
        /\ Finish(p, "changed")
  /\ UNCHANGED <<status, holder, repo, lastMerged, streak, manual, tickets, people, failures>>

\* Mutant: the lock is not checked.
CheckWithoutLock(p) ==
  /\ At(p, "check")
  /\ \/ /\ Intact(p)
        /\ Goto(p, job[p].goal)
        /\ UNCHANGED <<marker, noticed, job>>
     \/ /\ ~Intact(p)
        /\ marker' = [mergeHead |-> MergeHead]
        /\ noticed' = (merge # None)
        /\ Finish(p, "changed")
  /\ UNCHANGED <<status, holder, repo, lastMerged, streak, manual, tickets, people, failures>>

\* Mutant: the merge is not looked at before it is aborted.
CheckBeforeCommitOnly(p) ==
  /\ At(p, "check")
  /\ \/ holder # p /\ Finish(p, "lost") /\ UNCHANGED <<marker, noticed>>
     \/ /\ holder = p
        /\ Intact(p) \/ job[p].goal = "abort"
        /\ Goto(p, job[p].goal)
        /\ UNCHANGED <<marker, noticed, job>>
     \/ /\ holder = p
        /\ ~Intact(p)
        /\ job[p].goal # "abort"
        /\ marker' = [mergeHead |-> MergeHead]
        /\ noticed' = (merge # None)
        /\ Finish(p, "changed")
  /\ UNCHANGED <<status, holder, repo, lastMerged, streak, manual, tickets, people, failures>>

\* assertMergeIntact, before a write into the index, a commit or an abort.
Check(p) ==
  /\ At(p, "check")
  /\ \/ holder # p /\ Finish(p, "lost") /\ UNCHANGED <<marker, noticed>>
     \/ /\ holder = p
        /\ Intact(p)
        /\ Goto(p, job[p].goal)
        /\ UNCHANGED <<marker, noticed, job>>
     \/ /\ holder = p
        /\ ~Intact(p)
        /\ \/ marker' = [mergeHead |-> MergeHead] /\ noticed' = (merge # None)
           \/ Fails("check") /\ UNCHANGED <<marker, noticed>>
        /\ Finish(p, "changed")
  /\ UNCHANGED <<status, holder, repo, lastMerged, streak, manual, tickets, people, failures>>

\* mergeResolutionWithLlm: the fused files are written, added and their index is
\* fingerprinted.  A path, a write or a git command may be refused on the way, with some
\* files added or none; the last fingerprint is then of before, between or after them,
\* and what is no loss of the lock counts as a failure of the LLM does.
Write(p) ==
  /\ At(p, "write")
  /\ \/ /\ index' = [index EXCEPT !.unmerged = FALSE, !.version = @ + 1]
        /\ job' = [job EXCEPT ![p].index = index', ![p].fused = TRUE]
        /\ Goto(p, "stamp")
        /\ UNCHANGED failures
     \/ /\ Fails("write")
        /\ Refuse(p, SemanticReason(p))
        /\ OneMoreFailure
        /\ UNCHANGED index
     \/ /\ Fails("write")
        /\ \E unmerged \in {FALSE, index.unmerged} :
             index' = [index EXCEPT !.unmerged = unmerged, !.version = @ + 1]
        /\ \E known \in {job[p].index, index, index'} :
             job' = [job EXCEPT ![p].goal = "abort", ![p].reason = SemanticReason(p),
                                ![p].index = known]
        /\ Goto(p, "check")
        /\ OneMoreFailure
  /\ UNCHANGED <<status, holder, target, branches, merge, books, people, noticed>>

\* The fingerprint of the index, taken before the gate.
Stamp(p) ==
  /\ At(p, "stamp")
  /\ job' = [job EXCEPT ![p].index = index]
  /\ Goto(p, "gate")
  /\ UNCHANGED <<status, holder, repo, books, people, history>>

\* runTestGate: what it tested is known only if nothing moved meanwhile.
GateGreen(p) ==
  /\ At(p, "gate")
  /\ Goto(p, "check")
  /\ job' = [job EXCEPT ![p].tested = IF index = job[p].index THEN index ELSE None,
                        ![p].goal = "commit"]
  /\ UNCHANGED <<status, holder, repo, books, people, history>>

GateRed(p) ==
  /\ At(p, "gate")
  /\ \/ /\ job[p].fused
        /\ job[p].retries < GateRetries
        /\ Goto(p, "llm")
        /\ job' = [job EXCEPT ![p].retries = @ + 1]
        /\ UNCHANGED failures
     \/ /\ job[p].fused
        /\ job[p].retries = GateRetries
        /\ Refuse(p, "SEMANTIC_GATE_FAILED")
        /\ OneMoreFailure
     \/ /\ ~job[p].fused
        /\ Refuse(p, "GATE_FAILED")
        /\ UNCHANGED failures
  /\ UNCHANGED <<status, holder, repo, books, people, noticed>>

\* commitMergeBounded: git commit concludes whatever merge is open, with the
\* index of the moment; a hook of the target or the signature may refuse it, and
\* a hook that runs after the commit may block until the deadline.
Conclude(p) ==
  /\ At(p, "commit")
  /\ \/ /\ merge # None /\ ~index.unmerged
        /\ target' = Append(target, [by |-> p, kind |-> "merge", work |-> merge.work])
        /\ Close
        /\ \/ Goto(p, "record") /\ UNCHANGED job
           \/ Fails("commit") /\ Refuse(p, "COMMIT_HOOK_REJECTED")
     \/ /\ \E reason \in {"none", "COMMIT_HOOK_REJECTED"} : Refuse(p, reason)
        /\ UNCHANGED <<target, merge, index, noticed>>
  /\ UNCHANGED <<status, holder, branches, books, people, failures>>

\* recordSemanticSuccess, which a resolution always calls, and closeCommitHookTickets,
\* which it does not.
Record(p) ==
  /\ At(p, "record")
  /\ LET byHand == job[p].kind = "resolve" IN
     /\ streak' = IF job[p].fused \/ byHand THEN 0 ELSE streak
     /\ failures' = IF job[p].fused \/ byHand THEN 0 ELSE failures
     /\ tickets' = IF byHand THEN tickets
                   ELSE {t \in tickets : ~(t.work[1] = job[p].agent /\ t.subject = "hook")}
  /\ Goto(p, "meta")
  /\ UNCHANGED <<status, holder, repo, marker, lastMerged, manual, people, noticed, job>>

\* updateAgentMeta.
Meta(p) ==
  /\ At(p, "meta")
  /\ lastMerged' = [lastMerged EXCEPT ![job[p].agent] = job[p].sha]
  /\ IF job[p].kind = "resolve" THEN Goto(p, "close") /\ UNCHANGED job ELSE Finish(p, "merged")
  /\ UNCHANGED <<status, holder, repo, marker, streak, manual, tickets, people, history>>

Abort(p) ==
  /\ At(p, "abort")
  /\ \/ holder # p /\ Finish(p, "lost") /\ UNCHANGED <<merge, index, noticed>>
     \/ /\ holder = p
        /\ IF merge = None THEN UNCHANGED <<merge, index, noticed>> ELSE Close
        /\ IF job[p].reason = "none" \/ job[p].kind = "resolve"
           THEN Finish(p, IF job[p].reason = "none" THEN "failed" ELSE "refused")
           ELSE /\ Goto(p, IF job[p].reason \in {"SEMANTIC_MERGE_FAILED", "SEMANTIC_GATE_FAILED"}
                           THEN "count" ELSE "ticket")
                /\ UNCHANGED job
     \/ Fails("abort") /\ holder = p /\ merge # None /\ Finish(p, "failed")
        /\ UNCHANGED <<merge, index, noticed>>
  /\ UNCHANGED <<status, holder, target, branches, books, people, failures>>

\* Mutant: a refusal of the budget counts as a failure of the LLM.
CountEverything(p) ==
  /\ At(p, "count")
  /\ streak' = streak + 1
  /\ manual' = (manual \/ streak' >= MaxSemanticFailures)
  /\ Goto(p, "ticket")
  /\ UNCHANGED <<status, holder, repo, marker, lastMerged, tickets, people, history, job>>

\* recordSemanticFailure.
Count(p) ==
  /\ At(p, "count")
  /\ streak' = IF job[p].spared THEN streak ELSE streak + 1
  /\ manual' = (manual \/ streak' >= MaxSemanticFailures)
  /\ Goto(p, "ticket")
  /\ UNCHANGED <<status, holder, repo, marker, lastMerged, tickets, people, history, job>>

\* createConflictTicket: one open ticket for a commit of an agent.
FileTicket(p) ==
  /\ At(p, "ticket")
  /\ tickets' = {t \in tickets : t.work # MyWork(p)}
                \cup {[work |-> MyWork(p), subject |-> Subject(job[p].reason)]}
  /\ Finish(p, "refused")
  /\ UNCHANGED <<status, holder, repo, marker, lastMerged, streak, manual, people, history>>

MergeStep(p) ==
  \/ Fetch(p) \/ OpenTheMerge(p) \/ BlindAbort(p) \/ Classify(p) \/ Llm(p) \/ Check(p) \/ Write(p)
  \/ Stamp(p) \/ GateGreen(p) \/ GateRed(p) \/ Conclude(p) \/ Record(p) \/ Meta(p)
  \/ Abort(p) \/ Count(p) \/ FileTicket(p)

-----------------------------------------------------------------------------
(* applyTicketResolutionImpl: the merge of the ticket is opened again, the  *)
(* files a person prepared are written into it, and it goes the way of the  *)
(* other merges from the fingerprint to the registry.                       *)

\* A ticket one of whose files the person prepared is read; its commit may be in the
\* target by now.  The tickets are read before the repository is looked at in the
\* code: under the lock nothing tells the two orders apart.
Replay(p) ==
  /\ At(p, "replay")
  /\ \/ Finish(p, "failed") /\ UNCHANGED <<merge, index, noticed>>
     \/ \E t \in tickets :
          /\ t.work[1] = job[p].agent /\ t.subject = "files"
          /\ LET sha == t.work[2]
                 Reopened(l, goal) ==
                   /\ Goto(p, l)
                   /\ job' = [job EXCEPT ![p].sha = sha, ![p].head = target, ![p].goal = goal]
             IN \/ /\ sha <= Landed(job[p].agent)
                   /\ Reopened("drop", "close")
                   /\ UNCHANGED <<merge, index, noticed>>
                \/ /\ sha > Landed(job[p].agent)
                   /\ Len(target) < MaxTarget                 \* bound
                   /\ merge' = [by |-> p, work |-> t.work]
                   /\ index' \in {MergedIndex, ConflictedIndex}
                   /\ noticed' = FALSE
                   /\ \/ Reopened("apply", "none")
                      \/ Reopened("drop", "none")             \* the conflict is another one
                      \/ ~index'.unmerged /\ Reopened("drop", "close")  \* there is none left
  /\ UNCHANGED <<status, holder, target, branches, books, people, failures>>

\* The prepared files are written and added, or one of them cannot be.
Apply(p) ==
  /\ At(p, "apply")
  /\ \/ /\ index' = [index EXCEPT !.unmerged = FALSE, !.version = @ + 1]
        /\ Goto(p, "stamp")
     \/ Goto(p, "drop") /\ UNCHANGED index
  /\ UNCHANGED <<status, holder, target, branches, merge, books, people, history, job>>

\* Mutant: the ticket of a conflict that changed is closed like that of one that is gone.
DropAndClose(p) ==
  /\ At(p, "drop")
  /\ holder = p
  /\ IF merge = None THEN UNCHANGED <<merge, index, noticed>> ELSE Close
  /\ Goto(p, "close") /\ UNCHANGED job
  /\ UNCHANGED <<status, holder, target, branches, books, people, failures>>

\* abortMerge of a merge that is of no use, opened or not.
Drop(p) ==
  /\ At(p, "drop")
  /\ \/ holder # p /\ Finish(p, "lost") /\ UNCHANGED <<merge, index, noticed>>
     \/ /\ holder = p
        /\ IF merge = None THEN UNCHANGED <<merge, index, noticed>> ELSE Close
        /\ IF job[p].goal = "close" THEN Goto(p, "close") /\ UNCHANGED job ELSE Finish(p, "failed")
     \/ Fails("abort") /\ holder = p /\ merge # None /\ Finish(p, "failed")
        /\ UNCHANGED <<merge, index, noticed>>
  /\ UNCHANGED <<status, holder, target, branches, books, people, failures>>

\* The ticket is closed, and those of the agent that are about one of its files.
CloseTickets(p) ==
  /\ At(p, "close")
  /\ \E twins \in SUBSET {t \in tickets : t.work[1] = job[p].agent} :
       tickets' = {t \in tickets \ twins : t.work # MyWork(p)}
  /\ Finish(p, IF job[p].goal = "close" THEN "clean" ELSE "merged")
  /\ UNCHANGED <<status, holder, repo, marker, lastMerged, streak, manual, people, history>>

ResolveStep(p) == Replay(p) \/ Apply(p) \/ Drop(p) \/ CloseTickets(p)

-----------------------------------------------------------------------------
(* rollbackLastMergeImpl.                                                   *)

\* Mutant: any merge commit at the tip is undone.
RbReadAnyMerge(p) ==
  /\ At(p, "rbRead")
  /\ LET tip == target[Len(target)]
         ours == target # <<>> /\ tip.kind = "merge"
     IN \/ ~ours /\ Finish(p, "failed")
        \/ /\ ours
           /\ Goto(p, "rbSettle")
           /\ job' = [job EXCEPT ![p].head = target, ![p].agent = tip.work[1], ![p].sha = tip.work[2]]
  /\ UNCHANGED <<status, holder, repo, books, people, history>>

\* Only a merge commit of Striart at the tip is undone.
RbRead(p) ==
  /\ At(p, "rbRead")
  /\ LET tip == target[Len(target)]
         ours == target # <<>> /\ tip.by \in Proc /\ tip.kind = "merge"
     IN \/ ~ours /\ Finish(p, "failed")
        \/ /\ ours
           /\ Goto(p, "rbSettle")
           /\ job' = [job EXCEPT ![p].head = target, ![p].agent = tip.work[1], ![p].sha = tip.work[2]]
  /\ UNCHANGED <<status, holder, repo, books, people, history>>

\* settlePendingDeliveries, then the fetch of origin: is the merge published?
RbSettle(p) ==
  /\ At(p, "rbSettle")
  /\ \E goal \in {"rbReset", "rbRevert"} : job' = [job EXCEPT ![p].goal = goal]
  /\ Goto(p, "rbAssert")
  /\ UNCHANGED <<status, holder, repo, books, people, history>>

RbAssert(p) ==
  /\ At(p, "rbAssert")
  /\ IF holder = p THEN Goto(p, job[p].goal) /\ UNCHANGED job ELSE Finish(p, "lost")
  /\ UNCHANGED <<status, holder, repo, books, people, history>>

\* git reset --hard <head>^1, whatever the tip has become.
RbReset(p) ==
  /\ At(p, "rbReset")
  /\ target' = Front(job[p].head)
  /\ Close
  /\ Goto(p, "rbSync")
  /\ UNCHANGED <<status, holder, branches, books, people, failures, job>>

\* revertMergeBounded; refused, it puts back what it found at the tip it read.
RbRevert(p) ==
  /\ At(p, "rbRevert")
  /\ \/ /\ index = CleanIndex
        /\ Len(target) < MaxTarget                        \* bound
        /\ target' = Append(target, [by |-> p, kind |-> "revert", work |-> <<NoOne, 0>>])
        /\ Finish(p, "rolledBack")
        /\ UNCHANGED <<merge, index, noticed>>
     \/ /\ IF holder = p /\ target = job[p].head
           THEN Close ELSE UNCHANGED <<merge, index, noticed>>
        /\ Finish(p, IF holder = p THEN "failed" ELSE "lost")
        /\ UNCHANGED target
  /\ UNCHANGED <<status, holder, branches, books, people, failures>>

\* The undone commits are pending again.
RbSync(p) ==
  /\ At(p, "rbSync")
  /\ \/ lastMerged' = [lastMerged EXCEPT ![job[p].agent] = Landed(job[p].agent)]
     \/ Fails("rbSync") /\ UNCHANGED lastMerged
  /\ Finish(p, "rolledBack")
  /\ UNCHANGED <<status, holder, repo, marker, streak, manual, tickets, people, history>>

RollbackStep(p) ==
  RbRead(p) \/ RbSettle(p) \/ RbAssert(p) \/ RbReset(p) \/ RbRevert(p) \/ RbSync(p)

-----------------------------------------------------------------------------
(* promoteStagingImpl: the main branch goes to the head of the target branch *)
(* once a gate of its own is green.                                         *)

PmRead(p) ==
  /\ At(p, "pmRead")
  /\ \/ IsPrefix(target, main) /\ Finish(p, "upToDate")
     \/ ~IsPrefix(target, main) /\ ~IsPrefix(main, target) /\ Finish(p, "failed")
     \/ /\ ~IsPrefix(target, main) /\ IsPrefix(main, target)
        /\ job' = [job EXCEPT ![p].head = target, ![p].base = main]
        /\ Goto(p, "pmGate")
  /\ UNCHANGED <<status, holder, repo, books, people, history>>

\* runTestGate; red, the target is reset if the caller asked for it.
PmGate(p) ==
  /\ At(p, "pmGate")
  /\ \E goal \in {"pmSwap", "pmReset", "pmTicket"} :
       job' = [job EXCEPT ![p].goal = goal, ![p].gated = target]
  /\ Goto(p, "pmCheck")
  /\ UNCHANGED <<status, holder, repo, books, people, history>>

\* Mutant: the target may have moved while the gate was at work.
PmCheckUnmoved(p) ==
  /\ At(p, "pmCheck")
  /\ \/ holder # p /\ Finish(p, "lost")
     \/ holder = p /\ index # CleanIndex /\ Finish(p, "changed")
     \/ holder = p /\ index = CleanIndex /\ Goto(p, job[p].goal) /\ UNCHANGED job
  /\ UNCHANGED <<status, holder, repo, books, people, history>>

\* The lock is still held; what goes to main is what was tested
\* (assertPromotedTreeIsTested); what is reset has not moved.
PmCheck(p) ==
  /\ At(p, "pmCheck")
  /\ LET intact == CASE job[p].goal = "pmSwap" -> Tree(target) = Tree(job[p].head) /\ index = CleanIndex
                     [] job[p].goal = "pmReset" -> target = job[p].head
                     [] OTHER -> TRUE
     IN \/ holder # p /\ Finish(p, "lost")
        \/ holder = p /\ ~intact /\ Finish(p, "changed")
        \/ holder = p /\ intact /\ Goto(p, job[p].goal) /\ UNCHANGED job
  /\ UNCHANGED <<status, holder, repo, books, people, history>>

\* update-ref with the value that was read: a main branch that moved is left alone.
PmSwap(p) ==
  /\ At(p, "pmSwap")
  /\ \/ main = job[p].base /\ main' = job[p].head /\ Finish(p, "promoted")
     \/ main # job[p].base /\ Finish(p, "failed") /\ UNCHANGED main
  /\ UNCHANGED <<status, holder, target, forgotten, merge, index, books, people, history>>

\* git reset --hard on the main branch, wherever it is by now; unlike rollbackLastMerge
\* it leaves lastMerged as it was.
PmReset(p) ==
  /\ At(p, "pmReset")
  /\ target' = main
  /\ Close
  /\ forgotten' = forgotten \cup {a \in Agent : Landed(a)' < Landed(a)}
  /\ Goto(p, "pmTicket")
  /\ UNCHANGED <<status, holder, main, books, people, failures, job>>

PmTicket(p) ==
  /\ At(p, "pmTicket")
  /\ tickets' = tickets \cup {[work |-> <<NoOne, 0>>, subject |-> "other"]}
  /\ Finish(p, "refused")
  /\ UNCHANGED <<status, holder, repo, marker, lastMerged, streak, manual, people, history>>

PromoteStep(p) == PmRead(p) \/ PmGate(p) \/ PmCheck(p) \/ PmSwap(p) \/ PmReset(p) \/ PmTicket(p)

OperationStep(p) ==
  \/ Enter(p) \/ Recover(p) \/ AbortOrphan(p) \/ Ready(p) \/ Leave(p)
  \/ MergeStep(p) \/ ResolveStep(p) \/ RollbackStep(p) \/ PromoteStep(p)

-----------------------------------------------------------------------------
(* The others: the agents, and whoever uses git in the main repository.     *)

AgentCommits(a) ==
  /\ head[a] < MaxWork
  /\ head' = [head EXCEPT ![a] = @ + 1]
  /\ UNCHANGED <<status, holder, session, repo, books, gestures, history, pc, job>>

Gesture ==
  /\ gestures < MaxHuman
  /\ \A p \in Proc : status[p] = "up" => pc[p] \notin Quiet
  /\ gestures' = gestures + 1
  /\ UNCHANGED <<status, holder, head, marker, lastMerged, tickets, pc, job>>

HumanOpens ==
  /\ Gesture
  /\ index = CleanIndex
  /\ merge' = [by |-> Human, work |-> <<NoOne, gestures'>>]
  /\ \E b \in BOOLEAN : index' = [unmerged |-> b, version |-> 1, touched |-> TRUE]
  /\ noticed' = FALSE
  /\ UNCHANGED <<session, target, branches, streak, manual, failures>>

HumanAborts ==
  /\ Gesture
  /\ merge # None
  /\ Close
  /\ UNCHANGED <<session, target, branches, streak, manual, failures>>

\* git add of something else, in the middle of a merge or not.
HumanTouches ==
  /\ Gesture
  /\ index' = [index EXCEPT !.touched = TRUE]
  /\ UNCHANGED <<session, target, branches, merge, streak, manual, history>>

\* git commit: the open merge, or a commit of his own.
HumanCommits ==
  /\ Gesture
  /\ Len(target) < MaxTarget                              \* bound
  /\ target' = Append(target,
       IF merge # None /\ merge.by # Human
       THEN [by |-> Human, kind |-> "merge", work |-> merge.work]
       ELSE [by |-> Human, kind |-> "other", work |-> <<NoOne, 0>>])
  /\ Close
  /\ UNCHANGED <<session, branches, streak, manual, failures>>

\* A commit that changes no file, and one that goes to the main branch directly: only
\* a promotion tells them from others.
HumanCommitsNothing ==
  /\ Gesture
  /\ "promote" \in Kinds
  /\ merge = None
  /\ Len(target) < MaxTarget                              \* bound
  /\ target' = Append(target, [by |-> Human, kind |-> "empty", work |-> <<NoOne, 0>>])
  /\ UNCHANGED <<session, branches, merge, index, streak, manual, history>>

HumanCommitsToMain ==
  /\ Gesture
  /\ "promote" \in Kinds
  /\ main' = Append(main, [by |-> Human, kind |-> "other", work |-> <<NoOne, 0>>])
  /\ UNCHANGED <<session, target, forgotten, merge, index, streak, manual, history>>

\* The declared session ends, or its shell dies.
SessionEnds ==
  /\ session
  /\ session' = FALSE
  /\ UNCHANGED <<status, holder, head, repo, books, gestures, history, pc, job>>

\* A failed resolution on its way to recordSemanticFailure.
Uncounted(p) ==
  /\ pc[p] \in {"check", "abort", "count"}
  /\ job[p].reason \in {"SEMANTIC_MERGE_FAILED", "SEMANTIC_GATE_FAILED"}
  /\ ~job[p].spared

\* striart resolve --unlock.
Unlock ==
  /\ Gesture
  /\ manual' = FALSE /\ streak' = 0
  /\ failures' = Min({Cardinality({p \in Proc : Uncounted(p)}), MaxSemanticFailures})
  /\ UNCHANGED <<session, repo, noticed>>

-----------------------------------------------------------------------------
(* Faults of processes.                                                     *)

Crash(p) ==
  /\ status[p] # "dead"
  /\ pc[p] \in CrashAt
  /\ status' = [status EXCEPT ![p] = "dead"]
  /\ Goto(p, "out")
  /\ job' = [job EXCEPT ![p] = NoJob]
  /\ UNCHANGED <<holder, repo, books, people, history>>

Freeze(p) ==
  /\ status[p] = "up"
  /\ pc[p] \in FreezeAt
  /\ status' = [status EXCEPT ![p] = "frozen"]
  /\ UNCHANGED <<holder, repo, books, people, history, pc, job>>

Thaw(p) ==
  /\ status[p] = "frozen"
  /\ status' = [status EXCEPT ![p] = "up"]
  /\ UNCHANGED <<holder, repo, books, people, history, pc, job>>

Next ==
  \/ \E p \in Proc :
       \/ \E kind \in Kinds \cap {"merge", "resolve"}, a \in Agent : Acquire(p, kind, a)
       \/ \E kind \in Kinds \ {"merge", "resolve"} : Acquire(p, kind, NoOne)
       \/ OperationStep(p)
       \/ Crash(p) \/ Freeze(p) \/ Thaw(p)
  \/ \E a \in Agent : AgentCommits(a)
  \/ HumanOpens \/ HumanAborts \/ HumanTouches \/ HumanCommits \/ HumanCommitsNothing
  \/ HumanCommitsToMain \/ SessionEnds \/ Unlock

Spec == Init /\ [][Next]_vars

(* An operation under way goes on (its commands have time limits), and      *)
(* somebody keeps asking for merges: the watch loop does, for every agent.  *)
FairSpec ==
  /\ Spec
  /\ \A p \in Proc : WF_vars(OperationStep(p))
  /\ \A p \in Proc, a \in Agent : WF_vars(Acquire(p, "merge", a))

-----------------------------------------------------------------------------
(* What the properties assume of the timing.                                *)

\* From a check to the effect it allows, and from the arrival to git merge.
Windows == {"abortOrphan", "ready", "fetch", "open", "write", "commit", "abort", "blindAbort",
            "replay", "apply", "drop",
            "rbRead", "rbSettle", "rbAssert", "rbReset", "rbRevert",
            "pmRead", "pmCheck", "pmSwap", "pmReset"}

\* What lasts: the LLM, the gate.
Long == {"llm", "gate", "pmGate"}

\* A process is suspended for long in what lasts, and no human acts between a look at
\* the repository and the effect it allows.
Shielded == Windows \subseteq Quiet /\ FreezeAt \subseteq Long

-----------------------------------------------------------------------------
(* Properties.                                                              *)

\* The process that takes this step.
Acting(p) == pc'[p] # pc[p]

\* What Striart commits is the merge it opened, on the HEAD it merged into, with
\* the very index its Test Gate found green (mergeAgentCommitImpl: "avant
\* l'effet irreversible, le merge ouvert doit etre toujours le notre").
OnlyTestedLands ==
  [][\A p \in Proc :
       (Acting(p) /\ pc[p] = "commit" /\ target' # target) =>
         /\ holder = p
         /\ merge.by = p
         /\ target = job[p].head
         /\ index = job[p].tested]_vars

\* What is promoted has the tree a gate found green, and the main branch goes forward
\* from what it is (promoteStagingImpl: "le SHA EXACT qui a passe le gate"; "main
\* n'avance QUE par fast-forward").
TestedPromoted ==
  [][\A p \in Proc :
       (Acting(p) /\ main' # main) =>
         /\ holder = p
         /\ Tree(main') = Tree(job[p].gated)
         /\ IsPrefix(main, main')]_vars

\* An operation undoes no merge but its own.  What it finds on arrival is another
\* matter (recoverOrphanMerge), and the rollback of a promotion looks at HEAD only:
\* its reset takes with it whatever is open by then.
OwnMergesOnly ==
  [][\A p \in Proc :
       (Acting(p) /\ merge # None /\ merge' = None /\ pc[p] \notin {"abortOrphan", "pmReset"})
         => merge.by = p]_vars

\* Once an operation recorded that the open merge is not its own, no operation
\* of Striart closes it: people do.
NoticedKept ==
  [][\A p \in Proc : (Acting(p) /\ noticed) => merge' = merge]_vars

\* While a main session is declared, nothing of Striart moves the target branch,
\* MERGE_HEAD or the index, not even an operation that wakes up late.
SessionRespected ==
  [][\A p \in Proc : (Acting(p) /\ session) => UNCHANGED repo]_vars

\* No commit of a human leaves the target branch (rollbackLastMerge: "on ne defait
\* jamais un commit humain"), save by the rollback of a promotion, and then it was
\* there when the promotion began.
HumanCommitsStay ==
  [][\A n \in 1..Len(target) :
       target[n].by = Human =>
         \/ n <= Len(target') /\ target'[n] = target[n]
         \/ \E p \in Proc : Acting(p) /\ job[p].kind = "promote" /\ target = job[p].head]_vars

CommittedBy(p) == [by |-> p, kind |-> "merge", work |-> MyWork(p)] \in Commits

\* What an operation answers is true of the branch when it answers: merged or up
\* to date work is there (unless the rollback of a promotion took it away, which the
\* registry is not told: promoteStagingImpl), refused or interrupted work was not committed, a refusal
\* left a ticket for a human, and a ticket that was resolved is no longer open.
AnswersTrue ==
  \A p \in Proc :
    pc[p] = "leave" /\ status[p] = "up" /\ job[p].kind \in {"merge", "resolve"} =>
      /\ job[p].result \in {"merged", "upToDate"} =>
           job[p].sha <= Landed(job[p].agent) \/ job[p].agent \in forgotten
      /\ job[p].result = "merged" => lastMerged[job[p].agent] = job[p].sha
      /\ job[p].result \in {"refused", "changed", "failed"} /\ job[p].sha > 0 => ~CommittedBy(p)
      /\ job[p].result = "refused" /\ job[p].sha > 0 =>
           \E t \in tickets : t.work = MyWork(p)
      /\ job[p].kind = "resolve" /\ job[p].result \in {"merged", "clean"} =>
           \A t \in tickets : t.work # MyWork(p)

\* The manual mode is entered after three resolutions by the LLM that failed in a row,
\* of the LLM itself or of the files it fused, and by nothing else (isBudgetRefusal: a
\* refused budget is no failure, nor is a lost lock or a merge somebody changed).
ManualOnFailures == [][~manual /\ manual' => failures >= MaxSemanticFailures]_vars

\* The open merge was left by a process that died.
Orphaned == merge # None /\ merge.by \in Proc /\ status[merge.by] = "dead" /\ ~noticed

\* A merge left open by a process that died does not block the repository for
\* ever, as long as somebody asks for a merge and no human stands in the way.
DebrisCleared ==
  Orphaned ~> (~Orphaned \/ session \/ \A p \in Proc : status[p] # "up")
=============================================================================
