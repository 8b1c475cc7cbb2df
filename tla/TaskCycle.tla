-------------------------------- MODULE TaskCycle --------------------------------
(***************************************************************************)
(* The life of a task (src/src/orchestrator.ts, clone.ts, queue.ts,           *)
(* autonomous-cycle.ts): admitted, queued behind the agents it may collide     *)
(* with, given a clone and an entry of the registry, worked on by a person or  *)
(* by a session Striart starts, merged, stopped, its clone removed.  `striart  *)
(* start` and the candidates of a race (orchestration/) enter at the clone,    *)
(* and look neither at the queue nor at the collisions.                        *)
(*                                                                             *)
(* The main lock is taken in one step (MainLock) and one write of the registry *)
(* or of the queue is one step (StateLock); a merge is its two effects         *)
(* (MergeChain has the rest).                                                  *)
(***************************************************************************)
EXTENDS Naturals, Sequences, FiniteSets, SequencesExt

CONSTANTS
  Proc,         \* processes of Striart
  Duties,       \* what each process is asked to do
  Agent,        \* names of agents
  Predicted,    \* the files the Router predicts for the task of each name
  WholeRepo,    \* the prediction of a task nobody can place
  Requests,     \* the tasks people and plans ask for
  Starts,       \* the agents they start directly
  MaxCommits,   \* commits an agent makes in its clone
  Nobody,       \* the main lock is free
  NoAgent,      \* a task without `after`
  NoPid, AgentPid, DeadPid,  \* sessionPid: none, that of the agent of the clone, of nobody
  CrashAt,      \* program points where a process may be killed
  MaxCrashes,   \* and how many times
  FailAt,       \* steps that may fail: "register", "rm", the "pass" with a task of it
  Windows       \* what may happen between a look and the effect it allows:
                \* "work", "publish"

Ops == {"run", "start", "stop", "clean", "merge", "reconcile"}
Modes == {"attended", "autonomous"}

ASSUME TaskAssumption ==
  /\ Duties \in [Proc -> SUBSET Ops]
  /\ DOMAIN Predicted = Agent
  /\ MaxCommits \in [Agent -> Nat]
  /\ Nobody \notin Proc
  /\ NoAgent \notin Agent
  /\ Requests \subseteq [agent : Agent, after : Agent \cup {NoAgent}, mode : {"attended", "autonomous"},
                          reuse : BOOLEAN, force : BOOLEAN]
  /\ Starts \subseteq [agent : Agent, like : Agent \cup {NoAgent}, reuse : BOOLEAN, force : BOOLEAN]
  /\ \A s \in Starts : s.like # s.agent /\ (s.like = NoAgent \/ ~s.reuse)
  /\ {NoPid, AgentPid, DeadPid} \cap Proc = {}
  /\ NoPid # AgentPid /\ NoPid # DeadPid /\ AgentPid # DeadPid
  /\ MaxCrashes \in Nat
  /\ Windows \subseteq {"work", "publish"}

VARIABLES
  lock,         \* the main lock
  registry,     \* agents.json: the entries of the agents that are there
  clone,        \* their directories: commits made in the clone, uncommitted work
  landed,       \* how many of these commits the target branch has
  marker,       \* .striart/removing/: the removals that were decided
  queue,        \* queue.json
  live,         \* the sessions of coding agents that run
  pc, job,      \* of each process: program point, what it is about
  pass,         \* the tasks left in its pass over the queue
  forsaken,     \* history: clones somebody gave up with force
  over,         \* history: whom each agent was started over without a look, itself included
  crashes       \* processes killed so far

vars == <<lock, registry, clone, landed, marker, queue, live, pc, job, pass, forsaken, over, crashes>>

Pid == Proc \cup {NoPid, AgentPid, DeadPid}
Files == UNION {Predicted[a] : a \in Agent}
Entry == [mode : Modes, files : SUBSET Files, merged : Nat, sess : Pid, failed : BOOLEAN, removing : BOOLEAN]
Clone == [commits : Nat, dirty : BOOLEAN]
Task == [agent : Agent, after : Agent \cup {NoAgent}, reuse : BOOLEAN, by : Proc]
Job == [why : {"asked", "queue", "cycle", "resume"}, agent : Agent \cup {NoAgent},
        like : Agent \cup {NoAgent}, after : Agent \cup {NoAgent}, mode : Modes, reuse : BOOLEAN, force : BOOLEAN,
        sha : Nat, todo : SUBSET Agent]

PCs == {"idle", "routed", "clone", "register", "dequeue", "withdraw", "retry",
        "stopRemove", "mark", "flag", "rm", "unregister", "unmark", "resume", "sync",
        "publish", "spawn", "announce", "session", "commit", "unpublish", "tip",
        "merge", "cleanup"}

TypeOK ==
  /\ lock \in Proc \cup {Nobody}
  /\ DOMAIN registry \subseteq Agent /\ \A a \in DOMAIN registry : registry[a] \in Entry
  /\ DOMAIN clone \subseteq Agent /\ \A a \in DOMAIN clone : clone[a] \in Clone
  /\ landed \in [Agent -> Nat]
  /\ marker \subseteq Agent
  /\ queue \in Seq(Task)
  /\ live \subseteq Agent
  /\ pc \in [Proc -> PCs]
  /\ job \in [Proc -> Job]
  /\ pass \in [Proc -> Seq(Task)]
  /\ forsaken \subseteq Agent
  /\ over \in [Agent -> SUBSET Agent]
  /\ crashes \in 0..MaxCrashes

NoJob == [why |-> "asked", agent |-> NoAgent, like |-> NoAgent, after |-> NoAgent,
          mode |-> "attended", reuse |-> FALSE, force |-> FALSE, sha |-> 0, todo |-> {}]

Init ==
  /\ lock = Nobody
  /\ registry = <<>>
  /\ clone = <<>>
  /\ landed = [a \in Agent |-> 0]
  /\ marker = {}
  /\ queue = <<>>
  /\ live = {}
  /\ pc = [p \in Proc |-> "idle"]
  /\ job = [p \in Proc |-> NoJob]
  /\ pass = [p \in Proc |-> <<>>]
  /\ forsaken = {}
  /\ over = [a \in Agent |-> {}]
  /\ crashes = 0

-----------------------------------------------------------------------------
(* What the code asks of the registry and of the queue. *)

Active == DOMAIN registry
OnDisk == DOMAIN clone
Queued == {queue[i].agent : i \in DOMAIN queue}
Without(f, a) == [b \in DOMAIN f \ {a} |-> f[b]]
With(f, a, v) == [b \in DOMAIN f \cup {a} |-> IF b = a THEN v ELSE f[b]]

\* isProcessAlive of sessionPid.  DeadPid was published by a process that died.
Alive(a) ==
  a \in Active /\ (registry[a].sess \in Proc \/ (registry[a].sess = AgentPid /\ a \in live))

\* Mutant: a clone without a session counts as failed, whether or not it did.
FailedOrQuiet(a) == registry[a].mode = "autonomous" /\ ~registry[a].removing /\ registry[a].sess = NoPid

\* failedKeptSessionStatus
FailedKept(a) ==
  LET e == registry[a]
  IN  e.failed /\ e.mode = "autonomous" /\ ~e.removing /\ e.sess = NoPid

\* detectCollisionsDetailed: a prediction of files, and an entry.
Clash(f, g) == WholeRepo \in f \cup g \/ f \cap g # {}
Collides(a, b) ==
  /\ Clash(Predicted[a], registry[b].files)
  /\ WholeRepo \in Predicted[a] \cup registry[b].files => ~FailedKept(b)
Collisions(a) == {b \in Active : Collides(a, b)}

\* isWorkActive
WorkActive(a) == a \in Active \cup Queued

\* Mutant: only a task that waits for itself is refused.
AfterItself(a, after) == after = a

\* hasAfterCycle: the chain of `after` through the queue comes back to a.
AfterCycle(a, after) ==
  LET next == [b \in Queued |-> queue[CHOOSE i \in DOMAIN queue : queue[i].agent = b].after]
      chain[k \in Nat] ==
        IF k = 0 THEN after
        ELSE IF chain[k - 1] \in Queued THEN next[chain[k - 1]] ELSE NoAgent
  IN  \/ \E k \in 0..Len(queue) : chain[k] = a
      \/ chain[Len(queue) + 1] # NoAgent

\* Mutant: a name that waits in the queue is free.
AdmissibleQueued(a, after) ==
  /\ a \notin Active
  /\ after # NoAgent => WorkActive(after) /\ ~AfterCycle(a, after)

\* assertTaskAdmissible
Admissible(a, after) ==
  /\ a \notin Active
  /\ a \notin Queued
  /\ after # NoAgent => WorkActive(after) /\ ~AfterCycle(a, after)

\* agentHasPendingWork
Pending(a) == clone[a].commits # registry[a].merged \/ clone[a].dirty

\* A process is between its look at a and the effect it allows.
Decided(a) ==
  \/ a \in marker /\ (a \in Active => registry[a].removing)
  \/ \E p \in Proc : job[p].agent = a /\ pc[p] \in {"stopRemove", "mark", "flag", "rm", "unregister"}

\* A session has ended, and the process that started it has not said so yet.
Ending(a) == a \notin live /\ \E p \in Proc : job[p].agent = a /\ pc[p] = "session"
MayLook(a) == "publish" \in Windows \/ ~Ending(a)

\* A session is about to be published under the name a, by a process that does not
\* look whether the entry is still the one it registered.
Awaited(a) == \E p \in Proc : job[p].agent = a /\ pc[p] = "publish"
MayCreate(a) == "publish" \in Windows \/ ~Awaited(a)

-----------------------------------------------------------------------------
Goto(p, l) == pc' = [pc EXCEPT ![p] = l]
Fails(c) == c \in FailAt
Does(p, op) == pc[p] = "idle" /\ op \in Duties[p]

\* The lock is taken, in the step that looks at what it protects.
Locks(p, l) == lock' = p /\ Goto(p, l)

\* The end of what a process was asked, under the lock or not.
Done(p) ==
  /\ Goto(p, "idle")
  /\ job' = [job EXCEPT ![p] = NoJob]
  /\ lock' = IF lock = p THEN Nobody ELSE lock

-----------------------------------------------------------------------------
(* run *)

\* runTask: the first look, on a snapshot, before the Router is asked.
Ask(p, r) ==
  /\ Does(p, "run")
  /\ Admissible(r.agent, r.after)
  /\ job' = [job EXCEPT ![p] = [NoJob EXCEPT !.agent = r.agent, !.like = r.agent,
                                   !.after = r.after, !.mode = r.mode, !.reuse = r.reuse, !.force = r.force]]
  /\ Goto(p, "routed")
  /\ UNCHANGED <<lock, registry, clone, landed, marker, queue, live, pass, forsaken, over, crashes>>

\* runTaskLocked: the look that counts, and the queue.  A task a plan asked for
\* is withdrawn from it.
RunLocked(p) ==
  /\ pc[p] = "routed"
  /\ lock = Nobody
  /\ LET j == job[p]
     IN  \/ /\ ~Admissible(j.agent, j.after)
            /\ Done(p)
            /\ UNCHANGED queue
         \/ /\ Admissible(j.agent, j.after)
            /\ Collisions(j.agent) # {} \/ j.after # NoAgent
            /\ queue' = Append(queue, [agent |-> j.agent, after |-> j.after,
                                        reuse |-> j.reuse, by |-> p])
            /\ \/ Done(p)
               \/ /\ j.mode = "autonomous" /\ j.after = NoAgent
                  /\ Goto(p, "withdraw")
                  /\ UNCHANGED <<lock, job>>
         \/ /\ Admissible(j.agent, j.after)
            /\ Collisions(j.agent) = {} /\ j.after = NoAgent
            /\ Locks(p, "clone")
            /\ UNCHANGED <<queue, job>>
  /\ UNCHANGED <<registry, clone, landed, marker, live, pass, forsaken, over, crashes>>

\* removeTask, by its id: a name is in the queue once (Admissible), and who queued it
\* tells this task from a later one of the same name.
RemoveTask(places) == queue' = IF places = {} THEN queue ELSE RemoveAt(queue, CHOOSE i \in places : TRUE)

\* removeTask, by a node of a plan: what is queued would start attended.  A pass over
\* the queue that has read it may start it all the same.
Withdraw(p) ==
  /\ pc[p] = "withdraw"
  /\ RemoveTask({i \in DOMAIN queue : queue[i].agent = job[p].agent /\ queue[i].by = p})
  /\ Done(p)
  /\ UNCHANGED <<registry, clone, landed, marker, live, pass, forsaken, over, crashes>>

\* startAgent (`striart start`), by a person and without a prediction, and the next
\* candidates of a race (startOrchestratedClone), which take the prediction of the
\* first: createAgent or reuseAgent at once, whatever the queue and the collisions.
Start(p, s) ==
  /\ Does(p, "start")
  /\ lock = Nobody
  /\ Locks(p, "clone")
  /\ job' = [job EXCEPT ![p] = [NoJob EXCEPT !.agent = s.agent, !.like = s.like, !.reuse = s.reuse,
                 !.force = s.force, !.mode = IF s.like = NoAgent THEN "attended" ELSE "autonomous"]]
  /\ UNCHANGED <<registry, clone, landed, marker, queue, live, pass, forsaken, over, crashes>>

\* assertNoPendingRemoval: a marker without a directory nor an entry is a leftover.
Removing(a) == a \in marker /\ a \in OnDisk \cup Active

\* A task that could not start stays in the queue, and the next one is looked at,
\* unless the error is not its own (isInfrastructureError): the pass ends.
NotStarted(p) ==
  \/ /\ job[p].why = "queue"
     /\ Goto(p, "retry")
     /\ job' = [job EXCEPT ![p] = NoJob]
     /\ UNCHANGED <<lock, pass>>
  \/ /\ job[p].why = "queue" => Fails("pass")
     /\ Done(p)
     /\ pass' = [pass EXCEPT ![p] = <<>>]

\* createAgentImpl: a clone of the target branch.
CreateClone(p) ==
  /\ pc[p] = "clone"
  /\ ~job[p].reuse /\ MayCreate(job[p].agent)
  /\ LET a == job[p].agent
     IN  IF Removing(a) \/ a \in Active \cup OnDisk
         THEN NotStarted(p) /\ UNCHANGED <<clone, landed, marker, forsaken>>
         ELSE /\ clone' = With(clone, a, [commits |-> 0, dirty |-> FALSE])
              /\ landed' = [landed EXCEPT ![a] = 0]
              /\ marker' = marker \ {a}
              /\ forsaken' = forsaken \ {a}
              /\ Goto(p, "register")
              /\ UNCHANGED <<job, lock, pass>>
  /\ UNCHANGED <<registry, queue, live, over, crashes>>

\* reuseAgentImpl: the archive of a stopped agent, back on the target branch.
ReuseClone(p) ==
  /\ pc[p] = "clone"
  /\ job[p].reuse /\ MayCreate(job[p].agent)
  /\ LET a == job[p].agent
     IN  IF \/ a \in Active \/ Removing(a) \/ a \notin OnDisk
            \/ ~job[p].force /\ (clone[a].dirty \/ clone[a].commits > landed[a])
         THEN NotStarted(p) /\ UNCHANGED <<clone, landed, marker, forsaken>>
         ELSE /\ clone' = [clone EXCEPT ![a] = [commits |-> 0, dirty |-> FALSE]]
              /\ landed' = [landed EXCEPT ![a] = 0]
              /\ marker' = marker \ {a}
              /\ forsaken' = forsaken \ {a}
              /\ Goto(p, "register")
              /\ UNCHANGED <<job, lock, pass>>
  /\ UNCHANGED <<registry, queue, live, over, crashes>>

\* registerAgent.  A new clone that cannot be registered is discarded.
Register(p) ==
  /\ pc[p] = "register"
  /\ LET a == job[p].agent
         like == job[p].like
     IN  \/ /\ registry' = With(registry, a,
                 [mode |-> job[p].mode, files |-> IF like = NoAgent THEN {} ELSE Predicted[like],
                  merged |-> 0, sess |-> NoPid, failed |-> FALSE, removing |-> FALSE])
            /\ over' = [b \in Agent |-> IF b # a THEN over[b] \ {a}
                                       ELSE IF like = a THEN {} ELSE Active \cup {a}]
            /\ CASE job[p].why = "queue" -> Goto(p, "dequeue") /\ UNCHANGED <<lock, job>>
                 [] job[p].why # "queue" /\ job[p].mode = "autonomous" ->
                      /\ Goto(p, "publish")
                      /\ job' = [job EXCEPT ![p] = [NoJob EXCEPT !.why = "cycle", !.agent = a,
                                                                 !.like = like]]
                      /\ lock' = Nobody
                 [] OTHER -> Done(p)
            /\ UNCHANGED <<clone, pass>>
         \/ /\ Fails("register")
            /\ clone' = IF job[p].reuse THEN clone ELSE Without(clone, a)
            /\ NotStarted(p)
            /\ UNCHANGED <<registry, over>>
  /\ UNCHANGED <<landed, marker, queue, live, forsaken, crashes>>

-----------------------------------------------------------------------------
(* The pass over the queue: stop, reconcile and `queue --retry` end with it. *)

\* readQueue, once: the tasks of the pass.
Passes(p) ==
  /\ pass' = [pass EXCEPT ![p] = queue]
  /\ job' = [job EXCEPT ![p] = NoJob]
  /\ Goto(p, "retry")

\* What holds a task back, read for each of them.
HeldBack(t) ==
  \/ Collisions(t.agent) # {}
  \/ t.agent \in Active
  \/ t.after # NoAgent /\ WorkActive(t.after)

\* retryQueueImpl
Retry(p) ==
  /\ pc[p] = "retry"
  /\ IF pass[p] = <<>>
     THEN Done(p) /\ UNCHANGED pass
     ELSE LET t == Head(pass[p])
          IN  /\ pass' = [pass EXCEPT ![p] = Tail(@)]
              /\ UNCHANGED lock
              /\ IF HeldBack(t)
                 THEN UNCHANGED <<pc, job>>
                 ELSE /\ job' = [job EXCEPT ![p] = [NoJob EXCEPT !.why = "queue",
                                            !.agent = t.agent, !.like = t.agent,
                                            !.reuse = t.reuse]]
                      /\ Goto(p, "clone")
  /\ UNCHANGED <<registry, clone, landed, marker, queue, live, forsaken, over, crashes>>

\* removeTask, once the agent of the task is registered.
Dequeue(p) ==
  /\ pc[p] = "dequeue"
  /\ RemoveTask({i \in DOMAIN queue : queue[i].agent = job[p].agent})
  /\ job' = [job EXCEPT ![p] = NoJob]
  /\ Goto(p, "retry")
  /\ UNCHANGED <<lock, registry, clone, landed, marker, live, pass, forsaken, over, crashes>>

-----------------------------------------------------------------------------
(* stop, clean, merge, reconcile *)

GiveUp(a, force) == forsaken' = IF force THEN forsaken \cup {a} ELSE forsaken
About(p, a) == job' = [job EXCEPT ![p] = [NoJob EXCEPT !.agent = a]]

\* stopAgentImpl: refused while a session lives, and without force while commits wait.
Stop(p, a, force) ==
  /\ Does(p, "stop")
  /\ lock = Nobody
  /\ a \in Active /\ ~Alive(a) /\ MayLook(a)
  /\ a \in OnDisk => force \/ clone[a].commits = registry[a].merged
  /\ Locks(p, "stopRemove")
  /\ About(p, a)
  /\ GiveUp(a, force)
  /\ UNCHANGED <<registry, clone, landed, marker, queue, live, pass, over, crashes>>

\* removeAgentFromRegistry, then the queue; the clone stays on disk.
StopRemove(p) ==
  /\ pc[p] = "stopRemove"
  /\ registry' = Without(registry, job[p].agent)
  /\ Passes(p)
  /\ UNCHANGED <<lock, clone, landed, marker, queue, live, forsaken, over, crashes>>

\* Mutant: force also removes the clone of a session that runs.
RemovableByForce(a, force) ==
  a \in OnDisk /\ (a \in Active => force \/ (~Alive(a) /\ ~Pending(a)))

\* cleanClonesImpl: what may be removed.
Removable(a, force) ==
  a \in OnDisk /\ (a \in Active => ~Alive(a) /\ (force \/ ~Pending(a)))

Clean(p, a, force) ==
  /\ Does(p, "clean")
  /\ lock = Nobody
  /\ Removable(a, force) /\ MayLook(a)
  /\ Locks(p, "mark")
  /\ About(p, a)
  /\ GiveUp(a, force)
  /\ UNCHANGED <<registry, clone, landed, marker, queue, live, pass, over, crashes>>

\* removeClone: the decision is written down twice,
Mark(p) ==
  /\ pc[p] = "mark"
  /\ marker' = marker \cup {job[p].agent}
  /\ Goto(p, "flag")
  /\ UNCHANGED <<lock, registry, clone, landed, queue, live, job, pass, forsaken, over, crashes>>

Flag(p) ==
  /\ pc[p] = "flag"
  /\ LET a == job[p].agent
     IN  registry' = IF a \in Active THEN [registry EXCEPT ![a].removing = TRUE] ELSE registry
  /\ Goto(p, "rm")
  /\ UNCHANGED <<lock, clone, landed, marker, queue, live, job, pass, forsaken, over, crashes>>

\* The end of a removal, completed or not.
Removed(p) ==
  IF job[p].why = "resume" THEN Goto(p, "resume") /\ UNCHANGED <<lock, job>> ELSE Done(p)

\* finishCloneRemoval: the directory, which a process may hold (BUSY),
Rm(p) ==
  /\ pc[p] = "rm"
  /\ LET a == job[p].agent
     IN  \/ /\ clone' = Without(clone, a)
            /\ landed' = [landed EXCEPT ![a] = 0]
            /\ forsaken' = forsaken \ {a}
            /\ Goto(p, "unregister")
            /\ UNCHANGED <<lock, job>>
         \/ /\ Fails("rm")
            /\ Removed(p)
            /\ UNCHANGED <<clone, landed, forsaken>>
  /\ UNCHANGED <<registry, marker, queue, live, pass, over, crashes>>

\* the entry, when it is the one that was flagged,
Unregister(p) ==
  /\ pc[p] = "unregister"
  /\ LET a == job[p].agent
     IN  registry' = IF a \in Active /\ registry[a].removing THEN Without(registry, a) ELSE registry
  /\ Goto(p, "unmark")
  /\ UNCHANGED <<lock, clone, landed, marker, queue, live, job, pass, forsaken, over, crashes>>

\* and the marker.
Unmark(p) ==
  /\ pc[p] = "unmark"
  /\ marker' = marker \ {job[p].agent}
  /\ Removed(p)
  /\ UNCHANGED <<registry, clone, landed, queue, live, pass, forsaken, over, crashes>>

\* reconcileImpl: session PIDs of the dead are cleared, each if it is still there,
\* and the removals that were decided are listed.
Reconcile(p) ==
  /\ Does(p, "reconcile")
  /\ lock = Nobody
  /\ registry' = [a \in Active |-> IF Alive(a) THEN registry[a]
                                   ELSE [registry[a] EXCEPT !.sess = NoPid]]
  /\ job' = [job EXCEPT ![p] = [NoJob EXCEPT !.why = "resume",
                                  !.todo = marker \cup {a \in Active : registry[a].removing}]]
  /\ Locks(p, "resume")
  /\ UNCHANGED <<clone, landed, marker, queue, live, pass, forsaken, over, crashes>>

\* resumeCloneRemovals, one name after the other, then the queue.
Resume(p) ==
  /\ pc[p] = "resume"
  /\ \/ /\ job[p].todo = {}
        /\ Passes(p)
     \/ \E a \in job[p].todo :
          /\ IF Alive(a) \/ (a \in Active /\ ~registry[a].removing)
             THEN /\ job' = [job EXCEPT ![p].todo = @ \ {a}]
                  /\ UNCHANGED pc
             ELSE /\ job' = [job EXCEPT ![p].todo = @ \ {a}, ![p].agent = a]
                  /\ Goto(p, "rm")
          /\ UNCHANGED pass
  /\ UNCHANGED <<lock, registry, clone, landed, marker, queue, live, forsaken, over, crashes>>

\* mergeAgentCommitImpl: refused, up to date, already in the target branch, blocked
\* (a gate, a conflict), or one SHA fetched and merged.
MergeUnder(p, a) ==
  IF a \notin Active \cap OnDisk \/ Alive(a)
  THEN Done(p) /\ UNCHANGED landed
  ELSE LET head == clone[a].commits
           merged == head = registry[a].merged
       IN  \/ /\ merged
              /\ IF job[p].why = "cycle" /\ head > 0
                 THEN Goto(p, "cleanup") /\ UNCHANGED <<lock, job>>
                 ELSE Done(p)
              /\ UNCHANGED landed
           \/ /\ ~merged
              /\ landed' = [landed EXCEPT ![a] = head]
              /\ job' = [job EXCEPT ![p] = [NoJob EXCEPT !.why = job[p].why, !.agent = a,
                                                         !.sha = head]]
              /\ Locks(p, "sync")
           \/ /\ head > landed[a]
              /\ Done(p)
              /\ UNCHANGED landed

Merge(p, a) ==
  /\ Does(p, "merge")
  /\ a \in Active
  /\ lock = Nobody
  /\ MergeUnder(p, a)
  /\ UNCHANGED <<registry, clone, marker, queue, live, pass, forsaken, over, crashes>>

\* Mutant: the head of the clone is recorded as merged, not the SHA that was.
SyncHead(p) ==
  /\ pc[p] = "sync"
  /\ LET a == job[p].agent
     IN  registry' = IF a \in Active \cap OnDisk
                     THEN [registry EXCEPT ![a].merged = clone[a].commits] ELSE registry
  /\ IF job[p].why = "cycle"
     THEN Goto(p, "cleanup") /\ lock' = Nobody /\ UNCHANGED job
     ELSE Done(p)
  /\ UNCHANGED <<clone, landed, marker, queue, live, pass, forsaken, over, crashes>>

\* lastMergedCommit: the SHA that was merged, whatever was committed since.
Sync(p) ==
  /\ pc[p] = "sync"
  /\ LET a == job[p].agent
     IN  registry' = IF a \in Active THEN [registry EXCEPT ![a].merged = job[p].sha] ELSE registry
  /\ IF job[p].why = "cycle"
     THEN Goto(p, "cleanup") /\ lock' = Nobody /\ UNCHANGED job
     ELSE Done(p)
  /\ UNCHANGED <<clone, landed, marker, queue, live, pass, forsaken, over, crashes>>

-----------------------------------------------------------------------------
(* The cycle of an autonomous session: runAutonomousTask *)

SetSess(a, s) == registry' = [registry EXCEPT ![a].sess = s]
MayPublish(a) == "publish" \in Windows \/ ~Decided(a)

\* The PID of this process, before the session starts.
Publish(p) ==
  /\ pc[p] = "publish"
  /\ LET a == job[p].agent
     IN  IF a \notin Active
         THEN Done(p) /\ UNCHANGED registry
         ELSE MayPublish(a) /\ SetSess(a, p) /\ Goto(p, "spawn") /\ UNCHANGED <<job, lock>>
  /\ UNCHANGED <<clone, landed, marker, queue, live, pass, forsaken, over, crashes>>

\* runAgentSession: a process that may outlive this one.
Spawn(p) ==
  /\ pc[p] = "spawn"
  /\ live' = live \cup {job[p].agent}
  /\ Goto(p, "announce")
  /\ UNCHANGED <<lock, registry, clone, landed, marker, queue, job, pass, forsaken, over, crashes>>

\* onSpawn: its own PID instead.
Announce(p) ==
  /\ pc[p] = "announce"
  /\ LET a == job[p].agent
     IN  IF a \in Active THEN SetSess(a, AgentPid) ELSE UNCHANGED registry
  /\ Goto(p, "session")
  /\ UNCHANGED <<lock, clone, landed, marker, queue, live, job, pass, forsaken, over, crashes>>

\* concludeAutonomousSession: one write says that the session is over, whether it
\* failed without a commit, and who commits what it left.  A race candidate keeps its
\* PID in any case, and the marker of a failure as it is (withGroupSession, runTurn).
Conclude(p) ==
  /\ pc[p] = "session"
  /\ LET a == job[p].agent
         race == job[p].like # a
         hasCommits == a \in OnDisk => clone[a].commits > 0
         write(sess, failed) ==
           registry' = IF a \in Active
                       THEN [registry EXCEPT ![a].sess = sess, ![a].failed = failed]
                       ELSE registry
     IN  /\ a \notin live
         /\ \/ /\ MayPublish(a)
               /\ write(p, race /\ registry[a].failed)
               /\ Goto(p, "commit")
               /\ UNCHANGED <<lock, job>>
            \/ /\ ~race
               /\ write(NoPid, FALSE)
               /\ Goto(p, "tip")
               /\ UNCHANGED <<lock, job>>
            \/ /\ ~race
               /\ \E failed \in {FALSE, ~hasCommits} : write(NoPid, failed)
               /\ Done(p)
  /\ UNCHANGED <<clone, landed, marker, queue, live, pass, forsaken, over, crashes>>

\* applyCommitContract: what the agent left is committed, or the clone is kept.
Commit(p) ==
  /\ pc[p] = "commit"
  /\ LET a == job[p].agent
     IN  \/ /\ a \in OnDisk
            /\ clone' = IF clone[a].dirty /\ clone[a].commits < MaxCommits[a]
                        THEN [clone EXCEPT ![a] = [commits |-> @.commits + 1, dirty |-> FALSE]]
                        ELSE clone
            /\ UNCHANGED job
         \/ job' = [job EXCEPT ![p].force = TRUE] /\ UNCHANGED clone
  /\ Goto(p, "unpublish")
  /\ UNCHANGED <<lock, registry, landed, marker, queue, live, pass, forsaken, over, crashes>>

\* The PID goes before the merge, which it would refuse.
Unpublish(p) ==
  /\ pc[p] = "unpublish"
  /\ LET a == job[p].agent
     IN  IF a \in Active THEN SetSess(a, NoPid) ELSE UNCHANGED registry
  /\ IF job[p].force THEN Done(p) ELSE Goto(p, "tip") /\ UNCHANGED <<lock, job>>
  /\ UNCHANGED <<clone, landed, marker, queue, live, pass, forsaken, over, crashes>>

\* Nothing new on the branch, or a policy that leaves the merge to a person.
Tip(p) ==
  /\ pc[p] = "tip"
  /\ \/ Done(p)
     \/ /\ job[p].agent \in OnDisk /\ clone[job[p].agent].commits > 0
        /\ Goto(p, "merge")
        /\ UNCHANGED <<lock, job>>
  /\ UNCHANGED <<registry, clone, landed, marker, queue, live, pass, forsaken, over, crashes>>

\* mergeAndCleanClone: two holds of the lock, and never force.
CycleMerge(p) ==
  /\ pc[p] = "merge"
  /\ lock = Nobody
  /\ MergeUnder(p, job[p].agent)
  /\ UNCHANGED <<registry, clone, marker, queue, live, pass, forsaken, over, crashes>>

Cleanup(p) ==
  /\ pc[p] = "cleanup"
  /\ lock = Nobody /\ MayLook(job[p].agent)
  /\ IF Removable(job[p].agent, FALSE)
     THEN Locks(p, "mark") /\ UNCHANGED job
     ELSE Done(p)
  /\ UNCHANGED <<registry, clone, landed, marker, queue, live, pass, forsaken, over, crashes>>

-----------------------------------------------------------------------------
(* Outside Striart. *)

SessionEnds(a) ==
  /\ a \in live
  /\ live' = live \ {a}
  /\ UNCHANGED <<lock, registry, clone, landed, marker, queue, pc, job, pass, forsaken, over, crashes>>

\* A person or a session edits the files of the clone, then commits them.
Work(a) ==
  /\ a \in OnDisk
  /\ clone[a].commits < MaxCommits[a]
  /\ a \in live \/ (a \in Active /\ registry[a].mode = "attended")
  /\ "work" \in Windows \/ ~Decided(a)
  /\ clone' = IF clone[a].dirty
              THEN [clone EXCEPT ![a] = [commits |-> @.commits + 1, dirty |-> FALSE]]
              ELSE [clone EXCEPT ![a].dirty = TRUE]
  /\ UNCHANGED <<lock, registry, landed, marker, queue, live, pc, job, pass, forsaken, over, crashes>>

\* A process is killed.  Its lock is broken (MainLock), what it published remains,
\* and the session it started goes on.
Crash(p) ==
  /\ pc[p] \in CrashAt
  /\ crashes < MaxCrashes
  /\ crashes' = crashes + 1
  /\ registry' = [a \in Active |-> IF registry[a].sess = p
                                   THEN [registry[a] EXCEPT !.sess = DeadPid] ELSE registry[a]]
  /\ pass' = [pass EXCEPT ![p] = <<>>]
  /\ Done(p)
  /\ UNCHANGED <<clone, landed, marker, queue, live, forsaken, over>>

-----------------------------------------------------------------------------
\* What a process goes on doing once it has started.
Goes(p) ==
  \/ RunLocked(p) \/ Withdraw(p) \/ CreateClone(p) \/ ReuseClone(p) \/ Register(p)
  \/ Retry(p) \/ Dequeue(p) \/ StopRemove(p)
  \/ Mark(p) \/ Flag(p) \/ Rm(p) \/ Unregister(p) \/ Unmark(p) \/ Resume(p) \/ Sync(p)
  \/ Publish(p) \/ Spawn(p) \/ Announce(p) \/ Conclude(p) \/ Commit(p) \/ Unpublish(p) \/ Tip(p)
  \/ CycleMerge(p) \/ Cleanup(p)

Next ==
  \/ \E p \in Proc : Crash(p)
  \/ \E p \in Proc :
       \/ (\E r \in Requests : Ask(p, r)) \/ (\E s \in Starts : Start(p, s)) \/ Goes(p) \/ Reconcile(p)
       \/ \E a \in Agent, force \in BOOLEAN : Stop(p, a, force) \/ Clean(p, a, force)
       \/ \E a \in Agent : Merge(p, a)
  \/ \E a \in Agent : SessionEnds(a) \/ Work(a)

\* A watch that runs reconciles again and again; a session and an operation end.
Fairness ==
  /\ \A p \in Proc : SF_vars(Goes(p))
  /\ \A p \in Proc : "reconcile" \in Duties[p] => SF_vars(Reconcile(p))
  /\ \A a \in Agent : WF_vars(SessionEnds(a))

Spec == Init /\ [][Next]_vars /\ Fairness

-----------------------------------------------------------------------------
(* What these operations promise together. *)

\* While a session runs its registered PID says so, and its clone is there, with
\* no removal announced: what stop, clean, merge and reconcile rely on
\* (assertNoLiveSession, the SESSION_LIVE of cleanClones).
SessionKept ==
  \A a \in Agent :
    /\ a \in live => Alive(a)
    /\ Alive(a) => a \in OnDisk /\ ~registry[a].removing

\* Work that no longer is in a clone is in the target branch, unless somebody
\* gave it up: by force, then and there, never by a force kept in the queue.
\* What is not committed is only lost with a clone nobody has.
WorkKept ==
  [][\A a \in OnDisk :
       \/ /\ a \in OnDisk'
          /\ clone'[a].commits >= clone[a].commits
          /\ clone[a].dirty => clone'[a].dirty \/ clone'[a].commits > clone[a].commits
       \/ /\ clone[a].commits <= landed[a]
          /\ a \in Active \cup OnDisk' => ~clone[a].dirty
       \/ a \in forsaken
       \/ \E p \in Proc : job[p].agent = a /\ job[p].why = "asked" /\ job[p].force]_vars

\* Two agents never work on files predicted for both, unless one of them was started
\* over the other without a look; a task nobody can place runs beside a failed clone
\* at most (detectCollisionsDetailed).
NoCollision ==
  \A a, b \in Active :
    (a # b /\ Clash(registry[a].files, registry[b].files)) =>
      \/ a \in over[b] \/ b \in over[a]
      \/ /\ WholeRepo \in registry[a].files \cup registry[b].files
         /\ registry[a].failed \/ registry[b].failed

\* A task that started has left the queue, or is about to: the next pass does not
\* start it a second time.  A name that `striart start` took while a task of that
\* name waited is the exception.
NotTwice ==
  \A a \in Active \cap Queued :
    \/ a \in over[a]
    \/ \E p \in Proc : job[p].agent = a /\ pc[p] = "dequeue"

\* A process is giving a task of the queue its agent, or fails to.
Starting(p) == pc[p] = "register" /\ job[p].why = "queue"
StartFails == \E p \in Proc : Starting(p) /\ pc'[p] \in {"retry", "idle"}

\* A queue waiting for nobody: no agent is there, and every name is free to start.
Stuck ==
  /\ queue # <<>>
  /\ Active = {}
  /\ \A i \in DOMAIN queue :
       /\ ~queue[i].reuse
       /\ queue[i].agent \in OnDisk \cup marker => \E p \in Proc : Starting(p) /\ job[p].agent = queue[i].agent

\* Whatever emptied the registry, a later reconciliation starts what waited: tasks
\* do not wait for each other, nor for the event that would have freed them.  Only
\* starts that fail again and again keep them waiting.
Drains == []<>~Stuck \/ []<><<StartFails>>_vars
=============================================================================
