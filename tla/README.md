# Striart in TLA+

Striart runs several coding agents side by side, each in its own git clone, and
merges what they commit into one repository, behind a test command. This
directory models the part of it that must not go wrong: the files and locks
through which independent operating-system processes (the `watch` daemon, the
command line, the MCP server, a dashboard) and people share the *main
repository*. The modules are translated from the TypeScript sources; line
references are to `src/src/` unless another path is given.

## 1. The system, component by component

| Component (sources) | State it keeps | Operations | What is hard |
|---|---|---|---|
| Main lock (`lock.ts`) | `.striart/main.lock`: token, PID, heartbeat in the mtime | `withMainLock`, `acquire`, `judgeLock`, `beat`, `assertMainLockHeld`, `releaseLock`, the `exit` listener | processes killed or suspended anywhere, reused PIDs, removal by path |
| Break lock (`break-lock.ts`) | the break lock of each protected file, the reclaim marker of each break lock | `removeIfUnchangedAt`, `underBreakLockAt`, `reclaimBreakLock`, `clearOrphanReclaimMarker` | compare-then-unlink, debris of dead breakers |
| Waiting queue (`lock.ts`) | `.striart/lock-queue/`: numbered tickets, refreshed by a timer | `takeTicket`, `refreshTicket`, `liveTicketsAhead`, `dropTicket` | numbers chosen from a listing, tickets of dead processes, starvation |
| Local turns (`lock.ts`) | FIFO of contexts in one process, reentrancy counter | `takeLocalTurn`, nested `withMainLock` | abort and time limit of one context while another holds |
| Orphan merges (`lock.ts`) | `merge-state-changed.json` | `recoverOrphanMerge`, `recordMergeStateChanged`, `markerCoversMerge` | a merge left by a crash against a merge opened by a person |
| Main session (`main-session.ts`, `lock.ts`) | `main-session.json` | `reserveMainSession`, `assertNoLiveMainSession`, `stopMainSession` | declared while an operation that lost its lock still runs |
| Merge chain (`orchestrator.ts`) | HEAD, MERGE_HEAD, index of the main repository; `lastMergedCommit` of the registry | `mergeAgentCommit`, `rollbackLastMerge`, `applyTicketResolution`, `promoteStaging` | a gate or an LLM call lasts minutes; git by hand meanwhile; kills between two effects |
| Semantic merge (`merger.ts`, `state.ts`) | `state.json`: streak of failures, manual mode | `mergeResolutionWithLlm`, `recordSemanticFailure`, `resetManualMode` | which failures count |
| Conflict tickets (`conflicts.ts`) | `.striart/conflicts/<id>/` | `createConflictTicket`, `closeConflictTicket` | find-then-create, resolutions prepared by a person |
| Delivery (`delivery.ts`) | the chain of deferred pushes of one process | `scheduleDelivery`, `deliverSerialized`, `settlePendingDeliveries` | pushes happen after the lock is released; a rollback in between |
| State lock, JSON stores (`state-lock.ts`, `json-file.ts`) | `.striart/state.lock`; `agents.json`, `queue.json`, `locks.json`, `state.json`; the turns of the contexts of one process | `withFileLock`, `acquireFile`, `judge`, `releaseFile`, `assertStateLockHeld`, `updateJsonLocked` | lost updates, a lock taken for debris while its holder writes, PIDs used again |
| Clones (`clone.ts`, `orchestrator.ts`, `sync.ts`) | the clones, `.striart/removing/`, the flag of the registry | create, reuse, clean, `removeClone`, reconcile; sync, rebase | a session may be live in the clone; a removal is killed half-way |
| Sessions (`session.ts`, `autonomous-cycle.ts`) | `sessionPid` in the registry | run, commit contract, merge, clean | PID handed over from the agent to Striart |
| Watch loop (`watch-loop.ts`) | one chain of promises | merge on commit, periodic reconcile | one merge at a time, no pile-up |
| Task queue, overlap (`queue.ts`, `router.ts`, `overlap.ts`) | `queue.json`, predicted files | `assertTaskAdmissible`, `enqueueTask`, `retryQueue`, `removeTask` | start of an agent and removal of its task are two steps; tasks that wait for each other |
| Orchestration (`orchestration/*`) | the file of a run: its status, its nodes, their results | `runPlanV2`, `runWorker`, `claimRunNode`, resume, prune; review, race, team | a scheduler's memory against the file, a worker that dies with its node |
| Token budgets (`tokens/*`) | the ledger of usage | check, call, record | concurrent calls against one ceiling |
| Idle management (`idle/*`) | claims on sessions to close | claim, close, finish | expired claims taken again |
| Daemons (`daemon.ts`, `stop-request.ts`) | pid file, stop request | start, stop, acknowledge | two starts at once |

How they meet: everything that touches the main repository runs inside
`withMainLock` (main lock, waiting queue, local turns, then the declared session
and the orphan merge are looked at before the body runs). Inside, the merge
chain drives git through child processes and writes the JSON stores under the
state lock, which uses the same break-lock brick. What must not hold the lock
(webhooks, pushes, the memory) is collected and runs after the release. People
use git in the same repository and take no lock at all: the merge chain can
only look before each irreversible effect.

What makes each part correct is stated in section 4 for the parts that are
modelled, and in `PROJECT.json` (`hazards`) line by line for all of them.

## 2. Plan

1. **The lock** (done): `BreakLock`, `MainLock`, the abstract lock
   `AbstractLock`, the proofs of exclusion and of the refinement.
2. **The queue** (done): `LockQueue`, over the abstract lock; its types, `Visible`
   and `NoOvertaking` proved.
3. **What happens under the lock** (done): `MergeChain`, over the abstract lock:
   merge, rollback, resolution of a ticket, promotion, recovery, reservation; its
   safety is proved. Left: `autoRebase`, `resolve --prepare` and `--close`.
4. **Delivery** (core done): `Publication`, the abstract branch and origin, and
   `Delivery`, which implements it; the theorems about both. Left: the mode
   `branch`, the deliveries of promotions.
5. **StateLock** (done): `StateRegister`, the abstract atomic register, and
   `StateLock`, which implements it; both proved about, for one state file. Left:
   the order of several locks.
6. **The life of a task** (core done): `TaskCycle`: queue, clones, sessions, the
   autonomous cycle and the merge that ends it; its safety is proved. Left: rebase of a clone
   (`sync.ts`), and the main lock of `TaskCycle` replaced by `AbstractLock`.
7. **The application of a plan** (core done): `PlanRun`: scheduler, workers,
   resume; its safety is proved. Left: review turns, the winner of a race, teams.
8. **LocalTurns**: the FIFO and the reentrancy of `withMainLock` in one process
   (those of the state lock are in `StateLock`), composed with `LockQueue`.
9. **Idle** (claims that expire), **Budget**, **Daemon**.

Bounds stay at two or three processes, one or two agents, two commits.

## 3. The modules

| Module | Models | State |
|---|---|---|
| `BreakLock` | `break-lock.ts` | `file` (the protected file), `breakFile`, `marker`, and per process: `status`, `bpc` (program point), `judged`, `attempt`, `seen`, `outcome` |
| `MainLock` (extends `BreakLock`) | the lock of `lock.ts`; `file` is `main.lock` | `pc`: program point in `withMainLock` |
| `AbstractLock` | what `withMainLock` promises | `holder` |
| `LockQueue` | the waiting queue of `lock.ts` | `tickets`, `lock` (the holder of `AbstractLock`), per process `pc`, `number`, `lost`, `scan`, `attempts`; history `before` |
| `MergeChain` | `orchestrator.ts`, `conflicts.ts`, `state.ts`, the entry of `withMainLock` | `holder`, `target` (the target branch), `main` (the branch it is promoted to), `merge` (MERGE_HEAD), `index`, `marker`, `session`, `lastMerged`, `streak`, `manual`, `tickets`, per process `pc` and `job`; history `noticed`, `failures`, `forgotten` |
| `Publication` | what deliveries promise | `branch`, `remote`: the commits of the target branch here and on origin |
| `Delivery` (extends `Publication`) | `delivery.ts`, and `orchestrator.ts` where it schedules, settles and decides | `lock`, `chain` (per process), `tracking` (origin as last fetched), per operation `pc`, `head`, `awaited`, `published`, `report` |
| `StateRegister` | what a state file promises | `value`: the updates of each context it has |
| `StateLock` | `state-lock.ts`, `json-file.ts` | `lockFile`, `owned` and `tails` (memory of each process), `pid`, `breaker`, per context `pc`, `seen`, `copy`; `store` |
| `TaskCycle` | `queue.ts`, `clone.ts`, `autonomous-cycle.ts`, `orchestrator.ts` from `startAgent` to `reconcile`, and the starts of `orchestration/unit.ts` | `lock`, `registry`, `clone`, `landed`, `marker`, `queue`, `live` (the sessions), per process `pc`, `job`, `pass`; history `forsaken`, `over` |
| `PlanRun` | `orchestration/scheduler.ts`, `orchestration/store.ts` | `run` (the file), per process `pc`, `results`, `busy`, `exec`, `todo`, `at`, `task`, `stopped`, `aborted`; history `mingled` |
| `MainLock_proofs`, `LockQueue_proofs`, `Publication_proofs`, `Delivery_proofs`, `StateLock_proofs`, `PlanRun_proofs`, `MergeChain_proofs`, `TaskCycle_proofs` | theorems | |
| `MCMainLock`, `MCLockQueue`, `MCMergeChain`, `MCDelivery`, `MCStateLock`, `MCTaskCycle`, `MCPlanRun` | small instances for TLC | |

**One action is one system call, or one git command, of one process.** A process
is a program counter; between two of its actions every other process may run,
crash or be suspended. The `CONSTANTS` `CrashAt`, `FreezeAt` and `FailAt` are
the program points where a process may be killed, where it may be suspended for
longer than every time limit, and where its call may fail for good; a run
chooses them, a theorem quantifies over them.

**Files** (`BreakLock`). A random token, or a PID and a start date, is written in
each file: its `owner` stands for that content. A file created with `wx` is
empty until it is `written`. `aged` stands for the clock: no sign of life for
longer than the thresholds of the code (heartbeat, grace of invalid files); a
file does not age while the process that tends it runs. An unlink removes what
the path holds when it happens, not what was read. `status` "recycled" is a dead
process whose PID another program got: a probe of the PID says alive, the
identity says otherwise. Ghosts are processes that died before the behaviour
starts: their debris may be in any of the three files at first.

**Queue**. `main.lock` is taken in one step here; `MainLock` shows that it may
be. A token of a ticket is its owner and the call it was taken for. A context of
a process that waits behind another one of the same process has no ticket: a
process has one ticket at most.

**Merge chain**. Git is what the operations look at: the commits of the target
branch, MERGE_HEAD, the index. Commit number *k* of an agent contains its commits
1..*k*. The index is a version number and two flags, conflicts left and *somebody
else wrote here*. One conflicted file stands for the loop over the conflicted
files. What the Test Gate, the LLM, the classification of a conflict, the
protected paths and the fetch of origin answer is an input: every answer is
possible. A person may open, abort or commit a merge, stage a file, commit to
either branch, declare a session, unlock the manual mode, at any time except
inside `Quiet` (below). `Kinds` is what the processes are asked for: merges,
resolutions, rollbacks, promotions, reservations. A resolution opens the merge of
its ticket again (`Replay`), writes the prepared files (`Apply`) and then takes the
steps of a merge from the fingerprint to the registry; `CloseTickets` is its own. A
promotion compares trees, so a commit has a kind "empty" that leaves the tree alone
(`Tree`); two merges of one piece of work by one process are one value.

**Delivery**. A commit is identified with the history it heads, a sequence: an
ancestor is a prefix, a fast-forward is an extension, a reset drops the last
commit. An operation makes one call, a merge or a rollback. Its delivery lives in
the memory of its process (`chain`) and is lost with it, but the `git push` it
started runs in a process group of its own and goes on (`orphan`). A commit
somebody else pushed is known here once a rollback fetched it, which decides
whether `remoteAlreadyHas` can compare.

**State lock**. A process has several contexts, which take their turn in `tails`;
the first one competes for the file. `owned` is the token the process knows as
its own: a lock that bears its PID and another token is taken for the debris of
a dead namesake. A file has the context and the PID that created it, `written`
once its content is there, `old` once it is older than the grace of an
unreadable lock and than the age at which identities are compared. A writer
whose unwritten file was removed writes on, into an inode no path leads to any
more, and believes it holds the lock: that is why the updates look again
(`Check`), and why two contexts may be in the section while no update is lost. A
process that dies is replaced by one whose PID may be the same. The break lock
admits one breaker here; its own debris is in `BreakLock`.

**Life of a task**. The main lock is taken in one step and one update of the
registry or of the queue is one step, which `MainLock` and `StateLock` show. A
commit is a number: a clone has made `commits`, the branch has `landed` of them,
the registry remembers `merged`; a merge is its two effects, the branch and the
registry. `sess` is the PID of the registry: of the process of Striart that
prepares or concludes a session, of the agent once `onSpawn` replaced it, of
nobody once that process died. The prediction of the Router is a constant; what
a session does, what the commit contract and the gate answer are inputs. `pass`
is the snapshot `retryQueue` works through, `todo` the removals `reconcile`
listed. An agent enters by one of two ways. `runTask` and the pass over the queue look
at the queue and at the collisions under the lock (`RunLocked`, `HeldBack`). `Start`
looks at neither: it is `striart start`, whose agent is a person's and has no prediction
(`like` is `NoAgent`), and the next candidates of a race, which take the prediction of
the first (`like` names it), keep the PID of their process to the end of their turn and
leave the mark of a failure as it is (`Conclude`). An entry has the `files` it was
registered with; `over` remembers over whom each agent was started without a look. A
task that cannot start is left in the queue and the pass goes on, unless the error is
not its own (`isInfrastructureError`): "pass" in `FailAt` lets any of them end the pass.

**Plan**. A run is one file, each read-modify-write of which is a step
(`StateLock`). A scheduler keeps `results` and `busy` in memory and puts its
writes in `todo`: each looks at the directory before it takes its turn on the
file, so they reach it in any order. The end of a run waits for its own write
only ("leaving" is a process whose skips may still be on their way). Its pass over
the nodes has no `await`, which is `Passing`. A worker knows what it read
(`results`, `busy`), and claims under the lock. What a node does is an input: it
ends "ok" or "failed". Nothing keeps a worker away from the run a scheduler
applies, nor a scheduler that resumes a run away from its workers: `mingled`
remembers that it happened, and what the run then is good for is in section 5.

## 4. What is checked

Every passing run exhausts its state space in about three minutes or less with two
workers.

| Run | Question | Properties |
|---|---|---|
| `MainLock_faults` | two processes, the debris of three dead ones; kills and `process.exit` anywhere, recycled PIDs, suspensions, failing calls, outside the windows of `Sheltered` | `MutualExclusion`: one process inside the section. `OneBreaker`: one process in the compare-and-remove. `BrokenOnProof`: the file of a live holder leaves the path only by its own release, exit or death. `RemovedMeansGone`: a removal reported done is done. `ImplementsLock`: the lock is never handed over without having been free |
| `MainLock_live` | kills at every step, a holder suspended for good, `breakFrozenHolderAfterMs` set | `Progress`: whoever waits, somebody gets in. `FrozenBroken`: the suspended holder is broken |
| `LockQueue_order` | three processes, two calls each, kills, failing calls | `Visible`: whoever waits has its ticket on disk, until it noticed the loss. `NoOvertaking`: nobody passes a ticket that was there when it chose its number and is still tended |
| `LockQueue_live` | killed, suspended and failing processes | `NoStarvation`: whoever asks for the lock gets it or an answer |
| `MergeChain_faults` | merges, rollbacks and reservations; a holder suspended in the LLM or the gate loses the lock and wakes up in the middle of its merge; a person acts twice | `OnlyTestedLands`: what Striart commits is the merge it opened, on the HEAD it merged into, with the index its gate tested. `OwnMergesOnly`: an operation closes its own merge only. `NoticedKept`: a merge recorded as somebody else's is left alone. `SessionRespected`: nothing moves the repository while a main session is declared. `HumanCommitsStay`: no commit of a person leaves the branch |
| `MergeChain_live` | merges, resolutions of tickets and promotions; crashes with a merge open, failing commands | `TestedPromoted`: the main branch goes to a tree a gate found green, and only forward. `HumanCommitsStay`, where a promotion resets only what it read. `DebrisCleared`: the merge of a dead process goes away. `ManualOnFailures`: the manual mode follows three semantic resolutions that failed in a row, in the LLM or while their files were written, never a refused budget nor a lost lock. `AnswersTrue`: merged work is in the branch and in the registry, refused work is not committed and has a ticket, a resolved ticket is closed |
| `Delivery_order` | three operations in two processes; kills, time limits, an origin that refuses or does not answer, a push by somebody else | `PublishedNotUndone`: what is on origin stays in the branch, what was undone stays off origin. `ReportsTrue`: a delivered commit is on origin, a superseded one never gets there, a refused fast-forward is somebody else's doing. `Answered`: every operation ends. `ImplementsPublication` |
| `StateLock_updates` | two contexts of one process, one of another; kills, exits, PIDs used again, slow writers, failing calls | `HolderKeeps`: a written lock is removed by its holder, or with it. `ImplementsRegister`: updates are applied one after the other and none is lost |
| `PlanRun_workers` | three nodes, a dependency and a shared resource; two processes in every mix of scheduler, resumed scheduler and workers; kills where nodes run, interrupts, pruning, failing writes | `Drained`: everybody comes to the end, whoever met whom. While no scheduler met another process on the run: `OneExecutor`, `ResourceExclusive`: no node runs twice, nor beside one it excludes. `DependenciesOnFile`: a node runs after the success of its dependencies, which the file says or is about to. `DecisionsStay`: no decision is taken back, in whatever order the writes come. `DoneIsDecided`: who ends at the end of the run leaves no node without an answer |
| `TaskCycle_day` | two processes, two agents, one of them unpredictable; attended and autonomous tasks that wait for nobody, for a collision or for each other in every order; direct starts by a person, on the clone that is left too, and of a race; a kill, failing steps, passes that end early | `SessionKept`: while a session runs the registry says so and its clone is there. `NoCollision`: two agents never work on the same predicted files, unless one was started over the other without a look. `NotTwice`: a task that started leaves the queue; a name a direct start took while it waited is the exception. `WorkKept`: commits that leave a clone are in the branch, uncommitted work only goes with a clone nobody has, or somebody gave it up by force there and then. `Drains`: the queue never waits for nobody for ever, unless its starts fail again and again |

`TypeOK` is checked and proved for `MainLock`, `LockQueue` and `PlanRun`, proved for
`MergeChain`, `Delivery`, `StateLock` and `TaskCycle` (section 6).

**Bounds.** Two processes are enough for every race between a process that
reclaims and one that is reclaimed, with the debris of the dead as third
parties; the theorems of section 6 lift the number of processes. The queue needs
three, and two calls of each, for a process to come back behind somebody it was
ahead of; `MaxNumber` bounds the ticket numbers and `TicketMaxAttempts` is
small so that its exhaustion happens. The merge chain has two processes (one
that lost the lock, one that holds it), one agent with one or two commits, a
branch of two commits (`MaxTarget`), one or two gestures of a person
(`MaxHuman`), one retry of the gate in `MergeChain_live` and none in
`MergeChain_faults`, whose properties are proved for any number of them. `MaxSemanticFailures` is 2 where the manual
mode is the question, so that a success or an unlock may come between two failures,
and 1 elsewhere. `Delivery` has two operations of one
process, so that one may wait for the other, and one of another process; the
refinement is proved for any number (section 6). `StateLock` has a process with two contexts, since the judgement by token is
about contexts of one process, three PIDs for two processes, so that a number may
be new or used again, and two updates each. `TaskCycle` has two agents, one of
which may touch everything (`WholeRepo`): a collision needs two, and so does a
queue whose tasks wait for each other; one process is asked to run and start tasks and the
other one to do all the rest. It is killed while its session runs or with a removal
marked (`CrashAt`), which is where a kill leaves most behind; the theorems have every other
point, and requests that reuse or force. `PlanRun` has three nodes, so that two may exclude
each other while a third depends on one of them, which leaves a scheduler that may run two
at once none to hold back. It is killed in a task or while nodes run, and a scheduler is
asked to stop while they do; the theorems have every other point too. Deadlock is not checked where the
processes of an instance may all be dead or have done all their calls.

**Windows.** Between a look at the repository and the effect it allows there is
always a short time in which a person may act, and no program that does not lock
people out can close it. `Quiet` names those program points (`Windows` in the passing runs): there
no person acts while a process that *runs* is at one of them. A process that is
suspended is in the LLM or the gate, after which the code looks again. This is
what the passing runs of the merge chain show: the code looks before every
effect. Two points of `Quiet` last longer than a system call (the fetch of the
agent's clone before `git merge`, the settling of deliveries before a rollback);
opening them gives two of the behaviours of section 5. In `Delivery` the window is
`Overlapping`: in the passing run, a delivery that a rollback does not wait for
is not between its ancestor check and its push while the rollback is between its
fetch and its reset. The deliveries a rollback does wait for are not restricted. In `StateLock` the
window is "write": a lock is not written, nor given up by its writer, between the
comparison of a breaker and its removal; that the writer was slow before or after
is not restricted. In `TaskCycle` there are two: no work is done in a clone
whose removal was decided ("work"), no session is published there nor is one
about to be taken off the registry when it is looked at, nor is the name of an
agent given to another one while a session is about to be published under it
("publish"). Two points are in no `CrashAt`, `announce` and `dequeue` (section 5).

**Fairness.** A process that runs is scheduled (weak fairness on its own next
step, and on the refresh timer of its ticket), time passes (weak fairness on the
clock), an operation goes on because its commands have time limits. Nothing
obliges a process to call `withMainLock`, to give up, to crash or to wake up.
`MergeChain_live` also assumes that merges keep being asked for, which the watch
loop does for every agent. A scheduler or a worker of `PlanRun` goes on since a
node ends: its session has a time limit. A session of `TaskCycle` ends for the
same reason; its operations and its reconciliation are strongly fair, since the
main lock they wait for is handed over without starvation (`NoStarvation`) and
the watch loop reconciles periodically. Nothing obliges the registration of an agent to
succeed: `Drains` excepts a queue whose starts fail again and again, and
says nothing of a name whose clone is left on disk, which waits for a person to clean it.

## 5. Where the code disagrees with its own documentation

Two are runs whose violation TLC finds; the quotes are in `PROJECT.json`.

* `MainLock_v_reclaim`: `clearOrphanReclaimMarker` reads a marker again and then
  unlinks the path. Two processes that judged the same orphan remove a fresh
  marker, reclaim the break lock together, and `main.lock` ends with two
  holders; the comment says that an error there only costs a turn.
* `PlanRun_v_stop`: under `onFailure: stop` a worker claims each node that is left
  and skips it as *stopped*, which the next pass takes for no decision at all: it
  claims and skips the same nodes for ever, and never is done.

The others were met while modelling and have no run of their own. They are why
passing runs and theorems exclude the points they do; what to change in a
configuration to see them is said where it is one constant.

Locks:

* an orphan reclaim marker is judged by a probe of its PID alone
  (`break-lock.ts:273`): if that PID was reused, the break lock is blocked for
  ever, and `MainLock_live` has no `recycled` in `CrashAt`;
* a breaker killed between the creation of the break lock and its write leaves an
  empty file, and two empty break locks are the same to those who compare
  contents (`break-lock.ts:227`): `OneBreaker` needs `CrashAt` without `stamp`;
* a process suspended between the creation of `main.lock` and its write loses it
  alive as invalid content (`lock.ts:681`): `FreezeAt` without `write`;
* the refresh timer takes an unwritten ticket under its own number for its own
  (`lock.ts:498`) and may freshen the ticket of another process once;
* `state.lock` taken for debris is compared, then removed by its path: a writer
  that comes in between loses a lock it has just written ("write" in `Windows`
  breaks `HolderKeeps`);
* a release of `state.lock` that fails leaves it under a PID that lives: nobody
  else passes until that process exits or updates something else
  (`state-lock.ts:418` says it never blocks for long).

Merges and deliveries:

* a commit that times out in a post-commit hook was made, and the answer says
  that nothing was committed (`orchestrator.ts:1698`): no passing run has
  `commit` in `FailAt`;
* when `git merge` fails without a conflict, `abortMerge` runs without a look at
  whose merge is open (`orchestrator.ts:2275`; "fetch" and "open" out of
  `Windows` in `MCMergeChain`);
* a kill between the `reset --hard` of a rollback and the update of the registry
  leaves the undone work "already merged" ("rbSync" in `CrashAt`);
* a rollback reads HEAD, waits for deliveries and for a fetch, and resets without
  reading HEAD again ("rbSettle" out of `Windows`);
* the reset that `promote --rollback` asks for is not followed by an update of the
  registry, unlike that of a rollback (`orchestrator.ts:3851`, `3643`): the work it
  removes stays "already merged" (without `forgotten` TLC refutes `AnswersTrue`);
  it looks at HEAD only, and takes a merge a person opened during the gate with it
  (without "pmReset" in `OwnMergesOnly`);
* `docs/fr/branches.md:109` says that `striart promote --rollback` undoes the last
  promotion; it only resets the target branch after a red gate (as the same page
  says at line 104), and nothing in the code takes a commit back from the main branch;
* a rollback waits for the deliveries its process has registered so far. A merge
  that released the lock and still sends its events registers its own
  afterwards; it is pushed between the fetch of the rollback and its reset, and
  published work is undone. From another process, which a rollback never waits
  for, the same happens (`Overlapping` TRUE).

Tasks, sessions, plans:

* between the start of a session and the registration of its PID
  (`session.ts:470`) the registry has the PID of its starter: killed there, it
  leaves a session nobody knows of, whose clone may be cleaned or merged
  ("announce" in `CrashAt`);
* a kill between the registration of a queued agent and the removal of its task
  (`orchestrator.ts:3132`) starts the task a second time once the agent is gone
  ("dequeue" in `CrashAt`);
* `stop`, `clean` and `merge` look at the PID of a session which its cycle
  publishes, replaces and removes without the main lock, at the end of a session
  too (`autonomous-cycle.ts:453` says there is no such window); a person may go on
  working in a clone whose removal was decided: "publish" and "work" in `Windows`;
* `runAutonomousTask` publishes its PID by name, some steps after it registered the
  agent and without the main lock (`orchestrator.ts:1030`): stopped, cleaned and
  created again in between, the entry is that of another task, two cycles write into
  it, and each takes the PID of the other away ("publish" in `Windows`, with two
  processes that run tasks);
* `work --run` looks neither at the status nor at the PID of the run it joins
  (`scheduler.ts:451`), and a scheduler launches what its memory says without a claim: a
  node a worker took is executed a second time, where `docs/en/plans.md:190` says
  that several processes drain one run without ever executing a task twice. Two
  `plan --resume` at once, or one while workers are at work, do the same: it is what
  `Apart` keeps out, and without it TLC refutes `OneExecutor`;
* a plan that withdraws a queued task (`unit.ts:181`) does not stop a pass over the
  queue that has already read it: the task starts attended after all. `TaskCycle`
  has that behaviour, and no property of section 4 forbids it;
* `striart start` of a name that waits in the queue is not refused: the agent is there and
  its task waits until it is gone, then starts as if nothing had been done
  (`orchestrator.ts:3076` holds it back; `assertTaskAdmissible` refuses the other order).
  That is the exception in `NotTwice`;
* `stop` refuses on commits that wait, not on work that is not committed; it does
  not remove the clone, but a later `clean` does without force;
* the best effort writes of a scheduler may fail: what depends on a node may run
  while the file does not say that the node succeeded ("flush" in `FailAt` breaks
  `DependenciesOnFile`), and a resumed run executes the node again;
* the end of a run may overtake the skips nobody waits for (`scheduler.ts:340`,
  `381`): killed right after, a scheduler leaves a run that is "done" with nodes
  nobody decided;
* a dependent may be marked running before the result it waited for is written:
  killed between the two, the scheduler leaves a file in which a node ran before
  its dependency ended;
* an interrupted run whose workers still work may be pruned under them.

## 6. What is proved

TLAPS checks these for every value of the constants.

* `TypeCorrect` (`MainLock_proofs`): `Spec => []TypeOK`, without assumption
  beyond those on the constants, and so for every choice of faults.
* `Removed` (`MainLock_proofs`): `RemovedMeansGone`, for every choice of faults,
  `Sheltered` or not, assuming that `breakFrozenHolderAfterMs` is not set: a token is
  its owner in the model, and a holder that was broken while suspended may come back
  as the owner of the next file.
* `Exclusion`, `SingleBreaker`, `Broken`, `Implements`
  (`MainLock_proofs`): `MutualExclusion`, `OneBreaker`,
  `BrokenOnProof` and the refinement of `AbstractLock`, for any set of processes
  and any set of ghosts, assuming `Sheltered`: no process is killed between
  `wx` and write of the break lock nor while it holds the reclaim marker, none
  is suspended between `wx` and write of any file, no call fails at the three
  points where the failure leaves an unwritten or unremoved break lock or
  marker, and `breakFrozenHolderAfterMs` is not set (its purpose is to take the
  lock from a live process).
* `NeverUndone` (`Publication_proofs`): `PublishedNotUndone` for the abstract
  branch and origin. It needs that nothing of ours lands on origin behind the
  commit of somebody else: that is why an unpublished branch has an unpublished
  last commit, which is what a reset removes.
* `DeliveryImplements`, `NeverUndoneByDelivery` (`Delivery_proofs`): `Delivery`
  implements `Publication`, and so keeps `PublishedNotUndone`, for any operations
  in any processes, any kills and failing commands and any number of pushes by
  others, assuming `~Overlapping` (section 4); section 5 says why the assumption
  is needed.
* `DeliveryTypes`, `ReportsStayTrue` (`Delivery_proofs`): `TypeOK` and
  `ReportsTrue`, for the same instances, assuming `~Overlapping` and that
  `ls-remote` answers after a refused push ("list" not in `FailAt`): without its
  answer a push that another push of ours overtook is reported as refused by
  somebody else's commits.
* `QueueTypes` (`LockQueue_proofs`), `PlanTypes` (`PlanRun_proofs`):
  `Spec => []TypeOK` for the queue and for the run of a plan.
* `WaitersVisible`, `TicketOrder` (`LockQueue_proofs`): `Visible` and
  `NoOvertaking`, for any processes, calls, kills, exits and failing calls,
  assuming `FreezeAt = {}`: the ticket of a suspended waiter ages, is removed, and
  its owner queues again at the end.
* `PlanExecutesOnce`, `PlanExcludes`, `PlanDepends`, `PlanDecides`, `PlanEnds`
  (`PlanRun_proofs`): `OneExecutor`, `ResourceExclusive`, `DependenciesOnFile`,
  `DecisionsStay` and `DoneIsDecided`, for any plan, any number of processes, any
  kills, interrupts and pruning, and the writes of a scheduler in any order,
  assuming "flush" not in `FailAt` (they do not fail, unless it is killed). They
  speak of a run while no scheduler met another process on it (`Apart`), for
  `OneExecutor` is refuted otherwise (section 5).
* `ChainTypes`, `ChainLandsTested`, `ChainPromotesTested`, `ChainUndoesItsOwn`,
  `ChainKeepsNoticed`, `ChainRespectsSession`, `ChainKeepsHumanCommits`,
  `ChainCountsFailures` (`MergeChain_proofs`): `TypeOK`, `OnlyTestedLands`,
  `TestedPromoted`, `OwnMergesOnly`, `NoticedKept`, `SessionRespected`,
  `HumanCommitsStay` and `ManualOnFailures`, for any processes, agents, commits and
  gestures, any crashes and failing commands, with or without
  `breakFrozenHolderAfterMs`, assuming `Shielded`: no person acts in `Windows`, the
  program points between a look at the repository and the effect it allows, and a
  process is suspended for long in what lasts, the LLM and the gates, only. The
  theorems have every kind of operation at once, where each run has three.
* `ChainAnswersTrue` (`MergeChain_proofs`): `AnswersTrue`, under `Shielded` and `Told`:
  `git commit` does not report as refused a commit it made ("commit" is not in
  `FailAt`), and no rollback dies or fails between its reset and the update of the
  registry ("rbSync" is in neither `CrashAt` nor `FailAt`). With either, the answer is
  false in the code too (section 5). Everything else may fail or be killed.
* `TaskTypes` (`TaskCycle_proofs`): `Spec => []TypeOK`, without assumption beyond those
  on the constants.
* `SessionStays`, `AgentsApart`, `StartsOnce`, `WorkStays` (`TaskCycle_proofs`):
  `SessionKept`, `NoCollision`, `NotTwice` and `WorkKept`, for any processes each of
  which may be asked for everything, any agents, predictions and requests, any
  failing steps and kills, any direct starts by people and in races, assuming `Guarded`: nothing happens in
  `Windows`, and no process is killed at `announce` or at `dequeue`. Section 5 says what comes of each
  of them. The runs divide the duties between two processes and kill one; the
  theorems do neither.
* `StateLockTypes`, `HolderKeepsIt`, `NoUpdateLost` (`StateLock_proofs`): the
  types of the state lock, `HolderKeeps`, and the refinement of `StateRegister`,
  for any contexts in any processes, any PIDs, kills, exits and failing calls,
  assuming that "write" is not in `Windows` (section 4).

*Why an inductive invariant.* Exclusion does not follow from itself: a process
at `rm` in the break lock is about to unlink whatever is at the path. `IInv` says
why that is the file it judged: `ControlInv` ties the two program counters
together; `HolderInv`: a process inside or about to enter owns the file, and the
file bears its token once it is inside; `BreakerInv`: a process that runs under
the break lock owns the break lock; `MarkerInv`: a process that reclaims owns
the marker; `ReclaimInv`: what a reclaimer saw is a debris, and still the break
lock at the moment of the unlink; `RemovalInv`: what a breaker judged belongs to
a process that is gone, so no live holder can have produced the same content.
Each conjunct has a lemma of its own over the steps of one process
(`ControlStep`, `HolderStep`, `BreakerStep`, `MarkerStep`, `ReclaimStep`,
`RemovalStep`), `ClockKeeps` covers the clock, and `INext` puts them together.
`Broken` needs the invariant before the step, `Implements` needs exclusion on
both sides of it.

For `Delivery` the invariant is `DInv`. A reset is allowed by the abstract
specification only if the branch is not published at the moment of the reset,
and what the rollback knows is older: `HeadInv`: what it read is still the
branch; `DecideInv`: no push is under way while it decides, and what it was told
is still true; `AwaitInv`, `ChainInv` and `OrphanInv` say why: what it waited for
was answered, the rest is kept apart, and a push that outlived its process left
no rollback of that process behind. `PushInv`: what is being pushed is in the
branch, so that what origin receives is a prefix of it.
`RInv` extends it for the reports: an operation is in its chain once (`OnceInv`);
nothing of an operation is in the branch before it commits, and what it delivers
ends with its commit (`MineInv`), so a commit that was superseded cannot come back
(`SupersededInv`); what was pushed is on origin (`DeliveredInv`), and what overtook
a push is a push of ours that contains it (`OvertakenInv`).

For `LockQueue` the invariant is `QInv`. A ticket stays where its owner's number
says, and young, as long as the owner queues (`TicketHeld`); the tickets a pass has
seen are of earlier numbers and of calls that began before (`CallsPast`,
`SightedBelow`); a pass does not get beyond one that is still tended
(`LooksAhead`), so that whoever enters has nobody before it.

For `StateLock` exclusion is not an invariant: two contexts may be in the section.
What is: a lock says the truth about the context that created it (`OwnerKnown`),
which shares it with no other context of its process (`Alone`, from `OneTurn`);
what was judged debris, and what a breaker is about to remove, is not written by a
live context (`JudgedDebris`, `RemovesDebris`); so the context about to rename
still has the lock (`StillOurs`), and what it read is still the store (`Fresh`):
`NoUpdateLost`.

For `PlanRun` the file alone does not say what a scheduler does, nor its memory
what a process that resumes will find. `PInv` ties them together. A scheduler:
the file is its memory without the writes on their way (`MemoryIsFile`), of which
a node has one at most, and none while it is executed (`WaitingWrites`), so that
their order does not matter; a node is put to start once its dependencies
succeeded in memory (`InOrder`), and the run is closed when nothing is running nor
undecided there (`ClosesLast`). A worker: what it claimed is running and undecided
in the file until it records it (`ClaimHolds`, `ExecutesItsTask`), two claims are
apart (`ClaimsApart`), and what it read before it closes the run still holds
(`ReadHolds`, `ClosesDecided`), since decisions stay. `PInv` holds as long as
`Apart` does, which is what `SchedulesAlone` needs.

For `MergeChain` the invariant is `MInv`. The lock may be lost in the middle of an
operation, so exclusion is not the point. `Held`: who is neither outside, on its way
out, nor at one of the points after something long holds the lock; the others look
(`Adrift`) and change nothing that is shared (`Frames`). Of the holder, `Knows(p)`
says at each point what it looked at that is still so: nothing was open when it came
(`ArrivalInv`), the open merge is its own unless a person closed it or opened another
(`OpenInv`), what was tested is the index or the fingerprint will tell (`TestedInv`:
the index is `Stale` for good once somebody else wrote), what a rollback or a
promotion read is still the branch (`RollbackInv`, `PromotionInv`), the manual mode
and the count of failures are behind by what is on its way (`ManualInv`, `CountInv`).
Each conjunct has a lemma over the steps of the holder (`ArrivalHere` to `CountHere`);
`KnowsNothing` is for who just came, `KnowsThere` for the steps of the others,
`KnowsPeople` for people, and is where `Shielded` is used. `SessionHolds` and
`NoticedHolds` say that who holds the lock while a session is declared, or a foreign
merge was recorded, has not come to the repository yet.
The answers need more, `AInv`, on top of `MInv`: what the registry says is merged is in
the branch, unless a promotion took it away or a rollback is about to correct it
(`RegistryInv`); who leaves without the lock says that it lost it (`LeaveInv`); and of
the holder, `Tells(p)`: up to its commit its work is not in the branch, since it was not
when the operation looked (`NotLanded`), and a resolution still has its ticket
(`PendingInv`); after it the work is there, for what the branch gets takes nothing away
(`LandedGrows`, `DoneInv`); a rollback takes the commit of the agent it names and of no
other (`LandedFront`, `TipInv`). `TellsHere` is about the steps of the holder, `Unmoved`
about those of the others, `TellsPeople` about people.

For `TaskCycle` the invariant is `TInv`. `LockInv`: who changes the clones, the queue
or the entries of others holds the lock, so that what it looked at is still so at each
point of its operation: nobody has the name it starts, and, where it looked, who may collide with it has
failed for good (`StartInv`; where it did not, `OverSteps` says that `over` has it); a removal is as far as its point says (`RemovalInv`); what
is to be recorded as merged is (`SyncInv`). The cycle of a session takes no lock:
`CycleInv` says that its entry is there, has its PID and is no other cycle's, `SessInv`
that a PID of Striart in an entry is that of a cycle at work on it, and `DecidedInv` that
no cycle is at work on what was decided to go. The work is accounted for by
`EntryInv`, `CloneInv`, `CleanInv` and `DecidedInv` together: a clone without an entry,
or decided to go, has its commits in the branch or was given up. A step touches the entry
and the clone of one agent (`EntryStep`, `CloneStep`, `LandedStep`, `SetStep`), from
which each part has its lemma (`EntryKept` to `NotTwiceKept`); `WorkKeeps` and
`SessionEndKeeps` are about people and sessions.

*Only model-checked*: all liveness, `NoStarvation`, `DebrisCleared`, `Drains` and
`Drained` (fairness and ENABLED are out of the prover's reach). Every invariant and
action property of the passing runs is a theorem.

## 7. What is not modelled, and why

* Local turns and reentrancy of the main lock, rebase of clones: planned, section 2.
* The watch loop and its daemon: they call the operations of `MergeChain` and
  `TaskCycle`, which the models let anybody call at any time; what the daemon adds
  is a pid file under a lock. Idle management ends sessions, which `TaskCycle`
  lets end at any time; its claims are planned. Budgets: a ceiling is looked at
  before a call and exceeded by the calls that are under way, by design.
* Orchestration modes: of a race, `TaskCycle` has the start of its candidates and the
  outcome of their turns. Left out: review turns and teams, in which a clone has several
  sessions one after the other, and the choice of a winner.
* In `MergeChain`: `autoRebase`; `resolve --prepare` and `--close`, which write files
  of a ticket and nothing else; the delivery of a promotion; a failure of the abort that follows a merge that
  did not open; a revert that times out after its commit; the index lock of git.
* In `Delivery`: the mode `branch` and promotions, a push that origin completes
  after git was killed here, a person who pulls or resets the branch by hand
  (`autoPush` is set). No run lets `ls-remote` fail: the report of a refused
  fast-forward says nothing then.
* In `StateLock`: several state files under one lock, a lock file that cannot be
  read, contexts that outlive their update, the sweep of temporary files.
* In `TaskCycle`: the advice on overlaps, secrets and sizes of clones, the refs and
  branches prune removes, pty hosts, what the commit contract leaves out of a
  commit. Time limits and closing requests end a session, which may end anyway.
* In `PlanRun`: the attended node that waits for a person, the time a worker
  sleeps between two passes.
* The Test Gate, the merger and the protected paths as algorithms: their answers
  are inputs. The router and the memory are advisory.
* Agents, ACP and MCP servers, pty host, terminals, hooks, command line,
  dashboard, doctor, native signature: adapters, presentation and I/O.
