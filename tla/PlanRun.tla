-------------------------------- MODULE PlanRun --------------------------------
(***************************************************************************)
(* The application of a plan (src/src/orchestration/scheduler.ts, store.ts).   *)
(* The state of a run is one file.  A scheduler (runPlanV2) keeps the results   *)
(* in memory and writes them to the file as it goes; workers (runWorker) read   *)
(* the file on every pass and claim a node in it before they execute it.  The   *)
(* read-modify-write of the file is one step here: the lock that makes it one   *)
(* is StateLock.  An update looks whether the directory of the run is there     *)
(* before it queues for that lock, so the writes a scheduler has in flight      *)
(* reach the file in any order.  Nothing keeps a worker from joining a run a    *)
(* scheduler applies: mingled remembers that it happened.                      *)
(***************************************************************************)
EXTENDS Naturals, FiniteSets

CONSTANTS
  Proc,           \* processes of Striart
  Tasks,          \* number of nodes of the plan
  After,          \* the nodes each node names in `after`
  Resources,      \* the resources each node declares
  Sequential,     \* mode: "sequential"
  MaxConcurrency,
  Policies,       \* what the plan may say of a failure: "stop", "skip-dependents"
  NoRun,          \* there is no such file
  CrashAt,        \* program points where a process may be killed
  StopAt,         \* program points where a stop may be requested from a process
  FailAt          \* the best effort writes of the state that may fail: "flush" (those of
                  \* a scheduler), "skip", "record", "close" (those of a worker)

Node == 1..Tasks

ASSUME PlanAssumption ==
  /\ Tasks \in Nat
  /\ After \in [Node -> SUBSET Node]
  /\ \A n \in Node : \A d \in After[n] : d < n
  /\ DOMAIN Resources = Node
  /\ MaxConcurrency \in Nat \ {0}
  /\ Policies \subseteq {"stop", "skip-dependents"}

VARIABLES
  run,            \* the file of the run
  onFailure,      \* its policy, in the file too, where nothing changes it
  pc,             \* program point of each process
  results,        \* scheduler: its memory; worker: the results it last read
  busy,           \* scheduler: its running nodes; worker: those it last read as running
  exec,           \* the nodes each process is executing
  todo,           \* scheduler: its writes on their way to the file
  at,             \* where its pass over the plan is
  task,           \* worker: the node it claimed and what became of it
  stopped,        \* scheduler: a node failed under onFailure "stop"
  aborted,        \* a stop was requested from the process
  mingled         \* history: a scheduler and another process were on the run at once

vars == <<run, onFailure, pc, results, busy, exec, todo, at, task, stopped, aborted, mingled>>

Undecided == "none"
Success == {"ok"}
Failed == {"failed", "depFailed"}
Graceful == {"interrupted", "stopped"}
Result == {Undecided} \cup Success \cup Failed \cup Graceful
State == {"pending", "running", "done", "skipped"}

\* resumableResult: a graceful stop is not a decision.
Resumable(r) == IF r \in Graceful THEN Undecided ELSE r

SchedulerPcs == {"reopen", "scan", "race", "closing", "leaving"}
WorkerPcs == {"load", "claim", "skip", "exec", "record", "close"}
PCs == {"none", "out", "dead"} \cup SchedulerPcs \cup WorkerPcs

Running(p) == pc[p] \notin {"none", "out", "dead"}
Scheduling(p) == pc[p] \in SchedulerPcs
Working(p) == pc[p] \in WorkerPcs

Entry == [state : State, result : Result]
Write == [node : Node, state : State, result : Result]
Finish == [status : {"done", "interrupted"}]

TypeOK ==
  /\ run \in {NoRun} \cup [status : {"running", "done", "interrupted"}, pid : Proc,
                           node : [Node -> Entry]]
  /\ onFailure \in {"stop", "skip-dependents"}
  /\ pc \in [Proc -> PCs]
  /\ results \in [Proc -> [Node -> Result]]
  /\ busy \in [Proc -> SUBSET Node]
  /\ exec \in [Proc -> SUBSET Node]
  /\ todo \in [Proc -> SUBSET (Write \cup Finish)]
  /\ at \in [Proc -> Nat \ {0}]
  /\ task \in [Proc -> [node : Node \cup {0}, result : Result]]
  /\ stopped \in [Proc -> BOOLEAN]
  /\ aborted \in [Proc -> BOOLEAN]
  /\ mingled \in BOOLEAN

NoTask == [node |-> 0, result |-> Undecided]

Init ==
  /\ run = NoRun
  /\ onFailure \in Policies
  /\ pc = [p \in Proc |-> "none"]
  /\ results = [p \in Proc |-> [n \in Node |-> Undecided]]
  /\ busy = [p \in Proc |-> {}]
  /\ exec = [p \in Proc |-> {}]
  /\ todo = [p \in Proc |-> {}]
  /\ at = [p \in Proc |-> 1]
  /\ task = [p \in Proc |-> NoTask]
  /\ stopped = [p \in Proc |-> FALSE]
  /\ aborted = [p \in Proc |-> FALSE]
  /\ mingled = FALSE

Goto(p, l) == pc' = [pc EXCEPT ![p] = l]
Fails(c) == c \in FailAt

\* computeDeps
Deps(n) == After[n] \cup IF Sequential /\ n > 1 THEN {n - 1} ELSE {}
Concurrency == IF Sequential THEN 1 ELSE MaxConcurrency
DependencyFailed(n, res) == \E d \in Deps(n) : res[d] \notin {Undecided} \cup Success
\* Mutant: a node waits until its dependencies have started.
DependenciesStarted(n, res) ==
  \A d \in Deps(n) : res[d] # Undecided \/ (run # NoRun /\ run.node[d].state = "running")

DependenciesMet(n, res) == \A d \in Deps(n) : res[d] # Undecided
Shares(n, S) == \E m \in S : Resources[n] \cap Resources[m] # {}

-----------------------------------------------------------------------------
(* The file. *)

\* updateRunNode: nothing is written to a run that is gone; the write may fail,
\* and the caller does not know.
Update(point, n, state, result) ==
  \/ run' = IF run = NoRun THEN NoRun
            ELSE [run EXCEPT !.node[n] = [state |-> state, result |-> result]]
  \/ Fails(point) /\ UNCHANGED run

\* Mutant: the state of a node is written on the run.
FinishRunAsNode(point, status) ==
  run' = IF run = NoRun THEN NoRun
         ELSE [run EXCEPT !.status = IF status = "done" THEN "skipped" ELSE status]

FinishRun(point, status) ==
  \/ run' = IF run = NoRun THEN NoRun ELSE [run EXCEPT !.status = status]
  \/ Fails(point) /\ UNCHANGED run

\* Mutant: a node that runs may be claimed again.
ClaimableTwice(n) ==
  /\ run # NoRun
  /\ Resumable(run.node[n].result) = Undecided
  /\ ~Shares(n, {m \in Node \ {n} : run.node[m].state = "running"})

\* Mutant: the resources are those the worker knew of before.
ClaimableUnshared(n) ==
  /\ run # NoRun
  /\ run.node[n].state # "running"
  /\ Resumable(run.node[n].result) = Undecided

\* Mutant: the result of the node is not read again.
ClaimableOnState(n) ==
  /\ run # NoRun
  /\ run.node[n].state # "running"
  /\ ~Shares(n, {m \in Node : run.node[m].state = "running"})

\* claimRunNode
Claimable(n) ==
  /\ run # NoRun
  /\ run.node[n].state # "running"
  /\ Resumable(run.node[n].result) = Undecided
  /\ ~Shares(n, {m \in Node : run.node[m].state = "running"})

\* createRunState, by the first process, which goes on as scheduler or worker.
Create(p) ==
  /\ \A q \in Proc : pc[q] = "none"
  /\ run' = [status |-> "running", pid |-> p,
             node |-> [n \in Node |-> [state |-> "pending", result |-> Undecided]]]
  /\ \E l \in {"scan", "load"} : Goto(p, l)
  /\ UNCHANGED <<onFailure, results, busy, exec, todo, at, task, stopped, aborted, mingled>>

\* pruneFinished, when a process creates another run.
Prune ==
  /\ run # NoRun
  /\ run.status # "running"
  /\ run' = NoRun
  /\ UNCHANGED <<onFailure, pc, results, busy, exec, todo, at, task, stopped, aborted, mingled>>

-----------------------------------------------------------------------------
(* runPlanV2. *)

\* plan --resume: the run is not owned by a live process; workers do not own it.
Resume(p) ==
  /\ pc[p] = "none"
  /\ run # NoRun
  /\ ~(run.status = "running" /\ Running(run.pid))
  /\ Goto(p, "reopen")
  /\ mingled' = (mingled \/ \E q \in Proc : Running(q))
  /\ UNCHANGED <<run, onFailure, results, busy, exec, todo, at, task, stopped, aborted>>

\* reopenRunState
Reopen(p) ==
  /\ pc[p] = "reopen"
  /\ IF run = NoRun
     THEN Goto(p, "out") /\ UNCHANGED <<run, results>>
     ELSE /\ run' = [run EXCEPT !.status = "running", !.pid = p]
          /\ results' = [results EXCEPT ![p] =
                           [n \in Node |-> Resumable(run.node[n].result)]]
          /\ Goto(p, "scan")
  /\ UNCHANGED <<onFailure, busy, exec, todo, at, task, stopped, aborted, mingled>>

\* A pass over the plan has no await: nothing else of the process comes between.
Passing(p) == pc[p] = "scan" /\ at[p] > 1

SkipReason(p, n) ==
  IF aborted[p] THEN "interrupted"
  ELSE IF stopped[p] THEN "stopped"
  ELSE IF DependencyFailed(n, results[p]) THEN "depFailed"
  ELSE Undecided

\* updateRunNode, called: the write is on its way, behind a look at the directory.
Put(p, n, state, result) ==
  todo' = [todo EXCEPT ![p] = @ \cup {[node |-> n, state |-> state, result |-> result]}]

\* One node of the pass: it is left as it is, skipped or launched; no further one
\* is looked at when as many run as may.
Visit(p) ==
  LET n == at[p]
      settled == results[p][n] # Undecided \/ n \in busy[p]
      reason == SkipReason(p, n)
      waits == ~DependenciesMet(n, results[p]) \/ Shares(n, busy[p])
      full == Cardinality(busy[p]) >= Concurrency
  IN  /\ pc[p] = "scan"
      /\ n \in Node
      /\ \/ /\ settled \/ (reason = Undecided /\ waits)
            /\ at' = [at EXCEPT ![p] = n + 1]
            /\ UNCHANGED <<results, busy, todo>>
         \/ /\ ~settled /\ reason # Undecided
            /\ at' = [at EXCEPT ![p] = n + 1]
            /\ results' = [results EXCEPT ![p][n] = reason]
            /\ Put(p, n, "skipped", reason)
            /\ UNCHANGED busy
         \/ /\ ~settled /\ reason = Undecided /\ ~waits /\ full
            /\ at' = [at EXCEPT ![p] = Tasks + 1]
            /\ UNCHANGED <<results, busy, todo>>
         \/ /\ ~settled /\ reason = Undecided /\ ~waits /\ ~full
            /\ at' = [at EXCEPT ![p] = n + 1]
            /\ busy' = [busy EXCEPT ![p] = @ \cup {n}]
            /\ Put(p, n, "running", Undecided)
            /\ UNCHANGED results
      /\ UNCHANGED <<run, onFailure, pc, exec, task, stopped, aborted, mingled>>

\* The end of the pass: the run is finished when nothing is left running.
EndPass(p) ==
  /\ pc[p] = "scan"
  /\ at[p] \notin Node
  /\ at' = [at EXCEPT ![p] = 1]
  /\ IF busy[p] = {}
     THEN /\ todo' = [todo EXCEPT ![p] =
                        @ \cup {[status |-> IF aborted[p] THEN "interrupted" ELSE "done"]}]
          /\ Goto(p, "closing")
     ELSE Goto(p, "race") /\ UNCHANGED todo
  /\ UNCHANGED <<run, onFailure, results, busy, exec, task, stopped, aborted, mingled>>

\* One of the writes of the process reaches the file: which one is not in the
\* order they were asked for.  A node is executed once its "running" is written,
\* and leaves the running nodes once its result is.
Flush(p) ==
  /\ Scheduling(p) /\ ~Passing(p)
  /\ \E w \in todo[p] :
       /\ todo' = [todo EXCEPT ![p] = @ \ {w}]
       /\ \/ /\ w \in Finish
             /\ FinishRun("flush", w.status)
             /\ Goto(p, "leaving")
             /\ UNCHANGED <<busy, exec, stopped>>
          \/ /\ w \in Write /\ w.state = "skipped"
             /\ Update("flush", w.node, w.state, w.result)
             /\ UNCHANGED <<pc, busy, exec, stopped>>
          \/ /\ w \in Write /\ w.state = "running"
             /\ \/ run' = IF run = NoRun THEN NoRun
                          ELSE [run EXCEPT !.node[w.node].state = "running"]
                \/ Fails("flush") /\ UNCHANGED run
             /\ exec' = [exec EXCEPT ![p] = @ \cup {w.node}]
             /\ UNCHANGED <<pc, busy, stopped>>
          \/ /\ w \in Write /\ w.state = "done"
             /\ Update("flush", w.node, w.state, w.result)
             /\ busy' = [busy EXCEPT ![p] = @ \ {w.node}]
             /\ stopped' = [stopped EXCEPT ![p] =
                              @ \/ (w.result \notin Success /\ onFailure = "stop")]
             /\ Goto(p, "scan")
             /\ UNCHANGED exec
  /\ UNCHANGED <<onFailure, results, at, task, aborted, mingled>>

\* Mutant: the process exits when the run is finished, whatever it still writes.
LeaveAtOnce(p) ==
  /\ pc[p] = "leaving"
  /\ Goto(p, "out")
  /\ UNCHANGED <<run, onFailure, results, busy, exec, todo, at, task, stopped, aborted, mingled>>

\* The command answers; its process ends once nothing is left to write: the skips
\* the end of the run did not wait for may come after it.
Leave(p) ==
  /\ pc[p] = "leaving"
  /\ todo[p] = {}
  /\ Goto(p, "out")
  /\ UNCHANGED <<run, onFailure, results, busy, exec, todo, at, task, stopped, aborted, mingled>>

\* A node ends: its result is in memory at once, in the file after its turn.
NodeEnds(p, n, r) ==
  /\ Scheduling(p) /\ ~Passing(p)
  /\ n \in exec[p]
  /\ exec' = [exec EXCEPT ![p] = @ \ {n}]
  /\ results' = [results EXCEPT ![p][n] = r]
  /\ Put(p, n, "done", r)
  /\ UNCHANGED <<run, onFailure, pc, busy, at, task, stopped, aborted, mingled>>

-----------------------------------------------------------------------------
(* runWorker. *)

\* work --run: the run is there; whoever else is on it, scheduler or worker.
Join(p) ==
  /\ pc[p] = "none"
  /\ run # NoRun
  /\ Goto(p, "load")
  /\ mingled' = (mingled \/ \E q \in Proc : Scheduling(q))
  /\ UNCHANGED <<run, onFailure, results, busy, exec, todo, at, task, stopped, aborted>>

\* The head of the loop: the state is read again.
Load(p) ==
  /\ pc[p] = "load"
  /\ IF aborted[p] \/ run = NoRun
     THEN Goto(p, "out") /\ UNCHANGED <<results, busy, at>>
     ELSE /\ results' = [results EXCEPT ![p] = [n \in Node |-> Resumable(run.node[n].result)]]
          /\ busy' = [busy EXCEPT ![p] = {n \in Node : run.node[n].state = "running"}]
          /\ at' = [at EXCEPT ![p] = 1]
          /\ Goto(p, "claim")
  /\ UNCHANGED <<run, onFailure, exec, todo, task, stopped, aborted, mingled>>

\* What the state the worker read says of a node.
Stopping(p) ==
  onFailure = "stop" /\ \E n \in Node : results[p][n] \notin {Undecided} \cup Success
Advice(p, n) ==
  IF DependencyFailed(n, results[p]) THEN "depFailed"
  ELSE IF Stopping(p) THEN "stopped"
  ELSE IF DependenciesMet(n, results[p]) THEN "run" ELSE "wait"
ToClaim(p) ==
  {n \in at[p]..Tasks : /\ n \notin busy[p]
                        /\ results[p][n] = Undecided
                        /\ Advice(p, n) # "wait"}

\* The next node the worker may claim; somebody else may have taken it.
Claim(p) ==
  /\ pc[p] = "claim"
  /\ \E n \in ToClaim(p) :
       /\ \A m \in ToClaim(p) : n <= m
       /\ IF Claimable(n)
          THEN /\ run' = [run EXCEPT !.node[n] = [state |-> "running", result |-> Undecided]]
               /\ LET advice == Advice(p, n)
                  IN  IF advice = "run"
                      THEN /\ task' = [task EXCEPT ![p] = [node |-> n, result |-> Undecided]]
                           /\ exec' = [exec EXCEPT ![p] = {n}]
                           /\ Goto(p, "exec")
                      ELSE /\ task' = [task EXCEPT ![p] = [node |-> n, result |-> advice]]
                           /\ Goto(p, "skip")
                           /\ UNCHANGED exec
               /\ UNCHANGED at
          ELSE /\ at' = [at EXCEPT ![p] = n + 1]
               /\ UNCHANGED <<run, task, exec, pc>>
  /\ UNCHANGED <<onFailure, results, busy, todo, stopped, aborted, mingled>>

\* skipClaimed
SkipClaimed(p) ==
  /\ pc[p] = "skip"
  /\ Update("skip", task[p].node, "skipped", task[p].result)
  /\ at' = [at EXCEPT ![p] = task[p].node + 1]
  /\ task' = [task EXCEPT ![p] = NoTask]
  /\ Goto(p, "claim")
  /\ UNCHANGED <<onFailure, results, busy, exec, todo, stopped, aborted, mingled>>

TaskEnds(p, r) ==
  /\ pc[p] = "exec"
  /\ exec' = [exec EXCEPT ![p] = {}]
  /\ task' = [task EXCEPT ![p].result = r]
  /\ Goto(p, "record")
  /\ UNCHANGED <<run, onFailure, results, busy, todo, at, stopped, aborted, mingled>>

Record(p) ==
  /\ pc[p] = "record"
  /\ Update("record", task[p].node, "done", task[p].result)
  /\ task' = [task EXCEPT ![p] = NoTask]
  /\ Goto(p, "load")
  /\ UNCHANGED <<onFailure, results, busy, exec, todo, at, stopped, aborted, mingled>>

\* Mutant: a node that was skipped is not done.
AllExecuted == run # NoRun /\ \A n \in Node : run.node[n].state = "done"

AllDone == run # NoRun /\ \A n \in Node : /\ run.node[n].state # "running"
                                          /\ Resumable(run.node[n].result) # Undecided

\* Nothing was claimed: the state is read again, to finish or to sleep.
Refresh(p) ==
  /\ pc[p] = "claim"
  /\ ToClaim(p) = {}
  /\ Goto(p, IF AllDone THEN "close" ELSE IF aborted[p] THEN "out" ELSE "load")
  /\ UNCHANGED <<run, onFailure, results, busy, exec, todo, at, task, stopped, aborted, mingled>>

Close(p) ==
  /\ pc[p] = "close"
  /\ FinishRun("close", "done")
  /\ Goto(p, "out")
  /\ UNCHANGED <<onFailure, results, busy, exec, todo, at, task, stopped, aborted, mingled>>

-----------------------------------------------------------------------------
\* Ctrl+C
Interrupt(p) ==
  /\ Running(p) /\ ~Passing(p)
  /\ pc[p] \in StopAt
  /\ ~aborted[p]
  /\ aborted' = [aborted EXCEPT ![p] = TRUE]
  /\ UNCHANGED <<run, onFailure, pc, results, busy, exec, todo, at, task, stopped, mingled>>

\* A kill: the agents it runs go with it, its memory too.
Crash(p) ==
  /\ pc[p] \in CrashAt
  /\ Running(p)
  /\ Goto(p, "dead")
  /\ results' = [results EXCEPT ![p] = [n \in Node |-> Undecided]]
  /\ busy' = [busy EXCEPT ![p] = {}]
  /\ exec' = [exec EXCEPT ![p] = {}]
  /\ todo' = [todo EXCEPT ![p] = {}]
  /\ at' = [at EXCEPT ![p] = 1]
  /\ task' = [task EXCEPT ![p] = NoTask]
  /\ stopped' = [stopped EXCEPT ![p] = FALSE]
  /\ aborted' = [aborted EXCEPT ![p] = FALSE]
  /\ UNCHANGED <<run, onFailure, mingled>>

Ends == {"ok", "failed"}

Schedule(p) ==
  \/ Reopen(p)
  \/ Visit(p)
  \/ EndPass(p)
  \/ Flush(p)
  \/ Leave(p)
  \/ \E n \in Node, r \in Ends : NodeEnds(p, n, r)

Work(p) ==
  \/ Load(p)
  \/ Claim(p)
  \/ SkipClaimed(p)
  \/ \E r \in Ends : TaskEnds(p, r)
  \/ Record(p)
  \/ Refresh(p)
  \/ Close(p)

Next ==
  \/ Prune
  \/ \E p \in Proc :
       Create(p) \/ Resume(p) \/ Join(p) \/ Schedule(p) \/ Work(p) \/ Interrupt(p) \/ Crash(p)

Spec == Init /\ [][Next]_vars

\* A node ends (its session has a time limit), a process that runs goes on.
Fairness == \A p \in Proc : WF_vars(Schedule(p) \/ Work(p))

FairSpec == Spec /\ Fairness

-----------------------------------------------------------------------------
(* Properties. *)

\* The processes that apply the run are a scheduler alone, or workers: what
\* follows is what they keep among themselves.
Apart == ~mingled

\* No node is executed by two processes at once (claimRunNode; plan --resume).
OneExecutor ==
  Apart => \A p, q \in Proc : p # q => exec[p] \cap exec[q] = {}

\* Two nodes that share a resource never execute at once, in one process or in
\* two (claimRunNode checks them under the lock of the claim; the scheduler in
\* its memory).
ResourceExclusive ==
  Apart => \A p, q \in Proc : \A n \in exec[p], m \in exec[q] :
             <<p, n>> # <<q, m>> => Resources[n] \cap Resources[m] = {}

\* Whoever executes a node, what it depends on succeeded and the file says so, or
\* is about to: a scheduler launches a node on what it has in memory, and the
\* write of the dependency's result may still be on its way (launch).
DependenciesOnFile ==
  Apart /\ run # NoRun =>
    \A p \in Proc : \A n \in exec[p] : \A d \in Deps(n) :
      \/ run.node[d].result \in Success
      \/ /\ Scheduling(p)
         /\ \E r \in Success : [node |-> d, state |-> "done", result |-> r] \in todo[p]

\* A decision in the file is never taken back or replaced, whoever resumes or
\* joins the run (resumableResult), in whatever order the writes reach it.
DecisionsStay ==
  [][\A n \in Node :
       /\ Apart /\ run # NoRun /\ run' # NoRun
       /\ Resumable(run.node[n].result) # Undecided
       => run'.node[n].result = run.node[n].result]_vars

\* Whoever ends at the end of the run left no node without an answer in the file:
\* a worker closes what it saw decided, and the end of a scheduler's run may
\* overtake the skips nobody waits for, but not the end of its process (skip,
\* finishRunState).
DoneIsDecided ==
  [][\A p \in Proc :
       Apart /\ run # NoRun /\ pc[p] \in {"leaving", "close"} /\ pc'[p] = "out" =>
         \A n \in Node : run.node[n].result # Undecided]_vars

\* A node the file says is running, which nobody runs: its worker died.
Abandoned ==
  run # NoRun /\ \E n \in Node : /\ run.node[n].state = "running"
                                /\ \A p \in Proc : /\ n # task[p].node
                                                    /\ n \notin exec[p]
                                                    /\ ~Scheduling(p)

\* Workers skip the nodes of a run that stops; none of them counts it as ended.
Halted == onFailure = "stop" /\ run # NoRun /\ \E n \in Node : run.node[n].result \in Failed

\* Every process comes to the end of the run (WorkerResult.allDone), unless a
\* claim was abandoned or the run halted: workers wait until they are interrupted.
Drained == \A p \in Proc : Running(p) ~> ~Running(p) \/ Abandoned \/ (Working(p) /\ Halted)

\* "once any worker sees a task fail, every worker skips the remaining pending
\* ones", and is done (src/docs/en/commands.md:694).
HaltEnds == \A p \in Proc : Running(p) ~> ~Running(p) \/ Abandoned
=============================================================================
