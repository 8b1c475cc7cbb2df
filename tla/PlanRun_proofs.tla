----------------------------- MODULE PlanRun_proofs -----------------------------
(***************************************************************************)
(* The application of a plan is safe for any plan, any number of workers, any  *)
(* crashes and interrupts, while no scheduler met another process on the run    *)
(* and a scheduler's writes reach the file, in whatever order.  The argument    *)
(* has two halves.  A scheduler: the file is its memory without the writes on   *)
(* their way, of which a node has one at most.  Workers: what a worker claimed  *)
(* is running and undecided in the file until it records it, so nobody else     *)
(* claims it, or anything it shares a resource with.                            *)
(***************************************************************************)
EXTENDS PlanRun, TLAPS, FiniteSetTheorems

Decided(n) == Resumable(run.node[n].result) # Undecided

\* A scheduler works alone, and who does not run executes nothing.
SchedulesAlone == \A p, q \in Proc : Scheduling(p) /\ Running(q) => p = q
IdleExecutesNothing == \A p \in Proc : ~Running(p) => exec[p] = {}

\* A process that has not begun.
Unbegun ==
  \A p \in Proc : pc[p] \in {"none", "reopen"} =>
    /\ busy[p] = {} /\ exec[p] = {} /\ todo[p] = {} /\ at[p] = 1
    /\ \A n \in Node : results[p][n] = Undecided

\* There is no run before somebody creates it.
NobodyBegan == (\A p \in Proc : pc[p] = "none") => run = NoRun

-----------------------------------------------------------------------------
(* A scheduler. *)

\* The writes of nodes on their way to the file.
Pending(p) == todo[p] \cap Write

\* A write on its way is the only one of its node, which nobody executes and of which
\* the file knows no decision.
WaitingWrites(p) ==
  /\ \A v, w \in Pending(p) : v.node = w.node => v = w
  /\ \A w \in Pending(p) :
       /\ w.node \notin exec[p]
       /\ run # NoRun => ~Decided(w.node)
       /\ w.result = results[p][w.node]
       /\ \/ w.state = "running" /\ w.node \in busy[p] /\ w.result = Undecided
          \/ w.state = "done" /\ w.node \in busy[p] /\ w.result # Undecided
          \/ w.state = "skipped" /\ w.node \notin busy[p] /\ w.result \notin Success \cup {Undecided}

\* What is launched depends on what succeeded, in memory.
DependsOn(p, n) == \A d \in Deps(n) : results[p][d] \in Success

\* A node that is executed: undecided, its dependencies succeeded.
Executed(p) ==
  \A n \in exec[p] :
    /\ n \in busy[p] /\ results[p][n] = Undecided /\ DependsOn(p, n)
    /\ run # NoRun => ~Decided(n)

\* The memory is the file and the writes on their way.
MemoryIsFile(p) ==
  run # NoRun =>
    \A n \in Node :
      /\ Decided(n) => results[p][n] = run.node[n].result
      /\ results[p][n] # Undecided => \/ run.node[n].result = results[p][n]
                                      \/ \E w \in Pending(p) : w.node = n

\* A node is about to be executed once what it depends on succeeded.
InOrder(p) == \A w \in Pending(p) : w.state = "running" => DependsOn(p, w.node)

BusyApart(p) ==
  \A m, n \in busy[p] : m # n => Resources[m] \cap Resources[n] = {}

\* A pass that leaves a node undecided leaves a node running.
PassLeaves(p) ==
  /\ pc[p] = "scan" => /\ at[p] \in 1..(Tasks + 1)
                       /\ (\E m \in Node : m < at[p] /\ results[p][m] = Undecided) => busy[p] # {}
  /\ pc[p] # "scan" => at[p] = 1

\* The run is finished when everything is decided, and once.
ClosesLast(p) ==
  /\ \A w \in todo[p] \cap Finish : pc[p] = "closing"
  /\ \A v, w \in todo[p] \cap Finish : v = w
  /\ pc[p] \in {"closing", "leaving"} => busy[p] = {} /\ \A n \in Node : results[p][n] # Undecided

SInv(p) ==
  /\ WaitingWrites(p) /\ Executed(p) /\ MemoryIsFile(p) /\ InOrder(p)
  /\ BusyApart(p) /\ PassLeaves(p) /\ ClosesLast(p)

-----------------------------------------------------------------------------
(* A worker. *)

\* Between its claim and the record of what became of the node.
Holding(p) == pc[p] \in {"skip", "exec", "record"}

ClaimHolds(p) ==
  Holding(p) => /\ task[p].node \in Node
                /\ run # NoRun => /\ run.node[task[p].node].state = "running"
                                  /\ run.node[task[p].node].result = Undecided

ExecutesItsTask(p) ==
  /\ pc[p] = "exec" => exec[p] = {task[p].node}
  /\ pc[p] # "exec" => exec[p] = {}

\* What a worker read of decisions is still so.
ReadHolds(p) ==
  run # NoRun =>
    \A n \in Node : Resumable(results[p][n]) # Undecided => run.node[n].result = results[p][n]

DependenciesHold(p) ==
  pc[p] = "exec" /\ run # NoRun =>
    \A d \in Deps(task[p].node) : run.node[d].result \in Success

ClosesDecided(p) ==
  pc[p] = "close" /\ run # NoRun => \A n \in Node : Decided(n)

WInv(p) ==
  ClaimHolds(p) /\ ExecutesItsTask(p) /\ ReadHolds(p) /\ DependenciesHold(p) /\ ClosesDecided(p)

ClaimsApart ==
  \A p, q \in Proc : p # q /\ Holding(p) /\ Holding(q) =>
    /\ task[p].node # task[q].node
    /\ Resources[task[p].node] \cap Resources[task[q].node] = {}

-----------------------------------------------------------------------------
PInv ==
  /\ TypeOK /\ SchedulesAlone /\ IdleExecutesNothing /\ Unbegun /\ NobodyBegan /\ ClaimsApart
  /\ \A p \in Proc : /\ Scheduling(p) /\ pc[p] # "reopen" => SInv(p)
                     /\ Working(p) => WInv(p)

LEMMA InitInv == Init => PInv
<1> SUFFICES ASSUME Init PROVE PInv
  OBVIOUS
<1>1. TypeOK
  <2>1. todo \in [Proc -> SUBSET (Write \cup Finish)]
    BY DEF Init
  <2>2. onFailure \in {"stop", "skip-dependents"}
    BY PlanAssumption DEF Init
  <2>3. pc \in [Proc -> PCs] /\ at \in [Proc -> Nat \ {0}]
    BY DEF Init, PCs
  <2>4. /\ results \in [Proc -> [Node -> Result]]
        /\ task \in [Proc -> [node : Node \cup {0}, result : Result]]
    BY DEF Init, NoTask, Result
  <2>5. mingled \in BOOLEAN /\ stopped \in [Proc -> BOOLEAN] /\ aborted \in [Proc -> BOOLEAN]
    BY DEF Init
  <2> QED
    BY <2>1, <2>2, <2>3, <2>4, <2>5 DEF Init, TypeOK
<1>2. \A p \in Proc : pc[p] = "none"
  BY DEF Init
<1>3. \A p \in Proc : ~Running(p) /\ ~Scheduling(p) /\ ~Working(p) /\ ~Holding(p)
  BY <1>2 DEF Running, Scheduling, Working, Holding, SchedulerPcs, WorkerPcs
<1> QED
  BY <1>1, <1>3 DEF Init, PInv, SchedulesAlone, IdleExecutesNothing, Unbegun, NobodyBegan, ClaimsApart

LEMMA DepsType == \A n \in Node : Deps(n) \subseteq Node /\ \A d \in Deps(n) : d < n
BY PlanAssumption DEF Deps, Node

\* The invariant says what matters.
LEMMA InvExecutor == PInv => OneExecutor /\ ResourceExclusive /\ DependenciesOnFile
<1> SUFFICES ASSUME PInv PROVE OneExecutor /\ ResourceExclusive /\ DependenciesOnFile
  OBVIOUS
<1>1. ASSUME NEW p \in Proc, NEW n \in exec[p]
      PROVE  \/ Scheduling(p) /\ pc[p] # "reopen" /\ SInv(p)
             \/ pc[p] = "exec" /\ n = task[p].node /\ WInv(p)
  <2>1. Running(p) /\ pc[p] # "reopen" /\ pc[p] \in PCs
    BY <1>1 DEF PInv, TypeOK, IdleExecutesNothing, Unbegun
  <2>2. Scheduling(p) \/ Working(p)
    BY <2>1 DEF Running, Scheduling, Working, PCs
  <2>3. CASE Scheduling(p)
    BY <2>1, <2>3 DEF PInv
  <2>4. CASE Working(p)
    BY <1>1, <2>4 DEF PInv, WInv, ExecutesItsTask
  <2> QED
    BY <2>2, <2>3, <2>4
<1>2. ASSUME NEW p \in Proc, NEW q \in Proc, p # q, NEW n \in exec[p], NEW m \in exec[q]
      PROVE  n # m /\ Resources[n] \cap Resources[m] = {}
  <2>1. Running(p) /\ Running(q)
    BY <1>2 DEF PInv, IdleExecutesNothing
  <2>2. ~Scheduling(p) /\ ~Scheduling(q)
    BY <1>2, <2>1 DEF PInv, SchedulesAlone
  <2> QED
    BY <1>1, <1>2, <2>2 DEF PInv, ClaimsApart, Holding
<1>3. OneExecutor
  BY <1>2 DEF OneExecutor
<1>4. ASSUME NEW p \in Proc, NEW n \in exec[p], NEW m \in exec[p], n # m
      PROVE  Resources[n] \cap Resources[m] = {}
  BY <1>1, <1>4 DEF SInv, Executed, BusyApart
<1>5. ResourceExclusive
  BY <1>2, <1>4 DEF ResourceExclusive
<1>6. DependenciesOnFile
  <2>1. ASSUME run # NoRun, NEW p \in Proc, NEW n \in exec[p], NEW d \in Deps(n),
               Scheduling(p), SInv(p), run.node[d].result \notin Success
        PROVE  \E r \in Success : [node |-> d, state |-> "done", result |-> r] \in todo[p]
    <3>1. d \in Node
      BY <2>1, DepsType DEF PInv, TypeOK
    <3>2. results[p][d] \in Success
      BY <2>1 DEF SInv, Executed, DependsOn
    <3>3. PICK w \in Pending(p) : w.node = d
      BY <2>1, <3>1, <3>2 DEF SInv, MemoryIsFile, Success, Undecided
    <3>4. w.result = results[p][d] /\ w.state = "done"
      BY <2>1, <3>2, <3>3 DEF SInv, WaitingWrites, Success, Undecided
    <3>5. w \in todo[p] /\ w \in Write
      BY DEF Pending
    <3>6. w = [node |-> d, state |-> "done", result |-> results[p][d]]
      BY <3>3, <3>4, <3>5 DEF Write
    <3> QED
      BY <3>2, <3>5, <3>6
  <2>2. ASSUME run # NoRun, NEW p \in Proc, NEW n \in exec[p], NEW d \in Deps(n), WInv(p),
               pc[p] = "exec", n = task[p].node
        PROVE  run.node[d].result \in Success
    BY <2>2 DEF WInv, DependenciesHold
  <2> QED
    BY <1>1, <2>1, <2>2 DEF DependenciesOnFile
<1> QED
  BY <1>3, <1>5, <1>6

-----------------------------------------------------------------------------
(* Types. *)

RunType == [status : {"running", "done", "interrupted"}, pid : Proc, node : [Node -> Entry]]

\* What a write does to the file.
LEMMA UpdateType ==
  ASSUME run \in {NoRun} \cup RunType, NEW n, NEW st \in State, NEW r \in Result, NEW point,
         Update(point, n, st, r)
  PROVE  run' \in {NoRun} \cup RunType
BY DEF Update, RunType, Entry

LEMMA UpdateDoes ==
  ASSUME run \in {NoRun} \cup RunType, NEW n \in Node, NEW st, NEW r, NEW point,
         Update(point, n, st, r), run' # NoRun
  PROVE  /\ run # NoRun
         /\ \A m \in Node : m # n => run'.node[m] = run.node[m]
         /\ run'.status = run.status
         /\ \/ run'.node[n] = [state |-> st, result |-> r]
            \/ Fails(point) /\ run' = run
BY DEF Update, RunType

LEMMA FinishType ==
  ASSUME run \in {NoRun} \cup RunType, NEW st \in {"running", "done", "interrupted"}, NEW point,
         FinishRun(point, st)
  PROVE  run' \in {NoRun} \cup RunType
BY DEF FinishRun, RunType

\* A write of a scheduler reaches the file.
FlushOf(p, w) ==
  /\ todo' = [todo EXCEPT ![p] = @ \ {w}]
  /\ \/ /\ w \in Finish
        /\ FinishRun("flush", w.status)
        /\ Goto(p, "leaving")
        /\ UNCHANGED <<busy, exec, stopped>>
     \/ /\ w \in Write /\ w.state = "skipped"
        /\ Update("flush", w.node, w.state, w.result)
        /\ UNCHANGED <<pc, busy, exec, stopped>>
     \/ /\ w \in Write /\ w.state = "running"
        /\ \/ run' = IF run = NoRun THEN NoRun ELSE [run EXCEPT !.node[w.node].state = "running"]
           \/ Fails("flush") /\ UNCHANGED run
        /\ exec' = [exec EXCEPT ![p] = @ \cup {w.node}]
        /\ UNCHANGED <<pc, busy, stopped>>
     \/ /\ w \in Write /\ w.state = "done"
        /\ Update("flush", w.node, w.state, w.result)
        /\ busy' = [busy EXCEPT ![p] = @ \ {w.node}]
        /\ stopped' = [stopped EXCEPT ![p] = @ \/ (w.result \notin Success /\ onFailure = "stop")]
        /\ Goto(p, "scan")
        /\ UNCHANGED exec
  /\ UNCHANGED <<onFailure, results, at, task, aborted, mingled>>

LEMMA FlushIs ==
  ASSUME NEW p \in Proc, Flush(p)
  PROVE  Scheduling(p) /\ ~Passing(p) /\ \E w \in todo[p] : FlushOf(p, w)
BY DEF Flush, FlushOf

LEMMA FlushType ==
  ASSUME TypeOK, NEW p \in Proc, Flush(p)
  PROVE  TypeOK'
<1>w. PICK w \in todo[p] : FlushOf(p, w)
  BY FlushIs
<1>0. /\ run \in {NoRun} \cup RunType
      /\ todo' = [todo EXCEPT ![p] = @ \ {w}]
      /\ UNCHANGED <<onFailure, results, at, task, aborted, mingled>>
  BY <1>w DEF TypeOK, RunType, FlushOf
<1>1. todo' \in [Proc -> SUBSET (Write \cup Finish)]
  BY <1>0 DEF TypeOK
<1>2. CASE /\ w \in Finish /\ FinishRun("flush", w.status) /\ Goto(p, "leaving")
           /\ UNCHANGED <<busy, exec, stopped>>
  <2>1. run' \in {NoRun} \cup RunType
    BY <1>0, <1>2, FinishType DEF Finish
  <2> QED
    BY <1>0, <1>1, <1>2, <2>1 DEF TypeOK, RunType, Goto, PCs, SchedulerPcs
<1>3. CASE /\ w \in Write /\ Update("flush", w.node, w.state, w.result)
           /\ UNCHANGED <<pc, busy, exec, stopped>>
  <2>1. run' \in {NoRun} \cup RunType
    BY <1>0, <1>3, UpdateType DEF Write
  <2> QED
    BY <1>0, <1>1, <1>3, <2>1 DEF TypeOK, RunType
<1>4. CASE /\ w \in Write
           /\ \/ run' = IF run = NoRun THEN NoRun ELSE [run EXCEPT !.node[w.node].state = "running"]
              \/ Fails("flush") /\ UNCHANGED run
           /\ exec' = [exec EXCEPT ![p] = @ \cup {w.node}]
           /\ UNCHANGED <<pc, busy, stopped>>
  <2>1. run' \in {NoRun} \cup RunType
    <3>1. CASE run \in RunType /\ run' = [run EXCEPT !.node[w.node].state = "running"]
      <4>1. w.node \in Node /\ run.node \in [Node -> Entry]
        BY <1>4, <3>1 DEF Write, RunType
      <4>2. [run.node[w.node] EXCEPT !.state = "running"] \in Entry
        BY <4>1 DEF Entry, State
      <4>3. run' = [run EXCEPT !.node = [run.node EXCEPT ![w.node] = [run.node[w.node] EXCEPT !.state = "running"]]]
        BY <3>1
      <4>4. [run.node EXCEPT ![w.node] = [run.node[w.node] EXCEPT !.state = "running"]] \in [Node -> Entry]
        BY <4>1, <4>2
      <4> QED
        BY <3>1, <4>3, <4>4 DEF RunType
    <3>2. CASE run' \in {run, NoRun}
      BY <1>0, <3>2
    <3> QED
      BY <1>0, <1>4, <3>1, <3>2
  <2>2. exec' \in [Proc -> SUBSET Node]
    BY <1>4 DEF Write, TypeOK
  <2> QED
    BY <1>0, <1>1, <1>4, <2>1, <2>2 DEF TypeOK, RunType
<1>5. CASE /\ w \in Write /\ Update("flush", w.node, w.state, w.result)
           /\ busy' = [busy EXCEPT ![p] = @ \ {w.node}]
           /\ stopped' = [stopped EXCEPT ![p] = @ \/ (w.result \notin Success /\ onFailure = "stop")]
           /\ Goto(p, "scan")
           /\ UNCHANGED exec
  <2>1. run' \in {NoRun} \cup RunType
    BY <1>0, <1>5, UpdateType DEF Write
  <2>2. busy' \in [Proc -> SUBSET Node]
    BY <1>5 DEF TypeOK
  <2>3. stopped' \in [Proc -> BOOLEAN]
    BY <1>5 DEF TypeOK
  <2>4. pc' \in [Proc -> PCs]
    BY <1>5 DEF TypeOK, Goto, PCs, SchedulerPcs
  <2> QED
    BY <1>0, <1>1, <1>5, <2>1, <2>2, <2>3, <2>4 DEF TypeOK, RunType
<1> QED
  BY <1>w, <1>2, <1>3, <1>4, <1>5 DEF FlushOf

LEMMA VisitType ==
  ASSUME TypeOK, NEW p \in Proc, Visit(p)
  PROVE  TypeOK'
<1> DEFINE n == at[p]
           reason == SkipReason(p, n)
<1>1. n \in Node /\ n + 1 \in Nat \ {0} /\ Tasks + 1 \in Nat \ {0} /\ reason \in Result
  BY PlanAssumption DEF Visit, Node, SkipReason, Result, Success, Failed, Graceful
<1>2. at' \in [Proc -> Nat \ {0}]
  BY <1>1 DEF Visit, TypeOK
<1>3. results' \in [Proc -> [Node -> Result]]
  <2>1. results' = results \/ results' = [results EXCEPT ![p][n] = reason]
    BY DEF Visit
  <2>2. results \in [Proc -> [Node -> Result]]
    BY DEF TypeOK
  <2> QED
    BY <1>1, <2>1, <2>2
<1>4. busy' \in [Proc -> SUBSET Node]
  <2>1. busy' = busy \/ busy' = [busy EXCEPT ![p] = @ \cup {n}]
    BY DEF Visit
  <2>2. busy \in [Proc -> SUBSET Node]
    BY DEF TypeOK
  <2> QED
    BY <1>1, <2>1, <2>2
<1>5. ASSUME NEW st \in State, NEW r \in Result, Put(p, n, st, r)
      PROVE  todo' \in [Proc -> SUBSET (Write \cup Finish)]
  <2>1. [node |-> n, state |-> st, result |-> r] \in Write \cup Finish
    BY <1>1 DEF Write
  <2> QED
    BY <1>5, <2>1 DEF Put, TypeOK
<1>6. {"skipped", "running"} \subseteq State /\ Undecided \in Result
  BY DEF State, Result
<1>7. todo' \in [Proc -> SUBSET (Write \cup Finish)]
  BY <1>1, <1>5, <1>6 DEF Visit, TypeOK
<1> QED
  BY <1>2, <1>3, <1>4, <1>7 DEF Visit, TypeOK

LEMMA ToClaimType ==
  ASSUME TypeOK, NEW p \in Proc, NEW n \in ToClaim(p)
  PROVE  n \in Node /\ n \in Nat /\ n + 1 \in Nat \ {0}
<1>1. at[p] \in Nat \ {0} /\ Tasks \in Nat /\ n \in at[p]..Tasks
  BY PlanAssumption DEF TypeOK, ToClaim
<1> QED
  BY <1>1 DEF Node

LEMMA ClaimType ==
  ASSUME TypeOK, NEW p \in Proc, Claim(p)
  PROVE  TypeOK'
<1>1. PICK n \in ToClaim(p) :
         IF Claimable(n)
         THEN /\ run' = [run EXCEPT !.node[n] = [state |-> "running", result |-> Undecided]]
              /\ LET advice == Advice(p, n)
                 IN  IF advice = "run"
                     THEN /\ task' = [task EXCEPT ![p] = [node |-> n, result |-> Undecided]]
                          /\ exec' = [exec EXCEPT ![p] = {n}]
                          /\ Goto(p, "exec")
                     ELSE /\ task' = [task EXCEPT ![p] = [node |-> n, result |-> advice]]
                          /\ Goto(p, "skip")
                          /\ UNCHANGED exec
              /\ UNCHANGED at
         ELSE /\ at' = [at EXCEPT ![p] = n + 1]
              /\ UNCHANGED <<run, task, exec, pc>>
  BY DEF Claim
<1>2. n \in Node /\ n + 1 \in Nat \ {0}
  <2>1. n \in at[p]..Tasks /\ at[p] \in Nat \ {0}
    BY DEF ToClaim, TypeOK
  <2> QED
    BY <2>1, ToClaimType
<1>3. Advice(p, n) \in Result \cup {"run"}
  BY <1>1 DEF ToClaim, Advice, Result, Failed, Graceful
<1>4. run' \in {NoRun} \cup RunType
  <2>1. run \in {NoRun} \cup RunType /\ (Claimable(n) => run \in RunType)
    BY DEF TypeOK, RunType, Claimable
  <2>2. [state |-> "running", result |-> Undecided] \in Entry
    BY DEF Entry, State, Result
  <2> QED
    BY <1>1, <1>2, <2>1, <2>2 DEF RunType
<1>5. task' \in [Proc -> [node : Node \cup {0}, result : Result]]
  <2>1. task \in [Proc -> [node : Node \cup {0}, result : Result]] /\ Undecided \in Result
    BY DEF TypeOK, Result
  <2> QED
    BY <1>1, <1>2, <1>3, <2>1
<1>6. exec' \in [Proc -> SUBSET Node]
  BY <1>1, <1>2 DEF TypeOK
<1>7. pc' \in [Proc -> PCs]
  BY <1>1 DEF TypeOK, Goto, PCs, WorkerPcs
<1>8. at' \in [Proc -> Nat \ {0}]
  BY <1>1, <1>2 DEF TypeOK
<1> QED
  BY <1>4, <1>5, <1>6, <1>7, <1>8 DEF Claim, TypeOK, RunType

LEMMA WorkType ==
  ASSUME TypeOK, NEW p \in Proc, Work(p)
  PROVE  TypeOK'
<1>0. run \in {NoRun} \cup RunType
  BY DEF TypeOK, RunType
<1>1. CASE Load(p)
  <2>1. results' \in [Proc -> [Node -> Result]]
    <3>1. run # NoRun => [n \in Node |-> Resumable(run.node[n].result)] \in [Node -> Result]
      BY <1>0 DEF RunType, Entry, Resumable, Result
    <3>2. results \in [Proc -> [Node -> Result]]
      BY DEF TypeOK
    <3> QED
      BY <1>1, <3>1, <3>2 DEF Load
  <2>2. busy' \in [Proc -> SUBSET Node]
    <3>1. busy \in [Proc -> SUBSET Node]
      BY DEF TypeOK
    <3> QED
      BY <1>1, <3>1 DEF Load
  <2>3. pc' \in [Proc -> PCs] /\ at' \in [Proc -> Nat \ {0}]
    <3>1. pc \in [Proc -> PCs] /\ at \in [Proc -> Nat \ {0}]
      BY DEF TypeOK
    <3> QED
      BY <1>1, <3>1 DEF Load, Goto, PCs, WorkerPcs
  <2> QED
    BY <1>1, <2>1, <2>2, <2>3 DEF Load, TypeOK
<1>2. CASE Claim(p)
  BY <1>2, ClaimType
<1>3. CASE SkipClaimed(p) \/ Record(p)
  <2>1. task[p].node \in Nat /\ task[p].result \in Result /\ NoTask \in [node : Node \cup {0}, result : Result]
    BY PlanAssumption DEF TypeOK, Node, NoTask, Result
  <2>2. run' \in {NoRun} \cup RunType
    BY <1>0, <1>3, <2>1, UpdateType DEF SkipClaimed, Record, State
  <2>3. pc' \in [Proc -> PCs] /\ at' \in [Proc -> Nat \ {0}]
        /\ task' \in [Proc -> [node : Node \cup {0}, result : Result]]
    <3>1. pc \in [Proc -> PCs] /\ at \in [Proc -> Nat \ {0}]
          /\ task \in [Proc -> [node : Node \cup {0}, result : Result]]
      BY DEF TypeOK
    <3>2. pc' \in [Proc -> PCs]
      BY <1>3, <3>1 DEF SkipClaimed, Record, Goto, PCs, WorkerPcs
    <3>3. at' \in [Proc -> Nat \ {0}] /\ task' \in [Proc -> [node : Node \cup {0}, result : Result]]
      BY <1>3, <2>1, <3>1 DEF SkipClaimed, Record
    <3> QED
      BY <3>2, <3>3
  <2> QED
    BY <1>3, <2>2, <2>3 DEF SkipClaimed, Record, TypeOK, RunType
<1>4. ASSUME NEW r \in Ends, TaskEnds(p, r) PROVE TypeOK'
  <2>1. pc \in [Proc -> PCs] /\ exec \in [Proc -> SUBSET Node]
        /\ task \in [Proc -> [node : Node \cup {0}, result : Result]]
    BY DEF TypeOK
  <2>2. r \in Result
    BY DEF Ends, Result, Success, Failed
  <2>3. pc' \in [Proc -> PCs] /\ exec' \in [Proc -> SUBSET Node]
        /\ task' \in [Proc -> [node : Node \cup {0}, result : Result]]
    BY <1>4, <2>1, <2>2 DEF TaskEnds, Goto, PCs, WorkerPcs
  <2> QED
    BY <1>4, <2>3 DEF TaskEnds, TypeOK
<1>5. CASE Refresh(p)
  BY <1>5 DEF Refresh, TypeOK, Goto, PCs, WorkerPcs
<1>6. CASE Close(p)
  <2>1. run' \in {NoRun} \cup RunType
    BY <1>0, <1>6, FinishType DEF Close
  <2> QED
    BY <1>6, <2>1 DEF Close, TypeOK, RunType, Goto, PCs
<1> QED
  BY <1>1, <1>2, <1>3, <1>4, <1>5, <1>6 DEF Work

LEMMA ScheduleType ==
  ASSUME TypeOK, NEW p \in Proc, Schedule(p)
  PROVE  TypeOK'
<1>1. CASE Reopen(p)
  <2>1. run \in {NoRun} \cup RunType /\ results \in [Proc -> [Node -> Result]] /\ pc \in [Proc -> PCs]
    BY DEF TypeOK, RunType
  <2>2. run # NoRun => [n \in Node |-> Resumable(run.node[n].result)] \in [Node -> Result]
    BY <2>1 DEF RunType, Entry, Resumable, Result
  <2>3. results' \in [Proc -> [Node -> Result]]
    BY <1>1, <2>1, <2>2 DEF Reopen
  <2>4. run' \in {NoRun} \cup RunType /\ pc' \in [Proc -> PCs]
    BY <1>1, <2>1 DEF Reopen, RunType, Goto, PCs, SchedulerPcs
  <2> QED
    BY <1>1, <2>3, <2>4 DEF Reopen, TypeOK, RunType
<1>2. CASE EndPass(p)
  <2>1. \A st \in {"interrupted", "done"} : [status |-> st] \in Write \cup Finish
    BY DEF Finish
  <2>2. todo' \in [Proc -> SUBSET (Write \cup Finish)]
    <3>1. todo \in [Proc -> SUBSET (Write \cup Finish)]
      BY DEF TypeOK
    <3>2. CASE todo' = todo
      BY <3>1, <3>2
    <3>3. ASSUME NEW st \in {"interrupted", "done"},
                 todo' = [todo EXCEPT ![p] = @ \cup {[status |-> st]}]
          PROVE  todo' \in [Proc -> SUBSET (Write \cup Finish)]
      <4>1. todo[p] \cup {[status |-> st]} \in SUBSET (Write \cup Finish)
        BY <2>1, <3>1
      <4> QED
        BY <3>1, <3>3, <4>1
    <3>4. CASE aborted[p]
      BY <1>2, <3>2, <3>3, <3>4 DEF EndPass
    <3>5. CASE ~aborted[p]
      BY <1>2, <3>2, <3>3, <3>5 DEF EndPass
    <3> QED
      BY <3>4, <3>5
  <2>3. pc' \in [Proc -> PCs] /\ at' \in [Proc -> Nat \ {0}]
    <3>1. pc \in [Proc -> PCs] /\ at \in [Proc -> Nat \ {0}]
      BY DEF TypeOK
    <3>2. at' = [at EXCEPT ![p] = 1] /\ (Goto(p, "closing") \/ Goto(p, "race"))
      BY <1>2 DEF EndPass
    <3>3. {"closing", "race"} \subseteq PCs
      BY DEF PCs, SchedulerPcs
    <3>4. at' \in [Proc -> Nat \ {0}]
      BY <3>1, <3>2
    <3> QED
      BY <3>1, <3>2, <3>3, <3>4 DEF Goto
  <2> QED
    BY <1>2, <2>2, <2>3 DEF EndPass, TypeOK
<1>3. ASSUME NEW n \in Node, NEW r \in Ends, NodeEnds(p, n, r) PROVE TypeOK'
  <2>1. r \in Result /\ [node |-> n, state |-> "done", result |-> r] \in Write \cup Finish
    BY DEF Ends, Result, Success, Failed, Write, State
  <2>2. todo' \in [Proc -> SUBSET (Write \cup Finish)]
    BY <1>3, <2>1 DEF NodeEnds, Put, TypeOK
  <2> QED
    BY <1>3, <2>1, <2>2 DEF NodeEnds, TypeOK
<1>4. CASE Leave(p)
  BY <1>4 DEF Leave, TypeOK, Goto, PCs
<1> QED
  BY <1>1, <1>2, <1>3, <1>4, VisitType, FlushType DEF Schedule

LEMMA OtherType ==
  ASSUME TypeOK, NEW p \in Proc,
         Create(p) \/ Resume(p) \/ Join(p) \/ Interrupt(p) \/ Crash(p)
  PROVE  TypeOK'
<1>1. CASE Create(p)
  BY <1>1 DEF Create, TypeOK, Goto, PCs, SchedulerPcs, WorkerPcs, Entry, State, Result
<1>2. CASE Resume(p) \/ Join(p) \/ Interrupt(p)
  BY <1>2 DEF Resume, Join, Interrupt, TypeOK, Goto, PCs, SchedulerPcs, WorkerPcs
<1>3. CASE Crash(p)
  BY <1>3, PlanAssumption DEF Crash, TypeOK, Goto, PCs, NoTask, Result
<1> QED
  BY <1>1, <1>2, <1>3

LEMMA TypeStep ==
  ASSUME TypeOK, [Next]_vars
  PROVE  TypeOK'
<1>1. CASE Prune
  BY <1>1 DEF Prune, TypeOK
<1>2. CASE UNCHANGED vars
  BY <1>2 DEF vars, TypeOK
<1> QED
  BY <1>1, <1>2, WorkType, ScheduleType, OtherType DEF Next

-----------------------------------------------------------------------------
(* The writes that wait. *)

LEMMA WriteNotFinish == Write \cap Finish = {}
<1> SUFFICES ASSUME NEW w \in Write, w \in Finish PROVE FALSE
  OBVIOUS
<1>1. "node" \in DOMAIN w /\ "node" \notin DOMAIN w
  BY DEF Write, Finish
<1> QED
  BY <1>1

\* Who is in the middle of a decision is not decided.
LEMMA DecidedFacts ==
  /\ Resumable(Undecided) = Undecided
  /\ \A r \in Success : Resumable(r) = r /\ r # Undecided
  /\ \A r : Resumable(r) # Undecided => Resumable(r) = r /\ r # Undecided
  /\ \A r : Resumable(Resumable(r)) = Resumable(r)
BY DEF Resumable, Undecided, Graceful, Success

\* A node that is neither busy nor decided in memory waits for no write, is not
\* executed and not decided in the file.
LEMMA Untouched ==
  ASSUME NEW p \in Proc, SInv(p), NEW n \in Node,
         n \notin busy[p], results[p][n] = Undecided
  PROVE  /\ n \notin exec[p]
         /\ run # NoRun => ~Decided(n)
         /\ \A v \in Pending(p) : v.node # n
<1>1. n \notin exec[p]
  BY DEF SInv, Executed
<1>2. run # NoRun => ~Decided(n)
  BY DecidedFacts DEF SInv, MemoryIsFile, Decided
<1>3. \A v \in Pending(p) : v.node # n
  BY DEF SInv, WaitingWrites
<1> QED
  BY <1>1, <1>2, <1>3

LEMMA WriteParts ==
  ASSUME NEW w \in Write
  PROVE  w.node \in Node /\ w.state \in State /\ w.result \in Result
BY DEF Write

\* A write of a node that waits for none is added, with what it says in memory.
LEMMA PutStep ==
  ASSUME TypeOK, NEW p \in Proc, SInv(p),
         NEW n \in Node, NEW st \in State, NEW r \in Result,
         results[p][n] = Undecided, run # NoRun => ~Decided(n),
         \A v \in Pending(p) : v.node # n,
         results' = [results EXCEPT ![p][n] = r], Put(p, n, st, r), run' = run,
         exec'[p] = exec[p] \ {n}, busy'[p] \in {busy[p], busy[p] \cup {n}},
         \/ st = "running" /\ n \in busy'[p] /\ r = Undecided /\ DependsOn(p, n)
         \/ st = "done" /\ n \in busy'[p] /\ r # Undecided
         \/ st = "skipped" /\ n \notin busy'[p] /\ r \notin Success \cup {Undecided}
  PROVE  /\ WaitingWrites(p)' /\ Executed(p)' /\ MemoryIsFile(p)' /\ InOrder(p)'
         /\ todo'[p] \cap Finish = todo[p] \cap Finish
<1> DEFINE w == [node |-> n, state |-> st, result |-> r]
<1>0. /\ w \in Write /\ w.node = n /\ w.state = st /\ w.result = r /\ w \notin Finish
  BY WriteNotFinish DEF Write
<1>1. results'[p][n] = r /\ \A m \in Node : m # n => results'[p][m] = results[p][m]
  BY DEF TypeOK
<1>2. todo'[p] = todo[p] \cup {w}
  BY DEF Put, TypeOK
<1> HIDE DEF w
<1>3. /\ Pending(p)' = Pending(p) \cup {w}
      /\ todo'[p] \cap Finish = todo[p] \cap Finish
  BY <1>0, <1>2 DEF Pending
<1>4. \A v \in Pending(p) : v.node \in Node /\ v.node # n
  BY WriteParts DEF Pending
<1>5. \A m \in Node : Decided(m)' <=> Decided(m)
  BY DEF Decided
<1>6. ASSUME NEW m \in Node, DependsOn(p, m)
      PROVE  DependsOn(p, m)'
  <2>1. \A d \in Deps(m) : d \in Node /\ results[p][d] \in Success /\ d # n
    BY <1>6, DepsType DEF DependsOn, Success, Undecided
  <2> QED
    BY <1>1, <2>1 DEF DependsOn, Deps
<1>7. WaitingWrites(p)'
  <2>1. ASSUME NEW u \in Pending(p)', NEW v \in Pending(p)', u.node = v.node
        PROVE  u = v
    BY <1>0, <1>3, <1>4, <2>1 DEF SInv, WaitingWrites
  <2>2. ASSUME NEW v \in Pending(p)'
        PROVE  /\ v.node \notin exec'[p]
               /\ run' # NoRun => ~Decided(v.node)
               /\ v.result = results'[p][v.node]
               /\ \/ v.state = "running" /\ v.node \in busy'[p] /\ v.result = Undecided
                  \/ v.state = "done" /\ v.node \in busy'[p] /\ v.result # Undecided
                  \/ /\ v.state = "skipped" /\ v.node \notin busy'[p]
                     /\ v.result \notin Success \cup {Undecided}
    <3>1. CASE v = w
      BY <1>0, <1>1, <3>1
    <3>2. CASE v \in Pending(p)
      BY <1>1, <1>4, <3>2 DEF SInv, WaitingWrites
    <3> QED
      BY <1>3, <2>2, <3>1, <3>2
  <2> QED
    BY <2>1, <2>2 DEF WaitingWrites, Decided
<1>8. Executed(p)'
  <2>1. ASSUME NEW m \in exec'[p]
        PROVE  /\ m \in busy'[p] /\ results'[p][m] = Undecided /\ DependsOn(p, m)'
               /\ run # NoRun => ~Decided(m)
    <3>1. m \in exec[p] /\ m # n /\ m \in Node
      BY <2>1 DEF TypeOK
    <3> QED
      BY <1>1, <1>6, <3>1 DEF SInv, Executed
  <2> QED
    BY <2>1 DEF Executed, Decided
<1>9. MemoryIsFile(p)'
  <2>1. ASSUME run # NoRun, NEW m \in Node
        PROVE  /\ Decided(m) => results'[p][m] = run.node[m].result
               /\ results'[p][m] # Undecided => \/ run.node[m].result = results'[p][m]
                                                \/ \E v \in Pending(p)' : v.node = m
    <3>1. CASE m = n
      BY <1>0, <1>1, <1>3, <2>1, <3>1
    <3>2. CASE m # n
      BY <1>1, <1>3, <2>1, <3>2 DEF SInv, MemoryIsFile
    <3> QED
      BY <3>1, <3>2
  <2> QED
    BY <2>1 DEF MemoryIsFile, Decided
<1>10. InOrder(p)'
  <2>1. ASSUME NEW v \in Pending(p)', v.state = "running"
        PROVE  DependsOn(p, v.node)'
    <3>1. CASE v = w
      BY <1>0, <1>6, <2>1, <3>1
    <3>2. CASE v \in Pending(p)
      BY <1>4, <1>6, <2>1, <3>2 DEF SInv, InOrder
    <3> QED
      BY <1>3, <2>1, <3>1, <3>2
  <2> QED
    BY <2>1 DEF InOrder, DependsOn, Deps
<1> QED
  BY <1>3, <1>7, <1>8, <1>9, <1>10

\* A write of a node reaches the file.
LEMMA PopStep ==
  ASSUME TypeOK, NEW p \in Proc, SInv(p), NEW w \in Write, w \in todo[p],
         todo' = [todo EXCEPT ![p] = @ \ {w}], results' = results,
         run' # NoRun =>
           /\ run # NoRun
           /\ \A m \in Node : run'.node[m].result = IF m = w.node /\ w.state # "running"
                                                   THEN w.result ELSE run.node[m].result,
         exec'[p] = IF w.state = "running" THEN exec[p] \cup {w.node} ELSE exec[p],
         busy'[p] = IF w.state = "done" THEN busy[p] \ {w.node} ELSE busy[p]
  PROVE  /\ WaitingWrites(p)' /\ Executed(p)' /\ MemoryIsFile(p)' /\ InOrder(p)'
         /\ todo'[p] \cap Finish = todo[p] \cap Finish
<1>0. /\ w \in Pending(p) /\ w.node \in Node
      /\ Pending(p)' = Pending(p) \ {w}
      /\ todo'[p] \cap Finish = todo[p] \cap Finish
  BY WriteParts, WriteNotFinish DEF Pending, TypeOK
<1>1. \A v \in Pending(p)' : v \in Pending(p) /\ v.node \in Node /\ v.node # w.node
  BY <1>0, WriteParts DEF SInv, WaitingWrites, Pending
<1>2. \A v \in Pending(p) : v.node # w.node => v \in Pending(p)'
  BY <1>0
<1>3. ASSUME run' # NoRun, NEW m \in Node, m # w.node
      PROVE  run # NoRun /\ run'.node[m].result = run.node[m].result
  BY <1>3
<1>4. /\ w.node \notin exec[p]
      /\ run # NoRun => ~Decided(w.node)
      /\ w.result = results[p][w.node]
      /\ \/ w.state = "running" /\ w.node \in busy[p] /\ w.result = Undecided
         \/ w.state = "done" /\ w.node \in busy[p] /\ w.result # Undecided
         \/ w.state = "skipped" /\ w.node \notin busy[p] /\ w.result # Undecided
  BY <1>0 DEF SInv, WaitingWrites
<1>5. \A m : DependsOn(p, m) => DependsOn(p, m)'
  BY DEF DependsOn, Deps
<1>6. WaitingWrites(p)'
  <2>1. ASSUME NEW u \in Pending(p)', NEW v \in Pending(p)', u.node = v.node
        PROVE  u = v
    BY <1>1, <2>1 DEF SInv, WaitingWrites
  <2>2. ASSUME NEW v \in Pending(p)'
        PROVE  /\ v.node \notin exec'[p]
               /\ run' # NoRun => Resumable(run'.node[v.node].result) = Undecided
               /\ v.result = results'[p][v.node]
               /\ \/ v.state = "running" /\ v.node \in busy'[p] /\ v.result = Undecided
                  \/ v.state = "done" /\ v.node \in busy'[p] /\ v.result # Undecided
                  \/ /\ v.state = "skipped" /\ v.node \notin busy'[p]
                     /\ v.result \notin Success \cup {Undecided}
    <3>1. v \in Pending(p) /\ v.node # w.node /\ v.node \in Node
      BY <1>1, <2>2
    <3>2. /\ v.node \notin exec[p]
          /\ run # NoRun => ~Decided(v.node)
          /\ v.result = results[p][v.node]
          /\ \/ v.state = "running" /\ v.node \in busy[p] /\ v.result = Undecided
             \/ v.state = "done" /\ v.node \in busy[p] /\ v.result # Undecided
             \/ /\ v.state = "skipped" /\ v.node \notin busy[p]
                /\ v.result \notin Success \cup {Undecided}
      BY <3>1 DEF SInv, WaitingWrites
    <3>3. run' # NoRun => Resumable(run'.node[v.node].result) = Undecided
      BY <1>3, <3>1, <3>2 DEF Decided
    <3> QED
      BY <3>1, <3>2, <3>3
  <2> QED
    BY <2>1, <2>2 DEF WaitingWrites, Decided
<1>7. Executed(p)'
  <2>1. ASSUME NEW m \in exec'[p]
        PROVE  /\ m \in Node /\ m \in busy'[p] /\ results[p][m] = Undecided /\ DependsOn(p, m)
               /\ m = w.node => w.state = "running"
               /\ run # NoRun => ~Decided(m)
    <3>1. CASE m \in exec[p]
      <4>1. m \in Node
        BY <3>1 DEF TypeOK
      <4> QED
        BY <1>4, <3>1, <4>1 DEF SInv, Executed
    <3>2. CASE w.state = "running" /\ m = w.node
      BY <1>0, <1>4, <3>2 DEF SInv, InOrder
    <3> QED
      BY <2>1, <3>1, <3>2
  <2>2. ASSUME run' # NoRun, NEW m \in exec'[p]
        PROVE  Resumable(run'.node[m].result) = Undecided
    <3>1. m \in Node /\ run # NoRun /\ run'.node[m].result = run.node[m].result
      BY <2>1, <2>2
    <3> QED
      BY <2>1, <2>2, <3>1 DEF Decided
  <2> QED
    BY <1>5, <2>1, <2>2 DEF Executed, Decided
<1>8. MemoryIsFile(p)'
  <2>1. ASSUME run' # NoRun, NEW m \in Node
        PROVE  /\ Resumable(run'.node[m].result) # Undecided => results[p][m] = run'.node[m].result
               /\ results[p][m] # Undecided => \/ run'.node[m].result = results[p][m]
                                               \/ \E v \in Pending(p)' : v.node = m
    <3>1. CASE m # w.node
      <4>1. run # NoRun /\ run'.node[m].result = run.node[m].result
        BY <1>3, <2>1, <3>1
      <4>2. /\ Resumable(run.node[m].result) # Undecided => results[p][m] = run.node[m].result
            /\ results[p][m] # Undecided => \/ run.node[m].result = results[p][m]
                                            \/ \E v \in Pending(p) : v.node = m
        BY <4>1 DEF SInv, MemoryIsFile, Decided
      <4> QED
        BY <1>2, <3>1, <4>1, <4>2
    <3>2. CASE m = w.node /\ w.state # "running"
      BY <1>4, <2>1, <3>2
    <3>3. CASE m = w.node /\ w.state = "running"
      BY <1>4, <2>1, <3>3 DEF Decided
    <3> QED
      BY <3>1, <3>2, <3>3
  <2> QED
    BY <2>1 DEF MemoryIsFile, Decided
<1>9. InOrder(p)'
  BY <1>1, <1>5 DEF SInv, InOrder
<1> QED
  BY <1>0, <1>6, <1>7, <1>8, <1>9

-----------------------------------------------------------------------------
(* What a step leaves alone. *)

Same(q) ==
  /\ pc'[q] = pc[q] /\ results'[q] = results[q] /\ busy'[q] = busy[q] /\ exec'[q] = exec[q]
  /\ todo'[q] = todo[q] /\ at'[q] = at[q] /\ task'[q] = task[q]

LEMMA SameFileFacts ==
  ASSUME NEW p \in Proc, SInv(p), run' \in {run, NoRun}, results'[p] = results[p],
         busy'[p] = busy[p], exec'[p] = exec[p], todo'[p] = todo[p]
  PROVE  WaitingWrites(p)' /\ Executed(p)' /\ MemoryIsFile(p)' /\ InOrder(p)' /\ BusyApart(p)'
<1>1. WaitingWrites(p)'
  BY DEF SInv, WaitingWrites, Pending, Decided
<1>2. Executed(p)'
  BY DEF SInv, Executed, DependsOn, Decided, Deps
<1>3. MemoryIsFile(p)'
  BY DEF SInv, MemoryIsFile, Pending, Decided
<1>4. InOrder(p)' /\ BusyApart(p)'
  BY DEF SInv, InOrder, BusyApart, Pending, DependsOn, Deps
<1> QED
  BY <1>1, <1>2, <1>3, <1>4

LEMMA SameScheduler ==
  ASSUME NEW p \in Proc, SInv(p), Same(p), run' \in {run, NoRun}
  PROVE  SInv(p)'
<1>1. WaitingWrites(p)' /\ Executed(p)' /\ MemoryIsFile(p)' /\ InOrder(p)' /\ BusyApart(p)'
  BY SameFileFacts DEF Same
<1>2. PassLeaves(p)' /\ ClosesLast(p)'
  BY DEF SInv, PassLeaves, ClosesLast, Same, Node
<1> QED
  BY <1>1, <1>2 DEF SInv

LEMMA SameWorker ==
  ASSUME NEW p \in Proc, WInv(p), Same(p), run' \in {run, NoRun}
  PROVE  WInv(p)'
<1>1. ClaimHolds(p)' /\ ExecutesItsTask(p)'
  BY DEF WInv, ClaimHolds, ExecutesItsTask, Same, Holding
<1>2. ReadHolds(p)' /\ DependenciesHold(p)' /\ ClosesDecided(p)'
  BY DEF WInv, ReadHolds, DependenciesHold, ClosesDecided, Same, Decided, Deps
<1> QED
  BY <1>1, <1>2 DEF WInv

\* A step of a scheduler, which is alone.
LEMMA SchedulerFrame ==
  ASSUME PInv, NEW p \in Proc, Scheduling(p), TypeOK',
         \A q \in Proc \ {p} : Same(q), task'[p] = task[p],
         pc'[p] \in {"scan", "race", "closing", "leaving", "out"},
         pc'[p] = "out" => exec'[p] = {},
         pc'[p] # "out" => SInv(p)'
  PROVE  PInv'
<1>1. Running(p)
  BY DEF Scheduling, Running, SchedulerPcs
<1>2. \A q \in Proc \ {p} : ~Running(q) /\ pc'[q] = pc[q]
  BY <1>1 DEF PInv, SchedulesAlone, Same
<1>3. \A q \in Proc \ {p} : ~Running(q)' /\ ~Scheduling(q)' /\ ~Working(q)' /\ ~Holding(q)'
  BY <1>2 DEF Running, Scheduling, Working, Holding, SchedulerPcs, WorkerPcs
<1>4. ~Working(p)' /\ ~Holding(p)' /\ pc'[p] \notin {"none", "reopen"}
      /\ (~Running(p)' <=> pc'[p] = "out") /\ (Scheduling(p)' <=> pc'[p] # "out")
  BY DEF Running, Scheduling, Working, Holding, SchedulerPcs, WorkerPcs
<1>5. SchedulesAlone' /\ ClaimsApart' /\ NobodyBegan'
  BY <1>3, <1>4 DEF SchedulesAlone, ClaimsApart, NobodyBegan
<1>6. IdleExecutesNothing'
  BY <1>2, <1>4 DEF PInv, IdleExecutesNothing, Same
<1>7. Unbegun'
  BY <1>4 DEF PInv, Unbegun, Same
<1> QED
  BY <1>3, <1>4, <1>5, <1>6, <1>7 DEF PInv

\* A scheduler that has the run in hand and nothing else yet.
LEMMA FreshScheduler ==
  ASSUME NEW p \in Proc, pc'[p] = "scan",
         \A n \in Node : results'[p][n] = Resumable(run'.node[n].result),
         busy'[p] = {}, exec'[p] = {}, todo'[p] = {}, at'[p] = 1
  PROVE  SInv(p)'
<1>1. Pending(p)' = {}
  BY DEF Pending
<1>2. WaitingWrites(p)' /\ InOrder(p)'
  BY <1>1 DEF WaitingWrites, InOrder
<1>3. Executed(p)' /\ BusyApart(p)'
  BY DEF Executed, BusyApart
<1>4. MemoryIsFile(p)'
  BY DecidedFacts DEF MemoryIsFile, Decided
<1>5. PassLeaves(p)'
  BY PlanAssumption DEF PassLeaves, Node
<1>6. ClosesLast(p)'
  BY <1>1 DEF ClosesLast
<1> QED
  BY <1>2, <1>3, <1>4, <1>5, <1>6 DEF SInv

LEMMA ReopenStep ==
  ASSUME PInv, NEW p \in Proc, Reopen(p), TypeOK'
  PROVE  PInv'
<1>1. Scheduling(p) /\ pc[p] = "reopen" /\ pc \in [Proc -> PCs] /\ results \in [Proc -> [Node -> Result]]
  BY DEF Reopen, Scheduling, SchedulerPcs, PInv, TypeOK
<1>2. \A q \in Proc \ {p} : Same(q)
  BY <1>1 DEF Reopen, Same, Goto
<1>3. pc'[p] \in {"scan", "out"} /\ task' = task
  BY <1>1 DEF Reopen, Goto
<1>4. busy'[p] = {} /\ exec'[p] = {} /\ todo'[p] = {} /\ at'[p] = 1
  BY <1>1 DEF Reopen, PInv, Unbegun
<1>5. ASSUME pc'[p] # "out" PROVE SInv(p)'
  <2>1. run # NoRun
    BY <1>1, <1>5 DEF Reopen, Goto
  <2>2. /\ run' = [run EXCEPT !.status = "running", !.pid = p] /\ pc'[p] = "scan"
        /\ results' = [results EXCEPT ![p] = [n \in Node |-> Resumable(run.node[n].result)]]
    BY <1>1, <2>1 DEF Reopen, Goto
  <2>3. run \in RunType
    BY <2>1 DEF PInv, TypeOK, RunType
  <2>4. run'.node = run.node
    BY <2>2, <2>3 DEF RunType
  <2>5. \A n \in Node : results'[p][n] = Resumable(run'.node[n].result)
    BY <1>1, <2>2, <2>4
  <2> QED
    BY <1>4, <2>2, <2>5, FreshScheduler
<1> QED
  BY <1>1, <1>2, <1>3, <1>4, <1>5, SchedulerFrame

\* What leaves every process alone, the file too unless it goes.
LEMMA StutterKeeps ==
  ASSUME PInv, TypeOK', run' \in {run, NoRun},
         UNCHANGED <<pc, results, busy, exec, todo, at, task>>
  PROVE  PInv'
<1>1. \A q \in Proc : Same(q)
  BY DEF Same
<1>2. \A q \in Proc : /\ Scheduling(q)' <=> Scheduling(q)
                      /\ Working(q)' <=> Working(q)
  BY DEF Scheduling, Working
<1>3. \A q \in Proc : /\ Scheduling(q)' /\ pc'[q] # "reopen" => SInv(q)'
                      /\ Working(q)' => WInv(q)'
  BY <1>1, <1>2, SameScheduler, SameWorker DEF PInv, Same
<1>4. SchedulesAlone' /\ IdleExecutesNothing' /\ Unbegun' /\ NobodyBegan' /\ ClaimsApart'
  BY DEF PInv, SchedulesAlone, IdleExecutesNothing, Unbegun, NobodyBegan, ClaimsApart,
         Scheduling, Running, Holding
<1> QED
  BY <1>3, <1>4 DEF PInv

\* A process begins, or goes away.
LEMMA ProcessFrame ==
  ASSUME PInv, TypeOK', NEW p \in Proc, run' = run \/ pc[p] = "none",
         \A q \in Proc \ {p} : Same(q), run' = run \/ \A q \in Proc : pc[q] = "none",
         pc'[p] \in {"reopen", "scan", "load", "dead"},
         \/ pc'[p] = "dead" /\ exec'[p] = {} /\ run' = run
         \/ /\ pc[p] = "none" /\ pc'[p] \in {"reopen", "scan"} /\ \A q \in Proc : ~Running(q)
            /\ exec'[p] = exec[p] /\ busy'[p] = busy[p] /\ todo'[p] = todo[p] /\ at'[p] = at[p]
            /\ results'[p] = results[p]
            /\ pc'[p] = "scan" => SInv(p)'
         \/ /\ pc[p] = "none" /\ pc'[p] = "load" /\ \A q \in Proc : ~Scheduling(q)
            /\ exec'[p] = exec[p] /\ results'[p] = results[p]
  PROVE  PInv'
<1>1. \A q \in Proc \ {p} : /\ Scheduling(q)' <=> Scheduling(q)
                            /\ Running(q)' <=> Running(q)
                            /\ Working(q)' <=> Working(q)
                            /\ Holding(q)' <=> Holding(q)
  BY DEF Scheduling, Running, Working, Holding, Same
<1>2. /\ ~Holding(p)' /\ (Scheduling(p)' <=> pc'[p] \in {"reopen", "scan"})
      /\ (Working(p)' <=> pc'[p] = "load") /\ (~Running(p)' <=> pc'[p] = "dead")
  BY DEF Scheduling, Running, Working, Holding, SchedulerPcs, WorkerPcs
<1>3. SchedulesAlone'
  <2>1. ASSUME NEW q \in Proc, NEW r \in Proc, Scheduling(q)', Running(r)'
        PROVE  q = r
    <3>1. CASE pc'[p] = "dead"
      BY <1>1, <1>2, <2>1, <3>1 DEF PInv, SchedulesAlone
    <3>2. CASE pc'[p] = "load"
      BY <1>1, <1>2, <2>1, <3>2
    <3>3. CASE pc'[p] \in {"reopen", "scan"}
      <4>1. q \in Proc \ {p} => Running(q)'
        BY <2>1 DEF Scheduling, Running, SchedulerPcs
      <4> QED
        BY <1>1, <2>1, <3>3, <4>1
    <3> QED
      BY <3>1, <3>2, <3>3
  <2> QED
    BY <2>1 DEF SchedulesAlone
<1>4. IdleExecutesNothing'
  BY <1>1, <1>2 DEF PInv, IdleExecutesNothing, Same
<1>5. Unbegun'
  BY DEF PInv, Unbegun, Same
<1>6. NobodyBegan' /\ ClaimsApart'
  BY <1>1, <1>2 DEF PInv, NobodyBegan, ClaimsApart, Same
<1>7. ASSUME NEW q \in Proc \ {p}
      PROVE  /\ Scheduling(q)' /\ pc'[q] # "reopen" => SInv(q)'
             /\ Working(q)' => WInv(q)'
  <2>1. CASE run' = run
    BY <1>1, <2>1, SameScheduler, SameWorker DEF PInv, Same, Same
  <2>2. CASE \A r \in Proc : pc[r] = "none"
    BY <1>1, <2>2 DEF Scheduling, Working, SchedulerPcs, WorkerPcs
  <2> QED
    BY <2>1, <2>2
<1>8. ASSUME pc'[p] = "load"
      PROVE  WInv(p)'
  <2>1. exec'[p] = {} /\ \A n \in Node : results'[p][n] = Undecided
    BY <1>8 DEF PInv, Unbegun
  <2>2. ReadHolds(p)'
    BY <2>1, DecidedFacts DEF ReadHolds
  <2> QED
    BY <1>2, <1>8, <2>1, <2>2 DEF WInv, ClaimHolds, ExecutesItsTask, DependenciesHold, ClosesDecided
<1> QED
  BY <1>1, <1>2, <1>3, <1>4, <1>5, <1>6, <1>7, <1>8 DEF PInv

LEMMA OtherStep ==
  ASSUME PInv, ~mingled', TypeOK', NEW p \in Proc,
         Create(p) \/ Resume(p) \/ Join(p) \/ Interrupt(p) \/ Crash(p)
  PROVE  PInv'
<1>0. /\ pc \in [Proc -> PCs] /\ exec \in [Proc -> SUBSET Node] /\ at \in [Proc -> Nat \ {0}]
      /\ results \in [Proc -> [Node -> Result]] /\ busy \in [Proc -> SUBSET Node]
      /\ todo \in [Proc -> SUBSET (Write \cup Finish)]
      /\ task \in [Proc -> [node : Node \cup {0}, result : Result]]
  BY DEF PInv, TypeOK
<1>1. CASE Create(p)
  <2>1. /\ pc[p] = "none" /\ pc'[p] \in {"scan", "load"} /\ \A q \in Proc : pc[q] = "none"
        /\ UNCHANGED <<results, busy, exec, todo, at, task>>
        /\ \A q \in Proc \ {p} : pc'[q] = pc[q]
        /\ run'.node = [n \in Node |-> [state |-> "pending", result |-> Undecided]]
    BY <1>0, <1>1 DEF Create, Goto
  <2>2. \A q \in Proc : ~Running(q) /\ ~Scheduling(q)
    BY <2>1 DEF Running, Scheduling, SchedulerPcs
  <2>3. \A n \in Node : results'[p][n] = Resumable(run'.node[n].result)
    BY <2>1, DecidedFacts DEF PInv, Unbegun
  <2>4. pc'[p] = "scan" => SInv(p)'
    BY <2>1, <2>3, FreshScheduler DEF PInv, Unbegun
  <2>5. \A q \in Proc \ {p} : Same(q)
    BY <2>1 DEF Same
  <2> QED
    BY <2>1, <2>2, <2>4, <2>5, ProcessFrame
<1>2. CASE Resume(p)
  <2>1. /\ pc[p] = "none" /\ pc'[p] = "reopen" /\ \A q \in Proc : ~Running(q)
        /\ UNCHANGED <<run, results, busy, exec, todo, at, task>>
        /\ \A q \in Proc \ {p} : pc'[q] = pc[q]
    BY <1>0, <1>2 DEF Resume, Goto
  <2>2. \A q \in Proc \ {p} : Same(q)
    BY <2>1 DEF Same
  <2> QED
    BY <2>1, <2>2, ProcessFrame
<1>3. CASE Join(p)
  <2>1. /\ pc[p] = "none" /\ pc'[p] = "load" /\ \A q \in Proc : ~Scheduling(q)
        /\ UNCHANGED <<run, results, busy, exec, todo, at, task>>
        /\ \A q \in Proc \ {p} : pc'[q] = pc[q]
    BY <1>0, <1>3 DEF Join, Goto
  <2>2. \A q \in Proc \ {p} : Same(q)
    BY <2>1 DEF Same
  <2> QED
    BY <2>1, <2>2, ProcessFrame
<1>4. CASE Crash(p)
  <2>1. /\ pc'[p] = "dead" /\ exec'[p] = {} /\ run' = run
        /\ \A q \in Proc \ {p} : /\ pc'[q] = pc[q] /\ results'[q] = results[q] /\ busy'[q] = busy[q]
                                 /\ exec'[q] = exec[q] /\ todo'[q] = todo[q] /\ at'[q] = at[q]
                                 /\ task'[q] = task[q]
    BY <1>0, <1>4 DEF Crash, Goto
  <2>2. \A q \in Proc \ {p} : Same(q)
    BY <2>1 DEF Same
  <2> QED
    BY <2>1, <2>2, ProcessFrame
<1>5. CASE Interrupt(p)
  <2>1. UNCHANGED <<run, pc, results, busy, exec, todo, at, task>>
    BY <1>5 DEF Interrupt
  <2> QED
    BY <2>1, StutterKeeps
<1> QED
  BY <1>1, <1>2, <1>3, <1>4, <1>5

-----------------------------------------------------------------------------
(* The steps of a scheduler. *)

\* No node is given up in the middle of a pass.
LEMMA BetweenPasses ==
  ASSUME TypeOK, NEW p \in Proc, SInv(p), ~Passing(p)
  PROVE  at[p] = 1 /\ Tasks \in Nat
<1>1. at[p] \in Nat \ {0}
  BY DEF TypeOK
<1> QED
  BY <1>1, PlanAssumption DEF Passing, SInv, PassLeaves

LEMMA NodeEndsStep ==
  ASSUME PInv, TypeOK', NEW p \in Proc, NEW n \in Node, NEW r \in Ends, NodeEnds(p, n, r)
  PROVE  PInv'
<1>0. /\ TypeOK /\ Scheduling(p) /\ n \in exec[p] /\ pc' = pc /\ ~Passing(p)
      /\ UNCHANGED <<run, busy, at, task>>
  BY DEF PInv, NodeEnds
<1>1. pc[p] # "reopen" /\ SInv(p)
  BY <1>0 DEF PInv, Unbegun
<1>2. \A q \in Proc \ {p} : Same(q)
  BY <1>0 DEF NodeEnds, Put, Same, TypeOK
<1>3. /\ exec'[p] = exec[p] \ {n} /\ results' = [results EXCEPT ![p][n] = r] /\ Put(p, n, "done", r)
      /\ run' = run /\ busy' = busy /\ at' = at
  BY <1>0 DEF NodeEnds, TypeOK
<1>4. /\ n \in busy[p] /\ results[p][n] = Undecided /\ (run # NoRun => ~Decided(n))
      /\ DependsOn(p, n) /\ \A v \in Pending(p) : v.node # n
  BY <1>0, <1>1 DEF SInv, Executed, WaitingWrites
<1>5. r \in Result /\ r # Undecided /\ "done" \in State
  BY DEF Ends, Result, Undecided, Success, Failed, State
<1>6. /\ WaitingWrites(p)' /\ Executed(p)' /\ MemoryIsFile(p)' /\ InOrder(p)'
      /\ todo'[p] \cap Finish = todo[p] \cap Finish
  BY <1>0, <1>1, <1>3, <1>4, <1>5, PutStep
<1>7. at[p] = 1 /\ Tasks \in Nat
  BY <1>0, <1>1, BetweenPasses
<1>8. BusyApart(p)' /\ PassLeaves(p)'
  BY <1>0, <1>1, <1>7 DEF SInv, BusyApart, PassLeaves, Node
<1>9. ClosesLast(p)'
  BY <1>0, <1>1, <1>4, <1>6 DEF SInv, ClosesLast
<1>10. SInv(p)'
  BY <1>6, <1>8, <1>9 DEF SInv
<1>11. pc'[p] \in {"scan", "race", "closing", "leaving"}
  BY <1>0, <1>1 DEF Scheduling, SchedulerPcs
<1> QED
  BY <1>0, <1>2, <1>10, <1>11, SchedulerFrame

LEMMA EndPassStep ==
  ASSUME PInv, TypeOK', NEW p \in Proc, EndPass(p)
  PROVE  PInv'
<1>0. /\ TypeOK /\ pc[p] = "scan" /\ Scheduling(p) /\ SInv(p) /\ at[p] \notin Node /\ at'[p] = 1
      /\ UNCHANGED <<run, results, busy, exec, task>>
  BY DEF PInv, EndPass, Scheduling, SchedulerPcs, TypeOK
<1>1. \A q \in Proc \ {p} : Same(q)
  BY <1>0 DEF EndPass, Same, TypeOK, Goto
<1>2. todo[p] \cap Finish = {}
  BY <1>0 DEF SInv, ClosesLast
<1>3. CASE busy[p] = {}
  <2> DEFINE f == [status |-> IF aborted[p] THEN "interrupted" ELSE "done"]
  <2>1. todo'[p] = todo[p] \cup {f} /\ pc'[p] = "closing"
    BY <1>0, <1>3 DEF EndPass, Goto, TypeOK
  <2>2. f \in Finish /\ f \notin Write
    BY WriteNotFinish DEF Finish
  <2> HIDE DEF f
  <2>3. Pending(p)' = Pending(p) /\ todo'[p] \cap Finish = {f}
    BY <1>2, <2>1, <2>2 DEF Pending
  <2>4. WaitingWrites(p)' /\ InOrder(p)'
    BY <1>0, <2>3 DEF SInv, WaitingWrites, InOrder, DependsOn, Decided, Deps
  <2>5. Executed(p)' /\ BusyApart(p)'
    BY <1>0 DEF SInv, Executed, BusyApart, DependsOn, Decided, Deps
  <2>6. MemoryIsFile(p)'
    BY <1>0, <2>3 DEF SInv, MemoryIsFile, Decided
  <2>7. PassLeaves(p)'
    BY <1>0, <2>1 DEF PassLeaves
  <2>8. \A n \in Node : results[p][n] # Undecided
    BY <1>0, <1>3, PlanAssumption DEF SInv, PassLeaves, Node
  <2>9. ClosesLast(p)'
    BY <1>0, <1>3, <2>1, <2>3, <2>8 DEF ClosesLast
  <2>10. SInv(p)'
    BY <2>4, <2>5, <2>6, <2>7, <2>9 DEF SInv
  <2> QED
    BY <1>0, <1>1, <2>1, <2>10, SchedulerFrame
<1>4. CASE busy[p] # {}
  <2>1. todo' = todo /\ pc'[p] = "race"
    BY <1>0, <1>4 DEF EndPass, Goto, TypeOK
  <2>2. WaitingWrites(p)' /\ Executed(p)' /\ MemoryIsFile(p)' /\ InOrder(p)' /\ BusyApart(p)'
    BY <1>0, <2>1, SameFileFacts
  <2>3. PassLeaves(p)' /\ ClosesLast(p)'
    BY <1>0, <1>2, <2>1 DEF PassLeaves, ClosesLast
  <2>4. SInv(p)'
    BY <2>2, <2>3 DEF SInv
  <2> QED
    BY <1>0, <1>1, <2>1, <2>4, SchedulerFrame
<1> QED
  BY <1>3, <1>4

LEMMA VisitStep ==
  ASSUME PInv, TypeOK', NEW p \in Proc, Visit(p)
  PROVE  PInv'
<1> DEFINE n == at[p]
           settled == results[p][n] # Undecided \/ n \in busy[p]
           reason == SkipReason(p, n)
           waits == ~DependenciesMet(n, results[p]) \/ Shares(n, busy[p])
           full == Cardinality(busy[p]) >= Concurrency
<1>0. /\ TypeOK /\ pc[p] = "scan" /\ Scheduling(p) /\ SInv(p) /\ n \in Node
      /\ UNCHANGED <<run, pc, exec, task>>
  BY DEF PInv, Visit, Scheduling, SchedulerPcs
<1>1. /\ at \in [Proc -> Nat \ {0}] /\ results \in [Proc -> [Node -> Result]]
      /\ busy \in [Proc -> SUBSET Node] /\ todo \in [Proc -> SUBSET (Write \cup Finish)]
      /\ Tasks \in Nat /\ Node = 1..Tasks
  BY <1>0, PlanAssumption DEF TypeOK, Node
<1>2. \/ /\ settled \/ (reason = Undecided /\ waits)
         /\ at' = [at EXCEPT ![p] = n + 1]
         /\ UNCHANGED <<results, busy, todo>>
      \/ /\ ~settled /\ reason # Undecided
         /\ at' = [at EXCEPT ![p] = n + 1]
         /\ results' = [results EXCEPT ![p][n] = reason]
         /\ Put(p, n, "skipped", reason)
         /\ UNCHANGED busy
      \/ /\ ~settled /\ ~waits /\ full
         /\ at' = [at EXCEPT ![p] = Tasks + 1]
         /\ UNCHANGED <<results, busy, todo>>
      \/ /\ ~settled /\ reason = Undecided /\ ~waits
         /\ at' = [at EXCEPT ![p] = n + 1]
         /\ busy' = [busy EXCEPT ![p] = @ \cup {n}]
         /\ Put(p, n, "running", Undecided)
         /\ UNCHANGED results
  BY DEF Visit
<1>3. \A q \in Proc \ {p} : Same(q)
  BY <1>0, <1>1, <1>2 DEF Put, Same
<1>4. /\ todo[p] \cap Finish = {}
      /\ \A m \in Node : m < n /\ results[p][m] = Undecided => busy[p] # {}
  BY <1>0 DEF SInv, ClosesLast, PassLeaves
<1> HIDE DEF n, settled, reason, waits, full
<1>5. SInv(p)'
  <2>1. CASE /\ settled \/ waits
             /\ at' = [at EXCEPT ![p] = n + 1]
             /\ UNCHANGED <<results, busy, todo>>
    <3>1. WaitingWrites(p)' /\ Executed(p)' /\ MemoryIsFile(p)' /\ InOrder(p)' /\ BusyApart(p)'
      BY <1>0, <2>1, SameFileFacts
    <3>2. results[p][n] = Undecided => busy[p] # {}
      <4>1. CASE settled
        BY <4>1 DEF settled
      <4>2. CASE Shares(n, busy[p])
        BY <4>2 DEF Shares
      <4>3. CASE ~DependenciesMet(n, results[p])
        BY <1>0, <1>4, <4>3, DepsType DEF DependenciesMet
      <4> QED
        BY <2>1, <4>1, <4>2, <4>3 DEF waits
    <3>3. ASSUME NEW m \in Node, m < n + 1, results[p][m] = Undecided
          PROVE  busy[p] # {}
      BY <1>0, <1>1, <1>4, <3>2, <3>3
    <3>4. at'[p] = n + 1 /\ at'[p] \in 1..(Tasks + 1)
      BY <1>0, <1>1, <2>1
    <3>5. PassLeaves(p)'
      BY <1>0, <2>1, <3>3, <3>4 DEF PassLeaves, Node
    <3>6. ClosesLast(p)'
      BY <1>0, <1>4, <2>1 DEF ClosesLast
    <3> QED
      BY <3>1, <3>5, <3>6 DEF SInv
  <2>2. CASE /\ ~settled /\ reason # Undecided
             /\ at' = [at EXCEPT ![p] = n + 1]
             /\ results' = [results EXCEPT ![p][n] = reason]
             /\ Put(p, n, "skipped", reason)
             /\ UNCHANGED busy
    <3>1. results[p][n] = Undecided /\ n \notin busy[p]
      BY <2>2 DEF settled
    <3>2. /\ n \notin exec[p] /\ (run # NoRun => ~Decided(n))
          /\ \A v \in Pending(p) : v.node # n
      BY <1>0, <3>1, Untouched
    <3>3. reason \in Result /\ reason \notin Success \cup {Undecided} /\ "skipped" \in State
      BY <2>2 DEF reason, SkipReason, Result, Success, Failed, Graceful, State
    <3>4. exec'[p] = exec[p] \ {n} /\ busy'[p] = busy[p] /\ n \notin busy'[p] /\ run' = run
      BY <1>0, <2>2, <3>1, <3>2
    <3>5. /\ WaitingWrites(p)' /\ Executed(p)' /\ MemoryIsFile(p)' /\ InOrder(p)'
          /\ todo'[p] \cap Finish = todo[p] \cap Finish
      BY <1>0, <2>2, <3>1, <3>2, <3>3, <3>4, PutStep
    <3>6. at'[p] = n + 1 /\ at'[p] \in 1..(Tasks + 1)
      BY <1>0, <1>1, <2>2
    <3>7. \A m \in Node : results'[p][m] = IF m = n THEN reason ELSE results[p][m]
      BY <1>0, <1>1, <2>2
    <3>8. ASSUME NEW m \in Node, m < n + 1, results'[p][m] = Undecided
          PROVE  busy[p] # {}
      BY <1>0, <1>1, <1>4, <2>2, <3>7, <3>8
    <3>9. PassLeaves(p)'
      BY <1>0, <2>2, <3>6, <3>8 DEF PassLeaves, Node
    <3>10. BusyApart(p)' /\ ClosesLast(p)'
      BY <1>0, <1>4, <2>2, <3>5 DEF SInv, BusyApart, ClosesLast
    <3> QED
      BY <3>5, <3>9, <3>10 DEF SInv
  <2>3. CASE /\ full
             /\ at' = [at EXCEPT ![p] = Tasks + 1]
             /\ UNCHANGED <<results, busy, todo>>
    <3>1. WaitingWrites(p)' /\ Executed(p)' /\ MemoryIsFile(p)' /\ InOrder(p)' /\ BusyApart(p)'
      BY <1>0, <2>3, SameFileFacts
    <3>2. busy[p] # {}
      <4>1. Concurrency \in Nat \ {0}
        BY PlanAssumption DEF Concurrency
      <4> QED
        BY <2>3, <4>1, FS_EmptySet DEF full
    <3>3. at'[p] = Tasks + 1 /\ at'[p] \in 1..(Tasks + 1)
      BY <1>1, <2>3
    <3>4. PassLeaves(p)' /\ ClosesLast(p)'
      BY <1>0, <1>4, <2>3, <3>2, <3>3 DEF PassLeaves, ClosesLast, Node
    <3> QED
      BY <3>1, <3>4 DEF SInv
  <2>4. CASE /\ ~settled /\ reason = Undecided /\ ~waits
             /\ at' = [at EXCEPT ![p] = n + 1]
             /\ busy' = [busy EXCEPT ![p] = @ \cup {n}]
             /\ Put(p, n, "running", Undecided)
             /\ UNCHANGED results
    <3>1. results[p][n] = Undecided /\ n \notin busy[p]
      BY <2>4 DEF settled
    <3>2. /\ n \notin exec[p] /\ (run # NoRun => ~Decided(n))
          /\ \A v \in Pending(p) : v.node # n
      BY <1>0, <3>1, Untouched
    <3>3. Undecided \in Result /\ "running" \in State
      BY DEF Result, State
    <3>4. exec'[p] = exec[p] \ {n} /\ busy'[p] = busy[p] \cup {n} /\ n \in busy'[p] /\ run' = run
      BY <1>0, <1>1, <2>4, <3>2
    <3>5. results' = [results EXCEPT ![p][n] = Undecided]
      BY <1>0, <1>1, <2>4, <3>1
    <3>6. DependsOn(p, n)
      BY <2>4 DEF DependsOn, waits, DependenciesMet, reason, SkipReason, DependencyFailed, Undecided
    <3>7. /\ WaitingWrites(p)' /\ Executed(p)' /\ MemoryIsFile(p)' /\ InOrder(p)'
          /\ todo'[p] \cap Finish = todo[p] \cap Finish
      BY <1>0, <2>4, <3>1, <3>2, <3>3, <3>4, <3>5, <3>6, PutStep
    <3>8. at'[p] = n + 1 /\ at'[p] \in 1..(Tasks + 1)
      BY <1>0, <1>1, <2>4
    <3>9. PassLeaves(p)'
      BY <1>0, <3>4, <3>8 DEF PassLeaves, Node
    <3>10. BusyApart(p)'
      <4>1. \A m \in busy[p] : Resources[n] \cap Resources[m] = {}
        BY <2>4 DEF waits, Shares
      <4> QED
        BY <1>0, <3>4, <4>1 DEF SInv, BusyApart
    <3>11. ClosesLast(p)'
      BY <1>0, <1>4, <3>7 DEF ClosesLast
    <3> QED
      BY <3>7, <3>9, <3>10, <3>11 DEF SInv
  <2> QED
    BY <1>2, <2>1, <2>2, <2>3, <2>4
<1> QED
  BY <1>0, <1>3, <1>5, SchedulerFrame

\* What a write that does not fail leaves as results.
LEMMA WrittenResults ==
  ASSUME run \in {NoRun} \cup RunType, NEW n \in Node, NEW st, NEW r, NEW point, point \notin FailAt,
         Update(point, n, st, r), run' # NoRun
  PROVE  /\ run # NoRun
         /\ \A m \in Node : run'.node[m].result = IF m = n THEN r ELSE run.node[m].result
<1>1. run # NoRun /\ run' = [run EXCEPT !.node[n] = [state |-> st, result |-> r]] /\ run \in RunType
  BY DEF Update, Fails
<1>2. \A m \in Node : run'.node[m] = IF m = n THEN [state |-> st, result |-> r] ELSE run.node[m]
  BY <1>1 DEF RunType
<1> QED
  BY <1>1, <1>2

LEMMA FlushStep ==
  ASSUME PInv, "flush" \notin FailAt, TypeOK', NEW p \in Proc, Flush(p)
  PROVE  PInv'
<1>w. PICK w \in todo[p] : FlushOf(p, w)
  BY FlushIs
<1>0. /\ TypeOK /\ Scheduling(p) /\ ~Passing(p)
      /\ todo' = [todo EXCEPT ![p] = @ \ {w}]
      /\ UNCHANGED <<results, at, task>>
  BY <1>w, FlushIs DEF PInv, FlushOf
<1>1. /\ pc[p] # "reopen" /\ SInv(p)
  BY <1>0 DEF PInv, Unbegun
<1>2. /\ pc \in [Proc -> PCs] /\ busy \in [Proc -> SUBSET Node] /\ exec \in [Proc -> SUBSET Node]
      /\ run \in {NoRun} \cup RunType /\ todo \in [Proc -> SUBSET (Write \cup Finish)]
  BY <1>0 DEF TypeOK, RunType
<1>3. \/ /\ w \in Finish /\ Goto(p, "leaving") /\ UNCHANGED <<busy, exec>>
         /\ FinishRun("flush", w.status)
      \/ /\ w \in Write /\ w.state = "skipped"
         /\ Update("flush", w.node, w.state, w.result)
         /\ UNCHANGED <<pc, busy, exec>>
      \/ /\ w \in Write /\ w.state = "running"
         /\ run' = IF run = NoRun THEN NoRun ELSE [run EXCEPT !.node[w.node].state = "running"]
         /\ exec' = [exec EXCEPT ![p] = @ \cup {w.node}]
         /\ UNCHANGED <<pc, busy>>
      \/ /\ w \in Write /\ w.state = "done"
         /\ Update("flush", w.node, w.state, w.result)
         /\ busy' = [busy EXCEPT ![p] = @ \ {w.node}]
         /\ Goto(p, "scan")
         /\ UNCHANGED exec
  BY <1>w DEF FlushOf, Fails
<1>4. at[p] = 1 /\ Tasks \in Nat
  BY <1>0, <1>1, BetweenPasses
<1>5. todo'[p] = todo[p] \ {w}
  BY <1>0, <1>2
<1>6. \A q \in Proc \ {p} : Same(q)
  BY <1>0, <1>2, <1>3 DEF Same, Goto
<1>7. pc[p] \in {"scan", "race", "closing", "leaving"}
  BY <1>0, <1>1 DEF Scheduling, SchedulerPcs
<1>8. ASSUME w \in Write
      PROVE  w.node \in Node /\ (w.state = "done" => w.node \in busy[p])
  BY <1>1, <1>8, WriteParts DEF SInv, WaitingWrites, Pending
<1>9. ASSUME busy'[p] = busy[p], pc'[p] = pc[p]
      PROVE  BusyApart(p)' /\ PassLeaves(p)' /\ ClosesLast(p)'
  <2>1. BusyApart(p)' /\ PassLeaves(p)'
    BY <1>0, <1>1, <1>4, <1>9 DEF SInv, BusyApart, PassLeaves, Node
  <2>2. ClosesLast(p)'
    BY <1>0, <1>1, <1>5, <1>9 DEF SInv, ClosesLast
  <2> QED
    BY <2>1, <2>2
<1>10. CASE /\ w \in Finish /\ Goto(p, "leaving") /\ UNCHANGED <<busy, exec>>
            /\ FinishRun("flush", w.status)
  <2>1. /\ pc[p] = "closing" /\ pc'[p] = "leaving" /\ todo'[p] \cap Finish = {}
        /\ w \notin Write /\ Pending(p)' = Pending(p)
    BY <1>1, <1>2, <1>5, <1>10, WriteNotFinish DEF SInv, ClosesLast, Goto, Pending
  <2>2. ClosesLast(p)'
    BY <1>0, <1>1, <1>10, <2>1 DEF SInv, ClosesLast
  <2>3. BusyApart(p)' /\ PassLeaves(p)'
    BY <1>0, <1>1, <1>4, <1>10, <2>1 DEF SInv, BusyApart, PassLeaves, Node
  <2>4. run' # NoRun => run # NoRun /\ run'.node = run.node
    BY <1>2, <1>10 DEF FinishRun, RunType
  <2>5. WaitingWrites(p)' /\ InOrder(p)'
    BY <1>0, <1>1, <1>10, <2>1, <2>4 DEF SInv, WaitingWrites, InOrder, DependsOn, Decided, Deps
  <2>6. Executed(p)'
    BY <1>0, <1>1, <1>10, <2>4 DEF SInv, Executed, DependsOn, Decided, Deps
  <2>7. MemoryIsFile(p)'
    BY <1>0, <1>1, <2>1, <2>4 DEF SInv, MemoryIsFile, Decided
  <2>8. SInv(p)'
    BY <2>2, <2>3, <2>5, <2>6, <2>7 DEF SInv
  <2> QED
    BY <1>0, <1>6, <2>1, <2>8, SchedulerFrame
<1>11. CASE /\ w \in Write /\ w.state = "skipped"
            /\ Update("flush", w.node, w.state, w.result)
            /\ UNCHANGED <<pc, busy, exec>>
  <2>1. ASSUME run' # NoRun
        PROVE  /\ run # NoRun
               /\ \A m \in Node : run'.node[m].result = IF m = w.node /\ w.state # "running"
                                                       THEN w.result ELSE run.node[m].result
    <3>1. /\ run # NoRun
          /\ \A m \in Node : run'.node[m].result = IF m = w.node THEN w.result ELSE run.node[m].result
      BY <1>2, <1>8, <1>11, <2>1, WrittenResults
    <3> QED
      BY <1>11, <3>1
  <2>2. WaitingWrites(p)' /\ Executed(p)' /\ MemoryIsFile(p)' /\ InOrder(p)'
    BY <1>0, <1>1, <1>11, <2>1, PopStep
  <2>3. SInv(p)'
    BY <1>9, <1>11, <2>2 DEF SInv
  <2> QED
    BY <1>0, <1>6, <1>7, <1>11, <2>3, SchedulerFrame
<1>12. CASE /\ w \in Write /\ w.state = "running"
            /\ run' = IF run = NoRun THEN NoRun ELSE [run EXCEPT !.node[w.node].state = "running"]
            /\ exec' = [exec EXCEPT ![p] = @ \cup {w.node}]
            /\ UNCHANGED <<pc, busy>>
  <2>1. ASSUME run' # NoRun
        PROVE  /\ run # NoRun
               /\ \A m \in Node : run'.node[m].result = IF m = w.node /\ w.state # "running"
                                                       THEN w.result ELSE run.node[m].result
    <3>1. run # NoRun /\ run \in RunType
      BY <1>2, <1>12, <2>1
    <3> QED
      BY <1>8, <1>12, <3>1 DEF RunType, Entry
  <2>2. exec'[p] = exec[p] \cup {w.node}
    BY <1>2, <1>12
  <2>3. WaitingWrites(p)' /\ Executed(p)' /\ MemoryIsFile(p)' /\ InOrder(p)'
    BY <1>0, <1>1, <1>12, <2>1, <2>2, PopStep
  <2>4. SInv(p)'
    BY <1>9, <1>12, <2>3 DEF SInv
  <2> QED
    BY <1>0, <1>6, <1>7, <1>12, <2>4, SchedulerFrame
<1>13. CASE /\ w \in Write /\ w.state = "done"
            /\ Update("flush", w.node, w.state, w.result)
            /\ busy' = [busy EXCEPT ![p] = @ \ {w.node}]
            /\ Goto(p, "scan")
            /\ UNCHANGED exec
  <2>1. ASSUME run' # NoRun
        PROVE  /\ run # NoRun
               /\ \A m \in Node : run'.node[m].result = IF m = w.node /\ w.state # "running"
                                                       THEN w.result ELSE run.node[m].result
    <3>1. /\ run # NoRun
          /\ \A m \in Node : run'.node[m].result = IF m = w.node THEN w.result ELSE run.node[m].result
      BY <1>2, <1>8, <1>13, <2>1, WrittenResults
    <3> QED
      BY <1>13, <3>1
  <2>2. busy'[p] = busy[p] \ {w.node} /\ pc'[p] = "scan"
    BY <1>2, <1>13 DEF Goto
  <2>3. /\ WaitingWrites(p)' /\ Executed(p)' /\ MemoryIsFile(p)' /\ InOrder(p)'
    BY <1>0, <1>1, <1>13, <2>1, <2>2, PopStep
  <2>4. BusyApart(p)' /\ PassLeaves(p)'
    BY <1>0, <1>1, <1>4, <2>2 DEF SInv, BusyApart, PassLeaves, Node
  <2>5. todo'[p] \cap Finish = {}
    BY <1>1, <1>5, <1>8, <1>13 DEF SInv, ClosesLast
  <2>6. ClosesLast(p)'
    BY <2>2, <2>5 DEF ClosesLast
  <2>7. SInv(p)'
    BY <2>3, <2>4, <2>6 DEF SInv
  <2> QED
    BY <1>0, <1>6, <2>2, <2>7, SchedulerFrame
<1> QED
  BY <1>3, <1>10, <1>11, <1>12, <1>13

LEMMA LeaveStep ==
  ASSUME PInv, TypeOK', NEW p \in Proc, Leave(p)
  PROVE  PInv'
<1>0. /\ Scheduling(p) /\ pc[p] = "leaving" /\ pc'[p] = "out" /\ UNCHANGED <<exec, task>>
      /\ \A q \in Proc \ {p} : Same(q)
  BY DEF PInv, TypeOK, Leave, Scheduling, SchedulerPcs, Goto, Same
<1>1. SInv(p)
  BY <1>0 DEF PInv
<1>2. exec'[p] = {}
  BY <1>0, <1>1 DEF SInv, ClosesLast, Executed
<1> QED
  BY <1>0, <1>2, SchedulerFrame

-----------------------------------------------------------------------------
(* The steps of a worker. *)

\* Decisions stay, and so do the nodes others have claimed.
Respects(p) ==
  run' # NoRun =>
    /\ run # NoRun
    /\ \A n \in Node : Decided(n) => run'.node[n].result = run.node[n].result
    /\ \A q \in Proc \ {p} : Holding(q) => run'.node[task[q].node] = run.node[task[q].node]

LEMMA OtherWorker ==
  ASSUME NEW p \in Proc, NEW q \in Proc \ {p}, WInv(q), Same(q), Respects(p)
  PROVE  WInv(q)'
<1>1. ASSUME run' # NoRun
      PROVE  /\ run # NoRun
             /\ \A n \in Node : Decided(n) => run'.node[n].result = run.node[n].result /\ Decided(n)'
             /\ Holding(q) => run'.node[task[q].node] = run.node[task[q].node]
  BY <1>1 DEF Respects, Decided
<1>2. ClaimHolds(q)'
  BY <1>1 DEF WInv, ClaimHolds, Same, Holding
<1>3. ExecutesItsTask(q)'
  BY DEF WInv, ExecutesItsTask, Same
<1>4. ReadHolds(q)'
  <2>1. ASSUME run' # NoRun, NEW n \in Node, Resumable(results[q][n]) # Undecided
        PROVE  run'.node[n].result = results[q][n]
    <3>1. run # NoRun /\ run.node[n].result = results[q][n]
      BY <1>1, <2>1 DEF WInv, ReadHolds
    <3> QED
      BY <1>1, <2>1, <3>1 DEF Decided
  <2> QED
    BY <2>1 DEF ReadHolds, Same
<1>5. DependenciesHold(q)'
  <2>1. ASSUME pc[q] = "exec", run' # NoRun, NEW d \in Deps(task[q].node)
        PROVE  run'.node[d].result \in Success
    <3>1. run # NoRun /\ run.node[d].result \in Success
      BY <1>1, <2>1 DEF WInv, DependenciesHold
    <3>2. d \in Node
      BY <2>1, DepsType DEF WInv, ClaimHolds, Holding
    <3> QED
      BY <1>1, <2>1, <3>1, <3>2, DecidedFacts DEF Decided
  <2> QED
    BY <2>1 DEF DependenciesHold, Same, Deps
<1>6. ClosesDecided(q)'
  BY <1>1 DEF WInv, ClosesDecided, Same
<1> QED
  BY <1>2, <1>3, <1>4, <1>5, <1>6 DEF WInv

LEMMA WorkerFrame ==
  ASSUME PInv, NEW p \in Proc, Working(p), TypeOK', Respects(p),
         \A q \in Proc \ {p} : Same(q),
         pc'[p] \in WorkerPcs \cup {"out"},
         pc'[p] = "out" => exec'[p] = {},
         pc'[p] # "out" => WInv(p)',
         Holding(p)' => \A q \in Proc \ {p} : Holding(q) =>
           /\ task'[p].node # task[q].node
           /\ Resources[task'[p].node] \cap Resources[task[q].node] = {}
  PROVE  PInv'
<1>1. Running(p) /\ ~Scheduling(p)
  BY DEF Working, Running, Scheduling, WorkerPcs, SchedulerPcs
<1>2. \A q \in Proc : ~Scheduling(q)
  BY <1>1 DEF PInv, SchedulesAlone
<1>3. \A q \in Proc \ {p} : /\ ~Scheduling(q)'
                            /\ Running(q)' <=> Running(q)
                            /\ Working(q)' <=> Working(q)
                            /\ Holding(q)' <=> Holding(q)
  BY <1>2 DEF Scheduling, Running, Working, Holding, Same
<1>4. /\ ~Scheduling(p)' /\ (~Running(p)' => pc'[p] = "out") /\ (Working(p)' => pc'[p] # "out")
      /\ pc'[p] \notin {"none", "reopen"}
  BY DEF Scheduling, Running, Working, WorkerPcs, SchedulerPcs
<1>5. SchedulesAlone' /\ NobodyBegan'
  BY <1>3, <1>4 DEF SchedulesAlone, NobodyBegan
<1>6. IdleExecutesNothing'
  BY <1>3, <1>4 DEF PInv, IdleExecutesNothing, Same
<1>7. Unbegun'
  BY <1>4 DEF PInv, Unbegun, Same
<1>8. ClaimsApart'
  <2>1. ASSUME NEW q \in Proc, NEW r \in Proc, q # r, Holding(q)', Holding(r)'
        PROVE  /\ task'[q].node # task'[r].node
               /\ Resources[task'[q].node] \cap Resources[task'[r].node] = {}
    <3>1. CASE q = p
      <4>1. r \in Proc \ {p} /\ Holding(r) /\ task'[r] = task[r]
        BY <1>3, <2>1, <3>1 DEF Same
      <4> QED
        BY <2>1, <3>1, <4>1
    <3>2. CASE r = p
      <4>1. q \in Proc \ {p} /\ Holding(q) /\ task'[q] = task[q]
        BY <1>3, <2>1, <3>2 DEF Same
      <4>2. Resources[task'[r].node] \cap Resources[task[q].node] = {} /\ task'[r].node # task[q].node
        BY <2>1, <3>2, <4>1
      <4> QED
        BY <4>1, <4>2
    <3>3. CASE q # p /\ r # p
      BY <1>3, <2>1, <3>3 DEF PInv, ClaimsApart, Same
    <3> QED
      BY <3>1, <3>2, <3>3
  <2> QED
    BY <2>1 DEF ClaimsApart
<1>9. \A q \in Proc \ {p} : Working(q)' => WInv(q)'
  BY <1>3, OtherWorker DEF PInv
<1> QED
  BY <1>3, <1>4, <1>5, <1>6, <1>7, <1>8, <1>9 DEF PInv

\* What became of a claim is written, or not.
LEMMA WriteRespects ==
  ASSUME PInv, NEW p \in Proc, Working(p), Holding(p), NEW st, NEW r, NEW point,
         Update(point, task[p].node, st, r)
  PROVE  Respects(p)
<1>1. /\ run \in {NoRun} \cup RunType /\ task[p].node \in Node
      /\ run # NoRun => ~Decided(task[p].node)
      /\ \A q \in Proc \ {p} : Holding(q) => task[q].node # task[p].node /\ task[q].node \in Node
  <2>1. WInv(p)
    BY DEF PInv
  <2>2. \A q \in Proc : Holding(q) => Working(q)
    BY DEF Holding, Working, WorkerPcs
  <2>3. \A q \in Proc \ {p} : Holding(q) => task[q].node \in Node
    BY <2>2 DEF PInv, WInv, ClaimHolds
  <2> QED
    BY <2>1, <2>3, DecidedFacts DEF PInv, TypeOK, RunType, WInv, ClaimHolds, Decided, ClaimsApart
<1>2. run' # NoRun => run # NoRun /\ \A m \in Node : m # task[p].node => run'.node[m] = run.node[m]
  BY <1>1, UpdateDoes
<1> QED
  BY <1>1, <1>2 DEF Respects

\* The file is what a worker leaves alone when it does not write.
LEMMA RunStays ==
  ASSUME run' = run, NEW p \in Proc
  PROVE  Respects(p)
BY DEF Respects

\* A worker that holds no claim, before and after.
LEMMA EmptyHands ==
  ASSUME NEW p \in Proc, WInv(p), exec'[p] = {}, ~Holding(p)', Respects(p),
         \/ results'[p] = results[p]
         \/ run' = run /\ (run # NoRun => \A n \in Node : results'[p][n] = Resumable(run.node[n].result)),
         pc'[p] = "close" => run' = run /\ (run # NoRun => \A n \in Node : Decided(n))
  PROVE  WInv(p)'
<1>1. pc'[p] # "exec" /\ ClaimHolds(p)' /\ ExecutesItsTask(p)' /\ DependenciesHold(p)'
  BY DEF Holding, ClaimHolds, ExecutesItsTask, DependenciesHold
<1>2. ReadHolds(p)'
  <2>1. CASE results'[p] = results[p]
    <3>1. ASSUME run' # NoRun, NEW n \in Node, Resumable(results[p][n]) # Undecided
          PROVE  run'.node[n].result = results[p][n]
      <4>1. run # NoRun /\ run.node[n].result = results[p][n]
        BY <3>1 DEF WInv, ReadHolds, Respects
      <4> QED
        BY <3>1, <4>1 DEF Respects, Decided
    <3> QED
      BY <2>1, <3>1 DEF ReadHolds
  <2>2. CASE run' = run /\ (run # NoRun => \A n \in Node : results'[p][n] = Resumable(run.node[n].result))
    BY <2>2, DecidedFacts DEF ReadHolds
  <2> QED
    BY <2>1, <2>2
<1>3. ClosesDecided(p)'
  BY DEF ClosesDecided, Decided
<1> QED
  BY <1>1, <1>2, <1>3 DEF WInv

LEMMA ReadStep ==
  ASSUME PInv, TypeOK', NEW p \in Proc, Load(p) \/ Refresh(p) \/ Close(p)
  PROVE  PInv' /\ Respects(p)
<1>0. /\ pc \in [Proc -> PCs] /\ results \in [Proc -> [Node -> Result]]
      /\ busy \in [Proc -> SUBSET Node] /\ at \in [Proc -> Nat \ {0}]
      /\ run \in {NoRun} \cup RunType
  BY DEF PInv, TypeOK, RunType
<1>1. /\ pc[p] \in {"load", "claim", "close"} /\ UNCHANGED <<exec, todo, task>>
      /\ \A q \in Proc \ {p} : Same(q)
  BY <1>0 DEF Load, Refresh, Close, Same, Goto
<1>2. Working(p) /\ WInv(p) /\ exec'[p] = {}
  BY <1>1 DEF PInv, WInv, Working, WorkerPcs, ExecutesItsTask
<1>3. CASE Load(p)
  <2>1. /\ run' = run /\ pc'[p] \in {"claim", "out"}
    BY <1>0, <1>3 DEF Load, Goto
  <2>2. pc'[p] = "claim" => \A n \in Node : results'[p][n] = Resumable(run.node[n].result)
    BY <1>0, <1>3 DEF Load, Goto
  <2>3. Respects(p) /\ ~Holding(p)'
    BY <2>1, RunStays DEF Holding
  <2>4. pc'[p] # "out" => WInv(p)'
    BY <1>2, <2>1, <2>2, <2>3, EmptyHands
  <2> QED
    BY <1>1, <1>2, <2>1, <2>3, <2>4, WorkerFrame DEF WorkerPcs
<1>4. CASE Refresh(p)
  <2>1. /\ run' = run /\ results' = results /\ pc'[p] \in {"close", "out", "load"}
        /\ pc'[p] = "close" => AllDone
    BY <1>0, <1>4 DEF Refresh, Goto
  <2>2. pc'[p] = "close" => \A n \in Node : Decided(n)
    BY <2>1 DEF AllDone, Decided
  <2>3. Respects(p) /\ ~Holding(p)'
    BY <2>1, RunStays DEF Holding
  <2>4. pc'[p] # "out" => WInv(p)'
    BY <1>2, <2>1, <2>2, <2>3, EmptyHands
  <2> QED
    BY <1>1, <1>2, <2>1, <2>3, <2>4, WorkerFrame DEF WorkerPcs
<1>5. CASE Close(p)
  <2>1. pc'[p] = "out" /\ ~Holding(p)'
    BY <1>0, <1>5 DEF Close, Goto, Holding
  <2>2. run' # NoRun => run # NoRun /\ run'.node = run.node
    BY <1>0, <1>5 DEF Close, FinishRun, RunType
  <2>3. Respects(p)
    BY <2>2 DEF Respects
  <2> QED
    BY <1>1, <1>2, <2>1, <2>3, WorkerFrame DEF WorkerPcs
<1> QED
  BY <1>3, <1>4, <1>5

\* A claim ends.
LEMMA EndStep ==
  ASSUME PInv, TypeOK', NEW p \in Proc, SkipClaimed(p) \/ Record(p)
  PROVE  PInv' /\ Respects(p)
<1>0. /\ pc \in [Proc -> PCs] /\ at \in [Proc -> Nat \ {0}]
      /\ task \in [Proc -> [node : Node \cup {0}, result : Result]]
  BY DEF PInv, TypeOK
<1>1. /\ pc[p] \in {"skip", "record"} /\ UNCHANGED <<results, busy, exec, todo>>
      /\ pc'[p] \in {"claim", "load"}
      /\ \A q \in Proc \ {p} : Same(q)
  BY <1>0 DEF SkipClaimed, Record, Same, Goto
<1>2. Working(p) /\ Holding(p) /\ WInv(p) /\ exec'[p] = {}
  BY <1>1 DEF PInv, WInv, Working, Holding, WorkerPcs, ExecutesItsTask
<1>3. Respects(p)
  BY <1>2, WriteRespects DEF SkipClaimed, Record
<1>4. ~Holding(p)'
  BY <1>1 DEF Holding
<1>5. WInv(p)'
  BY <1>1, <1>2, <1>3, <1>4, EmptyHands
<1> QED
  BY <1>1, <1>2, <1>3, <1>4, <1>5, WorkerFrame DEF WorkerPcs

LEMMA TaskEndsStep ==
  ASSUME PInv, TypeOK', NEW p \in Proc, NEW r \in Ends, TaskEnds(p, r)
  PROVE  PInv' /\ Respects(p)
<1>0. /\ pc \in [Proc -> PCs] /\ exec \in [Proc -> SUBSET Node]
      /\ task \in [Proc -> [node : Node \cup {0}, result : Result]]
  BY DEF PInv, TypeOK
<1>1. /\ pc[p] = "exec" /\ pc'[p] = "record" /\ UNCHANGED <<run, results, busy, todo, at>>
      /\ exec'[p] = {} /\ task'[p].node = task[p].node
      /\ \A q \in Proc \ {p} : Same(q)
  BY <1>0 DEF TaskEnds, Same, Goto
<1>2. Working(p) /\ Holding(p) /\ WInv(p) /\ Holding(p)'
  BY <1>1 DEF PInv, Working, Holding, WorkerPcs
<1>3. Respects(p)
  BY <1>1, RunStays
<1>4. WInv(p)'
  <2>1. ClaimHolds(p)' /\ ExecutesItsTask(p)' /\ DependenciesHold(p)' /\ ClosesDecided(p)'
    BY <1>1, <1>2 DEF WInv, ClaimHolds, ExecutesItsTask, DependenciesHold, ClosesDecided
  <2>2. ReadHolds(p)'
    BY <1>1, <1>2 DEF WInv, ReadHolds
  <2> QED
    BY <2>1, <2>2 DEF WInv
<1> QED
  BY <1>1, <1>2, <1>3, <1>4, WorkerFrame DEF WorkerPcs, PInv, ClaimsApart

LEMMA ClaimStep ==
  ASSUME PInv, TypeOK', NEW p \in Proc, Claim(p)
  PROVE  PInv' /\ Respects(p)
<1>0. /\ pc \in [Proc -> PCs] /\ exec \in [Proc -> SUBSET Node] /\ at \in [Proc -> Nat \ {0}]
      /\ task \in [Proc -> [node : Node \cup {0}, result : Result]]
      /\ run \in {NoRun} \cup RunType
  BY DEF PInv, TypeOK, RunType
<1>1. /\ pc[p] = "claim" /\ UNCHANGED <<results, busy, todo>>
      /\ \A q \in Proc \ {p} : Same(q)
  BY <1>0 DEF Claim, Same, Goto
<1>2. Working(p) /\ WInv(p) /\ exec[p] = {}
  BY <1>1 DEF PInv, WInv, Working, WorkerPcs, ExecutesItsTask
<1>3. PICK n \in ToClaim(p) :
        IF Claimable(n)
        THEN /\ run' = [run EXCEPT !.node[n] = [state |-> "running", result |-> Undecided]]
             /\ LET advice == Advice(p, n)
                IN  IF advice = "run"
                    THEN /\ task' = [task EXCEPT ![p] = [node |-> n, result |-> Undecided]]
                         /\ exec' = [exec EXCEPT ![p] = {n}]
                         /\ Goto(p, "exec")
                    ELSE /\ task' = [task EXCEPT ![p] = [node |-> n, result |-> advice]]
                         /\ Goto(p, "skip")
                         /\ UNCHANGED exec
             /\ UNCHANGED at
        ELSE /\ at' = [at EXCEPT ![p] = n + 1]
             /\ UNCHANGED <<run, task, exec, pc>>
  BY DEF Claim
<1>4. n \in Node
  BY <1>0, <1>3, ToClaimType DEF PInv
<1>5. CASE ~Claimable(n)
  <2>1. UNCHANGED <<run, task, exec, pc>>
    BY <1>3, <1>5
  <2>2. Respects(p) /\ ~Holding(p)'
    BY <1>1, <2>1, RunStays DEF Holding
  <2>3. WInv(p)'
    BY <1>1, <1>2, <2>1, <2>2, EmptyHands
  <2> QED
    BY <1>1, <1>2, <2>1, <2>2, <2>3, WorkerFrame DEF WorkerPcs
<1>6. CASE Claimable(n)
  <2>1. /\ run # NoRun /\ run \in RunType /\ ~Decided(n)
        /\ run' = [run EXCEPT !.node[n] = [state |-> "running", result |-> Undecided]]
        /\ run.node[n].state # "running"
        /\ \A m \in Node : run.node[m].state = "running" => Resources[n] \cap Resources[m] = {}
    BY <1>0, <1>3, <1>6 DEF Claimable, Shares, Decided
  <2>2. \A m \in Node : run'.node[m] = IF m = n THEN [state |-> "running", result |-> Undecided]
                                      ELSE run.node[m]
    BY <1>4, <2>1 DEF RunType
  <2>3. ASSUME NEW q \in Proc \ {p}, Holding(q)
        PROVE  task[q].node \in Node /\ run.node[task[q].node].state = "running"
    <3>1. Working(q)
      BY <2>3 DEF Holding, Working, WorkerPcs
    <3> QED
      BY <2>1, <2>3, <3>1 DEF PInv, WInv, ClaimHolds
  <2>4. \A q \in Proc \ {p} : Holding(q) =>
          /\ n # task[q].node /\ Resources[n] \cap Resources[task[q].node] = {}
    BY <2>1, <2>3
  <2>5. Respects(p)
    BY <1>4, <2>1, <2>2, <2>3, <2>4 DEF Respects
  <2>6. /\ task'[p].node = n /\ pc'[p] \in {"exec", "skip"}
        /\ pc'[p] = "exec" => exec'[p] = {n} /\ Advice(p, n) = "run"
        /\ pc'[p] = "skip" => exec'[p] = {}
    BY <1>0, <1>2, <1>3, <1>4, <1>6 DEF Goto
  <2>7. ReadHolds(p)'
    <3>1. ASSUME NEW m \in Node, Resumable(results[p][m]) # Undecided
          PROVE  run'.node[m].result = results[p][m]
      BY <1>2, <2>1, <2>2, <3>1 DEF WInv, ReadHolds, Decided
    <3> QED
      BY <1>1, <3>1 DEF ReadHolds
  <2>8. ASSUME pc'[p] = "exec", NEW d \in Deps(n)
        PROVE  run'.node[d].result \in Success
    <3>1. d \in Node
      BY <1>4, <2>8, DepsType
    <3>2. ~DependencyFailed(n, results[p]) /\ DependenciesMet(n, results[p])
      BY <2>6, <2>8 DEF Advice
    <3>3. results[p][d] \in Success
      BY <2>8, <3>2 DEF DependencyFailed, DependenciesMet
    <3>4. run.node[d].result \in Success
      BY <1>2, <2>1, <3>1, <3>3, DecidedFacts DEF WInv, ReadHolds
    <3> QED
      BY <2>1, <2>2, <3>1, <3>4, DecidedFacts DEF Decided
  <2>9. ClaimHolds(p)' /\ ExecutesItsTask(p)' /\ ClosesDecided(p)'
    BY <1>4, <2>2, <2>6 DEF ClaimHolds, ExecutesItsTask, ClosesDecided
  <2>10. DependenciesHold(p)'
    BY <2>6, <2>8 DEF DependenciesHold, Deps
  <2>11. WInv(p)'
    BY <2>7, <2>9, <2>10 DEF WInv
  <2> QED
    BY <1>1, <1>2, <2>4, <2>5, <2>6, <2>11, WorkerFrame DEF WorkerPcs
<1> QED
  BY <1>5, <1>6

-----------------------------------------------------------------------------
(* Every step. *)

LEMMA WorkStep ==
  ASSUME PInv, TypeOK', NEW p \in Proc, Work(p)
  PROVE  PInv' /\ Respects(p)
BY ReadStep, EndStep, TaskEndsStep, ClaimStep DEF Work

LEMMA ScheduleStep ==
  ASSUME PInv, "flush" \notin FailAt, TypeOK', NEW p \in Proc, Schedule(p)
  PROVE  PInv'
BY ReopenStep, VisitStep, EndPassStep, FlushStep, LeaveStep, NodeEndsStep DEF Schedule

LEMMA InvStep ==
  ASSUME PInv, ~mingled', "flush" \notin FailAt, [Next]_vars
  PROVE  PInv'
<1>1. TypeOK'
  BY TypeStep DEF PInv
<1>2. CASE Prune
  <2>1. run' = NoRun /\ UNCHANGED <<pc, results, busy, exec, todo, at, task>>
    BY <1>2 DEF Prune
  <2> QED
    BY <1>1, <2>1, StutterKeeps
<1>3. CASE UNCHANGED vars
  BY <1>1, <1>3, StutterKeeps DEF vars
<1>4. ASSUME NEW p \in Proc, Schedule(p)
      PROVE  PInv'
  BY <1>1, <1>4, ScheduleStep
<1>5. ASSUME NEW p \in Proc, Work(p)
      PROVE  PInv'
  BY <1>1, <1>5, WorkStep
<1>6. ASSUME NEW p \in Proc, Create(p) \/ Resume(p) \/ Join(p) \/ Interrupt(p) \/ Crash(p)
      PROVE  PInv'
  BY <1>1, <1>6, OtherStep
<1> QED
  BY <1>2, <1>3, <1>4, <1>5, <1>6 DEF Next

\* What the writes of a scheduler, and of nobody else, do to the file.
LEMMA FlushKeeps ==
  ASSUME PInv, "flush" \notin FailAt, NEW p \in Proc, Flush(p), run # NoRun, run' # NoRun
  PROVE  \A n \in Node : Decided(n) => run'.node[n].result = run.node[n].result
<1>w. PICK w \in todo[p] : FlushOf(p, w)
  BY FlushIs
<1>0. TypeOK /\ Scheduling(p) /\ run \in RunType
  BY FlushIs DEF PInv, TypeOK, RunType
<1>1. SInv(p)
  BY <1>0 DEF PInv, Unbegun
<1>2. CASE w \in Finish /\ FinishRun("flush", w.status)
  BY <1>0, <1>2 DEF FinishRun, RunType
<1>3. CASE w \in Write /\ Update("flush", w.node, w.state, w.result)
  <2>1. w.node \in Node /\ ~Decided(w.node)
    BY <1>1, <1>3, WriteParts DEF SInv, WaitingWrites, Pending
  <2>2. \A m \in Node : m # w.node => run'.node[m] = run.node[m]
    BY <1>0, <1>3, <2>1, UpdateDoes
  <2> QED
    BY <2>1, <2>2
<1>4. CASE w \in Write /\ run' = [run EXCEPT !.node[w.node].state = "running"]
  <2>1. w.node \in Node
    BY <1>4 DEF Write
  <2> QED
    BY <1>0, <1>4, <2>1 DEF RunType, Entry
<1> QED
  BY <1>w, <1>2, <1>3, <1>4 DEF FlushOf, Fails

LEMMA DecisionKept ==
  ASSUME PInv, "flush" \notin FailAt, [Next]_vars, run # NoRun, run' # NoRun,
         NEW n \in Node, Decided(n)
  PROVE  run'.node[n].result = run.node[n].result
<1>1. ASSUME NEW p \in Proc, Work(p)
      PROVE  run'.node[n].result = run.node[n].result
  BY <1>1, TypeStep, WorkStep DEF PInv, Respects
<1>2. ASSUME NEW p \in Proc, Schedule(p)
      PROVE  run'.node[n].result = run.node[n].result
  <2>1. CASE Reopen(p)
    BY <2>1 DEF Reopen, PInv, TypeOK
  <2>2. CASE Flush(p)
    BY <2>2, FlushKeeps
  <2>3. CASE Visit(p) \/ EndPass(p) \/ Leave(p) \/ \E m \in Node, r \in Ends : NodeEnds(p, m, r)
    BY <2>3 DEF Visit, EndPass, Leave, NodeEnds
  <2> QED
    BY <1>2, <2>1, <2>2, <2>3 DEF Schedule
<1>3. CASE Prune \/ UNCHANGED vars
  BY <1>3 DEF Prune, vars
<1>4. ASSUME NEW p \in Proc, Create(p) \/ Resume(p) \/ Join(p) \/ Interrupt(p) \/ Crash(p)
      PROVE  run'.node[n].result = run.node[n].result
  BY <1>4 DEF Create, Resume, Join, Interrupt, Crash, PInv, NobodyBegan
<1> QED
  BY <1>1, <1>2, <1>3, <1>4 DEF Next

\* Only the last step of a scheduler ends it while it leaves.
LEMMA OnlyLeaves ==
  ASSUME TypeOK, [Next]_vars, NEW p \in Proc, pc[p] = "leaving", pc'[p] = "out"
  PROVE  Leave(p)
<1>0. pc \in [Proc -> PCs] /\ pc' # pc
  BY DEF TypeOK
<1>1. PICK q \in Proc : \/ Create(q) \/ Resume(q) \/ Join(q) \/ Interrupt(q) \/ Crash(q)
                        \/ Schedule(q) \/ Work(q)
  BY <1>0 DEF Next, vars, Prune
<1>2. ~Work(q) \/ q # p
  BY DEF Work, Load, Claim, SkipClaimed, TaskEnds, Record, Refresh, Close
<1>3. q = p
  <2>1. ASSUME q # p, NEW l, Goto(q, l) PROVE FALSE
    BY <1>0, <2>1 DEF Goto
  <2> QED
    BY <1>0, <1>1, <2>1 DEF Create, Resume, Join, Interrupt, Crash, Schedule, Reopen, Visit, EndPass,
       Flush, Leave, NodeEnds, Work, Load, Claim, SkipClaimed, TaskEnds, Record, Refresh, Close
<1>4. ~Create(p) /\ ~Resume(p) /\ ~Join(p) /\ ~Interrupt(p) /\ ~Crash(p)
  BY <1>0 DEF Create, Resume, Join, Interrupt, Crash, Goto
<1>5. ~Reopen(p) /\ ~Visit(p) /\ ~EndPass(p) /\ \A n \in Node, r \in Ends : ~NodeEnds(p, n, r)
  BY <1>0 DEF Reopen, Visit, EndPass, NodeEnds
<1>6. ~Flush(p)
  BY <1>0 DEF Flush, Goto
<1> QED
  BY <1>1, <1>2, <1>3, <1>4, <1>5, <1>6 DEF Schedule

LEMMA DoneDecided ==
  ASSUME PInv, [Next]_vars, run # NoRun, NEW p \in Proc, pc[p] \in {"leaving", "close"}, pc'[p] = "out",
         NEW n \in Node
  PROVE  run.node[n].result # Undecided
<1>1. CASE pc[p] = "close"
  <2>1. Working(p)
    BY <1>1 DEF Working, WorkerPcs
  <2> QED
    BY <1>1, <2>1, DecidedFacts DEF PInv, WInv, ClosesDecided, Decided
<1>2. CASE pc[p] = "leaving"
  <2>1. Scheduling(p)
    BY <1>2 DEF Scheduling, SchedulerPcs
  <2>2. SInv(p) /\ results[p][n] # Undecided
    BY <1>2, <2>1 DEF PInv, SInv, ClosesLast
  <2>3. Leave(p)
    BY <1>2, OnlyLeaves DEF PInv
  <2>4. Pending(p) = {}
    BY <2>3 DEF Leave, Pending
  <2> QED
    BY <2>2, <2>4 DEF SInv, MemoryIsFile
<1> QED
  BY <1>1, <1>2

-----------------------------------------------------------------------------
(* The theorems. *)

\* The types, for any plan, any processes and any faults.
THEOREM PlanTypes == Spec => []TypeOK
<1>1. Init => TypeOK
  BY InitInv DEF PInv
<1>2. TypeOK /\ [Next]_vars => TypeOK'
  BY TypeStep
<1> QED
  BY <1>1, <1>2, PTL DEF Spec

\* What holds of a run as long as its processes are apart.
Invariant == TypeOK /\ (Apart => PInv)

LEMMA ApartStep ==
  ASSUME [Next]_vars, Apart', mingled \in BOOLEAN
  PROVE  Apart
BY DEF Apart, Next, vars, Prune, Create, Resume, Join, Interrupt, Crash, Schedule, Reopen, Visit,
       EndPass, Flush, Leave, NodeEnds, Work, Load, Claim, SkipClaimed, TaskEnds, Record, Refresh, Close

LEMMA PlanInvariant ==
  ASSUME "flush" \notin FailAt
  PROVE  Spec => []Invariant
<1>1. Init => Invariant
  BY InitInv DEF Invariant, PInv
<1>2. ASSUME Invariant, [Next]_vars
      PROVE  Invariant'
  <2>1. TypeOK'
    BY <1>2, TypeStep DEF Invariant
  <2>2. ASSUME Apart' PROVE PInv'
    <3>1. PInv
      BY <1>2, <2>2, ApartStep DEF Invariant, TypeOK
    <3> QED
      BY <1>2, <2>2, <3>1, InvStep DEF Apart
  <2> QED
    BY <2>1, <2>2 DEF Invariant
<1> QED
  BY <1>1, <1>2, PTL DEF Spec

\* No node is executed by two processes at once (claimRunNode, plan --resume), as long
\* as no scheduler meets another process on the run.
THEOREM PlanExecutesOnce ==
  ASSUME "flush" \notin FailAt
  PROVE  Spec => []OneExecutor
<1>1. Invariant => OneExecutor
  BY InvExecutor DEF Invariant, OneExecutor
<1> QED
  BY <1>1, PlanInvariant, PTL

\* Two nodes that share a resource are never executed at once, whether in the memory
\* of a scheduler or under the lock of the claims.
THEOREM PlanExcludes ==
  ASSUME "flush" \notin FailAt
  PROVE  Spec => []ResourceExclusive
<1>1. Invariant => ResourceExclusive
  BY InvExecutor DEF Invariant, ResourceExclusive
<1> QED
  BY <1>1, PlanInvariant, PTL

\* A node is executed once its dependencies succeeded, and the file says so or is
\* about to.
THEOREM PlanDepends ==
  ASSUME "flush" \notin FailAt
  PROVE  Spec => []DependenciesOnFile
<1>1. Invariant => DependenciesOnFile
  BY InvExecutor DEF Invariant, DependenciesOnFile
<1> QED
  BY <1>1, PlanInvariant, PTL

\* A decision in the file of a run stays, whoever resumes or joins it.
THEOREM PlanDecides ==
  ASSUME "flush" \notin FailAt
  PROVE  Spec => DecisionsStay
<1>1. Invariant /\ [Next]_vars =>
        [\A n \in Node :
           /\ Apart /\ run # NoRun /\ run' # NoRun
           /\ Resumable(run.node[n].result) # Undecided
           => run'.node[n].result = run.node[n].result]_vars
  BY DecisionKept DEF Decided, Invariant
<1> QED
  BY <1>1, PlanInvariant, PTL DEF Spec, DecisionsStay

\* A process that ends at the end of its run leaves an answer for each of the nodes.
THEOREM PlanEnds ==
  ASSUME "flush" \notin FailAt
  PROVE  Spec => DoneIsDecided
<1>1. Invariant /\ [Next]_vars =>
        [\A p \in Proc :
           Apart /\ run # NoRun /\ pc[p] \in {"leaving", "close"} /\ pc'[p] = "out" =>
             \A n \in Node : run.node[n].result # Undecided]_vars
  BY DoneDecided DEF Invariant
<1> QED
  BY <1>1, PlanInvariant, PTL DEF Spec, DoneIsDecided
=============================================================================
