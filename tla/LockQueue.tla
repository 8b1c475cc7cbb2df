------------------------------- MODULE LockQueue -------------------------------
(***************************************************************************)
(* The fair queue in front of main.lock (src/src/lock.ts): numbered tickets *)
(* in .striart/lock-queue/, taken by a process that did not get the lock at *)
(* once, freshened by a timer, skipped and removed when nobody waits behind *)
(* them any more.  The queue only orders the attempts: exclusion stays with *)
(* the exclusive creation of main.lock, which is one step here (`lock' is   *)
(* the holder of AbstractLock, implemented by MainLock).                    *)
(*                                                                          *)
(* Contexts of one process wait for each other in memory (takeLocalTurn):   *)
(* a process has at most one ticket at a time.                              *)
(***************************************************************************)
EXTENDS Naturals, FiniteSets, FiniteSetsExt

CONSTANTS
  Proc,              \* processes
  Nobody,            \* no process
  NoTicket,          \* no file for that number
  MaxNumber,         \* bound on the numbers of tickets
  MaxArrivals,       \* bound on the calls of withMainLock of one process
  MaxFreezes,        \* bound on the suspensions
  TicketMaxAttempts, \* TICKET_MAX_ATTEMPTS
  CrashAt,           \* program points where a process may be killed
  FreezeAt,          \* program points where a process may be suspended for long
  FailAt             \* program points whose system call may fail for good

ASSUME LockQueueAssumption ==
  /\ MaxNumber \in Nat /\ MaxArrivals \in Nat /\ MaxFreezes \in Nat
  /\ TicketMaxAttempts \in Nat \ {0}
  /\ Nobody \notin Proc
  /\ NoTicket \notin [owner : Proc, call : 0..MaxArrivals, written : BOOLEAN, aged : BOOLEAN]

VARIABLES
  status,    \* process -> "up", "frozen" or "dead"
  lock,      \* the holder of main.lock
  tickets,   \* number -> NoTicket or a Ticket
  pc,        \* process -> where it stands in acquire
  number,    \* process -> the number of its ticket, 0 before it has one
  lost,      \* process -> it noticed that its ticket is gone
  scan,      \* process -> numbers below its own that it has still to read
  attempts,  \* process -> numbers it failed to create
  arrivals,  \* process -> calls of withMainLock so far
  before,    \* history: process -> the tickets it saw when it chose its number,
             \* each with its owner and its call
  freezes    \* suspensions so far

vars == <<status, lock, tickets, pc, number, lost, scan, attempts, arrivals, before, freezes>>

Numbers == 1..MaxNumber
(* A random token is written in a ticket: its owner and the call of withMainLock *)
(* it was taken for stand for it.                                           *)
Ticket == [owner : Proc, call : 0..MaxArrivals, written : BOOLEAN, aged : BOOLEAN]
PCs == {"out", "list", "fast", "number", "create", "stamp", "poll", "scan", "remove",
        "try", "judge", "drop", "unlink", "in"}
\* The ticket is on disk and its refresh timer runs.
WaitPcs == {"poll", "scan", "remove", "try", "judge"}

Sightings == Numbers \X Proc \X (0..MaxArrivals)

TypeOK ==
  /\ status \in [Proc -> {"up", "frozen", "dead"}]
  /\ lock \in Proc \cup {Nobody}
  /\ tickets \in [Numbers -> Ticket \cup {NoTicket}]
  /\ pc \in [Proc -> PCs]
  /\ number \in [Proc -> 0..MaxNumber]
  /\ lost \in [Proc -> BOOLEAN]
  /\ scan \in [Proc -> SUBSET Numbers]
  /\ attempts \in [Proc -> 0..(TicketMaxAttempts - 1)]
  /\ arrivals \in [Proc -> 0..MaxArrivals]
  /\ before \in [Proc -> SUBSET Sightings]
  /\ freezes \in 0..MaxFreezes

Init ==
  /\ status = [p \in Proc |-> "up"]
  /\ lock = Nobody
  /\ tickets = [n \in Numbers |-> NoTicket]
  /\ pc = [p \in Proc |-> "out"]
  /\ number = [p \in Proc |-> 0]
  /\ lost = [p \in Proc |-> FALSE]
  /\ scan = [p \in Proc |-> {}]
  /\ attempts = [p \in Proc |-> 0]
  /\ arrivals = [p \in Proc |-> 0]
  /\ before = [p \in Proc |-> {}]
  /\ freezes = 0

-----------------------------------------------------------------------------
Up(p) == status[p] = "up"
At(p, l) == Up(p) /\ pc[p] = l
Goto(p, l) == pc' = [pc EXCEPT ![p] = l]
Fails(l) == l \in FailAt

Present == {n \in Numbers : tickets[n] # NoTicket}
NewTicket(p) == [owner |-> p, call |-> arrivals[p], written |-> FALSE, aged |-> FALSE]
BelongsTo(n, p) == tickets[n] # NoTicket /\ tickets[n].owner = p /\ tickets[n].call = arrivals[p]
Bears(n, p) == BelongsTo(n, p) /\ tickets[n].written
\* readLockFile says that the ticket is not, or no longer, the ticket of p.
Foreign(n, p) == tickets[n] # NoTicket => tickets[n].written /\ ~BelongsTo(n, p)
\* Its owner runs, and waits behind that ticket.
Tended(n) ==
  /\ tickets[n] # NoTicket
  /\ Up(tickets[n].owner)
  /\ BelongsTo(n, tickets[n].owner)
  /\ number[tickets[n].owner] = n
  /\ pc[tickets[n].owner] \in {"stamp", "drop", "unlink"} \cup WaitPcs

\* Mutant: the number counts the tickets present.
NumberByCount == Cardinality(Present) + 1

\* takeTicket: the largest number present, plus one.
NextNumber == (IF Present = {} THEN 0 ELSE Max(Present)) + 1

\* Mutant: a ticket is orphan only when its process is dead.
DeadOnly(n) == tickets[n] # NoTicket /\ status[tickets[n].owner] = "dead"

\* Mutant: a ticket that is still being written counts for nothing.
OrphanWhenUnwritten(n) ==
  /\ tickets[n] # NoTicket
  /\ tickets[n].aged \/ ~tickets[n].written \/ status[tickets[n].owner] = "dead"

\* liveTicketsAhead: dead, not freshened for TICKET_STALE_MS, or invalid and old.
Orphan(n) ==
  /\ tickets[n] # NoTicket
  /\ tickets[n].aged \/ (tickets[n].written /\ status[tickets[n].owner] = "dead")

-----------------------------------------------------------------------------
(* acquire, the fast path: nobody queues, so the lock is tried at once.     *)

Arrive(p) ==
  /\ At(p, "out")
  /\ arrivals[p] < MaxArrivals
  /\ arrivals' = [arrivals EXCEPT ![p] = @ + 1]
  /\ Goto(p, "list")
  /\ UNCHANGED <<status, lock, tickets, number, lost, scan, attempts, before, freezes>>

ListQueue(p) ==
  /\ At(p, "list")
  /\ Goto(p, IF Present = {} THEN "fast" ELSE "number")
  /\ UNCHANGED <<status, lock, tickets, number, lost, scan, attempts, arrivals, before, freezes>>

TryFast(p) ==
  /\ At(p, "fast")
  /\ IF lock = Nobody
     THEN lock' = p /\ Goto(p, "in")
     ELSE Goto(p, "number") /\ UNCHANGED lock
  /\ UNCHANGED <<status, tickets, number, lost, scan, attempts, arrivals, before, freezes>>

(* takeTicket: read the numbers, create the next one exclusively, write it. *)

ReadNumbers(p) ==
  /\ At(p, "number")
  /\ NextNumber \in Numbers                       \* bound
  /\ number' = [number EXCEPT ![p] = NextNumber]
  /\ before' = [before EXCEPT ![p] = {<<n, tickets[n].owner, tickets[n].call>> : n \in Present}]
  /\ Goto(p, "create")
  /\ UNCHANGED <<status, lock, tickets, lost, scan, attempts, arrivals, freezes>>

\* Mutant: one attempt too many.
CreateTicketOnceMore(p) ==
  /\ At(p, "create")
  /\ \/ /\ tickets[number[p]] = NoTicket
        /\ tickets' = [tickets EXCEPT ![number[p]] = NewTicket(p)]
        /\ lost' = [lost EXCEPT ![p] = FALSE]
        /\ attempts' = [attempts EXCEPT ![p] = 0]
        /\ Goto(p, "stamp")
        /\ UNCHANGED <<number, before>>
     \/ /\ tickets[number[p]] # NoTicket          \* taken meanwhile: read again
        /\ attempts[p] < TicketMaxAttempts
        /\ attempts' = [attempts EXCEPT ![p] = @ + 1]
        /\ number' = [number EXCEPT ![p] = 0]
        /\ before' = [before EXCEPT ![p] = {}]
        /\ Goto(p, "number")
        /\ UNCHANGED <<tickets, lost>>
     \/ /\ tickets[number[p]] # NoTicket          \* contended for too long: LOCK_IO_FAILED
        /\ attempts[p] = TicketMaxAttempts
        /\ attempts' = [attempts EXCEPT ![p] = 0]
        /\ number' = [number EXCEPT ![p] = 0]
        /\ before' = [before EXCEPT ![p] = {}]
        /\ lost' = [lost EXCEPT ![p] = FALSE]
        /\ Goto(p, "out")
        /\ UNCHANGED tickets
  /\ UNCHANGED <<status, lock, scan, arrivals, freezes>>

CreateTicket(p) ==
  /\ At(p, "create")
  /\ \/ /\ tickets[number[p]] = NoTicket
        /\ tickets' = [tickets EXCEPT ![number[p]] = NewTicket(p)]
        /\ lost' = [lost EXCEPT ![p] = FALSE]
        /\ attempts' = [attempts EXCEPT ![p] = 0]
        /\ Goto(p, "stamp")
        /\ UNCHANGED <<number, before>>
     \/ /\ tickets[number[p]] # NoTicket          \* taken meanwhile: read again
        /\ attempts[p] + 1 < TicketMaxAttempts
        /\ attempts' = [attempts EXCEPT ![p] = @ + 1]
        /\ number' = [number EXCEPT ![p] = 0]
        /\ before' = [before EXCEPT ![p] = {}]
        /\ Goto(p, "number")
        /\ UNCHANGED <<tickets, lost>>
     \/ /\ tickets[number[p]] # NoTicket          \* contended for too long: LOCK_IO_FAILED
        /\ attempts[p] + 1 = TicketMaxAttempts
        /\ attempts' = [attempts EXCEPT ![p] = 0]
        /\ number' = [number EXCEPT ![p] = 0]
        /\ before' = [before EXCEPT ![p] = {}]
        /\ lost' = [lost EXCEPT ![p] = FALSE]
        /\ Goto(p, "out")
        /\ UNCHANGED tickets
  /\ UNCHANGED <<status, lock, scan, arrivals, freezes>>

StampTicket(p) ==
  /\ At(p, "stamp")
  /\ \/ /\ tickets' = IF BelongsTo(number[p], p)
                      THEN [tickets EXCEPT ![number[p]] = [@ EXCEPT !.written = TRUE, !.aged = FALSE]]
                      ELSE tickets
        /\ Goto(p, "poll")
        /\ UNCHANGED <<number, before>>
     \/ /\ Fails("stamp")                         \* removed, whoever holds it
        /\ tickets' = [tickets EXCEPT ![number[p]] = NoTicket]
        /\ number' = [number EXCEPT ![p] = 0]
        /\ before' = [before EXCEPT ![p] = {}]
        /\ Goto(p, "out")
  /\ UNCHANGED <<status, lock, lost, scan, attempts, arrivals, freezes>>

\* The timer of refreshTicket, independent of the loop.
RefreshTicket(p) ==
  /\ Up(p)
  /\ pc[p] \in WaitPcs
  /\ \/ /\ Foreign(number[p], p)
        /\ ~lost[p]
        /\ lost' = [lost EXCEPT ![p] = TRUE]
        /\ UNCHANGED tickets
     \/ /\ ~Foreign(number[p], p)
        /\ tickets[number[p]].aged
        /\ tickets' = [tickets EXCEPT ![number[p]].aged = FALSE]
        /\ UNCHANGED lost
  /\ UNCHANGED <<status, lock, pc, number, scan, attempts, arrivals, before, freezes>>

-----------------------------------------------------------------------------
(* acquire, the slow path: one turn of the loop.                            *)

\* Head of the loop: a lost ticket is taken again, at the end of the queue;
\* otherwise the queue is listed and our own ticket read.
Poll(p) ==
  /\ At(p, "poll")
  /\ \/ /\ lost[p]
        /\ number' = [number EXCEPT ![p] = 0]
        /\ before' = [before EXCEPT ![p] = {}]
        /\ Goto(p, "number")
        /\ UNCHANGED <<lost, scan>>
     \/ /\ ~lost[p]
        /\ Foreign(number[p], p)
        /\ lost' = [lost EXCEPT ![p] = TRUE]
        /\ UNCHANGED <<pc, number, scan, before>>
     \/ /\ ~lost[p]
        /\ ~Foreign(number[p], p)
        /\ scan' = [scan EXCEPT ![p] = {n \in Present : n < number[p]}]
        /\ Goto(p, "scan")
        /\ UNCHANGED <<number, lost, before>>
  /\ UNCHANGED <<status, lock, tickets, attempts, arrivals, freezes>>

\* The deadline is over, or the caller aborted.
GiveUp(p) ==
  /\ At(p, "poll")
  /\ "giveUp" \in FailAt
  /\ Goto(p, "drop")
  /\ UNCHANGED <<status, lock, tickets, number, lost, scan, attempts, arrivals, before, freezes>>

\* liveTicketsAhead reads the tickets below ours in order, up to a live one.
ReadAhead(p) ==
  /\ At(p, "scan")
  /\ \/ /\ scan[p] = {}
        /\ Goto(p, "try")
        /\ UNCHANGED scan
     \/ /\ scan[p] # {}
        /\ tickets[Min(scan[p])] = NoTicket
        /\ scan' = [scan EXCEPT ![p] = @ \ {Min(@)}]
        /\ UNCHANGED pc
     \/ /\ scan[p] # {}
        /\ Orphan(Min(scan[p]))
        /\ Goto(p, "remove")
        /\ UNCHANGED scan
     \/ /\ scan[p] # {}
        /\ tickets[Min(scan[p])] # NoTicket
        /\ ~Orphan(Min(scan[p])) \/ Fails("scan")  \* unreadable: counted alive
        /\ scan' = [scan EXCEPT ![p] = {}]
        /\ Goto(p, "poll")
  /\ UNCHANGED <<status, lock, tickets, number, lost, attempts, arrivals, before, freezes>>

\* removeIfUnchanged: removed if it is still what was judged; skipped anyway.
RemoveOrphan(p) ==
  /\ At(p, "remove")
  /\ LET n == Min(scan[p]) IN
     /\ \/ tickets' = IF Orphan(n) THEN [tickets EXCEPT ![n] = NoTicket] ELSE tickets
        \/ Fails("remove") /\ UNCHANGED tickets
     /\ scan' = [scan EXCEPT ![p] = @ \ {n}]
  /\ Goto(p, "scan")
  /\ UNCHANGED <<status, lock, number, lost, attempts, arrivals, before, freezes>>

\* Nobody alive ahead: the exclusive creation of main.lock.
TryLock(p) ==
  /\ At(p, "try")
  /\ IF lost[p]
     THEN Goto(p, "poll") /\ UNCHANGED lock
     ELSE IF lock = Nobody
          THEN lock' = p /\ Goto(p, "drop")
          ELSE Goto(p, "judge") /\ UNCHANGED lock
  /\ UNCHANGED <<status, tickets, number, lost, scan, attempts, arrivals, before, freezes>>

\* judgeLock, and the removal of the lock of a dead process (module MainLock).
JudgeLock(p) ==
  /\ At(p, "judge")
  /\ lock' = IF lock # Nobody /\ status[lock] = "dead" THEN Nobody ELSE lock
  /\ Goto(p, "poll")
  /\ UNCHANGED <<status, tickets, number, lost, scan, attempts, arrivals, before, freezes>>

-----------------------------------------------------------------------------
(* The finally of acquire, then the section.                                *)

Forget(p) ==
  /\ number' = [number EXCEPT ![p] = 0]
  /\ lost' = [lost EXCEPT ![p] = FALSE]
  /\ scan' = [scan EXCEPT ![p] = {}]
  /\ attempts' = [attempts EXCEPT ![p] = 0]
  /\ before' = [before EXCEPT ![p] = {}]

\* dropTicket reads the ticket, and unlinks it if it bears our token.
DropTicket(p) ==
  /\ At(p, "drop")
  /\ IF Bears(number[p], p)
     THEN /\ Goto(p, "unlink")
          /\ UNCHANGED <<number, lost, scan, attempts, before>>
     ELSE /\ Goto(p, IF lock = p THEN "in" ELSE "out")
          /\ Forget(p)
  /\ UNCHANGED <<status, lock, tickets, arrivals, freezes>>

UnlinkTicket(p) ==
  /\ At(p, "unlink")
  /\ \/ tickets' = [tickets EXCEPT ![number[p]] = NoTicket]
     \/ Fails("unlink") /\ UNCHANGED tickets
  /\ Goto(p, IF lock = p THEN "in" ELSE "out")
  /\ Forget(p)
  /\ UNCHANGED <<status, lock, arrivals, freezes>>

Release(p) ==
  /\ At(p, "in")
  /\ lock' = IF lock = p THEN Nobody ELSE lock
  /\ Goto(p, "out")
  /\ UNCHANGED <<status, tickets, number, lost, scan, attempts, arrivals, before, freezes>>

QueueStep(p) ==
  \/ ListQueue(p) \/ TryFast(p) \/ ReadNumbers(p) \/ CreateTicket(p) \/ StampTicket(p)
  \/ Poll(p) \/ ReadAhead(p) \/ RemoveOrphan(p) \/ TryLock(p) \/ JudgeLock(p)
  \/ DropTicket(p) \/ UnlinkTicket(p) \/ Release(p)

-----------------------------------------------------------------------------
(* Faults, and the clock.                                                   *)

Crash(p) ==
  /\ status[p] # "dead"
  /\ pc[p] \in CrashAt
  /\ status' = [status EXCEPT ![p] = "dead"]
  /\ Goto(p, "out")
  /\ Forget(p)
  /\ UNCHANGED <<lock, tickets, arrivals, freezes>>

\* process.exit: the files recorded in ownedFiles go first.
Exit(p) ==
  /\ Up(p)
  /\ {"exit", pc[p]} \subseteq CrashAt
  /\ status' = [status EXCEPT ![p] = "dead"]
  /\ tickets' = IF pc[p] \in WaitPcs \cup {"drop", "unlink"} /\ Bears(number[p], p)
                THEN [tickets EXCEPT ![number[p]] = NoTicket]
                ELSE tickets
  /\ lock' = IF lock = p THEN Nobody ELSE lock
  /\ Goto(p, "out")
  /\ Forget(p)
  /\ UNCHANGED <<arrivals, freezes>>

Freeze(p) ==
  /\ Up(p)
  /\ pc[p] \in FreezeAt
  /\ freezes < MaxFreezes
  /\ freezes' = freezes + 1
  /\ status' = [status EXCEPT ![p] = "frozen"]
  /\ UNCHANGED <<lock, tickets, pc, number, lost, scan, attempts, arrivals, before>>

Thaw(p) ==
  /\ status[p] = "frozen"
  /\ status' = [status EXCEPT ![p] = "up"]
  /\ UNCHANGED <<lock, tickets, pc, number, lost, scan, attempts, arrivals, before, freezes>>

AgeTicket(n) ==
  /\ tickets[n] # NoTicket
  /\ ~tickets[n].aged
  /\ ~Tended(n)
  /\ tickets' = [tickets EXCEPT ![n].aged = TRUE]
  /\ UNCHANGED <<status, lock, pc, number, lost, scan, attempts, arrivals, before, freezes>>

Clock == \E n \in Numbers : AgeTicket(n)

Next ==
  \/ \E p \in Proc : \/ Arrive(p) \/ GiveUp(p) \/ QueueStep(p) \/ RefreshTicket(p)
                     \/ Crash(p) \/ Exit(p) \/ Freeze(p) \/ Thaw(p)
  \/ Clock

Spec == Init /\ [][Next]_vars

(* A process that runs is scheduled, its timer too; a section ends (its     *)
(* commands have time limits); time passes.                                 *)
FairSpec ==
  /\ Spec
  /\ \A p \in Proc : WF_vars(QueueStep(p)) /\ WF_vars(RefreshTicket(p))
  /\ WF_vars(Clock)

-----------------------------------------------------------------------------
(* Properties.                                                              *)

\* Nobody gets the lock through the queue while a ticket that was there when it
\* chose its number is still tended by its owner (liveTicketsAhead: "on ne passe
\* qu'en l'absence de tout ticket vivant devant nous").
NoOvertaking ==
  [][\A q \in Proc :
       (lock # q /\ lock' = q) =>
         \A t \in before[q] :
           ~(BelongsTo(t[1], t[2]) /\ Tended(t[1]) /\ arrivals[t[2]] = t[3])]_vars

\* Whoever waits is visible: the ticket it holds for its own is on disk and is
\* its own, until it has noticed the loss (liveTicketsAhead: "sans ticket, on
\* serait invisible des autres").
Visible ==
  \A p \in Proc : Up(p) /\ pc[p] \in WaitPcs /\ ~lost[p] => Bears(number[p], p)

\* Whoever asks for the lock gets it or is told why not, in spite of the tickets
\* left by processes that were killed, suspended or failed to remove theirs.
NoStarvation ==
  \A p \in Proc : (pc[p] \notin {"out", "in"}) ~> (pc[p] \in {"out", "in"} \/ ~Up(p))
=============================================================================
