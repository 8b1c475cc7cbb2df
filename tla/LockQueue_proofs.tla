---------------------------- MODULE LockQueue_proofs ----------------------------
(***************************************************************************)
(* The waiting queue.  No number, no count of attempts and no ticket leaves  *)
(* its range, whatever crashes, is suspended or fails.  As long as nobody is *)
(* suspended, whoever waits is visible and nobody is overtaken: a ticket     *)
(* stays at its number while its owner queues, a number is above those its   *)
(* owner saw when it chose it, and a pass over the tickets ahead never gets  *)
(* past one of those that is still tended.                                   *)
(***************************************************************************)
EXTENDS LockQueue, TLAPS, WellFoundedInduction

\* A ticket just created, written or freshened is a ticket.
LEMMA TicketTypes ==
  ASSUME TypeOK, NEW p \in Proc
  PROVE  /\ NewTicket(p) \in Ticket
         /\ \A t \in Ticket, b, c \in BOOLEAN : [t EXCEPT !.written = b, !.aged = c] \in Ticket
         /\ \A t \in Ticket, b \in BOOLEAN : [t EXCEPT !.aged = b] \in Ticket
BY DEF TypeOK, NewTicket, Ticket

\* What a process forgets, or reads of the queue, keeps its type.
LEMMA SetTypes ==
  ASSUME TypeOK, NEW p \in Proc
  PROVE  /\ [before EXCEPT ![p] = {}] \in [Proc -> SUBSET Sightings]
         /\ [scan EXCEPT ![p] = {}] \in [Proc -> SUBSET Numbers]
         /\ \A n : [scan EXCEPT ![p] = {k \in Present : k < n}] \in [Proc -> SUBSET Numbers]
         /\ \A n : [scan EXCEPT ![p] = @ \ {n}] \in [Proc -> SUBSET Numbers]
<1>1. before \in [Proc -> SUBSET Sightings] /\ scan \in [Proc -> SUBSET Numbers]
  BY DEF TypeOK
<1>2. [before EXCEPT ![p] = {}] \in [Proc -> SUBSET Sightings]
  BY <1>1
<1>3. \A S \in SUBSET Numbers : [scan EXCEPT ![p] = S] \in [Proc -> SUBSET Numbers]
  BY <1>1
<1>4. {} \in SUBSET Numbers /\ \A n : {k \in Present : k < n} \in SUBSET Numbers
  BY DEF Present
<1>5. \A n : scan[p] \ {n} \in SUBSET Numbers
  BY <1>1
<1> QED
  BY <1>2, <1>3, <1>4, <1>5

LEMMA ForgetTypes ==
  ASSUME TypeOK, NEW p \in Proc, Forget(p)
  PROVE  /\ number' \in [Proc -> 0..MaxNumber]
         /\ lost' \in [Proc -> BOOLEAN]
         /\ scan' \in [Proc -> SUBSET Numbers]
         /\ attempts' \in [Proc -> 0..(TicketMaxAttempts - 1)]
         /\ before' \in [Proc -> SUBSET Sightings]
<1>1. number' \in [Proc -> 0..MaxNumber]
  BY LockQueueAssumption DEF Forget, TypeOK
<1>2. attempts' \in [Proc -> 0..(TicketMaxAttempts - 1)]
  BY LockQueueAssumption DEF Forget, TypeOK
<1>3. lost' \in [Proc -> BOOLEAN]
  BY DEF Forget, TypeOK
<1> QED
  BY <1>1, <1>2, <1>3, SetTypes DEF Forget

\* A ticket written down or taken off leaves a queue of tickets.
LEMMA QueueTypesKept ==
  ASSUME TypeOK, NEW p \in Proc, NEW n \in 0..MaxNumber
  PROVE  /\ [tickets EXCEPT ![n] = NoTicket] \in [Numbers -> Ticket \cup {NoTicket}]
         /\ [tickets EXCEPT ![n] = NewTicket(p)] \in [Numbers -> Ticket \cup {NoTicket}]
         /\ tickets[n] \in Ticket => [tickets EXCEPT ![n] = [@ EXCEPT !.written = TRUE, !.aged = FALSE]]
                                      \in [Numbers -> Ticket \cup {NoTicket}]
BY TicketTypes DEF TypeOK

LEMMA TypeInit == Init => TypeOK
BY LockQueueAssumption DEF Init, TypeOK, PCs, Numbers

(* The calls of one process. *)
LEMMA TypeStep ==
  ASSUME TypeOK, NEW p \in Proc,
         Arrive(p) \/ GiveUp(p) \/ QueueStep(p) \/ RefreshTicket(p)
  PROVE  TypeOK'
<1> USE LockQueueAssumption DEF TypeOK, Goto, PCs, Fails
<1>1. CASE Arrive(p) \/ GiveUp(p)
  BY <1>1 DEF Arrive, GiveUp
<1>2. CASE ListQueue(p) \/ TryFast(p)
  BY <1>2 DEF ListQueue, TryFast
<1>3. CASE ReadNumbers(p)
  <2>1. {<<n, tickets[n].owner, tickets[n].call>> : n \in Present}
          \in SUBSET Sightings
    BY DEF Present, Ticket, Sightings
  <2> QED
    BY <1>3, <2>1 DEF ReadNumbers, Numbers
<1>4. CASE CreateTicket(p)
  <2>1. tickets' \in [Numbers -> Ticket \cup {NoTicket}]
    <3>1. /\ [tickets EXCEPT ![number[p]] = NewTicket(p)] \in [Numbers -> Ticket \cup {NoTicket}]
          /\ tickets \in [Numbers -> Ticket \cup {NoTicket}]
      BY QueueTypesKept
    <3>2. tickets' = tickets \/ tickets' = [tickets EXCEPT ![number[p]] = NewTicket(p)]
      BY <1>4 DEF CreateTicket
    <3> QED
      BY <3>1, <3>2
  <2>2. attempts' \in [Proc -> 0..(TicketMaxAttempts - 1)]
    BY <1>4 DEF CreateTicket
  <2>3. number' \in [Proc -> 0..MaxNumber] /\ lost' \in [Proc -> BOOLEAN]
    <3>1. number' \in [Proc -> 0..MaxNumber]
      BY <1>4 DEF CreateTicket
    <3>2. lost' \in [Proc -> BOOLEAN]
      BY <1>4 DEF CreateTicket
    <3> QED
      BY <3>1, <3>2
  <2>4. before' \in [Proc -> SUBSET Sightings]
    BY <1>4, SetTypes DEF CreateTicket
  <2> QED
    BY <1>4, <2>1, <2>2, <2>3, <2>4 DEF CreateTicket
<1>5. CASE StampTicket(p)
  <2>1. tickets' \in [Numbers -> Ticket \cup {NoTicket}]
    <3>1. BelongsTo(number[p], p) /\ number[p] \in Numbers => tickets[number[p]] \in Ticket
      BY DEF BelongsTo
    <3>2. BelongsTo(number[p], p) /\ number[p] \notin Numbers =>
            [tickets EXCEPT ![number[p]] = [@ EXCEPT !.written = TRUE, !.aged = FALSE]] = tickets
      OBVIOUS
    <3>3. /\ [tickets EXCEPT ![number[p]] = NoTicket] \in [Numbers -> Ticket \cup {NoTicket}]
          /\ BelongsTo(number[p], p) =>
               [tickets EXCEPT ![number[p]] = [@ EXCEPT !.written = TRUE, !.aged = FALSE]]
                 \in [Numbers -> Ticket \cup {NoTicket}]
      BY <3>1, <3>2, QueueTypesKept
    <3> QED
      BY <1>5, <3>3 DEF StampTicket
  <2>2. number' \in [Proc -> 0..MaxNumber]
    BY <1>5 DEF StampTicket
  <2>3. before' \in [Proc -> SUBSET Sightings]
    BY <1>5, SetTypes DEF StampTicket
  <2> QED
    BY <1>5, <2>1, <2>2, <2>3 DEF StampTicket
<1>6. CASE RefreshTicket(p)
  <2>1. CASE UNCHANGED tickets
    BY <1>6, <2>1 DEF RefreshTicket
  <2>2. CASE ~Foreign(number[p], p) /\ tickets' = [tickets EXCEPT ![number[p]].aged = FALSE]
    <3>1. number[p] \in Numbers => tickets[number[p]] \in Ticket
      BY <2>2 DEF Foreign
    <3> QED
      BY <1>6, <2>2, <3>1, TicketTypes DEF RefreshTicket
  <2> QED
    BY <1>6, <2>1, <2>2 DEF RefreshTicket
<1>7. CASE Poll(p)
  <2>1. number' \in [Proc -> 0..MaxNumber] /\ lost' \in [Proc -> BOOLEAN]
    <3>1. number' \in [Proc -> 0..MaxNumber]
      BY <1>7 DEF Poll
    <3>2. lost' \in [Proc -> BOOLEAN]
      BY <1>7 DEF Poll
    <3> QED
      BY <3>1, <3>2
  <2>2. before' \in [Proc -> SUBSET Sightings] /\ scan' \in [Proc -> SUBSET Numbers]
    BY <1>7, SetTypes DEF Poll
  <2> QED
    BY <1>7, <2>1, <2>2 DEF Poll
<1>8. CASE ReadAhead(p)
  BY <1>8, SetTypes DEF ReadAhead, Orphan
<1>9. CASE RemoveOrphan(p)
  <2>1. tickets' \in [Numbers -> Ticket \cup {NoTicket}] /\ scan' \in [Proc -> SUBSET Numbers]
    BY <1>9 DEF RemoveOrphan
  <2> QED
    BY <1>9, <2>1 DEF RemoveOrphan
<1>10. CASE TryLock(p) \/ JudgeLock(p)
  BY <1>10 DEF TryLock, JudgeLock
<1>11. CASE DropTicket(p)
  BY <1>11, ForgetTypes DEF DropTicket
<1>12. CASE UnlinkTicket(p)
  BY <1>12, ForgetTypes DEF UnlinkTicket
<1>13. CASE Release(p)
  BY <1>13 DEF Release
<1> QED
  BY <1>1, <1>2, <1>3, <1>4, <1>5, <1>6, <1>7, <1>8, <1>9, <1>10, <1>11, <1>12, <1>13 DEF QueueStep

(* Faults and the clock. *)
LEMMA TypeNext == TypeOK /\ [Next]_vars => TypeOK'
<1> SUFFICES ASSUME TypeOK, [Next]_vars PROVE TypeOK'
  OBVIOUS
<1>1. ASSUME NEW p \in Proc, Arrive(p) \/ GiveUp(p) \/ QueueStep(p) \/ RefreshTicket(p)
      PROVE  TypeOK'
  BY <1>1, TypeStep
<1>2. ASSUME NEW p \in Proc, Crash(p) \/ Exit(p) PROVE TypeOK'
  <2>1. tickets' \in [Numbers -> Ticket \cup {NoTicket}]
    BY <1>2, QueueTypesKept DEF Crash, Exit, TypeOK
  <2>2. Forget(p) /\ status' \in [Proc -> {"up", "frozen", "dead"}] /\ pc' \in [Proc -> PCs]
    BY <1>2 DEF Crash, Exit, TypeOK, Goto, PCs
  <2> QED
    BY <1>2, <2>1, <2>2, ForgetTypes DEF Crash, Exit, TypeOK
<1>3. ASSUME NEW p \in Proc, Freeze(p) \/ Thaw(p) PROVE TypeOK'
  BY <1>3, LockQueueAssumption DEF Freeze, Thaw, TypeOK
<1>4. ASSUME NEW n \in Numbers, AgeTicket(n) PROVE TypeOK'
  <2>1. tickets[n] \in Ticket
    BY <1>4, SetTypes DEF AgeTicket, TypeOK
  <2> QED
    BY <1>4, <2>1 DEF AgeTicket, TypeOK, Ticket
<1>5. CASE UNCHANGED vars
  BY <1>5 DEF vars, TypeOK
<1> QED
  BY <1>1, <1>2, <1>3, <1>4, <1>5 DEF Next, Clock

(* Every variable of the queue keeps its type.                              *)
THEOREM QueueTypes == Spec => []TypeOK
BY TypeInit, TypeNext, PTL DEF Spec

-----------------------------------------------------------------------------
(* Order and visibility, when no process is suspended.                      *)

\* The points where a process has a ticket, those where its call has not got one
\* yet, and those where it has seen none.
Queued == {"stamp", "drop", "unlink"} \cup WaitPcs
Fresh == {"list", "fast", "number", "create"}
Unsighted == {"out", "list", "fast", "number", "in"}

NobodySuspended ==
  \A p \in Proc : status[p] # "frozen" /\ ~lost[p] /\ (status[p] = "dead" => pc[p] = "out")

\* A ticket is there, its owner's and never old, as long as its owner queues.
TicketHeld ==
  \A p \in Proc :
    /\ pc[p] \in Queued \cup {"create"} => number[p] \in Numbers
    /\ pc[p] \in Queued => /\ BelongsTo(number[p], p) /\ ~tickets[number[p]].aged
                           /\ tickets[number[p]].written <=> pc[p] # "stamp"

\* A ticket, present or remembered, is one of an earlier call until its owner has
\* created that of the present one.
Earlier(r, c) == c <= arrivals[r] /\ (pc[r] \in Fresh => c # arrivals[r])
CallsPast ==
  /\ \A n \in Present : Earlier(tickets[n].owner, tickets[n].call)
  /\ \A q \in Proc : \A t \in before[q] : Earlier(t[2], t[3])

\* Whoever chose a number chose it above those it saw.
SightedBelow ==
  \A q \in Proc : /\ pc[q] \in Unsighted => before[q] = {}
                  /\ \A t \in before[q] : t[1] < number[q]

\* Its owner is still in the queue with that ticket.
Waits(t) == pc[t[2]] \in Queued /\ number[t[2]] = t[1] /\ arrivals[t[2]] = t[3]

\* A pass over the tickets ahead never gets past one that was there when the number
\* was chosen.
LooksAhead ==
  \A q \in Proc : \A t \in before[q] : Waits(t) =>
    /\ pc[q] \in {"scan", "remove"} => t[1] \in scan[q]
    /\ pc[q] = "remove" => t[1] # Min(scan[q])
    /\ pc[q] # "try"

QInv == TypeOK /\ NobodySuspended /\ TicketHeld /\ CallsPast /\ SightedBelow /\ LooksAhead

\* The next number is above all those present.
LEMMA NextAbove ==
  ASSUME TypeOK, NEW n \in Present
  PROVE  n < NextNumber
<1> DEFINE Gap == {MaxNumber - k : k \in Present}
<1>1. Present \subseteq Numbers /\ n \in Numbers
  BY DEF Present
<1>2. Gap \subseteq Nat /\ Gap # {}
  BY <1>1, LockQueueAssumption DEF Numbers
<1>3. PICK g \in Gap : \A h \in Gap : ~(<<h, g>> \in OpToRel(<, Nat))
  BY <1>2, WFMin, NatLessThanWellFounded
<1>4. \A h \in Gap : ~(h < g)
  BY <1>2, <1>3 DEF OpToRel
<1>5. PICK m \in Present : g = MaxNumber - m
  BY <1>3
<1>6. \A k \in Present : m >= k
  <2> SUFFICES ASSUME NEW k \in Present PROVE m >= k
    OBVIOUS
  <2>1. ~(MaxNumber - k < MaxNumber - m)
    BY <1>4, <1>5
  <2>2. k \in Nat /\ m \in Nat /\ MaxNumber \in Nat
    BY <1>1, LockQueueAssumption DEF Numbers
  <2> QED
    BY <2>1, <2>2
<1>7. Max(Present) \in Present /\ Max(Present) >= n
  BY <1>6 DEF Max
<1>8. PICK k \in Present : k = Max(Present) /\ k >= n
  BY <1>7
<1>9. NextNumber = k + 1 /\ k \in Numbers
  BY <1>1, <1>8 DEF NextNumber
<1>10. n \in Nat /\ k \in Nat
  BY <1>1, <1>9, LockQueueAssumption DEF Numbers
<1> QED
  BY <1>8, <1>9, <1>10

LEMMA NoTicketApart == NoTicket \notin Ticket
BY LockQueueAssumption DEF Ticket

LEMMA QInvInit == Init => QInv
BY TypeInit DEF Init, QInv, NobodySuspended, TicketHeld, Queued, WaitPcs, CallsPast, Present, Earlier,
                SightedBelow, LooksAhead

\* A step of one process leaves the memory of the others alone.
LEMMA OthersMemory ==
  ASSUME TypeOK, NEW p \in Proc, NEW r \in Proc, r # p,
         Arrive(p) \/ GiveUp(p) \/ QueueStep(p) \/ RefreshTicket(p) \/ Crash(p) \/ Exit(p)
  PROVE  /\ pc'[r] = pc[r] /\ number'[r] = number[r] /\ arrivals'[r] = arrivals[r]
         /\ scan'[r] = scan[r] /\ before'[r] = before[r] /\ lost'[r] = lost[r]
         /\ status'[r] = status[r]
BY DEF TypeOK, QueueStep, Arrive, GiveUp, RefreshTicket, Crash, Exit, Goto, Forget, ListQueue, TryFast,
       ReadNumbers, CreateTicket, StampTicket, Poll, ReadAhead, RemoveOrphan, TryLock, JudgeLock,
       DropTicket, UnlinkTicket, Release

\* A process that queues has its ticket at its number, and that is not debris.
LEMMA Held ==
  ASSUME TypeOK, NobodySuspended, TicketHeld, NEW p \in Proc, pc[p] \in Queued
  PROVE  /\ number[p] \in Numbers /\ tickets[number[p]] \in Ticket /\ tickets[number[p]] # NoTicket
         /\ tickets[number[p]].owner = p /\ Up(p) /\ BelongsTo(number[p], p)
         /\ ~Orphan(number[p]) /\ ~Foreign(number[p], p) /\ Tended(number[p])
<1>1. /\ number[p] \in Numbers /\ BelongsTo(number[p], p) /\ ~tickets[number[p]].aged
      /\ tickets[number[p]].owner = p /\ tickets[number[p]] # NoTicket
  BY DEF TicketHeld, BelongsTo
<1>2. Up(p)
  BY DEF NobodySuspended, TypeOK, Up, Queued, WaitPcs
<1>3. tickets[number[p]] \in Ticket
  BY <1>1 DEF TypeOK
<1>4. Tended(number[p])
  BY <1>1, <1>2 DEF Tended, Queued
<1> QED
  BY <1>1, <1>2, <1>3, <1>4 DEF Orphan, Foreign, Up

\* The tickets of the others stay as long as they queue.
LEMMA OthersTickets ==
  ASSUME QInv, NEW p \in Proc, NEW r \in Proc, r # p, pc[r] \in Queued,
         Arrive(p) \/ GiveUp(p) \/ QueueStep(p) \/ RefreshTicket(p) \/ Crash(p) \/ Exit(p)
  PROVE  tickets'[number[r]] = tickets[number[r]]
<1> USE DEF QInv
<1>1. /\ number[r] \in Numbers /\ tickets[number[r]] # NoTicket /\ ~Orphan(number[r])
      /\ tickets[number[r]].owner = r /\ tickets \in [Numbers -> Ticket \cup {NoTicket}]
  BY Held DEF TypeOK
<1>2. pc[p] \in Queued => number[p] # number[r]
  BY <1>1, Held
<1>3. CASE CreateTicket(p)
  BY <1>1, <1>3 DEF CreateTicket
<1>4. CASE StampTicket(p) \/ UnlinkTicket(p) \/ Exit(p) \/ RefreshTicket(p)
  BY <1>1, <1>2, <1>4 DEF StampTicket, UnlinkTicket, Exit, RefreshTicket, At, Queued, WaitPcs
<1>5. CASE RemoveOrphan(p)
  BY <1>1, <1>5 DEF RemoveOrphan
<1>6. CASE UNCHANGED tickets
  BY <1>6
<1> QED
  BY <1>3, <1>4, <1>5, <1>6
     DEF QueueStep, Arrive, GiveUp, Crash, ListQueue, TryFast, ReadNumbers, Poll, ReadAhead, TryLock,
         JudgeLock, DropTicket, Release

LEMMA SuspendedStep ==
  ASSUME QInv, NEW p \in Proc,
         Arrive(p) \/ GiveUp(p) \/ QueueStep(p) \/ RefreshTicket(p) \/ Crash(p) \/ Exit(p)
  PROVE  NobodySuspended'
<1>1. ASSUME NEW r \in Proc, r # p
      PROVE  status'[r] # "frozen" /\ ~lost'[r] /\ (status'[r] = "dead" => pc'[r] = "out")
  BY <1>1, OthersMemory DEF QInv, NobodySuspended
<1>2. pc[p] \in WaitPcs => ~Foreign(number[p], p)
  BY Held DEF QInv, Queued
<1>3. status'[p] # "frozen" /\ ~lost'[p] /\ (status'[p] = "dead" => pc'[p] = "out")
  <2> USE DEF QInv, TypeOK, NobodySuspended, Goto, At, Up
  <2>1. CASE RefreshTicket(p) \/ Poll(p)
    BY <1>2, <2>1 DEF RefreshTicket, Poll, WaitPcs
  <2>2. CASE Crash(p) \/ Exit(p)
    BY <2>2 DEF Crash, Exit, Forget
  <2> QED
    BY <2>1, <2>2 DEF Arrive, GiveUp, QueueStep, ListQueue, TryFast, ReadNumbers, CreateTicket,
       StampTicket, ReadAhead, RemoveOrphan, TryLock, JudgeLock, DropTicket, UnlinkTicket, Release, Forget
<1> QED
  BY <1>1, <1>3 DEF NobodySuspended

LEMMA HeldStep ==
  ASSUME QInv, NEW p \in Proc,
         Arrive(p) \/ GiveUp(p) \/ QueueStep(p) \/ RefreshTicket(p) \/ Crash(p) \/ Exit(p)
  PROVE  TicketHeld'
<1> DEFINE Good(r) ==
      /\ pc[r] \in Queued \cup {"create"} => number[r] \in Numbers
      /\ pc[r] \in Queued => /\ BelongsTo(number[r], r) /\ ~tickets[number[r]].aged
                             /\ tickets[number[r]].written <=> pc[r] # "stamp"
<1> USE DEF QInv
<1>1. ASSUME NEW r \in Proc, r # p PROVE Good(r)'
  BY <1>1, OthersMemory, OthersTickets DEF TicketHeld, BelongsTo
<1>2. pc[p] \in Queued => /\ number[p] \in Numbers /\ tickets[number[p]] \in Ticket
                           /\ BelongsTo(number[p], p) /\ ~Foreign(number[p], p) /\ ~Orphan(number[p])
                           /\ ~tickets[number[p]].aged
  BY Held DEF TicketHeld
<1>4. pc[p] \in WaitPcs \cup {"drop", "unlink"} => tickets[number[p]].written
  BY DEF TicketHeld, Queued, WaitPcs
<1>3. Good(p)'
  <2> USE DEF TypeOK, Goto, At, Up, Queued, WaitPcs
  <2>1. CASE CreateTicket(p)
    <3>1. number[p] \in Numbers
      BY <2>1 DEF CreateTicket, TicketHeld
    <3>2. CASE tickets' = [tickets EXCEPT ![number[p]] = NewTicket(p)] /\ pc' = [pc EXCEPT ![p] = "stamp"]
      <4>1. number' = number /\ arrivals' = arrivals /\ pc'[p] = "stamp"
        BY <2>1, <3>2 DEF CreateTicket
      <4>2. tickets'[number[p]] = NewTicket(p) /\ NewTicket(p) # NoTicket
        BY <3>1, <3>2, TicketTypes, NoTicketApart
      <4> QED
        BY <3>1, <4>1, <4>2 DEF BelongsTo, NewTicket
    <3>3. CASE pc'[p] \in {"number", "out"}
      BY <3>3
    <3> QED
      BY <2>1, <3>2, <3>3 DEF CreateTicket
  <2>2. CASE StampTicket(p)
    <3>0. pc[p] = "stamp" /\ tickets[number[p]] \in Ticket /\ number[p] \in Numbers
      BY <1>2, <2>2 DEF StampTicket
    <3>1. CASE pc'[p] = "poll"
      <4>1. /\ tickets'[number[p]] = [tickets[number[p]] EXCEPT !.written = TRUE, !.aged = FALSE]
            /\ number' = number /\ arrivals' = arrivals
        BY <1>2, <2>2, <3>0, <3>1 DEF StampTicket
      <4>2. /\ tickets'[number[p]].owner = p /\ tickets'[number[p]].call = arrivals[p]
            /\ tickets'[number[p]].written = TRUE /\ tickets'[number[p]].aged = FALSE
            /\ tickets'[number[p]] \in Ticket
        BY <1>2, <3>0, <4>1 DEF BelongsTo, Ticket
      <4> QED
        BY <3>0, <3>1, <4>1, <4>2, NoTicketApart DEF BelongsTo
    <3> QED
      BY <2>2, <3>1 DEF StampTicket
  <2>3. CASE RefreshTicket(p)
    BY <1>2, <2>3 DEF RefreshTicket
  <2>4. CASE RemoveOrphan(p) \/ Poll(p) \/ ReadAhead(p) \/ TryLock(p) \/ JudgeLock(p) \/ GiveUp(p)
    <3>1. pc[p] \in WaitPcs /\ arrivals' = arrivals
      BY <2>4 DEF RemoveOrphan, Poll, ReadAhead, TryLock, JudgeLock, GiveUp
    <3>2. tickets'[number[p]] = tickets[number[p]]
      BY <1>2, <2>4, <3>1 DEF RemoveOrphan, Poll, ReadAhead, TryLock, JudgeLock, GiveUp
    <3>3. number' = number /\ pc'[p] \in WaitPcs \cup {"drop"}
      BY <2>4 DEF RemoveOrphan, Poll, ReadAhead, TryLock, JudgeLock, GiveUp, NobodySuspended
    <3> QED
      BY <1>2, <1>4, <3>1, <3>2, <3>3 DEF BelongsTo
  <2>5. CASE DropTicket(p)
    <3>1. CASE pc'[p] = "unlink"
      BY <1>2, <1>4, <2>5, <3>1 DEF DropTicket, Forget, BelongsTo
    <3>2. CASE pc'[p] \in {"in", "out"}
      BY <3>2
    <3> QED
      BY <2>5, <3>1, <3>2 DEF DropTicket
  <2>6. CASE UnlinkTicket(p) \/ Release(p) \/ Crash(p) \/ Exit(p) \/ Arrive(p) \/ ListQueue(p) \/ TryFast(p)
    BY <2>6 DEF UnlinkTicket, Release, Crash, Exit, Arrive, ListQueue, TryFast, Forget
  <2>7. CASE ReadNumbers(p)
    BY <2>7 DEF ReadNumbers
  <2> QED
    BY <2>1, <2>2, <2>3, <2>4, <2>5, <2>6, <2>7 DEF QueueStep
<1> QED
  BY <1>1, <1>3 DEF TicketHeld

LEMMA CallsStep ==
  ASSUME QInv, TypeOK', NEW p \in Proc,
         Arrive(p) \/ GiveUp(p) \/ QueueStep(p) \/ RefreshTicket(p) \/ Crash(p) \/ Exit(p)
  PROVE  CallsPast'
<1> USE DEF QInv
\* What was said of an earlier call is still so.
<1>1. ASSUME NEW r \in Proc, NEW c \in 0..MaxArrivals, Earlier(r, c) PROVE Earlier(r, c)'
  <2>1. CASE r # p
    BY <1>1, <2>1, OthersMemory DEF Earlier
  <2>2. CASE r = p /\ Arrive(p)
    BY <1>1, <2>2, LockQueueAssumption DEF Arrive, Earlier, TypeOK
  <2>3. CASE r = p /\ ~Arrive(p)
    <3>1. arrivals'[p] = arrivals[p] /\ (pc'[p] \in Fresh => pc[p] \in Fresh)
      BY <2>3 DEF GiveUp, QueueStep, RefreshTicket, Crash, Exit, Goto, Forget, ListQueue, TryFast,
         ReadNumbers, CreateTicket, StampTicket, Poll, ReadAhead, RemoveOrphan, TryLock, JudgeLock,
         DropTicket, UnlinkTicket, Release, Fresh, TypeOK, NobodySuspended, At
    <3> QED
      BY <1>1, <2>3, <3>1 DEF Earlier
  <2> QED
    BY <2>1, <2>2, <2>3
<1>2. ASSUME NEW n \in Present PROVE /\ tickets[n].owner \in Proc /\ tickets[n].call \in 0..MaxArrivals
                                     /\ Earlier(tickets[n].owner, tickets[n].call)
  BY <1>2 DEF CallsPast, Present, TypeOK, Ticket
<1>3. ASSUME NEW n \in Present' PROVE Earlier(tickets[n].owner, tickets[n].call)'
  <2>1. CASE n \in Present /\ tickets'[n].owner = tickets[n].owner /\ tickets'[n].call = tickets[n].call
    BY <1>1, <1>2, <2>1 DEF Earlier
  <2>2. CASE /\ CreateTicket(p) /\ n = number[p] /\ pc'[p] = "stamp"
             /\ tickets' = [tickets EXCEPT ![number[p]] = NewTicket(p)]
    <3>1. pc'[p] = "stamp" /\ arrivals' = arrivals
      BY <2>2 DEF CreateTicket
    <3>2. tickets'[n] = NewTicket(p)
      BY <1>3, <2>2 DEF TypeOK, Present
    <3> QED
      BY <3>1, <3>2 DEF NewTicket, Earlier, Fresh, TypeOK
  <2>3. n \in Numbers /\ tickets'[n] # NoTicket
    BY <1>3 DEF Present
  <2>4. CASE tickets[n] # NoTicket
    <3>1. n \in Present /\ tickets[n] \in Ticket /\ tickets \in [Numbers -> Ticket \cup {NoTicket}]
      BY <2>3, <2>4 DEF TypeOK, Present
    <3>2. CASE StampTicket(p)
      <4>1. tickets'[n] \in {tickets[n], [tickets[n] EXCEPT !.written = TRUE, !.aged = FALSE], NoTicket}
        BY <2>3, <3>1, <3>2 DEF StampTicket
      <4> QED
        BY <2>1, <2>3, <3>1, <4>1 DEF Ticket
    <3>3. CASE RefreshTicket(p)
      <4>1. tickets'[n] \in {tickets[n], [tickets[n] EXCEPT !.aged = FALSE]}
        BY <2>3, <3>1, <3>3 DEF RefreshTicket
      <4> QED
        BY <2>1, <2>3, <3>1, <4>1 DEF Ticket
    <3>4. CASE \E k : tickets' \in {tickets, [tickets EXCEPT ![k] = NoTicket]}
      BY <2>1, <2>3, <3>1, <3>4
    <3>5. CASE CreateTicket(p)
      BY <2>1, <2>2, <2>3, <3>1, <3>5 DEF CreateTicket, Goto, TypeOK
    <3> QED
      BY <3>2, <3>3, <3>4, <3>5
         DEF Arrive, GiveUp, QueueStep, Crash, Exit, ListQueue, TryFast,
             ReadNumbers, Poll, ReadAhead, RemoveOrphan, TryLock, JudgeLock,
             DropTicket, UnlinkTicket, Release
  <2>5. CASE tickets[n] = NoTicket
    <3>1. pc[p] \in Queued => number[p] # n
      BY <2>5, Held
    <3>2. CASE StampTicket(p) \/ RefreshTicket(p)
      <4>1. number[p] # n
        BY <3>1, <3>2 DEF StampTicket, RefreshTicket, At, Queued
      <4> QED
        BY <2>3, <2>5, <3>2, <4>1 DEF StampTicket, RefreshTicket, TypeOK
    <3>3. CASE \E k : tickets' \in {tickets, [tickets EXCEPT ![k] = NoTicket]}
      BY <2>3, <2>5, <3>3 DEF TypeOK
    <3>4. CASE CreateTicket(p)
      BY <2>2, <2>3, <2>5, <3>4 DEF CreateTicket, Goto, TypeOK
    <3> QED
      BY <3>2, <3>3, <3>4
         DEF Arrive, GiveUp, QueueStep, Crash, Exit, ListQueue, TryFast,
             ReadNumbers, Poll, ReadAhead, RemoveOrphan, TryLock, JudgeLock,
             DropTicket, UnlinkTicket, Release
  <2> QED
    BY <2>4, <2>5
<1>4. ASSUME NEW q \in Proc, NEW t \in before'[q] PROVE Earlier(t[2], t[3])'
  <2>1. CASE t \in before[q]
    <3>1. t[2] \in Proc /\ t[3] \in 0..MaxArrivals /\ Earlier(t[2], t[3])
      BY <2>1 DEF TypeOK, Sightings, CallsPast
    <3> QED
      BY <1>1, <3>1
  <2>2. CASE t \notin before[q]
    <3>1. q = p /\ ReadNumbers(p)
      <4>1. q = p
        BY <1>4, <2>2, OthersMemory
      <4> QED
        BY <1>4, <2>2, <4>1
           DEF Arrive, GiveUp, QueueStep, RefreshTicket, Crash, Exit, Forget, ListQueue, TryFast,
               CreateTicket, StampTicket, Poll, ReadAhead, RemoveOrphan, TryLock, JudgeLock,
               DropTicket, UnlinkTicket, Release, TypeOK
    <3>2. PICK n \in Present : t = <<n, tickets[n].owner, tickets[n].call>>
      BY <1>4, <3>1 DEF ReadNumbers, TypeOK
    <3> QED
      BY <1>1, <1>2, <3>2
  <2> QED
    BY <2>1, <2>2
<1> QED
  BY <1>3, <1>4 DEF CallsPast, Earlier
LEMMA SightedStep ==
  ASSUME QInv, NEW p \in Proc,
         Arrive(p) \/ GiveUp(p) \/ QueueStep(p) \/ RefreshTicket(p) \/ Crash(p) \/ Exit(p)
  PROVE  SightedBelow'
<1> USE DEF QInv
<1>1. ASSUME NEW q \in Proc, q # p
      PROVE  (pc'[q] \in Unsighted => before'[q] = {}) /\ \A t \in before'[q] : t[1] < number'[q]
  BY <1>1, OthersMemory DEF SightedBelow
<1>2. pc[p] \in Unsighted => before[p] = {}
  BY DEF SightedBelow
<1>3. CASE before'[p] = {}
  BY <1>1, <1>3 DEF SightedBelow
<1>4. CASE ReadNumbers(p)
  <2>1. /\ before'[p] = {<<n, tickets[n].owner, tickets[n].call>> : n \in Present}
        /\ number'[p] = NextNumber /\ pc'[p] = "create"
    BY <1>4 DEF ReadNumbers, Goto, TypeOK
  <2>2. \A t \in before'[p] : t[1] < number'[p]
    <3> SUFFICES ASSUME NEW t \in before'[p] PROVE t[1] < number'[p]
      OBVIOUS
    <3>1. PICK n \in Present : t = <<n, tickets[n].owner, tickets[n].call>>
      BY <2>1
    <3>2. t[1] = n
      BY <3>1
    <3> QED
      BY <2>1, <3>2, NextAbove
  <2> QED
    BY <1>1, <2>1, <2>2 DEF SightedBelow, Unsighted
<1>5. CASE UNCHANGED <<before, number>> /\ (pc'[p] \in Unsighted => pc[p] \in Unsighted)
  BY <1>1, <1>2, <1>5 DEF SightedBelow
<1> QED
  BY <1>2, <1>3, <1>4, <1>5
     DEF Arrive, GiveUp, QueueStep, RefreshTicket, Crash, Exit, Goto, Forget, ListQueue, TryFast,
         CreateTicket, StampTicket, Poll, ReadAhead, RemoveOrphan, TryLock, JudgeLock,
         DropTicket, UnlinkTicket, Release, TypeOK, Unsighted, At

\* Nobody is ahead again who was not.
LEMMA WaitsBefore ==
  ASSUME QInv, NEW p \in Proc, NEW q \in Proc, NEW t \in before[q], Waits(t)',
         Arrive(p) \/ GiveUp(p) \/ QueueStep(p) \/ RefreshTicket(p) \/ Crash(p) \/ Exit(p)
  PROVE  Waits(t)
<1> USE DEF QInv
<1>1. t[2] \in Proc /\ Earlier(t[2], t[3])
  BY DEF CallsPast, TypeOK, Sightings
<1>2. CASE t[2] # p
  BY <1>1, <1>2, OthersMemory DEF Waits
<1>3. CASE t[2] = p
  <2>1. pc'[p] \in Queued /\ number'[p] = t[1] /\ arrivals'[p] = t[3]
    BY <1>3 DEF Waits
  <2>2. CASE CreateTicket(p)
    BY <1>1, <1>3, <2>1, <2>2 DEF CreateTicket, At, Earlier, Fresh
  <2>3. CASE pc[p] \in Queued /\ UNCHANGED <<number, arrivals>>
    BY <1>3, <2>1, <2>3 DEF Waits
  <2> QED
    BY <2>1, <2>2, <2>3
       DEF Arrive, GiveUp, QueueStep, RefreshTicket, Crash, Exit, Goto, ListQueue, TryFast,
           ReadNumbers, StampTicket, Poll, ReadAhead, RemoveOrphan, TryLock, JudgeLock,
           DropTicket, UnlinkTicket, Release, TypeOK, Queued, WaitPcs, At, NobodySuspended
<1> QED
  BY <1>2, <1>3

LEMMA AheadStep ==
  ASSUME QInv, NEW p \in Proc,
         Arrive(p) \/ GiveUp(p) \/ QueueStep(p) \/ RefreshTicket(p) \/ Crash(p) \/ Exit(p)
  PROVE  LooksAhead'
<1> USE DEF QInv
<1> SUFFICES ASSUME NEW q \in Proc, NEW t \in before'[q], Waits(t)'
             PROVE  /\ pc'[q] \in {"scan", "remove"} => t[1] \in scan'[q]
                    /\ pc'[q] = "remove" => t[1] # Min(scan'[q])
                    /\ pc'[q] # "try"
  BY DEF LooksAhead
<1>1. CASE t \notin before[q]
  <2>1. q = p
    BY <1>1, OthersMemory
  <2> QED
    BY <1>1, <2>1
       DEF Arrive, GiveUp, QueueStep, RefreshTicket, Crash, Exit, Goto, Forget, ListQueue, TryFast,
           ReadNumbers, CreateTicket, StampTicket, Poll, ReadAhead, RemoveOrphan, TryLock, JudgeLock,
           DropTicket, UnlinkTicket, Release, TypeOK
<1>2. CASE t \in before[q]
  <2>1. Waits(t) /\ t[2] \in Proc /\ t[1] < number[q]
    BY <1>2, WaitsBefore DEF TypeOK, Sightings, SightedBelow
  <2>2. /\ pc[q] \in {"scan", "remove"} => t[1] \in scan[q]
        /\ pc[q] = "remove" => t[1] # Min(scan[q])
        /\ pc[q] # "try"
    BY <1>2, <2>1 DEF LooksAhead
  <2>3. t[1] \in Numbers /\ tickets[t[1]] # NoTicket /\ ~Orphan(t[1])
    BY <2>1, Held DEF Waits
  <2>4. CASE q # p
    BY <2>2, <2>4, OthersMemory
  <2>5. CASE q = p
    <3> USE DEF TypeOK, Goto, At
    <3>1. CASE Poll(p)
      BY <1>2, <2>1, <2>3, <2>5, <3>1 DEF Poll, Present
    <3>2. CASE ReadAhead(p)
      BY <1>2, <2>2, <2>3, <2>5, <3>2 DEF ReadAhead
    <3>3. CASE RemoveOrphan(p)
      BY <1>2, <2>2, <2>5, <3>3 DEF RemoveOrphan
    <3> QED
      BY <2>2, <2>5, <3>1, <3>2, <3>3
         DEF Arrive, GiveUp, QueueStep, RefreshTicket, Crash, Exit, ListQueue, TryFast,
             ReadNumbers, CreateTicket, StampTicket, TryLock, JudgeLock, DropTicket, UnlinkTicket, Release
  <2> QED
    BY <2>4, <2>5
<1> QED
  BY <1>1, <1>2
LEMMA QInvStep ==
  ASSUME FreezeAt = {}, QInv, [Next]_vars
  PROVE  QInv'
<1>0. TypeOK'
  BY TypeNext DEF QInv
<1>1. ASSUME NEW p \in Proc,
             Arrive(p) \/ GiveUp(p) \/ QueueStep(p) \/ RefreshTicket(p) \/ Crash(p) \/ Exit(p)
      PROVE  QInv'
  BY <1>0, <1>1, SuspendedStep, HeldStep, CallsStep, SightedStep, AheadStep DEF QInv
<1>2. ASSUME NEW p \in Proc, Freeze(p) \/ Thaw(p) PROVE QInv'
  BY <1>2 DEF Freeze, Thaw, QInv, NobodySuspended
<1>3. ASSUME NEW n \in Numbers, AgeTicket(n) PROVE QInv'
  <2> USE DEF QInv
  <2>1. /\ tickets' = [tickets EXCEPT ![n].aged = TRUE] /\ tickets[n] \in Ticket
        /\ tickets \in [Numbers -> Ticket \cup {NoTicket}]
    BY <1>3 DEF AgeTicket, TypeOK
  <2>2. UNCHANGED <<status, pc, number, lost, scan, arrivals, before>>
    BY <1>3 DEF AgeTicket
  <2>3. NobodySuspended' /\ SightedBelow' /\ LooksAhead'
    BY <2>2 DEF NobodySuspended, SightedBelow, LooksAhead, Waits
  <2>4. TicketHeld'
    <3>1. \A p \in Proc : pc[p] \in Queued => tickets'[number[p]] = tickets[number[p]]
      <4> SUFFICES ASSUME NEW p \in Proc, pc[p] \in Queued
                   PROVE  tickets'[number[p]] = tickets[number[p]]
        OBVIOUS
      <4>1. number[p] # n
        BY <1>3, Held DEF AgeTicket
      <4> QED
        BY <2>1, <4>1, Held
    <3> QED
      BY <2>2, <3>1 DEF TicketHeld, BelongsTo
  <2>5. CallsPast'
    <3>1. ASSUME NEW k \in Present'
          PROVE  k \in Present /\ tickets'[k].owner = tickets[k].owner /\ tickets'[k].call = tickets[k].call
      <4>1. k \in Numbers /\ tickets[k] # NoTicket
        BY <1>3, <2>1, <3>1 DEF Present, AgeTicket
      <4>2. tickets'[k] \in {tickets[k], [tickets[k] EXCEPT !.aged = TRUE]} /\ tickets[k] \in Ticket
        BY <2>1, <4>1
      <4> QED
        BY <4>1, <4>2 DEF Present, Ticket
    <3> QED
      BY <2>2, <3>1 DEF CallsPast, Earlier
  <2> QED
    BY <1>0, <2>3, <2>4, <2>5
<1>4. CASE UNCHANGED vars
  BY <1>0, <1>4 DEF vars, QInv, NobodySuspended, TicketHeld, BelongsTo, CallsPast, Present, Earlier,
                    SightedBelow, LooksAhead, Waits
<1> QED
  BY <1>1, <1>2, <1>3, <1>4 DEF Next, Clock

LEMMA QueueInvariant ==
  ASSUME FreezeAt = {}
  PROVE  Spec => []QInv
<1>1. QInv /\ [Next]_vars => QInv'
  BY QInvStep
<1> QED
  BY QInvInit, <1>1, PTL DEF Spec

\* As long as nobody is suspended, whoever waits has its own ticket on disk, whatever
\* crashes and whatever fails (takeTicket, dropTicket, liveTicketsAhead).
THEOREM WaitersVisible ==
  ASSUME FreezeAt = {}
  PROVE  Spec => []Visible
<1>1. QInv => Visible
  <2> SUFFICES ASSUME QInv, NEW p \in Proc, pc[p] \in WaitPcs PROVE Bears(number[p], p)
    BY DEF Visible
  <2>1. pc[p] \in Queued /\ pc[p] # "stamp"
    BY DEF Queued, WaitPcs
  <2> QED
    BY <2>1 DEF QInv, TicketHeld, Bears
<1> QED
  BY <1>1, QueueInvariant, PTL

\* As long as nobody is suspended, the lock is handed over in the order of the tickets:
\* nobody takes it before one that it saw waiting (acquire, liveTicketsAhead).
THEOREM TicketOrder ==
  ASSUME FreezeAt = {}
  PROVE  Spec => NoOvertaking
<1>1. QInv /\ [Next]_vars =>
        [\A q \in Proc :
           (lock # q /\ lock' = q) =>
             \A t \in before[q] :
               ~(BelongsTo(t[1], t[2]) /\ Tended(t[1]) /\ arrivals[t[2]] = t[3])]_vars
  <2> SUFFICES ASSUME QInv, [Next]_vars, NEW q \in Proc, lock # q, lock' = q, NEW t \in before[q],
                      BelongsTo(t[1], t[2]), Tended(t[1]), arrivals[t[2]] = t[3]
               PROVE  FALSE
    OBVIOUS
  <2> USE DEF QInv
  <2>1. At(q, "fast") \/ At(q, "try")
    BY LockQueueAssumption
       DEF Next, Clock, AgeTicket, Freeze, Thaw, vars, Arrive, GiveUp, QueueStep, RefreshTicket, Crash,
           Exit, ListQueue, TryFast, ReadNumbers, CreateTicket, StampTicket, Poll, ReadAhead, RemoveOrphan,
           TryLock, JudgeLock, DropTicket, UnlinkTicket, Release
  <2>2. pc[q] # "fast"
    BY DEF SightedBelow, Unsighted
  <2>3. Waits(t)
    BY DEF Waits, Tended, BelongsTo, Queued
  <2> QED
    BY <2>1, <2>2, <2>3 DEF LooksAhead, At
<1> QED
  BY <1>1, QueueInvariant, PTL DEF Spec, NoOvertaking
===============================================================================
