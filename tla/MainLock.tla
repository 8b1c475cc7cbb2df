------------------------------- MODULE MainLock -------------------------------
(***************************************************************************)
(* The inter-process lock of the main repository (src/src/lock.ts):         *)
(* `file' is .striart/main.lock, created with 'wx', stamped with a token,   *)
(* kept fresh by a heartbeat, broken under the break lock when it is judged *)
(* stale, unlinked by its owner only after its token was read again.        *)
(*                                                                          *)
(* The waiting queue that orders the attempts is the module LockQueue: here *)
(* any process may attempt the 'wx' at any time, which covers every order.  *)
(***************************************************************************)
EXTENDS BreakLock

CONSTANTS
  Nobody,       \* no process
  BreakFrozen,  \* lock.breakFrozenHolderAfterMs is set (it is null by default)
  MayGiveUp     \* a wait may end before the lock is obtained

VARIABLE
  pc            \* process -> where it stands in withMainLock

lvars == <<status, file, judged, bvars, pc>>

\* Points of withMainLock where the process believes it holds main.lock.
SectionPcs == {"in", "effect", "leave", "unlink"}
PCs == {"out", "create", "write", "unwrite", "judge", "break"} \cup SectionPcs

TypeOK ==
  /\ BreakTypeOK
  /\ pc \in [Proc -> PCs]

LockInit ==
  /\ BreakInit
  /\ file \in {NoFile} \cup Debris({"write"}, SectionPcs)
  /\ DistinctOwners(file, breakFile)
  /\ DistinctOwners(file, marker)
  /\ pc = [p \in Proc |-> "out"]

\* The program point of p, in the break lock or outside.
Point(p) == IF bpc[p] = "idle" THEN pc[p] ELSE bpc[p]

Here(p, l) == Up(p) /\ pc[p] = l
Move(p, l) == pc' = [pc EXCEPT ![p] = l]

-----------------------------------------------------------------------------
(* acquire.                                                                 *)

Enter(p) ==
  /\ Here(p, "out")
  /\ Move(p, "create")
  /\ UNCHANGED <<status, file, judged, bvars>>

\* The deadline is over, the caller aborted, or a call failed with LOCK_IO_FAILED.
GiveUp(p) ==
  /\ Here(p, "create")
  /\ MayGiveUp
  /\ Move(p, "out")
  /\ UNCHANGED <<status, file, judged, bvars>>

\* tryCreateLock: open(file, 'wx').
TryCreate(p) ==
  /\ Here(p, "create")
  /\ IF file = NoFile
     THEN file' = Created(p) /\ Move(p, "write")
     ELSE Move(p, "judge") /\ UNCHANGED file
  /\ UNCHANGED <<status, judged, bvars>>

\* tryCreateLock: the record is written through the handle.
WriteLock(p) ==
  /\ Here(p, "write")
  /\ \/ /\ file' = IF OwnedBy(file, p) THEN Stamped(file) ELSE file
        /\ Move(p, "in")
     \/ Fails("write") /\ Move(p, "unwrite") /\ UNCHANGED file
  /\ UNCHANGED <<status, judged, bvars>>

\* tryCreateLock, its catch: "it is ours", no token is read.
UnwriteLock(p) ==
  /\ Here(p, "unwrite")
  /\ \/ file' = NoFile
     \/ Fails("unwrite") /\ UNCHANGED file
  /\ Move(p, "out")
  /\ UNCHANGED <<status, judged, bvars>>

\* Mutant: an expired heartbeat is enough.
StaleOnSilence(f) == f # NoFile /\ (f.aged \/ status[f.owner] = "dead")

\* Mutant: the policy on frozen holders is not looked up.
StaleIfDeadOnly(f) == f # NoFile /\ ~Live(f.owner)

\* judgeLock.
IsStale(f) ==
  /\ f # NoFile
  /\ IF f.written
     THEN \/ status[f.owner] = "dead"                              \* HOLDER_DEAD
          \/ f.aged /\ status[f.owner] = "recycled"                \* IDENTITY_FOREIGN
          \/ f.aged /\ Live(f.owner) /\ BreakFrozen                \* FROZEN_HOLDER_BROKEN
     ELSE f.aged                                                   \* INVALID_CONTENT

Judge(p) ==
  /\ Here(p, "judge")
  /\ \/ /\ IsStale(file)
        /\ judged' = [judged EXCEPT ![p] = file]
        /\ CallRemove(p)
        /\ Move(p, "break")
     \/ /\ \/ ~IsStale(file)                   \* freed meanwhile, HELD, HOLDER_FROZEN
           \/ Fails("judge")                   \* LOCK_UNREADABLE
        /\ Move(p, "create")
        /\ UNCHANGED <<judged, bvars>>
  /\ UNCHANGED <<status, file>>

\* removeIfUnchanged came back: attempt again, at once or after a poll.
AfterRemove(p) ==
  /\ Here(p, "break")
  /\ bpc[p] = "idle"
  /\ Move(p, IF outcome[p] = "error" THEN "out" ELSE "create")
  /\ judged' = [judged EXCEPT ![p] = NoFile]
  /\ outcome' = [outcome EXCEPT ![p] = "none"]
  /\ UNCHANGED <<status, file, breakFile, marker, bpc, attempt, seen>>

-----------------------------------------------------------------------------
(* The section, and releaseLock.                                            *)

\* beat: the file is freshened while it bears our token.
Heartbeat(p) ==
  /\ Up(p)
  /\ pc[p] \in {"in", "effect"}
  /\ Bears(file, p)
  /\ file.aged
  /\ file' = Stamped(file)
  /\ UNCHANGED <<status, judged, bvars, pc>>

\* assertMainLockHeld: the token is read again, else LOCK_LOST ends the section.
AssertHeld(p) ==
  /\ Here(p, "in")
  /\ \/ Bears(file, p) /\ Move(p, "effect")
     \/ (~Bears(file, p) \/ Fails("in")) /\ Move(p, "leave")
  /\ UNCHANGED <<status, file, judged, bvars>>

\* The irreversible effect the assertion guards.
Effect(p) ==
  /\ Here(p, "effect")
  /\ Move(p, "in")
  /\ UNCHANGED <<status, file, judged, bvars>>

Leave(p) ==
  /\ Here(p, "in")
  /\ Move(p, "leave")
  /\ UNCHANGED <<status, file, judged, bvars>>

\* releaseLock: read the token, then unlink the path.
ReadToken(p) ==
  /\ Here(p, "leave")
  /\ \/ Bears(file, p) /\ Move(p, "unlink")
     \/ (~Bears(file, p) \/ Fails("leave")) /\ Move(p, "out")
  /\ UNCHANGED <<status, file, judged, bvars>>

Unlink(p) ==
  /\ Here(p, "unlink")
  /\ \/ file' = NoFile
     \/ Fails("unlink") /\ UNCHANGED file
  /\ Move(p, "out")
  /\ UNCHANGED <<status, judged, bvars>>

LockStep(p) ==
  \/ TryCreate(p) \/ WriteLock(p) \/ UnwriteLock(p) \/ Judge(p) \/ AfterRemove(p)
  \/ Heartbeat(p) \/ AssertHeld(p) \/ Effect(p) \/ Leave(p) \/ ReadToken(p) \/ Unlink(p)
  \/ (BreakStep(p) /\ UNCHANGED pc)

-----------------------------------------------------------------------------
(* Faults of processes, and the clock.                                      *)

\* What p remembered is gone with it.
Forget(p) ==
  /\ status' = [status EXCEPT ![p] = "dead"]
  /\ pc' = [pc EXCEPT ![p] = "out"]
  /\ Return(p, "none")
  /\ judged' = [judged EXCEPT ![p] = NoFile]

\* process.exit: the 'exit' listener unlinks the files of ownedFiles that bear
\* our token (synchronous: no other code of this process runs in between).
Exit(p) ==
  /\ Up(p)
  /\ {"exit", Point(p)} \subseteq CrashAt
  /\ Forget(p)
  /\ file' = IF Bears(file, p) THEN NoFile ELSE file
  /\ breakFile' = IF Bears(breakFile, p) /\ bpc[p] \in {"compare", "rm"} THEN NoFile ELSE breakFile
  /\ UNCHANGED marker

\* Killed: nothing is cleaned.
Crash(p) ==
  /\ Live(p)
  /\ Point(p) \in CrashAt
  /\ Forget(p)
  /\ UNCHANGED <<file, breakFile, marker>>

\* The system gives the PID of p to another program.
Recycle(p) ==
  /\ "recycled" \in CrashAt
  /\ status[p] = "dead"
  /\ status' = [status EXCEPT ![p] = "recycled"]
  /\ UNCHANGED <<file, judged, bvars, pc>>

\* SIGSTOP, a debugger, a sleeping machine; and back.
Freeze(p) ==
  /\ Up(p)
  /\ Point(p) \in FreezeAt
  /\ status' = [status EXCEPT ![p] = "frozen"]
  /\ UNCHANGED <<file, judged, bvars, pc>>

Thaw(p) ==
  /\ status[p] = "frozen"
  /\ status' = [status EXCEPT ![p] = "up"]
  /\ UNCHANGED <<file, judged, bvars, pc>>

\* main.lock gets old unless its owner runs, about to write it or beating.
AgeLock ==
  /\ file # NoFile
  /\ ~file.aged
  /\ ~(Up(file.owner) /\ pc[file.owner] \in {"write", "unwrite"} \cup SectionPcs)
  /\ file' = Aged(file)
  /\ UNCHANGED <<status, judged, bvars, pc>>

Clock == AgeLock \/ ((AgeBreak \/ AgeMarker) /\ UNCHANGED pc)

Fault(p) == Exit(p) \/ Crash(p) \/ Recycle(p) \/ Freeze(p) \/ Thaw(p)

Next ==
  \/ \E p \in Proc : Enter(p) \/ GiveUp(p) \/ LockStep(p) \/ Fault(p)
  \/ Clock

Spec == LockInit /\ [][Next]_lvars

(* What the system schedules: a process that runs is never starved of its   *)
(* own next call, and time passes.  A suspended process may never wake up.  *)
Fairness ==
  /\ \A p \in Proc \ Ghost : WF_lvars(LockStep(p))
  /\ WF_lvars(Clock)

FairSpec == Spec /\ Fairness

-----------------------------------------------------------------------------
(* Properties.                                                              *)

\* p runs inside withMainLock, between the creation of main.lock and its release.
Inside(p) == Live(p) /\ pc[p] \in SectionPcs

\* Two processes are never inside the section of the main lock together
\* (withMainLock: everything that touches the main repository relies on it).
MutualExclusion == \A p, q \in Proc : Inside(p) /\ Inside(q) => p = q

\* At most one process at a time runs the compare-and-remove under the break
\* lock (break-lock.ts: "une seule cassure a la fois, tous process confondus").
OneBreaker ==
  \A p, q \in Proc :
    Live(p) /\ Live(q) /\ bpc[p] \in {"compare", "rm"} /\ bpc[q] \in {"compare", "rm"} => p = q

\* A main.lock is broken only when its holder is gone: while the process that
\* created it lives and counts on it, it leaves the path only by that process's
\* own release, exit or death (lock.ts: "un verrou present n'est casse que sur
\* preuve que son detenteur n'existe plus").
BrokenOnProof ==
  [][\A p \in Proc :
       /\ OwnedBy(file, p) /\ Live(p) /\ pc[p] \in {"write"} \cup SectionPcs
       /\ ~OwnedBy(file', p)
       => pc[p] = "unlink" \/ status'[p] = "dead"]_lvars

\* A removal reported done is done, whatever failed and whoever raced: the
\* written lock that was judged is not at the path (break-lock.ts: "un echec de
\* suppression n'est jamais pris pour un succes").
RemovedMeansGone ==
  \A p \in Proc :
    /\ Up(p) /\ pc[p] = "break" /\ bpc[p] = "idle"
    /\ outcome[p] = "removed" /\ judged[p].written
    => ~SameFile(file, judged[p])

Waiting(p) == Live(p) /\ pc[p] \in {"create", "judge", "break"}

\* Whatever a dead process left, in main.lock, in the break lock or in the
\* reclaim marker, those who wait get somebody into the section in the end.
Progress ==
  (\E p \in Proc : Waiting(p)) ~> ((\E p \in Proc : Inside(p)) \/ ~\E p \in Proc : Waiting(p))

HeldByFrozen == file # NoFile /\ file.written /\ status[file.owner] = "frozen"

\* With lock.breakFrozenHolderAfterMs set, a holder suspended for good does not
\* keep its waiters out for ever.
FrozenBroken == HeldByFrozen ~> (~HeldByFrozen \/ ~\E p \in Proc : Waiting(p))

(* Refinement: the section as one abstract lock. *)
Holder == IF \E p \in Proc : Inside(p) THEN CHOOSE p \in Proc : Inside(p) ELSE Nobody
Abstract == INSTANCE AbstractLock WITH holder <- Holder

\* The protocol on the three files implements one lock held by one process: it
\* is never handed from one holder to another without having been free.
ImplementsLock == Abstract!Spec
=============================================================================
