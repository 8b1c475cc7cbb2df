---------------------------- MODULE MainLock_proofs ----------------------------
(***************************************************************************)
(* The safety of the main lock, for every set of processes and of debris:   *)
(* type correctness and the truth of a reported removal whatever crashes,   *)
(* is suspended or fails; mutual exclusion, a single breaker, no lock       *)
(* broken under a live holder, and the refinement of AbstractLock.          *)
(*                                                                          *)
(* The last four rest on one inductive invariant, IInv: the three files     *)
(* belong to the processes that count on them, and what a breaker or a      *)
(* reclaimer is about to remove belongs to a process that is gone.          *)
(***************************************************************************)
EXTENDS MainLock, TLAPS

\* An attempt is under way: the third one is the last.
AttemptInv == \A p \in Proc : bpc[p] \notin {"idle", "take"} => attempt[p] < BreakTakeAttempts

TypeInv == TypeOK /\ AttemptInv

-----------------------------------------------------------------------------
\* A file just created, written, or grown old is a file.
LEMMA FileTypes ==
  /\ NoFile \notin File
  /\ \A p \in Proc : Created(p) \in File
  /\ \A f \in File : Stamped(f) \in File /\ Aged(f) \in File /\ f.owner \in Proc
  /\ \A f \in File \cup {NoFile} : Raw(f) \in Proc \cup {Empty, NoFile}
BY BreakLockAssumption DEF File, Created, Stamped, Aged, Raw

LEMMA FileFields ==
  /\ \A p \in Proc : Created(p).owner = p /\ ~Created(p).written /\ ~Created(p).aged
  /\ \A f \in File :
       /\ Stamped(f).owner = f.owner /\ Stamped(f).written /\ ~Stamped(f).aged
       /\ Aged(f).owner = f.owner /\ Aged(f).written = f.written /\ Aged(f).aged
BY DEF File, Created, Stamped, Aged

USE BreakLockAssumption
    DEF Statuses, BPcs, BreakPcs, ReclaimPcs, OrphanPcs, Outcomes,
        PCs, SectionPcs, BreakTakeAttempts, Fails

\* One step is a step of one process or of the clock.
LEMMA NextCases ==
  ASSUME Next
  PROVE  \/ \E p \in Proc :
              \/ Enter(p) \/ GiveUp(p)
              \/ TryCreate(p) \/ WriteLock(p) \/ UnwriteLock(p) \/ Judge(p) \/ AfterRemove(p)
              \/ Heartbeat(p) \/ AssertHeld(p) \/ Effect(p) \/ Leave(p) \/ ReadToken(p) \/ Unlink(p)
              \/ BreakStep(p) /\ UNCHANGED pc
              \/ Exit(p) \/ Crash(p) \/ Recycle(p) \/ Freeze(p) \/ Thaw(p)
         \/ AgeLock
         \/ AgeBreak /\ UNCHANGED pc
         \/ AgeMarker /\ UNCHANGED pc
BY DEF Next, LockStep, Fault, Clock

(* Every variable keeps its type, whatever fails. *)
LEMMA TypeInit == LockInit => TypeInv
BY DEF LockInit, BreakInit, TypeInv, TypeOK, AttemptInv, BreakTypeOK, Debris

LEMMA TypeBreak ==
  ASSUME TypeInv, NEW p \in Proc, BreakStep(p), UNCHANGED pc
  PROVE  TypeInv'
<1> USE DEF TypeInv, TypeOK, AttemptInv, BreakTypeOK, At, Goto, Return, Retry
<1>1. CASE TakeBreak(p)
  BY <1>1, FileTypes DEF TakeBreak
<1>2. CASE InspectBreak(p)
  BY <1>2, FileTypes DEF InspectBreak, IsBreakLockDebris
<1>3. CASE MarkReclaim(p)
  BY <1>3, FileTypes DEF MarkReclaim
<1>4. CASE StampMarker(p)
  BY <1>4, FileTypes DEF StampMarker, OwnedBy
<1>5. CASE RecheckBreak(p)
  BY <1>5, FileTypes DEF RecheckBreak
<1>6. CASE RemoveBreakDebris(p)
  BY <1>6, FileTypes DEF RemoveBreakDebris
<1>7. CASE Unmark(p)
  BY <1>7, FileTypes DEF Unmark
<1>8. CASE ReadMarker(p)
  BY <1>8, FileTypes DEF ReadMarker, IsOrphanMarker, PidAlive
<1>9. CASE RecheckMarker(p)
  BY <1>9, FileTypes DEF RecheckMarker
<1>10. CASE RemoveMarker(p)
  BY <1>10, FileTypes DEF RemoveMarker
<1>11. CASE StampBreak(p)
  BY <1>11, FileTypes DEF StampBreak, OwnedBy
<1>12. CASE Compare(p)
  BY <1>12, FileTypes DEF Compare, SameFile
<1>13. CASE RemoveFile(p)
  BY <1>13, FileTypes DEF RemoveFile
<1>14. CASE DropBreak(p)
  BY <1>14, FileTypes DEF DropBreak, Bears, OwnedBy
<1>15. CASE UnlinkBreak(p)
  BY <1>15, FileTypes DEF UnlinkBreak
<1> QED
  BY <1>1, <1>2, <1>3, <1>4, <1>5, <1>6, <1>7, <1>8, <1>9, <1>10, <1>11, <1>12, <1>13, <1>14, <1>15 DEF BreakStep

LEMMA TypeNext == TypeInv /\ [Next]_lvars => TypeInv'
<1> SUFFICES ASSUME TypeInv, [Next]_lvars PROVE TypeInv'
  OBVIOUS
<1> USE DEF Here, Move, Up
<1>1. CASE UNCHANGED lvars
  BY <1>1 DEF lvars, bvars, TypeInv, TypeOK, AttemptInv, BreakTypeOK
<1>2. ASSUME NEW p \in Proc, BreakStep(p) /\ UNCHANGED pc PROVE TypeInv'
  BY <1>2, TypeBreak
<1>3. ASSUME NEW p \in Proc, Enter(p) PROVE TypeInv'
  BY <1>3, FileTypes DEF Enter, TypeInv, TypeOK, AttemptInv, BreakTypeOK, bvars
<1>4. ASSUME NEW p \in Proc, GiveUp(p) PROVE TypeInv'
  BY <1>4, FileTypes DEF GiveUp, TypeInv, TypeOK, AttemptInv, BreakTypeOK, bvars
<1>5. ASSUME NEW p \in Proc, TryCreate(p) PROVE TypeInv'
  BY <1>5, FileTypes DEF TryCreate, TypeInv, TypeOK, AttemptInv, BreakTypeOK, bvars
<1>6. ASSUME NEW p \in Proc, WriteLock(p) PROVE TypeInv'
  BY <1>6, FileTypes DEF WriteLock, TypeInv, TypeOK, AttemptInv, BreakTypeOK, bvars, OwnedBy
<1>7. ASSUME NEW p \in Proc, UnwriteLock(p) PROVE TypeInv'
  BY <1>7, FileTypes DEF UnwriteLock, TypeInv, TypeOK, AttemptInv, BreakTypeOK, bvars
<1>8. ASSUME NEW p \in Proc, Judge(p) PROVE TypeInv'
  BY <1>8, FileTypes DEF Judge, TypeInv, TypeOK, AttemptInv, BreakTypeOK, bvars, CallRemove, Goto
<1>9. ASSUME NEW p \in Proc, AfterRemove(p) PROVE TypeInv'
  BY <1>9, FileTypes DEF AfterRemove, TypeInv, TypeOK, AttemptInv, BreakTypeOK, bvars
<1>10. ASSUME NEW p \in Proc, Heartbeat(p) PROVE TypeInv'
  BY <1>10, FileTypes DEF Heartbeat, TypeInv, TypeOK, AttemptInv, BreakTypeOK, bvars, Bears, OwnedBy
<1>11. ASSUME NEW p \in Proc, AssertHeld(p) PROVE TypeInv'
  BY <1>11, FileTypes DEF AssertHeld, TypeInv, TypeOK, AttemptInv, BreakTypeOK, bvars
<1>12. ASSUME NEW p \in Proc, Effect(p) PROVE TypeInv'
  BY <1>12, FileTypes DEF Effect, TypeInv, TypeOK, AttemptInv, BreakTypeOK, bvars
<1>13. ASSUME NEW p \in Proc, Leave(p) PROVE TypeInv'
  BY <1>13, FileTypes DEF Leave, TypeInv, TypeOK, AttemptInv, BreakTypeOK, bvars
<1>14. ASSUME NEW p \in Proc, ReadToken(p) PROVE TypeInv'
  BY <1>14, FileTypes DEF ReadToken, TypeInv, TypeOK, AttemptInv, BreakTypeOK, bvars
<1>15. ASSUME NEW p \in Proc, Unlink(p) PROVE TypeInv'
  BY <1>15, FileTypes DEF Unlink, TypeInv, TypeOK, AttemptInv, BreakTypeOK, bvars
<1>16. ASSUME NEW p \in Proc, Exit(p) PROVE TypeInv'
  BY <1>16, FileTypes DEF Exit, TypeInv, TypeOK, AttemptInv, BreakTypeOK, bvars, Forget, Return, Goto
<1>17. ASSUME NEW p \in Proc, Crash(p) PROVE TypeInv'
  BY <1>17, FileTypes DEF Crash, TypeInv, TypeOK, AttemptInv, BreakTypeOK, bvars, Forget, Return, Goto
<1>18. ASSUME NEW p \in Proc, Recycle(p) PROVE TypeInv'
  BY <1>18, FileTypes DEF Recycle, TypeInv, TypeOK, AttemptInv, BreakTypeOK, bvars
<1>19. ASSUME NEW p \in Proc, Freeze(p) PROVE TypeInv'
  BY <1>19, FileTypes DEF Freeze, TypeInv, TypeOK, AttemptInv, BreakTypeOK, bvars
<1>20. ASSUME NEW p \in Proc, Thaw(p) PROVE TypeInv'
  BY <1>20, FileTypes DEF Thaw, TypeInv, TypeOK, AttemptInv, BreakTypeOK, bvars
<1>21. CASE AgeLock
  BY <1>21, FileTypes DEF AgeLock, TypeInv, TypeOK, AttemptInv, BreakTypeOK, bvars
<1>22. CASE AgeBreak /\ UNCHANGED pc
  BY <1>22, FileTypes DEF AgeBreak, TypeInv, TypeOK, AttemptInv, BreakTypeOK, bvars
<1>23. CASE AgeMarker /\ UNCHANGED pc
  BY <1>23, FileTypes DEF AgeMarker, TypeInv, TypeOK, AttemptInv, BreakTypeOK, bvars
<1> QED
  BY <1>1, <1>2, <1>3, <1>4, <1>5, <1>6, <1>7, <1>8, <1>9, <1>10, <1>11, <1>12, <1>13, <1>14, <1>15, <1>16, <1>17, <1>18, <1>19, <1>20, <1>21, <1>22, <1>23, NextCases

(* The variables of the main lock and of the break lock keep their types.   *)
THEOREM TypeCorrect == Spec => []TypeOK
<1> TypeInv => TypeOK
  BY DEF TypeInv
<1> QED
  BY TypeInit, TypeNext, PTL DEF Spec
HIDE BreakLockAssumption
     DEF Statuses, BPcs, BreakPcs, ReclaimPcs, OrphanPcs, Outcomes,
         PCs, SectionPcs, BreakTakeAttempts, Fails

-----------------------------------------------------------------------------
\* The faults the three-file protocol withstands.
Sheltered ==
  /\ CrashAt \cap ({"stamp"} \cup ReclaimPcs) = {}
  /\ FreezeAt \cap {"write", "unwrite", "stamp", "markStamp"} = {}
  /\ FailAt \cap {"stamp", "markStamp", "unmark"} = {}
  /\ BreakFrozen = FALSE

\* The two program counters agree, and a dead process is nowhere.
ControlInv ==
  \A p \in Proc :
    /\ bpc[p] # "idle" => pc[p] = "break"
    /\ ~Live(p) => pc[p] = "out" /\ bpc[p] = "idle"
    /\ pc[p] \in {"write", "unwrite"} => Up(p)
    /\ bpc[p] \in {"stamp", "markStamp"} => Up(p)

\* The file of a process that counts on main.lock is at the path.
HolderInv ==
  \A p \in Proc :
    /\ pc[p] \in {"write", "unwrite"} => OwnedBy(file, p) /\ ~file.written /\ ~file.aged
    /\ pc[p] \in SectionPcs => Bears(file, p)

\* The same for the break lock: no empty one is ever left behind.
BreakerInv ==
  /\ \A p \in Proc :
       /\ bpc[p] = "stamp" => OwnedBy(breakFile, p) /\ ~breakFile.written
       /\ bpc[p] \in BreakPcs \ {"stamp"} => Bears(breakFile, p)
  /\ breakFile # NoFile /\ ~breakFile.written =>
       bpc[breakFile.owner] = "stamp" /\ ~breakFile.aged

\* The same for the marker, which never outlives its owner.
MarkerInv ==
  /\ \A p \in Proc :
       /\ bpc[p] = "markStamp" => OwnedBy(marker, p)
       /\ bpc[p] \in ReclaimPcs \ {"markStamp"} => Bears(marker, p)
       /\ bpc[p] \notin {"orphanCheck", "orphanRm"}
  /\ marker # NoFile => /\ bpc[marker.owner] \in ReclaimPcs
                        /\ ~marker.written => bpc[marker.owner] = "markStamp" /\ ~marker.aged

\* What a reclaimer is about to remove belongs to a process that is gone.
ReclaimInv ==
  \A p \in Proc :
    /\ bpc[p] \in {"mark", "markStamp", "recheck", "rmBreak"} => seen[p] \in Proc /\ ~Live(seen[p])
    /\ bpc[p] = "rmBreak" => Bears(breakFile, seen[p])

\* So does what a breaker is about to remove, unless it is an old empty file.
RemovalInv ==
  \A p \in Proc :
    /\ bpc[p] # "idle" => /\ judged[p] # NoFile
                          /\ judged[p].written => ~Live(judged[p].owner)
                          /\ ~judged[p].written => judged[p].aged
    /\ bpc[p] = "rm" => SameFile(file, judged[p])

IInv == /\ TypeInv
        /\ ControlInv
        /\ HolderInv
        /\ BreakerInv
        /\ MarkerInv
        /\ ReclaimInv
        /\ RemovalInv
-----------------------------------------------------------------------------
(* Frames: who changes what.                                                *)

Step(p) == Enter(p) \/ GiveUp(p) \/ LockStep(p) \/ Fault(p)

LEMMA StepCases ==
  ASSUME Next
  PROVE  (\E p \in Proc : Step(p)) \/ Clock
BY DEF Next, Step

\* Only p's own control moves in a step of p.
LEMMA Locals ==
  ASSUME TypeInv, NEW p \in Proc, Step(p), NEW q \in Proc, q # p
  PROVE  /\ status'[q] = status[q] /\ pc'[q] = pc[q] /\ bpc'[q] = bpc[q]
         /\ seen'[q] = seen[q] /\ judged'[q] = judged[q] /\ outcome'[q] = outcome[q]
<1> USE DEF Goto, Return, Retry, Move
<1>0. /\ status \in [Proc -> Statuses] /\ pc \in [Proc -> PCs] /\ bpc \in [Proc -> BPcs]
      /\ seen \in [Proc -> Proc \cup {Empty, NoFile}] /\ judged \in [Proc -> File \cup {NoFile}]
      /\ outcome \in [Proc -> Outcomes]
  BY DEF TypeInv, TypeOK, BreakTypeOK
<1>1. CASE TakeBreak(p) /\ UNCHANGED pc
  BY <1>0, <1>1 DEF TakeBreak
<1>2. CASE InspectBreak(p) /\ UNCHANGED pc
  BY <1>0, <1>2 DEF InspectBreak
<1>3. CASE (MarkReclaim(p) \/ StampMarker(p) \/ RecheckBreak(p) \/ RemoveBreakDebris(p)) /\ UNCHANGED pc
  BY <1>0, <1>3 DEF MarkReclaim, StampMarker, RecheckBreak, RemoveBreakDebris
<1>4. CASE (Unmark(p) \/ ReadMarker(p) \/ RecheckMarker(p) \/ RemoveMarker(p)) /\ UNCHANGED pc
  BY <1>0, <1>4 DEF Unmark, ReadMarker, RecheckMarker, RemoveMarker
<1>5. CASE (StampBreak(p) \/ Compare(p) \/ RemoveFile(p) \/ DropBreak(p) \/ UnlinkBreak(p)) /\ UNCHANGED pc
  BY <1>0, <1>5 DEF StampBreak, Compare, RemoveFile, DropBreak, UnlinkBreak
<1>6. CASE Enter(p) \/ GiveUp(p) \/ TryCreate(p) \/ WriteLock(p) \/ UnwriteLock(p)
  BY <1>0, <1>6 DEF Enter, GiveUp, TryCreate, WriteLock, UnwriteLock, bvars
<1>7. CASE Judge(p) \/ AfterRemove(p) \/ Heartbeat(p) \/ AssertHeld(p) \/ Effect(p)
  BY <1>0, <1>7 DEF Judge, AfterRemove, Heartbeat, AssertHeld, Effect, CallRemove, bvars
<1>8. CASE Leave(p) \/ ReadToken(p) \/ Unlink(p) \/ Exit(p) \/ Crash(p)
  BY <1>0, <1>8 DEF Leave, ReadToken, Unlink, Exit, Crash, Forget, bvars
<1>9. CASE Recycle(p) \/ Freeze(p) \/ Thaw(p)
  BY <1>0, <1>9 DEF Recycle, Freeze, Thaw, bvars
<1> QED
  BY <1>1, <1>2, <1>3, <1>4, <1>5, <1>6, <1>7, <1>8, <1>9 DEF Step, LockStep, BreakStep, Fault

\* A process that takes a step but is not reborn: the dead stay dead.
LEMMA DeadStays ==
  ASSUME TypeInv, NEW p \in Proc, Step(p), NEW r \in Proc, ~Live(r)
  PROVE  ~Live(r)'
<1>0. status \in [Proc -> Statuses]
  BY DEF TypeInv, TypeOK, BreakTypeOK
<1>1. CASE r # p
  BY <1>1, Locals DEF Live
<1>2. CASE r = p
  <2>1. CASE Exit(p) \/ Crash(p) \/ Recycle(p)
    BY <1>0, <1>2, <2>1 DEF Exit, Crash, Recycle, Forget, Live
  <2>2. CASE Freeze(p) \/ Thaw(p)
    BY <1>2, <2>2 DEF Freeze, Thaw, Up, Live
  <2>3. CASE UNCHANGED status
    BY <2>3 DEF Live
  <2> QED
    BY <2>1, <2>2, <2>3 DEF Step, LockStep, BreakStep, Fault,
       TakeBreak, InspectBreak, MarkReclaim, StampMarker, RecheckBreak, RemoveBreakDebris, Unmark,
       ReadMarker, RecheckMarker, RemoveMarker, StampBreak, Compare, RemoveFile, DropBreak, UnlinkBreak,
       Enter, GiveUp, TryCreate, WriteLock, UnwriteLock, Judge, AfterRemove, Heartbeat, AssertHeld,
       Effect, Leave, ReadToken, Unlink
<1> QED
  BY <1>1, <1>2

\* Who writes each of the three files.
LEMMA Writers ==
  ASSUME NEW p \in Proc, Step(p)
  PROVE  /\ \/ file' = file \/ TryCreate(p) \/ WriteLock(p) \/ UnwriteLock(p)
            \/ Heartbeat(p) \/ Unlink(p) \/ RemoveFile(p) \/ Exit(p)
         /\ \/ breakFile' = breakFile \/ TakeBreak(p) \/ StampBreak(p)
            \/ RemoveBreakDebris(p) \/ UnlinkBreak(p) \/ Exit(p)
         /\ \/ marker' = marker \/ MarkReclaim(p) \/ StampMarker(p)
            \/ Unmark(p) \/ RemoveMarker(p)
<1>1. CASE Enter(p) \/ GiveUp(p) \/ (LockStep(p) /\ ~BreakStep(p))
  BY <1>1 DEF LockStep, Enter, GiveUp, TryCreate, WriteLock, UnwriteLock, Judge, AfterRemove,
     Heartbeat, AssertHeld, Effect, Leave, ReadToken, Unlink, CallRemove, bvars
<1>2. CASE BreakStep(p)
  BY <1>2 DEF BreakStep, TakeBreak, InspectBreak, MarkReclaim, StampMarker, RecheckBreak,
     RemoveBreakDebris, Unmark, ReadMarker, RecheckMarker, RemoveMarker, StampBreak, Compare,
     RemoveFile, DropBreak, UnlinkBreak
<1>3. CASE Fault(p)
  BY <1>3 DEF Fault, Exit, Crash, Recycle, Freeze, Thaw, bvars
<1> QED
  BY <1>1, <1>2, <1>3 DEF Step, LockStep
-----------------------------------------------------------------------------
(* Interference: what a step of p may do to the files q counts on.          *)

Counts(q) == pc[q] \in {"write", "unwrite"} \cup SectionPcs

\* The fields of a file.
LEMMA Fields ==
  ASSUME NEW f \in File
  PROVE  f # NoFile /\ f.owner \in Proc /\ f.written \in BOOLEAN /\ f.aged \in BOOLEAN
BY BreakLockAssumption DEF File

LEMMA Owners ==
  ASSUME NEW f, NEW p, NEW q, OwnedBy(f, p), OwnedBy(f, q)
  PROVE  p = q
BY DEF OwnedBy

\* Whoever counts on main.lock, or holds the break lock, is alive.
LEMMA HolderLives ==
  ASSUME ControlInv, NEW q \in Proc, pc[q] # "out" \/ bpc[q] # "idle"
  PROVE  Live(q)
BY DEF ControlInv

LEMMA FileKept ==
  ASSUME IInv, NEW p \in Proc, Step(p), NEW q \in Proc, q # p, Counts(q)
  PROVE  file' = file
<1>1. OwnedBy(file, q) /\ Live(q) /\ file \in File
  <2>1. OwnedBy(file, q)
    BY DEF IInv, HolderInv, Counts, Bears
  <2> QED
    BY <2>1, HolderLives DEF IInv, Counts, OwnedBy, TypeInv, TypeOK, BreakTypeOK, SectionPcs
<1>2. ~OwnedBy(file, p)
  BY <1>1, Owners
<1>3. ~TryCreate(p) \/ file' = file
  BY <1>1 DEF TryCreate, OwnedBy
<1>4. ~WriteLock(p) \/ file' = file
  BY <1>2 DEF WriteLock
<1>5. ~UnwriteLock(p)
  BY <1>2 DEF UnwriteLock, Here, IInv, HolderInv
<1>6. ~Heartbeat(p)
  BY <1>2 DEF Heartbeat, Bears
<1>7. ~Unlink(p)
  BY <1>2 DEF Unlink, Here, IInv, HolderInv, Bears, SectionPcs
<1>8. ~RemoveFile(p)
  <2> SUFFICES ASSUME RemoveFile(p) PROVE FALSE
    OBVIOUS
  <2>1. bpc[p] = "rm"
    BY DEF RemoveFile, At
  <2>2. SameFile(file, judged[p]) /\ judged[p] # NoFile
    BY <2>1 DEF IInv, RemovalInv
  <2>3. judged[p] \in File
    BY <2>2 DEF IInv, TypeInv, TypeOK, BreakTypeOK
  <2>4. judged[p].owner = q /\ judged[p].written = file.written /\ (judged[p].aged => file.aged)
    BY <1>1, <2>2 DEF SameFile, OwnedBy
  <2>5. judged[p].written = TRUE => ~Live(q)
    BY <2>1, <2>4 DEF IInv, RemovalInv
  <2>6. judged[p].written = FALSE /\ judged[p].aged = TRUE
    BY <1>1, <2>1, <2>3, <2>5, Fields DEF IInv, RemovalInv
  <2>7. file.written = FALSE /\ file.aged = TRUE
    BY <1>1, <2>4, <2>6, Fields
  <2> QED
    BY <2>7 DEF IInv, HolderInv, Counts, Bears
<1>9. ~Exit(p) \/ file' = file
  BY <1>2 DEF Exit, Bears
<1> QED
  BY <1>3, <1>4, <1>5, <1>6, <1>7, <1>8, <1>9, Writers

LEMMA BreakKept ==
  ASSUME IInv, NEW p \in Proc, Step(p), NEW q \in Proc, q # p, bpc[q] \in BreakPcs
  PROVE  breakFile' = breakFile
<1>1. OwnedBy(breakFile, q) /\ Live(q)
  BY HolderLives DEF IInv, BreakerInv, Bears, BreakPcs
<1>2. ~OwnedBy(breakFile, p)
  BY <1>1, Owners
<1>3. ~TakeBreak(p) \/ breakFile' = breakFile
  BY <1>1 DEF TakeBreak, OwnedBy
<1>4. ~StampBreak(p) \/ breakFile' = breakFile
  BY <1>2 DEF StampBreak
<1>5. ~RemoveBreakDebris(p)
  <2> SUFFICES ASSUME RemoveBreakDebris(p) PROVE FALSE
    OBVIOUS
  <2>1. bpc[p] = "rmBreak"
    BY DEF RemoveBreakDebris, At
  <2>2. ~Live(seen[p]) /\ OwnedBy(breakFile, seen[p])
    BY <2>1 DEF IInv, ReclaimInv, Bears
  <2> QED
    BY <1>1, <2>2, Owners
<1>6. ~UnlinkBreak(p)
  BY <1>2 DEF UnlinkBreak, At, IInv, BreakerInv, Bears, BreakPcs
<1>7. ~Exit(p) \/ breakFile' = breakFile
  BY <1>2 DEF Exit, Bears
<1> QED
  BY <1>3, <1>4, <1>5, <1>6, <1>7, Writers

LEMMA MarkerKept ==
  ASSUME IInv, NEW p \in Proc, Step(p), NEW q \in Proc, q # p, bpc[q] \in ReclaimPcs
  PROVE  marker' = marker
<1>1. OwnedBy(marker, q)
  BY DEF IInv, MarkerInv, Bears, ReclaimPcs
<1>2. ~OwnedBy(marker, p)
  BY <1>1, Owners
<1>3. ~MarkReclaim(p) \/ marker' = marker
  BY <1>1 DEF MarkReclaim, OwnedBy
<1>4. ~StampMarker(p) \/ marker' = marker
  BY <1>2 DEF StampMarker
<1>5. ~Unmark(p)
  BY <1>2 DEF Unmark, At, IInv, MarkerInv, Bears, ReclaimPcs
<1>6. ~RemoveMarker(p)
  BY DEF RemoveMarker, At, IInv, MarkerInv
<1> QED
  BY <1>3, <1>4, <1>5, <1>6, Writers

\* A reclaimer about to remove a break lock is alone to touch it.
LEMMA DebrisKept ==
  ASSUME IInv, NEW p \in Proc, Step(p), NEW q \in Proc, q # p, bpc[q] = "rmBreak"
  PROVE  breakFile' = breakFile
<1>1. OwnedBy(breakFile, seen[q]) /\ ~Live(seen[q]) /\ OwnedBy(marker, q)
  BY DEF IInv, ReclaimInv, MarkerInv, Bears, ReclaimPcs
<1>2. ASSUME bpc[p] \in BreakPcs \/ Up(p) PROVE ~OwnedBy(breakFile, p)
  BY <1>1, <1>2, Owners, HolderLives DEF IInv, Live, Up, BreakPcs
<1>3. ~TakeBreak(p) \/ breakFile' = breakFile
  BY <1>1 DEF TakeBreak, OwnedBy
<1>4. ~StampBreak(p) \/ breakFile' = breakFile
  BY <1>2 DEF StampBreak, At
<1>5. ~RemoveBreakDebris(p)
  BY <1>1, Owners DEF RemoveBreakDebris, At, IInv, MarkerInv, Bears, ReclaimPcs
<1>6. ~UnlinkBreak(p)
  BY <1>2 DEF UnlinkBreak, At, IInv, BreakerInv, Bears, BreakPcs
<1>7. ~Exit(p) \/ breakFile' = breakFile
  BY <1>2 DEF Exit, Bears
<1> QED
  BY <1>3, <1>4, <1>5, <1>6, <1>7, Writers

\* A breaker about to remove main.lock is alone to touch it.
LEMMA JudgedKept ==
  ASSUME IInv, NEW p \in Proc, Step(p), NEW q \in Proc, q # p, bpc[q] = "rm"
  PROVE  file' = file
<1>1. SameFile(file, judged[q]) /\ judged[q] # NoFile /\ Bears(breakFile, q)
  BY DEF IInv, RemovalInv, BreakerInv, BreakPcs
<1>2. judged[q] \in File /\ file \in File
  BY <1>1 DEF SameFile, IInv, TypeInv, TypeOK, BreakTypeOK
<1>3. /\ file.written = TRUE => ~Live(file.owner)
      /\ file.written = FALSE => file.aged = TRUE
  <2>1. judged[q].owner = file.owner /\ judged[q].written = file.written /\ (judged[q].aged => file.aged)
    BY <1>1 DEF SameFile
  <2> QED
    BY <1>2, <2>1, Fields DEF IInv, RemovalInv
<1>4. ASSUME Counts(p) PROVE FALSE
  <2>1. pc[p] \in SectionPcs => OwnedBy(file, p) /\ file.written = TRUE
    BY <1>2, Fields DEF IInv, HolderInv, Bears
  <2>2. pc[p] \notin SectionPcs => file.written = FALSE /\ file.aged = FALSE
    BY <1>2, <1>4, Fields DEF IInv, HolderInv, Counts
  <2>3. Live(p)
    BY <1>4, HolderLives DEF IInv, Counts, SectionPcs
  <2> QED
    BY <1>3, <2>1, <2>2, <2>3 DEF OwnedBy
<1>5. ASSUME Up(p), Bears(file, p) PROVE FALSE
  BY <1>2, <1>3, <1>5, Fields DEF Bears, OwnedBy, Up, Live
<1>6. ~TryCreate(p) \/ file' = file
  BY <1>2, Fields DEF TryCreate
<1>7. ~WriteLock(p) /\ ~UnwriteLock(p) /\ ~Unlink(p)
  BY <1>4 DEF WriteLock, UnwriteLock, Unlink, Here, Counts, SectionPcs
<1>8. ~Heartbeat(p)
  BY <1>5 DEF Heartbeat
<1>9. ~RemoveFile(p)
  BY <1>1, Owners DEF RemoveFile, At, IInv, BreakerInv, Bears, BreakPcs
<1>10. ~Exit(p) \/ file' = file
  BY <1>5 DEF Exit
<1> QED
  BY <1>6, <1>7, <1>8, <1>9, <1>10, Writers
-----------------------------------------------------------------------------
(* The inductive invariant, one part at a time.                             *)

LEMMA ControlStep ==
  ASSUME IInv, Sheltered, NEW p \in Proc, Step(p)
  PROVE  ControlInv'
<1>0. /\ status \in [Proc -> Statuses] /\ pc \in [Proc -> PCs] /\ bpc \in [Proc -> BPcs]
      /\ ControlInv
  BY DEF IInv, TypeInv, TypeOK, BreakTypeOK
<1> DEFINE C(q) == /\ bpc[q] # "idle" => pc[q] = "break"
                   /\ ~Live(q) => pc[q] = "out" /\ bpc[q] = "idle"
                   /\ pc[q] \in {"write", "unwrite"} => Up(q)
                   /\ bpc[q] \in {"stamp", "markStamp"} => Up(q)
<1>1. ASSUME NEW q \in Proc, q # p PROVE C(q)'
  BY <1>0, <1>1, Locals DEF ControlInv, Live, Up, IInv
<1>2. C(p)'
  <2> USE <1>0 DEF Goto, Move, Here, At, Up, Live
  <2>1. CASE Up(p) /\ pc[p] = "break" /\ UNCHANGED <<status, pc>>
    BY <2>1
  <2>2. CASE BreakStep(p) /\ UNCHANGED pc
    <3>1. Up(p) /\ bpc[p] # "idle" /\ UNCHANGED status
      BY <2>2 DEF BreakStep, TakeBreak, InspectBreak, MarkReclaim, StampMarker, RecheckBreak,
         RemoveBreakDebris, Unmark, ReadMarker, RecheckMarker, RemoveMarker, StampBreak, Compare,
         RemoveFile, DropBreak, UnlinkBreak
    <3> QED
      BY <2>1, <2>2, <3>1 DEF ControlInv
  <2>3. CASE Enter(p) \/ GiveUp(p) \/ TryCreate(p) \/ WriteLock(p) \/ UnwriteLock(p)
    BY <2>3 DEF Enter, GiveUp, TryCreate, WriteLock, UnwriteLock, bvars, ControlInv
  <2>4. CASE Judge(p)
    BY <2>4 DEF Judge, CallRemove, bvars, ControlInv
  <2>5. CASE AfterRemove(p)
    BY <2>5 DEF AfterRemove, ControlInv
  <2>6. CASE Heartbeat(p) \/ AssertHeld(p) \/ Effect(p) \/ Leave(p) \/ ReadToken(p) \/ Unlink(p)
    BY <2>6 DEF Heartbeat, AssertHeld, Effect, Leave, ReadToken, Unlink, bvars, ControlInv
  <2>7. CASE Exit(p) \/ Crash(p)
    BY <2>7 DEF Exit, Crash, Forget, Return
  <2>8. CASE Recycle(p) \/ Thaw(p)
    BY <2>8 DEF Recycle, Thaw, bvars, ControlInv
  <2>9. CASE Freeze(p)
    BY <2>9 DEF Freeze, bvars, ControlInv, Point, Sheltered
  <2> QED
    BY <2>2, <2>3, <2>4, <2>5, <2>6, <2>7, <2>8, <2>9 DEF Step, LockStep, Fault
<1> QED
  BY <1>1, <1>2 DEF ControlInv

LEMMA HolderStep ==
  ASSUME IInv, Sheltered, NEW p \in Proc, Step(p)
  PROVE  HolderInv'
<1>0. /\ pc \in [Proc -> PCs] /\ bpc \in [Proc -> BPcs] /\ file \in File \cup {NoFile}
      /\ HolderInv /\ ControlInv
  BY DEF IInv, TypeInv, TypeOK, BreakTypeOK
<1> DEFINE H(q) == /\ pc[q] \in {"write", "unwrite"} => OwnedBy(file, q) /\ ~file.written /\ ~file.aged
                   /\ pc[q] \in SectionPcs => Bears(file, q)
<1>1. ASSUME NEW q \in Proc, q # p PROVE H(q)'
  <2>1. CASE Counts(q)
    BY <1>0, <1>1, <2>1, Locals, FileKept DEF HolderInv, IInv, OwnedBy, Bears
  <2>2. CASE ~Counts(q)
    BY <1>1, <2>2, Locals DEF Counts, IInv
  <2> QED
    BY <2>1, <2>2
<1>2. H(p)'
  <2> USE <1>0 DEF Move, Here, SectionPcs
  <2>1. CASE UNCHANGED <<pc, file>>
    BY <2>1 DEF HolderInv, OwnedBy, Bears
  <2>2. CASE pc'[p] \notin {"write", "unwrite"} \cup SectionPcs
    BY <2>2
  <2>3. CASE BreakStep(p) /\ UNCHANGED pc
    <3>1. bpc[p] # "idle"
      BY <2>3 DEF BreakStep, TakeBreak, InspectBreak, MarkReclaim, StampMarker, RecheckBreak,
         RemoveBreakDebris, Unmark, ReadMarker, RecheckMarker, RemoveMarker, StampBreak, Compare,
         RemoveFile, DropBreak, UnlinkBreak, At
    <3> QED
      BY <2>2, <2>3, <3>1 DEF ControlInv
  <2>4. CASE TryCreate(p)
    <3>1. CASE file = NoFile
      <4>1. file' = Created(p) /\ pc' = [pc EXCEPT ![p] = "write"]
        BY <2>4, <3>1 DEF TryCreate
      <4>2. OwnedBy(file, p)' /\ ~file'.written /\ ~file'.aged
        BY <4>1, FileTypes, FileFields DEF OwnedBy
      <4> QED
        BY <4>1, <4>2
    <3>2. CASE file # NoFile
      BY <2>2, <2>4, <3>2 DEF TryCreate
    <3> QED
      BY <3>1, <3>2
  <2>5. CASE WriteLock(p)
    <3>1. OwnedBy(file, p) /\ ~file.written /\ ~file.aged /\ file \in File
      BY <2>5 DEF WriteLock, HolderInv, OwnedBy
    <3>2. CASE pc' = [pc EXCEPT ![p] = "unwrite"] /\ UNCHANGED file
      BY <3>1, <3>2 DEF OwnedBy
    <3>3. CASE file' = Stamped(file) /\ pc' = [pc EXCEPT ![p] = "in"]
      BY <3>1, <3>3, FileTypes, FileFields DEF OwnedBy, Bears
    <3> QED
      BY <2>5, <3>1, <3>2, <3>3 DEF WriteLock, OwnedBy
  <2>6. CASE Enter(p) \/ GiveUp(p) \/ UnwriteLock(p) \/ Judge(p) \/ AfterRemove(p)
    BY <2>2, <2>6 DEF Enter, GiveUp, UnwriteLock, Judge, AfterRemove
  <2>7. CASE Heartbeat(p)
    <3>1. file \in File /\ file' = Stamped(file) /\ OwnedBy(file, p) /\ UNCHANGED pc
          /\ pc[p] \in {"in", "effect"}
      BY <2>7 DEF Heartbeat, Bears, OwnedBy
    <3> QED
      BY <3>1, FileTypes, FileFields DEF OwnedBy, Bears
  <2>8. CASE AssertHeld(p) \/ Effect(p) \/ Leave(p) \/ ReadToken(p)
    BY <2>8 DEF AssertHeld, Effect, Leave, ReadToken, HolderInv, Bears, OwnedBy
  <2>9. CASE Unlink(p)
    BY <2>2, <2>9 DEF Unlink
  <2>10. CASE Exit(p) \/ Crash(p)
    BY <2>2, <2>10 DEF Exit, Crash, Forget
  <2>11. CASE Recycle(p) \/ Freeze(p) \/ Thaw(p)
    BY <2>1, <2>11 DEF Recycle, Freeze, Thaw
  <2> QED
    BY <2>3, <2>4, <2>5, <2>6, <2>7, <2>8, <2>9, <2>10, <2>11 DEF Step, LockStep, Fault
<1> QED
  BY <1>1, <1>2 DEF HolderInv

\* What a step of p that leaves the break lock alone may do to p's place in it.
LEMMA BreakerMoves ==
  ASSUME IInv, NEW p \in Proc, Step(p)
  PROVE  \/ bpc' = bpc
         \/ bpc'[p] \notin BreakPcs /\ bpc[p] \notin BreakPcs
         \/ TakeBreak(p) \/ StampBreak(p) \/ Compare(p) \/ RemoveFile(p)
         \/ DropBreak(p) \/ UnlinkBreak(p) \/ Exit(p) \/ Crash(p)
<1>0. bpc \in [Proc -> BPcs] /\ ControlInv
  BY DEF IInv, TypeInv, TypeOK, BreakTypeOK
<1> USE <1>0 DEF Goto, Return, Retry, At, BreakPcs
<1>1. CASE Enter(p) \/ GiveUp(p) \/ TryCreate(p) \/ WriteLock(p) \/ UnwriteLock(p) \/ AfterRemove(p)
           \/ Heartbeat(p) \/ AssertHeld(p) \/ Effect(p) \/ Leave(p) \/ ReadToken(p) \/ Unlink(p)
           \/ Recycle(p) \/ Freeze(p) \/ Thaw(p)
  BY <1>1 DEF Enter, GiveUp, TryCreate, WriteLock, UnwriteLock, AfterRemove, Heartbeat, AssertHeld,
     Effect, Leave, ReadToken, Unlink, Recycle, Freeze, Thaw, bvars
<1>2. CASE Judge(p)
  <2>1. bpc[p] = "idle"
    BY <1>2 DEF Judge, Here, ControlInv
  <2> QED
    BY <1>2, <2>1 DEF Judge, CallRemove, bvars
<1>3. CASE InspectBreak(p) \/ MarkReclaim(p) \/ StampMarker(p) \/ RecheckBreak(p) \/ RemoveBreakDebris(p)
  BY <1>3 DEF InspectBreak, MarkReclaim, StampMarker, RecheckBreak, RemoveBreakDebris
<1>4. CASE Unmark(p) \/ ReadMarker(p) \/ RecheckMarker(p) \/ RemoveMarker(p)
  BY <1>4 DEF Unmark, ReadMarker, RecheckMarker, RemoveMarker
<1> QED
  BY <1>1, <1>2, <1>3, <1>4 DEF Step, LockStep, BreakStep, Fault

LEMMA BreakerStep ==
  ASSUME IInv, Sheltered, NEW p \in Proc, Step(p)
  PROVE  BreakerInv'
<1>0. /\ bpc \in [Proc -> BPcs] /\ breakFile \in File \cup {NoFile}
      /\ BreakerInv /\ ControlInv
  BY DEF IInv, TypeInv, TypeOK, BreakTypeOK
<1> DEFINE B(q) == /\ bpc[q] = "stamp" => OwnedBy(breakFile, q) /\ ~breakFile.written
                   /\ bpc[q] \in BreakPcs \ {"stamp"} => Bears(breakFile, q)
           E == breakFile # NoFile /\ ~breakFile.written =>
                  bpc[breakFile.owner] = "stamp" /\ ~breakFile.aged
<1>1. ASSUME NEW q \in Proc, q # p PROVE B(q)'
  <2>1. CASE bpc[q] \in BreakPcs
    BY <1>0, <1>1, <2>1, Locals, BreakKept DEF BreakerInv, IInv, OwnedBy, Bears
  <2>2. CASE bpc[q] \notin BreakPcs
    BY <1>1, <2>2, Locals DEF BreakPcs, IInv
  <2> QED
    BY <2>1, <2>2
<1>2. ASSUME UNCHANGED breakFile, bpc'[p] = bpc[p] \/ bpc[p] # "stamp" PROVE E'
  BY <1>0, <1>2, Locals, Fields DEF BreakerInv, IInv
<1>3. B(p)' /\ E'
  <2> USE <1>0 DEF At, Goto, OwnedBy, Bears, BreakPcs
  <2>1. CASE UNCHANGED <<bpc, breakFile>>
    BY <2>1 DEF BreakerInv, OwnedBy, Bears
  <2>2. ASSUME bpc'[p] \notin BreakPcs, bpc[p] \notin BreakPcs, UNCHANGED breakFile PROVE B(p)' /\ E'
    BY <1>2, <2>2 DEF BreakPcs
  <2>3. CASE TakeBreak(p)
    <3>1. CASE breakFile' = Created(p) /\ bpc' = [bpc EXCEPT ![p] = "stamp"]
      <4>1. OwnedBy(breakFile, p)' /\ ~breakFile'.written /\ ~breakFile'.aged /\ breakFile'.owner = p
        BY <3>1, FileTypes, FileFields DEF OwnedBy
      <4> QED
        BY <3>1, <4>1
    <3>2. CASE UNCHANGED breakFile /\ bpc'[p] \in {"idle", "inspect"}
      BY <1>2, <2>3, <3>2 DEF TakeBreak
    <3> QED
      BY <2>3, <3>1, <3>2 DEF TakeBreak, Return
  <2>4. CASE StampBreak(p)
    <3>1. breakFile' = Stamped(breakFile) /\ breakFile \in File /\ breakFile.owner = p
      BY <2>4 DEF StampBreak, Sheltered, Fails, BreakerInv, OwnedBy
    <3>2. bpc' = [bpc EXCEPT ![p] = "compare"]
      BY <2>4 DEF StampBreak, Sheltered, Fails
    <3>3. Bears(breakFile, p)' /\ breakFile'.written
      BY <3>1, FileTypes, FileFields DEF Bears, OwnedBy
    <3> QED
      BY <3>2, <3>3
  <2>5. CASE RemoveBreakDebris(p)
    <3>1. bpc'[p] = "unmark" /\ bpc[p] = "rmBreak"
      BY <2>5 DEF RemoveBreakDebris
    <3>2. CASE UNCHANGED breakFile
      BY <2>2, <3>1, <3>2
    <3>3. CASE breakFile' = NoFile
      BY <3>1, <3>3
    <3> QED
      BY <2>5, <3>2, <3>3 DEF RemoveBreakDebris
  <2>6. CASE UnlinkBreak(p)
    <3>1. bpc'[p] = "idle" /\ bpc[p] = "unlinkBreak"
      BY <2>6 DEF UnlinkBreak, Return
    <3>2. CASE UNCHANGED breakFile
      BY <1>2, <3>1, <3>2
    <3>3. CASE breakFile' = NoFile
      BY <3>1, <3>3
    <3> QED
      BY <2>6, <3>2, <3>3 DEF UnlinkBreak
  <2>7. CASE Compare(p) \/ RemoveFile(p) \/ DropBreak(p)
    <3>1. UNCHANGED breakFile /\ bpc[p] \in BreakPcs \ {"stamp"}
      BY <2>7 DEF Compare, RemoveFile, DropBreak
    <3>2. bpc'[p] # "stamp"
      BY <2>7 DEF Compare, RemoveFile, DropBreak, Return
    <3> QED
      BY <1>2, <3>1, <3>2 DEF BreakerInv, Bears, OwnedBy
  <2>8. CASE Exit(p) \/ Crash(p)
    <3>1. bpc'[p] = "idle"
      BY <2>8 DEF Exit, Crash, Forget, Return
    <3>2. bpc[p] # "stamp"
      BY <2>8 DEF Exit, Crash, Point, Sheltered
    <3>3. breakFile' = NoFile \/ UNCHANGED breakFile
      BY <2>8 DEF Exit, Crash
    <3> QED
      BY <1>2, <3>1, <3>2, <3>3
  <2> QED
    BY <2>1, <2>2, <2>3, <2>4, <2>5, <2>6, <2>7, <2>8, BreakerMoves, Writers
<1> QED
  BY <1>1, <1>3 DEF BreakerInv

LEMMA ReclaimerMoves ==
  ASSUME IInv, NEW p \in Proc, Step(p)
  PROVE  \/ bpc' = bpc
         \/ bpc'[p] \notin ReclaimPcs \cup OrphanPcs /\ bpc[p] \notin ReclaimPcs \cup OrphanPcs
         \/ MarkReclaim(p) \/ StampMarker(p) \/ RecheckBreak(p) \/ RemoveBreakDebris(p) \/ Unmark(p)
         \/ ReadMarker(p) \/ RecheckMarker(p) \/ RemoveMarker(p) \/ Exit(p) \/ Crash(p)
<1>0. bpc \in [Proc -> BPcs] /\ ControlInv
  BY DEF IInv, TypeInv, TypeOK, BreakTypeOK
<1> USE <1>0 DEF Goto, Return, Retry, At, ReclaimPcs, OrphanPcs
<1>1. CASE Enter(p) \/ GiveUp(p) \/ TryCreate(p) \/ WriteLock(p) \/ UnwriteLock(p) \/ AfterRemove(p)
           \/ Heartbeat(p) \/ AssertHeld(p) \/ Effect(p) \/ Leave(p) \/ ReadToken(p) \/ Unlink(p)
           \/ Recycle(p) \/ Freeze(p) \/ Thaw(p)
  BY <1>1 DEF Enter, GiveUp, TryCreate, WriteLock, UnwriteLock, AfterRemove, Heartbeat, AssertHeld,
     Effect, Leave, ReadToken, Unlink, Recycle, Freeze, Thaw, bvars
<1>2. CASE Judge(p)
  <2>1. bpc[p] = "idle"
    BY <1>2 DEF Judge, Here, ControlInv
  <2> QED
    BY <1>2, <2>1 DEF Judge, CallRemove, bvars
<1>3. CASE TakeBreak(p) \/ InspectBreak(p)
  BY <1>3 DEF TakeBreak, InspectBreak
<1>4. CASE StampBreak(p) \/ Compare(p) \/ RemoveFile(p) \/ DropBreak(p) \/ UnlinkBreak(p)
  BY <1>4 DEF StampBreak, Compare, RemoveFile, DropBreak, UnlinkBreak
<1> QED
  BY <1>1, <1>2, <1>3, <1>4 DEF Step, LockStep, BreakStep, Fault

LEMMA MarkerStep ==
  ASSUME IInv, Sheltered, NEW p \in Proc, Step(p)
  PROVE  MarkerInv'
<1>0. /\ bpc \in [Proc -> BPcs] /\ marker \in File \cup {NoFile}
      /\ MarkerInv /\ ControlInv
  BY DEF IInv, TypeInv, TypeOK, BreakTypeOK
<1> DEFINE M(q) == /\ bpc[q] = "markStamp" => OwnedBy(marker, q)
                   /\ bpc[q] \in ReclaimPcs \ {"markStamp"} => Bears(marker, q)
                   /\ bpc[q] \notin {"orphanCheck", "orphanRm"}
           E == marker # NoFile => /\ bpc[marker.owner] \in ReclaimPcs
                                   /\ ~marker.written => bpc[marker.owner] = "markStamp" /\ ~marker.aged
<1>1. ASSUME NEW q \in Proc, q # p PROVE M(q)'
  <2>1. CASE bpc[q] \in ReclaimPcs
    BY <1>0, <1>1, <2>1, Locals, MarkerKept DEF MarkerInv, IInv, OwnedBy, Bears
  <2>2. CASE bpc[q] \notin ReclaimPcs
    BY <1>0, <1>1, <2>2, Locals DEF ReclaimPcs, IInv, MarkerInv
  <2> QED
    BY <2>1, <2>2
<1>2. ASSUME UNCHANGED marker, bpc'[p] = bpc[p] \/ bpc[p] \notin ReclaimPcs PROVE E'
  BY <1>0, <1>2, Locals, Fields DEF MarkerInv, IInv
<1>3. M(p)' /\ E'
  <2> USE <1>0 DEF At, Goto, OwnedBy, Bears, ReclaimPcs, OrphanPcs
  <2>1. CASE UNCHANGED <<bpc, marker>>
    BY <2>1 DEF MarkerInv
  <2>2. ASSUME bpc'[p] \notin ReclaimPcs \cup OrphanPcs \/ bpc'[p] = "orphan", bpc[p] \notin ReclaimPcs,
               UNCHANGED marker
        PROVE  M(p)' /\ E'
    BY <1>2, <2>2
  <2>3. CASE MarkReclaim(p)
    <3>1. CASE marker' = Created(p) /\ bpc' = [bpc EXCEPT ![p] = "markStamp"]
      <4>1. OwnedBy(marker, p)' /\ ~marker'.aged /\ marker'.owner = p
        BY <3>1, FileTypes, FileFields DEF OwnedBy
      <4> QED
        BY <3>1, <4>1
    <3>2. CASE UNCHANGED marker /\ bpc'[p] \in {"idle", "orphan"}
      BY <2>2, <2>3, <3>2 DEF MarkReclaim
    <3> QED
      BY <2>3, <3>1, <3>2 DEF MarkReclaim, Return
  <2>4. CASE StampMarker(p)
    <3>1. marker' = Stamped(marker) /\ marker \in File /\ marker.owner = p
      BY <2>4 DEF StampMarker, Sheltered, Fails, MarkerInv
    <3>2. bpc' = [bpc EXCEPT ![p] = "recheck"]
      BY <2>4 DEF StampMarker, Sheltered, Fails
    <3>3. Bears(marker, p)' /\ marker'.written /\ marker'.owner = p
      BY <3>1, FileTypes, FileFields
    <3> QED
      BY <3>2, <3>3
  <2>5. CASE RecheckBreak(p) \/ RemoveBreakDebris(p)
    <3>1. UNCHANGED marker /\ bpc[p] \in {"recheck", "rmBreak"} /\ bpc'[p] \in {"rmBreak", "unmark"}
      BY <2>5 DEF RecheckBreak, RemoveBreakDebris
    <3>2. Bears(marker, p) /\ marker.written
      BY <3>1 DEF MarkerInv
    <3> QED
      BY <3>1, <3>2
  <2>6. CASE Unmark(p)
    <3>1. marker' = NoFile
      BY <2>6 DEF Unmark, Sheltered, Fails
    <3>2. bpc'[p] \in {"idle", "take"}
      BY <2>6 DEF Unmark, Return, Retry
    <3> QED
      BY <3>1, <3>2
  <2>7. CASE ReadMarker(p)
    <3>1. ~IsOrphanMarker(marker)
      <4>1. marker # NoFile => Live(marker.owner)
        BY HolderLives, Fields DEF MarkerInv
      <4> QED
        BY <4>1 DEF IsOrphanMarker, PidAlive, Live, MarkerInv
    <3>2. UNCHANGED marker /\ bpc'[p] = "idle" /\ bpc[p] = "orphan"
      BY <2>7, <3>1 DEF ReadMarker, Return
    <3> QED
      BY <2>2, <3>2
  <2>8. ~RecheckMarker(p) /\ ~RemoveMarker(p)
    BY DEF RecheckMarker, RemoveMarker, MarkerInv
  <2>9. CASE Exit(p) \/ Crash(p)
    <3>1. bpc'[p] = "idle" /\ UNCHANGED marker
      BY <2>9 DEF Exit, Crash, Forget, Return
    <3>2. bpc[p] \notin ReclaimPcs
      BY <2>9 DEF Exit, Crash, Point, Sheltered
    <3> QED
      BY <2>2, <3>1, <3>2
  <2> QED
    BY <2>1, <2>2, <2>3, <2>4, <2>5, <2>6, <2>7, <2>8, <2>9, ReclaimerMoves, Writers
<1> QED
  BY <1>1, <1>3 DEF MarkerInv

LEMMA ReclaimStep ==
  ASSUME IInv, Sheltered, NEW p \in Proc, Step(p)
  PROVE  ReclaimInv'
<1>0. /\ bpc \in [Proc -> BPcs] /\ breakFile \in File \cup {NoFile}
      /\ seen \in [Proc -> Proc \cup {Empty, NoFile}]
      /\ ReclaimInv /\ ControlInv /\ BreakerInv
  BY DEF IInv, TypeInv, TypeOK, BreakTypeOK
<1> DEFINE Reclaiming == {"mark", "markStamp", "recheck", "rmBreak"}
           R(q) == /\ bpc[q] \in Reclaiming => seen[q] \in Proc /\ ~Live(seen[q])
                   /\ bpc[q] = "rmBreak" => Bears(breakFile, seen[q])
<1>1. ASSUME NEW q \in Proc, bpc'[q] = bpc[q], seen'[q] = seen[q], bpc[q] = "rmBreak" => breakFile' = breakFile
      PROVE  R(q)'
  <2>1. bpc[q] \in Reclaiming => seen[q] \in Proc /\ ~Live(seen[q])'
    BY <1>0, <1>1, DeadStays DEF ReclaimInv, IInv
  <2> QED
    BY <1>0, <1>1, <2>1 DEF ReclaimInv, Bears, OwnedBy, Live
<1>2. ASSUME NEW q \in Proc, q # p PROVE R(q)'
  BY <1>1, <1>2, Locals, DebrisKept DEF IInv
<1>3. R(p)'
  <2> USE <1>0 DEF At, Goto
  <2>1. CASE bpc'[p] \notin Reclaiming
    BY <2>1
  <2>2. CASE InspectBreak(p)
    <3>1. CASE bpc'[p] = "mark"
      <4>1. IsBreakLockDebris(breakFile) /\ seen' = [seen EXCEPT ![p] = Raw(breakFile)] /\ UNCHANGED status
        BY <2>2, <3>1 DEF InspectBreak, Retry, Return
      <4>2. breakFile \in File /\ breakFile.written
        BY <4>1, HolderLives DEF IsBreakLockDebris, BreakerInv
      <4>3. ~Live(breakFile.owner) /\ breakFile.owner \in Proc
        BY <4>1, <4>2, Fields DEF IsBreakLockDebris, Live
      <4>4. seen'[p] = breakFile.owner
        BY <4>1, <4>2, Fields DEF Raw
      <4> QED
        BY <3>1, <4>1, <4>3, <4>4 DEF Live
    <3> QED
      BY <2>1, <2>2, <3>1 DEF InspectBreak, Return, Retry
  <2>3. CASE MarkReclaim(p) \/ StampMarker(p)
    <3>1. CASE seen' = seen /\ bpc[p] \in {"mark", "markStamp"} /\ bpc'[p] \in {"markStamp", "recheck", "orphan", "unmark"}
      <4>1. seen[p] \in Proc /\ ~Live(seen[p])'
        BY <3>1, DeadStays DEF ReclaimInv, IInv
      <4> QED
        BY <3>1, <4>1 DEF Live
    <3> QED
      BY <2>1, <2>3, <3>1 DEF MarkReclaim, StampMarker, Return
  <2>4. CASE RecheckBreak(p)
    <3>1. CASE bpc'[p] = "rmBreak"
      <4>1. Raw(breakFile) = seen[p] /\ UNCHANGED <<seen, breakFile, status>> /\ bpc[p] = "recheck"
        BY <2>4, <3>1 DEF RecheckBreak
      <4>2. seen[p] \in Proc /\ ~Live(seen[p])
        BY <4>1 DEF ReclaimInv
      <4>3. Bears(breakFile, seen[p])
        BY <4>1, <4>2, BreakLockAssumption DEF Raw, Bears, OwnedBy
      <4> QED
        BY <3>1, <4>1, <4>2, <4>3 DEF Live, Bears, OwnedBy
    <3> QED
      BY <2>1, <2>4, <3>1 DEF RecheckBreak
  <2>5. CASE TakeBreak(p) \/ RemoveBreakDebris(p) \/ Unmark(p)
    BY <2>1, <2>5 DEF TakeBreak, RemoveBreakDebris, Unmark, Return, Retry
  <2>6. CASE ReadMarker(p) \/ RecheckMarker(p) \/ RemoveMarker(p) \/ StampBreak(p)
    BY <2>1, <2>6 DEF ReadMarker, RecheckMarker, RemoveMarker, StampBreak, Return
  <2>7. CASE Compare(p) \/ RemoveFile(p) \/ DropBreak(p) \/ UnlinkBreak(p)
    BY <2>1, <2>7 DEF Compare, RemoveFile, DropBreak, UnlinkBreak, Return
  <2>8. CASE Exit(p) \/ Crash(p)
    BY <2>1, <2>8 DEF Exit, Crash, Forget, Return
  <2>9. CASE Judge(p)
    BY <2>1, <2>9 DEF Judge, Here, CallRemove, bvars, ControlInv
  <2>10. CASE Enter(p) \/ GiveUp(p) \/ TryCreate(p) \/ WriteLock(p) \/ UnwriteLock(p) \/ AfterRemove(p)
    BY <2>1, <2>10 DEF Enter, GiveUp, TryCreate, WriteLock, UnwriteLock, AfterRemove, Here, bvars, ControlInv
  <2>11. CASE Heartbeat(p) \/ AssertHeld(p) \/ Effect(p) \/ Leave(p) \/ ReadToken(p) \/ Unlink(p)
    BY <1>1, <2>11 DEF Heartbeat, AssertHeld, Effect, Leave, ReadToken, Unlink, bvars
  <2>12. CASE Recycle(p) \/ Freeze(p) \/ Thaw(p)
    BY <1>1, <2>12 DEF Recycle, Freeze, Thaw, bvars
  <2> QED
    BY <2>2, <2>3, <2>4, <2>5, <2>6, <2>7, <2>8, <2>9, <2>10, <2>11, <2>12 DEF Step, LockStep, BreakStep, Fault
<1> QED
  BY <1>2, <1>3 DEF ReclaimInv

LEMMA RemovalStep ==
  ASSUME IInv, Sheltered, NEW p \in Proc, Step(p)
  PROVE  RemovalInv'
<1>0. /\ bpc \in [Proc -> BPcs] /\ file \in File \cup {NoFile}
      /\ judged \in [Proc -> File \cup {NoFile}]
      /\ RemovalInv /\ ControlInv
  BY DEF IInv, TypeInv, TypeOK, BreakTypeOK
<1> DEFINE J(q) == /\ judged[q] # NoFile
                   /\ judged[q].written => ~Live(judged[q].owner)
                   /\ ~judged[q].written => judged[q].aged
           V(q) == /\ bpc[q] # "idle" => J(q)
                   /\ bpc[q] = "rm" => SameFile(file, judged[q])
<1>1. ASSUME NEW q \in Proc, bpc[q] # "idle", judged'[q] = judged[q] PROVE J(q)'
  <2>1. judged[q] \in File
    BY <1>0, <1>1 DEF RemovalInv
  <2>2. judged[q].written => ~Live(judged[q].owner)'
    BY <1>0, <1>1, <2>1, Fields, DeadStays DEF RemovalInv, IInv
  <2> QED
    BY <1>0, <1>1, <2>2 DEF RemovalInv, Live
<1>2. ASSUME NEW q \in Proc, bpc'[q] = bpc[q], judged'[q] = judged[q], bpc[q] = "rm" => file' = file
      PROVE  V(q)'
  BY <1>0, <1>1, <1>2 DEF RemovalInv, SameFile
<1>3. ASSUME NEW q \in Proc, q # p PROVE V(q)'
  BY <1>2, <1>3, Locals, JudgedKept DEF IInv
<1>4. V(p)'
  <2> USE <1>0 DEF At, Goto
  <2>1. CASE bpc[p] # "idle" /\ UNCHANGED judged /\ bpc'[p] # "rm"
    BY <1>1, <2>1
  <2>2. CASE bpc'[p] = "idle"
    BY <2>2
  <2>3. CASE Judge(p)
    <3>1. CASE IsStale(file) /\ judged' = [judged EXCEPT ![p] = file] /\ CallRemove(p)
      <4>1. file \in File /\ UNCHANGED status
        BY <2>3, <3>1 DEF IsStale, Judge
      <4>2. file.written => ~Live(file.owner)
        BY <3>1 DEF IsStale, Live, Sheltered
      <4>3. ~file.written => file.aged
        BY <3>1 DEF IsStale
      <4> QED
        BY <3>1, <4>1, <4>2, <4>3, Fields DEF Live, CallRemove, SameFile
    <3>2. CASE UNCHANGED <<judged, bvars>>
      BY <2>2, <2>3, <3>2 DEF Judge, Here, bvars, ControlInv
    <3> QED
      BY <2>3, <3>1, <3>2 DEF Judge
  <2>4. CASE Compare(p)
    <3>1. CASE bpc'[p] = "rm"
      <4>1. SameFile(file, judged[p]) /\ UNCHANGED <<file, judged>> /\ bpc[p] = "compare"
        BY <2>4, <3>1 DEF Compare
      <4> QED
        BY <1>1, <4>1 DEF SameFile
    <3> QED
      BY <2>1, <2>4, <3>1 DEF Compare
  <2>5. CASE TakeBreak(p) \/ InspectBreak(p) \/ MarkReclaim(p) \/ StampMarker(p)
    BY <2>1, <2>5 DEF TakeBreak, InspectBreak, MarkReclaim, StampMarker, Return, Retry
  <2>6. CASE RecheckBreak(p) \/ RemoveBreakDebris(p) \/ Unmark(p) \/ ReadMarker(p)
    BY <2>1, <2>6 DEF RecheckBreak, RemoveBreakDebris, Unmark, ReadMarker, Return, Retry
  <2>7. CASE RecheckMarker(p) \/ RemoveMarker(p) \/ StampBreak(p)
    BY <2>1, <2>7 DEF RecheckMarker, RemoveMarker, StampBreak, Return
  <2>8. CASE RemoveFile(p) \/ DropBreak(p) \/ UnlinkBreak(p)
    BY <2>1, <2>8 DEF RemoveFile, DropBreak, UnlinkBreak, Return
  <2>9. CASE Exit(p) \/ Crash(p)
    BY <2>2, <2>9 DEF Exit, Crash, Forget, Return
  <2>10. CASE Enter(p) \/ GiveUp(p) \/ TryCreate(p) \/ WriteLock(p) \/ UnwriteLock(p) \/ AfterRemove(p)
    BY <2>2, <2>10 DEF Enter, GiveUp, TryCreate, WriteLock, UnwriteLock, AfterRemove, Here, bvars, ControlInv
  <2>11. CASE Heartbeat(p) \/ AssertHeld(p) \/ Effect(p) \/ Leave(p) \/ ReadToken(p) \/ Unlink(p)
    <3>1. bpc'[p] = "idle"
      BY <2>11 DEF Heartbeat, AssertHeld, Effect, Leave, ReadToken, Unlink, Here, bvars, ControlInv
    <3> QED
      BY <2>2, <3>1
  <2>12. CASE Recycle(p) \/ Freeze(p) \/ Thaw(p)
    BY <1>2, <2>12 DEF Recycle, Freeze, Thaw, bvars
  <2> QED
    BY <2>3, <2>4, <2>5, <2>6, <2>7, <2>8, <2>9, <2>10, <2>11, <2>12 DEF Step, LockStep, BreakStep, Fault
<1> QED
  BY <1>3, <1>4 DEF RemovalInv

(* The clock. *)
LEMMA ClockKeeps ==
  ASSUME IInv, Clock
  PROVE  ControlInv' /\ HolderInv' /\ BreakerInv' /\ MarkerInv' /\ ReclaimInv' /\ RemovalInv'
<1>0. /\ file \in File \cup {NoFile} /\ breakFile \in File \cup {NoFile} /\ marker \in File \cup {NoFile}
      /\ judged \in [Proc -> File \cup {NoFile}]
      /\ ControlInv /\ HolderInv /\ BreakerInv /\ MarkerInv /\ ReclaimInv /\ RemovalInv
  BY DEF IInv, TypeInv, TypeOK, BreakTypeOK
<1> USE <1>0
<1>1. UNCHANGED <<status, judged, bpc, seen, pc>>
  BY DEF Clock, AgeLock, AgeBreak, AgeMarker, bvars
<1>2. ControlInv'
  BY <1>1 DEF ControlInv, Live, Up
<1>3. HolderInv' /\ RemovalInv'
  <2>1. CASE AgeLock
    <3>1. file \in File /\ file' = Aged(file) /\ file' \in File
          /\ file'.owner = file.owner /\ file'.written = file.written /\ file'.aged
      BY <2>1, FileTypes, FileFields DEF AgeLock
    <3>2. \A q \in Proc : pc[q] \notin {"write", "unwrite"}
      BY <2>1 DEF AgeLock, HolderInv, ControlInv, OwnedBy
    <3>3. HolderInv'
      BY <1>1, <3>1, <3>2, Fields DEF HolderInv, Bears, OwnedBy
    <3>4. \A q \in Proc : bpc[q] = "rm" => SameFile(file, judged[q])'
      BY <1>1, <3>1, Fields DEF RemovalInv, SameFile
    <3> QED
      BY <1>1, <3>3, <3>4 DEF RemovalInv, Live
  <2>2. CASE UNCHANGED file
    BY <1>1, <2>2 DEF HolderInv, RemovalInv, Bears, OwnedBy, SameFile, Live
  <2> QED
    BY <2>1, <2>2 DEF Clock, AgeBreak, AgeMarker
<1>4. BreakerInv' /\ ReclaimInv'
  <2>1. CASE AgeBreak
    <3>1. breakFile \in File /\ breakFile' = Aged(breakFile) /\ breakFile' \in File
          /\ breakFile'.owner = breakFile.owner /\ breakFile'.written = breakFile.written
      BY <2>1, FileTypes, FileFields DEF AgeBreak
    <3>2. breakFile.written
      BY <2>1, Fields DEF AgeBreak, BreakerInv, ControlInv, BreakPcs
    <3>3. BreakerInv'
      BY <1>1, <3>1, <3>2, Fields DEF BreakerInv, Bears, OwnedBy, BreakPcs
    <3> QED
      BY <1>1, <3>1, <3>2, <3>3, Fields DEF ReclaimInv, Bears, OwnedBy, Live
  <2>2. CASE UNCHANGED breakFile
    BY <1>1, <2>2 DEF BreakerInv, ReclaimInv, Bears, OwnedBy, Live
  <2> QED
    BY <2>1, <2>2 DEF Clock, AgeLock, AgeMarker, bvars
<1>5. MarkerInv'
  <2>1. CASE AgeMarker
    <3>1. marker \in File /\ marker' = Aged(marker) /\ marker' \in File
          /\ marker'.owner = marker.owner /\ marker'.written = marker.written
      BY <2>1, FileTypes, FileFields DEF AgeMarker
    <3>2. marker.written
      BY <2>1, <3>1, Fields DEF AgeMarker, MarkerInv, ControlInv, ReclaimPcs
    <3> QED
      BY <1>1, <3>1, <3>2, Fields DEF MarkerInv, Bears, OwnedBy
  <2>2. CASE UNCHANGED marker
    BY <1>1, <2>2 DEF MarkerInv, Bears, OwnedBy
  <2> QED
    BY <2>1, <2>2 DEF Clock, AgeLock, AgeBreak, bvars
<1> QED
  BY <1>2, <1>3, <1>4, <1>5

LEMMA IInit == Sheltered /\ LockInit => IInv
<1> SUFFICES ASSUME Sheltered, LockInit PROVE IInv
  OBVIOUS
<1>1. /\ \A p \in Proc : pc[p] = "out" /\ bpc[p] = "idle"
      /\ TypeInv
  BY TypeInit DEF LockInit, BreakInit
<1>2. breakFile # NoFile => breakFile \in Debris({"stamp"}, BreakPcs \ {"stamp"})
  BY DEF LockInit, BreakInit
<1>3. marker # NoFile => marker \in Debris({"markStamp"}, ReclaimPcs \ {"markStamp"})
  BY DEF LockInit, BreakInit
<1>4. marker = NoFile
  BY <1>3 DEF Debris, Sheltered, ReclaimPcs
<1>5. breakFile # NoFile => breakFile.written
  BY <1>2 DEF Debris, Sheltered
<1> QED
  BY <1>1, <1>4, <1>5 DEF IInv, ControlInv, HolderInv, BreakerInv, MarkerInv, ReclaimInv, RemovalInv,
     SectionPcs, BreakPcs, ReclaimPcs

LEMMA INext == Sheltered /\ IInv /\ [Next]_lvars => IInv'
<1> SUFFICES ASSUME Sheltered, IInv, [Next]_lvars PROVE IInv'
  OBVIOUS
<1>1. TypeInv'
  BY TypeNext DEF IInv
<1>2. ASSUME NEW p \in Proc, Step(p) PROVE IInv'
  BY <1>1, <1>2, ControlStep, HolderStep, BreakerStep, MarkerStep, ReclaimStep, RemovalStep DEF IInv
<1>3. CASE Clock
  BY <1>1, <1>3, ClockKeeps DEF IInv
<1>4. CASE UNCHANGED lvars
  BY <1>1, <1>4 DEF IInv, lvars, bvars, ControlInv, HolderInv, BreakerInv, MarkerInv, ReclaimInv,
     RemovalInv, Live, Up, OwnedBy, Bears, SameFile
<1> QED
  BY <1>2, <1>3, <1>4, StepCases

(* Two processes are never inside the section of main.lock together, nor in *)
(* the compare-and-remove of the break lock, for every set of processes,    *)
(* as long as the faults stay out of the windows Sheltered names.           *)
THEOREM Exclusion ==
  ASSUME Sheltered
  PROVE  Spec => []MutualExclusion
<1>0. (LockInit => IInv) /\ (IInv /\ [Next]_lvars => IInv')
  BY IInit, INext
<1>1. IInv => MutualExclusion
  BY Owners DEF IInv, HolderInv, Bears, MutualExclusion, Inside
<1> QED
  BY <1>0, <1>1, PTL DEF Spec

(* At most one process runs the compare-and-remove under the break lock, for *)
(* every set of processes, under the same assumption on the faults.         *)
THEOREM SingleBreaker ==
  ASSUME Sheltered
  PROVE  Spec => []OneBreaker
<1>0. (LockInit => IInv) /\ (IInv /\ [Next]_lvars => IInv')
  BY IInit, INext
<1>1. IInv => OneBreaker
  BY Owners DEF IInv, BreakerInv, Bears, OneBreaker, BreakPcs
<1> QED
  BY <1>0, <1>1, PTL DEF Spec

(* While the process that created main.lock lives and counts on it, the     *)
(* file leaves the path only by that process's own release, exit or death.  *)
THEOREM Broken ==
  ASSUME Sheltered
  PROVE  Spec => BrokenOnProof
<1> DEFINE Kept(q) ==
      /\ OwnedBy(file, q) /\ Live(q) /\ pc[q] \in {"write"} \cup SectionPcs
      /\ ~OwnedBy(file', q)
      => pc[q] = "unlink" \/ status'[q] = "dead"
<1>0. (LockInit => IInv) /\ (IInv /\ [Next]_lvars => IInv')
  BY IInit, INext
<1>1. ASSUME IInv, NEW p \in Proc, Step(p), NEW q \in Proc PROVE Kept(q)
  <2>1. CASE q # p
    BY <1>1, <2>1, FileKept DEF Counts, OwnedBy
  <2>2. CASE q = p
    <3> SUFFICES ASSUME file \in File, file.owner = p, pc[p] \in {"write"} \cup SectionPcs
                 PROVE  \/ OwnedBy(file', p) \/ pc[p] = "unlink" \/ status'[p] = "dead"
      BY <1>1, <2>2 DEF OwnedBy, IInv, TypeInv, TypeOK, BreakTypeOK
    <3>1. CASE file' = file
      BY <3>1, Fields DEF OwnedBy
    <3>2. CASE WriteLock(p) \/ Heartbeat(p)
      <4>1. file' = file \/ file' = Stamped(file)
        BY <3>2 DEF WriteLock, Heartbeat
      <4>2. file' \in File /\ file'.owner = p
        BY <4>1, FileTypes, FileFields
      <4> QED
        BY <4>2, Fields DEF OwnedBy
    <3>3. ~TryCreate(p) /\ ~UnwriteLock(p)
      BY DEF TryCreate, UnwriteLock, Here, SectionPcs
    <3>4. ~RemoveFile(p)
      BY <1>1 DEF RemoveFile, At, IInv, ControlInv, SectionPcs
    <3>5. CASE Unlink(p)
      BY <3>5 DEF Unlink, Here
    <3>6. CASE Exit(p)
      BY <1>1, <3>6 DEF Exit, Forget, IInv, TypeInv, TypeOK, BreakTypeOK
    <3> QED
      BY <1>1, <3>1, <3>2, <3>3, <3>4, <3>5, <3>6, Writers
  <2> QED
    BY <2>1, <2>2
<1>2. ASSUME IInv, Clock, NEW q \in Proc PROVE Kept(q)
  <2> SUFFICES ASSUME file \in File, file.owner = q PROVE OwnedBy(file', q)
    BY <1>2 DEF OwnedBy, IInv, TypeInv, TypeOK, BreakTypeOK
  <2>1. file' = file \/ file' = Aged(file)
    BY <1>2 DEF Clock, AgeLock, AgeBreak, AgeMarker
  <2>2. file' \in File /\ file'.owner = q
    BY <2>1, FileTypes, FileFields
  <2> QED
    BY <2>2, Fields DEF OwnedBy
<1>3. IInv /\ [Next]_lvars =>
        [\A p \in Proc :
           /\ OwnedBy(file, p) /\ Live(p) /\ pc[p] \in {"write"} \cup SectionPcs
           /\ ~OwnedBy(file', p)
           => pc[p] = "unlink" \/ status'[p] = "dead"]_lvars
  BY <1>1, <1>2, StepCases
<1> QED
  BY <1>0, <1>3, PTL DEF Spec, BrokenOnProof

\* The one process inside is the holder, and nobody is the holder of an empty section.
LEMMA HolderIs ==
  ASSUME MutualExclusion
  PROVE  /\ \A r \in Proc : Inside(r) => Holder = r
         /\ (\A r \in Proc : ~Inside(r)) => Holder = Nobody
BY DEF MutualExclusion, Holder

LEMMA HolderSteps ==
  ASSUME IInv, MutualExclusion, MutualExclusion', NEW p \in Proc, Step(p)
  PROVE  Abstract!Next \/ UNCHANGED Holder
<1>1. \A q \in Proc : q # p => (Inside(q)' <=> Inside(q))
  BY Locals DEF Inside, Live, IInv
<1>2. CASE Inside(p) /\ Inside(p)'
  BY <1>2, HolderIs DEF MutualExclusion, Holder, Inside
<1>3. CASE Inside(p) /\ ~Inside(p)'
  BY <1>1, <1>3, HolderIs DEF MutualExclusion, Holder, Abstract!Next, Abstract!Free
<1>4. CASE ~Inside(p) /\ Inside(p)'
  BY <1>1, <1>4, HolderIs DEF MutualExclusion, Holder, Abstract!Next, Abstract!Acquire
<1>5. CASE ~Inside(p) /\ ~Inside(p)'
  BY <1>1, <1>5, HolderIs DEF MutualExclusion, Holder
<1> QED
  BY <1>2, <1>3, <1>4, <1>5

(* The three files implement one lock with one holder at a time.            *)
THEOREM Implements ==
  ASSUME Sheltered
  PROVE  Spec => ImplementsLock
<1>0. (LockInit => IInv) /\ (IInv /\ [Next]_lvars => IInv')
  BY IInit, INext
<1>1. IInv => MutualExclusion
  BY Owners DEF IInv, HolderInv, Bears, MutualExclusion, Inside
<1>2. LockInit => Abstract!Init
  BY DEF LockInit, Inside, SectionPcs, Holder, Abstract!Init
<1>3. IInv /\ MutualExclusion /\ MutualExclusion' /\ [Next]_lvars => [Abstract!Next]_Holder
  <2> SUFFICES ASSUME IInv, MutualExclusion, MutualExclusion', [Next]_lvars
               PROVE  [Abstract!Next]_Holder
    OBVIOUS
  <2>1. CASE UNCHANGED <<status, pc>>
    BY <2>1 DEF Holder, Inside, Live
  <2>2. ASSUME NEW p \in Proc, Step(p) PROVE [Abstract!Next]_Holder
    BY <2>2, HolderSteps
  <2> QED
    BY <2>1, <2>2, StepCases DEF Clock, AgeLock, AgeBreak, AgeMarker, lvars
<1> QED
  BY <1>0, <1>1, <1>2, <1>3, PTL DEF Spec, ImplementsLock, Abstract!Spec

-----------------------------------------------------------------------------
(* What a breaker reports.                                                  *)

\* A breaker has judged a file; a written one belongs to a process that is gone,
\* and once its removal is reported that process no longer has a file there.
ReportInv ==
  \A p \in Proc :
    /\ bpc[p] # "idle" => pc[p] = "break"
    /\ pc[p] = "break" =>
         /\ judged[p] # NoFile
         /\ judged[p].written => ~Live(judged[p].owner)
         /\ outcome[p] = "removed" /\ judged[p].written => ~OwnedBy(file, judged[p].owner)

\* Nobody creates main.lock in the name of a process that is gone.
LEMMA GoneStays ==
  ASSUME TypeInv, NEW p \in Proc, Step(p), NEW r \in Proc, ~Live(r), ~OwnedBy(file, r)
  PROVE  ~OwnedBy(file', r)
<1>0. file \in File \cup {NoFile}
  BY DEF TypeInv, TypeOK, BreakTypeOK
<1>1. CASE file' = file \/ file' = NoFile
  BY <1>1 DEF OwnedBy
<1>2. CASE TryCreate(p)
  <2>1. Up(p) /\ (file' = file \/ file' = Created(p))
    BY <1>2 DEF TryCreate, Here
  <2>2. p # r
    BY <2>1 DEF Up, Live
  <2> QED
    BY <2>1, <2>2, FileFields DEF OwnedBy
<1>3. CASE file # NoFile /\ file' = Stamped(file)
  BY <1>0, <1>3, FileFields DEF OwnedBy
<1> QED
  BY <1>1, <1>2, <1>3, Writers DEF WriteLock, UnwriteLock, Heartbeat, Unlink, RemoveFile, Exit,
     OwnedBy, Bears

LEMMA ReportStep ==
  ASSUME TypeInv, TypeInv', ReportInv, BreakFrozen = FALSE, NEW p \in Proc, Step(p)
  PROVE  ReportInv'
<1>0. /\ bpc \in [Proc -> BPcs] /\ pc \in [Proc -> PCs] /\ file \in File \cup {NoFile}
      /\ judged \in [Proc -> File \cup {NoFile}] /\ outcome \in [Proc -> Outcomes]
  BY DEF TypeInv, TypeOK, BreakTypeOK
<1> DEFINE V(q) == /\ bpc[q] # "idle" => pc[q] = "break"
                   /\ pc[q] = "break" =>
                        /\ judged[q] # NoFile
                        /\ judged[q].written => ~Live(judged[q].owner)
                        /\ outcome[q] = "removed" /\ judged[q].written =>
                             ~OwnedBy(file, judged[q].owner)
\* What was judged and reported stays so, for whom the step does not concern.
<1>1. ASSUME NEW q \in Proc, pc[q] = "break", judged'[q] = judged[q],
             outcome'[q] = "removed" /\ judged[q].written =>
               \/ outcome[q] = "removed"
               \/ file' = NoFile
      PROVE  /\ judged'[q] # NoFile
             /\ judged'[q].written => status'[judged'[q].owner] \notin {"up", "frozen"}
             /\ outcome'[q] = "removed" /\ judged'[q].written => ~OwnedBy(file', judged'[q].owner)
  <2>1. /\ judged[q] \in File /\ judged[q] # NoFile
        /\ judged[q].written => ~Live(judged[q].owner)
        /\ outcome[q] = "removed" /\ judged[q].written => ~OwnedBy(file, judged[q].owner)
    BY <1>0, <1>1 DEF ReportInv
  <2>2. judged[q].owner \in Proc
    BY <2>1, Fields
  <2>3. judged[q].written => status'[judged[q].owner] \notin {"up", "frozen"}
    BY <2>1, <2>2, DeadStays DEF Live
  <2>4. judged[q].written /\ outcome[q] = "removed" => ~OwnedBy(file', judged[q].owner)
    BY <2>1, <2>2, GoneStays
  <2> QED
    BY <1>1, <2>1, <2>3, <2>4 DEF OwnedBy
<1>2. ASSUME NEW q \in Proc, bpc'[q] = bpc[q], pc'[q] = pc[q], judged'[q] = judged[q],
             outcome'[q] = outcome[q]
      PROVE  V(q)'
  BY <1>1, <1>2 DEF ReportInv, Live
<1>3. ASSUME NEW q \in Proc, q # p PROVE V(q)'
  BY <1>2, <1>3, Locals
<1>4. V(p)'
  <2> USE <1>0 DEF At, Here, Goto, Move
  \* In the break lock nothing is reported removed but what is, or is no longer there.
  <2>1. ASSUME pc[p] = "break", UNCHANGED <<pc, judged>>,
               outcome'[p] = "removed" => outcome[p] = "removed" \/ file' = NoFile
        PROVE  V(p)'
    BY <1>1, <2>1 DEF Live
  <2>2. bpc[p] # "idle" => pc[p] = "break"
    BY DEF ReportInv
  <2>3. CASE Judge(p)
    <3>1. CASE IsStale(file) /\ judged' = [judged EXCEPT ![p] = file] /\ CallRemove(p) /\ Move(p, "break")
      <4>1. file \in File /\ UNCHANGED status /\ (file.written => ~Live(file.owner))
        BY <2>3, <3>1 DEF IsStale, Judge, Live
      <4>2. pc'[p] = "break" /\ outcome'[p] = "none" /\ judged'[p] = file
        BY <2>3, <3>1 DEF Judge, CallRemove, IsStale
      <4> QED
        BY <4>1, <4>2, FileTypes DEF Live
    <3>2. CASE Move(p, "create") /\ UNCHANGED <<judged, bvars>>
      BY <2>2, <2>3, <3>2 DEF Judge, bvars
    <3> QED
      BY <2>3, <3>1, <3>2 DEF Judge
  <2>4. CASE BreakStep(p) /\ UNCHANGED pc
    <3>1. UNCHANGED judged /\ bpc[p] # "idle"
      BY <2>4 DEF BreakStep, TakeBreak, InspectBreak, MarkReclaim, StampMarker, RecheckBreak,
         RemoveBreakDebris, Unmark, ReadMarker, RecheckMarker, RemoveMarker, StampBreak, Compare,
         RemoveFile, DropBreak, UnlinkBreak
    <3>2. outcome'[p] = "removed" => outcome[p] = "removed" \/ file' = NoFile
      <4>1. CASE Compare(p)
        BY <4>1 DEF Compare
      <4>2. CASE RemoveFile(p)
        BY <4>2 DEF RemoveFile
      <4>3. CASE TakeBreak(p) \/ InspectBreak(p) \/ MarkReclaim(p) \/ StampMarker(p)
        BY <4>3 DEF TakeBreak, InspectBreak, MarkReclaim, StampMarker, Return, Retry
      <4>4. CASE RecheckBreak(p) \/ RemoveBreakDebris(p) \/ Unmark(p) \/ ReadMarker(p)
        BY <4>4 DEF RecheckBreak, RemoveBreakDebris, Unmark, ReadMarker, Return, Retry
      <4>5. CASE RecheckMarker(p) \/ RemoveMarker(p) \/ StampBreak(p) \/ DropBreak(p) \/ UnlinkBreak(p)
        BY <4>5 DEF RecheckMarker, RemoveMarker, StampBreak, DropBreak, UnlinkBreak, Return
      <4> QED
        BY <2>4, <4>1, <4>2, <4>3, <4>4, <4>5 DEF BreakStep
    <3> QED
      BY <2>1, <2>2, <2>4, <3>1, <3>2
  <2>5. CASE Exit(p) \/ Crash(p)
    BY <2>5 DEF Exit, Crash, Forget, Return
  <2>6. CASE Enter(p) \/ GiveUp(p) \/ TryCreate(p) \/ WriteLock(p) \/ UnwriteLock(p)
    BY <2>2, <2>6 DEF Enter, GiveUp, TryCreate, WriteLock, UnwriteLock, bvars
  <2>7. CASE AssertHeld(p) \/ Effect(p) \/ Leave(p) \/ ReadToken(p) \/ Unlink(p)
    BY <2>2, <2>7 DEF AssertHeld, Effect, Leave, ReadToken, Unlink, bvars
  <2>8. CASE AfterRemove(p)
    BY <2>8 DEF AfterRemove
  <2>9. CASE Heartbeat(p) \/ Recycle(p) \/ Freeze(p) \/ Thaw(p)
    BY <1>2, <2>9 DEF Heartbeat, Recycle, Freeze, Thaw, bvars
  <2> QED
    BY <2>3, <2>4, <2>5, <2>6, <2>7, <2>8, <2>9 DEF Step, LockStep, Fault
<1> QED
  BY <1>3, <1>4 DEF ReportInv

(* A removal reported done is done, for every set of processes, whatever    *)
(* crashes, is suspended or fails, as long as locks are broken on the death *)
(* of their holder only: a holder that was merely frozen may be back.       *)
THEOREM Removed ==
  ASSUME BreakFrozen = FALSE
  PROVE  Spec => []RemovedMeansGone
<1>1. LockInit => TypeInv /\ ReportInv
  BY TypeInit DEF LockInit, BreakInit, ReportInv
<1>2. TypeInv /\ ReportInv /\ [Next]_lvars => TypeInv' /\ ReportInv'
  <2> SUFFICES ASSUME TypeInv, ReportInv, [Next]_lvars PROVE TypeInv' /\ ReportInv'
    OBVIOUS
  <2>1. TypeInv'
    BY TypeNext
  <2>2. ASSUME NEW p \in Proc, Step(p) PROVE ReportInv'
    BY <2>1, <2>2, ReportStep
  <2>3. CASE UNCHANGED <<status, judged, pc, bpc, outcome>> /\ (file' = file \/ (file # NoFile /\ file' = Aged(file)))
    <3>1. \A r : ~OwnedBy(file, r) => ~OwnedBy(file', r)
      BY <2>3, FileFields DEF OwnedBy, TypeInv, TypeOK, BreakTypeOK
    <3> QED
      BY <2>1, <2>3, <3>1 DEF ReportInv, Live
  <2> QED
    BY <2>1, <2>2, <2>3, StepCases DEF Clock, AgeLock, AgeBreak, AgeMarker, lvars, bvars
<1>3. ReportInv => RemovedMeansGone
  BY DEF ReportInv, RemovedMeansGone, SameFile, OwnedBy
<1> QED
  BY <1>1, <1>2, <1>3, PTL DEF Spec
===============================================================================
