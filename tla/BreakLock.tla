------------------------------ MODULE BreakLock ------------------------------
(***************************************************************************)
(* The break lock of src/src/break-lock.ts: the brick that serialises every *)
(* removal of a file left by somebody else (a stale main.lock, a stale      *)
(* state.lock, an orphan waiting ticket).                                   *)
(*                                                                          *)
(* A process that judged `file' stale takes the break lock (exclusive       *)
(* creation, 'wx'), re-reads `file', compares it with what it judged and    *)
(* unlinks it.  A break lock left by a dead breaker is itself reclaimed     *)
(* under a second exclusive file, the reclaim marker.  One action is one    *)
(* system call of one process: everything may happen between two of them.   *)
(*                                                                          *)
(* The module that owns `file' extends this one: it says how a process      *)
(* comes to judge `file' and what it does with the outcome.                 *)
(***************************************************************************)
EXTENDS Naturals

CONSTANTS
  Proc,       \* operating-system processes, dead ones included
  Ghost,      \* the processes that died before the behaviour starts
  NoFile,     \* "the path does not exist"
  Empty,      \* the content of a file created but not written yet
  CrashAt,    \* program points where a process may be killed
  FreezeAt,   \* program points where a process may be suspended for long
  FailAt      \* program points whose system call may fail for good

ASSUME BreakLockAssumption ==
  /\ Ghost \subseteq Proc
  /\ NoFile \notin [owner : Proc, written : BOOLEAN, aged : BOOLEAN]
  /\ NoFile \notin Proc
  /\ Empty \notin Proc

VARIABLES
  status,     \* process -> "up", "frozen", "dead" or "recycled" (dead, its PID reused)
  file,       \* the protected file: NoFile or a File
  judged,     \* process -> the value of `file' it judged stale
  breakFile,  \* the break lock: NoFile or a File
  marker,     \* the reclaim marker: NoFile or a File
  bpc,        \* process -> where it stands in removeIfUnchangedAt
  attempt,    \* process -> attempts spent in underBreakLockAt
  seen,       \* process -> raw content it judged debris (break lock or marker)
  outcome     \* process -> issue of the removal under way

-----------------------------------------------------------------------------
(* Files.  A random token, or a PID and a date, is written in each: the     *)
(* owner stands for that content.  `aged' abstracts the clock: the file has *)
(* had no sign of life for longer than every threshold of the code.         *)

File == [owner : Proc, written : BOOLEAN, aged : BOOLEAN]

Created(p) == [owner |-> p, written |-> FALSE, aged |-> FALSE]
Stamped(f) == [f EXCEPT !.written = TRUE, !.aged = FALSE]
Aged(f) == [f EXCEPT !.aged = TRUE]
Raw(f) == IF f = NoFile THEN NoFile ELSE IF f.written THEN f.owner ELSE Empty

OwnedBy(f, p) == f # NoFile /\ f.owner = p
DistinctOwners(f, g) == (f # NoFile /\ g # NoFile) => f.owner # g.owner
\* Same content, and same mtime: the file was not rewritten since it was `then'.
SameFile(now, then) ==
  /\ now # NoFile
  /\ now.owner = then.owner
  /\ now.written = then.written
  /\ then.aged => now.aged
Bears(f, p) == OwnedBy(f, p) /\ f.written          \* it bears the token of p

Up(p) == status[p] = "up"
Live(p) == status[p] \in {"up", "frozen"}          \* the program p really exists
PidAlive(p) == status[p] # "dead"                  \* what a probe of its PID says

Fails(l) == l \in FailAt

Statuses == {"up", "frozen", "dead", "recycled"}
BreakTakeAttempts == 3

\* underBreakLockAt after its 'wx' succeeded; reclaimBreakLock after its own.
BreakPcs == {"stamp", "compare", "rm", "drop", "unlinkBreak"}
ReclaimPcs == {"markStamp", "recheck", "rmBreak", "unmark"}
OrphanPcs == {"orphan", "orphanCheck", "orphanRm"}
BPcs == {"idle", "take", "inspect", "mark"} \cup BreakPcs \cup ReclaimPcs \cup OrphanPcs

Outcomes == {"none", "removed", "abstained", "busy", "failed", "error"}

bvars == <<breakFile, marker, bpc, attempt, seen, outcome>>

BreakTypeOK ==
  /\ status \in [Proc -> Statuses]
  /\ file \in File \cup {NoFile}
  /\ judged \in [Proc -> File \cup {NoFile}]
  /\ breakFile \in File \cup {NoFile}
  /\ marker \in File \cup {NoFile}
  /\ bpc \in [Proc -> BPcs]
  /\ attempt \in [Proc -> 0..BreakTakeAttempts]
  /\ seen \in [Proc -> Proc \cup {Empty, NoFile}]
  /\ outcome \in [Proc -> Outcomes]

\* What a dead process may have left: an empty file if it was killed in one of
\* the points `empty', a written one if it was killed in one of `full'.
Debris(empty, full) ==
  {f \in File : /\ f.owner \in Ghost
                /\ ~f.aged
                /\ CrashAt \cap (IF f.written THEN full ELSE empty) # {}}

BreakInit ==
  /\ status = [p \in Proc |-> IF p \in Ghost THEN "dead" ELSE "up"]
  /\ judged = [p \in Proc |-> NoFile]
  /\ breakFile \in {NoFile} \cup Debris({"stamp"}, BreakPcs \ {"stamp"})
  /\ marker \in {NoFile} \cup Debris({"markStamp"}, ReclaimPcs \ {"markStamp"})
  /\ DistinctOwners(breakFile, marker)
  /\ bpc = [p \in Proc |-> "idle"]
  /\ attempt = [p \in Proc |-> 0]
  /\ seen = [p \in Proc |-> NoFile]
  /\ outcome = [p \in Proc |-> "none"]

-----------------------------------------------------------------------------
(* Judgements.                                                              *)

\* Mutant: an empty break lock is taken for one being written, for ever.
WrittenDebrisOnly(f) == f # NoFile /\ f.written /\ status[f.owner] = "dead"

\* isBreakLockDebris: invalid and old, dead, or silent and borne by another program.
IsBreakLockDebris(f) ==
  /\ f # NoFile
  /\ IF f.written
     THEN status[f.owner] = "dead" \/ (f.aged /\ status[f.owner] = "recycled")
     ELSE f.aged

\* clearOrphanReclaimMarker: its PID is dead, or invalid and old.
IsOrphanMarker(f) ==
  /\ f # NoFile
  /\ IF f.written THEN ~PidAlive(f.owner) ELSE f.aged

-----------------------------------------------------------------------------
(* Steps of process p.                                                      *)

At(p, l) == Up(p) /\ bpc[p] = l
Goto(p, l) == bpc' = [bpc EXCEPT ![p] = l]

\* removeIfUnchangedAt returns outcome o to its caller.
Return(p, o) ==
  /\ Goto(p, "idle")
  /\ outcome' = [outcome EXCEPT ![p] = o]
  /\ attempt' = [attempt EXCEPT ![p] = 0]
  /\ seen' = [seen EXCEPT ![p] = NoFile]

\* The next turn of the loop of underBreakLockAt.
Retry(p) ==
  /\ Goto(p, "take")
  /\ attempt' = [attempt EXCEPT ![p] = @ + 1]
  /\ seen' = [seen EXCEPT ![p] = NoFile]
  /\ UNCHANGED outcome

\* removeIfUnchangedAt is called: judged[p] is what the caller saw.
CallRemove(p) ==
  /\ Goto(p, "take")
  /\ outcome' = [outcome EXCEPT ![p] = "none"]
  /\ UNCHANGED <<breakFile, marker, attempt, seen>>

\* Mutant: one attempt too many.
TakeBreakOnceMore(p) ==
  /\ At(p, "take")
  /\ \/ /\ attempt[p] > BreakTakeAttempts
        /\ Return(p, "busy")
        /\ UNCHANGED breakFile
     \/ /\ breakFile = NoFile
        /\ breakFile' = Created(p)
        /\ Goto(p, "stamp")
        /\ UNCHANGED <<attempt, seen, outcome>>
     \/ /\ breakFile # NoFile
        /\ Goto(p, "inspect")
        /\ UNCHANGED <<breakFile, attempt, seen, outcome>>
  /\ UNCHANGED <<status, file, judged, marker>>

TakeBreak(p) ==
  /\ At(p, "take")
  /\ \/ /\ attempt[p] = BreakTakeAttempts
        /\ Return(p, "busy")
        /\ UNCHANGED breakFile
     \/ /\ attempt[p] < BreakTakeAttempts
        /\ breakFile = NoFile
        /\ breakFile' = Created(p)
        /\ Goto(p, "stamp")
        /\ UNCHANGED <<attempt, seen, outcome>>
     \/ /\ attempt[p] < BreakTakeAttempts
        /\ breakFile # NoFile
        /\ Goto(p, "inspect")
        /\ UNCHANGED <<breakFile, attempt, seen, outcome>>
     \/ /\ attempt[p] < BreakTakeAttempts
        /\ Fails("take")
        /\ Return(p, "error")
        /\ UNCHANGED breakFile
  /\ UNCHANGED <<status, file, judged, marker>>

InspectBreak(p) ==
  /\ At(p, "inspect")
  /\ \/ breakFile = NoFile /\ Retry(p)
     \/ /\ breakFile # NoFile
        /\ ~IsBreakLockDebris(breakFile)
        /\ Return(p, "busy")
     \/ /\ IsBreakLockDebris(breakFile)
        /\ seen' = [seen EXCEPT ![p] = Raw(breakFile)]
        /\ Goto(p, "mark")
        /\ UNCHANGED <<attempt, outcome>>
     \/ Fails("inspect") /\ Return(p, "busy")       \* unreadable: never a debris
  /\ UNCHANGED <<status, file, judged, breakFile, marker>>

\* Mutant: compare then remove, without the marker that serialises it.
ReclaimUnmarked(p) ==
  /\ At(p, "mark")
  /\ Goto(p, "recheck")
  /\ UNCHANGED <<status, file, judged, breakFile, marker, attempt, seen, outcome>>

\* reclaimBreakLock: exclusive creation of the marker.
MarkReclaim(p) ==
  /\ At(p, "mark")
  /\ \/ /\ marker = NoFile
        /\ marker' = Created(p)
        /\ Goto(p, "markStamp")
        /\ UNCHANGED <<attempt, seen, outcome>>
     \/ /\ marker # NoFile
        /\ Goto(p, "orphan")
        /\ UNCHANGED <<marker, attempt, seen, outcome>>
     \/ Fails("mark") /\ Return(p, "error") /\ UNCHANGED marker
  /\ UNCHANGED <<status, file, judged, breakFile>>

\* The handle still writes to the file it opened, which may have left the path.
StampMarker(p) ==
  /\ At(p, "markStamp")
  /\ \/ /\ marker' = IF OwnedBy(marker, p) THEN Stamped(marker) ELSE marker
        /\ Goto(p, "recheck")
        /\ UNCHANGED outcome
     \/ /\ Fails("markStamp")
        /\ Goto(p, "unmark")
        /\ outcome' = [outcome EXCEPT ![p] = "error"]
        /\ UNCHANGED marker
  /\ UNCHANGED <<status, file, judged, breakFile, attempt, seen>>

\* Mutant: the break lock is removed on the first judgement, not read again.
NoRecheck(p) ==
  /\ At(p, "recheck")
  /\ Goto(p, "rmBreak")
  /\ UNCHANGED <<status, file, judged, breakFile, marker, attempt, seen, outcome>>

RecheckBreak(p) ==
  /\ At(p, "recheck")
  /\ \/ breakFile = NoFile /\ Goto(p, "unmark") /\ UNCHANGED outcome
     \/ /\ breakFile # NoFile
        /\ Raw(breakFile) # seen[p]
        /\ Goto(p, "unmark")
        /\ outcome' = [outcome EXCEPT ![p] = "busy"]
     \/ /\ Raw(breakFile) = seen[p]
        /\ Goto(p, "rmBreak")
        /\ UNCHANGED outcome
     \/ /\ Fails("recheck")
        /\ Goto(p, "unmark")
        /\ outcome' = [outcome EXCEPT ![p] = "busy"]
  /\ UNCHANGED <<status, file, judged, breakFile, marker, attempt, seen>>

\* The unlink names a path: it removes whatever the path holds by now.
RemoveBreakDebris(p) ==
  /\ At(p, "rmBreak")
  /\ Goto(p, "unmark")
  /\ \/ breakFile' = NoFile /\ UNCHANGED outcome
     \/ /\ Fails("rmBreak")
        /\ outcome' = [outcome EXCEPT ![p] = "failed"]
        /\ UNCHANGED breakFile
  /\ UNCHANGED <<status, file, judged, marker, attempt, seen>>

\* The finally of reclaimBreakLock: the marker is unlinked, whoever owns it.
Unmark(p) ==
  /\ At(p, "unmark")
  /\ \/ marker' = NoFile
     \/ Fails("unmark") /\ UNCHANGED marker
  /\ IF outcome[p] = "none" THEN Retry(p) ELSE Return(p, outcome[p])
  /\ UNCHANGED <<status, file, judged, breakFile>>

\* clearOrphanReclaimMarker: read and judge, read again, unlink.
ReadMarker(p) ==
  /\ At(p, "orphan")
  /\ \/ /\ IsOrphanMarker(marker)
        /\ seen' = [seen EXCEPT ![p] = Raw(marker)]
        /\ Goto(p, "orphanCheck")
        /\ UNCHANGED <<attempt, outcome>>
     \/ /\ ~IsOrphanMarker(marker) \/ Fails("orphan")
        /\ Return(p, "busy")
  /\ UNCHANGED <<status, file, judged, breakFile, marker>>

RecheckMarker(p) ==
  /\ At(p, "orphanCheck")
  /\ \/ /\ Raw(marker) = seen[p]
        /\ Goto(p, "orphanRm")
        /\ UNCHANGED <<attempt, seen, outcome>>
     \/ /\ Raw(marker) # seen[p] \/ Fails("orphanCheck")
        /\ Return(p, "busy")
  /\ UNCHANGED <<status, file, judged, breakFile, marker>>

RemoveMarker(p) ==
  /\ At(p, "orphanRm")
  /\ \/ marker' = NoFile
     \/ Fails("orphanRm") /\ UNCHANGED marker
  /\ Return(p, "busy")
  /\ UNCHANGED <<status, file, judged, breakFile>>

\* Holder of the break lock: its token is written, then fn runs.  A failed
\* write surfaces; the finally finds no token of its own and leaves the file.
StampBreak(p) ==
  /\ At(p, "stamp")
  /\ \/ /\ breakFile' = IF OwnedBy(breakFile, p) THEN Stamped(breakFile) ELSE breakFile
        /\ Goto(p, "compare")
        /\ UNCHANGED <<attempt, seen, outcome>>
     \/ Fails("stamp") /\ Return(p, "error") /\ UNCHANGED breakFile
  /\ UNCHANGED <<status, file, judged, marker>>

\* Mutant: the file is removed without being compared with what was judged.
CompareBlind(p) ==
  /\ At(p, "compare")
  /\ Goto(p, "rm")
  /\ UNCHANGED <<status, file, judged, breakFile, marker, attempt, seen, outcome>>

\* fn of removeIfUnchangedAt: re-read, compare content and mtime.
Compare(p) ==
  /\ At(p, "compare")
  /\ \/ /\ file = NoFile
        /\ Goto(p, "drop")
        /\ outcome' = [outcome EXCEPT ![p] = "removed"]
     \/ /\ file # NoFile
        /\ ~SameFile(file, judged[p]) \/ Fails("compare")
        /\ Goto(p, "drop")
        /\ outcome' = [outcome EXCEPT ![p] = "abstained"]
     \/ /\ SameFile(file, judged[p])
        /\ Goto(p, "rm")
        /\ UNCHANGED outcome
  /\ UNCHANGED <<status, file, judged, breakFile, marker, attempt, seen>>

\* Mutant: the return of rm is believed, the path is not looked at again.
RemoveUnchecked(p) ==
  /\ At(p, "rm")
  /\ Goto(p, "drop")
  /\ outcome' = [outcome EXCEPT ![p] = "removed"]
  /\ file' = NoFile \/ (Fails("rm") /\ UNCHANGED file)
  /\ UNCHANGED <<status, judged, breakFile, marker, attempt, seen>>

RemoveFile(p) ==
  /\ At(p, "rm")
  /\ Goto(p, "drop")
  /\ \/ /\ file' = NoFile
        /\ outcome' = [outcome EXCEPT ![p] = "removed"]
     \/ /\ Fails("rm")
        /\ outcome' = [outcome EXCEPT ![p] = IF file = NoFile THEN "removed" ELSE "failed"]
        /\ UNCHANGED file
  /\ UNCHANGED <<status, judged, breakFile, marker, attempt, seen>>

\* The finally of underBreakLockAt: only a break lock that bears our token is unlinked.
DropBreak(p) ==
  /\ At(p, "drop")
  /\ \/ /\ Bears(breakFile, p)
        /\ Goto(p, "unlinkBreak")
        /\ UNCHANGED <<attempt, seen, outcome>>
     \/ /\ ~Bears(breakFile, p) \/ Fails("drop")
        /\ Return(p, outcome[p])
  /\ UNCHANGED <<status, file, judged, breakFile, marker>>

UnlinkBreak(p) ==
  /\ At(p, "unlinkBreak")
  /\ \/ breakFile' = NoFile
     \/ Fails("unlinkBreak") /\ UNCHANGED breakFile
  /\ Return(p, outcome[p])
  /\ UNCHANGED <<status, file, judged, marker>>

BreakStep(p) ==
  \/ TakeBreak(p) \/ InspectBreak(p)
  \/ MarkReclaim(p) \/ StampMarker(p) \/ RecheckBreak(p) \/ RemoveBreakDebris(p) \/ Unmark(p)
  \/ ReadMarker(p) \/ RecheckMarker(p) \/ RemoveMarker(p)
  \/ StampBreak(p) \/ Compare(p) \/ RemoveFile(p) \/ DropBreak(p) \/ UnlinkBreak(p)

-----------------------------------------------------------------------------
(* The clock: a file gets old only while nobody tends it.  A process that   *)
(* runs holds the break lock or the marker for milliseconds.                *)

AgeBreak ==
  /\ breakFile # NoFile
  /\ ~breakFile.aged
  /\ ~(Up(breakFile.owner) /\ bpc[breakFile.owner] \in BreakPcs)
  /\ breakFile' = Aged(breakFile)
  /\ UNCHANGED <<status, file, judged, marker, bpc, attempt, seen, outcome>>

AgeMarker ==
  /\ marker # NoFile
  /\ ~marker.aged
  /\ ~(Up(marker.owner) /\ bpc[marker.owner] \in ReclaimPcs)
  /\ marker' = Aged(marker)
  /\ UNCHANGED <<status, file, judged, breakFile, bpc, attempt, seen, outcome>>
=============================================================================
