-------------------------------- MODULE StateLock --------------------------------
(***************************************************************************)
(* The state lock and the updates of state files under it                      *)
(* (src/src/state-lock.ts, src/src/json-file.ts): contexts of one process take *)
(* their turn in memory, one of them per process competes for state.lock, a    *)
(* lock that is debris is removed under the break lock, and the holder looks   *)
(* at its token once more before it renames a new version into place.          *)
(*                                                                             *)
(* The break lock lets one breaker in at a time; its own debris is BreakLock.  *)
(***************************************************************************)
EXTENDS Naturals, Sequences

CONSTANTS
  Proc,         \* processes; a killed one is replaced
  Context,      \* asynchronous contexts that update the file
  Host,         \* the process each of them runs in
  Pid,          \* process identifiers, recycled
  Nobody,       \* no context: of a free break lock, of the token of a dead process
  NoFile,       \* state.lock is not there
  MaxUpdates,   \* updates of one context
  FailAt,       \* steps that may fail: "write", "unlink", "rename", "release"
  CrashAt,      \* processes that may be killed, or exit
  Windows       \* "write": a lock is written between the comparison of a breaker and
                \* its removal, or given up after it was taken for debris

ASSUME StateLockAssumption ==
  /\ Host \in [Context -> Proc]
  /\ Nobody \notin Context
  /\ MaxUpdates \in Nat
  /\ NoFile \notin [by : Context \cup {Nobody}, pid : Pid, written : BOOLEAN, old : BOOLEAN]

VARIABLES
  lockFile,     \* state.lock
  owned,        \* ownedLocks: the token each process knows as its own
  tails,        \* localTails: the contexts of a process, in the order they came
  pid,          \* of each process
  breaker,      \* the holder of state.lock.break
  pc, seen,     \* program point; the lock file a context judged
  copy,         \* what it read
  store         \* the state file

vars == <<lockFile, owned, tails, pid, breaker, pc, seen, copy, store>>

\* Content and age of a lock; `old`: beyond UNREADABLE_DEBRIS_MS, IDENTITY_CHECK_AFTER_MS.
File == [by : Context \cup {Nobody}, pid : Pid, written : BOOLEAN, old : BOOLEAN]
Value == [Context -> Nat]
PCs == {"idle", "turn", "create", "write", "own", "look", "compare", "unlink",
        "read", "check", "rename", "release"}

TypeOK ==
  /\ lockFile \in File \cup {NoFile}
  /\ owned \in [Proc -> Context \cup {Nobody}]
  /\ tails \in [Proc -> Seq(Context)]
  /\ pid \in [Proc -> Pid]
  /\ breaker \in Context \cup {Nobody}
  /\ pc \in [Context -> PCs]
  /\ seen \in [Context -> File \cup {NoFile}]
  /\ copy \in [Context -> Value]
  /\ store \in Value

Zero == [c \in Context |-> 0]

Init ==
  /\ lockFile = NoFile
  /\ owned = [p \in Proc |-> Nobody]
  /\ tails = [p \in Proc |-> <<>>]
  /\ pid \in [Proc -> Pid]
  /\ \A p, q \in Proc : p # q => pid[p] # pid[q]
  /\ breaker = Nobody
  /\ pc = [c \in Context |-> "idle"]
  /\ seen = [c \in Context |-> NoFile]
  /\ copy = [c \in Context |-> Zero]
  /\ store = Zero

Goto(c, l) == pc' = [pc EXCEPT ![c] = l]
Fails(s) == s \in FailAt
There == lockFile # NoFile
Ours(c) == There /\ lockFile.written /\ lockFile.by = c
Breaking == \E c \in Context : pc[c] = "unlink"
Undisturbed == "write" \in Windows \/ ~Breaking

\* The end of an update, done or refused: the next context of the process.
Leave(c) ==
  /\ Goto(c, "idle")
  /\ tails' = [tails EXCEPT ![Host[c]] = Tail(@)]
  /\ copy' = [copy EXCEPT ![c] = Zero]
  /\ seen' = [seen EXCEPT ![c] = NoFile]

-----------------------------------------------------------------------------
(* withFileLock *)

\* updateJsonLocked is called, in a context that does not hold the lock.
Ask(c) ==
  /\ pc[c] = "idle"
  /\ store[c] < MaxUpdates
  /\ tails' = [tails EXCEPT ![Host[c]] = Append(@, c)]
  /\ Goto(c, "turn")
  /\ UNCHANGED <<lockFile, owned, pid, breaker, seen, copy, store>>

\* Mutant: no turn is waited for.
TurnAtOnce(c) ==
  /\ pc[c] = "turn"
  /\ Goto(c, "create")
  /\ UNCHANGED <<lockFile, owned, tails, pid, breaker, seen, copy, store>>

\* `await previous`
Turn(c) ==
  /\ pc[c] = "turn"
  /\ tails[Host[c]] # <<>> /\ Head(tails[Host[c]]) = c
  /\ Goto(c, "create")
  /\ UNCHANGED <<lockFile, owned, tails, pid, breaker, seen, copy, store>>

\* acquireFile: exclusive creation, arbitrated by the kernel,
Create(c) ==
  /\ pc[c] = "create"
  /\ IF There
     THEN Goto(c, "look") /\ UNCHANGED lockFile
     ELSE /\ lockFile' = [by |-> c, pid |-> pid[Host[c]], written |-> FALSE, old |-> FALSE]
          /\ Goto(c, "write")
  /\ UNCHANGED <<owned, tails, pid, breaker, seen, copy, store>>

\* then the content.  A file removed meanwhile takes it along; a write that fails
\* unlinks the path.
Write(c) ==
  /\ pc[c] = "write"
  /\ Undisturbed
  /\ \/ /\ lockFile' = IF There /\ lockFile.by = c THEN [lockFile EXCEPT !.written = TRUE]
                       ELSE lockFile
        /\ Goto(c, "own")
        /\ UNCHANGED <<tails, seen, copy>>
     \/ /\ Fails("write")
        /\ "write" \in Windows \/ (There => lockFile.by = c)
        /\ lockFile' = NoFile
        /\ Leave(c)
  /\ UNCHANGED <<owned, pid, breaker, store>>

Own(c) ==
  /\ pc[c] = "own"
  /\ owned' = [owned EXCEPT ![Host[c]] = c]
  /\ Goto(c, "read")
  /\ UNCHANGED <<lockFile, tails, pid, breaker, seen, copy, store>>

\* judge: a lock nobody wrote, of a process that is gone, or whose number was taken.
Debris(c, f) ==
  IF ~f.written THEN f.old
  ELSE IF f.pid = pid[Host[c]] THEN f.by = Nobody \/ f.by # owned[Host[c]]
  ELSE \/ \A p \in Proc : pid[p] # f.pid
       \/ f.old /\ f.by = Nobody

\* The lock is read: gone, debris, or held by somebody, for whom one waits or,
\* past the deadline, does not.
Look(c) ==
  /\ pc[c] = "look"
  /\ \/ /\ There => ~Debris(c, lockFile)
        /\ Goto(c, "create")
        /\ UNCHANGED <<tails, seen, copy>>
     \/ /\ There /\ Debris(c, lockFile)
        /\ seen' = [seen EXCEPT ![c] = lockFile]
        /\ Goto(c, "compare")
        /\ UNCHANGED <<tails, copy>>
     \/ /\ There /\ ~Debris(c, lockFile)
        /\ Leave(c)
  /\ UNCHANGED <<lockFile, owned, pid, breaker, store>>

\* The same content and the same mtime: time passed, or its writer died.
SameFile(f, g) ==
  /\ f.pid = g.pid /\ f.written = g.written
  /\ f.old => g.old
  /\ g.by \in {f.by, Nobody}

\* removeIfUnchangedAt: under the break lock the file is read again,
Compare(c) ==
  /\ pc[c] = "compare"
  /\ IF breaker = Nobody /\ There /\ SameFile(seen[c], lockFile)
     THEN breaker' = c /\ Goto(c, "unlink")
     ELSE Goto(c, "look") /\ UNCHANGED breaker
  /\ seen' = [seen EXCEPT ![c] = NoFile]
  /\ UNCHANGED <<lockFile, owned, tails, pid, copy, store>>

\* and unlinked by its path.
Unlink(c) ==
  /\ pc[c] = "unlink"
  /\ \/ lockFile' = NoFile /\ Goto(c, "create")
     \/ Fails("unlink") /\ Goto(c, "look") /\ UNCHANGED lockFile
  /\ breaker' = Nobody
  /\ UNCHANGED <<owned, tails, pid, seen, copy, store>>

-----------------------------------------------------------------------------
(* updateJsonLocked *)

Read(c) ==
  /\ pc[c] = "read"
  /\ copy' = [copy EXCEPT ![c] = store]
  /\ \/ Goto(c, "check")
     \/ Goto(c, "release")   \* the mutator throws, or answers UNCHANGED
  /\ UNCHANGED <<lockFile, owned, tails, pid, breaker, seen, store>>

\* Mutant: the lock is not looked at before the write.
CheckBlind(c) ==
  /\ pc[c] = "check"
  /\ Goto(c, "rename")
  /\ UNCHANGED <<lockFile, owned, tails, pid, breaker, seen, copy, store>>

\* assertStateLockHeld
Check(c) ==
  /\ pc[c] = "check"
  /\ Goto(c, IF Ours(c) THEN "rename" ELSE "release")
  /\ UNCHANGED <<lockFile, owned, tails, pid, breaker, seen, copy, store>>

\* writeJsonAtomic: the whole new version, or the old one.  An update nested in this
\* one (syncLocks) needs no lock of its own.
Rename(c) ==
  /\ pc[c] = "rename"
  /\ \/ /\ store' = [copy[c] EXCEPT ![c] = @ + 1]
        /\ \/ Goto(c, "release")
           \/ store'[c] < MaxUpdates /\ Goto(c, "read")
     \/ Fails("rename") /\ Goto(c, "release") /\ UNCHANGED store
  /\ UNCHANGED <<lockFile, owned, tails, pid, breaker, seen, copy>>

\* releaseFile: the token is read, then the file removed, which may be refused.
Release(c) ==
  /\ pc[c] = "release"
  /\ IF Ours(c)
     THEN \/ /\ lockFile' = NoFile
             /\ owned' = [owned EXCEPT ![Host[c]] = Nobody]
          \/ Fails("release") /\ UNCHANGED <<lockFile, owned>>
     ELSE /\ owned' = [owned EXCEPT ![Host[c]] = Nobody]
          /\ UNCHANGED lockFile
  /\ Leave(c)
  /\ UNCHANGED <<pid, breaker, store>>

-----------------------------------------------------------------------------
(* The outside: time, kills and exits. *)

Age ==
  /\ There /\ ~lockFile.old
  /\ lockFile' = [lockFile EXCEPT !.old = TRUE]
  /\ UNCHANGED <<owned, tails, pid, breaker, pc, seen, copy, store>>

In(p) == {c \in Context : Host[c] = p}

\* Its lock stays behind, unless the process exits and its listener removes it; the
\* next process has a number that is free, perhaps the same.
Dies(p, left) ==
  /\ p \in CrashAt
  /\ lockFile' = left
  /\ \E n \in Pid : /\ \A q \in Proc \ {p} : pid[q] # n
                    /\ pid' = [pid EXCEPT ![p] = n]
  /\ owned' = [owned EXCEPT ![p] = Nobody]
  /\ tails' = [tails EXCEPT ![p] = <<>>]
  /\ breaker' = IF breaker \in In(p) THEN Nobody ELSE breaker
  /\ pc' = [c \in Context |-> IF c \in In(p) THEN "idle" ELSE pc[c]]
  /\ seen' = [c \in Context |-> IF c \in In(p) THEN NoFile ELSE seen[c]]
  /\ copy' = [c \in Context |-> IF c \in In(p) THEN Zero ELSE copy[c]]
  /\ UNCHANGED store

Crash(p) ==
  Dies(p, IF There /\ lockFile.by \in In(p) THEN [lockFile EXCEPT !.by = Nobody] ELSE lockFile)

Exit(p) ==
  /\ owned[p] # Nobody /\ Ours(owned[p])
  /\ Dies(p, NoFile)

Next ==
  \/ \E c \in Context :
       \/ Ask(c) \/ Turn(c) \/ Create(c) \/ Write(c) \/ Own(c) \/ Look(c) \/ Compare(c) \/ Unlink(c)
       \/ Read(c) \/ Check(c) \/ Rename(c) \/ Release(c)
  \/ \E p \in Proc : Crash(p) \/ Exit(p)
  \/ Age

Spec == Init /\ [][Next]_vars

-----------------------------------------------------------------------------
Kept(c) == Ours(c) => Ours(c)' \/ Release(c) \/ Crash(Host[c]) \/ Exit(Host[c])

\* A lock that is written, of a live process, is removed by its holder only: whatever
\* others judged before, however late they remove (judge, removeIfUnchangedAt).
HolderKeeps == [][\A c \in Context : Kept(c)]_vars

\* The state file is a register whose updates are whole and never lost, although
\* two contexts may be in the section at once after a lock was taken for debris.
Register == INSTANCE StateRegister WITH value <- store
ImplementsRegister == Register!Spec
=============================================================================
