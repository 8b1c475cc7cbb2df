---------------------------- MODULE StateLock_proofs ----------------------------
(***************************************************************************)
(* A state file is a register: no update is lost, and no lock of a live        *)
(* process is taken from it, when no lock is written between the comparison of *)
(* a breaker and its removal.  The argument: in one process one context at a   *)
(* time is past its turn, so a lock that bears its number and not its token is *)
(* of the dead; what a breaker compares is therefore unwritten, or of the      *)
(* dead; so a lock once written stays its holder's, and what was read under it *)
(* is still the file when the new version is renamed into place.               *)
(***************************************************************************)
EXTENDS StateLock, TLAPS

\* Program points of a context whose turn has come.
Past == PCs \ {"idle", "turn"}
\* Those after its lock was created.
Created == {"write", "own", "read", "check", "rename", "release"}

PidsDiffer == \A p, q \in Proc : p # q => pid[p] # pid[q]

OneTurn ==
  \A c \in Context : pc[c] \in Past => tails[Host[c]] # <<>> /\ Head(tails[Host[c]]) = c

\* What a lock says of the context that created it.
OwnerKnown ==
  There /\ lockFile.by \in Context =>
    LET b == lockFile.by
    IN  /\ lockFile.pid = pid[Host[b]]
        /\ ~lockFile.written <=> pc[b] = "write"
        /\ lockFile.written => pc[b] = "own" \/ owned[Host[b]] = b

\* A context that created a lock shares it with no other context of its process.
Alone ==
  \A c \in Context :
    pc[c] \in Created /\ There /\ lockFile.by \in Context /\ Host[lockFile.by] = Host[c]
    => lockFile.by = c

\* The token a process knows as its own is of one of its contexts.
OwnedHere == \A p \in Proc : owned[p] \in Context => Host[owned[p]] = p

JudgedDebris ==
  \A c \in Context :
    pc[c] = "compare" => seen[c] # NoFile /\ (seen[c].written => seen[c].by = Nobody)

RemovesDebris ==
  \A c \in Context :
    pc[c] = "unlink" => breaker = c /\ (There /\ lockFile.written => lockFile.by = Nobody)

StillOurs == \A c \in Context : pc[c] = "rename" => Ours(c)

Fresh == \A c \in Context : pc[c] \in {"check", "rename"} /\ Ours(c) => copy[c] = store

IInv ==
  /\ TypeOK /\ PidsDiffer /\ OneTurn /\ OwnerKnown /\ Alone
  /\ JudgedDebris /\ RemovesDebris /\ StillOurs /\ Fresh

LEMMA InitInv == Init => IInv /\ OwnedHere
BY StateLockAssumption
   DEF Init, IInv, TypeOK, PidsDiffer, OneTurn, OwnerKnown, Alone, JudgedDebris, RemovesDebris,
       StillOurs, Fresh, OwnedHere, There, Past, Created, Zero, Value, PCs, Ours

\* One context of a process at a time is past its turn.
LEMMA SameTurn ==
  ASSUME OneTurn, NEW c \in Context, NEW d \in Context,
         pc[c] \in Past, pc[d] \in Past, Host[c] = Host[d]
  PROVE  c = d
BY DEF OneTurn
-----------------------------------------------------------------------------
(* What every step keeps in the same way. *)

LEMMA GotoTypes ==
  ASSUME TypeOK, NEW c \in Context, NEW l \in PCs, Goto(c, l)
  PROVE  pc' \in [Context -> PCs]
BY DEF TypeOK, Goto

LEMMA GotoTurn ==
  ASSUME TypeOK, OneTurn, NEW c \in Context, NEW l \in PCs, Goto(c, l), tails' = tails,
         pc[c] \in Past
  PROVE  OneTurn'
BY DEF TypeOK, OneTurn, Goto

\* A lock created, written, aged or orphaned is a lock.
LEMMA FileTypes ==
  ASSUME TypeOK, NEW c \in Context
  PROVE  /\ [by |-> c, pid |-> pid[Host[c]], written |-> FALSE, old |-> FALSE] \in File
         /\ There => /\ lockFile \in File
                     /\ [lockFile EXCEPT !.written = TRUE] \in File
                     /\ [lockFile EXCEPT !.old = TRUE] \in File
                     /\ [lockFile EXCEPT !.by = Nobody] \in File
         /\ NoFile \notin File
BY StateLockAssumption DEF TypeOK, File, There

LEMMA LeaveTypes ==
  ASSUME TypeOK, OneTurn, NEW c \in Context, pc[c] \in Past, Leave(c)
  PROVE  /\ pc' \in [Context -> PCs]
         /\ tails' \in [Proc -> Seq(Context)]
         /\ seen' \in [Context -> File \cup {NoFile}]
         /\ copy' \in [Context -> Value]
<1>1. pc' \in [Context -> PCs]
  BY DEF TypeOK, Leave, Goto, PCs
<1>2. tails' \in [Proc -> Seq(Context)]
  <2>1. Host[c] \in Proc /\ tails[Host[c]] \in Seq(Context) /\ tails[Host[c]] # <<>>
    BY StateLockAssumption DEF TypeOK, OneTurn
  <2>2. Tail(tails[Host[c]]) \in Seq(Context)
    BY <2>1
  <2> QED
    BY <2>1, <2>2 DEF TypeOK, Leave
<1>3. seen' \in [Context -> File \cup {NoFile}]
  BY DEF TypeOK, Leave
<1>4. Zero \in Value
  BY DEF Zero, Value
<1>5. copy' \in [Context -> Value]
  BY <1>4 DEF TypeOK, Leave
<1> QED
  BY <1>1, <1>2, <1>3, <1>5

\* The context that leaves was the one whose turn it was.
LEMMA LeaveTurn ==
  ASSUME TypeOK, OneTurn, NEW c \in Context, pc[c] \in Past, Leave(c)
  PROVE  OneTurn'
<1> SUFFICES ASSUME NEW d \in Context, pc'[d] \in Past
             PROVE  tails'[Host[d]] # <<>> /\ Head(tails'[Host[d]]) = d
  BY DEF OneTurn
<1>1. d # c /\ pc[d] \in Past
  BY DEF TypeOK, Leave, Goto, Past
<1>2. Host[d] # Host[c]
  BY <1>1, SameTurn
<1> QED
  BY <1>1, <1>2, StateLockAssumption DEF TypeOK, OneTurn, Leave

\* An update asked for is at the end of the turns of its process.
LEMMA AskStep ==
  ASSUME IInv, NEW c \in Context, Ask(c)
  PROVE  IInv'
<1> USE StateLockAssumption DEF IInv
<1>0. pc[c] = "idle" /\ Host[c] \in Proc
  BY DEF Ask
<1>1. TypeOK'
  <2>1. pc' \in [Context -> PCs]
    BY GotoTypes DEF Ask, PCs
  <2>2. tails' \in [Proc -> Seq(Context)]
    BY <1>0 DEF Ask, TypeOK
  <2> QED
    BY <2>1, <2>2 DEF Ask, TypeOK
<1>2. OneTurn'
  <2> SUFFICES ASSUME NEW d \in Context, pc'[d] \in Past
               PROVE  tails'[Host[d]] # <<>> /\ Head(tails'[Host[d]]) = d
    BY DEF OneTurn
  <2>1. pc[d] \in Past /\ tails[Host[d]] # <<>> /\ Head(tails[Host[d]]) = d
    BY <1>0 DEF Ask, Goto, TypeOK, Past, OneTurn
  <2>2. tails[Host[d]] \in Seq(Context) /\ Host[d] \in Proc
    BY DEF TypeOK
  <2>3. CASE Host[d] = Host[c]
    BY <2>1, <2>2, <2>3 DEF Ask, TypeOK
  <2>4. CASE Host[d] # Host[c]
    BY <2>1, <2>2, <2>4 DEF Ask, TypeOK
  <2> QED
    BY <2>3, <2>4
<1>3. PidsDiffer' /\ OwnerKnown' /\ Alone'
  BY <1>0 DEF Ask, PidsDiffer, OwnerKnown, Alone, TypeOK, Goto, Created, There
<1>4. JudgedDebris' /\ RemovesDebris'
  BY <1>0 DEF Ask, JudgedDebris, RemovesDebris, TypeOK, Goto, There
<1>5. StillOurs' /\ Fresh'
  BY <1>0 DEF Ask, StillOurs, Fresh, TypeOK, Goto, There, Ours
<1> QED
  BY <1>1, <1>2, <1>3, <1>4, <1>5

\* The first of the turns goes on.
LEMMA TurnStep ==
  ASSUME IInv, NEW c \in Context, Turn(c)
  PROVE  IInv'
<1> USE StateLockAssumption DEF IInv
<1>0. pc[c] = "turn" /\ Goto(c, "create") /\ "create" \in PCs
  BY DEF Turn, PCs
<1>1. TypeOK'
  BY <1>0, GotoTypes DEF Turn, TypeOK
<1>2. OneTurn'
  BY <1>0 DEF Turn, OneTurn, Goto, TypeOK
<1>3. PidsDiffer' /\ OwnerKnown' /\ Alone'
  BY <1>0 DEF Turn, PidsDiffer, OwnerKnown, Alone, TypeOK, Goto, Created, There
<1>4. JudgedDebris' /\ RemovesDebris'
  BY <1>0 DEF Turn, JudgedDebris, RemovesDebris, TypeOK, Goto, There
<1>5. StillOurs' /\ Fresh'
  BY <1>0 DEF Turn, StillOurs, Fresh, TypeOK, Goto, There, Ours
<1> QED
  BY <1>1, <1>2, <1>3, <1>4, <1>5

\* A lock is created where there is none: nobody else of this process is past its turn.
LEMMA CreateStep ==
  ASSUME IInv, NEW c \in Context, Create(c)
  PROVE  IInv'
<1> USE StateLockAssumption DEF IInv
<1>0. pc[c] = "create" /\ pc[c] \in Past
  BY DEF Create, Past, PCs
<1>1. PICK l \in PCs : l \in {"look", "write"} /\ Goto(c, l)
  BY DEF Create, PCs
<1>2. TypeOK'
  BY <1>1, GotoTypes, FileTypes DEF Create, TypeOK
<1>3. OneTurn' /\ PidsDiffer'
  BY <1>0, <1>1, GotoTurn DEF Create, PidsDiffer
<1>4. OwnerKnown'
  BY <1>0 DEF Create, OwnerKnown, TypeOK, File, Goto, There
<1>5. Alone'
  <2> SUFFICES ASSUME NEW d \in Context, pc'[d] \in Created, There', lockFile'.by \in Context,
                      Host[lockFile'.by] = Host[d]
               PROVE  lockFile'.by = d
    BY DEF Alone
  <2>1. CASE There
    BY <2>1, <1>0 DEF Create, Alone, TypeOK, Goto, Created, There
  <2>2. CASE ~There
    <3>1. lockFile'.by = c
      BY <2>2 DEF Create
    <3>2. pc[d] \in Past
      BY <1>0 DEF Create, TypeOK, Goto, Created, Past, PCs
    <3> QED
      BY <3>1, <3>2, <1>0, SameTurn
  <2> QED
    BY <2>1, <2>2
<1>6. JudgedDebris' /\ RemovesDebris'
  BY <1>0 DEF Create, JudgedDebris, RemovesDebris, TypeOK, Goto, There
<1>7. StillOurs' /\ Fresh'
  BY <1>0 DEF Create, StillOurs, Fresh, TypeOK, Goto, There, Ours
<1> QED
  BY <1>2, <1>3, <1>4, <1>5, <1>6, <1>7

\* The content is written while nobody is about to remove it, or the write fails.
LEMMA WriteStep ==
  ASSUME IInv, NEW c \in Context, Write(c), "write" \notin Windows
  PROVE  IInv'
<1> USE StateLockAssumption DEF IInv
<1>0. pc[c] = "write" /\ pc[c] \in Past /\ \A d \in Context : pc[d] # "unlink"
  BY DEF Write, Past, PCs, Undisturbed, Breaking
<1>1. CASE /\ lockFile' = IF There /\ lockFile.by = c THEN [lockFile EXCEPT !.written = TRUE]
                          ELSE lockFile
           /\ Goto(c, "own")
           /\ UNCHANGED <<tails, seen, copy>>
  <2>0. "own" \in PCs
    BY DEF PCs
  <2>1. TypeOK'
    BY <1>1, <2>0, GotoTypes, FileTypes DEF Write, TypeOK
  <2>2. OneTurn' /\ PidsDiffer'
    BY <1>0, <1>1, <2>0, GotoTurn DEF Write, PidsDiffer
  <2>3. OwnerKnown'
    BY <1>0, <1>1, FileTypes DEF Write, OwnerKnown, TypeOK, File, Goto, There
  <2>4. There' => There /\ lockFile'.by = lockFile.by
    BY <1>1, FileTypes DEF File, There
  <2>5. Alone'
    BY <1>0, <1>1, <2>4 DEF Write, Alone, TypeOK, Goto, Created
  <2>6. JudgedDebris' /\ RemovesDebris'
    BY <1>0, <1>1 DEF Write, JudgedDebris, RemovesDebris, TypeOK, Goto
  <2>7. \A d \in Context : d # c => Ours(d)' = Ours(d)
    BY <1>1, FileTypes DEF File, There, Ours
  <2>8. StillOurs' /\ Fresh'
    BY <1>0, <1>1, <2>7 DEF Write, StillOurs, Fresh, TypeOK, Goto
  <2> QED
    BY <2>1, <2>2, <2>3, <2>5, <2>6, <2>8
<1>2. CASE Fails("write") /\ (There => lockFile.by = c) /\ lockFile' = NoFile /\ Leave(c)
  <2>1. TypeOK'
    BY <1>0, <1>2, LeaveTypes DEF Write, TypeOK
  <2>2. OneTurn' /\ PidsDiffer'
    BY <1>0, <1>2, LeaveTurn DEF Write, PidsDiffer
  <2>3. OwnerKnown' /\ Alone'
    BY <1>2 DEF OwnerKnown, Alone, There
  <2>4. JudgedDebris' /\ RemovesDebris'
    BY <1>0, <1>2 DEF Write, JudgedDebris, RemovesDebris, TypeOK, Leave, Goto, There
  <2>5. \A d \in Context : Ours(d) => d = c
    BY <1>2 DEF Ours
  <2>6. \A d \in Context : pc[d] # "rename"
    BY <1>0, <2>5 DEF StillOurs
  <2>7. StillOurs' /\ Fresh'
    BY <1>0, <1>2, <2>6 DEF StillOurs, Fresh, TypeOK, Leave, Goto, There, Ours
  <2> QED
    BY <2>1, <2>2, <2>3, <2>4, <2>7
<1> QED
  BY <1>1, <1>2 DEF Write

\* The token is written down as its process's own.
LEMMA OwnStep ==
  ASSUME IInv, NEW c \in Context, Own(c)
  PROVE  IInv'
<1> USE StateLockAssumption DEF IInv
<1>0. pc[c] = "own" /\ pc[c] \in Past /\ Goto(c, "read") /\ "read" \in PCs
  BY DEF Own, Past, PCs
<1>1. TypeOK'
  BY <1>0, GotoTypes DEF Own, TypeOK
<1>2. OneTurn' /\ PidsDiffer'
  BY <1>0, GotoTurn DEF Own, PidsDiffer
<1>3. OwnerKnown'
  <2> SUFFICES ASSUME There, NEW b \in Context, lockFile.by = b
               PROVE  /\ lockFile.pid = pid[Host[b]]
                      /\ ~lockFile.written <=> pc'[b] = "write"
                      /\ lockFile.written => pc'[b] = "own" \/ owned'[Host[b]] = b
    BY DEF Own, OwnerKnown, There
  <2>1. CASE b = c
    BY <2>1, <1>0 DEF Own, OwnerKnown, TypeOK, Goto
  <2>2. CASE b # c
    <3>1. Host[b] # Host[c]
      BY <2>2, <1>0 DEF Alone, Created
    <3> QED
      BY <2>2, <3>1, <1>0 DEF Own, OwnerKnown, TypeOK, Goto
  <2> QED
    BY <2>1, <2>2
<1>4. Alone'
  BY <1>0 DEF Own, Alone, TypeOK, Goto, Created, There
<1>5. JudgedDebris' /\ RemovesDebris'
  BY <1>0 DEF Own, JudgedDebris, RemovesDebris, TypeOK, Goto, There
<1>6. StillOurs' /\ Fresh'
  BY <1>0 DEF Own, StillOurs, Fresh, TypeOK, Goto, There, Ours
<1> QED
  BY <1>1, <1>2, <1>3, <1>4, <1>5, <1>6

\* What is judged debris was never written, or its writer is dead.
LEMMA DebrisIsDead ==
  ASSUME IInv, NEW c \in Context, pc[c] = "look", There, Debris(c, lockFile), lockFile.written
  PROVE  lockFile.by = Nobody
<1> USE StateLockAssumption DEF IInv
<1> SUFFICES ASSUME NEW b \in Context, lockFile.by = b PROVE FALSE
  BY DEF TypeOK, File, There
<1>1. lockFile.pid = pid[Host[b]] /\ Host[b] \in Proc /\ Host[c] \in Proc
  BY DEF OwnerKnown
<1>2. lockFile.pid = pid[Host[c]] /\ b # owned[Host[c]]
  BY <1>1 DEF Debris
<1>3. Host[b] = Host[c]
  BY <1>1, <1>2 DEF PidsDiffer
<1>4. pc[b] = "own"
  BY <1>2, <1>3 DEF OwnerKnown
<1>5. pc[b] \in Past /\ pc[c] \in Past
  BY <1>4 DEF Past, PCs
<1> QED
  BY <1>3, <1>4, <1>5, SameTurn

\* A lock is looked at: it is waited for, given up, or found to be debris.
LEMMA LookStep ==
  ASSUME IInv, NEW c \in Context, Look(c)
  PROVE  IInv'
<1> USE StateLockAssumption DEF IInv
<1>0. pc[c] = "look" /\ pc[c] \in Past /\ {"create", "compare"} \subseteq PCs
  BY DEF Look, Past, PCs
<1>1. /\ UNCHANGED <<lockFile, owned, pid, breaker, store>>
      /\ \A d \in Context : d # c => /\ pc'[d] = pc[d] /\ seen'[d] = seen[d]
                                     /\ copy'[d] = copy[d]
      /\ pc'[c] \in {"idle", "create", "compare"}
  BY DEF Look, Leave, Goto, TypeOK
<1>2. TypeOK'
  <2>1. CASE Leave(c)
    BY <2>1, <1>0, <1>1, LeaveTypes DEF TypeOK
  <2>2. CASE Goto(c, "create") /\ UNCHANGED <<tails, seen, copy>>
    BY <2>2, <1>0, <1>1, GotoTypes DEF TypeOK
  <2>3. CASE There /\ Goto(c, "compare") /\ seen' = [seen EXCEPT ![c] = lockFile]
             /\ UNCHANGED <<tails, copy>>
    BY <2>3, <1>0, <1>1, GotoTypes, FileTypes DEF TypeOK
  <2> QED
    BY <2>1, <2>2, <2>3 DEF Look
<1>3. OneTurn' /\ PidsDiffer'
  BY <1>0, <1>1, LeaveTurn, GotoTurn DEF Look, PidsDiffer
<1>4. OwnerKnown' /\ Alone'
  BY <1>0, <1>1 DEF OwnerKnown, Alone, Created, There
<1>5. JudgedDebris'
  <2>1. pc'[c] = "compare" => seen'[c] = lockFile /\ There /\ Debris(c, lockFile)
    BY DEF Look, Leave, Goto, TypeOK
  <2> QED
    BY <2>1, <1>0, <1>1, DebrisIsDead DEF JudgedDebris, There
<1>6. RemovesDebris'
  BY <1>0, <1>1 DEF RemovesDebris, There
<1>7. StillOurs' /\ Fresh'
  BY <1>0, <1>1 DEF StillOurs, Fresh, There, Ours
<1> QED
  BY <1>2, <1>3, <1>4, <1>5, <1>6, <1>7

\* What is found unchanged is debris still.
LEMMA CompareStep ==
  ASSUME IInv, NEW c \in Context, Compare(c)
  PROVE  IInv'
<1> USE StateLockAssumption DEF IInv
<1>0. pc[c] = "compare" /\ pc[c] \in Past /\ {"look", "unlink"} \subseteq PCs
  BY DEF Compare, Past, PCs
<1>1. PICK l \in {"look", "unlink"} : Goto(c, l)
  BY DEF Compare
<1>2. TypeOK'
  BY <1>0, <1>1, GotoTypes DEF Compare, TypeOK
<1>3. OneTurn' /\ PidsDiffer'
  BY <1>0, <1>1, GotoTurn DEF Compare, PidsDiffer
<1>4. OwnerKnown' /\ Alone'
  BY <1>0, <1>1 DEF Compare, OwnerKnown, Alone, TypeOK, Goto, Created, There
<1>5. JudgedDebris'
  BY <1>0, <1>1 DEF Compare, JudgedDebris, TypeOK, Goto
<1>6. RemovesDebris'
  <2> SUFFICES ASSUME NEW d \in Context, pc'[d] = "unlink"
               PROVE  breaker' = d /\ (There /\ lockFile.written => lockFile.by = Nobody)
    BY DEF RemovesDebris, Compare, There
  <2>1. CASE d = c
    <3>1. breaker' = c /\ There /\ SameFile(seen[c], lockFile)
      BY <2>1 DEF Compare, Goto, TypeOK
    <3> QED
      BY <2>1, <3>1, <1>0 DEF JudgedDebris, SameFile
  <2>2. CASE d # c
    <3>1. pc[d] = "unlink" /\ breaker = d
      BY <2>2, <1>1 DEF Goto, TypeOK, RemovesDebris
    <3> QED
      BY <3>1 DEF Compare, RemovesDebris
  <2> QED
    BY <2>1, <2>2
<1>7. StillOurs' /\ Fresh'
  BY <1>0, <1>1 DEF Compare, StillOurs, Fresh, TypeOK, Goto, There, Ours
<1> QED
  BY <1>2, <1>3, <1>4, <1>5, <1>6, <1>7

\* There is one breaker, and what it removes is debris.
LEMMA UnlinkStep ==
  ASSUME IInv, NEW c \in Context, Unlink(c)
  PROVE  IInv'
<1> USE StateLockAssumption DEF IInv
<1>0. pc[c] = "unlink" /\ pc[c] \in Past /\ {"look", "create"} \subseteq PCs
  BY DEF Unlink, Past, PCs
<1>1. PICK l \in {"look", "create"} : Goto(c, l)
  BY DEF Unlink
<1>2. lockFile' \in {lockFile, NoFile}
  BY DEF Unlink
<1>3. TypeOK'
  BY <1>0, <1>1, <1>2, GotoTypes DEF Unlink, TypeOK
<1>4. OneTurn' /\ PidsDiffer'
  BY <1>0, <1>1, GotoTurn DEF Unlink, PidsDiffer
<1>5. OwnerKnown' /\ Alone'
  BY <1>0, <1>1, <1>2 DEF Unlink, OwnerKnown, Alone, TypeOK, Goto, Created, There
<1>6. JudgedDebris'
  BY <1>0, <1>1 DEF Unlink, JudgedDebris, TypeOK, Goto
<1>7. RemovesDebris'
  <2>1. \A d \in Context : pc'[d] # "unlink"
    BY <1>0, <1>1 DEF RemovesDebris, TypeOK, Goto
  <2> QED
    BY <2>1 DEF RemovesDebris
<1>8. \A d \in Context : ~Ours(d)
  BY <1>0 DEF RemovesDebris, Ours
<1>9. StillOurs' /\ Fresh'
  BY <1>0, <1>1, <1>2, <1>8 DEF StillOurs, Fresh, TypeOK, Goto, There, Ours
<1> QED
  BY <1>3, <1>4, <1>5, <1>6, <1>7, <1>9

\* The file is read.
LEMMA ReadStep ==
  ASSUME IInv, NEW c \in Context, Read(c)
  PROVE  IInv'
<1> USE StateLockAssumption DEF IInv
<1>0. pc[c] = "read" /\ pc[c] \in Past /\ {"check", "release"} \subseteq PCs
  BY DEF Read, Past, PCs
<1>1. PICK l \in {"check", "release"} : Goto(c, l)
  BY DEF Read
<1>2. TypeOK'
  BY <1>0, <1>1, GotoTypes DEF Read, TypeOK
<1>3. OneTurn' /\ PidsDiffer'
  BY <1>0, <1>1, GotoTurn DEF Read, PidsDiffer
<1>4. OwnerKnown' /\ Alone'
  BY <1>0, <1>1 DEF Read, OwnerKnown, Alone, TypeOK, Goto, Created, There
<1>5. JudgedDebris' /\ RemovesDebris'
  BY <1>0, <1>1 DEF Read, JudgedDebris, RemovesDebris, TypeOK, Goto, There
<1>6. StillOurs' /\ Fresh'
  BY <1>0, <1>1 DEF Read, StillOurs, Fresh, TypeOK, Goto, There, Ours
<1> QED
  BY <1>2, <1>3, <1>4, <1>5, <1>6

\* The token is looked at.
LEMMA CheckStep ==
  ASSUME IInv, NEW c \in Context, Check(c)
  PROVE  IInv'
<1> USE StateLockAssumption DEF IInv
<1>0. pc[c] = "check" /\ pc[c] \in Past /\ {"rename", "release"} \subseteq PCs
  BY DEF Check, Past, PCs
<1>1. PICK l \in {"rename", "release"} : Goto(c, l) /\ (l = "rename" => Ours(c))
  BY DEF Check
<1>2. TypeOK'
  BY <1>0, <1>1, GotoTypes DEF Check, TypeOK
<1>3. OneTurn' /\ PidsDiffer'
  BY <1>0, <1>1, GotoTurn DEF Check, PidsDiffer
<1>4. OwnerKnown' /\ Alone'
  BY <1>0, <1>1 DEF Check, OwnerKnown, Alone, TypeOK, Goto, Created, There
<1>5. JudgedDebris' /\ RemovesDebris'
  BY <1>0, <1>1 DEF Check, JudgedDebris, RemovesDebris, TypeOK, Goto, There
<1>6. StillOurs' /\ Fresh'
  BY <1>0, <1>1 DEF Check, StillOurs, Fresh, TypeOK, Goto, There, Ours
<1> QED
  BY <1>2, <1>3, <1>4, <1>5, <1>6

\* The new version is renamed into place, over the one that was read.
LEMMA RenameUpdates ==
  ASSUME IInv, NEW c \in Context, Rename(c)
  PROVE  store' = store \/ store' = [store EXCEPT ![c] = @ + 1]
BY DEF IInv, Rename, StillOurs, Fresh

LEMMA RenameStep ==
  ASSUME IInv, NEW c \in Context, Rename(c)
  PROVE  IInv'
<1> USE StateLockAssumption DEF IInv
<1>0. pc[c] = "rename" /\ pc[c] \in Past /\ {"read", "release"} \subseteq PCs
  BY DEF Rename, Past, PCs
<1>1. PICK l \in {"read", "release"} : Goto(c, l)
  BY DEF Rename
<1>2. TypeOK'
  <2>1. store' \in Value
    BY RenameUpdates DEF TypeOK, Value
  <2> QED
    BY <1>0, <1>1, <2>1, GotoTypes DEF Rename, TypeOK
<1>3. OneTurn' /\ PidsDiffer'
  BY <1>0, <1>1, GotoTurn DEF Rename, PidsDiffer
<1>4. OwnerKnown' /\ Alone'
  BY <1>0, <1>1 DEF Rename, OwnerKnown, Alone, TypeOK, Goto, Created, There
<1>5. JudgedDebris' /\ RemovesDebris'
  BY <1>0, <1>1 DEF Rename, JudgedDebris, RemovesDebris, TypeOK, Goto, There
<1>6. \A d \in Context : Ours(d) => d = c
  BY <1>0 DEF StillOurs, Ours
<1>7. StillOurs' /\ Fresh'
  BY <1>0, <1>1, <1>6 DEF Rename, StillOurs, Fresh, TypeOK, Goto, There, Ours
<1> QED
  BY <1>2, <1>3, <1>4, <1>5, <1>7

\* The lock is given back, or stays with its token, or was no longer ours.
LEMMA ReleaseStep ==
  ASSUME IInv, NEW c \in Context, Release(c)
  PROVE  IInv'
<1> USE StateLockAssumption DEF IInv
<1>0. pc[c] = "release" /\ pc[c] \in Past /\ Host[c] \in Proc
  BY DEF Release, Past, PCs
<1>1. /\ Leave(c) /\ UNCHANGED <<pid, breaker, store>>
      /\ lockFile' \in {lockFile, NoFile}
      /\ owned' = owned \/ owned' = [owned EXCEPT ![Host[c]] = Nobody]
      /\ owned' # owned => ~There' \/ ~Ours(c)
  BY DEF Release, There
<1>2. \A d \in Context : d # c => /\ pc'[d] = pc[d] /\ seen'[d] = seen[d]
                                  /\ copy'[d] = copy[d]
  BY <1>1 DEF Leave, Goto, TypeOK
<1>3. pc'[c] = "idle"
  BY <1>1 DEF Leave, Goto, TypeOK
<1>4. TypeOK'
  <2>1. owned' \in [Proc -> Context \cup {Nobody}]
    BY <1>1 DEF TypeOK
  <2> QED
    BY <1>0, <1>1, <2>1, LeaveTypes DEF TypeOK
<1>5. OneTurn' /\ PidsDiffer'
  BY <1>0, <1>1, LeaveTurn DEF PidsDiffer
<1>6. OwnerKnown'
  <2> SUFFICES ASSUME There', NEW b \in Context, lockFile.by = b
               PROVE  /\ lockFile.pid = pid[Host[b]]
                      /\ ~lockFile.written <=> pc'[b] = "write"
                      /\ lockFile.written => pc'[b] = "own" \/ owned'[Host[b]] = b
    BY <1>1 DEF OwnerKnown, There
  <2>0. There
    BY <1>1 DEF There
  <2>1. CASE b = c
    <3>1. lockFile.written /\ owned' = owned
      BY <2>0, <2>1, <1>0, <1>1 DEF OwnerKnown, Ours
    <3> QED
      BY <2>0, <2>1, <3>1, <1>0, <1>3 DEF OwnerKnown
  <2>2. CASE b # c
    <3>1. Host[b] # Host[c]
      BY <2>0, <2>2, <1>0 DEF Alone, Created
    <3>2. owned'[Host[b]] = owned[Host[b]] /\ pc'[b] = pc[b]
      BY <2>2, <3>1, <1>1, <1>2 DEF TypeOK
    <3> QED
      BY <2>0, <3>2 DEF OwnerKnown
  <2> QED
    BY <2>1, <2>2
<1>7. Alone'
  BY <1>1, <1>2, <1>3 DEF Alone, Created, There
<1>8. JudgedDebris' /\ RemovesDebris'
  BY <1>1, <1>2, <1>3 DEF JudgedDebris, RemovesDebris, There
<1>9. \A d \in Context : d # c => (Ours(d) => lockFile' = lockFile)
  BY <1>1 DEF Release, Ours
<1>10. StillOurs' /\ Fresh'
  BY <1>1, <1>2, <1>3, <1>9 DEF StillOurs, Fresh, There, Ours
<1> QED
  BY <1>4, <1>5, <1>6, <1>7, <1>8, <1>10

-----------------------------------------------------------------------------
(* Time, kills and exits. *)

LEMMA AgeStep ==
  ASSUME IInv, Age
  PROVE  IInv'
<1> USE StateLockAssumption DEF IInv
<1>1. lockFile' \in File /\ There
  BY DEF Age, TypeOK, File, There
<1>2. There' /\ lockFile'.by = lockFile.by /\ lockFile'.pid = lockFile.pid
             /\ lockFile'.written = lockFile.written
  BY <1>1 DEF Age, TypeOK, File, There
<1>3. TypeOK' /\ OneTurn' /\ PidsDiffer'
  BY <1>1 DEF Age, TypeOK, OneTurn, PidsDiffer
<1>4. OwnerKnown' /\ Alone' /\ JudgedDebris' /\ RemovesDebris'
  BY <1>1, <1>2 DEF Age, OwnerKnown, Alone, JudgedDebris, RemovesDebris
<1>5. StillOurs' /\ Fresh'
  BY <1>1, <1>2 DEF Age, StillOurs, Fresh, Ours
<1> QED
  BY <1>3, <1>4, <1>5

\* A process that dies leaves no lock, or one that is nobody's.
LEMMA DiesStep ==
  ASSUME IInv, NEW p \in Proc,
         NEW left \in {NoFile, IF There /\ lockFile.by \in In(p)
                               THEN [lockFile EXCEPT !.by = Nobody] ELSE lockFile},
         Dies(p, left),
         There /\ left = NoFile => lockFile.by \in In(p)
  PROVE  IInv'
<1> USE StateLockAssumption DEF IInv
<1>0. lockFile' = left
  BY DEF Dies
<1>1. PICK n \in Pid : /\ \A q \in Proc \ {p} : pid[q] # n
                       /\ pid' = [pid EXCEPT ![p] = n]
  BY DEF Dies
<1>2. \A c \in Context : Host[c] = p => pc'[c] = "idle"
  BY DEF Dies, In
<1>3. \A c \in Context : Host[c] # p =>
        /\ pc'[c] = pc[c] /\ seen'[c] = seen[c] /\ copy'[c] = copy[c]
        /\ tails'[Host[c]] = tails[Host[c]] /\ owned'[Host[c]] = owned[Host[c]]
        /\ pid'[Host[c]] = pid[Host[c]]
  BY <1>1 DEF Dies, In, TypeOK
<1>4. There' => /\ There /\ lockFile' \in File
                /\ lockFile'.written = lockFile.written /\ lockFile'.pid = lockFile.pid
                /\ lockFile'.by \in Context =>
                     lockFile'.by = lockFile.by /\ Host[lockFile'.by] # p
                /\ lockFile.by = Nobody => lockFile'.by = Nobody
  BY <1>0, FileTypes DEF TypeOK, File, There, In
<1>5. TypeOK'
  <2>1. lockFile' \in File \cup {NoFile}
    BY <1>4 DEF There
  <2>2. pc' \in [Context -> PCs]
    BY DEF Dies, TypeOK, PCs
  <2>3. Zero \in Value
    BY DEF Zero, Value
  <2>4. seen' \in [Context -> File \cup {NoFile}] /\ copy' \in [Context -> Value]
    BY <2>3 DEF Dies, TypeOK
  <2>5. tails' \in [Proc -> Seq(Context)] /\ owned' \in [Proc -> Context \cup {Nobody}]
    BY DEF Dies, TypeOK
  <2>6. pid' \in [Proc -> Pid] /\ breaker' \in Context \cup {Nobody} /\ store' \in Value
    BY <1>1 DEF Dies, TypeOK
  <2> QED
    BY <2>1, <2>2, <2>4, <2>5, <2>6 DEF TypeOK
<1>6. PidsDiffer'
  BY <1>1 DEF PidsDiffer, TypeOK
<1>7. OneTurn'
  BY <1>2, <1>3 DEF OneTurn, Past
<1>8. OwnerKnown' /\ Alone'
  BY <1>2, <1>3, <1>4 DEF OwnerKnown, Alone, Created
<1>9. JudgedDebris'
  BY <1>2, <1>3 DEF JudgedDebris
<1>10. RemovesDebris'
  <2> SUFFICES ASSUME NEW c \in Context, pc'[c] = "unlink"
               PROVE  breaker' = c /\ (There' /\ lockFile'.written => lockFile'.by = Nobody)
    BY DEF RemovesDebris
  <2>1. Host[c] # p /\ pc[c] = "unlink" /\ breaker = c
    BY <1>2, <1>3 DEF RemovesDebris
  <2>2. breaker' = c
    BY <2>1 DEF Dies, In
  <2> QED
    BY <2>1, <2>2, <1>4 DEF RemovesDebris
<1>11. \A c \in Context : Ours(c)' => Ours(c)
  BY <1>4 DEF Ours
<1>12. Fresh'
  BY <1>2, <1>3, <1>11 DEF Fresh, Dies
<1>13. ASSUME NEW c \in Context, pc'[c] = "rename" PROVE Ours(c)'
  <2>1. Host[c] # p /\ Ours(c)
    BY <1>2, <1>3, <1>13 DEF StillOurs
  <2> QED
    BY <2>1, <1>0, FileTypes DEF Ours, There, In
<1>14. StillOurs'
  BY <1>13 DEF StillOurs
<1> QED
  BY <1>5, <1>6, <1>7, <1>8, <1>9, <1>10, <1>12, <1>14

LEMMA OwnedHereStep ==
  ASSUME TypeOK, OwnedHere, [Next]_vars
  PROVE  OwnedHere'
<1> USE StateLockAssumption
<1>1. CASE owned' = owned
  BY <1>1 DEF OwnedHere
<1>2. CASE \E p \in Proc : owned' = [owned EXCEPT ![p] = Nobody]
  BY <1>2 DEF OwnedHere, TypeOK
<1>3. ASSUME NEW c \in Context, Own(c) PROVE OwnedHere'
  BY <1>3 DEF Own, OwnedHere, TypeOK
<1> QED
  BY <1>1, <1>2, <1>3
     DEF Next, vars, Ask, Turn, Create, Write, Look, Compare, Unlink, Read, Check, Rename, Release,
         Age, Crash, Exit, Dies

LEMMA CrashStep ==
  ASSUME IInv, OwnedHere, NEW p \in Proc, Crash(p) \/ Exit(p)
  PROVE  IInv'
<1>1. CASE Crash(p)
  <2> DEFINE left == IF There /\ lockFile.by \in In(p) THEN [lockFile EXCEPT !.by = Nobody]
                     ELSE lockFile
  <2>1. Dies(p, left)
    BY <1>1 DEF Crash
  <2>2. There => left # NoFile
    BY FileTypes, StateLockAssumption DEF IInv, TypeOK, There, File
  <2> QED
    BY <2>1, <2>2, DiesStep
<1>2. CASE Exit(p)
  <2>1. Dies(p, NoFile) /\ Ours(owned[p]) /\ owned[p] \in Context
    BY <1>2 DEF Exit, IInv, TypeOK
  <2>2. lockFile.by \in In(p)
    BY <2>1 DEF Ours, OwnedHere, In
  <2> QED
    BY <2>1, <2>2, DiesStep
<1> QED
  BY <1>1, <1>2

-----------------------------------------------------------------------------
CStep(c) ==
  \/ Ask(c) \/ Turn(c) \/ Create(c) \/ Write(c) \/ Own(c) \/ Look(c) \/ Compare(c) \/ Unlink(c)
  \/ Read(c) \/ Check(c) \/ Rename(c) \/ Release(c)

LEMMA InvStep ==
  ASSUME "write" \notin Windows, IInv, OwnedHere, [Next]_vars
  PROVE  IInv' /\ OwnedHere'
<1>1. ASSUME NEW c \in Context, CStep(c) PROVE IInv'
  BY <1>1, AskStep, TurnStep, CreateStep, WriteStep, OwnStep, LookStep, CompareStep, UnlinkStep,
     ReadStep, CheckStep, RenameStep, ReleaseStep DEF CStep
<1>2. ASSUME NEW p \in Proc, Crash(p) \/ Exit(p) PROVE IInv'
  BY <1>2, CrashStep
<1>3. CASE UNCHANGED vars
  <2> USE <1>3 DEF vars
  <2>1. TypeOK' /\ PidsDiffer' /\ OneTurn'
    BY DEF IInv, TypeOK, PidsDiffer, OneTurn
  <2>2. OwnerKnown' /\ Alone' /\ JudgedDebris' /\ RemovesDebris'
    BY DEF IInv, OwnerKnown, Alone, JudgedDebris, RemovesDebris, There
  <2>3. StillOurs' /\ Fresh'
    BY DEF IInv, StillOurs, Fresh, There, Ours
  <2> QED
    BY <2>1, <2>2, <2>3, OwnedHereStep DEF IInv
<1>4. OwnedHere'
  BY OwnedHereStep DEF IInv
<1> QED
  BY <1>1, <1>2, <1>3, <1>4, AgeStep DEF Next, CStep

\* Every variable of the state lock keeps its type (state-lock.ts, json-file.ts).
THEOREM StateLockTypes ==
  ASSUME "write" \notin Windows
  PROVE  Spec => []TypeOK
<1>1. IInv => TypeOK
  BY DEF IInv
<1>2. IInv /\ OwnedHere /\ [Next]_vars => IInv' /\ OwnedHere'
  BY InvStep
<1> QED
  BY InitInv, <1>1, <1>2, PTL DEF Spec

\* Whatever a step does to the lock, it stays with a live holder until it gives it back.
LEMMA KeepsStep ==
  ASSUME "write" \notin Windows, IInv, OwnedHere, [Next]_vars, NEW c \in Context, Ours(c)
  PROVE  Ours(c)' \/ Release(c) \/ Crash(Host[c]) \/ Exit(Host[c])
<1> USE StateLockAssumption DEF IInv
<1>0. There /\ lockFile.written /\ lockFile.by = c /\ lockFile \in File
  BY DEF Ours, TypeOK, There
<1>1. CASE lockFile' = lockFile
  BY <1>1 DEF Ours, There
<1>2. ASSUME NEW d \in Context, Unlink(d) PROVE FALSE
  BY <1>0, <1>2 DEF Unlink, RemovesDebris
<1>3. ASSUME NEW d \in Context, Write(d) PROVE Ours(c)'
  <2>1. d # c
    BY <1>0, <1>3 DEF Write, OwnerKnown
  <2>2. lockFile' = lockFile
    BY <1>0, <1>3, <2>1 DEF Write
  <2> QED
    BY <2>2 DEF Ours, There
<1>4. ASSUME NEW d \in Context, d # c, Release(d) PROVE lockFile' = lockFile
  BY <1>0, <1>4 DEF Release, Ours
<1>5. ASSUME Age PROVE Ours(c)'
  BY <1>0, <1>5, FileTypes DEF Age, Ours, There, File
<1>6. ASSUME NEW p \in Proc, p # Host[c], Crash(p) PROVE lockFile' = lockFile
  BY <1>0, <1>6 DEF Crash, Dies, In
<1>7. ASSUME NEW p \in Proc, p # Host[c], Exit(p) PROVE FALSE
  BY <1>0, <1>7 DEF Exit, Ours, OwnedHere
<1>8. CASE \/ UNCHANGED vars
         \/ \E d \in Context : \/ Ask(d) \/ Turn(d) \/ Own(d) \/ Look(d) \/ Compare(d)
                               \/ Read(d) \/ Check(d) \/ Rename(d)
  BY <1>8, <1>1 DEF vars, Ask, Turn, Own, Look, Compare, Read, Check, Rename
<1>9. ASSUME NEW d \in Context, Create(d) PROVE lockFile' = lockFile
  BY <1>0, <1>9 DEF Create
<1> QED
  BY <1>1, <1>2, <1>3, <1>4, <1>5, <1>6, <1>7, <1>8, <1>9 DEF Next

\* A lock that is written, of a live process, is removed by its holder only, for any
\* processes, contexts and failures (judge, removeIfUnchangedAt of state-lock.ts).
THEOREM HolderKeepsIt ==
  ASSUME "write" \notin Windows
  PROVE  Spec => HolderKeeps
<1>1. IInv /\ OwnedHere /\ [Next]_vars => IInv' /\ OwnedHere'
  BY InvStep
<1>2. IInv /\ OwnedHere /\ [Next]_vars => 
[\A c \in Context : Kept(c)]_vars
  BY KeepsStep DEF Kept
<1> QED
  BY InitInv, <1>1, <1>2, PTL DEF Spec, HolderKeeps

\* Every step of the state lock is an update of the register, or none.
LEMMA StepUpdates ==
  ASSUME IInv, [Next]_vars
  PROVE  [Register!Next]_store
<1>1. ASSUME NEW c \in Context, Rename(c) PROVE [Register!Next]_store
  BY <1>1, RenameUpdates DEF Register!Next, Register!Update
<1>2. CASE store' = store
  BY <1>2
<1> QED
  BY <1>1, <1>2
     DEF Next, vars, Ask, Turn, Create, Write, Own, Look, Compare, Unlink, Read, Check, Release,
         Age, Crash, Exit, Dies

\* No update of a state file is lost, for any processes, contexts and failures
\* (updateJsonLocked of json-file.ts).
THEOREM NoUpdateLost ==
  ASSUME "write" \notin Windows
  PROVE  Spec => ImplementsRegister
<1>1. Init => Register!Init
  BY DEF Init, Register!Init, Zero
<1>2. IInv /\ OwnedHere /\ [Next]_vars => IInv' /\ OwnedHere'
  BY InvStep
<1>3. IInv /\ [Next]_vars => [Register!Next]_store
  BY StepUpdates
<1> QED
  BY InitInv, <1>1, <1>2, <1>3, PTL DEF Spec, ImplementsRegister, Register!Spec
=============================================================================
