---------------------------- MODULE Delivery_proofs ----------------------------
(***************************************************************************)
(* Deliveries and rollbacks implement Publication, for any operations in    *)
(* any processes, whatever is killed, fails, or is pushed by other people,  *)
(* as long as a rollback and a delivery it does not wait for stay apart.    *)
(* Then what a delivery reports stays true.                                 *)
(***************************************************************************)
EXTENDS Delivery, Publication_proofs

Kinds ==
  /\ branch \in Seq(Own) /\ remote \in Seq(Commit)
  /\ lock \in Op \cup {NoOne}
  /\ pc \in [Op -> PCs]
  /\ head \in [Op -> Seq(Own)]
  /\ chain \in [Proc -> Seq(Op)]
  /\ awaited \in [Op -> SUBSET Op]
  /\ published \in [Op -> BOOLEAN]

\* The program points under the main lock.
LockPcs == {"commit", "release"} \cup RollbackPcs
LockInv == \A o \in Op : pc[o] \in LockPcs => lock = o

\* What a rollback read is still the branch when it decides.
HeadInv ==
  \A o \in Op : pc[o] \in {"rbSettle", "rbWait", "rbApply"} =>
    head[o] = branch /\ branch # <<>> /\ Last(branch).kind = "merge"

\* What is being pushed is in the branch.
PushInv == \A o \in Op : pc[o] \in {"push", "orphan"} => IsPrefix(head[o], branch)

\* A delivery under way is the first of its chain.
Pending(o) == o \in Range(chain[Home[o]])
ChainInv ==
  /\ \A p \in Proc : \A o \in Range(chain[p]) :
       Home[o] = p /\ pc[o] \in {"queued", "push", "list", "done"}
  /\ \A o \in Op : pc[o] \in {"queued", "push", "list"} => Pending(o)
  /\ \A o \in Op : pc[o] \in {"push", "list"} => Head(chain[Home[o]]) = o

\* What a rollback waits for is in its own process, and answered when it decides.
AwaitInv ==
  /\ \A o \in Op : pc[o] \in {"rbWait", "rbApply"} => \A q \in awaited[o] : Home[q] = Home[o]
  /\ \A o \in Op : pc[o] = "rbWait" =>
       \A q \in awaited[o] : pc[q] \in {"queued", "push", "list", "done"}
  /\ \A o \in Op : pc[o] = "rbApply" => \A q \in awaited[o] : pc[q] = "done"

\* A push outlives its process only with every other operation of that process.
OrphanInv ==
  \A q, o \in Op : pc[q] = "orphan" /\ Home[o] = Home[q] => pc[o] \in {"done", "dead", "orphan"}

\* Nothing is pushed while a rollback decides, and a reset was told the truth.
DecideInv ==
  \A o \in Op : pc[o] = "rbApply" =>
    /\ published[o] \/ ~Published(branch)
    /\ \A q \in Op : pc[q] \notin {"push", "orphan"}

DInv ==
  /\ Kinds /\ LockInv /\ HeadInv /\ PushInv
  /\ ChainInv /\ AwaitInv /\ OrphanInv /\ DecideInv

-----------------------------------------------------------------------------
(* Sequences.                                                                *)

LEMMA CommitKinds ==
  /\ \A o \in Op : MergeOf(o) \in Own /\ RevertOf(o) \in Own
  /\ \A c \in Own : c.kind = "merge" => c.op \in Op
  /\ Foreign \in Commit /\ Own \subseteq Commit
<1>1. /\ Foreign.kind = "foreign"
      /\ \A o \in Op : MergeOf(o).kind = "merge" /\ RevertOf(o).kind = "revert" /\ MergeOf(o).op = o
  BY DEF Foreign, MergeOf, RevertOf
<1>2. \A o \in Op : MergeOf(o) # Foreign /\ RevertOf(o) # Foreign
  BY <1>1
<1>3. \A c \in Own : \E o \in Op : c = MergeOf(o) \/ c = RevertOf(o)
  BY DEF Own, Commit
<1> QED
  BY <1>1, <1>2, <1>3 DEF Own, Commit

LEMMA Appended ==
  ASSUME NEW S, NEW s \in Seq(S), NEW e \in S
  PROVE  /\ Append(s, e) \in Seq(S) /\ Append(s, e) # <<>>
         /\ Range(Append(s, e)) = Range(s) \cup {e}
         /\ s # <<>> => Head(Append(s, e)) = Head(s)
<1>1. /\ Append(s, e) \in Seq(S) /\ DOMAIN Append(s, e) = 1..Len(s) + 1
      /\ Append(s, e)[Len(s) + 1] = e /\ \A i \in 1..Len(s) : Append(s, e)[i] = s[i]
  OBVIOUS
<1>2. DOMAIN s = 1..Len(s) /\ DOMAIN Append(s, e) = DOMAIN s \cup {Len(s) + 1}
  BY <1>1
<1>3. Range(Append(s, e)) = Range(s) \cup {e}
  BY <1>1, <1>2 DEF Range
<1>4. Append(s, e) # <<>>
  BY <1>1
<1>5. s # <<>> => Head(Append(s, e)) = Head(s)
  BY <1>1
<1> QED
  BY <1>1, <1>3, <1>4, <1>5

LEMMA Tailed ==
  ASSUME NEW S, NEW s \in Seq(S), s # <<>>
  PROVE  /\ Tail(s) \in Seq(S)
         /\ Range(Tail(s)) \subseteq Range(s)
         /\ \A e \in Range(s) : e # Head(s) => e \in Range(Tail(s))
<1>1. Len(s) \in Nat \ {0} /\ Tail(s) \in Seq(S) /\ Len(Tail(s)) = Len(s) - 1
  OBVIOUS
<1>2. \A i \in 1..Len(s) - 1 : Tail(s)[i] = s[i + 1]
  BY <1>1
<1>3. Range(Tail(s)) \subseteq Range(s)
  BY <1>1, <1>2 DEF Range
<1>4. ASSUME NEW i \in 1..Len(s), s[i] # Head(s) PROVE s[i] \in Range(Tail(s))
  <2>1. i # 1 /\ i - 1 \in 1..Len(s) - 1
    BY <1>1, <1>4
  <2>2. Tail(s)[i - 1] = s[i]
    BY <1>2, <2>1
  <2>3. i - 1 \in DOMAIN Tail(s)
    BY <1>1, <2>1
  <2> QED
    BY <2>2, <2>3 DEF Range
<1>5. \A e \in Range(s) : \E i \in 1..Len(s) : e = s[i]
  BY <1>1 DEF Range
<1> QED
  BY <1>1, <1>3, <1>4, <1>5

LEMMA NotEmpty ==
  ASSUME NEW S, NEW s \in Seq(S), NEW e \in Range(s)
  PROVE  s # <<>> /\ e \in S
BY DEF Range

\* What a branch keeps when it grows, and what a push by others cannot publish.
LEMMA Grows ==
  ASSUME NEW s \in Seq(Own), NEW t \in Seq(Own), NEW c \in Own, IsPrefix(s, t)
  PROVE  IsPrefix(s, Append(t, c))
<1>1. Append(t, c) \in Seq(Own) /\ Len(Append(t, c)) = Len(t) + 1
      /\ \A i \in 1..Len(t) : Append(t, c)[i] = t[i]
  OBVIOUS
<1>2. Len(s) <= Len(t) /\ \A i \in 1..Len(s) : s[i] = t[i]
  BY PrefixEntries
<1>3. Len(s) <= Len(Append(t, c)) /\ \A i \in 1..Len(s) : s[i] = Append(t, c)[i]
  BY <1>1, <1>2
<1> QED
  BY <1>1, <1>3, EntriesPrefix

LEMMA ForeignTail ==
  ASSUME NEW s \in Seq(Own), NEW t \in Seq(Commit), IsPrefix(s, Append(t, Foreign))
  PROVE  IsPrefix(s, t)
<1>1. s \in Seq(Commit) /\ Append(t, Foreign) \in Seq(Commit)
      /\ Len(Append(t, Foreign)) = Len(t) + 1 /\ Append(t, Foreign)[Len(t) + 1] = Foreign
      /\ \A i \in 1..Len(t) : Append(t, Foreign)[i] = t[i]
  BY CommitKinds
<1>2. Len(s) <= Len(t) + 1 /\ \A i \in 1..Len(s) : s[i] = Append(t, Foreign)[i]
  BY <1>1, PrefixEntries
<1>3. \A i \in 1..Len(s) : s[i] # Foreign
  BY DEF Own
<1>4. Len(s) # Len(t) + 1
  BY <1>1, <1>2, <1>3
<1>5. Len(s) <= Len(t) /\ \A i \in 1..Len(s) : s[i] = t[i]
  BY <1>1, <1>2, <1>4
<1> QED
  BY <1>1, <1>5, EntriesPrefix

\* A prefix that origin receives is a Publish or nothing.
LEMMA ReceivePublishes ==
  ASSUME NEW s \in Seq(Own), branch \in Seq(Own), remote \in Seq(Commit),
         IsPrefix(s, branch), FastForward(s), Receive(s), UNCHANGED branch
  PROVE  [Next]_pubvars
<1>1. CASE remote = s
  BY <1>1 DEF Receive, pubvars
<1>2. CASE remote # s
  <2>1. Len(remote) <= Len(s) /\ Len(s) <= Len(branch) /\ SubSeq(branch, 1, Len(s)) = SubSeq(s, 1, Len(s))
    BY DEF IsPrefix, FastForward
  <2>2. SubSeq(s, 1, Len(s)) = s
    OBVIOUS
  <2>3. Len(s) # 0
    BY <1>2, <2>1
  <2>4. Len(s) \in 1..Len(branch)
    BY <2>1, <2>3
  <2>5. Publish(Len(s))
    BY <1>2, <2>1, <2>2 DEF Publish, IsStrictPrefix, FastForward, Receive
  <2> QED
    BY <2>4, <2>5 DEF Next
<1> QED
  BY <1>1, <1>2
-----------------------------------------------------------------------------
(* The steps that neither push nor decide.                                   *)

LEMMA InitInv == DeliveryInit => DInv
BY DEF DeliveryInit, Init, DInv, Kinds, LockInv, LockPcs, RollbackPcs, HeadInv, PushInv, ChainInv,
       AwaitInv, OrphanInv, DecideInv, Range, PCs

\* o moves from a program point to another, and is not dead, done or orphaned.
Moves(o, l) ==
  /\ pc \in [Op -> PCs] /\ pc' = [pc EXCEPT ![o] = l]
  /\ pc[o] \notin {"done", "dead", "orphan"}

LEMMA MovesPc ==
  ASSUME NEW o \in Op, NEW l, Moves(o, l)
  PROVE  pc'[o] = l /\ \A q \in Op : q # o => pc'[q] = pc[q]
BY DEF Moves

LEMMA OrphanKeeps ==
  ASSUME OrphanInv, NEW o \in Op, NEW l, Moves(o, l), l # "orphan"
  PROVE  OrphanInv'
BY MovesPc DEF OrphanInv, Moves

LEMMA AwaitKeeps ==
  ASSUME AwaitInv, NEW o \in Op, NEW l, Moves(o, l), UNCHANGED awaited,
         l \notin {"rbWait", "rbApply"},
         pc[o] \in {"queued", "push", "list"} => l \in {"push", "list", "done"}
  PROVE  AwaitInv'
<1>1. \A q \in Op : pc'[q] \in {"rbWait", "rbApply"} => pc'[q] = pc[q]
  BY MovesPc
<1>4. \A r \in Op : \A q \in awaited[r] : pc[q] = "done" => pc'[q] = "done"
  BY DEF Moves
<1>5. \A r \in Op : \A q \in awaited[r] : pc[q] \in {"queued", "push", "list", "done"} =>
        pc'[q] \in {"queued", "push", "list", "done"}
  BY DEF Moves
<1> QED
  BY <1>1, <1>4, <1>5 DEF AwaitInv

LEMMA DecideKeeps ==
  ASSUME DecideInv, NEW o \in Op, NEW l, Moves(o, l), UNCHANGED <<branch, remote, published>>,
         l \notin {"rbApply", "push", "orphan"}
  PROVE  DecideInv'
BY MovesPc DEF DecideInv, Published

LEMMA ChainKeeps ==
  ASSUME ChainInv, NEW o \in Op, NEW l, Moves(o, l), UNCHANGED chain,
         l \notin {"queued", "push", "list"}, pc[o] \notin {"queued", "push", "list"}
  PROVE  ChainInv'
<1>1. \A p \in Proc : o \notin Range(chain[p])
  BY DEF ChainInv, Moves
<1>2. \A p \in Proc : \A q \in Range(chain[p]) :
        Home[q] = p /\ pc'[q] \in {"queued", "push", "list", "done"}
  BY <1>1 DEF ChainInv, Moves
<1>3. \A q \in Op : pc'[q] \in {"queued", "push", "list"} => pc'[q] = pc[q]
  BY MovesPc
<1> QED
  BY <1>2, <1>3 DEF ChainInv, Pending

LEMMA AcquireInv == ASSUME DInv, NEW o \in Op, Acquire(o) PROVE DInv'
<1> USE DEF DInv, Kinds, Acquire, Goto
<1>1. Kinds'
  BY DEF PCs, MergePcs, RollbackPcs
<1>2. LockInv' /\ HeadInv'
  BY DeliveryAssumption DEF LockInv, HeadInv, LockPcs, RollbackPcs
<1>3. PushInv'
  BY DEF PushInv
<1>4. ChainInv' /\ AwaitInv' /\ OrphanInv' /\ DecideInv'
  <2>1. \E l \in {"commit", "rbRead"} : Moves(o, l)
    BY DEF Moves
  <2> QED
    BY <2>1, ChainKeeps, AwaitKeeps, OrphanKeeps, DecideKeeps
<1> QED
  BY <1>1, <1>2, <1>3, <1>4

LEMMA CommitInv == ASSUME DInv, NEW o \in Op, CommitMerge(o) PROVE DInv'
<1> USE DEF DInv, Kinds, CommitMerge, Land, Goto
<1>1. MergeOf(o) \in Own
  BY CommitKinds
<1>2. Kinds'
  BY <1>1 DEF PCs, MergePcs, RollbackPcs
<1>3. \A q \in Op : pc[q] \notin RollbackPcs
  BY DEF LockInv, LockPcs, RollbackPcs
<1>4. LockInv' /\ HeadInv' /\ AwaitInv' /\ DecideInv'
  BY <1>3 DEF LockInv, LockPcs, HeadInv, RollbackPcs, AwaitInv, DecideInv
<1>5. PushInv'
  BY <1>1, Grows DEF PushInv
<1>6. ChainInv' /\ OrphanInv'
  <2>1. Moves(o, "release")
    BY DEF Moves
  <2> QED
    BY <2>1, ChainKeeps, OrphanKeeps
<1> QED
  BY <1>2, <1>4, <1>5, <1>6

LEMMA ReleaseInv == ASSUME DInv, NEW o \in Op, Release(o) PROVE DInv'
<1> USE DEF DInv, Kinds, Release, Goto
<1>1. Kinds'
  BY DEF PCs, MergePcs, RollbackPcs
<1>2. LockInv' /\ HeadInv'
  BY DeliveryAssumption DEF LockInv, HeadInv, LockPcs, RollbackPcs
<1>3. PushInv'
  BY DEF PushInv
<1>4. ChainInv' /\ AwaitInv' /\ OrphanInv' /\ DecideInv'
  <2>1. \E l \in {"events", "done"} : Moves(o, l)
    BY DEF Moves
  <2> QED
    BY <2>1, ChainKeeps, AwaitKeeps, OrphanKeeps, DecideKeeps
<1> QED
  BY <1>1, <1>2, <1>3, <1>4

LEMMA RegisterInv == ASSUME DInv, NEW o \in Op, Register(o) PROVE DInv'
<1> USE DEF DInv, Kinds, Register, Goto
<1>1. /\ Home[o] \in Proc /\ chain'[Home[o]] = Append(chain[Home[o]], o)
      /\ \A p \in Proc : p # Home[o] => chain'[p] = chain[p]
  BY DeliveryAssumption
<1>0. /\ chain[Home[o]] \in Seq(Op) /\ Append(chain[Home[o]], o) \in Seq(Op)
      /\ Range(chain'[Home[o]]) = Range(chain[Home[o]]) \cup {o}
      /\ chain[Home[o]] # <<>> => Head(chain'[Home[o]]) = Head(chain[Home[o]])
  BY <1>1, Appended
<1>2. Kinds'
  BY <1>0 DEF PCs, MergePcs, RollbackPcs
<1>3. LockInv' /\ HeadInv' /\ PushInv'
  BY DEF LockInv, HeadInv, LockPcs, RollbackPcs, PushInv
<1>4. ChainInv'
  <2>1. ASSUME NEW p \in Proc, NEW q \in Range(chain'[p])
        PROVE  Home[q] = p /\ pc'[q] \in {"queued", "push", "list", "done"}
    <3>1. CASE q = o
      <4>1. p = Home[o]
        BY <1>1, <2>1, <3>1 DEF ChainInv
      <4> QED
        BY <3>1, <4>1
    <3>2. CASE q # o
      <4>1. q \in Range(chain[p])
        BY <1>0, <1>1, <2>1, <3>2
      <4>2. Home[q] = p /\ pc[q] \in {"queued", "push", "list", "done"}
        BY <4>1 DEF ChainInv
      <4> QED
        BY <3>2, <4>2
    <3> QED
      BY <3>1, <3>2
  <2>2. ASSUME NEW q \in Op, pc'[q] \in {"queued", "push", "list"}
        PROVE  q \in Range(chain'[Home[q]])
    <3>1. q = o \/ pc[q] \in {"queued", "push", "list"}
      BY <2>2
    <3>2. Home[q] \in Proc /\ (q = o \/ q \in Range(chain[Home[q]]))
      BY <3>1, DeliveryAssumption DEF ChainInv, Pending
    <3> QED
      BY <1>0, <1>1, <3>2
  <2>3. ASSUME NEW q \in Op, pc'[q] \in {"push", "list"}
        PROVE  Head(chain'[Home[q]]) = q
    <3>1. Home[q] \in Proc /\ q \in Range(chain[Home[q]]) /\ Head(chain[Home[q]]) = q
      BY <2>3, DeliveryAssumption DEF ChainInv, Pending
    <3>2. chain[Home[q]] # <<>>
      BY <3>1, NotEmpty
    <3> QED
      BY <1>0, <1>1, <3>1, <3>2
  <2> QED
    BY <2>1, <2>2, <2>3 DEF ChainInv, Pending
<1>5. AwaitInv' /\ OrphanInv' /\ DecideInv'
  <2>1. Moves(o, "queued")
    BY DEF Moves
  <2> QED
    BY <2>1, AwaitKeeps, OrphanKeeps, DecideKeeps
<1> QED
  BY <1>2, <1>3, <1>4, <1>5

LEMMA ReadInv == ASSUME DInv, NEW o \in Op, RbRead(o) PROVE DInv'
<1> USE DEF DInv, Kinds, RbRead, Goto
<1>1. Kinds'
  BY DEF PCs, MergePcs, RollbackPcs
<1>2. LockInv'
  BY DEF LockInv, LockPcs, RollbackPcs
<1>3. HeadInv' /\ PushInv'
  BY DEF HeadInv, PushInv
<1>4. ChainInv' /\ AwaitInv' /\ OrphanInv' /\ DecideInv'
  <2>1. \E l \in {"rbSettle", "release"} : Moves(o, l)
    BY DEF Moves
  <2> QED
    BY <2>1, ChainKeeps, AwaitKeeps, OrphanKeeps, DecideKeeps
<1> QED
  BY <1>1, <1>2, <1>3, <1>4

LEMMA SettleInv == ASSUME DInv, NEW o \in Op, RbSettle(o) PROVE DInv'
<1> USE DEF DInv, Kinds, RbSettle, Goto
<1>1. Moves(o, "rbWait") /\ Home[o] \in Proc
  BY DeliveryAssumption DEF Moves
<1>2. Range(chain[Home[o]]) \subseteq Op
  BY <1>1, NotEmpty
<1>3. Kinds'
  BY <1>2 DEF PCs, MergePcs, RollbackPcs
<1>4. LockInv' /\ HeadInv' /\ PushInv'
  BY DEF LockInv, LockPcs, RollbackPcs, HeadInv, PushInv
<1>5. ChainInv' /\ OrphanInv' /\ DecideInv'
  BY <1>1, ChainKeeps, OrphanKeeps, DecideKeeps
<1>6. \A q \in awaited'[o] : Home[q] = Home[o] /\ pc[q] \in {"queued", "push", "list", "done"}
  BY <1>1 DEF ChainInv
<1>7. AwaitInv'
  BY <1>6 DEF AwaitInv
<1> QED
  BY <1>3, <1>4, <1>5, <1>7

-----------------------------------------------------------------------------
(* Deliveries.                                                               *)

\* Nothing else of the invariant looks at the answer of a delivery.
LEMMA AnswerInv ==
  ASSUME DInv, NEW o \in Op, NEW r, pc[o] \in {"queued", "push", "list"}, Answer(o, r),
         Head(chain[Home[o]]) = o, UNCHANGED <<branch, lock, head, awaited, published>>
  PROVE  LockInv' /\ HeadInv' /\ PushInv' /\ ChainInv' /\ AwaitInv' /\ OrphanInv'
         /\ chain' \in [Proc -> Seq(Op)] /\ pc' \in [Op -> PCs] /\ Moves(o, "done")
<1> USE DEF DInv, Kinds, Answer, Goto
<1>1. Moves(o, "done") /\ Home[o] \in Proc /\ pc' \in [Op -> PCs]
  BY DeliveryAssumption DEF Moves, PCs
<1>2. LockInv' /\ HeadInv' /\ PushInv'
  BY DEF LockInv, LockPcs, RollbackPcs, HeadInv, PushInv
<1>3. AwaitInv' /\ OrphanInv'
  BY <1>1, AwaitKeeps, OrphanKeeps
<1>4. chain[Home[o]] \in Seq(Op) /\ chain[Home[o]] # <<>>
  BY <1>1, NotEmpty DEF ChainInv, Pending
<1>5. /\ chain'[Home[o]] = Tail(chain[Home[o]])
      /\ \A p \in Proc : p # Home[o] => chain'[p] = chain[p]
  BY <1>1
<1>6. /\ Tail(chain[Home[o]]) \in Seq(Op)
      /\ Range(chain'[Home[o]]) \subseteq Range(chain[Home[o]])
      /\ \A q \in Range(chain[Home[o]]) : q # o => q \in Range(chain'[Home[o]])
  BY <1>4, <1>5, Tailed
<1>7. chain' \in [Proc -> Seq(Op)]
  BY <1>6
<1>8. ASSUME NEW p \in Proc, NEW q \in Range(chain'[p])
      PROVE  Home[q] = p /\ pc'[q] \in {"queued", "push", "list", "done"}
  <2>1. q \in Range(chain[p])
    BY <1>5, <1>6, <1>8
  <2>2. Home[q] = p /\ pc[q] \in {"queued", "push", "list", "done"}
    BY <2>1 DEF ChainInv
  <2> QED
    BY <2>2
<1>9. ASSUME NEW q \in Op, pc'[q] \in {"queued", "push", "list"}
      PROVE  q \in Range(chain'[Home[q]]) /\ (pc'[q] \in {"push", "list"} => Head(chain'[Home[q]]) = q)
  <2>1. q # o /\ pc[q] = pc'[q]
    BY <1>1, <1>9, MovesPc
  <2>2. Home[q] \in Proc /\ q \in Range(chain[Home[q]])
        /\ (pc[q] \in {"push", "list"} => Head(chain[Home[q]]) = q)
    BY <1>9, <2>1, DeliveryAssumption DEF ChainInv, Pending
  <2>3. CASE Home[q] = Home[o]
    BY <1>6, <2>1, <2>2, <2>3
  <2>4. CASE Home[q] # Home[o]
    BY <1>5, <2>1, <2>2, <2>4
  <2> QED
    BY <2>3, <2>4
<1>10. ChainInv'
  BY <1>8, <1>9 DEF ChainInv, Pending
<1> QED
  BY <1>1, <1>2, <1>3, <1>7, <1>10

LEMMA CheckInv ==
  ASSUME DInv, ~Overlapping, NEW o \in Op, CheckAncestor(o)
  PROVE  DInv'
<1> USE DEF DInv, Kinds, CheckAncestor
<1>1. CASE \E r \in {"superseded", "failed"} : Answer(o, r)
  <2>1. PICK r \in {"superseded", "failed"} : Answer(o, r)
    BY <1>1
  <2>2. /\ LockInv' /\ HeadInv' /\ PushInv' /\ ChainInv' /\ AwaitInv' /\ OrphanInv'
        /\ chain' \in [Proc -> Seq(Op)] /\ pc' \in [Op -> PCs] /\ Moves(o, "done")
    BY <2>1, AnswerInv
  <2> QED
    BY <2>2, DecideKeeps
<1>2. CASE IsPrefix(head[o], branch) /\ Goto(o, "push") /\ UNCHANGED <<chain, report>>
  <2> USE <1>2 DEF Goto
  <2>1. Moves(o, "push")
    BY DEF Moves
  <2>2. Kinds' /\ LockInv' /\ HeadInv'
    BY DEF PCs, MergePcs, RollbackPcs, LockInv, LockPcs, HeadInv
  <2>3. PushInv'
    BY DEF PushInv
  <2>4. ChainInv'
    BY DEF ChainInv, Pending
  <2>5. AwaitInv' /\ OrphanInv'
    BY <2>1, AwaitKeeps, OrphanKeeps
  <2>6. \A q \in Op : pc[q] # "rbApply"
    BY DEF AwaitInv, Apart
  <2>7. DecideInv'
    BY <2>6 DEF DecideInv
  <2> QED
    BY <2>2, <2>3, <2>4, <2>5, <2>7
<1> QED
  BY <1>1, <1>2

LEMMA PushedInv ==
  ASSUME DInv, NEW o \in Op, Push(o)
  PROVE  DInv' /\ [Next]_pubvars
<1>2. remote' = remote \/ (FastForward(head[o]) /\ Receive(head[o]))
  BY DEF Push
<1> USE DEF DInv, Kinds, Push
<1>1. IsPrefix(head[o], branch) /\ \A q \in Op : pc[q] # "rbApply"
  BY DEF PushInv, DecideInv
<1>3. [Next]_pubvars /\ remote' \in Seq(Commit)
  BY <1>1, <1>2, ReceivePublishes, CommitKinds DEF pubvars, Receive
<1>4. CASE \E r \in Delivered \cup Refused : Answer(o, r)
  <2>1. Head(chain[Home[o]]) = o
    BY DEF ChainInv
  <2>2. /\ LockInv' /\ HeadInv' /\ PushInv' /\ ChainInv' /\ AwaitInv' /\ OrphanInv'
        /\ chain' \in [Proc -> Seq(Op)] /\ pc' \in [Op -> PCs] /\ Moves(o, "done")
    BY <1>4, <2>1, AnswerInv
  <2>3. DecideInv'
    BY <1>1, <2>2, MovesPc DEF DecideInv
  <2> QED
    BY <1>3, <2>2, <2>3
<1>5. CASE Goto(o, "list") /\ UNCHANGED <<remote, chain, report>>
  <2> USE <1>5 DEF Goto
  <2>1. Moves(o, "list")
    BY DEF Moves
  <2>2. Kinds' /\ LockInv' /\ HeadInv' /\ PushInv'
    BY DEF PCs, MergePcs, RollbackPcs, LockInv, LockPcs, HeadInv, PushInv
  <2>3. ChainInv'
    BY DEF ChainInv, Pending
  <2>4. AwaitInv' /\ OrphanInv' /\ DecideInv'
    BY <2>1, AwaitKeeps, OrphanKeeps, DecideKeeps
  <2> QED
    BY <1>3, <2>2, <2>3, <2>4
<1> QED
  BY <1>4, <1>5 DEF Delivered, Refused

LEMMA ListInv ==
  ASSUME DInv, NEW o \in Op, ListRemote(o)
  PROVE  DInv'
<1> USE DEF DInv, Kinds, ListRemote
<1>1. Head(chain[Home[o]]) = o
  BY DEF ChainInv
<1>2. PICK r \in {"alreadyDelivered", "nonFastForward"} : Answer(o, r)
  OBVIOUS
<1>3. /\ LockInv' /\ HeadInv' /\ PushInv' /\ ChainInv' /\ AwaitInv' /\ OrphanInv'
      /\ chain' \in [Proc -> Seq(Op)] /\ pc' \in [Op -> PCs] /\ Moves(o, "done")
  BY <1>1, <1>2, AnswerInv
<1> QED
  BY <1>3, DecideKeeps

-----------------------------------------------------------------------------
(* Rollbacks, and faults.                                                    *)

LEMMA FetchInv ==
  ASSUME DInv, ~Overlapping, NEW o \in Op, RbFetch(o)
  PROVE  DInv'
<1> USE DEF DInv, Kinds, RbFetch, Goto
<1>1. Moves(o, "rbApply")
  BY DEF Moves
<1>2. Kinds'
  <2>1. Published(branch) \in BOOLEAN
    BY DEF Published, IsPrefix
  <2>2. \E b \in BOOLEAN : published' = [published EXCEPT ![o] = b]
    BY <2>1
  <2>3. published' \in [Op -> BOOLEAN]
    BY <2>2
  <2>4. pc' \in [Op -> PCs]
    BY DEF PCs, RollbackPcs
  <2> QED
    BY <2>3, <2>4
<1>3. LockInv' /\ HeadInv' /\ PushInv'
  BY DEF PCs, MergePcs, RollbackPcs, LockInv, LockPcs, HeadInv, PushInv
<1>4. ChainInv' /\ OrphanInv'
  BY <1>1, ChainKeeps, OrphanKeeps
<1>5. \A q \in awaited[o] : Home[q] = Home[o] /\ pc[q] = "done"
  <2> SUFFICES ASSUME NEW q \in awaited[o] PROVE Home[q] = Home[o] /\ pc[q] = "done"
    OBVIOUS
  <2>1. q \in Op /\ Home[q] = Home[o] /\ pc[q] \in {"queued", "push", "list", "done"}
    BY DEF AwaitInv
  <2>2. q \notin Range(chain[Home[q]])
    BY <2>1 DEF Settled
  <2> QED
    BY <2>1, <2>2 DEF ChainInv, Pending
<1>6. AwaitInv'
  <2>1. \A r \in Op : r # o => pc'[r] = pc[r]
    BY <1>1, MovesPc
  <2>2. \A q \in Op : pc[q] \in {"queued", "push", "list", "done"} => pc'[q] = pc[q]
    BY <1>1, MovesPc
  <2> QED
    BY <1>1, <1>5, <2>1, <2>2, MovesPc DEF AwaitInv
<1>7. \A q \in Op : pc[q] \notin {"push", "orphan"}
  BY <1>5 DEF Apart
<1>8. \A q \in Op : pc'[q] = "rbApply" => q = o
  BY <1>1, DeliveryAssumption DEF LockInv, LockPcs, RollbackPcs
<1>9. published'[o] \/ ~Published(branch)
  OBVIOUS
<1>10. DecideInv'
  BY <1>7, <1>8, <1>9 DEF DecideInv, Published
<1> QED
  BY <1>2, <1>3, <1>4, <1>6, <1>10

LEMMA ApplyInv ==
  ASSUME DInv, NEW o \in Op, RbApply(o)
  PROVE  DInv' /\ [Next]_pubvars
<1> USE DEF DInv, Kinds, RbApply, Goto
<1>1. head[o] = branch /\ branch # <<>> /\ Last(branch).kind = "merge" /\ \A q \in Op : pc[q] \notin {"push", "orphan"}
  BY DEF HeadInv, DecideInv
<1>2. Moves(o, "release")
  BY DEF Moves
<1>3. branch' \in Seq(Own) /\ [Next]_pubvars
  <2>1. CASE published[o] /\ branch' = Append(branch, RevertOf(Last(head[o]).op))
    <3>1. Last(branch) \in Own
      BY <1>1 DEF Last
    <3>2. RevertOf(Last(head[o]).op) \in Own
      BY <1>1, <3>1, CommitKinds
    <3>3. Land(RevertOf(Last(head[o]).op))
      BY <1>1, <2>1 DEF Land
    <3> QED
      BY <2>1, <3>2, <3>3 DEF Next, Own
  <2>2. CASE UNCHANGED branch
    BY <2>2 DEF pubvars
  <2>3. CASE ~published[o] /\ branch' = Front(head[o])
    <3>1. Undo
      BY <1>1, <2>3 DEF Undo, DecideInv
    <3>2. Len(branch) - 1 \in 0..Len(branch) /\ branch' = SubSeq(branch, 1, Len(branch) - 1)
      BY <1>1, <2>3 DEF Front
    <3> QED
      BY <3>1, <3>2, Cuts DEF Next
  <2> QED
    BY <2>1, <2>2, <2>3
<1>4. Kinds'
  BY <1>3 DEF PCs, MergePcs, RollbackPcs
<1>5. \A q \in Op : pc'[q] \notin RollbackPcs
  BY <1>2, MovesPc, DeliveryAssumption DEF LockInv, LockPcs, RollbackPcs
<1>6. LockInv' /\ HeadInv' /\ DecideInv'
  BY <1>5 DEF LockInv, LockPcs, HeadInv, DecideInv, RollbackPcs
<1>7. PushInv'
  BY <1>1, <1>2, MovesPc DEF PushInv
<1>8. ChainInv' /\ AwaitInv' /\ OrphanInv'
  BY <1>2, ChainKeeps, AwaitKeeps, OrphanKeeps
<1> QED
  BY <1>3, <1>4, <1>6, <1>7, <1>8

\* A killed process takes its rollbacks, its deliveries and its chain with it.
LEMMA CrashInv ==
  ASSUME DInv, NEW o \in Op, Crash(o)
  PROVE  DInv'
<1> DEFINE Mate(q) == Home[q] = Home[o]
<1> USE DEF DInv, Kinds
<1>1. /\ pc' \in [Op -> PCs] /\ lock' \in Op \cup {NoOne}
      /\ \A q \in Op : ~Mate(q) => pc'[q] = pc[q]
      /\ \A q \in Op : Mate(q) => pc'[q] \in {"done", "orphan", "dead"}
                                  /\ (pc'[q] = "orphan" => pc[q] \in {"push", "orphan"})
      /\ lock' = lock \/ \E q \in Op : Mate(q) /\ lock = q
  BY DEF Crash, PCs
<1>2. /\ Home[o] \in Proc /\ chain'[Home[o]] = <<>>
      /\ \A p \in Proc : p # Home[o] => chain'[p] = chain[p]
      /\ chain' \in [Proc -> Seq(Op)]
  BY DeliveryAssumption DEF Crash
<1>3. Kinds'
  BY <1>1, <1>2 DEF Crash
<1>4. LockInv'
  BY <1>1, DeliveryAssumption DEF LockInv, LockPcs, RollbackPcs
<1>5. HeadInv' /\ PushInv'
  BY <1>1 DEF HeadInv, PushInv, Crash
<1>6. ChainInv'
  <2>1. ASSUME NEW p \in Proc, NEW q \in Range(chain'[p])
        PROVE  Home[q] = p /\ pc'[q] \in {"queued", "push", "list", "done"}
    <3>1. p # Home[o]
      BY <1>2, <2>1 DEF Range
    <3>2. q \in Op /\ Home[q] = p /\ pc[q] \in {"queued", "push", "list", "done"}
      BY <1>2, <2>1, <3>1, NotEmpty DEF ChainInv
    <3> QED
      BY <1>1, <3>1, <3>2
  <2>2. ASSUME NEW q \in Op, pc'[q] \in {"queued", "push", "list"}
        PROVE  pc'[q] = pc[q] /\ chain'[Home[q]] = chain[Home[q]]
    BY <1>1, <1>2, <2>2, DeliveryAssumption
  <2> QED
    BY <2>1, <2>2 DEF ChainInv, Pending
<1>7. AwaitInv'
  <2>1. ASSUME NEW r \in Op, pc'[r] \in {"rbWait", "rbApply"}
        PROVE  pc'[r] = pc[r] /\ \A q \in awaited[r] : q \in Op /\ Home[q] = Home[r] /\ pc'[q] = pc[q]
    <3>1. ~Mate(r) /\ pc'[r] = pc[r]
      BY <1>1, <2>1
    <3>2. \A q \in awaited[r] : q \in Op /\ Home[q] = Home[r]
      BY <2>1, <3>1 DEF AwaitInv
    <3> QED
      BY <1>1, <3>1, <3>2
  <2>2. awaited' = awaited
    BY DEF Crash
  <2> QED
    BY <2>1, <2>2 DEF AwaitInv
<1>8. OrphanInv'
  <2> SUFFICES ASSUME NEW q \in Op, NEW r \in Op, pc'[q] = "orphan", Home[r] = Home[q]
               PROVE  pc'[r] \in {"done", "dead", "orphan"}
    BY DEF OrphanInv
  <2>1. CASE Mate(q)
    BY <1>1, <2>1
  <2>2. CASE ~Mate(q)
    BY <1>1, <2>2 DEF OrphanInv
  <2> QED
    BY <2>1, <2>2
<1>9. DecideInv'
  BY <1>1 DEF DecideInv, Published, Crash
<1> QED
  BY <1>3, <1>4, <1>5, <1>6, <1>7, <1>8, <1>9

LEMMA OrphanPushInv ==
  ASSUME DInv, NEW o \in Op, OrphanPush(o)
  PROVE  DInv' /\ [Next]_pubvars
<1>1. remote' = remote \/ (FastForward(head[o]) /\ Receive(head[o]))
  BY DEF OrphanPush
<1> USE DEF DInv, Kinds, OrphanPush, Goto
<1>2. IsPrefix(head[o], branch) /\ \A q \in Op : pc[q] # "rbApply"
  BY DEF PushInv, DecideInv
<1>3. [Next]_pubvars /\ remote' \in Seq(Commit)
  BY <1>1, <1>2, ReceivePublishes, CommitKinds DEF pubvars, Receive
<1>4. pc'[o] = "dead" /\ \A q \in Op : q # o => pc'[q] = pc[q]
  OBVIOUS
<1>5. Kinds'
  BY <1>3 DEF PCs
<1>6. LockInv' /\ HeadInv' /\ PushInv' /\ DecideInv'
  BY <1>2, <1>4 DEF LockInv, LockPcs, RollbackPcs, HeadInv, PushInv, DecideInv
<1>7. ChainInv'
  <2>1. \A p \in Proc : \A q \in Range(chain[p]) :
          Home[q] = p /\ pc'[q] \in {"queued", "push", "list", "done"}
    BY DEF ChainInv
  <2> QED
    BY <1>4, <2>1 DEF ChainInv, Pending
<1>8. AwaitInv'
  <2>1. \A q \in Op : pc[q] \in {"queued", "push", "list", "done"} => pc'[q] = pc[q]
    BY <1>4
  <2> QED
    BY <1>4, <2>1 DEF AwaitInv
<1>9. OrphanInv'
  BY <1>4 DEF OrphanInv
<1> QED
  BY <1>3, <1>5, <1>6, <1>7, <1>8, <1>9

LEMMA ForeignInv ==
  ASSUME DInv, ForeignPush
  PROVE  DInv' /\ [Next]_pubvars
<1> USE DEF DInv, Kinds, ForeignPush, SomebodyPushes, opvars
<1>1. remote' \in Seq(Commit) /\ (Published(branch)' => Published(branch))
  BY CommitKinds, ForeignTail DEF Published
<1>2. Kinds' /\ LockInv' /\ HeadInv' /\ PushInv'
  BY <1>1 DEF LockInv, HeadInv, PushInv
<1>3. ChainInv' /\ AwaitInv' /\ OrphanInv'
  BY DEF ChainInv, Pending, AwaitInv, OrphanInv
<1>4. DecideInv'
  BY <1>1 DEF DecideInv
<1> QED
  BY <1>2, <1>3, <1>4 DEF Next

-----------------------------------------------------------------------------
(* The refinement.                                                           *)

LEMMA StepInv ==
  ASSUME ~Overlapping, DInv, [DeliveryNext]_vars
  PROVE  DInv' /\ [Next]_pubvars
<1>1. ASSUME NEW o \in Op, CommitMerge(o)
      PROVE  DInv' /\ [Next]_pubvars
  <2>1. MergeOf(o) \in Commit \ {Foreign}
    BY CommitKinds DEF Own
  <2>2. Next
    BY <1>1, <2>1 DEF CommitMerge, Next
  <2> QED
    BY <1>1, <2>2, CommitInv
<1>2. ASSUME NEW o \in Op,
             Acquire(o) \/ Release(o) \/ Register(o) \/ CheckAncestor(o) \/ ListRemote(o)
             \/ RbRead(o) \/ RbSettle(o) \/ RbFetch(o) \/ Crash(o)
      PROVE  DInv' /\ [Next]_pubvars
  <2>1. DInv'
    BY <1>2, AcquireInv, ReleaseInv, RegisterInv, CheckInv, ListInv,
       ReadInv, SettleInv, FetchInv, CrashInv
  <2>2. UNCHANGED pubvars
    BY <1>2 DEF Acquire, Release, Register, CheckAncestor, ListRemote,
                RbRead, RbSettle, RbFetch, Crash, pubvars
  <2> QED
    BY <2>1, <2>2
<1>3. ASSUME NEW o \in Op, Push(o) \/ RbApply(o) \/ OrphanPush(o)
      PROVE  DInv' /\ [Next]_pubvars
  BY <1>3, PushedInv, ApplyInv, OrphanPushInv
<1>4. CASE ForeignPush
  BY <1>4, ForeignInv
<1>5. CASE UNCHANGED vars
  BY <1>5 DEF vars, opvars, pubvars, DInv, Kinds, LockInv, HeadInv, PushInv, ChainInv,
              Pending, AwaitInv, OrphanInv, DecideInv, Published
<1> QED
  BY <1>1, <1>2, <1>3, <1>4, <1>5 DEF DeliveryNext, OpStep

\* Whatever is killed, fails or is pushed by other people between the commit of
\* a merge, its push and the rollback that undoes it, branch and origin only
\* take the steps of Publication, as long as no delivery that a rollback does
\* not wait for is under way while it decides.
THEOREM DeliveryImplements ==
  ASSUME ~Overlapping
  PROVE  DeliverySpec => ImplementsPublication
<1>1. DeliveryInit => DInv /\ Init
  BY InitInv DEF DeliveryInit
<1>2. DInv /\ [DeliveryNext]_vars => DInv' /\ [Next]_pubvars
  BY StepInv
<1> QED
  BY <1>1, <1>2, PTL DEF DeliverySpec, ImplementsPublication, Spec

\* Then no rollback rewrites a commit that is on origin, and no delivery
\* publishes one that was undone.
THEOREM NeverUndoneByDelivery ==
  ASSUME ~Overlapping
  PROVE  DeliverySpec => []PublishedNotUndone
<1>1. DeliverySpec => Spec
  BY DeliveryImplements DEF ImplementsPublication
<1> QED
  BY <1>1, NeverUndone, PTL

-----------------------------------------------------------------------------
(* What is reported.                                                         *)

MoreKinds ==
  /\ report \in [Op -> {"none"} \cup Delivered \cup Refused]
  /\ tracking \in Seq(Commit)

\* An operation is in its chain once, and until it is answered.
OnceInv ==
  \A p \in Proc :
    /\ \A i, j \in DOMAIN chain[p] : i # j => chain[p][i] # chain[p][j]
    /\ \A i \in DOMAIN chain[p] : pc[chain[p][i]] # "done"

Reported == \A o \in Op : report[o] # "none" => pc[o] = "done"

\* Nothing of an operation is in the branch before it committed, and what it then
\* delivers ends with its commit.
MineInv ==
  \A o \in Op :
    /\ pc[o] \in {"out", "commit"} \cup RollbackPcs =>
         MergeOf(o) \notin Range(branch) /\ MergeOf(o) \notin Range(head[o])
    /\ pc[o] = "release" /\ MergeOf(o) \in Range(head[o]) => Last(head[o]) = MergeOf(o)
    /\ pc[o] \in {"events", "queued", "push", "list"} \/ report[o] # "none" =>
         head[o] # <<>> /\ Last(head[o]) = MergeOf(o)

\* What was superseded does not come back, what was delivered stays.
SupersededInv == \A o \in Op : report[o] = "superseded" => ~IsPrefix(head[o], branch)
DeliveredInv == \A o \in Op : report[o] \in Delivered => Published(head[o])

\* A push that origin refused has been overtaken, by somebody else or by us.
OvertakenInv ==
  \A o \in Op :
    /\ pc[o] = "list" => Foreign \in Range(remote) \/ Published(head[o])
    /\ report[o] = "nonFastForward" => Foreign \in Range(remote)

RInv ==
  /\ DInv /\ PInv /\ MoreKinds /\ OnceInv /\ Reported
  /\ MineInv /\ SupersededInv /\ DeliveredInv /\ OvertakenInv

\* What a step does to an answer: none, or one, of an operation that ends.
LEMMA AnswerStep ==
  ASSUME Kinds, [DeliveryNext]_vars
  PROVE  \/ UNCHANGED report
         \/ \E o \in Op, r \in Delivered \cup Refused :
              /\ CheckAncestor(o) \/ Push(o) \/ ListRemote(o)
              /\ Answer(o, r)
BY DEF DeliveryNext, OpStep, Acquire, CommitMerge, Release, Register, CheckAncestor, Push, ListRemote,
       RbRead, RbSettle, RbFetch, RbApply, OrphanPush, Crash, ForeignPush, vars, opvars, Delivered, Refused

\* An operation that is done stays so, and others follow by an answer or a release.
LEMMA DoneStep ==
  ASSUME Kinds, [DeliveryNext]_vars, NEW q \in Op
  PROVE  /\ pc[q] = "done" => pc'[q] = "done" /\ head'[q] = head[q]
         /\ pc'[q] = "done" /\ pc[q] # "done" =>
              \/ Release(q)
              \/ CheckAncestor(q) /\ \E r \in {"superseded", "failed"} : Answer(q, r)
              \/ Push(q) /\ \E r \in Delivered \cup Refused : Answer(q, r)
              \/ ListRemote(q) /\ \E r \in {"alreadyDelivered", "nonFastForward"} : Answer(q, r)
<1> USE DEF Kinds, Goto
<1>1. ASSUME NEW o \in Op, Acquire(o) \/ CommitMerge(o) \/ Release(o) \/ Register(o)
                           \/ RbRead(o) \/ RbSettle(o) \/ RbFetch(o) \/ RbApply(o) \/ OrphanPush(o)
      PROVE  /\ pc[q] = "done" => pc'[q] = "done" /\ head'[q] = head[q]
             /\ pc'[q] = "done" /\ pc[q] # "done" => Release(q)
  BY <1>1 DEF Acquire, CommitMerge, Release, Register, RbRead, RbSettle, RbFetch, RbApply, OrphanPush
<1>2. ASSUME NEW o \in Op, CheckAncestor(o)
      PROVE  /\ pc[q] = "done" => pc'[q] = "done" /\ head'[q] = head[q]
             /\ pc'[q] = "done" /\ pc[q] # "done" =>
                  CheckAncestor(q) /\ \E r \in {"superseded", "failed"} : Answer(q, r)
  <2>1. CASE q = o
    BY <1>2, <2>1 DEF CheckAncestor, Answer
  <2>2. CASE q # o
    BY <1>2, <2>2 DEF CheckAncestor, Answer
  <2> QED
    BY <2>1, <2>2
<1>3. ASSUME NEW o \in Op, Push(o)
      PROVE  /\ pc[q] = "done" => pc'[q] = "done" /\ head'[q] = head[q]
             /\ pc'[q] = "done" /\ pc[q] # "done" =>
                  Push(q) /\ \E r \in Delivered \cup Refused : Answer(q, r)
  <2>1. CASE q = o
    BY <1>3, <2>1 DEF Push, Answer, Delivered, Refused
  <2>2. CASE q # o
    BY <1>3, <2>2 DEF Push, Answer
  <2> QED
    BY <2>1, <2>2
<1>4. ASSUME NEW o \in Op, ListRemote(o)
      PROVE  /\ pc[q] = "done" => pc'[q] = "done" /\ head'[q] = head[q]
             /\ pc'[q] = "done" /\ pc[q] # "done" =>
                  ListRemote(q) /\ \E r \in {"alreadyDelivered", "nonFastForward"} : Answer(q, r)
  <2>1. CASE q = o
    BY <1>4, <2>1 DEF ListRemote, Answer
  <2>2. CASE q # o
    BY <1>4, <2>2 DEF ListRemote, Answer
  <2> QED
    BY <2>1, <2>2
<1>5. ASSUME NEW o \in Op, Crash(o)
      PROVE  /\ pc[q] = "done" => pc'[q] = "done" /\ head'[q] = head[q]
             /\ pc'[q] = "done" => pc[q] = "done"
  BY <1>5 DEF Crash
<1>6. CASE ForeignPush \/ UNCHANGED vars
  BY <1>6 DEF ForeignPush, vars, opvars
<1> QED
  BY <1>1, <1>2, <1>3, <1>4, <1>5, <1>6 DEF DeliveryNext, OpStep

LEMMA MoreKindsStep ==
  ASSUME RInv, [DeliveryNext]_vars
  PROVE  MoreKinds'
<1> USE DEF RInv, DInv, MoreKinds
<1>1. report' \in [Op -> {"none"} \cup Delivered \cup Refused]
  <2>1. CASE \E o \in Op, r \in Delivered \cup Refused : Answer(o, r)
    BY <2>1 DEF Answer
  <2> QED
    BY <2>1, AnswerStep
<1>2. tracking' = tracking \/ tracking' = remote
  BY DEF DeliveryNext, OpStep, Acquire, CommitMerge, Release, Register, CheckAncestor, Push, ListRemote,
         RbRead, RbSettle, RbFetch, RbApply, OrphanPush, Crash, ForeignPush, vars, opvars
<1> QED
  BY <1>1, <1>2 DEF Kinds

LEMMA ReportedStep ==
  ASSUME RInv, [DeliveryNext]_vars
  PROVE  Reported'
<1> USE DEF RInv, DInv, Reported
<1>1. CASE UNCHANGED report
  BY <1>1, DoneStep
<1>2. ASSUME NEW o \in Op, NEW r \in Delivered \cup Refused, Answer(o, r) PROVE Reported'
  <2>1. pc'[o] = "done" /\ \A q \in Op : q # o => report'[q] = report[q]
    BY <1>2 DEF Answer, Goto, Kinds, MoreKinds
  <2> QED
    BY <2>1, DoneStep
<1> QED
  BY <1>1, <1>2, AnswerStep

LEMMA OnceStep ==
  ASSUME RInv, [DeliveryNext]_vars
  PROVE  OnceInv'
<1> USE DEF RInv, DInv, Kinds
<1>0. /\ \A p \in Proc : \A i \in DOMAIN chain[p] :
            /\ chain[p][i] \in Op /\ Home[chain[p][i]] = p
            /\ pc[chain[p][i]] \in {"queued", "push", "list"}
            /\ \A j \in DOMAIN chain[p] : i # j => chain[p][i] # chain[p][j]
  BY DEF ChainInv, OnceInv, Range
<1> DEFINE Once(p) == /\ \A i, j \in DOMAIN chain[p] : i # j => chain[p][i] # chain[p][j]
                      /\ \A i \in DOMAIN chain[p] : pc[chain[p][i]] # "done"
<1>8. ASSUME NEW p \in Proc, chain'[p] = chain[p], \A q \in Op : Home[q] = p => pc'[q] = pc[q]
      PROVE  Once(p)'
  <2>1. \A i \in DOMAIN chain[p] : pc'[chain[p][i]] = pc[chain[p][i]]
    BY <1>0, <1>8
  <2>2. \A i \in DOMAIN chain[p] : pc'[chain[p][i]] # "done"
    BY <1>0, <2>1
  <2> QED
    BY <1>0, <1>8, <2>2
<1>1. ASSUME NEW o \in Op, Register(o) PROVE OnceInv'
  <2>1. /\ Home[o] \in Proc /\ chain' = [chain EXCEPT ![Home[o]] = Append(@, o)]
        /\ pc[o] = "events" /\ pc' = [pc EXCEPT ![o] = "queued"]
    BY <1>1, DeliveryAssumption DEF Register, Goto
  <2>2. ASSUME NEW p \in Proc, p # Home[o] PROVE Once(p)'
    BY <1>8, <2>1, <2>2
  <2>3. Once(Home[o])'
    <3> DEFINE c == chain[Home[o]]
    <3>1. /\ c \in Seq(Op) /\ chain'[Home[o]] = Append(c, o)
          /\ \A i, j \in DOMAIN c : i # j => c[i] # c[j]
      BY <1>0, <2>1
    <3>7. \A i \in DOMAIN c : c[i] \in Op /\ c[i] # o /\ pc[c[i]] # "done"
      BY <1>0, <2>1
    <3>8. \A i \in DOMAIN c : c[i] # o /\ pc'[c[i]] # "done"
      BY <2>1, <3>7
    <3>2. pc'[o] = "queued"
      BY <2>1
    <3>3. /\ DOMAIN Append(c, o) = 1..(Len(c) + 1) /\ DOMAIN c = 1..Len(c) /\ Len(c) \in Nat
          /\ Append(c, o)[Len(c) + 1] = o /\ \A i \in 1..Len(c) : Append(c, o)[i] = c[i]
      BY <3>1
    <3> HIDE DEF c
    <3>4. \A i \in DOMAIN Append(c, o) : i \in DOMAIN c \/ i = Len(c) + 1
      BY <3>3
    <3>5. \A i \in DOMAIN Append(c, o) : pc'[Append(c, o)[i]] # "done"
      BY <3>2, <3>3, <3>4, <3>8
    <3>6. \A i, j \in DOMAIN Append(c, o) : i # j => Append(c, o)[i] # Append(c, o)[j]
      BY <3>1, <3>3, <3>4, <3>8
    <3> QED
      BY <3>1, <3>5, <3>6
  <2> QED
    BY <2>2, <2>3 DEF OnceInv
<1>2. ASSUME NEW o \in Op, NEW r, Answer(o, r), Head(chain[Home[o]]) = o, pc[o] \in {"queued", "push", "list"}
      PROVE  OnceInv'
  <2>1. /\ Home[o] \in Proc /\ chain' = [chain EXCEPT ![Home[o]] = Tail(@)]
        /\ pc' = [pc EXCEPT ![o] = "done"] /\ o \in Range(chain[Home[o]])
    BY <1>2, DeliveryAssumption DEF Answer, Goto, ChainInv, Pending
  <2>2. ASSUME NEW p \in Proc, p # Home[o] PROVE Once(p)'
    BY <1>8, <2>1, <2>2
  <2>3. Once(Home[o])'
    <3> DEFINE c == chain[Home[o]]
    <3>1. c \in Seq(Op) /\ c # <<>> /\ chain'[Home[o]] = Tail(c)
      BY <2>1, NotEmpty
    <3>2. /\ c[1] = o /\ DOMAIN Tail(c) = 1..(Len(c) - 1) /\ DOMAIN c = 1..Len(c)
          /\ Len(c) \in Nat /\ \A i \in 1..(Len(c) - 1) : Tail(c)[i] = c[i + 1]
      BY <1>2, <3>1
    <3>3. \A i, j \in DOMAIN c : i # j => c[i] # c[j]
      BY <1>0, <2>1
    <3>4. \A i \in DOMAIN c : c[i] \in Op /\ pc[c[i]] # "done"
      BY <1>0, <2>1
    <3> HIDE DEF c
    <3>5. \A i \in DOMAIN Tail(c) : i + 1 \in DOMAIN c /\ i + 1 # 1 /\ Tail(c)[i] = c[i + 1] /\ i \in Nat
      BY <3>2
    <3>6. \A i \in DOMAIN Tail(c) : Tail(c)[i] # o /\ pc'[Tail(c)[i]] # "done"
      <4> SUFFICES ASSUME NEW i \in DOMAIN Tail(c) PROVE Tail(c)[i] # o /\ pc'[Tail(c)[i]] # "done"
        OBVIOUS
      <4>1. Tail(c)[i] # o
        <5>1. 1 \in DOMAIN c
          BY <3>2, <3>5
        <5> QED
          BY <3>2, <3>3, <3>5, <5>1
      <4> QED
        BY <2>1, <3>4, <3>5, <4>1
    <3>7. \A i, j \in DOMAIN Tail(c) : i # j => Tail(c)[i] # Tail(c)[j]
      BY <3>3, <3>5
    <3> QED
      BY <3>1, <3>6, <3>7
  <2> QED
    BY <2>2, <2>3 DEF OnceInv
<1>3. ASSUME NEW o \in Op, Crash(o) PROVE OnceInv'
  <2>1. /\ Home[o] \in Proc /\ chain' = [chain EXCEPT ![Home[o]] = <<>>]
        /\ \A q \in Op : Home[q] # Home[o] => pc'[q] = pc[q]
    BY <1>3, DeliveryAssumption DEF Crash
  <2>2. ASSUME NEW p \in Proc, p # Home[o] PROVE Once(p)'
    BY <1>8, <2>1, <2>2
  <2> QED
    BY <2>1, <2>2 DEF OnceInv
<1>4. CASE UNCHANGED chain /\ \A q \in Op : pc[q] \in {"queued", "push", "list"} => pc'[q] # "done"
  BY <1>0, <1>4 DEF OnceInv
<1>5. ASSUME NEW o \in Op,
             Acquire(o) \/ CommitMerge(o) \/ Release(o) \/ RbRead(o) \/ RbSettle(o) \/ RbFetch(o)
             \/ RbApply(o) \/ OrphanPush(o)
      PROVE  UNCHANGED chain /\ \A q \in Op : pc[q] \in {"queued", "push", "list"} => pc'[q] # "done"
  BY <1>5 DEF Acquire, CommitMerge, Release, RbRead, RbSettle, RbFetch, RbApply, OrphanPush, Goto
<1>6. ASSUME NEW o \in Op, CheckAncestor(o) \/ Push(o) \/ ListRemote(o) PROVE OnceInv'
  <2>1. Head(chain[Home[o]]) = o /\ pc[o] \in {"queued", "push", "list"}
    BY <1>6 DEF CheckAncestor, Push, ListRemote, ChainInv
  <2>2. CASE \E r : Answer(o, r)
    BY <1>2, <2>1, <2>2
  <2>3. CASE UNCHANGED chain /\ (Goto(o, "push") \/ Goto(o, "list"))
    BY <1>4, <2>3 DEF Goto
  <2> QED
    BY <1>6, <2>2, <2>3 DEF CheckAncestor, Push, ListRemote
<1>7. CASE ForeignPush \/ UNCHANGED vars
  BY <1>4, <1>7 DEF ForeignPush, vars, opvars
<1> QED
  BY <1>1, <1>3, <1>4, <1>5, <1>6, <1>7 DEF DeliveryNext, OpStep

-----------------------------------------------------------------------------
\* How the branch and origin change.
LEMMA BranchStep ==
  ASSUME DInv, [DeliveryNext]_vars
  PROVE  \/ UNCHANGED branch
         \/ \E o \in Op : CommitMerge(o) /\ branch' = Append(branch, MergeOf(o))
         \/ \E o \in Op : branch' = Append(branch, RevertOf(o))
         \/ branch # <<>> /\ branch' = Front(branch)
<1> USE DEF DInv
<1>1. ASSUME NEW o \in Op, RbApply(o)
      PROVE  \/ UNCHANGED branch \/ \E q \in Op : branch' = Append(branch, RevertOf(q))
             \/ branch # <<>> /\ branch' = Front(branch)
  <2>1. head[o] = branch /\ branch # <<>> /\ Last(branch).kind = "merge"
    BY <1>1 DEF RbApply, HeadInv
  <2>2. Last(branch) \in Own
    BY <2>1 DEF Kinds, Last
  <2>3. Last(branch).op \in Op
    BY <2>1, <2>2, CommitKinds
  <2> QED
    BY <1>1, <2>1, <2>3 DEF RbApply
<1>2. CASE \E o \in Op : CommitMerge(o)
  BY <1>2 DEF CommitMerge, Land
<1> QED
  BY <1>1, <1>2
     DEF DeliveryNext, OpStep, Acquire, Release, Register, CheckAncestor, Push, ListRemote,
         RbRead, RbSettle, RbFetch, OrphanPush, Crash, ForeignPush, SomebodyPushes, vars, opvars

LEMMA RemoteStep ==
  ASSUME DInv, [DeliveryNext]_vars
  PROVE  \/ UNCHANGED remote
         \/ \E o \in Op : IsPrefix(remote, head[o]) /\ remote' = head[o]
         \/ remote' = Append(remote, Foreign)
BY DEF DeliveryNext, OpStep, Acquire, CommitMerge, Land, Release, Register, CheckAncestor, Push, ListRemote,
       RbRead, RbSettle, RbFetch, RbApply, OrphanPush, Crash, ForeignPush, SomebodyPushes, vars, opvars,
       FastForward, Receive

\* What is on origin stays there.
LEMMA PrefixTransitive ==
  ASSUME NEW S, NEW s \in Seq(S), NEW t \in Seq(S), NEW u \in Seq(S), IsPrefix(s, t), IsPrefix(t, u)
  PROVE  IsPrefix(s, u)
<1>1. /\ Len(s) <= Len(t) /\ \A i \in 1..Len(s) : s[i] = t[i]
      /\ Len(t) <= Len(u) /\ \A i \in 1..Len(t) : t[i] = u[i]
  BY PrefixEntries
<1>2. Len(s) <= Len(u) /\ \A i \in 1..Len(s) : s[i] = u[i]
  BY <1>1
<1> QED
  BY <1>2, EntriesPrefix

LEMMA PrefixAppended ==
  ASSUME NEW S, NEW s \in Seq(S), NEW t \in Seq(S), NEW e \in S
  PROVE  /\ IsPrefix(s, t) => IsPrefix(s, Append(t, e))
         /\ IsPrefix(s, Append(t, e)) => IsPrefix(s, t) \/ (s # <<>> /\ Last(s) = e)
<1>1. /\ Append(t, e) \in Seq(S) /\ Len(Append(t, e)) = Len(t) + 1 /\ Append(t, e)[Len(t) + 1] = e
      /\ \A i \in 1..Len(t) : Append(t, e)[i] = t[i]
  OBVIOUS
<1>2. ASSUME IsPrefix(s, t) PROVE IsPrefix(s, Append(t, e))
  <2>1. IsPrefix(t, Append(t, e))
    <3>1. Len(t) <= Len(Append(t, e)) /\ \A i \in 1..Len(t) : t[i] = Append(t, e)[i]
      BY <1>1
    <3> QED
      BY <1>1, <3>1, EntriesPrefix
  <2> QED
    BY <1>1, <1>2, <2>1, PrefixTransitive
<1>3. ASSUME IsPrefix(s, Append(t, e)) PROVE IsPrefix(s, t) \/ (s # <<>> /\ Last(s) = e)
  <2>1. Len(s) <= Len(t) + 1 /\ \A i \in 1..Len(s) : s[i] = Append(t, e)[i]
    BY <1>1, <1>3, PrefixEntries
  <2>2. CASE Len(s) <= Len(t)
    <3>1. \A i \in 1..Len(s) : s[i] = t[i]
      BY <1>1, <2>1, <2>2
    <3>2. IsPrefix(s, t)
      BY <2>2, <3>1, EntriesPrefix
    <3> QED
      BY <3>2
  <2>3. CASE Len(s) = Len(t) + 1
    <3>1. s[Len(s)] = e /\ s # <<>>
      BY <1>1, <2>1, <2>3
    <3> QED
      BY <3>1 DEF Last
  <2> QED
    BY <2>1, <2>2, <2>3
<1> QED
  BY <1>2, <1>3

LEMMA DeliveredStep ==
  ASSUME RInv, [DeliveryNext]_vars, PInv'
  PROVE  DeliveredInv'
<1> USE DEF RInv, DInv
<1>1. ASSUME NEW s \in Seq(Own), Published(s) PROVE Published(s)'
  <2>1. s \in Seq(Commit) /\ remote \in Seq(Commit) /\ \A o \in Op : head[o] \in Seq(Commit)
    BY CommitKinds DEF Kinds
  <2>2. IsPrefix(s, remote)
    BY <1>1 DEF Published
  <2>3. CASE UNCHANGED remote
    BY <2>2, <2>3 DEF Published
  <2>4. ASSUME NEW o \in Op, IsPrefix(remote, head[o]), remote' = head[o] PROVE Published(s)'
    <3>1. IsPrefix(s, head[o])
      BY <2>1, <2>2, <2>4, PrefixTransitive
    <3> QED
      BY <2>4, <3>1 DEF Published
  <2>5. CASE remote' = Append(remote, Foreign)
    <3>1. IsPrefix(s, Append(remote, Foreign))
      BY <2>1, <2>2, CommitKinds, PrefixAppended
    <3> QED
      BY <2>5, <3>1 DEF Published
  <2> QED
    BY <2>3, <2>4, <2>5, RemoteStep
<1>2. ASSUME NEW o \in Op, report[o] \in Delivered PROVE Published(head[o])'
  <2>1. head'[o] = head[o] /\ head[o] \in Seq(Own)
    BY <1>2, DoneStep DEF Reported, Delivered, Kinds
  <2>2. Published(head[o]) /\ remote' \in Seq(Commit)
    BY <1>2 DEF DeliveredInv, PInv
  <2>3. IsPrefix(head[o], remote')
    BY <1>1, <2>1, <2>2 DEF Published
  <2> QED
    BY <2>1, <2>3 DEF Published
<1>3. ASSUME NEW o \in Op, NEW r \in Delivered, Answer(o, r), Push(o) \/ ListRemote(o) \/ CheckAncestor(o)
      PROVE  Published(head[o])'
  <2>0. head[o] \in Seq(Own) /\ UNCHANGED head /\ report'[o] = r
    BY <1>3 DEF Push, ListRemote, CheckAncestor, Answer, Kinds, MoreKinds
  <2>1. CASE Push(o)
    <3>1. remote' = head[o]
      BY <1>3, <2>0, <2>1 DEF Push, Receive, Answer, Delivered, MoreKinds, Goto, Kinds
    <3>2. IsPrefix(head[o], head[o])
      BY <2>0, EntriesPrefix
    <3> QED
      BY <2>0, <3>1, <3>2 DEF Published
  <2>2. CASE ListRemote(o)
    BY <1>3, <2>0, <2>2 DEF ListRemote, AlreadyHas, Published, Answer, Delivered, MoreKinds
  <2>3. CASE CheckAncestor(o)
    BY <1>3, <2>0, <2>3 DEF CheckAncestor, Answer, Delivered, MoreKinds, Kinds, Goto
  <2> QED
    BY <1>3, <2>1, <2>2, <2>3
<1>4. CASE UNCHANGED report
  BY <1>2, <1>4 DEF DeliveredInv
<1>5. ASSUME NEW o \in Op, NEW r \in Delivered \cup Refused, Answer(o, r),
             CheckAncestor(o) \/ Push(o) \/ ListRemote(o)
      PROVE  DeliveredInv'
  <2>1. report'[o] = r /\ \A q \in Op : q # o => report'[q] = report[q]
    BY <1>5 DEF Answer, MoreKinds
  <2>2. r \in Delivered => Published(head[o])'
    BY <1>3, <1>5
  <2>3. ASSUME NEW q \in Op, report'[q] \in Delivered PROVE Published(head[q])'
    <3>1. CASE q = o
      BY <2>1, <2>2, <2>3, <3>1
    <3>2. CASE q # o
      BY <1>2, <2>1, <2>3, <3>2
    <3> QED
      BY <3>1, <3>2
  <2> QED
    BY <2>3 DEF DeliveredInv
<1> QED
  BY <1>4, <1>5, AnswerStep

LEMMA SupersededStep ==
  ASSUME RInv, [DeliveryNext]_vars
  PROVE  SupersededInv'
<1> USE DEF RInv, DInv
<1>1. ASSUME NEW o \in Op, report[o] = "superseded" PROVE ~IsPrefix(head'[o], branch')
  <2>1. pc[o] = "done" /\ head'[o] = head[o] /\ head[o] \in Seq(Own) /\ branch \in Seq(Own)
    BY <1>1, DoneStep DEF Reported, Kinds
  <2>2. ~IsPrefix(head[o], branch) /\ head[o] # <<>> /\ Last(head[o]) = MergeOf(o)
    BY <1>1 DEF SupersededInv, MineInv
  <2>3. ASSUME NEW q \in Op, CommitMerge(q), branch' = Append(branch, MergeOf(q))
        PROVE  ~IsPrefix(head[o], branch')
    <3>1. MergeOf(q) # MergeOf(o) /\ MergeOf(q) \in Own
      BY <2>1, <2>3, CommitKinds DEF CommitMerge, MergeOf
    <3> QED
      BY <2>1, <2>2, <2>3, <3>1, PrefixAppended
  <2>4. ASSUME NEW q \in Op, branch' = Append(branch, RevertOf(q)) PROVE ~IsPrefix(head[o], branch')
    <3>1. RevertOf(q).kind = "revert" /\ MergeOf(o).kind = "merge" /\ RevertOf(q) \in Own
      BY CommitKinds DEF RevertOf, MergeOf
    <3> QED
      BY <2>1, <2>2, <2>4, <3>1, PrefixAppended
  <2>5. ASSUME branch # <<>>, branch' = Front(branch) PROVE ~IsPrefix(head[o], branch')
    <3>1. /\ Len(branch) \in Nat \ {0} /\ branch' = SubSeq(branch, 1, Len(branch) - 1)
          /\ Len(branch) - 1 \in 0..Len(branch)
      BY <2>1, <2>5 DEF Front
    <3>2. branch' \in Seq(Own) /\ Len(branch') = Len(branch) - 1
      BY <2>1, <3>1, Cuts
    <3>3. \A i \in 1..Len(branch') : branch'[i] = branch[i]
      BY <2>1, <3>1, <3>2
    <3>4. Len(branch') <= Len(branch)
      BY <3>1, <3>2
    <3>5. IsPrefix(branch', branch)
      BY <2>1, <3>2, <3>3, <3>4, EntriesPrefix
    <3> QED
      BY <2>1, <2>2, <3>2, <3>5, PrefixTransitive
  <2>6. CASE UNCHANGED branch
    BY <2>1, <2>2, <2>6
  <2> QED
    BY <2>1, <2>3, <2>4, <2>5, <2>6, BranchStep
<1>2. CASE UNCHANGED report
  BY <1>1, <1>2 DEF SupersededInv
<1>3. ASSUME NEW o \in Op, NEW r \in Delivered \cup Refused, Answer(o, r),
             CheckAncestor(o) \/ Push(o) \/ ListRemote(o)
      PROVE  SupersededInv'
  <2>1. report'[o] = r /\ \A q \in Op : q # o => report'[q] = report[q]
    BY <1>3 DEF Answer, MoreKinds
  <2>2. UNCHANGED <<branch, head>>
    BY <1>3 DEF CheckAncestor, Push, ListRemote
  <2>3. r = "superseded" => ~IsPrefix(head[o], branch)
    BY <1>3, <2>1 DEF CheckAncestor, Push, ListRemote, Answer, MoreKinds, Goto, Kinds
  <2>4. ASSUME NEW q \in Op, report'[q] = "superseded" PROVE ~IsPrefix(head'[q], branch')
    <3>1. CASE q = o
      BY <2>1, <2>2, <2>3, <2>4, <3>1
    <3>2. CASE q # o
      BY <1>1, <2>1, <2>4, <3>2
    <3> QED
      BY <3>1, <3>2
  <2> QED
    BY <2>4 DEF SupersededInv
<1> QED
  BY <1>2, <1>3, AnswerStep

LEMMA MineStep ==
  ASSUME RInv, [DeliveryNext]_vars, Reported'
  PROVE  MineInv'
<1> USE DEF RInv, DInv, RollbackPcs, Goto
<1> DEFINE Mine(q) ==
      /\ pc[q] \in {"out", "commit"} \cup RollbackPcs =>
           MergeOf(q) \notin Range(branch) /\ MergeOf(q) \notin Range(head[q])
      /\ pc[q] = "release" /\ MergeOf(q) \in Range(head[q]) => Last(head[q]) = MergeOf(q)
      /\ pc[q] \in {"events", "queued", "push", "list"} \/ report[q] # "none" =>
           head[q] # <<>> /\ Last(head[q]) = MergeOf(q)
<1>0. /\ \A q, o \in Op : q # o => MergeOf(q) # MergeOf(o)
      /\ \A q, o \in Op : MergeOf(q) # RevertOf(o)
  <2>1. \A o \in Op : MergeOf(o).op = o /\ MergeOf(o).kind = "merge" /\ RevertOf(o).kind = "revert"
    BY DEF MergeOf, RevertOf
  <2> QED
    BY <2>1
<1>1. \A q \in Op : Mine(q) /\ head[q] \in Seq(Own)
  BY DEF MineInv, Kinds
\* The branch gets a commit of nobody but the one that commits.
<1>2. ASSUME NEW q \in Op, ~CommitMerge(q), MergeOf(q) \notin Range(branch)
      PROVE  MergeOf(q) \notin Range(branch')
  <2>1. \A o \in Op : MergeOf(o) \in Own /\ RevertOf(o) \in Own
    BY CommitKinds
  <2>2. CASE \E o \in Op : CommitMerge(o) /\ branch' = Append(branch, MergeOf(o))
    BY <1>0, <1>2, <2>1, <2>2, Appended DEF Kinds
  <2>3. CASE \E o \in Op : branch' = Append(branch, RevertOf(o))
    BY <1>0, <1>2, <2>1, <2>3, Appended DEF Kinds
  <2>4. CASE branch # <<>> /\ branch' = Front(branch)
    <3>1. /\ branch' = SubSeq(branch, 1, Len(branch) - 1) /\ Len(branch) \in Nat \ {0} /\ branch \in Seq(Own)
      BY <2>4 DEF Front, Kinds
    <3>2. \A i \in DOMAIN branch' : i \in DOMAIN branch /\ branch'[i] = branch[i]
      BY <3>1
    <3> QED
      BY <1>2, <3>2 DEF Range
  <2>5. CASE UNCHANGED branch
    BY <1>2, <2>5
  <2> QED
    BY <2>2, <2>3, <2>4, <2>5, BranchStep
\* An operation that does not move.
<1>3. ASSUME NEW q \in Op, ~CommitMerge(q), pc'[q] = pc[q], head'[q] = head[q],
             report'[q] = report[q]
      PROVE  Mine(q)'
  BY <1>1, <1>2, <1>3
<1>4. ASSUME NEW o \in Op, CommitMerge(o) PROVE \A q \in Op : Mine(q)'
  <2>1. /\ branch' = Append(branch, MergeOf(o)) /\ head' = [head EXCEPT ![o] = branch']
        /\ pc' = [pc EXCEPT ![o] = "release"] /\ report' = report /\ pc[o] = "commit"
    BY <1>4 DEF CommitMerge, Land
  <2>2. Mine(o)'
    <3>1. branch' # <<>> /\ Last(branch') = MergeOf(o)
      <4>1. branch \in Seq(Own) /\ MergeOf(o) \in Own
        BY CommitKinds DEF Kinds
      <4> QED
        BY <2>1, <4>1 DEF Last
    <3>2. head'[o] = branch' /\ pc'[o] = "release" /\ report'[o] = report[o]
      BY <2>1 DEF Kinds
    <3>3. report[o] = "none"
      BY <2>1 DEF Reported
    <3> QED
      BY <3>1, <3>2, <3>3
  <2>3. ASSUME NEW q \in Op, q # o PROVE Mine(q)'
    <3>1. pc[q] # "commit"
      BY <2>1, <2>3 DEF LockInv, LockPcs
    <3> QED
      BY <1>3, <2>1, <2>3, <3>1 DEF CommitMerge, Kinds
  <2> QED
    BY <2>2, <2>3
<1>5. ASSUME NEW o \in Op,
             Acquire(o) \/ Release(o) \/ Register(o) \/ RbRead(o) \/ RbSettle(o) \/ RbFetch(o) \/ RbApply(o)
             \/ OrphanPush(o)
      PROVE  \A q \in Op : Mine(q)'
  <2>1. /\ ~CommitMerge(o) /\ report' = report
        /\ \A q \in Op : q # o => pc'[q] = pc[q] /\ head'[q] = head[q] /\ ~CommitMerge(q)
    BY <1>5 DEF Acquire, Release, Register, RbRead, RbSettle, RbFetch, RbApply, OrphanPush, CommitMerge, LockInv,
                LockPcs, Kinds
  <2>2. Mine(o)'
    <3>1. report'[o] # "none" => pc'[o] = "done" /\ report[o] # "none" /\ head'[o] = head[o]
      BY <2>1, DoneStep DEF Reported
    <3>2. CASE Acquire(o) \/ RbSettle(o) \/ RbFetch(o)
      BY <1>1, <1>2, <2>1, <3>1, <3>2 DEF Acquire, RbSettle, RbFetch, Kinds
    <3>3. CASE Release(o)
      <4>1. MergeOf(o) \in Range(head[o]) => head[o] # <<>>
        BY <1>1, NotEmpty
      <4> QED
        BY <1>1, <2>1, <3>1, <3>3, <4>1 DEF Release, Kinds
    <3>4. CASE Register(o) \/ OrphanPush(o)
      BY <1>1, <2>1, <3>1, <3>4 DEF Register, OrphanPush, Kinds
    <3>5. CASE RbRead(o)
      BY <1>1, <2>1, <3>1, <3>5 DEF RbRead, Kinds
    <3>6. CASE RbApply(o)
      BY <1>1, <2>1, <3>1, <3>6 DEF RbApply, Kinds
    <3> QED
      BY <1>5, <3>2, <3>3, <3>4, <3>5, <3>6
  <2> QED
    BY <1>3, <2>1, <2>2
<1>6. ASSUME NEW o \in Op, CheckAncestor(o) \/ Push(o) \/ ListRemote(o)
      PROVE  \A q \in Op : Mine(q)'
  <2>1. /\ UNCHANGED <<branch, head>> /\ pc[o] \in {"queued", "push", "list"} /\ pc'[o] \in {"push", "list", "done"}
        /\ \A q \in Op : q # o => pc'[q] = pc[q] /\ report'[q] = report[q]
    BY <1>6 DEF CheckAncestor, Push, ListRemote, Answer, Kinds, MoreKinds
  <2>2. Mine(o)'
    BY <1>1, <2>1
  <2>3. ASSUME NEW q \in Op, q # o PROVE Mine(q)'
    BY <1>1, <2>1, <2>3
  <2> QED
    BY <2>2, <2>3
<1>7. ASSUME NEW o \in Op, Crash(o) PROVE \A q \in Op : Mine(q)'
  <2>1. /\ UNCHANGED <<branch, head, report>>
        /\ \A q \in Op : pc'[q] = pc[q] \/ pc'[q] \in {"dead", "orphan"}
    BY <1>7 DEF Crash
  <2> QED
    BY <1>1, <2>1
<1>8. ASSUME ForeignPush \/ UNCHANGED vars PROVE \A q \in Op : Mine(q)'
  <2>1. UNCHANGED <<branch, pc, head, report>>
    BY <1>8 DEF ForeignPush, SomebodyPushes, vars, opvars
  <2> QED
    BY <1>1, <2>1
<1> HIDE DEF Mine
<1>9. \A q \in Op : Mine(q)'
  BY <1>4, <1>5, <1>6, <1>7, <1>8 DEF DeliveryNext, OpStep
<1> QED
  BY <1>9 DEF MineInv, Mine

\* A refused fast-forward was overtaken: without a commit of somebody else, origin is
\* a part of the branch, as is what is pushed, and so one is a part of the other.
LEMMA Overtaken ==
  ASSUME PInv, NEW s \in Seq(Own), IsPrefix(s, branch), ~IsPrefix(remote, s), Foreign \notin Range(remote)
  PROVE  Published(s)
<1>1. branch \in Seq(Commit) /\ remote \in Seq(Commit) /\ s \in Seq(Commit)
  BY CommitKinds DEF PInv
<1>2. Len(s) <= Len(branch) /\ \A i \in 1..Len(s) : s[i] = branch[i]
  BY <1>1, PrefixEntries
<1>3. \A i \in 1..Len(remote) : remote[i] # Foreign
  BY <1>1 DEF Range
<1>4. \A i \in 1..Len(remote) : i \in DOMAIN branch /\ branch[i] = remote[i]
  BY <1>1, <1>3 DEF PInv, PublishedNotUndone
<1>5. CASE Len(remote) <= Len(s)
  <2>1. \A i \in 1..Len(remote) : remote[i] = s[i]
    BY <1>1, <1>2, <1>4, <1>5
  <2> QED
    BY <1>1, <1>5, <2>1, EntriesPrefix
<1>6. CASE Len(s) <= Len(remote)
  <2>1. \A i \in 1..Len(s) : s[i] = remote[i]
    BY <1>1, <1>2, <1>4, <1>6
  <2>2. IsPrefix(s, remote)
    BY <1>1, <1>6, <2>1, EntriesPrefix
  <2> QED
    BY <2>2 DEF Published
<1> QED
  BY <1>1, <1>5, <1>6

LEMMA OvertakenStep ==
  ASSUME "list" \notin FailAt, RInv, [DeliveryNext]_vars
  PROVE  OvertakenInv'
<1> USE DEF RInv, DInv
\* What somebody else pushed stays, and so does what is published.
<1>1. Foreign \in Range(remote) => Foreign \in Range(remote')
  <2>1. remote \in Seq(Commit) /\ \A o \in Op : head[o] \in Seq(Commit)
    BY CommitKinds DEF Kinds
  <2>2. ASSUME NEW o \in Op, IsPrefix(remote, head[o]), remote' = head[o], Foreign \in Range(remote)
        PROVE  Foreign \in Range(remote')
    <3>1. /\ Len(remote) <= Len(head[o]) /\ \A i \in 1..Len(remote) : remote[i] = head[o][i]
      BY <2>1, <2>2, PrefixEntries
    <3>2. PICK i \in 1..Len(remote) : remote[i] = Foreign
      BY <2>1, <2>2 DEF Range
    <3>3. i \in DOMAIN remote' /\ remote'[i] = Foreign
      BY <2>1, <2>2, <3>1, <3>2
    <3> QED
      BY <3>3 DEF Range
  <2>3. CASE remote' = Append(remote, Foreign)
    BY <2>1, <2>3, CommitKinds, Appended
  <2> QED
    BY <2>2, <2>3, RemoteStep
<1>2. ASSUME NEW s \in Seq(Own), Published(s) PROVE IsPrefix(s, remote')
  <2>1. s \in Seq(Commit) /\ remote \in Seq(Commit) /\ (\A o \in Op : head[o] \in Seq(Commit)) /\ IsPrefix(s, remote)
    BY <1>2, CommitKinds DEF Kinds, Published
  <2>2. ASSUME NEW o \in Op, IsPrefix(remote, head[o]), remote' = head[o] PROVE IsPrefix(s, remote')
    BY <2>1, <2>2, PrefixTransitive
  <2>3. CASE remote' = Append(remote, Foreign)
    BY <2>1, <2>3, CommitKinds, PrefixAppended
  <2> QED
    BY <2>1, <2>2, <2>3, RemoteStep
<1> DEFINE Told(o) ==
      /\ pc[o] = "list" => Foreign \in Range(remote) \/ Published(head[o])
      /\ report[o] = "nonFastForward" => Foreign \in Range(remote)
<1>3. \A o \in Op : Told(o) /\ head[o] \in Seq(Own)
  BY DEF OvertakenInv, Kinds
<1>4. ASSUME NEW q \in Op, pc'[q] = "list" => pc[q] = "list" /\ head'[q] = head[q],
             report'[q] = "nonFastForward" => report[q] = "nonFastForward"
      PROVE  Told(q)'
  BY <1>1, <1>2, <1>3, <1>4 DEF Published
<1>5. ASSUME NEW o \in Op, Push(o), pc'[o] = "list" PROVE Told(o)'
  <2>1. /\ ~FastForward(head[o]) /\ pc[o] = "push" /\ UNCHANGED <<head, branch>>
    BY <1>5 DEF Push, Answer, Goto, Kinds
  <2>2. UNCHANGED <<remote, report>>
    BY <1>5 DEF Push, Answer, Goto, Kinds
  <2>3. IsPrefix(head[o], branch)
    BY <2>1 DEF PushInv
  <2>4. Foreign \in Range(remote) \/ Published(head[o])
    BY <1>3, <2>1, <2>3, Overtaken DEF FastForward
  <2>5. report[o] = "none"
    BY <2>1 DEF Reported
  <2> QED
    BY <2>1, <2>2, <2>4, <2>5 DEF Published
<1>6. ASSUME NEW o \in Op, ListRemote(o) PROVE Told(o)'
  <2>1. pc[o] = "list" /\ pc'[o] = "done" /\ UNCHANGED <<remote, head>>
    BY <1>6 DEF ListRemote, Answer, Goto, Kinds
  <2>2. report'[o] = "alreadyDelivered" \/ (report'[o] = "nonFastForward" /\ ~AlreadyHas(head[o]))
    BY <1>6 DEF ListRemote, Answer, MoreKinds, Fails
  <2>3. ~AlreadyHas(head[o]) => Foreign \in Range(remote)
    <3>1. Foreign \notin Range(remote) => Known(remote)
      BY DEF Known, Range
    <3> QED
      BY <1>3, <2>1, <3>1 DEF AlreadyHas
  <2> QED
    BY <2>1, <2>2, <2>3
<1>7. ASSUME NEW o \in Op, CheckAncestor(o) \/ (Push(o) /\ pc'[o] # "list")
      PROVE  pc'[o] # "list" /\ report'[o] # "nonFastForward"
  <2>1. CASE CheckAncestor(o)
    <3>1. report[o] = "none"
      BY <2>1 DEF CheckAncestor, Reported
    <3> QED
      BY <2>1, <3>1 DEF CheckAncestor, Answer, Goto, Kinds, MoreKinds
  <2>2. CASE Push(o) /\ pc'[o] # "list"
    <3>1. PICK r \in {"pushed", "timeout", "rejected", "failed"} : Answer(o, r)
      BY <2>2 DEF Push, Goto, Kinds
    <3> QED
      BY <2>2, <3>1 DEF Answer, MoreKinds
  <2> QED
    BY <1>7, <2>1, <2>2
<1>8. ASSUME NEW o \in Op, CheckAncestor(o) \/ Push(o) \/ ListRemote(o) PROVE \A q \in Op : Told(q)'
  <2>1. \A q \in Op : q # o => pc'[q] = pc[q] /\ head'[q] = head[q] /\ report'[q] = report[q]
    BY <1>8 DEF CheckAncestor, Push, ListRemote, Answer, Goto, Kinds, MoreKinds
  <2>2. Told(o)'
    <3>1. CASE ListRemote(o)
      BY <1>6, <3>1
    <3>2. CASE Push(o) /\ pc'[o] = "list"
      BY <1>5, <3>2
    <3>3. CASE CheckAncestor(o) \/ (Push(o) /\ pc'[o] # "list")
      BY <1>7, <3>3
    <3> QED
      BY <1>8, <3>1, <3>2, <3>3
  <2> QED
    BY <1>4, <2>1, <2>2
<1>9. ASSUME NEW o \in Op,
             Acquire(o) \/ CommitMerge(o) \/ Release(o) \/ Register(o) \/ RbRead(o) \/ RbSettle(o) \/ RbFetch(o)
             \/ RbApply(o) \/ OrphanPush(o) \/ Crash(o)
      PROVE  \A q \in Op : Told(q)'
  <2>1. report' = report /\ \A q \in Op : pc'[q] = "list" => pc[q] = "list" /\ head'[q] = head[q]
    BY <1>9 DEF Acquire, CommitMerge, Release, Register, RbRead, RbSettle, RbFetch, RbApply, OrphanPush, Crash,
                Goto, Kinds
  <2> QED
    BY <1>4, <2>1
<1>10. ASSUME ForeignPush \/ UNCHANGED vars PROVE \A q \in Op : Told(q)'
  <2>1. UNCHANGED <<pc, head, report>>
    BY <1>10 DEF ForeignPush, vars, opvars
  <2> QED
    BY <1>4, <2>1
<1> HIDE DEF Told
<1>11. \A q \in Op : Told(q)'
  BY <1>8, <1>9, <1>10 DEF DeliveryNext, OpStep
<1> QED
  BY <1>11 DEF OvertakenInv, Told

LEMMA RInvInit == DeliveryInit => RInv
<1> SUFFICES ASSUME DeliveryInit PROVE RInv
  OBVIOUS
<1>1. DInv /\ PInv
  BY InitInv, PInvInit DEF DeliveryInit
<1>2. MineInv
  BY DEF DeliveryInit, Init, MineInv, Range, RollbackPcs
<1> QED
  BY <1>1, <1>2 DEF DeliveryInit, Init, RInv, MoreKinds, OnceInv, Reported, SupersededInv, DeliveredInv,
                    OvertakenInv, Delivered

LEMMA ReportInvariant ==
  ASSUME ~Overlapping, "list" \notin FailAt
  PROVE  DeliverySpec => []RInv
<1>1. RInv /\ [DeliveryNext]_vars => RInv'
  <2> SUFFICES ASSUME RInv, [DeliveryNext]_vars PROVE RInv'
    OBVIOUS
  <2>1. DInv' /\ PInv'
    BY StepInv, PInvStep DEF RInv
  <2> QED
    BY <2>1, MoreKindsStep, OnceStep, ReportedStep, MineStep, SupersededStep, DeliveredStep, OvertakenStep
       DEF RInv
<1> QED
  BY RInvInit, <1>1, PTL DEF DeliverySpec

\* The types of the deliveries; a chain has one delivery under way, its first.
THEOREM DeliveryTypes ==
  ASSUME ~Overlapping, "list" \notin FailAt
  PROVE  DeliverySpec => []TypeOK
<1>1. RInv => TypeOK
  <2> SUFFICES ASSUME RInv PROVE TypeOK
    OBVIOUS
  <2> USE DEF RInv, DInv
  <2>1. branch \in Seq(Commit) /\ head \in [Op -> Seq(Commit)]
    BY CommitKinds DEF Kinds
  <2>2. ASSUME NEW p \in Proc, NEW i \in DOMAIN chain[p]
        PROVE  pc[chain[p][i]] \in IF i = 1 THEN {"queued", "push", "list"} ELSE {"queued"}
    <3>1. /\ chain[p] \in Seq(Op) /\ chain[p][i] \in Range(chain[p]) /\ chain[p][i] \in Op
          /\ 1 \in DOMAIN chain[p] /\ Head(chain[p]) = chain[p][1]
      BY <2>2 DEF Kinds, Range
    <3>2. Home[chain[p][i]] = p /\ pc[chain[p][i]] \in {"queued", "push", "list"}
      BY <2>2, <3>1 DEF ChainInv, OnceInv
    <3>3. pc[chain[p][i]] \in {"push", "list"} => chain[p][i] = chain[p][1]
      BY <3>1, <3>2 DEF ChainInv
    <3>4. chain[p][i] = chain[p][1] => i = 1
      BY <2>2, <3>1 DEF OnceInv
    <3> QED
      BY <3>2, <3>3, <3>4
  <2> QED
    BY <2>1, <2>2 DEF TypeOK, Kinds, MoreKinds
<1> QED
  BY <1>1, ReportInvariant, PTL

\* A commit reported delivered stays on origin, one reported superseded never gets
\* there, and a refused fast-forward is the doing of somebody else, as long as origin
\* answers when it is asked about one (remoteAlreadyHas).
THEOREM ReportsStayTrue ==
  ASSUME ~Overlapping, "list" \notin FailAt
  PROVE  DeliverySpec => []ReportsTrue
<1>1. RInv => ReportsTrue
  <2> SUFFICES ASSUME RInv, NEW o \in Op, report[o] = "superseded" PROVE ~Published(head[o])
    BY DEF RInv, ReportsTrue, DeliveredInv, OvertakenInv
  <2> USE DEF RInv, DInv
  <2>1. head[o] \in Seq(Own) /\ head[o] \in Seq(Commit) /\ branch \in Seq(Commit) /\ remote \in Seq(Commit)
    BY CommitKinds DEF Kinds
  <2>2. SUFFICES ASSUME Published(head[o]) PROVE IsPrefix(head[o], branch)
    BY DEF SupersededInv
  <2>3. Len(head[o]) <= Len(remote) /\ \A i \in 1..Len(head[o]) : head[o][i] = remote[i]
    BY <2>1, <2>2, PrefixEntries DEF Published
  <2>4. \A i \in 1..Len(head[o]) : i \in DOMAIN branch /\ branch[i] = head[o][i]
    <3>1. \A i \in 1..Len(head[o]) : head[o][i] # Foreign
      BY <2>1 DEF Own
    <3> QED
      BY <2>1, <2>3, <3>1 DEF PInv, PublishedNotUndone
  <2>5. Len(head[o]) <= Len(branch)
    BY <2>1, <2>4
  <2> QED
    BY <2>1, <2>4, <2>5, EntriesPrefix
<1> QED
  BY <1>1, ReportInvariant, PTL
=============================================================================
