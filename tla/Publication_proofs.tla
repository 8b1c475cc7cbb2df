-------------------------- MODULE Publication_proofs --------------------------
(***************************************************************************)
(* What is published is never undone, for any number of operations and of   *)
(* pushes by other people, in whatever order.                               *)
(***************************************************************************)
EXTENDS Publication, TLAPS

Own == Commit \ {Foreign}

\* Nothing of ours lands on origin behind the commit of somebody else: what
\* precedes a commit of ours there is ours, and so is the branch up to it.
PInv ==
  /\ branch \in Seq(Own)
  /\ remote \in Seq(Commit)
  /\ PublishedNotUndone
  /\ \A i, j \in DOMAIN remote : i < j /\ remote[i] = Foreign => remote[j] = Foreign

\* The entries of a prefix are those of the sequence.
LEMMA PrefixEntries ==
  ASSUME NEW S, NEW s \in Seq(S), NEW t \in Seq(S), IsPrefix(s, t)
  PROVE  Len(s) <= Len(t) /\ \A i \in 1..Len(s) : s[i] = t[i]
<1>1. Len(s) <= Len(t) /\ SubSeq(s, 1, Len(s)) = SubSeq(t, 1, Len(s))
  BY DEF IsPrefix
<1>2. \A i \in 1..Len(s) : SubSeq(s, 1, Len(s))[i] = s[i] /\ SubSeq(t, 1, Len(s))[i] = t[i]
  BY <1>1
<1> QED
  BY <1>1, <1>2

\* Cutting a sequence short.
LEMMA Cuts ==
  ASSUME NEW S, NEW s \in Seq(S), NEW n \in 0..Len(s)
  PROVE  SubSeq(s, 1, n) \in Seq(S) /\ Len(SubSeq(s, 1, n)) = n
OBVIOUS

\* A sequence that begins with all the entries of another has it as a prefix.
LEMMA EntriesPrefix ==
  ASSUME NEW S, NEW s \in Seq(S), NEW t \in Seq(S), Len(s) <= Len(t),
         \A i \in 1..Len(s) : s[i] = t[i]
  PROVE  IsPrefix(s, t)
<1>1. SubSeq(s, 1, Len(s)) \in Seq(S) /\ SubSeq(t, 1, Len(s)) \in Seq(S)
  OBVIOUS
<1>2. Len(SubSeq(s, 1, Len(s))) = Len(s) /\ Len(SubSeq(t, 1, Len(s))) = Len(s)
  OBVIOUS
<1>3. \A i \in 1..Len(s) : SubSeq(s, 1, Len(s))[i] = SubSeq(t, 1, Len(s))[i]
  OBVIOUS
<1>4. SubSeq(s, 1, Len(s)) = SubSeq(t, 1, Len(s))
  BY <1>1, <1>2, <1>3
<1> QED
  BY <1>4 DEF IsPrefix

\* If the last commit of the branch is on origin at its place, so is the branch.
LEMMA HeadPublished ==
  ASSUME PInv, branch # <<>>, Len(branch) \in DOMAIN remote, remote[Len(branch)] # Foreign
  PROVE  Published(branch)
<1>1. branch \in Seq(Commit) /\ remote \in Seq(Commit) /\ Len(branch) <= Len(remote)
  BY DEF PInv, Own
<1>2. \A i \in 1..Len(branch) : remote[i] # Foreign
  BY <1>1 DEF PInv
<1>3. \A i \in 1..Len(branch) : branch[i] = remote[i]
  BY <1>1, <1>2 DEF PInv, PublishedNotUndone
<1> QED
  BY <1>1, <1>3, EntriesPrefix DEF Published

LEMMA PInvInit == Init => PInv
BY DEF Init, PInv, PublishedNotUndone

LEMMA PInvStep == PInv /\ [Next]_pubvars => PInv'
<1> SUFFICES ASSUME PInv, [Next]_pubvars PROVE PInv'
  OBVIOUS
<1> USE DEF PInv
<1>1. ASSUME NEW c \in Commit \ {Foreign}, Land(c) PROVE PInv'
  BY <1>1 DEF Land, Own, PublishedNotUndone
<1>2. ASSUME Undo PROVE PInv'
  <2>0. Len(branch) \in Nat \ {0} /\ branch' = SubSeq(branch, 1, Len(branch) - 1)
    BY <1>2 DEF Undo, Front
  <2>1. branch' \in Seq(Own) /\ Len(branch') = Len(branch) - 1
    <3>1. branch \in Seq(Own) /\ Len(branch) - 1 \in 0..Len(branch)
      BY <2>0
    <3> QED
      BY <2>0, <3>1, Cuts
  <2>2. \A i \in 1..Len(branch) - 1 : branch'[i] = branch[i]
    BY <2>0
  <2>3. ~(Len(branch) \in DOMAIN remote /\ remote[Len(branch)] # Foreign)
    BY <1>2, HeadPublished DEF Undo
  <2>4. PublishedNotUndone'
    BY <1>2, <2>1, <2>2, <2>3 DEF Undo, PublishedNotUndone
  <2> QED
    BY <1>2, <2>1, <2>4 DEF Undo
<1>3. ASSUME NEW n \in 1..Len(branch), Publish(n) PROVE PInv'
  <2>1. remote' \in Seq(Own) /\ Len(remote') = n
    BY <1>3 DEF Publish
  <2>2. \A i \in 1..n : remote'[i] = branch[i]
    BY <1>3 DEF Publish
  <2>3. \A i \in 1..n : remote'[i] # Foreign
    BY <2>1 DEF Own
  <2>4. PublishedNotUndone'
    BY <1>3, <2>1, <2>2 DEF Publish, PublishedNotUndone
  <2> QED
    BY <1>3, <2>1, <2>3, <2>4 DEF Publish, Own
<1>4. ASSUME SomebodyPushes PROVE PInv'
  <2>1. remote' \in Seq(Commit) /\ Len(remote') = Len(remote) + 1
    BY <1>4 DEF SomebodyPushes, Commit
  <2>2. remote'[Len(remote) + 1] = Foreign /\ \A i \in 1..Len(remote) : remote'[i] = remote[i]
    BY <1>4 DEF SomebodyPushes
  <2> QED
    BY <1>4, <2>1, <2>2 DEF SomebodyPushes, PublishedNotUndone
<1>5. CASE UNCHANGED pubvars
  BY <1>5 DEF pubvars, PublishedNotUndone
<1> QED
  BY <1>1, <1>2, <1>3, <1>4, <1>5 DEF Next

\* A branch that is reset only when it is not published, and an origin that only
\* receives the branch, never disagree on a commit of Striart.
THEOREM NeverUndone == Spec => []PublishedNotUndone
<1>1. PInv => PublishedNotUndone
  BY DEF PInv
<1> QED
  BY PInvInit, PInvStep, <1>1, PTL DEF Spec
=============================================================================
