----------------------------- MODULE Publication -----------------------------
(* What deliveries promise: origin only ever receives commits that are in the *)
(* target branch, and what it received is undone by a revert, never by a      *)
(* rewrite of the branch (src/src/delivery.ts, rollbackLastMerge).            *)
EXTENDS Naturals, Sequences, SequencesExt

CONSTANT Op       \* operations, each of which may make one commit

VARIABLES
  branch,         \* the commits of the local target branch, in order
  remote          \* those of the same branch on origin

pubvars == <<branch, remote>>

\* A merge of Striart, the revert of one, a commit pushed by somebody else.
MergeOf(o) == [kind |-> "merge", op |-> o]
RevertOf(o) == [kind |-> "revert", op |-> o]
Foreign == [kind |-> "foreign"]
Commit == {MergeOf(o) : o \in Op} \cup {RevertOf(o) : o \in Op} \cup {Foreign}

\* A commit is identified with the history it heads.  s is on origin.
Published(s) == IsPrefix(s, remote)

Init ==
  /\ branch = <<>>
  /\ remote = <<>>

Land(c) ==
  /\ branch' = Append(branch, c)
  /\ UNCHANGED remote

\* reset --hard HEAD^1
Undo ==
  /\ branch # <<>>
  /\ ~Published(branch)
  /\ branch' = Front(branch)
  /\ UNCHANGED remote

Publish(n) ==
  /\ remote' = SubSeq(branch, 1, n)
  /\ IsStrictPrefix(remote, remote')
  /\ UNCHANGED branch

SomebodyPushes ==
  /\ remote' = Append(remote, Foreign)
  /\ UNCHANGED branch

Next ==
  \/ \E c \in Commit \ {Foreign} : Land(c)
  \/ Undo
  \/ \E n \in 1..Len(branch) : Publish(n)
  \/ SomebodyPushes

Spec == Init /\ [][Next]_pubvars

\* No rewrite of the branch undoes a commit that is on origin, and no push
\* publishes a commit that was undone (rollbackLastMergeImpl waits, fetches and
\* then decides; deliverSha looks before it pushes).
PublishedNotUndone ==
  \A i \in DOMAIN remote :
    remote[i] # Foreign => i \in DOMAIN branch /\ branch[i] = remote[i]
=============================================================================
