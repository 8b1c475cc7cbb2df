----------------------------- MODULE MCMergeChain -----------------------------
(* Small instances of MergeChain. *)
EXTENDS MergeChain, TLC

CONSTANTS p1, p2, p3, a1, a2

Symmetry == Permutations(Proc) \cup Permutations(Agent)

Nowhere == {}

\* It dies with a merge open, or before what follows the commit.
Deaths == {"llm", "gate", "commit", "abort", "record", "meta", "apply", "close"}

\* Commands that fail once the merge is open; the abort of an orphan merge.
Late == {"abort", "check", "open", "write"}
Orphans == {"abortOrphan", "write"}
=============================================================================
