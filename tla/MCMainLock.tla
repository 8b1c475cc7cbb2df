------------------------------ MODULE MCMainLock ------------------------------
(* Small instances of MainLock: two or three running processes and the debris *)
(* of dead ones.                                                              *)
EXTENDS MainLock, TLC

CONSTANTS p1, p2, p3, g1, g2, g3

\* Processes that only wait are interchangeable, and so are the dead ones.
Symmetry == Permutations(Proc \ Ghost) \cup Permutations(Ghost)

Points == (PCs \cup BPcs \cup {"exit", "recycled"}) \ {"idle", "break"}
Nowhere == {}
InSection == {"in"}

\* A process is killed anywhere but in the two windows that leave a debris the
\* reclaim of the break lock cannot tell from a fresh file.
CrashOutside == Points \ ({"stamp"} \cup ReclaimPcs)
\* It is killed anywhere, and its PID is not reused.
CrashAnywhere == Points \ {"recycled"}
CrashReclaim == CrashOutside \cup ReclaimPcs
\* It is suspended where it owns a file others judge, and between a look at a
\* file and its removal.
FreezeOutside == {"in", "unlink", "compare", "rm", "recheck", "rmBreak", "orphanRm"}
\* Its calls fail anywhere but where the failure leaves such a debris.
FailOutside == Points \ {"stamp", "markStamp", "unmark"}
=============================================================================
