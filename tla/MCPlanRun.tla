------------------------------- MODULE MCPlanRun -------------------------------
(* A small plan: the third task waits for the first, and the first two share a *)
(* resource; all three may go in parallel otherwise.                           *)
EXTENDS PlanRun

CONSTANTS p1, p2

ThirdAfterFirst == <<{}, {}, {1}>>
Database == <<{"db"}, {"db"}, {}>>

Both == {"stop", "skip-dependents"}

Nowhere == {}
\* Where a process spends its time: a worker in its task, a scheduler while nodes run.
InTasks == {"exec", "race"}
WhileNodesRun == {"race"}
Skips == {"skip"}
=============================================================================
