------------------------------ MODULE MCTaskCycle ------------------------------
(* Instance of TaskCycle: two processes and two agents, one of which may touch *)
(* the whole repository.                                                       *)
EXTENDS TaskCycle

CONSTANTS runner, keeper, site, core

MCDuties == (runner :> {"run", "start"}) @@ (keeper :> {"stop", "clean", "merge", "reconcile"})
MCPredicted == (site :> {"page"}) @@ (core :> {"*"})
\* Tasks that wait for nobody, and for each other.
Request(n, after, mode) ==
  [agent |-> n, after |-> after, mode |-> mode, reuse |-> FALSE, force |-> FALSE]
MCRequests ==
  { Request(site, NoAgent, "autonomous"), Request(site, core, "attended"),
    Request(core, NoAgent, "attended"), Request(core, site, "attended") }
\* A person starts an agent, or one on the clone that is left; a race starts another.
Direct(n, like, reuse) == [agent |-> n, like |-> like, reuse |-> reuse, force |-> FALSE]
MCStarts == { Direct(site, NoAgent, FALSE), Direct(site, NoAgent, TRUE), Direct(site, core, FALSE) }
MCMaxCommits == (site :> 2) @@ (core :> 0)
MCCrashAt == {"session", "flag"}
=============================================================================
