CONSTANTS
  runner = runner
  keeper = keeper
  site = site
  core = core
  Proc = {runner, keeper}
  Duties <- MCDuties
  Agent = {site, core}
  Predicted <- MCPredicted
  WholeRepo = "*"
  Requests <- MCRequests
  Starts <- MCStarts
  MaxCommits <- MCMaxCommits
  Nobody = Nobody
  NoAgent = NoAgent
  NoPid = NoPid
  AgentPid = AgentPid
  DeadPid = DeadPid
  CrashAt <- MCCrashAt
  MaxCrashes = 1
  FailAt = {"register", "rm", "pass"}
  Windows = {}
SPECIFICATION Spec
INVARIANT SessionKept
INVARIANT NoCollision
INVARIANT NotTwice
PROPERTIES WorkKept Drains
