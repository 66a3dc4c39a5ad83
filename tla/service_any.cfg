\* service_any
SPECIFICATION FairSpec
CONSTANTS
  Users <- OneUser
  MaxChildren = 2
  PipeLines = 1
  Lines <- FewLines
  AwaitExit = FALSE
  TunnelDrops = FALSE
  Persist = FALSE
INVARIANT TypeOK
INVARIANT EveryChildReported
INVARIANT NoRootForUsers
INVARIANT NoRootGroups
INVARIANT ClientsCanBeSignalled
PROPERTY StartedNeverFails
PROPERTY KilledClientIsCollected
PROPERTY FailureArrives
\* The service may quit, and then no process is left to take a step.
CHECK_DEADLOCK FALSE
