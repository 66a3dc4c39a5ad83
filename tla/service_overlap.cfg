\* service_overlap
SPECIFICATION Spec
CONSTANTS
  Users <- NoUsers
  MaxChildren = 2
  PipeLines = 1
  Lines <- FewLines
  AwaitExit = FALSE
  TunnelDrops = FALSE
  Persist = FALSE
INVARIANT LiveChildAccounted
\* The service may quit, and then no process is left to take a step.
CHECK_DEADLOCK FALSE
