\* service_late_line
SPECIFICATION Spec
CONSTANTS
  Users <- NoUsers
  MaxChildren = 2
  PipeLines = 1
  Lines <- FewLines
  AwaitExit = TRUE
  TunnelDrops = FALSE
  Persist = FALSE
PROPERTY ConfigSentWhenEstablished
\* The service may quit, and then no process is left to take a step.
CHECK_DEADLOCK FALSE
