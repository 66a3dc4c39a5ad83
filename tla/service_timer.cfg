\* service_timer
SPECIFICATION Spec
CONSTANTS
  Users <- TwoUsers
  MaxChildren = 2
  PipeLines = 1
  Lines <- FewLines
  AwaitExit = FALSE
  TunnelDrops = FALSE
  Persist = FALSE
PROPERTY TimerEndsClient
\* The service may quit, and then no process is left to take a step.
CHECK_DEADLOCK FALSE
