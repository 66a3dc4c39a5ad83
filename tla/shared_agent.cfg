SPECIFICATION BothSpec
CONSTANTS
  Users = {}
  MaxChildren = 1
  PipeLines = 1
  Lines <- OneLine
  AwaitExit = FALSE
  TunnelDrops = FALSE
  Persist = FALSE
PROPERTY ConnectionsAreApart
\* A service may quit, and then no process is left to take a step.
CHECK_DEADLOCK FALSE
