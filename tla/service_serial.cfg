\* service_serial
SPECIFICATION FairSpec
CONSTANTS
  Users <- UserAndWheel
  MaxChildren = 2
  PipeLines = 2
  Lines <- AllLines
  AwaitExit = TRUE
  TunnelDrops = TRUE
  Persist = FALSE
INVARIANT LiveChildAccounted
INVARIANT NothingLeaks
INVARIANT FeedbackIsOwn
INVARIANT FailureTellsTheAttempt
PROPERTY ClientHasItsSlot
\* The service may quit, and then no process is left to take a step.
CHECK_DEADLOCK FALSE
