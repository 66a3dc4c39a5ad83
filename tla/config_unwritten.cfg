SPECIFICATION Spec
CONSTANTS
  Entries <- AllEntries
  MaxEntries = 2
INVARIANT LocalIPv4Sent
\* The walk ends.
CHECK_DEADLOCK FALSE
