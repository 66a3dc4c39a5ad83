SPECIFICATION FairSpec
CONSTANTS
  Entries <- AllEntries
  MaxEntries = 2
INVARIANT IPv4PairIsOneEntry
INVARIANT IPv6NeverUnwritten
INVARIANT IPv6PrefixIsMaskLength
PROPERTY ConfigArrives
\* The walk ends.
CHECK_DEADLOCK FALSE
