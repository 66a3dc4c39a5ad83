SPECIFICATION FairSpec
CONSTANTS
  SsizeMax = 3
  MaxWritten = 4
  MaxSignals = 2
INVARIANT TypeOK
INVARIANT NoByteLost
INVARIANT ExactIsAll
INVARIANT ShortOnlyAtTheEnd
PROPERTY CallEnds
