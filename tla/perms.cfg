SPECIFICATION Spec
CONSTANTS
  NumUsers = 2
  MaxCrashes = 2
  Recreates = TRUE
  Failing = TRUE
INVARIANT LinksLead
INVARIANT SeenIsLinked
PROPERTY SetUpStays
