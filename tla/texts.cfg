CONSTANTS
  MaxInt64 = 999
  MaxInt = 99
  StaticSize = 20
  Types <- MCTypes
  Transforms <- MCTransforms
  Indents <- MCIndents
  Bodies <- MCBodies
  Inputs <- MCInputs
SPECIFICATION Spec
INVARIANT NumbersAreStrict
INVARIANT WordsAreSplit
INVARIANT ListsAreClean
INVARIANT StartTimeIsNotFooled
INVARIANT PathsAreOrdered
INVARIANT AddressesAreWhole
INVARIANT OutputIsWhole
INVARIANT EscapesRevert
INVARIANT FeedbackIsMessage
INVARIANT PropertiesAreValid
