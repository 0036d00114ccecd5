\* Two test images, every configuration, also against the interface.  A run does
\* come to an end.
CONSTANTS
  i1 = i1
  i2 = i2
  Suites = {i1, i2}
SPECIFICATION Spec
SYMMETRY Symmetry
INVARIANTS SuccessIsEarned TagFollowsLastPhase OwnersTold NoFalseAlarm NothingElseLeftBehind
PROPERTY Implements
CHECK_DEADLOCK FALSE
