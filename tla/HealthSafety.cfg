SPECIFICATION Spec
CONSTANTS
  Checks <- MCChecks
  CleanRunsNeeded = 2
  ErrorWindow = 2
  Polls = 4
CHECK_DEADLOCK FALSE
INVARIANT SettledBeforeHealthy
INVARIANT TagShowsLastFailure
PROPERTY UnhealthyIsDeserved
