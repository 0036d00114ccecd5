\* Budgets of one and two units, a buffer of one, a grace of two and a must-gather
\* of one, on a clock of six.  The clock, and a run, stop.
SPECIFICATION Spec
CONSTANTS
  Parameters = {0, 1}
  PerScenario = 1
  DefaultDuration = 2
  Buffer = 1
  Grace = 2
  GatherLimit = 1
  Expiries = {0, 2, 4}
  Horizon = 6
CHECK_DEADLOCK FALSE
INVARIANTS CoveredForBudget GatherInTime LifeReturned SuccessIsEarned
PROPERTY Implements
