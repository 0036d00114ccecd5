\* Every configuration of an upgrade, also of a cluster upgraded before.
\* A run does come to an end.
SPECIFICATION FairSpec
CHECK_DEADLOCK FALSE
INVARIANTS TypeOK SuccessMeansUpgraded TestLoadInPlace OperatorRunsWhileWatched
PROPERTIES UpgradeEnds FailureIsReported
