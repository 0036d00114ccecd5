\* Logs of more than four lines are long, blocks are of three lines and there are at
\* most two; lines of twenty characters are too long to read; three rounds. The
\* analysis stops.
SPECIFICATION Spec
CONSTANTS
  Threshold = 4
  FinalLines = 3
  MaxBlocks = 2
  ContextLines = 1
  BlockLines = 2
  Limit = 36
  Reserve = 6
  WordingSize = 5
  Kinds = {"pod", "cpu"}
  Generations = {0, 1}
  Fitness = {0, 1, 2}
  TopCount = 2
  Paths = {"log", "notes", "locked", "table", "ghost", "a.xml", "b.xml", "c.xml"}
  Unset = Unset
  ScanLimit = 20
  BatchSize = 2
  MaxIterations = 3
  Configs <- MCConfigs
CHECK_DEADLOCK FALSE
INVARIANTS AnsweredInFull PromptTells FailuresShown
PROPERTY AnalysisEnds
