\* One test image, every configuration.
CONSTANTS
  i1 = i1
  Suites = {i1}
SPECIFICATION Spec
SYMMETRY Symmetry
INVARIANT NothingFailedMeansSuccess
CHECK_DEADLOCK FALSE
