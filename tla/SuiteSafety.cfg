\* Two test images, each with a directory of its own.  The table does come to an end.
SPECIFICATION FairSpec
CONSTANTS
  i1 = i1
  i2 = i2
  Images = {i1, i2}
  Dirs = {i1, i2}
  NoImage = NoImage
  Dir <- MCDir
  Names = {"junit.xml"}
CHECK_DEADLOCK FALSE
INVARIANTS PassIsEarned  NamespacesAccountedFor
PROPERTIES  PodsGo
