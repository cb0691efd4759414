\* A dev build (cargo run), nobody dies.
CONSTANTS
  NumStreams = 1
  DebugAssertions = TRUE
  MayDie = {}
SPECIFICATION FairSpec
PROPERTY TestStarts
CHECK_DEADLOCK FALSE
