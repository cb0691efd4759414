\* Two clients at any time.
CONSTANTS
  Clients = {c1, c2}
  NumStreams = 1
  Apart = FALSE
SPECIFICATION FairSpec
PROPERTY EveryoneEnds
CHECK_DEADLOCK FALSE
