\* Two data connections may reach the listener before it is polled.
CONSTANTS
  NumStreams = 2
  Cap = 1
  ResultSegs = 1
  Paced = FALSE
  ClientMayDie = FALSE
  ServerMayDie = FALSE
SPECIFICATION FairSpec
PROPERTY TestCompletes
CHECK_DEADLOCK FALSE
