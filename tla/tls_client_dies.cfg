\* The client is killed behind its Finished.
CONSTANTS
  NumStreams = 1
  DebugAssertions = FALSE
  MayDie = {"client"}
SPECIFICATION Spec
INVARIANT ServerSurvives
CHECK_DEADLOCK FALSE
