\* The results arrive in two segments.
CONSTANTS
  NumStreams = 1
  Cap = 1
  ResultSegs = 2
  Paced = TRUE
  ClientMayDie = FALSE
  ServerMayDie = FALSE
SPECIFICATION FairSpec
INVARIANT ResultsParsed
