\* The server's close races the client's last handler.
CONSTANTS
  NumStreams = 1
  Cap = 1
  ResultSegs = 1
  Paced = TRUE
  ClientMayDie = FALSE
  ServerMayDie = FALSE
SPECIFICATION FairSpec
INVARIANT ResultsPrinted
