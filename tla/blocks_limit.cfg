\* A test with -k 2.
CONSTANTS
  NumStreams = 2
  Length = 3
  BlksGiven = {2}
  BytesGiven = {0}
  Wrap = 16
  OverflowChecks = FALSE
  SndBuf = 2
  MaxBlks = 3
  MaxReads = 3
SPECIFICATION Spec
INVARIANT StopsAtBlocks
