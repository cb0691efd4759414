\* A UDP test of a build with overflow checks.
CONSTANTS
  NumStreams = 2
  Length = 3
  BlksGiven = {0}
  BytesGiven = {0}
  Wrap = 16
  OverflowChecks = TRUE
  SndBuf = 2
  MaxBlks = 3
  MaxReads = 3
SPECIFICATION Spec
INVARIANT NoOverflowPanic
