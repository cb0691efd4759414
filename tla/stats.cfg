\* UDP tests with -t or -k 3, over a network that loses and may reorder and repeat.
CONSTANTS
  NumStreams = 2
  Length = 3
  BlksGiven = {0, 3}
  BytesGiven = {0}
  Wrap = 16
  OverflowChecks = FALSE
  SndBuf = 2
  MaxBlks = 3
  MaxReads = 2
SPECIFICATION Spec
INVARIANT TypeOK
INVARIANT IntervalsAddUp
INVARIANT TotalsAddUp
INVARIANT LossTelescopes
INVARIANT ReportedLoss
INVARIANT ReportWithinSent
