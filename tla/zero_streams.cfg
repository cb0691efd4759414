\* -P 0.
CONSTANTS
  NumStreams = 0
  MaxLoss = 0
  MaxDup = 0
SPECIFICATION FairSpec
PROPERTY UdpStarts
CHECK_DEADLOCK FALSE
