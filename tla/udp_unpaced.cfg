\* Two UDP streams whose hellos come faster than the server handles them.
CONSTANTS
  NumStreams = 2
  MaxLoss = 0
  MaxDup = 0
SPECIFICATION FairSpec
PROPERTY UdpStartsUnpaced
CHECK_DEADLOCK FALSE
