\* Three UDP streams, paced or not; a datagram is lost, one is duplicated.
CONSTANTS
  NumStreams = 3
  MaxLoss = 1
  MaxDup = 1
SPECIFICATION FairSpec
INVARIANT TypeOK
INVARIANT OneSocketPerStream
INVARIANT NoStray
PROPERTY UdpStarts
CHECK_DEADLOCK FALSE
