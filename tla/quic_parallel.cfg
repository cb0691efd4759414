\* One or two QUIC streams; mio sees every datagram.
CONSTANTS
  MaxStreams = 2
  MaxData = 1
  MaxAcks = 0
SPECIFICATION FairSpec
PROPERTY ParallelEnds
CHECK_DEADLOCK FALSE
