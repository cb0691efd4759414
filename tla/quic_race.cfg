\* One QUIC stream; quinn's driver may empty the socket before mio looks.
CONSTANTS
  MaxStreams = 1
  MaxData = 1
  MaxAcks = 0
SPECIFICATION FairSpec
PROPERTY RacedEnds
CHECK_DEADLOCK FALSE
