\* One or two QUIC streams; mio or quinn is first at the socket.  Only a single
\* stream of which mio sees every datagram is sure not to hang.
CONSTANTS
  MaxStreams = 2
  MaxData = 3
  MaxAcks = 2
SPECIFICATION FairSpec
INVARIANT TypeOK
INVARIANT NoPanic
INVARIANT AllCounted
INVARIANT StreamOrder
PROPERTY QuicEnds
CHECK_DEADLOCK FALSE
