\* One stream and a bitrate of one block a second.
CONSTANTS
  NumStreams = 1
  Bitrate = 4
  BlockBits = 4
  OneSec = 2
  TestTime = 4
  MaxRoom = 1
  MaxClock = 12
SPECIFICATION FairSpec
INVARIANT TargetBitrate
