\* One stream and a bitrate below a block in the test's time.
CONSTANTS
  NumStreams = 1
  Bitrate = 1
  BlockBits = 8
  OneSec = 2
  TestTime = 4
  MaxRoom = 2
  MaxClock = 30
SPECIFICATION FairSpec
INVARIANT EndsOnTime
