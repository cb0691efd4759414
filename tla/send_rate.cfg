\* Two streams below a bitrate of three blocks a second.
CONSTANTS
  NumStreams = 2
  Bitrate = 6
  BlockBits = 2
  OneSec = 2
  TestTime = 4
  MaxRoom = 2
  MaxClock = 12
SPECIFICATION FairSpec
INVARIANT IntervalRate
INVARIANT EndsOnTime
PROPERTY SendEnds
