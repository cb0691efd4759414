\* Each side started with or without --skip-tls.
CONSTANTS
  SameFlags = FALSE
  TagLen = 2
  MaxLevel = 4
  MaxPackets = 5
SPECIFICATION Spec
INVARIANT PacketsOpen
CHECK_DEADLOCK FALSE
