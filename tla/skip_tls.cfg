\* Both sides or neither started with --skip-tls; two key updates.
CONSTANTS
  SameFlags = TRUE
  TagLen = 2
  MaxLevel = 4
  MaxPackets = 5
SPECIFICATION Spec
INVARIANT PacketsOpen
CHECK_DEADLOCK FALSE
