\* Both sides or neither started with --skip-tls.
CONSTANTS
  SameFlags = TRUE
  TagLen = 2
  MaxLevel = 4
  MaxPackets = 5
SPECIFICATION Spec
INVARIANT SkipDisables
CHECK_DEADLOCK FALSE
