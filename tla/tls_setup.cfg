\* Three TLS streams, no pacing assumed.  Either side may be killed; the other
\* may then wait for ever.
CONSTANTS
  NumStreams = 3
  DebugAssertions = FALSE
  MayDie = {"client", "server"}
SPECIFICATION FairSpec
INVARIANT TypeOK
INVARIANT NothingHeldBack
INVARIANT SecuredStart
INVARIANT ListenerKeepsUp
PROPERTY TestStarts
CHECK_DEADLOCK FALSE
