\* A test with two streams.  Either process may be killed at any moment; the
\* other may then wait for ever.
CONSTANTS
  NumStreams = 2
  Cap = 1
  ResultSegs = 1
  Paced = TRUE
  ClientMayDie = TRUE
  ServerMayDie = TRUE
SPECIFICATION FairSpec
INVARIANT TypeOK
INVARIANT NoPanic
INVARIANT MessageMatchesState
INVARIANT CookieBarrier
INVARIANT NoLostEvent
INVARIANT NoLostRoom
INVARIANT RemoteErrorIsReal
PROPERTY TakesTurns
PROPERTY TestCompletes
PROPERTY ServerRecovers
PROPERTY ClientNotices
CHECK_DEADLOCK FALSE
