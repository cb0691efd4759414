\* Four clients, none of which connects while another is being set up.
CONSTANTS
  Clients = {c1, c2, c3, c4}
  NumStreams = 2
  Apart = TRUE
SPECIFICATION FairSpec
INVARIANT OwnStreams
INVARIANT AllCookies
PROPERTY EveryoneEnds
