----------------------------- MODULE Lockstep -----------------------------
(***************************************************************************)
(* What the control connection promises: the two TestState machines move   *)
(* in turns.  The client enters a state only when the server has announced *)
(* it, the server leaves a state only when the client has answered it, and *)
(* a run that ends early puts the server back to Start.  The answer to     *)
(* CreateStreams is the last connection, which the server may accept       *)
(* before the client has left that state.                                  *)
(***************************************************************************)
EXTENDS Naturals

VARIABLES server, client   \* the state each side's test is in

Init == server = "Start" /\ client = "Start"

\* The client's next state may be entered once the server is in s.
ClientMove(s, from, to) ==
  /\ client = from
  /\ server = s
  /\ client' = to
  /\ UNCHANGED server

ClientAdvances ==
  \/ ClientMove("Start", "Start", "ParamExchange")
  \/ ClientMove("ParamExchange", "ParamExchange", "CreateStreams")
  \/ ClientMove("CreateStreams", "CreateStreams", "TestStart")
  \/ ClientMove("TestStart", "CreateStreams", "TestStart")
  \/ ClientMove("TestStart", "TestStart", "TestRunning")
  \/ ClientMove("TestRunning", "TestRunning", "ExchangeResults")
  \/ ClientMove("End", "ExchangeResults", "End")

\* The server's next state may be entered once the client is in c.
ServerMove(c, from, to) ==
  /\ server = from
  /\ client = c
  /\ server' = to
  /\ UNCHANGED client

ServerAdvances ==
  \/ ServerMove("ParamExchange", "Start", "ParamExchange")
  \/ ServerMove("CreateStreams", "ParamExchange", "CreateStreams")
  \/ ServerMove("CreateStreams", "CreateStreams", "TestStart")
  \/ ServerMove("TestStart", "CreateStreams", "TestStart")
  \/ ServerMove("TestRunning", "TestStart", "TestRunning")
  \/ ServerMove("ExchangeResults", "TestRunning", "TestEnd")
  \/ ServerMove("ExchangeResults", "TestEnd", "ExchangeResults")
  \/ ServerMove("ExchangeResults", "ExchangeResults", "End")

\* The client is lost: a running test is ended, a run is given up.
ServerGivesUp == server = "TestRunning" /\ server' = "End" /\ UNCHANGED client
ServerRestarts == server \in {"Start", "ParamExchange", "TestStart", "ExchangeResults", "End"}
                  /\ server' = "Start" /\ UNCHANGED client

Next == ClientAdvances \/ ServerAdvances \/ ServerGivesUp \/ ServerRestarts

Spec == Init /\ [][Next]_<< server, client >>
=============================================================================
