---------------------------- MODULE NperfProofs ----------------------------
(***************************************************************************)
(* Proofs about a TCP test (module Nperf) for any number of streams, any   *)
(* capacity of the connections and any number of result segments, with and *)
(* without kills and the client's pacing.  Three parts, each with its      *)
(* inductive invariant, and each resting on the one before: the types      *)
(* (TypeInv), the control protocol (Protocol), and the events of the       *)
(* edge-triggered loops (Watched, Woken).                                  *)
(***************************************************************************)
EXTENDS Nperf, FiniteSetTheorems, TLAPS

\* What the client puts on the control connection.
ClientMsg == {COOKIE, SETTINGS, as_u8("TestEnd"), as_u8("End")}

\* TypeOK is not inductive: the server adds to cookie_count without looking at
\* it, moves to whatever state the client names, and the client's connect loop
\* counts up to num_streams.
Counters ==
  /\ wire["server"] \in Seq(ClientMsg) /\ buf["server"] \in Seq(ClientMsg)
  /\ sstate \in {"Start", "ParamExchange", "CreateStreams"} => cookie_count = 0
  /\ sstate = "TestStart" => cookie_count < NumStreams
  /\ cstate \in {"Start", "ParamExchange", "CreateStreams"} /\ cstreams = NumStreams =>
       proc["client"] \in {"Printing", "Done", "Failed", "Panic", "Killed"}
  /\ proc["client"] \in {"Connecting", "Printing"} => cstate = "CreateStreams"

TypeInv == TypeOK /\ Counters

USE DEF Side, Other

-----------------------------------------------------------------------------
LEMMA Bytes ==
  /\ as_u8("ParamExchange") = 1 /\ as_u8("CreateStreams") = 2 /\ as_u8("TestStart") = 3
  /\ as_u8("TestRunning") = 4 /\ as_u8("TestEnd") = 5 /\ as_u8("End") = 8
  BY DEF as_u8

LEMMA Constants == NumStreams \in Nat \ {0} /\ 1 \in Streams
  BY NetAssumption DEF Streams

LEMMA InitTypeInv == Init => TypeInv
  <1> SUFFICES ASSUME Init PROVE TypeInv
    OBVIOUS
  <1>1. CtrlTypeOK
    BY DEF Init, CtrlTypeOK
  <1>2. LoopTypeOK
    BY DEF Init, LoopTypeOK, Process, Source, CONTROL
  <1>3. ListenTypeOK
    BY DEF Init, ListenTypeOK
  <1>4. DataTypeOK
    BY DEF Init, DataTypeOK
  <1>5. ServerTypeOK
    BY Constants DEF Init, ServerInit, ServerTypeOK, TestState
  <1>6. ClientTypeOK
    <2>1. cstate \in TestState /\ cstreams \in 0..NumStreams /\ clock \in 0..2
      BY Constants DEF Init, ClientInit, TestState
    <2>2. cidx \in Streams
      BY Constants DEF Init, ClientInit
    <2>3. {running, elapsed, try_later, parsed} \subseteq BOOLEAN
      BY Zenon DEF Init, ClientInit
    <2> QED BY <2>1, <2>2, <2>3, Zenon DEF ClientTypeOK
  <1>7. Counters
    BY Constants DEF Init, ServerInit, ClientInit, Counters
  <1> QED BY <1>1, <1>2, <1>3, <1>4, <1>5, <1>6, <1>7 DEF TypeInv, TypeOK

-----------------------------------------------------------------------------
(* The parts of TypeOK that a step leaves alone. *)

LEMMA CtrlSame == ASSUME CtrlTypeOK, UNCHANGED ctrlVars PROVE CtrlTypeOK'
  BY DEF CtrlTypeOK, ctrlVars

LEMMA ListenSame == ASSUME ListenTypeOK, UNCHANGED listenVars PROVE ListenTypeOK'
  BY DEF ListenTypeOK, listenVars

LEMMA DataSame == ASSUME DataTypeOK, UNCHANGED dataVars PROVE DataTypeOK'
  BY DEF DataTypeOK, dataVars

LEMMA ServerSame == ASSUME ServerTypeOK, UNCHANGED serverVars PROVE ServerTypeOK'
  BY DEF ServerTypeOK, serverVars

LEMMA ClientSame == ASSUME ClientTypeOK, UNCHANGED clientVars PROVE ClientTypeOK'
  BY DEF ClientTypeOK, clientVars

\* Polling and delivering change a batch or a ready list only.
LEMMA TakeSame ==
  ASSUME LoopTypeOK, NEW x \in Side, NEW e, Take(x, e), UNCHANGED << proc, ready, reg >>
  PROVE  LoopTypeOK'
  BY DEF LoopTypeOK, Take

LEMMA PollType == ASSUME TypeOK, NEW x \in Side, Poll(x) PROVE LoopTypeOK'
  <1>1. ready[x] \subseteq Source
    BY DEF TypeOK, LoopTypeOK
  <1>2. ASSUME NEW s \in Source PROVE [src |-> s, readable |-> Readable(x, s)] \in Event
    <2>1. Readable(x, s) \in BOOLEAN
      BY Zenon DEF Readable
    <2> QED BY <2>1 DEF Event
  <1>3. batch' \in [Side -> SUBSET Event]
    BY <1>1, <1>2 DEF TypeOK, LoopTypeOK, Poll
  <1> QED BY <1>3 DEF TypeOK, LoopTypeOK, Poll

\* Draining a socket.
LEMMA Emptied ==
  ASSUME NEW S, NEW D, NEW f \in [D -> Seq(S)], NEW x \in D
  PROVE  [f EXCEPT ![x] = << >>] \in [D -> Seq(S)]
  <1>1. << >> \in Seq(S)
    OBVIOUS
  <1> QED BY <1>1

LEMMA BufDrained ==
  ASSUME CtrlTypeOK, NEW x \in Side, buf' = buf \/ buf' = [buf EXCEPT ![x] = << >>]
  PROVE  buf' \in [Side -> Seq(Msg)]
  <1>1. CASE buf' = buf
    BY <1>1 DEF CtrlTypeOK
  <1>2. CASE buf' = [buf EXCEPT ![x] = << >>]
    BY <1>2, Emptied DEF CtrlTypeOK
  <1> QED BY <1>1, <1>2

LEMMA AppendHead ==
  ASSUME NEW S, NEW from \in Seq(S), NEW to \in Seq(S), from # << >>
  PROVE  Tail(from) \in Seq(S) /\ Append(to, Head(from)) \in Seq(S)
  OBVIOUS

\* The kernel's steps move a message from the wire to a buffer.
LEMMA NetCtrlType == ASSUME TypeInv, NEW x \in Side, NetCtrl(x) PROVE TypeInv'
  <1>1. CtrlTypeOK' /\ wire'["server"] \in Seq(ClientMsg) /\ buf'["server"] \in Seq(ClientMsg)
    <2>1. CASE DeliverCtrl(x)
      <3>1. /\ Tail(wire[x]) \in Seq(Msg) /\ Append(buf[x], Head(wire[x])) \in Seq(Msg)
            /\ x = "server" => /\ Tail(wire[x]) \in Seq(ClientMsg)
                               /\ Append(buf[x], Head(wire[x])) \in Seq(ClientMsg)
        BY <2>1, AppendHead DEF TypeInv, TypeOK, CtrlTypeOK, Counters, DeliverCtrl
      <3>2. /\ wire' = [wire EXCEPT ![x] = Tail(wire[x])]
            /\ buf' = [buf EXCEPT ![x] = Append(buf[x], Head(wire[x]))] \/ buf' = buf
            /\ tail' = [tail EXCEPT ![Other(x)] = "rst"] \/ tail' = tail
            /\ sock' = sock
        BY <2>1 DEF DeliverCtrl
      <3> QED BY <3>1, <3>2 DEF TypeInv, TypeOK, CtrlTypeOK, Counters
    <2>2. CASE DeliverTail(x)
      BY <2>2 DEF TypeInv, TypeOK, CtrlTypeOK, Counters, DeliverTail
    <2> QED BY <2>1, <2>2 DEF NetCtrl
  <1>2. LoopTypeOK'
    BY DEF TypeInv, TypeOK, LoopTypeOK, NetCtrl, DeliverCtrl, DeliverTail, Source
  <1>3. UNCHANGED << proc, listenVars, dataVars, serverVars, clientVars >>
    BY DEF NetCtrl, DeliverCtrl, DeliverTail
  <1>4. ListenTypeOK' /\ DataTypeOK' /\ ServerTypeOK' /\ ClientTypeOK'
    BY <1>3, ListenSame, DataSame, ServerSame, ClientSame DEF TypeInv, TypeOK
  <1>5. Counters'
    BY <1>1, <1>3 DEF TypeInv, Counters, serverVars, clientVars
  <1> QED BY <1>1, <1>2, <1>4, <1>5 DEF TypeInv, TypeOK

LEMMA NetDataType == ASSUME TypeInv, NEW i \in Streams, NetData(i) PROVE TypeInv'
  <1>1. LoopTypeOK'
    BY DEF TypeInv, TypeOK, LoopTypeOK, NetData, DeliverData, DeliverFin, ServerEdge, Source
  <1>2. DataTypeOK'
    <2>1. CASE DeliverData(i)
      <3>1. Tail(dwire[i]) \in Seq(Block) /\ Append(dbuf[i], Head(dwire[i])) \in Seq(Block)
        BY <2>1, AppendHead DEF TypeInv, TypeOK, DataTypeOK, DeliverData
      <3> QED BY <2>1, <3>1 DEF TypeInv, TypeOK, DataTypeOK, DeliverData
    <2>2. CASE DeliverFin(i)
      BY <2>2 DEF TypeInv, TypeOK, DataTypeOK, DeliverFin
    <2> QED BY <2>1, <2>2 DEF NetData
  <1>3. UNCHANGED << proc, ctrlVars, listenVars, serverVars, clientVars >>
    BY DEF NetData, DeliverData, DeliverFin
  <1>4. CtrlTypeOK' /\ ListenTypeOK' /\ ServerTypeOK' /\ ClientTypeOK'
    BY <1>3, CtrlSame, ListenSame, ServerSame, ClientSame DEF TypeInv, TypeOK
  <1>5. Counters'
    BY <1>3 DEF TypeInv, Counters, ctrlVars, serverVars, clientVars
  <1> QED BY <1>1, <1>2, <1>4, <1>5 DEF TypeInv, TypeOK

LEMMA TailType ==
  ASSUME CtrlTypeOK, NEW x \in Side PROVE TailOnClose(x) \in [Side -> {"none", "fin", "rst"}]
  BY DEF CtrlTypeOK, TailOnClose

-----------------------------------------------------------------------------
(* The server's steps. *)

\* Leaving run() by any way keeps the network's types.
LEMMA ServerClosesType ==
  ASSUME TypeInv, NEW p \in Process, ServerCloses(p)
  PROVE  /\ CtrlTypeOK' /\ LoopTypeOK' /\ ListenTypeOK' /\ DataTypeOK'
         /\ wire' = wire /\ buf'["server"] = << >> /\ proc'["client"] = proc["client"]
  <1>1. CtrlTypeOK' /\ wire' = wire /\ buf'["server"] = << >>
    <2>1. tail' \in [Side -> {"none", "fin", "rst"}]
      BY TailType DEF TypeInv, TypeOK, ServerCloses
    <2> QED BY <2>1 DEF TypeInv, TypeOK, CtrlTypeOK, ServerCloses
  <1>2. LoopTypeOK' /\ proc'["client"] = proc["client"]
    BY DEF TypeInv, TypeOK, LoopTypeOK, ServerCloses, Source
  <1>3. ListenTypeOK'
    <2>1. backlog' \in Nat
      BY DEF ServerCloses
    <2> QED BY <2>1, Zenon DEF ListenTypeOK, ServerCloses
  <1>4. DataTypeOK'
    BY DEF TypeInv, TypeOK, DataTypeOK, ServerCloses
  <1> QED BY <1>1, <1>2, <1>3, <1>4

LEMMA RestartType == ASSUME TypeInv, Restart, UNCHANGED clientVars PROVE TypeInv'
  <1>1. /\ CtrlTypeOK' /\ LoopTypeOK' /\ ListenTypeOK' /\ DataTypeOK'
        /\ wire' = wire /\ buf'["server"] = << >> /\ proc'["client"] = proc["client"]
    BY ServerClosesType DEF Restart, Process
  <1>2. ServerTypeOK' /\ ClientTypeOK'
    BY Constants, ClientSame DEF TypeInv, TypeOK, Restart, ServerTypeOK, TestState
  <1>3. Counters'
    BY <1>1, Constants DEF TypeInv, Counters, Restart, clientVars
  <1> QED BY <1>1, <1>2, <1>3 DEF TypeInv, TypeOK

LEMMA ServerStopsType ==
  ASSUME TypeInv, NEW p \in {"Panic", "Killed"}, ServerCloses(p),
         UNCHANGED << serverVars, clientVars >>
  PROVE  TypeInv'
  <1>1. /\ CtrlTypeOK' /\ LoopTypeOK' /\ ListenTypeOK' /\ DataTypeOK'
        /\ wire' = wire /\ buf'["server"] = << >> /\ proc'["client"] = proc["client"]
    BY ServerClosesType DEF Process
  <1>2. ServerTypeOK' /\ ClientTypeOK'
    BY ServerSame, ClientSame DEF TypeInv, TypeOK
  <1>3. Counters'
    BY <1>1 DEF TypeInv, Counters, serverVars, clientVars
  <1> QED BY <1>1, <1>2, <1>3 DEF TypeInv, TypeOK

\* Accepting the control connection, polling, and the arms that do nothing.
LEMMA ServerIdleType ==
  ASSUME TypeInv, SAccept \/ ServerPoll \/ (\E e : SIgnore(e) \/ SUnexpected(e)),
         UNCHANGED clientVars
  PROVE  TypeInv'
  <1>1. /\ UNCHANGED << ctrlVars, dataVars, serverVars >>
        /\ UNCHANGED listenVars \/ (syn' = FALSE /\ UNCHANGED << backlog, listening >>)
    BY DEF SAccept, accept, ServerPoll, Poll, SIgnore, SUnexpected, listenVars
  <1>2. CtrlTypeOK' /\ DataTypeOK' /\ ServerTypeOK' /\ ClientTypeOK'
    BY <1>1, CtrlSame, DataSame, ServerSame, ClientSame DEF TypeInv, TypeOK
  <1>3. ListenTypeOK'
    BY <1>1, Zenon DEF TypeInv, TypeOK, ListenTypeOK, listenVars
  <1>4. LoopTypeOK' /\ (proc'["client"] = proc["client"])
    <2>1. CASE SAccept
      BY <2>1 DEF TypeInv, TypeOK, LoopTypeOK, SAccept, Process, Source
    <2>2. CASE ServerPoll
      BY <2>2, PollType DEF TypeInv, TypeOK, ServerPoll, Poll
    <2>3. CASE \E e : SIgnore(e) \/ SUnexpected(e)
      BY <2>3 DEF TypeInv, TypeOK, LoopTypeOK, SIgnore, SUnexpected, Take
    <2> QED BY <2>1, <2>2, <2>3
  <1>5. Counters'
    BY <1>1, <1>4 DEF TypeInv, Counters, ctrlVars, serverVars, clientVars
  <1> QED BY <1>2, <1>3, <1>4, <1>5 DEF TypeInv, TypeOK

\* What the server writes on the control connection.
LEMMA SendsType ==
  ASSUME CtrlTypeOK, NEW m \in Seq(Msg), Sends(m), UNCHANGED << tail, sock >>,
         buf' = buf \/ buf' = [buf EXCEPT !["server"] = << >>]
  PROVE  CtrlTypeOK' /\ wire'["server"] = wire["server"]
  <1> DEFINE w == wire["client"] \o m
  <1>1. w \in Seq(Msg)
    BY DEF CtrlTypeOK
  <1>2. wire' = [wire EXCEPT !["client"] = w]
    BY DEF Sends
  <1> HIDE DEF w
  <1>3. wire' \in [Side -> Seq(Msg)] /\ wire'["server"] = wire["server"]
    BY <1>1, <1>2 DEF CtrlTypeOK
  <1>4. buf' \in [Side -> Seq(Msg)]
    BY BufDrained
  <1> QED BY <1>3, <1>4 DEF CtrlTypeOK

LEMMA SendsState ==
  ASSUME NEW s \in {"ParamExchange", "CreateStreams", "TestStart", "TestRunning"}
  PROVE  << as_u8(s) >> \in Seq(Msg)
  <1>1. as_u8(s) \in Msg
    BY Bytes DEF Msg, StateByte
  <1> QED BY <1>1

\* The exchange of parameters.
LEMMA SStartType ==
  ASSUME TypeInv, NEW e, SStart(e), UNCHANGED clientVars PROVE TypeInv'
  <1>1. LoopTypeOK' /\ ListenTypeOK' /\ DataTypeOK' /\ ClientTypeOK'
    BY TakeSame, ListenSame, DataSame, ClientSame DEF TypeInv, TypeOK, SStart
  <1>2. CtrlTypeOK' /\ wire'["server"] = wire["server"]
    BY SendsType, SendsState DEF TypeInv, TypeOK, SStart
  <1>3. ServerTypeOK'
    BY DEF TypeInv, TypeOK, SStart, ServerTypeOK, TestState
  <1>4. Counters'
    BY <1>2 DEF TypeInv, TypeOK, CtrlTypeOK, Counters, SStart, clientVars
  <1> QED BY <1>1, <1>2, <1>3, <1>4 DEF TypeInv, TypeOK

LEMMA SParamExchangeType ==
  ASSUME TypeInv, NEW e, SParamExchange(e), UNCHANGED clientVars PROVE TypeInv'
  <1>1. CASE ServerPanics
    BY <1>1, ServerStopsType DEF ServerPanics
  <1>2. CASE ~ServerPanics
    <2>1. DataTypeOK' /\ ClientTypeOK'
      BY <1>2, DataSame, ClientSame DEF TypeInv, TypeOK, SParamExchange
    <2>2. LoopTypeOK'
      BY <1>2 DEF TypeInv, TypeOK, LoopTypeOK, SParamExchange, Take, Source
    <2>3. ListenTypeOK'
      BY <1>2, Zenon DEF TypeInv, TypeOK, ListenTypeOK, SParamExchange
    <2>4. CtrlTypeOK' /\ wire'["server"] = wire["server"]
      BY <1>2, SendsType, SendsState DEF TypeInv, TypeOK, SParamExchange
    <2>5. ServerTypeOK'
      BY <1>2 DEF TypeInv, TypeOK, SParamExchange, ServerTypeOK, TestState
    <2>6. Counters'
      BY <1>2, <2>4 DEF TypeInv, TypeOK, CtrlTypeOK, Counters, SParamExchange, clientVars
    <2> QED BY <2>1, <2>2, <2>3, <2>4, <2>5, <2>6 DEF TypeInv, TypeOK
  <1> QED BY <1>1, <1>2

\* The end of a test: the only states a client can ask for.
LEMMA RequestedType == TypeInv => Requested \in {"TestEnd", "End"}
  <1> SUFFICES ASSUME TypeInv, StateMessage PROVE from_i8(buf["server"][1]) \in {"TestEnd", "End"}
    BY DEF Requested
  <1>1. buf["server"][1] \in ClientMsg \cap StateByte
    BY DEF TypeInv, Counters, StateMessage
  <1>2. buf["server"][1] \in {5, 8}
    BY <1>1, Bytes DEF ClientMsg, StateByte, COOKIE, SETTINGS
  <1> QED BY <1>2 DEF from_i8

LEMMA TestOverType ==
  ASSUME TypeInv, NEW e, STestRunning(e) \/ SClientShutdown(e) \/ STestEnd(e),
         ~ServerPanics, UNCHANGED clientVars
  PROVE  TypeInv'
  <1>1. /\ UNCHANGED << proc, wire, tail, sock, listenVars, dataVars, nstreams, cookie_count >>
        /\ buf' = buf \/ buf' = [buf EXCEPT !["server"] = << >>]
        /\ sstate' \in {"TestEnd", "ExchangeResults", "End"}
    BY RequestedType DEF STestRunning, SClientShutdown, STestEnd, ctrlVars
  <1>2. CtrlTypeOK'
    <2>1. buf' \in [Side -> Seq(Msg)]
      BY <1>1, BufDrained DEF TypeInv, TypeOK
    <2> QED BY <1>1, <2>1 DEF TypeInv, TypeOK, CtrlTypeOK
  <1>3. LoopTypeOK'
    BY <1>1 DEF TypeInv, TypeOK, LoopTypeOK, STestRunning, SClientShutdown, STestEnd, Take,
                EndServer, Wake, WithoutStreams, Source
  <1>4. ListenTypeOK' /\ DataTypeOK' /\ ClientTypeOK'
    BY <1>1, ListenSame, DataSame, ClientSame DEF TypeInv, TypeOK
  <1>5. ServerTypeOK'
    BY <1>1 DEF TypeInv, TypeOK, ServerTypeOK, TestState
  <1>6. Counters'
    <2>1. buf'["server"] \in Seq(ClientMsg)
      <3>1. CASE buf' = buf
        BY <3>1 DEF TypeInv, Counters
      <3>2. CASE buf' = [buf EXCEPT !["server"] = << >>]
        BY <3>2 DEF TypeInv, TypeOK, CtrlTypeOK
      <3> QED BY <1>1, <3>1, <3>2
    <2> QED BY <1>1, <2>1 DEF TypeInv, Counters, clientVars
  <1> QED BY <1>2, <1>3, <1>4, <1>5, <1>6 DEF TypeInv, TypeOK

LEMMA SExchangeResultsType ==
  ASSUME TypeInv, NEW e, SExchangeResults(e), UNCHANGED clientVars PROVE TypeInv'
  <1>1. LoopTypeOK' /\ ListenTypeOK' /\ DataTypeOK' /\ ClientTypeOK'
    BY TakeSame, ListenSame, DataSame, ClientSame DEF TypeInv, TypeOK, SExchangeResults
  <1>2. [k \in 1..ResultSegs |-> RESULTS] \in Seq(Msg)
    BY NetAssumption DEF Msg
  <1>3. CtrlTypeOK' /\ wire'["server"] = wire["server"]
    BY <1>2, SendsType DEF TypeInv, TypeOK, SExchangeResults
  <1>4. ServerTypeOK'
    BY DEF TypeInv, TypeOK, SExchangeResults, ServerTypeOK, TestState
  <1>5. Counters'
    BY <1>3 DEF TypeInv, TypeOK, CtrlTypeOK, Counters, SExchangeResults, clientVars
  <1> QED BY <1>1, <1>3, <1>4, <1>5 DEF TypeInv, TypeOK

\* The data connections and their cookies.
LEMMA SCreateStreamType ==
  ASSUME TypeInv, NEW e, SCreateStream(e), ~ServerPanics, UNCHANGED clientVars PROVE TypeInv'
  <1> DEFINE i == nstreams + 1
  <1>1. /\ backlog # 0 /\ i <= NumStreams /\ sstate = "CreateStreams"
        /\ Take("server", e)
        /\ backlog' = backlog - 1
        /\ nstreams' = i
        /\ reg' = [reg EXCEPT !["server"] = @ \cup {i}]
        /\ ready' = [ready EXCEPT !["server"] = @ \cup {i}] \/ ready' = ready
        /\ \/ sstate' = "TestStart" /\ Sends(<< as_u8("TestStart") >>)
           \/ UNCHANGED << sstate, wire >>
        /\ UNCHANGED << proc, buf, tail, sock, syn, listening, dataVars, cookie_count >>
    <2>1. ~(backlog = 0 \/ i > NumStreams)
      BY DEF SCreateStream, create_tcp_stream
    <2>2. i <= NumStreams
      BY <2>1, Constants DEF TypeInv, TypeOK, ServerTypeOK
    <2>3. /\ sstate = "CreateStreams" /\ Take("server", e)
          /\ backlog' = backlog - 1 /\ nstreams' = i
          /\ reg' = [reg EXCEPT !["server"] = @ \cup {i}]
          /\ UNCHANGED << proc, buf, tail, sock, syn, listening, dataVars, cookie_count >>
      BY DEF SCreateStream, create_tcp_stream
    <2>4. \/ sstate' = "TestStart" /\ Sends(<< as_u8("TestStart") >>)
          \/ UNCHANGED << sstate, wire >>
      BY DEF SCreateStream, create_tcp_stream
    <2>5. \/ ready' = [ready EXCEPT !["server"] = @ \cup {i}]
          \/ ready' = [ready EXCEPT !["server"] = @]
      BY DEF SCreateStream, create_tcp_stream
    <2>6. \/ ready' = [ready EXCEPT !["server"] = @ \cup {i}]
          \/ ready' = ready
      BY <2>5 DEF TypeInv, TypeOK, LoopTypeOK
    <2> QED BY <2>1, <2>2, <2>3, <2>4, <2>6
  <1>2. i \in Streams
    BY <1>1 DEF TypeInv, TypeOK, ServerTypeOK, Streams
  <1> HIDE DEF i
  <1>3. DataTypeOK' /\ ClientTypeOK'
    BY <1>1, DataSame, ClientSame DEF TypeInv, TypeOK
  <1>4. LoopTypeOK'
    BY <1>1, <1>2 DEF TypeInv, TypeOK, LoopTypeOK, Take, Source
  <1>5. ListenTypeOK'
    <2>1. backlog' \in Nat
      BY <1>1 DEF TypeInv, TypeOK, ListenTypeOK
    <2> QED BY <1>1, <2>1, Zenon DEF TypeInv, TypeOK, ListenTypeOK
  <1>6. CtrlTypeOK' /\ wire'["server"] = wire["server"]
    BY <1>1, SendsType, SendsState DEF TypeInv, TypeOK, CtrlTypeOK
  <1>7. ServerTypeOK'
    BY <1>1, <1>2 DEF TypeInv, TypeOK, ServerTypeOK, TestState, Streams
  <1>8. Counters'
    BY <1>1, <1>6, Constants DEF TypeInv, Counters, clientVars
  <1> QED BY <1>3, <1>4, <1>5, <1>6, <1>7, <1>8 DEF TypeInv, TypeOK

LEMMA SCookieType ==
  ASSUME TypeInv, NEW e, SCookie(e), ~ServerPanics, UNCHANGED clientVars PROVE TypeInv'
  <1>1. /\ OnStream(e) /\ sstate = "TestStart"
        /\ Take("server", e)
        /\ dbuf' = [dbuf EXCEPT ![e.src] = << >>]
        /\ cookie_count' = cookie_count + 1
        /\ \/ /\ cookie_count + 1 = NumStreams
              /\ sstate' = "TestRunning" /\ Sends(<< as_u8("TestRunning") >>)
           \/ /\ cookie_count + 1 # NumStreams
              /\ UNCHANGED << sstate, wire >>
        /\ UNCHANGED << proc, buf, tail, sock, ready, reg, listenVars,
                        dwire, dfin, nospace, nstreams >>
    BY DEF SCookie, LastCookie
  <1>2. LoopTypeOK' /\ ListenTypeOK' /\ ClientTypeOK'
    BY <1>1, TakeSame, ListenSame, ClientSame DEF TypeInv, TypeOK
  <1>3. DataTypeOK'
    <2>1. dbuf' \in [Streams -> Seq(Block)]
      BY <1>1, Emptied, Zenon DEF TypeInv, TypeOK, DataTypeOK, OnStream
    <2> QED BY <1>1, <2>1 DEF TypeInv, TypeOK, DataTypeOK
  <1>4. CtrlTypeOK' /\ wire'["server"] = wire["server"]
    BY <1>1, SendsType, SendsState DEF TypeInv, TypeOK, CtrlTypeOK
  <1>5. cookie_count' \in 0..NumStreams /\ (cookie_count' = NumStreams \/ cookie_count' < NumStreams)
    BY <1>1, Constants DEF TypeInv, TypeOK, ServerTypeOK, Counters
  <1>6. ServerTypeOK'
    BY <1>1, <1>5 DEF TypeInv, TypeOK, ServerTypeOK, TestState
  <1>7. Counters'
    BY <1>1, <1>4, <1>5 DEF TypeInv, Counters, clientVars
  <1> QED BY <1>2, <1>3, <1>4, <1>6, <1>7 DEF TypeInv, TypeOK

LEMMA SReadType ==
  ASSUME TypeInv, NEW e, SRead(e), UNCHANGED clientVars PROVE TypeInv'
  <1>1. CtrlTypeOK' /\ ListenTypeOK' /\ ServerTypeOK' /\ ClientTypeOK'
    BY CtrlSame, ListenSame, ServerSame, ClientSame DEF TypeInv, TypeOK, SRead
  <1>2. LoopTypeOK'
    BY DEF TypeInv, TypeOK, LoopTypeOK, SRead, OnStream, Take, Source
  <1>3. DataTypeOK'
    <2>1. dbuf' \in [Streams -> Seq(Block)]
      BY Emptied, Zenon DEF TypeInv, TypeOK, DataTypeOK, SRead, OnStream
    <2> QED BY <2>1 DEF TypeInv, TypeOK, DataTypeOK, SRead
  <1>4. Counters'
    BY DEF TypeInv, Counters, SRead, ctrlVars, serverVars, clientVars
  <1> QED BY <1>1, <1>2, <1>3, <1>4 DEF TypeInv, TypeOK

LEMMA ServerType == ASSUME TypeInv, Server PROVE TypeInv'
  <1>1. ASSUME NEW e \in batch["server"], SHandle(e), ~ServerPanics PROVE TypeInv'
    BY <1>1, ServerIdleType, RestartType, SStartType, SParamExchangeType, TestOverType,
       SExchangeResultsType, SCreateStreamType, SCookieType, SReadType
       DEF Server, SHandle, SError, SEnd
  <1>2. CASE ServerPanics
    BY <1>2, ServerStopsType DEF ServerPanics, Server
  <1> QED BY <1>1, <1>2, ServerIdleType DEF Server, ServerStep

-----------------------------------------------------------------------------
(* The client's steps. *)

LEMMA ClientExitsType ==
  ASSUME TypeInv, NEW p \in {"Done", "Failed", "Panic", "Killed"}, ClientExits(p), UNCHANGED serverVars
  PROVE  TypeInv'
  <1>1. CtrlTypeOK'
    <2>1. tail' \in [Side -> {"none", "fin", "rst"}]
      BY TailType DEF TypeInv, TypeOK, ClientExits
    <2> QED BY <2>1 DEF TypeInv, TypeOK, CtrlTypeOK, ClientExits
  <1>2. LoopTypeOK'
    BY DEF TypeInv, TypeOK, LoopTypeOK, ClientExits, Process
  <1>3. ListenTypeOK' /\ ServerTypeOK' /\ ClientTypeOK'
    BY ListenSame, ServerSame, ClientSame DEF TypeInv, TypeOK, ClientExits
  <1>4. DataTypeOK'
    BY DEF TypeInv, TypeOK, DataTypeOK, ClientExits
  <1>5. Counters'
    <2>1. wire' = wire /\ buf'["server"] = buf["server"] /\ proc'["client"] = p
      BY DEF TypeInv, TypeOK, LoopTypeOK, CtrlTypeOK, ClientExits
    <2> QED BY <2>1 DEF TypeInv, Counters, ClientExits, clientVars, serverVars
  <1> QED BY <1>1, <1>2, <1>3, <1>4, <1>5 DEF TypeInv, TypeOK

\* Steps that only take an event and drain the control connection.
LEMMA CIgnoreType ==
  ASSUME TypeInv, NEW e, CIgnore(e), UNCHANGED serverVars PROVE TypeInv'
  <1>1. LoopTypeOK' /\ ListenTypeOK' /\ DataTypeOK' /\ ServerTypeOK' /\ ClientTypeOK'
    BY TakeSame, ListenSame, DataSame, ServerSame, ClientSame DEF TypeInv, TypeOK, CIgnore
  <1>2. /\ buf' = buf \/ buf' = [buf EXCEPT !["client"] = << >>]
        /\ UNCHANGED << wire, tail, sock >>
    BY DEF CIgnore
  <1>3. CtrlTypeOK'
    BY <1>2, BufDrained DEF TypeInv, TypeOK, CtrlTypeOK
  <1>4. buf'["server"] = buf["server"]
    BY <1>2 DEF TypeInv, TypeOK, CtrlTypeOK
  <1>5. Counters'
    BY <1>2, <1>4 DEF TypeInv, Counters, CIgnore, serverVars, clientVars
  <1> QED BY <1>1, <1>3, <1>5 DEF TypeInv, TypeOK

LEMMA DrainedType ==
  ASSUME CtrlTypeOK, NEW e, CDrained(e) \/ buf' = buf, UNCHANGED << tail, sock >>,
         wire' = wire \/ \E m \in ClientMsg : CSends(m),
         wire["server"] \in Seq(ClientMsg)
  PROVE  CtrlTypeOK' /\ buf'["server"] = buf["server"] /\ wire'["server"] \in Seq(ClientMsg)
  <1>1. buf' = [buf EXCEPT !["client"] = << >>] \/ buf' = buf
    BY DEF CDrained, CtrlTypeOK
  <1>2. buf' \in [Side -> Seq(Msg)] /\ buf'["server"] = buf["server"]
    BY <1>1, BufDrained DEF CtrlTypeOK
  <1>3. wire' \in [Side -> Seq(Msg)] /\ wire'["server"] \in Seq(ClientMsg)
    <2>1. CASE wire' = wire
      BY <2>1 DEF CtrlTypeOK
    <2>2. ASSUME NEW m \in ClientMsg, CSends(m)
          PROVE  wire' \in [Side -> Seq(Msg)] /\ wire'["server"] \in Seq(ClientMsg)
      <3>1. m \in Msg
        BY Bytes DEF ClientMsg, Msg, StateByte
      <3>2. /\ Append(wire["server"], m) \in Seq(Msg)
            /\ Append(wire["server"], m) \in Seq(ClientMsg)
        BY <3>1 DEF CtrlTypeOK
      <3> QED BY <2>2, <3>2 DEF CtrlTypeOK, CSends
    <2> QED BY <2>1, <2>2
  <1> QED BY <1>2, <1>3 DEF CtrlTypeOK

LEMMA SomeStreams == ASSUME TypeInv PROVE 1..cstreams \subseteq Streams
  BY Constants DEF TypeInv, TypeOK, ClientTypeOK, Streams

\* CONTROL events that move the client's state machine.
LEMMA ClientMoveType ==
  ASSUME TypeInv, NEW e,
         \/ CStart(e) \/ CParamExchange(e) \/ CCreateStreams(e) \/ CTestStart(e)
         \/ CRunning(e) \/ CExchangeResults(e),
         UNCHANGED serverVars
  PROVE  TypeInv'
  <1> USE DEF CStart, CParamExchange, CCreateStreams, CTestStart, CRunning, CExchangeResults
  <1>1. ListenTypeOK' /\ DataTypeOK' /\ ServerTypeOK'
    BY ListenSame, DataSame, ServerSame DEF TypeInv, TypeOK
  <1>2. CtrlTypeOK' /\ buf'["server"] = buf["server"] /\ wire'["server"] \in Seq(ClientMsg)
    <2>1. CDrained(e) \/ buf' = buf
      BY DEF DrainsAny
    <2>2. wire' = wire \/ \E m \in ClientMsg : CSends(m)
      BY DEF ClientMsg
    <2>3. UNCHANGED << tail, sock >>
      OBVIOUS
    <2> QED BY <2>1, <2>2, <2>3, DrainedType DEF TypeInv, TypeOK, Counters
  <1>3. 1..cstreams \subseteq Streams
    BY SomeStreams
  <1>4. LoopTypeOK'
    <2>1. proc' \in [Side -> Process] /\ batch' \in [Side -> SUBSET Event]
      BY DEF TypeInv, TypeOK, LoopTypeOK, Take, Process
    <2>2. reg' \in [Side -> SUBSET Streams]
      BY <1>3 DEF TypeInv, TypeOK, LoopTypeOK, Registers
    <2>3. ready' \in [Side -> SUBSET Source]
      BY <1>3 DEF TypeInv, TypeOK, LoopTypeOK, Source, Registers
    <2> QED BY <2>1, <2>2, <2>3 DEF LoopTypeOK
  <1>5. cstate' \in TestState /\ cidx' \in Streams /\ cstreams' = cstreams /\ clock' = clock
    <2>1. cstate' \in TestState
      BY DEF TypeInv, TypeOK, ClientTypeOK, TestState, clientVars
    <2>2. cidx' = cidx \/ cidx' = 1
      BY DEF clientVars
    <2>3. cstreams' = cstreams /\ clock' = clock
      BY DEF clientVars
    <2> QED BY <2>1, <2>2, <2>3, Constants DEF TypeInv, TypeOK, ClientTypeOK
  <1>6. {running', elapsed', try_later', parsed'} \subseteq BOOLEAN
    <2>1. from_serde(buf["client"]) \in BOOLEAN
      BY Zenon DEF from_serde
    <2>2. /\ elapsed' = elapsed /\ try_later' = try_later
          /\ running' = running \/ running' = TRUE
          /\ parsed' = parsed \/ parsed' = from_serde(buf["client"])
      BY DEF clientVars
    <2> QED BY <2>1, <2>2, Zenon DEF TypeInv, TypeOK, ClientTypeOK
  <1>7. ClientTypeOK'
    <2>1. cstreams' \in 0..NumStreams /\ clock' \in 0..2
      BY <1>5 DEF TypeInv, TypeOK, ClientTypeOK
    <2> QED BY <1>5, <1>6, <2>1, Zenon DEF ClientTypeOK
  <1>8. Counters'
    <2>1. cstate' \in {"Start", "ParamExchange", "CreateStreams"} =>
            cstate \in {"Start", "ParamExchange", "CreateStreams"}
      BY DEF clientVars
    <2>2. /\ proc["client"] = "Loop" /\ proc'["client"] # "Printing"
          /\ proc'["client"] = "Connecting" => cstate' = "CreateStreams"
      BY DEF TypeInv, TypeOK, LoopTypeOK, DrainsAny, COnControl, clientVars
    <2> QED BY <1>2, <1>5, <2>1, <2>2 DEF TypeInv, Counters, serverVars
  <1> QED BY <1>1, <1>2, <1>4, <1>7, <1>8 DEF TypeInv, TypeOK

\* The loops over the streams: connecting and sending the cookies.
LEMMA CConnectType == ASSUME TypeInv, CConnect, UNCHANGED serverVars PROVE TypeInv'
  <1>1. CtrlTypeOK' /\ DataTypeOK' /\ ServerTypeOK'
    BY CtrlSame, DataSame, ServerSame DEF TypeInv, TypeOK, CConnect
  <1>2. LoopTypeOK'
    BY DEF TypeInv, TypeOK, LoopTypeOK, CConnect, Process, Source
  <1>3. ListenTypeOK'
    <2>1. backlog' \in Nat
      BY DEF TypeInv, TypeOK, ListenTypeOK, CConnect
    <2> QED BY <2>1, Zenon DEF TypeInv, TypeOK, ListenTypeOK, CConnect
  <1>4. cstate = "CreateStreams" /\ cstreams < NumStreams
    BY Constants DEF TypeInv, TypeOK, ClientTypeOK, Counters, CConnect
  <1>5. ClientTypeOK'
    <2>1. cstreams' \in 0..NumStreams /\ cstate' \in TestState
      BY <1>4, Constants DEF TypeInv, TypeOK, ClientTypeOK, TestState, CConnect
    <2>2. UNCHANGED << running, cidx, clock, elapsed, try_later, parsed >>
      BY DEF CConnect
    <2> QED BY <2>1, <2>2 DEF TypeInv, TypeOK, ClientTypeOK
  <1>6. Counters'
    <2>1. cstate' = "CreateStreams" /\ proc'["client"] = "Printing"
      BY <1>4 DEF TypeInv, TypeOK, LoopTypeOK, CConnect
    <2> QED BY <2>1 DEF TypeInv, Counters, CConnect, ctrlVars, serverVars
  <1> QED BY <1>1, <1>2, <1>3, <1>5, <1>6 DEF TypeInv, TypeOK

LEMMA CPrintType == ASSUME TypeInv, CPrint, UNCHANGED serverVars PROVE TypeInv'
  <1>1. CASE ClientExits("Panic")
    BY <1>1, ClientExitsType
  <1>2. CASE ~ClientExits("Panic")
    <2>1. /\ UNCHANGED << ctrlVars, ready, reg, batch, listenVars, dataVars,
                          running, cstreams, cidx, clock, elapsed, try_later, parsed >>
          /\ cstate = "CreateStreams" /\ proc["client"] = "Printing"
          /\ IF cstreams = NumStreams
               THEN proc' = [proc EXCEPT !["client"] = "Loop"] /\ cstate' = "TestStart"
               ELSE proc' = [proc EXCEPT !["client"] = "Connecting"] /\ UNCHANGED cstate
      BY <1>2 DEF TypeInv, Counters, CPrint, LastConnect
    <2>2. CtrlTypeOK' /\ ListenTypeOK' /\ DataTypeOK' /\ ServerTypeOK'
      BY <2>1, CtrlSame, ListenSame, DataSame, ServerSame DEF TypeInv, TypeOK
    <2>3. LoopTypeOK' /\ proc'["client"] = IF cstreams = NumStreams THEN "Loop" ELSE "Connecting"
      BY <2>1 DEF TypeInv, TypeOK, LoopTypeOK, Process
    <2>4. ClientTypeOK'
      BY <2>1 DEF TypeInv, TypeOK, ClientTypeOK, TestState
    <2>5. Counters'
      BY <2>1, <2>3 DEF TypeInv, Counters, ctrlVars, serverVars
    <2> QED BY <2>2, <2>3, <2>4, <2>5 DEF TypeInv, TypeOK
  <1> QED BY <1>1, <1>2

LEMMA CCookieType == ASSUME TypeInv, CCookie, UNCHANGED serverVars PROVE TypeInv'
  <1>1. CtrlTypeOK' /\ ListenTypeOK' /\ ServerTypeOK'
    BY CtrlSame, ListenSame, ServerSame DEF TypeInv, TypeOK, CCookie
  <1>2. LoopTypeOK'
    BY DEF TypeInv, TypeOK, LoopTypeOK, CCookie, Process
  <1>3. DataTypeOK'
    <2>1. cidx \in Streams /\ Append(dwire[cidx], COOKIE) \in Seq(Block)
      BY DEF TypeInv, TypeOK, DataTypeOK, ClientTypeOK, Block
    <2> QED BY <2>1 DEF TypeInv, TypeOK, DataTypeOK, CCookie
  <1>4. ClientTypeOK'
    <2>1. cidx' \in Streams
      BY Constants DEF TypeInv, TypeOK, ClientTypeOK, CCookie, Streams
    <2>2. cstate' \in TestState
      BY DEF TypeInv, TypeOK, ClientTypeOK, CCookie, TestState
    <2>3. UNCHANGED << running, cstreams, clock, elapsed, try_later, parsed >>
      BY DEF CCookie
    <2> QED BY <2>1, <2>2, <2>3 DEF TypeInv, TypeOK, ClientTypeOK
  <1>5. Counters'
    BY DEF TypeInv, TypeOK, LoopTypeOK, Counters, CCookie, ctrlVars, serverVars
  <1> QED BY <1>1, <1>2, <1>3, <1>4, <1>5 DEF TypeInv, TypeOK

\* The sending loop.
LEMMA CWriteType == ASSUME TypeInv, CWrite, UNCHANGED serverVars PROVE TypeInv'
  <1>1. PICK late \in {clock = 2, clock > 0} :
          /\ elapsed' = (elapsed \/ late)
          /\ try_later' = (try_later \/ late)
          /\ \/ cidx < NumStreams /\ cidx' = cidx + 1 /\ UNCHANGED proc
             \/ /\ cidx' = 1
                /\ \/ proc' = [proc EXCEPT !["client"] = "Leaving"]
                   \/ proc' = [proc EXCEPT !["client"] = @]
    BY DEF CWrite
  <1>2. /\ UNCHANGED << ctrlVars, ready, reg, batch, listenVars, dbuf, nospace,
                        cstate, running, cstreams, clock, parsed >>
        /\ proc["client"] = "Sending"
    BY DEF CWrite
  <1>3. CtrlTypeOK' /\ ListenTypeOK' /\ ServerTypeOK'
    BY <1>2, CtrlSame, ListenSame, ServerSame DEF TypeInv, TypeOK
  <1>4. LoopTypeOK' /\ proc'["client"] \in {"Sending", "Leaving"}
    BY <1>1, <1>2 DEF TypeInv, TypeOK, LoopTypeOK, Process
  <1>5. DataTypeOK'
    <2>1. cidx \in Streams /\ Append(dwire[cidx], DATA) \in Seq(Block)
      BY DEF TypeInv, TypeOK, DataTypeOK, ClientTypeOK, Block
    <2> QED BY <2>1 DEF TypeInv, TypeOK, DataTypeOK, CWrite
  <1>6. ClientTypeOK'
    <2>1. cidx' \in Streams
      BY <1>1, Constants DEF TypeInv, TypeOK, ClientTypeOK, Streams
    <2>2. elapsed' \in BOOLEAN /\ try_later' \in BOOLEAN
      BY <1>1, Zenon
    <2> QED BY <1>2, <2>1, <2>2 DEF TypeInv, TypeOK, ClientTypeOK
  <1>7. Counters'
    BY <1>2, <1>4 DEF TypeInv, Counters, ctrlVars, serverVars
  <1> QED BY <1>3, <1>4, <1>5, <1>6, <1>7 DEF TypeInv, TypeOK

\* Entering the loop, leaving it, and the clock.
LEMMA SendingType ==
  ASSUME TypeInv, (\E e : CSend(e)) \/ CWriteFails \/ CContinue \/ Tick, UNCHANGED serverVars
  PROVE  TypeInv'
  <1>1. /\ UNCHANGED << ctrlVars, ready, reg, listenVars, dwire, dbuf,
                        cstate, running, cstreams, parsed >>
        /\ \/ \E p \in {"Sending", "Leaving", "Loop"} : proc' = [proc EXCEPT !["client"] = p]
           \/ UNCHANGED proc
        /\ UNCHANGED batch \/ \E e : Take("client", e)
    BY DEF CSend, CWriteFails, CContinue, Tick, netVars, clientVars, dataVars
  <1>2. CtrlTypeOK' /\ ListenTypeOK' /\ ServerTypeOK'
    BY <1>1, CtrlSame, ListenSame, ServerSame DEF TypeInv, TypeOK
  <1>3. LoopTypeOK'
    BY <1>1 DEF TypeInv, TypeOK, LoopTypeOK, Process, Take
  <1>7. \/ UNCHANGED proc
        \/ proc["client"] \in {"Loop", "Sending", "Leaving"} /\ proc'["client"] \in {"Loop", "Sending", "Leaving"}
    BY DEF TypeInv, TypeOK, LoopTypeOK, CSend, COnStream, CWriteFails, CContinue, Tick, netVars
  <1>4. DataTypeOK'
    BY DEF TypeInv, TypeOK, DataTypeOK, ClientTypeOK,
           CSend, CWriteFails, CContinue, Tick, netVars, dataVars
  <1>5. ClientTypeOK'
    <2>1. (cidx' = cidx \/ cidx' = 1) /\ clock' \in 0..2
      BY DEF TypeInv, TypeOK, ClientTypeOK, CSend, CWriteFails, CContinue, Tick, clientVars
    <2>2. \/ elapsed' = (clock > 0) /\ try_later' = FALSE
          \/ elapsed' = elapsed /\ try_later' = try_later
      BY DEF CSend, CWriteFails, CContinue, Tick, clientVars
    <2>3. elapsed' \in BOOLEAN /\ try_later' \in BOOLEAN
      <3>1. (clock > 0) \in BOOLEAN
        BY DEF TypeInv, TypeOK, ClientTypeOK
      <3>2. elapsed \in BOOLEAN /\ try_later \in BOOLEAN
        BY DEF TypeInv, TypeOK, ClientTypeOK
      <3> QED BY <2>2, <3>1, <3>2
    <2> QED BY <1>1, <2>1, <2>3, Constants DEF TypeInv, TypeOK, ClientTypeOK
  <1>6. Counters'
    BY <1>1, <1>7 DEF TypeInv, Counters, ctrlVars, serverVars
  <1> QED BY <1>2, <1>3, <1>4, <1>5, <1>6 DEF TypeInv, TypeOK

\* The end of the test time: TestEnd is sent.
LEMMA CFinishType == ASSUME TypeInv, CFinish, UNCHANGED serverVars PROVE TypeInv'
  <1>1. CASE ClientExits("Panic")
    BY <1>1, ClientExitsType DEF Process
  <1>2. CASE ~ClientExits("Panic")
    <2>1. /\ dfin' = [i \in Streams |-> IF dfin[i] = "open" THEN "fin" ELSE dfin[i]]
          /\ reg' = [reg EXCEPT !["client"] = {}]
          /\ ready' = [ready EXCEPT !["client"] = @ \ Streams]
          /\ proc' = [proc EXCEPT !["client"] = "Loop"]
          /\ cstate' = "ExchangeResults"
          /\ CSends(as_u8("TestEnd"))
          /\ UNCHANGED << buf, tail, sock, batch, listenVars, dwire, dbuf, nospace,
                          running, cstreams, cidx, clock, elapsed, try_later, parsed >>
      BY <1>2 DEF CFinish
    <2>2. ListenTypeOK' /\ ServerTypeOK'
      BY <2>1, ListenSame, ServerSame DEF TypeInv, TypeOK
    <2>3. CtrlTypeOK' /\ buf'["server"] = buf["server"] /\ wire'["server"] \in Seq(ClientMsg)
      BY <2>1, DrainedType DEF TypeInv, TypeOK, Counters, ClientMsg
    <2>4. LoopTypeOK' /\ proc'["client"] = "Loop"
      BY <2>1 DEF TypeInv, TypeOK, LoopTypeOK, Process
    <2>5. DataTypeOK'
      BY <2>1 DEF TypeInv, TypeOK, DataTypeOK
    <2>6. ClientTypeOK'
      BY <2>1 DEF TypeInv, TypeOK, ClientTypeOK, TestState
    <2>7. Counters'
      BY <2>1, <2>3, <2>4 DEF TypeInv, Counters, serverVars
    <2> QED BY <2>2, <2>3, <2>4, <2>5, <2>6, <2>7 DEF TypeInv, TypeOK
  <1> QED BY <1>1, <1>2

LEMMA ClientPollType == ASSUME TypeInv, ClientPoll, UNCHANGED serverVars PROVE TypeInv'
  <1>1. /\ CtrlTypeOK' /\ LoopTypeOK' /\ ListenTypeOK' /\ DataTypeOK'
        /\ ServerTypeOK' /\ ClientTypeOK'
    BY PollType, CtrlSame, ListenSame, DataSame, ServerSame, ClientSame
       DEF TypeInv, TypeOK, ClientPoll, Poll
  <1>2. Counters'
    BY DEF TypeInv, Counters, ClientPoll, Poll, ctrlVars, serverVars, clientVars
  <1> QED BY <1>1, <1>2 DEF TypeInv, TypeOK

LEMMA ClientType == ASSUME TypeInv, Client PROVE TypeInv'
  <1>1. ASSUME NEW e \in batch["client"], CHandle(e) PROVE TypeInv'
    <2>1. CASE CError(e) \/ CRemoteError(e) \/ CEnd(e)
      <3>1. \E p \in {"Done", "Failed", "Panic"} : ClientExits(p)
        BY <2>1 DEF CError, CRemoteError, CEnd
      <3> QED BY <3>1, ClientExitsType DEF Client, Process
    <2>2. CASE ~(CError(e) \/ CRemoteError(e) \/ CEnd(e))
      BY <1>1, <2>2, CIgnoreType, ClientMoveType, SendingType DEF CHandle, Client
    <2> QED BY <2>1, <2>2
  <1>2. CASE CShutdownFails
    BY <1>2, ClientExitsType DEF CShutdownFails, Client, Process
  <1>3. CASE ClientPoll \/ CConnect \/ CPrint \/ CCookie \/ CWrite \/ CWriteFails \/ CContinue \/ CFinish
    BY <1>3, ClientPollType, CConnectType, CPrintType, CCookieType, CWriteType, SendingType, CFinishType
       DEF Client
  <1> QED BY <1>1, <1>2, <1>3 DEF Client, ClientStep

-----------------------------------------------------------------------------
LEMMA NextTypeInv == TypeInv /\ [Next]_vars => TypeInv'
  <1> SUFFICES ASSUME TypeInv, [Next]_vars PROVE TypeInv'
    OBVIOUS
  <1>1. CASE Server
    BY <1>1, ServerType
  <1>2. CASE Client
    BY <1>2, ClientType
  <1>3. CASE Time
    BY <1>3, SendingType DEF Time
  <1>4. CASE \E x \in Side : NetCtrl(x)
    BY <1>4, NetCtrlType
  <1>5. CASE \E i \in Streams : NetData(i)
    BY <1>5, NetDataType
  <1>6. CASE Killed
    BY <1>6, ServerStopsType, ClientExitsType DEF Killed, ServerKilled, ClientKilled, Process
  <1>7. CASE Finished \/ UNCHANGED vars
    <2>1. UNCHANGED vars
      BY <1>7 DEF Finished
    <2>2. /\ CtrlTypeOK' /\ ListenTypeOK' /\ DataTypeOK' /\ ServerTypeOK' /\ ClientTypeOK'
      BY <2>1, CtrlSame, ListenSame, DataSame, ServerSame, ClientSame
         DEF TypeInv, TypeOK, vars, netVars
    <2>3. LoopTypeOK' /\ Counters'
      BY <2>1 DEF TypeInv, TypeOK, LoopTypeOK, Counters,
                  vars, netVars, ctrlVars, serverVars, clientVars
    <2> QED BY <2>2, <2>3 DEF TypeInv, TypeOK
  <1> QED BY <1>1, <1>2, <1>3, <1>4, <1>5, <1>6, <1>7 DEF Next

\* Type correctness of a whole test for any number of streams: no more
\* cookies are counted, no more streams are accepted or connected than -P
\* asks for, and the byte the server takes for a state always is one.
THEOREM TypeCorrect == Spec => []TypeOK
  <1>1. TypeInv => TypeOK
    BY DEF TypeInv
  <1> QED BY <1>1, InitTypeInv, NextTypeInv, PTL DEF Spec

-----------------------------------------------------------------------------
(***************************************************************************)
(* The control protocol never panics, reads every message in the state it  *)
(* is meant for and moves its two machines in turns.                       *)
(*                                                                         *)
(* The inductive invariant is a table of the protocol's phases (Phase):    *)
(* the pair of states, what is unread in each direction, and where the     *)
(* client's loops are.  What moves the pair from one row to the next is an *)
(* event; so the invariant also says which events the edge-triggered loops *)
(* can still hold (ServerEvents, ClientEvents), and which end of the       *)
(* connection has seen the other one close (Connection).                   *)
(***************************************************************************)

\* The server holds its end of the control connection, accepted or not yet.
Up == proc["server"] = "Loop" \/ syn
Alive == ~Gone("client")

\* Nothing, or at most message m, is on its way to x or unread by it.
None(x) == buf[x] = << >> /\ wire[x] = << >>
AtMost(x, m) ==
  \/ None(x)
  \/ buf[x] = << m >> /\ wire[x] = << >>
  \/ buf[x] = << >> /\ wire[x] = << m >>
OnlyResults ==
  /\ buf["client"] \in Seq({RESULTS}) /\ wire["client"] \in Seq({RESULTS})
  /\ Len(buf["client"]) + Len(wire["client"]) <= ResultSegs

\* A side's socket is closed when its process has left; only then has the
\* other side a FIN or RST on the way or has seen one, behind all messages.
Connection ==
  /\ proc["server"] \in {"Accept", "Loop", "Killed"}
  /\ proc["client"] # "Accept"
  /\ proc["client"] = "Panic" => proc["server"] = "Killed" /\ cstate = "CreateStreams"
  /\ proc["server"] # "Loop" => batch["server"] = {} /\ ready["server"] = {} /\ reg["server"] = {}
  /\ syn => proc["server"] = "Accept"
  /\ sock["server"] = "closed" <=> ~Up
  /\ sock["client"] = "closed" <=> ~Alive
  /\ Alive => tail["server"] = "none" /\ sock["server"] \in {"open", "closed"}
  /\ Up => tail["client"] = "none" /\ sock["client"] \in {"open", "closed"}
  /\ ~Alive => buf["client"] = << >>
  /\ ~Up => buf["server"] = << >>
  /\ sock["server"] \in {"eof", "reset"} => wire["server"] = << >>
  /\ sock["client"] \in {"eof", "reset"} => wire["client"] = << >>

\* Where the client's flags and inner loops belong.
ClientPlace ==
  /\ proc["client"] = "Printing" => cstreams > 0
  /\ proc["client"] = "Cookies" => cstate = "TestStart"
  /\ proc["client"] \in {"Sending", "Leaving"} => running /\ cstate = "TestRunning"
  /\ cstate \in {"Start", "ParamExchange", "CreateStreams"} => cidx = 1
  /\ cstate = "TestStart" /\ proc["client"] = "Loop" => cidx = 1
  /\ running => cstate \in {"TestRunning", "ExchangeResults", "End"}
  /\ parsed => cstate = "End"

At(s, c) == sstate = s /\ cstate = c

\* The phases of a test, in their order.
Phase ==
  \/ At("Start", "Start") /\ None("server") /\ None("client")
  \/ At("Start", "ParamExchange") /\ AtMost("server", COOKIE) /\ None("client")
  \/ At("ParamExchange", "ParamExchange") /\ None("server") /\ AtMost("client", 1)
  \/ /\ At("ParamExchange", "CreateStreams") /\ AtMost("server", SETTINGS) /\ None("client")
     /\ proc["client"] \notin {"Connecting", "Printing"} /\ cstreams = 0
  \/ /\ At("CreateStreams", "CreateStreams") /\ None("server") /\ AtMost("client", 2)
     /\ proc["client"] \in {"Connecting", "Printing"} \/ cstreams > 0 => None("client")
  \/ /\ At("CreateStreams", "TestStart") /\ None("server") /\ None("client")
     /\ proc["client"] # "Cookies" /\ cidx = 1
  \/ /\ At("TestStart", "CreateStreams") /\ None("server") /\ AtMost("client", 3)
     /\ cstreams = NumStreams /\ (Alive => proc["client"] = "Printing")
  \/ /\ At("TestStart", "TestStart") /\ None("server") /\ AtMost("client", 3)
     /\ proc["client"] = "Cookies" => None("client")
  \/ At("TestStart", "TestRunning") /\ None("server") /\ None("client") /\ ~running
  \/ /\ At("TestRunning", "TestRunning") /\ None("server") /\ AtMost("client", 4)
     /\ running => None("client")
  \/ At("TestRunning", "ExchangeResults") /\ AtMost("server", 5) /\ None("client")
  \/ At("TestEnd", "ExchangeResults") /\ None("server") /\ None("client")
  \/ At("ExchangeResults", "ExchangeResults") /\ None("server") /\ None("client")
  \/ At("End", "ExchangeResults") /\ None("server") /\ OnlyResults
  \/ At("End", "TestRunning") /\ None("server") /\ ~Alive
  \/ /\ At("End", "End") /\ AtMost("server", 8) /\ OnlyResults
     /\ parsed => None("client")

\* The server has started over: its client is gone or in End.
Restarted ==
  /\ ~Up /\ sstate = "Start"
  /\ ~Alive \/ (cstate = "End" /\ OnlyResults /\ (parsed => None("client")))

Started == (Phase \/ Restarted) /\ (proc["server"] = "Accept" /\ ~syn => Restarted)

\* A reset is behind an unread message: none can hit a client in its test, or
\* a server that is about to announce the next state.
Resets ==
  /\ tail["client"] = "rst" \/ sock["client"] = "reset" =>
       sstate \in {"Start", "ParamExchange"} \/ cstate \in {"ExchangeResults", "End"}
  /\ At("CreateStreams", "CreateStreams") /\ cstreams > 0
       => tail["server"] # "rst" /\ sock["server"] # "reset"
  /\ At("CreateStreams", "TestStart") \/ At("TestStart", "TestRunning") =>
       tail["server"] # "rst" /\ sock["server"] # "reset"

\* At most one event per source in a batch.
OneEach(x) == \A e, f \in batch[x] : e.src = f.src => e = f

\* The control events of the server's loop.
ServerEvents ==
  proc["server"] = "Loop" =>
    /\ OneEach("server")
    /\ \A e \in batch["server"] : e.src = CONTROL /\ e.readable => CtrlReadable("server")
    /\ (WAKER \in ready["server"] \/ \E e \in batch["server"] : e.src = WAKER) =>
         sstate \in {"TestEnd", "ExchangeResults", "End"}
    /\ Alive =>
         /\ CONTROL \in ready["server"] /\ sstate # "Start" => buf["server"] # << >>
         /\ \A e \in batch["server"] :
              /\ e.src = CONTROL => e.readable \/ sstate = "Start"
              /\ e.src = CONTROL /\ e.readable => CONTROL \notin ready["server"]
              /\ e.src = WAKER => WAKER \notin ready["server"] /\ sstate # "End"
         /\ WAKER \in ready["server"] => sstate # "End"

\* The control events of the client's loop.
ClientEvents ==
  Alive =>
    /\ OneEach("client")
    /\ (WAKER \in ready["client"] \/ \E e \in batch["client"] : e.src = WAKER) => cstate = "End"
    /\ \A e \in batch["client"] : e.src = CONTROL /\ e.readable /\ cstate # "End" => CtrlReadable("client")
    /\ cstate \notin {"Start", "End"} \/ (cstate = "Start" /\ batch["client"] # {}) =>
         (CONTROL \in ready["client"] => CtrlReadable("client"))
    /\ cstate \notin {"Start", "End"} => \A e \in batch["client"] : e.src = CONTROL => e.readable
    /\ cstate \notin {"ExchangeResults", "End"} =>
         \A e \in batch["client"] :
           e.src = CONTROL /\ e.readable /\ CONTROL \in ready["client"] => sock["client"] # "open"

\* The streams: accepted, waiting in the queue and registered.
StreamCount ==
  /\ syn => cstreams = 0 /\ backlog = 0 /\ nstreams = 0 /\ sstate = "Start"
  /\ proc["server"] = "Loop" =>
       /\ nstreams + backlog = cstreams
       /\ sstate \in {"Start", "ParamExchange"} => nstreams = 0
       /\ sstate = "CreateStreams" => nstreams < NumStreams
       /\ sstate \in {"TestStart", "TestRunning", "TestEnd"} => nstreams = NumStreams
       /\ sstate \notin {"ExchangeResults", "End"} => reg["server"] = 1..nstreams
       /\ sstate \in {"Start", "ParamExchange", "CreateStreams"} =>
            \A e \in batch["server"] : e.src = TCP_LISTENER => backlog > 0
  /\ cstate \in {"Start", "ParamExchange"} => cstreams = 0
  /\ cstate \notin {"Start", "ParamExchange", "CreateStreams"} => cstreams = NumStreams

ClientStreams ==
  Alive =>
    /\ cstate \notin {"ExchangeResults", "End"} => \A i \in Streams : dfin[i] \notin {"fin", "eof"}
    /\ cstate \in {"Start", "ParamExchange", "CreateStreams"} /\ proc["server"] # "Killed" =>
         \A i \in Streams : dfin[i] # "rst"
    /\ running /\ cstate = "TestRunning" => reg["client"] = Streams
    /\ ~running => /\ reg["client"] = {} /\ ready["client"] \cap Streams = {}
                   /\ \A e \in batch["client"] : e.src \notin Streams

-----------------------------------------------------------------------------
(* The data connections. *)

Empty(i) == dbuf[i] = << >> /\ dwire[i] = << >>
HasCookie(i) ==
  \/ dbuf[i] = << COOKIE >> /\ dwire[i] = << >>
  \/ dbuf[i] = << >> /\ dwire[i] = << COOKIE >>
OnlyData(i) == dbuf[i] \in Seq({DATA}) /\ dwire[i] \in Seq({DATA})

\* The client has sent the cookie of stream i.
Sent(i) == cstate \in {"TestRunning", "ExchangeResults", "End"} \/ (cstate = "TestStart" /\ i < cidx)
\* The server has counted it.
Drained == {i \in Streams : Sent(i) /\ Empty(i)}

Cookies ==
  /\ proc["server"] # "Loop" => \A i \in Streams : Empty(i)
  /\ proc["server"] = "Loop" =>
       /\ \A i \in Streams : ~Sent(i) => Empty(i)
       /\ sstate \in {"Start", "ParamExchange", "CreateStreams"} => \A i \in Streams : Empty(i)
       /\ sstate = "TestStart" =>
            /\ \A i \in Streams : Empty(i) \/ HasCookie(i)
            /\ cookie_count = Cardinality(Drained)
            /\ \A e \in batch["server"] :
                 e.src \in Streams => dbuf[e.src] # << >> \/ dfin[e.src] = "eof"
       /\ sstate \notin {"Start", "ParamExchange", "CreateStreams", "TestStart"} =>
            \A i \in Streams : OnlyData(i)
       /\ sstate \in {"Start", "ParamExchange", "CreateStreams"} =>
            \A e \in batch["server"] : e.src \in Streams => dfin[e.src] = "eof"

Protocol ==
  /\ Connection /\ ClientPlace /\ Started /\ Resets /\ ServerEvents /\ ClientEvents
  /\ StreamCount /\ ClientStreams /\ Cookies

-----------------------------------------------------------------------------
\* A message alone in a sequence.
LEMMA Single ==
  \A m : /\ << m >> # << >> /\ Head(<< m >>) = m /\ Tail(<< m >>) = << >>
         /\ Append(<< >>, m) = << m >> /\ << >> \o << m >> = << m >>
  OBVIOUS

LEMMA SingleLeft == \A m : << m >> \o << >> = << m >>
  <1> TAKE m
  <1>1. << m >> \in Seq({m}) /\ << >> \in Seq({m})
    OBVIOUS
  <1> QED BY <1>1

LEMMA NoMessage == << >> \o << >> = << >> /\ Len(<< >>) = 0 /\ DOMAIN << >> = {}
  OBVIOUS

\* The tokens are apart.
LEMMA Tokens ==
  /\ CONTROL \notin Streams /\ TCP_LISTENER \notin Streams /\ WAKER \notin Streams
  /\ CONTROL # WAKER /\ CONTROL # TCP_LISTENER /\ WAKER # TCP_LISTENER
  BY NetAssumption DEF Streams, CONTROL, TCP_LISTENER, WAKER

LEMMA InitProtocol == Init => Protocol
  <1> SUFFICES ASSUME Init PROVE Protocol
    OBVIOUS
  <1> USE DEF Init, ServerInit, ClientInit, Up, Alive, Gone
  <1>1. Connection /\ ClientPlace /\ Resets
    BY DEF Connection, ClientPlace, Resets, At
  <1>2. Started
    BY DEF Started, Phase, At, None
  <1>3. ServerEvents /\ ClientEvents
    BY Tokens DEF ServerEvents, ClientEvents, OneEach
  <1>4. StreamCount
    BY Constants DEF StreamCount
  <1>5. ClientStreams
    BY Tokens DEF ClientStreams
  <1>6. Cookies
    BY DEF Cookies, Empty
  <1> QED BY <1>1, <1>2, <1>3, <1>4, <1>5, <1>6 DEF Protocol

-----------------------------------------------------------------------------
\* Steps that only take events out of a batch, and no step at all.
LEMMA TakenProtocol ==
  ASSUME TypeInv, Protocol, \A x \in Side : batch'[x] \subseteq batch[x],
         UNCHANGED << proc, ctrlVars, ready, reg, listenVars, dataVars, serverVars,
                      cstate, running, cstreams, cidx, parsed >>
  PROVE  Protocol'
  <1> USE DEF Protocol, ctrlVars, listenVars, dataVars, serverVars, Up, Alive, Gone
  <1>1. Connection' /\ ClientPlace' /\ Resets'
    BY DEF Connection, ClientPlace, Resets, At
  <1>2. Started'
    BY DEF Started, Phase, Restarted, At, None, AtMost, OnlyResults
  <1>3. ServerEvents'
    BY DEF ServerEvents, OneEach, CtrlReadable
  <1>4. ClientEvents'
    BY DEF ClientEvents, OneEach, CtrlReadable
  <1>5. StreamCount'
    BY DEF StreamCount
  <1>6. ClientStreams'
    BY DEF ClientStreams
  <1>7. Cookies'
    BY DEF Cookies, Empty, HasCookie, OnlyData, Sent, Drained
  <1> QED BY <1>1, <1>2, <1>3, <1>4, <1>5, <1>6, <1>7

\* What stays of the invariant when a step leaves one side's variables alone.
LEMMA ClientKept ==
  ASSUME TypeInv, Protocol, UNCHANGED << clientVars, dfin >>,
         proc'["client"] = proc["client"], batch'["client"] = batch["client"],
         ready'["client"] = ready["client"], reg'["client"] = reg["client"],
         sock'["client"] = sock["client"], buf'["client"] = buf["client"],
         proc["server"] = "Killed" => proc'["server"] = "Killed"
  PROVE  ClientPlace' /\ ClientEvents' /\ ClientStreams'
  <1> USE DEF Protocol, clientVars, Alive, Gone
  <1>1. ClientPlace'
    BY DEF ClientPlace
  <1>2. ClientEvents'
    BY DEF ClientEvents, OneEach, CtrlReadable
  <1>3. ClientStreams'
    BY DEF ClientStreams
  <1> QED BY <1>1, <1>2, <1>3

LEMMA ServerKept ==
  ASSUME TypeInv, Protocol, UNCHANGED serverVars, Alive' => Alive,
         proc'["server"] = proc["server"], batch'["server"] = batch["server"],
         ready'["server"] = ready["server"], sock'["server"] = sock["server"],
         buf'["server"] = buf["server"]
  PROVE  ServerEvents'
  BY DEF Protocol, serverVars, ServerEvents, OneEach, CtrlReadable

LEMMA CookiesKept ==
  ASSUME TypeInv, Protocol, UNCHANGED << sstate, cookie_count, dwire, dbuf >>,
         proc'["server"] = proc["server"], batch'["server"] = batch["server"],
         \A i \in Streams : (Sent(i)' <=> Sent(i)) /\ (dfin[i] = "eof" => dfin'[i] = "eof")
  PROVE  Cookies'
  <1>1. Drained' = Drained
    BY DEF Drained, Empty
  <1> QED BY <1>1 DEF Protocol, Cookies, Empty, HasCookie, OnlyData

-----------------------------------------------------------------------------
(* The server's steps. *)

\* The server handles events only in its loop, and holds its socket there.
LEMMA InLoop ==
  ASSUME TypeInv, Protocol, batch["server"] # {}
  PROVE  /\ proc["server"] = "Loop" /\ ~syn /\ Up
         /\ sock["server"] \in {"open", "eof", "reset"} /\ (Alive => sock["server"] = "open")
         /\ tail["client"] = "none" /\ Phase
  BY DEF TypeInv, TypeOK, CtrlTypeOK, Protocol, Connection, Started, Restarted, Up

\* A readable control event is one of the socket and has something behind it.
LEMMA Readable1 ==
  ASSUME TypeInv, Protocol, NEW e, OnControl(e), e.readable, ~DrainFails("server"),
         sstate \in {"Start", "ParamExchange", "TestRunning"}
  PROVE  e.src = CONTROL /\ sock["server"] = "open" /\ buf["server"] # << >>
  BY InLoop DEF Protocol, OnControl, ServerEvents, DrainFails, CtrlReadable

LEMMA SAcceptProtocol ==
  ASSUME TypeInv, Protocol, SAccept, UNCHANGED clientVars PROVE Protocol'
  <1> USE DEF TypeInv, TypeOK, CtrlTypeOK, LoopTypeOK, Protocol, SAccept, accept
  <1>1. syn /\ Up /\ Phase
    BY DEF Started, Restarted, Up
  <1>2. Connection' /\ Resets'
    BY <1>1 DEF Connection, Resets, At, Up, Alive, Gone, ctrlVars, serverVars, clientVars
  <1>3. ClientPlace' /\ ClientEvents' /\ ClientStreams'
    BY ClientKept DEF ctrlVars, dataVars
  <1>4. Started'
    BY <1>1 DEF Started, Phase, Up, Alive, Gone, At, None, AtMost, OnlyResults, ctrlVars, serverVars, clientVars
  <1>5. ServerEvents'
    BY <1>1, Tokens DEF ServerEvents, StreamCount, Connection, OneEach, serverVars
  <1>6. StreamCount'
    BY <1>1 DEF StreamCount, Connection, serverVars, clientVars
  <1>7. Cookies'
    BY <1>1 DEF Cookies, StreamCount, Connection, Empty, serverVars, dataVars
  <1> QED BY <1>2, <1>3, <1>4, <1>5, <1>6, <1>7

\* Polling: the events are those of the ready list that are still there.
LEMMA PollEvents ==
  ASSUME TypeInv, NEW x \in Side, Poll(x)
  PROVE  /\ proc[x] = "Loop" /\ batch[x] = {} /\ ready'[x] = {}
         /\ OneEach(x)'
         /\ \A e \in batch'[x] : /\ e.src \in ready[x] /\ Reported(x, e.src)
                                 /\ e.readable <=> Readable(x, e.src)
         /\ \A y \in Side \ {x} : batch'[y] = batch[y] /\ ready'[y] = ready[y]
  <1> DEFINE Seen == {[src |-> s, readable |-> Readable(x, s)] : s \in {r \in ready[x] : Reported(x, r)}}
  <1>1. /\ batch' = [batch EXCEPT ![x] = Seen] /\ ready' = [ready EXCEPT ![x] = {}]
        /\ proc[x] = "Loop" /\ batch[x] = {}
    BY DEF Poll
  <1>2. \A e \in Seen : /\ e.src \in ready[x] /\ Reported(x, e.src)
                        /\ e.readable <=> Readable(x, e.src)
    OBVIOUS
  <1>3. \A e, f \in Seen : e.src = f.src => e = f
    OBVIOUS
  <1> HIDE DEF Seen
  <1>4. batch'[x] = Seen /\ ready'[x] = {} /\ \A y \in Side \ {x} : batch'[y] = batch[y] /\ ready'[y] = ready[y]
    BY <1>1 DEF TypeInv, TypeOK, LoopTypeOK
  <1> QED BY <1>1, <1>2, <1>3, <1>4 DEF OneEach

LEMMA ServerPollProtocol ==
  ASSUME TypeInv, Protocol, ServerPoll, UNCHANGED clientVars PROVE Protocol'
  <1> USE DEF TypeInv, TypeOK, CtrlTypeOK, LoopTypeOK, Protocol, ServerPoll
  <1>1. Poll("server") /\ UNCHANGED << proc, ctrlVars, reg, listenVars, dataVars, serverVars >>
    BY DEF Poll
  <1>2. /\ proc["server"] = "Loop" /\ batch["server"] = {} /\ ready'["server"] = {}
        /\ OneEach("server")'
        /\ \A e \in batch'["server"] : /\ e.src \in ready["server"] /\ Reported("server", e.src)
                                       /\ e.readable <=> Readable("server", e.src)
        /\ batch'["client"] = batch["client"] /\ ready'["client"] = ready["client"]
    BY <1>1, PollEvents
  <1>3. Connection' /\ Resets'
    BY <1>1, <1>2 DEF Connection, Resets, At, Up, Alive, Gone, ctrlVars, listenVars, serverVars, clientVars
  <1>4. ClientPlace' /\ ClientEvents' /\ ClientStreams'
    BY <1>1, <1>2, ClientKept DEF ctrlVars, dataVars
  <1>5. Started'
    BY <1>1 DEF Started, Phase, Restarted, Up, Alive, Gone, At, None, AtMost, OnlyResults,
                ctrlVars, listenVars, serverVars, clientVars
  <1>6. ServerEvents'
    BY <1>1, <1>2, Tokens DEF ServerEvents, Connection, Readable, CtrlReadable, Alive, Gone, ctrlVars, serverVars
  <1>7. StreamCount'
    <2>1. \A e \in batch'["server"] : e.src = TCP_LISTENER => backlog > 0
      BY <1>2, Tokens DEF Reported
    <2> QED BY <1>1, <1>2, <2>1 DEF StreamCount, serverVars, listenVars, clientVars
  <1>8. Cookies'
    <2>1. \A e \in batch'["server"] : e.src \in Streams => dbuf[e.src] # << >> \/ dfin[e.src] = "eof"
      BY <1>2, Tokens DEF Reported
    <2> QED BY <1>1, <1>2, <2>1 DEF Cookies, Empty, HasCookie, OnlyData, Sent, Drained, serverVars, dataVars, clientVars
  <1> QED BY <1>3, <1>4, <1>5, <1>6, <1>7, <1>8

LEMMA SStartProtocol ==
  ASSUME TypeInv, Protocol, NEW e, SStart(e), UNCHANGED clientVars PROVE Protocol'
  <1> USE DEF TypeInv, TypeOK, CtrlTypeOK, LoopTypeOK, Protocol, SStart, Take
  <1>1. proc["server"] = "Loop" /\ ~syn /\ Phase /\ tail["client"] = "none"
    BY InLoop DEF OnControl
  <1>2. e.src = CONTROL /\ sock["server"] = "open" /\ buf["server"] # << >>
    BY Readable1
  <1>3. cstate = "ParamExchange" /\ None("client") /\ wire["server"] = << >>
    BY <1>1, <1>2 DEF Phase, At, None, AtMost
  <1>4. Connection' /\ Resets'
    BY <1>1, <1>2, <1>3 DEF Sends, Connection, Resets, At, Up, Alive, Gone, clientVars, listenVars
  <1>5. ClientPlace' /\ ClientEvents' /\ ClientStreams'
    BY ClientKept DEF dataVars
  <1>6. Started'
    <2>1. Phase'
      BY <1>1, <1>2, <1>3, Single, Bytes DEF Sends, Phase, At, None, AtMost, clientVars
    <2> QED BY <1>1, <2>1 DEF Started
  <1>7. ServerEvents'
    BY <1>1, <1>2, <1>3 DEF ServerEvents, OneEach, CtrlReadable, OnControl, Alive, Gone
  <1>8. StreamCount'
    BY <1>1 DEF StreamCount, Connection, clientVars, listenVars
  <1>9. Cookies'
    BY DEF Cookies, Empty, clientVars, dataVars, Sent
  <1> QED BY <1>4, <1>5, <1>6, <1>7, <1>8, <1>9

LEMMA SParamExchangeProtocol ==
  ASSUME TypeInv, Protocol, NEW e, SParamExchange(e), UNCHANGED clientVars PROVE Protocol'
  <1> USE DEF TypeInv, TypeOK, CtrlTypeOK, LoopTypeOK, Protocol, SParamExchange, Take
  <1>1. proc["server"] = "Loop" /\ ~syn /\ Phase /\ tail["client"] = "none"
    BY InLoop DEF OnControl
  <1>2. e.src = CONTROL /\ sock["server"] = "open" /\ buf["server"] # << >>
    BY Readable1
  <1>3. /\ cstate = "CreateStreams" /\ None("client") /\ buf["server"] = << SETTINGS >>
        /\ wire["server"] = << >> /\ proc["client"] \notin {"Connecting", "Printing"} /\ cstreams = 0
    BY <1>1, <1>2 DEF Phase, At, None, AtMost
  <1>4. nstreams = 0 /\ backlog = 0
    BY <1>1, <1>3 DEF StreamCount, ListenTypeOK, ServerTypeOK
  <1>5. /\ sstate = "ParamExchange" /\ Take("server", e) /\ buf' = [buf EXCEPT !["server"] = << >>]
        /\ ready'["server"] = ready["server"] /\ ready'["client"] = ready["client"]
        /\ sstate' = "CreateStreams" /\ Sends(<< as_u8("CreateStreams") >>)
        /\ UNCHANGED << proc, tail, sock, reg, syn, backlog, dataVars, nstreams, cookie_count >>
    BY <1>3, <1>4
  <1> HIDE DEF SParamExchange
  <1>6. Connection' /\ Resets'
    BY <1>1, <1>2, <1>3, <1>5 DEF Sends, Connection, Resets, At, Up, Alive, Gone, clientVars
  <1>7. ClientPlace' /\ ClientEvents' /\ ClientStreams'
    BY <1>5, ClientKept DEF dataVars
  <1>8. Started'
    <2>1. Phase'
      BY <1>1, <1>2, <1>3, <1>5, Single, Bytes DEF Sends, Phase, At, None, AtMost, clientVars
    <2> QED BY <1>1, <1>5, <2>1 DEF Started
  <1>9. ServerEvents'
    BY <1>1, <1>2, <1>3, <1>5 DEF SParamExchange, ServerEvents, OneEach, CtrlReadable, OnControl, Alive, Gone
  <1>10. StreamCount'
    BY <1>1, <1>3, <1>4, <1>5, Constants DEF StreamCount, Connection, clientVars
  <1>11. Cookies'
    BY <1>1, <1>5 DEF SParamExchange, Cookies, Empty, clientVars, dataVars, Sent
  <1> QED BY <1>6, <1>7, <1>8, <1>9, <1>10, <1>11

LEMMA STestRunningProtocol ==
  ASSUME TypeInv, Protocol, NEW e, STestRunning(e), UNCHANGED clientVars PROVE Protocol'
  <1> USE DEF TypeInv, TypeOK, CtrlTypeOK, LoopTypeOK, Protocol, STestRunning, Take, Wake
  <1>1. proc["server"] = "Loop" /\ ~syn /\ Phase /\ tail["client"] = "none"
    BY InLoop DEF OnControl
  <1>2. e.src = CONTROL /\ sock["server"] = "open" /\ buf["server"] # << >>
    BY Readable1
  <1>3. /\ cstate = "ExchangeResults" /\ None("client") /\ buf["server"] = << 5 >>
        /\ wire["server"] = << >>
    BY <1>1, <1>2 DEF Phase, At, None, AtMost
  <1>4. sstate' = "TestEnd"
    BY <1>3 DEF Requested, StateMessage, from_i8, StateByte
  <1>5. Connection' /\ Resets'
    BY <1>1, <1>2, <1>3, <1>4 DEF Connection, Resets, At, Up, Alive, Gone, clientVars, listenVars
  <1>6. ClientPlace' /\ ClientEvents' /\ ClientStreams'
    BY ClientKept DEF dataVars
  <1>7. Started'
    <2>1. Phase'
      BY <1>1, <1>3, <1>4 DEF Phase, At, None, AtMost, clientVars
    <2> QED BY <1>1, <2>1 DEF Started
  <1>8. ServerEvents'
    BY <1>1, <1>2, <1>3, <1>4, Tokens DEF ServerEvents, OneEach, CtrlReadable, OnControl, Alive, Gone
  <1>9. StreamCount'
    BY <1>1, <1>4 DEF StreamCount, Connection, clientVars, listenVars
  <1>10. Cookies'
    BY <1>1, <1>4 DEF Cookies, Empty, OnlyData, clientVars, dataVars, Sent
  <1> QED BY <1>5, <1>6, <1>7, <1>8, <1>9, <1>10

LEMMA STestEndProtocol ==
  ASSUME TypeInv, Protocol, NEW e, STestEnd(e), UNCHANGED clientVars PROVE Protocol'
  <1> USE DEF TypeInv, TypeOK, CtrlTypeOK, LoopTypeOK, Protocol, Take, Wake, WithoutStreams
  <1>1. proc["server"] = "Loop" /\ ~syn /\ Phase /\ tail["client"] = "none" /\ sstate = "TestEnd"
    BY InLoop DEF STestEnd, OnControl
  <1>2. cstate = "ExchangeResults" /\ None("client") /\ None("server")
    BY <1>1 DEF Phase, At
  <1>3. /\ Take("server", e) /\ EndServer /\ sstate' = "ExchangeResults"
        /\ ready' = [ready EXCEPT !["server"] = Wake(WithoutStreams(@))]
        /\ UNCHANGED << proc, ctrlVars, listenVars, dataVars, nstreams, cookie_count >>
    BY <1>1 DEF STestEnd, CanEnd, StreamCount
  <1>4. Connection' /\ Resets'
    BY <1>1, <1>2, <1>3 DEF EndServer, Connection, Resets, At, Up, Alive, Gone, clientVars, ctrlVars, listenVars
  <1>5. ClientPlace' /\ ClientEvents' /\ ClientStreams'
    BY <1>3, ClientKept DEF EndServer, ctrlVars, dataVars
  <1>6. Started'
    <2>1. Phase'
      BY <1>2, <1>3 DEF Phase, At, None, clientVars, ctrlVars
    <2> QED BY <1>1, <1>3, <2>1 DEF Started, listenVars
  <1>7. ServerEvents'
    BY <1>1, <1>2, <1>3, Tokens DEF STestEnd, Connection, Up, ServerEvents, OneEach, CtrlReadable, OnControl, None, Alive, Gone, ctrlVars
  <1>8. StreamCount'
    BY <1>1, <1>3 DEF StreamCount, Connection, clientVars, listenVars
  <1>9. Cookies'
    BY <1>1, <1>3 DEF Cookies, Empty, OnlyData, clientVars, dataVars, Sent
  <1> QED BY <1>4, <1>5, <1>6, <1>7, <1>8, <1>9

\* TestRunning's arm for a failed drain or an unknown message is taken only
\* when the client is gone.
LEMMA ShutdownIsReal ==
  ASSUME TypeInv, Protocol, NEW e, SClientShutdown(e)
  PROVE  DrainFails("server") /\ ~Alive /\ sock["server"] # "open" /\ wire["server"] = << >>
  <1> USE DEF Protocol
  <1>1. Phase /\ sstate = "TestRunning"
    BY InLoop DEF SClientShutdown, OnControl
  <1>2. DrainFails("server")
    <2> SUFFICES ASSUME ~DrainFails("server") PROVE FALSE
      OBVIOUS
    <2>1. buf["server"] # << >>
      BY Readable1 DEF SClientShutdown
    <2>2. buf["server"] = << 5 >>
      BY <1>1, <2>1 DEF Phase, At, None, AtMost
    <2> QED BY <2>2 DEF SClientShutdown, StateMessage, StateByte
  <1>3. sock["server"] \in {"eof", "reset"} /\ ~Alive
    BY <1>2, InLoop DEF DrainFails, SClientShutdown, OnControl
  <1> QED BY <1>2, <1>3 DEF Connection

LEMMA SClientShutdownProtocol ==
  ASSUME TypeInv, Protocol, NEW e, SClientShutdown(e), UNCHANGED clientVars PROVE Protocol'
  <1> USE DEF TypeInv, TypeOK, CtrlTypeOK, LoopTypeOK, Protocol, Take, Wake, WithoutStreams
  <1>1. proc["server"] = "Loop" /\ ~syn /\ Phase /\ tail["client"] = "none" /\ sstate = "TestRunning"
    BY InLoop DEF SClientShutdown, OnControl
  <1>2. DrainFails("server")
    BY ShutdownIsReal
  <1>3. ~Alive /\ sock["server"] # "open" /\ wire["server"] = << >>
    BY ShutdownIsReal
  <1>4. /\ Take("server", e) /\ EndServer /\ sstate' = "End" /\ buf' = [buf EXCEPT !["server"] = << >>]
        /\ ready' = [ready EXCEPT !["server"] = Wake(WithoutStreams(@))]
        /\ UNCHANGED << proc, wire, tail, sock, listenVars, dataVars, nstreams, cookie_count >>
    BY <1>1, <1>2 DEF SClientShutdown, CanEnd, StreamCount, Requested
  <1>5. Connection' /\ Resets'
    BY <1>1, <1>3, <1>4 DEF EndServer, Connection, Resets, At, Up, Alive, Gone, clientVars, listenVars
  <1>6. ClientPlace' /\ ClientEvents' /\ ClientStreams'
    BY <1>4, ClientKept DEF EndServer, dataVars
  <1>7. Started'
    <2>1. cstate = "TestRunning" \/ (cstate = "ExchangeResults" /\ None("client"))
      BY <1>1 DEF Phase, At
    <2>2. cstate = "ExchangeResults" => OnlyResults'
      BY <1>4, <2>1, NetAssumption DEF OnlyResults, None
    <2>3. Phase'
      BY <1>3, <1>4, <2>1, <2>2 DEF Phase, At, None, clientVars, Alive, Gone
    <2> QED BY <1>1, <1>4, <2>3 DEF Started, listenVars
  <1>8. ServerEvents'
    BY <1>1, <1>3, <1>4, Tokens DEF ServerEvents, OneEach, CtrlReadable, Alive, Gone
  <1>9. StreamCount'
    BY <1>1, <1>4 DEF StreamCount, Connection, clientVars, listenVars
  <1>10. Cookies'
    BY <1>1, <1>4 DEF Cookies, Empty, OnlyData, clientVars, dataVars, Sent
  <1> QED BY <1>5, <1>6, <1>7, <1>8, <1>9, <1>10

LEMMA SExchangeResultsProtocol ==
  ASSUME TypeInv, Protocol, NEW e, SExchangeResults(e), UNCHANGED clientVars PROVE Protocol'
  <1> USE DEF TypeInv, TypeOK, CtrlTypeOK, LoopTypeOK, Protocol, SExchangeResults, Take
  <1>1. proc["server"] = "Loop" /\ ~syn /\ Phase /\ tail["client"] = "none"
    BY InLoop DEF OnControl
  <1>2. cstate = "ExchangeResults" /\ None("client") /\ None("server")
    BY <1>1 DEF Phase, At
  <1>3. OnlyResults'
    <2> DEFINE R == [k \in 1..ResultSegs |-> RESULTS]
    <2>1. R \in Seq({RESULTS}) /\ Len(R) = ResultSegs
      BY NetAssumption
    <2>2. wire'["client"] = << >> \o R /\ buf'["client"] = << >>
      BY <1>2 DEF Sends, None
    <2> HIDE DEF R
    <2>3. << >> \o R = R
      BY <2>1
    <2> QED BY <2>1, <2>2, <2>3 DEF OnlyResults
  <1>4. wire'["server"] = << >>
    BY <1>2 DEF Sends, None
  <1>5. Connection' /\ Resets'
    BY <1>1, <1>2, <1>4 DEF None, Connection, Resets, At, Up, Alive, Gone, clientVars, listenVars
  <1>6. ClientPlace' /\ ClientEvents' /\ ClientStreams'
    BY ClientKept DEF dataVars
  <1>7. Started'
    <2>1. Phase'
      BY <1>2, <1>3, <1>4 DEF Phase, At, None, clientVars
    <2> QED BY <1>1, <2>1 DEF Started, listenVars
  <1>8. ServerEvents'
    BY <1>1, <1>2, Tokens DEF Connection, Up, ServerEvents, OneEach, CtrlReadable, OnControl, None, Alive, Gone
  <1>9. StreamCount'
    BY <1>1 DEF StreamCount, Connection, clientVars, listenVars
  <1>10. Cookies'
    BY <1>1 DEF Cookies, Empty, OnlyData, clientVars, dataVars, Sent
  <1> QED BY <1>5, <1>6, <1>7, <1>8, <1>9, <1>10

LEMMA SReadProtocol ==
  ASSUME TypeInv, Protocol, NEW e, SRead(e), UNCHANGED clientVars PROVE Protocol'
  <1> USE DEF TypeInv, TypeOK, CtrlTypeOK, LoopTypeOK, DataTypeOK, Protocol, Take
  <1>1. proc["server"] = "Loop" /\ ~syn /\ Phase
    BY InLoop DEF SRead, OnStream
  <1>2. /\ e.src \in Streams /\ sstate = "TestRunning" /\ Take("server", e)
        /\ dbuf' = [dbuf EXCEPT ![e.src] = << >>]
        /\ ready'["server"] = ready["server"]
        /\ ready'["client"] = ready["client"] \/ (e.src \in reg["client"] /\ ready'["client"] = ready["client"] \cup {e.src})
        /\ UNCHANGED << proc, ctrlVars, reg, listenVars, dwire, dfin, serverVars >>
    BY DEF SRead, OnStream
  <1>3. Connection' /\ Resets' /\ ClientPlace'
    BY <1>2 DEF Connection, Resets, ClientPlace, At, Up, Alive, Gone, ctrlVars, listenVars, serverVars, clientVars
  <1>4. Started'
    BY <1>2 DEF Started, Phase, Restarted, Up, Alive, Gone, At, None, AtMost, OnlyResults,
                ctrlVars, listenVars, serverVars, clientVars
  <1>5. ServerEvents'
    BY <1>1, <1>2 DEF ServerEvents, OneEach, CtrlReadable, Alive, Gone, ctrlVars, serverVars
  <1>6. ClientEvents' /\ ClientStreams'
    BY <1>2, Tokens DEF ClientEvents, ClientStreams, OneEach, CtrlReadable, Alive, Gone, ctrlVars, clientVars
  <1>7. StreamCount'
    BY <1>1, <1>2 DEF StreamCount, clientVars, listenVars, serverVars
  <1>8. Cookies'
    <2>1. << >> \in Seq({DATA})
      OBVIOUS
    <2> QED BY <1>1, <1>2, <2>1 DEF Cookies, Empty, OnlyData, Sent, clientVars, serverVars
  <1> QED BY <1>3, <1>4, <1>5, <1>6, <1>7, <1>8

LEMMA SCreateStreamProtocol ==
  ASSUME TypeInv, Protocol, NEW e, SCreateStream(e), UNCHANGED clientVars PROVE Protocol'
  <1> USE DEF TypeInv, TypeOK, CtrlTypeOK, LoopTypeOK, ListenTypeOK, ServerTypeOK, ClientTypeOK, Protocol, Take
  <1>1. /\ proc["server"] = "Loop" /\ ~syn /\ Phase /\ tail["client"] = "none"
        /\ e \in batch["server"] /\ e.src = TCP_LISTENER /\ sstate = "CreateStreams"
    BY InLoop DEF SCreateStream, OnListener
  <1> DEFINE n == nstreams + 1
             last == n = NumStreams
  <1>2. backlog > 0 /\ nstreams < NumStreams /\ nstreams + backlog = cstreams /\ reg["server"] = 1..nstreams
    BY <1>1 DEF StreamCount
  <1>3. ASSUME last
        PROVE  /\ cstreams = NumStreams /\ backlog = 1 /\ CanWrite("server")
               /\ cstate \in {"CreateStreams", "TestStart"} /\ None("server") /\ None("client") /\ cidx = 1
               /\ cstate = "CreateStreams" /\ Alive => proc["client"] = "Printing"
    <2>1. cstreams = NumStreams /\ backlog = 1 /\ cstreams > 0
      BY <1>2, <1>3, Constants
    <2>2. cstate \in {"CreateStreams", "TestStart"} /\ None("server") /\ None("client") /\ cidx = 1
      BY <1>1, <2>1 DEF Phase, At, ClientPlace
    <2>3. cstate = "CreateStreams" /\ Alive => proc["client"] = "Printing"
      BY <2>1 DEF Counters, Alive, Gone
    <2>4. CanWrite("server")
      BY <1>1, <2>1, <2>2 DEF Resets, At, CanWrite
    <2> QED BY <2>1, <2>2, <2>3, <2>4
  <1>4. /\ Take("server", e)
        /\ backlog' = backlog - 1 /\ nstreams' = n
        /\ reg'["server"] = reg["server"] \cup {n} /\ reg'["client"] = reg["client"]
        /\ n \in Streams
        /\ ready'["server"] \subseteq ready["server"] \cup {n} /\ ready'["client"] = ready["client"]
        /\ UNCHANGED << proc, buf, tail, sock, syn, dataVars, cookie_count >>
        /\ IF last THEN sstate' = "TestStart" /\ Sends(<< as_u8("TestStart") >>)
                   ELSE UNCHANGED << sstate, wire >>
    <2>1. ~(backlog = 0 \/ n > NumStreams \/ (LastStream(n) /\ ~CanWrite("server")))
      BY <1>2, <1>3, Constants DEF LastStream
    <2>2. n \in Streams
      BY <1>2, Constants DEF Streams
    <2> QED BY <2>1, <2>2 DEF SCreateStream, create_tcp_stream, LastStream
  <1>5. reg'["server"] = 1..nstreams'
    BY <1>2, <1>4, Constants
  <1> HIDE DEF n
  <1>6. Connection' /\ Resets'
    BY <1>1, <1>3, <1>4 DEF Sends, Connection, Resets, At, Up, Alive, Gone, clientVars
  <1>7. ClientPlace' /\ ClientEvents' /\ ClientStreams'
    BY <1>4, ClientKept DEF dataVars
  <1>8. Started'
    <2>1. CASE last
      <3>1. Phase'
        <4>1. proc["client"] # "Cookies" \/ cstate = "CreateStreams"
          BY <1>1, <1>3, <2>1 DEF Phase, At
        <4>2. AtMost("client", 3)' /\ None("server")'
          BY <1>3, <1>4, <2>1, Single, Bytes DEF Sends, None, AtMost
        <4> QED BY <1>3, <1>4, <2>1, <4>1, <4>2 DEF Phase, At, Alive, Gone, clientVars
      <3> QED BY <1>1, <1>4, <3>1 DEF Started
    <2>2. CASE ~last
      BY <1>1, <1>4, <2>2 DEF Started, Phase, At, None, AtMost, clientVars
    <2> QED BY <2>1, <2>2
  <1>9. ServerEvents'
    BY <1>1, <1>4, Tokens DEF ServerEvents, OneEach, CtrlReadable, Alive, Gone
  <1>10. StreamCount'
    <2>1. \A f \in batch'["server"] : f.src # TCP_LISTENER
      BY <1>1, <1>4 DEF ServerEvents, OneEach
    <2>2. nstreams' + backlog' = cstreams' /\ (sstate' = "CreateStreams" => nstreams' < NumStreams)
      BY <1>2, <1>4, Constants DEF clientVars, n
    <2>3. sstate' = "TestStart" => nstreams' = NumStreams
      BY <1>1, <1>4
    <2> QED BY <1>1, <1>4, <1>5, <2>1, <2>2, <2>3 DEF StreamCount, clientVars
  <1>11. Cookies'
    <2>1. \A i \in Streams : Empty(i)'
      BY <1>1, <1>4 DEF Cookies, Empty, dataVars
    <2>2. ASSUME last PROVE cookie_count' = Cardinality(Drained)'
      <3>1. Drained' = {}
        BY <1>3, <2>2, Constants DEF Drained, Sent, Streams, clientVars
      <3> QED BY <1>1, <1>4, <3>1, FS_EmptySet DEF Counters
    <2>3. \A f \in batch'["server"] : f.src \in Streams => dfin'[f.src] = "eof"
      BY <1>1, <1>4 DEF Cookies, dataVars
    <2> QED BY <1>1, <1>4, <2>1, <2>2, <2>3 DEF Cookies
  <1> QED BY <1>6, <1>7, <1>8, <1>9, <1>10, <1>11

\* A stream event in TestStart is a cookie not yet counted, so the last one
\* counted leaves every connection empty.
LEMMA CookieCounted ==
  ASSUME TypeInv, Protocol, NEW e, SCookie(e)
  PROVE  /\ e \in batch["server"] /\ e.src \in Streams /\ sstate = "TestStart" /\ dfin[e.src] # "eof"
         /\ dbuf[e.src] = << COOKIE >> /\ dwire[e.src] = << >> /\ Sent(e.src)
         /\ Cardinality(Drained \cup {e.src}) = cookie_count + 1
         /\ LastCookie => Drained \cup {e.src} = Streams /\ cstate = "TestRunning" /\ CanWrite("server")
  <1> USE DEF TypeInv, TypeOK, CtrlTypeOK, LoopTypeOK, DataTypeOK, ServerTypeOK, ClientTypeOK, Protocol, Take
  <1> DEFINE i == e.src
  <1>1. /\ proc["server"] = "Loop" /\ Phase
        /\ e \in batch["server"] /\ i \in Streams /\ sstate = "TestStart" /\ dfin[i] # "eof"
    BY InLoop DEF SCookie, OnStream
  <1> HIDE DEF i
  <1>2. dbuf[i] = << COOKIE >> /\ dwire[i] = << >> /\ Sent(i)
    <2>1. dbuf[i] # << >> /\ (Empty(i) \/ HasCookie(i)) /\ (~Sent(i) => Empty(i))
      BY <1>1 DEF Cookies, i
    <2> QED BY <2>1 DEF Empty, HasCookie
  <1> DEFINE D == Drained \cup {i}
  <1>3. IsFiniteSet(D) /\ D \subseteq Streams /\ Cardinality(D) = cookie_count + 1
    <2>1. IsFiniteSet(Streams)
      BY Constants, FS_Interval DEF Streams
    <2>2. Drained \in SUBSET Streams /\ i \notin Drained
      BY <1>2, Single DEF Drained, Empty
    <2>3. IsFiniteSet(Drained)
      BY <2>1, <2>2, FS_Subset
    <2>4. Cardinality(Drained) = cookie_count
      BY <1>1 DEF Cookies
    <2>5. IsFiniteSet(D) /\ Cardinality(D) = Cardinality(Drained) + 1
      BY <2>2, <2>3, FS_AddElement
    <2> QED BY <1>1, <2>2, <2>4, <2>5
  <1>4. ASSUME LastCookie PROVE D = Streams /\ cstate = "TestRunning" /\ CanWrite("server")
    <2>1. D = Streams
      <3>1. IsFiniteSet(Streams) /\ Cardinality(Streams) = NumStreams
        BY Constants, FS_Interval DEF Streams
      <3> QED BY <1>3, <1>4, <3>1, FS_Subset DEF LastCookie
    <2>2. NumStreams \in Streams /\ Sent(NumStreams)
      <3>1. NumStreams \in Streams
        BY Constants DEF Streams
      <3>2. NumStreams = i \/ NumStreams \in Drained
        BY <2>1, <3>1
      <3> QED BY <1>2, <3>1, <3>2 DEF Drained, Sent
    <2>3. cstate = "TestRunning"
      BY <1>1, <2>2, Constants DEF Sent, Phase, At, Streams
    <2> QED BY <1>1, <2>1, <2>3 DEF Resets, At, CanWrite
  <1> QED BY <1>1, <1>2, <1>3, <1>4 DEF i

LEMMA SCookieProtocol ==
  ASSUME TypeInv, Protocol, NEW e, SCookie(e), UNCHANGED clientVars PROVE Protocol'
  <1> USE DEF TypeInv, TypeOK, CtrlTypeOK, LoopTypeOK, DataTypeOK, ServerTypeOK, ClientTypeOK, Protocol, Take
  <1> DEFINE i == e.src
             D == Drained \cup {i}
  <1>1. /\ proc["server"] = "Loop" /\ ~syn /\ Phase /\ tail["client"] = "none"
        /\ e \in batch["server"] /\ i \in Streams /\ sstate = "TestStart" /\ dfin[i] # "eof"
    BY InLoop, CookieCounted
  <1>2. dbuf[i] = << COOKIE >> /\ dwire[i] = << >> /\ Sent(i)
    BY CookieCounted
  <1>3. Cardinality(D) = cookie_count + 1
    BY CookieCounted
  <1>4. LastCookie => D = Streams /\ cstate = "TestRunning" /\ CanWrite("server")
    BY CookieCounted
  <1> HIDE DEF i
  <1>5. /\ Take("server", e) /\ dbuf' = [dbuf EXCEPT ![i] = << >>] /\ cookie_count' = cookie_count + 1
        /\ IF LastCookie THEN sstate' = "TestRunning" /\ Sends(<< as_u8("TestRunning") >>)
                         ELSE UNCHANGED << sstate, wire >>
        /\ UNCHANGED << proc, buf, tail, sock, ready, reg, listenVars, dwire, dfin, nospace, nstreams >>
    BY <1>4 DEF SCookie, i
  <1>6. Connection' /\ Resets'
    BY <1>1, <1>4, <1>5 DEF Sends, Connection, Resets, At, Up, Alive, Gone, clientVars, listenVars
  <1>7. ClientPlace' /\ ClientEvents' /\ ClientStreams'
    BY <1>5, ClientKept
  <1>8. Started'
    <2>1. CASE LastCookie
      <3>1. Phase'
        BY <1>1, <1>4, <1>5, <2>1, Single, Bytes DEF Sends, Phase, At, None, AtMost, clientVars
      <3> QED BY <1>1, <1>5, <3>1 DEF Started, listenVars
    <2>2. CASE ~LastCookie
      BY <1>1, <1>5, <2>2 DEF Started, Phase, At, None, AtMost, Alive, Gone, clientVars, listenVars
    <2> QED BY <2>1, <2>2
  <1>9. ServerEvents'
    BY <1>1, <1>5, Tokens DEF ServerEvents, OneEach, CtrlReadable, Alive, Gone
  <1>10. StreamCount'
    BY <1>1, <1>5 DEF StreamCount, clientVars, listenVars
  <1>11. Cookies'
    <2>1. \A j \in Streams : /\ Sent(j)' <=> Sent(j)
                             /\ Empty(j)' <=> (j = i \/ Empty(j))
                             /\ HasCookie(j) /\ j # i => HasCookie(j)'
      BY <1>1, <1>2, <1>5 DEF Sent, Empty, HasCookie, clientVars
    <2>2. Drained' = D
      BY <1>1, <1>2, <2>1 DEF Drained
    <2>3. \A j \in Streams : Empty(j)' \/ HasCookie(j)'
      BY <1>1, <2>1 DEF Cookies
    <2>4. \A j \in Streams : ~Sent(j)' => Empty(j)'
      BY <1>1, <2>1 DEF Cookies
    <2>5. \A f \in batch'["server"] : f.src \in Streams => dbuf'[f.src] # << >> \/ dfin'[f.src] = "eof"
      <3>1. \A f \in batch'["server"] : f \in batch["server"] /\ f.src # i
        BY <1>1, <1>5 DEF ServerEvents, OneEach, i
      <3> QED BY <1>1, <1>5, <3>1 DEF Cookies
    <2>6. LastCookie => \A j \in Streams : OnlyData(j)'
      <3>1. LastCookie => \A j \in Streams : Empty(j)'
        BY <1>4, <2>1 DEF Drained
      <3>2. << >> \in Seq({DATA})
        OBVIOUS
      <3> QED BY <3>1, <3>2 DEF Empty, OnlyData
    <2>7. cookie_count' = Cardinality(Drained)'
      BY <1>3, <1>5, <2>2
    <2> QED BY <1>1, <1>5, <2>3, <2>4, <2>5, <2>6, <2>7 DEF Cookies
  <1> QED BY <1>6, <1>7, <1>8, <1>9, <1>10, <1>11

-----------------------------------------------------------------------------
(* The server leaves. *)

\* What a server that closes its sockets leaves behind.
LEMMA ServerClosesKeeps ==
  ASSUME TypeInv, Protocol, NEW p \in {"Accept", "Killed"}, ServerCloses(p), UNCHANGED clientVars,
         p = "Accept" => proc["server"] = "Loop" /\ (~Alive \/ cstate = "End")
  PROVE  /\ Connection' /\ ClientPlace' /\ ServerEvents' /\ ClientEvents'
         /\ StreamCount' /\ ClientStreams' /\ Cookies' /\ ~Up' /\ (Alive' <=> Alive)
  <1> USE DEF TypeInv, TypeOK, CtrlTypeOK, LoopTypeOK, DataTypeOK, Protocol
  <1>1. /\ proc'["server"] = p /\ proc'["client"] = proc["client"]
        /\ tail'["server"] = tail["server"]
        /\ sock'["server"] = "closed" /\ sock'["client"] = sock["client"]
        /\ buf'["server"] = << >> /\ buf'["client"] = buf["client"]
        /\ ready'["server"] = {} /\ ready'["client"] = ready["client"] \cup reg["client"]
        /\ reg'["server"] = {} /\ reg'["client"] = reg["client"]
        /\ batch'["server"] = {} /\ batch'["client"] = batch["client"]
        /\ ~syn' /\ UNCHANGED wire /\ \A i \in Streams : dfin'[i] \in {dfin[i], "rst"}
    BY DEF ServerCloses, TailOnClose
  <1>2. \A i \in Streams : Empty(i)'
    BY DEF ServerCloses, Empty
  <1>3. ~Up' /\ (Alive' <=> Alive)
    BY <1>1 DEF Up, Alive, Gone
  <1>4. Connection' /\ ClientPlace'
    BY <1>1, <1>3 DEF Connection, ClientPlace, Alive, Gone, clientVars
  <1>5. ServerEvents' /\ Cookies'
    BY <1>1, <1>2 DEF ServerEvents, Cookies
  <1>6. ClientEvents' /\ ClientStreams'
    BY <1>1, <1>3, Tokens DEF ClientEvents, ClientStreams, OneEach, CtrlReadable, clientVars
  <1>7. StreamCount'
    BY <1>1 DEF StreamCount, clientVars
  <1> QED BY <1>3, <1>4, <1>5, <1>6, <1>7

\* The server starts over when its client is gone, or has its results.
LEMMA RestartSafe ==
  ASSUME TypeInv, Protocol, NEW e, SError(e) \/ SEnd(e)
  PROVE  ~Alive \/ At("End", "End")
  <1> SUFFICES ASSUME Alive PROVE At("End", "End")
    OBVIOUS
  <1> USE DEF Protocol
  <1>1. proc["server"] = "Loop" /\ Phase /\ sock["server"] = "open" /\ e \in batch["server"]
    BY InLoop DEF SError, SEnd, OnControl, OnStream
  <1>2. CASE SError(e)
    <2>1. e.src \in Streams /\ sstate = "TestStart" /\ dfin[e.src] = "eof"
      BY <1>1, <1>2 DEF SError, OnStream, DrainFails, CanWrite
    <2>2. cstate \in {"CreateStreams", "TestStart", "TestRunning"}
      BY <1>1, <2>1 DEF Phase, At
    <2> QED BY <2>1, <2>2 DEF ClientStreams
  <1>3. CASE SEnd(e)
    <2>1. sstate = "End" /\ e.src \in {CONTROL, WAKER}
      BY <1>3 DEF SEnd, OnControl
    <2>2. buf["server"] # << >>
      BY <1>1, <2>1, Tokens DEF ServerEvents, CtrlReadable
    <2> QED BY <1>1, <2>1, <2>2 DEF Phase, At, None
  <1> QED BY <1>2, <1>3

LEMMA RestartProtocol ==
  ASSUME TypeInv, Protocol, NEW e, SError(e) \/ SEnd(e), UNCHANGED clientVars PROVE Protocol'
  <1> USE DEF Protocol
  <1>1. ServerCloses("Accept") /\ sstate' = "Start"
    BY DEF SError, SEnd, Restart
  <1>3. ~Alive \/ At("End", "End")
    BY RestartSafe
  <1>4. Phase /\ proc["server"] = "Loop"
    BY InLoop DEF SError, SEnd, OnControl, OnStream
  <1>2. /\ Connection' /\ ClientPlace' /\ ServerEvents' /\ ClientEvents'
        /\ StreamCount' /\ ClientStreams' /\ Cookies' /\ ~Up' /\ (Alive' <=> Alive)
    BY <1>1, <1>3, <1>4, ServerClosesKeeps DEF At
  <1>5. Resets'
    BY <1>1 DEF Resets, At
  <1>6. Started'
    <2>1. CASE ~Alive
      BY <1>1, <1>2, <2>1 DEF Started, Restarted
    <2>2. CASE At("End", "End")
      <3>1. cstate = "End" /\ OnlyResults /\ (parsed => None("client"))
        BY <1>4, <2>2 DEF Phase, At
      <3>2. buf'["client"] = buf["client"] /\ UNCHANGED wire
        BY <1>1 DEF ServerCloses, TypeInv, TypeOK, CtrlTypeOK
      <3>3. cstate' = "End" /\ OnlyResults' /\ (parsed' => None("client")')
        BY <3>1, <3>2 DEF OnlyResults, None, clientVars
      <3> QED BY <1>1, <1>2, <3>3 DEF Started, Restarted
    <2> QED BY <1>3, <2>1, <2>2
  <1> QED BY <1>2, <1>5, <1>6

LEMMA ServerKilledProtocol ==
  ASSUME TypeInv, Protocol, ServerKilled, UNCHANGED clientVars PROVE Protocol'
  <1> USE DEF Protocol, TypeInv, TypeOK, CtrlTypeOK, LoopTypeOK
  <1>1. ServerCloses("Killed") /\ UNCHANGED serverVars
    BY DEF ServerKilled
  <1>2. /\ Connection' /\ ClientPlace' /\ ServerEvents' /\ ClientEvents'
        /\ StreamCount' /\ ClientStreams' /\ Cookies' /\ ~Up' /\ (Alive' <=> Alive)
    BY <1>1, ServerClosesKeeps
  <1>3. /\ buf'["server"] = << >> /\ buf'["client"] = buf["client"] /\ UNCHANGED wire
        /\ proc'["server"] = "Killed" /\ proc'["client"] = proc["client"]
        /\ tail' = TailOnClose("server") /\ tail'["server"] = tail["server"]
        /\ sock'["server"] = "closed" /\ sock'["client"] = sock["client"]
    BY <1>1 DEF ServerCloses, TailOnClose
  <1>4. Started'
    <2>1. Phase => Phase'
      BY <1>1, <1>2, <1>3 DEF Phase, At, None, AtMost, OnlyResults, serverVars, clientVars
    <2>2. Restarted => Restarted'
      BY <1>1, <1>2, <1>3 DEF Restarted, None, OnlyResults, serverVars, clientVars
    <2> QED BY <1>3, <2>1, <2>2 DEF Started
  <1>5. Resets'
    <2>1. tail'["client"] = "rst" => tail["client"] = "rst" \/ buf["server"] # << >> \/ syn
      BY <1>3 DEF TailOnClose
    <2>2. syn => sstate = "Start"
      BY DEF StreamCount
    <2>3. buf["server"] # << >> => sstate \in {"Start", "ParamExchange"} \/ cstate \in {"ExchangeResults", "End"}
      BY DEF Started, Restarted, Connection, Phase, At, None
    <2> QED BY <1>1, <1>3, <2>1, <2>2, <2>3 DEF Resets, At, serverVars, clientVars
  <1> QED BY <1>2, <1>4, <1>5

LEMMA ServerProtocol == ASSUME TypeInv, Protocol, Server PROVE Protocol'
  <1>1. CASE SAccept
    BY <1>1, SAcceptProtocol DEF Server
  <1>2. CASE ServerPoll
    BY <1>2, ServerPollProtocol DEF Server
  <1>3. ASSUME NEW e \in batch["server"], SHandle(e) PROVE Protocol'
    <2>0. UNCHANGED clientVars
      BY DEF Server
    <2>1. CASE SIgnore(e) \/ SUnexpected(e)
      <3>1. /\ \A x \in Side : batch'[x] \subseteq batch[x]
            /\ UNCHANGED << proc, ctrlVars, ready, reg, listenVars, dataVars, serverVars >>
        BY <2>1 DEF SIgnore, SUnexpected, Take, TypeInv, TypeOK, LoopTypeOK
      <3> QED BY <2>0, <3>1, TakenProtocol DEF clientVars
    <2>2. CASE SError(e) \/ SEnd(e)
      BY <2>0, <2>2, RestartProtocol
    <2>3. CASE SStart(e) \/ SParamExchange(e)
      BY <2>0, <2>3, SStartProtocol, SParamExchangeProtocol
    <2>4. CASE STestRunning(e) \/ SClientShutdown(e) \/ STestEnd(e) \/ SExchangeResults(e)
      BY <2>0, <2>4, STestRunningProtocol, SClientShutdownProtocol, STestEndProtocol, SExchangeResultsProtocol
    <2>5. CASE SCreateStream(e) \/ SCookie(e) \/ SRead(e)
      BY <2>0, <2>5, SCreateStreamProtocol, SCookieProtocol, SReadProtocol
    <2> QED BY <1>3, <2>1, <2>2, <2>3, <2>4, <2>5 DEF SHandle
  <1> QED BY <1>1, <1>2, <1>3 DEF Server, ServerStep

-----------------------------------------------------------------------------
(* The client's steps. *)

\* A client before its last state has not missed a restart of its server.
LEMMA ClientPhase ==
  ASSUME TypeInv, Protocol, Alive
  PROVE  /\ (cstate # "End" => Phase)
         /\ tail["server"] = "none" /\ sock["server"] \in {"open", "closed"}
         /\ sock["client"] \in {"open", "eof", "reset"}
  BY DEF TypeInv, TypeOK, CtrlTypeOK, Protocol, Connection, Started, Restarted

\* A control event of the client, unless the connection is closed, has a
\* message behind it, and no second one waits.
LEMMA CReadable ==
  ASSUME TypeInv, Protocol, NEW e, COnControl(e), cstate \notin {"Start", "End"},
         e.readable => ~DrainFails("client")
  PROVE  /\ Alive /\ Phase /\ proc["client"] = "Loop" /\ e \in batch["client"]
         /\ e.src = CONTROL /\ e.readable
         /\ sock["client"] = "open" /\ buf["client"] # << >>
         /\ \A f \in batch["client"] \ {e} : f.src # CONTROL
         /\ cstate # "ExchangeResults" => CONTROL \notin ready["client"]
  <1> USE DEF Protocol
  <1>1. Alive /\ Phase /\ proc["client"] = "Loop" /\ e \in batch["client"]
    BY ClientPhase DEF COnControl, Alive, Gone
  <1>2. e.src = CONTROL /\ e.readable
    BY <1>1 DEF COnControl, ClientEvents
  <1>3. sock["client"] = "open"
    BY <1>2 DEF DrainFails
  <1>4. buf["client"] # << >>
    BY <1>1, <1>2, <1>3 DEF ClientEvents, CtrlReadable
  <1> QED BY <1>1, <1>2, <1>3, <1>4 DEF ClientEvents, OneEach

\* Draining part of the results leaves the rest.
LEMMA ResultsDrained ==
  ASSUME OnlyResults, buf'["client"] = << >>, wire'["client"] = wire["client"]
  PROVE  OnlyResults'
  <1>1. Len(buf["client"]) \in Nat /\ Len(wire["client"]) \in Nat /\ Len(<< >>) = 0
    BY DEF OnlyResults
  <1>2. << >> \in Seq({RESULTS})
    OBVIOUS
  <1>3. Len(wire["client"]) <= ResultSegs
    <2>1. ResultSegs \in Nat
      BY NetAssumption
    <2>2. Len(buf["client"]) + Len(wire["client"]) <= ResultSegs
      BY DEF OnlyResults
    <2>3. \A a, b, c \in Nat : a + b <= c => b <= c
      OBVIOUS
    <2> QED BY <1>1, <2>1, <2>2, <2>3
  <1> QED BY <1>1, <1>2, <1>3 DEF OnlyResults

\* The process ends, or is ended.
LEMMA ClientExitsProtocol ==
  ASSUME TypeInv, Protocol, Alive, NEW p \in {"Done", "Failed", "Panic", "Killed"}, ClientExits(p),
         p = "Panic" => proc["server"] = "Killed" /\ cstate = "CreateStreams",
         UNCHANGED serverVars
  PROVE  Protocol'
  <1> USE DEF TypeInv, TypeOK, CtrlTypeOK, LoopTypeOK, DataTypeOK, Protocol
  <1>1. /\ proc'["client"] = p /\ proc'["server"] = proc["server"] /\ ~Alive'
        /\ tail' = TailOnClose("client") /\ tail'["client"] = tail["client"]
        /\ sock'["client"] = "closed" /\ sock'["server"] = sock["server"]
        /\ buf'["client"] = << >> /\ buf'["server"] = buf["server"]
        /\ ready'["server"] = ready["server"] /\ reg'["server"] = reg["server"]
        /\ batch'["server"] = batch["server"]
        /\ UNCHANGED << wire, listenVars, dwire, dbuf, clientVars >>
    BY DEF ClientExits, TailOnClose, Alive, Gone
  <1>2. Connection' /\ ClientPlace'
    BY <1>1 DEF Connection, ClientPlace, Up, Alive, Gone, listenVars, clientVars
  <1>3. Started'
    <2>1. OnlyResults => OnlyResults'
      BY <1>1, ResultsDrained
    <2>2. Phase => Phase'
      BY <1>1, <2>1 DEF Phase, At, None, AtMost, serverVars, clientVars
    <2>3. Restarted => Restarted'
      BY <1>1 DEF Restarted, Up, listenVars, serverVars
    <2> QED BY <1>1, <2>2, <2>3 DEF Started, listenVars
  <1>4. Resets'
    <2>1. tail'["server"] = "rst" => buf["client"] # << >>
      BY <1>1, ClientPhase DEF TailOnClose
    <2>2. /\ At("CreateStreams", "CreateStreams") /\ cstreams > 0 => buf["client"] = << >>
          /\ At("CreateStreams", "TestStart") \/ At("TestStart", "TestRunning") => buf["client"] = << >>
      BY ClientPhase DEF Phase, At, None
    <2> QED BY <1>1, <2>1, <2>2 DEF Resets, At, serverVars, clientVars
  <1>5. ServerEvents'
    BY <1>1, ServerKept
  <1>6. ClientEvents' /\ ClientStreams'
    BY <1>1 DEF ClientEvents, ClientStreams
  <1>7. StreamCount'
    BY <1>1 DEF StreamCount, serverVars, clientVars, listenVars
  <1>8. Cookies'
    <2>1. \A i \in Streams : dfin[i] = "eof" => dfin'[i] = "eof"
      BY DEF ClientExits
    <2> QED BY <1>1, <2>1, CookiesKept DEF Sent, serverVars, clientVars
  <1> QED BY <1>2, <1>3, <1>4, <1>5, <1>6, <1>7, <1>8

LEMMA CIgnoreProtocol ==
  ASSUME TypeInv, Protocol, NEW e, CIgnore(e), UNCHANGED serverVars PROVE Protocol'
  <1> USE DEF TypeInv, TypeOK, CtrlTypeOK, LoopTypeOK, Protocol, Take
  <1>1. CASE UNCHANGED buf
    <2>1. \A x \in Side : batch'[x] \subseteq batch[x]
      BY DEF CIgnore
    <2>2. UNCHANGED << proc, ctrlVars, ready, reg, listenVars, dataVars, clientVars >>
      BY <1>1 DEF CIgnore, ctrlVars
    <2> QED BY <2>1, <2>2, TakenProtocol DEF clientVars
  <1>2. CASE buf' # buf
    <2>1. /\ cstate = "ExchangeResults" /\ sock["client"] # "open" /\ Alive
          /\ buf' = [buf EXCEPT !["client"] = << >>] /\ batch' = [batch EXCEPT !["client"] = @ \ {e}]
          /\ UNCHANGED << proc, wire, tail, sock, ready, reg, listenVars, dataVars, clientVars >>
      BY <1>2 DEF CIgnore, COnControl, DrainFails, Alive, Gone
    <2>2. Phase
      BY <2>1, ClientPhase
    <2>3. Connection' /\ ClientPlace' /\ Resets'
      BY <2>1 DEF Connection, ClientPlace, Resets, At, Up, Alive, Gone, listenVars, serverVars, clientVars
    <2>4. Started'
      <3>1. OnlyResults => OnlyResults'
        BY <2>1, ResultsDrained
      <3>2. Phase'
        BY <2>1, <2>2, <3>1 DEF Phase, At, None, AtMost, serverVars, clientVars
      <3> QED BY <2>1, <3>2 DEF Started, Restarted, Up, Alive, Gone, listenVars, serverVars, clientVars
    <2>5. ServerEvents'
      BY <2>1, ServerKept DEF Alive, Gone
    <2>6. ClientEvents' /\ ClientStreams'
      BY <2>1 DEF ClientEvents, ClientStreams, OneEach, CtrlReadable, dataVars, clientVars
    <2>7. StreamCount'
      BY <2>1 DEF StreamCount, listenVars, serverVars, clientVars
    <2>8. Cookies'
      BY <2>1, CookiesKept DEF Sent, dataVars, serverVars, clientVars
    <2> QED BY <2>3, <2>4, <2>5, <2>6, <2>7, <2>8
  <1> QED BY <1>1, <1>2

LEMMA CStartProtocol ==
  ASSUME TypeInv, Protocol, NEW e, CStart(e), UNCHANGED serverVars PROVE Protocol'
  <1> USE DEF TypeInv, TypeOK, CtrlTypeOK, LoopTypeOK, Protocol, CStart, Take, CSends
  <1>1. Alive /\ Phase /\ tail["server"] = "none" /\ sock["server"] \in {"open", "closed"}
    BY ClientPhase DEF COnControl, Alive, Gone
  <1>2. sstate = "Start" /\ None("server") /\ None("client") /\ e.src = CONTROL
    BY <1>1 DEF Phase, At, COnControl, ClientEvents
  <1>3. Connection' /\ ClientPlace' /\ Resets'
    BY <1>1, <1>2 DEF Connection, ClientPlace, Resets, At, Up, Alive, Gone, COnControl, None, listenVars, serverVars
  <1>4. Started'
    <2>1. Phase'
      BY <1>2, Single DEF Phase, At, None, AtMost, serverVars
    <2> QED BY <1>1, <1>2, <2>1 DEF Started, Restarted, Up, Alive, Gone, listenVars, serverVars
  <1>5. ServerEvents'
    BY ServerKept DEF Alive, Gone
  <1>6. ClientEvents' /\ ClientStreams'
    BY <1>1, <1>2 DEF ClientEvents, ClientStreams, OneEach, CtrlReadable, COnControl, Alive, Gone, dataVars
  <1>7. StreamCount'
    BY DEF StreamCount, listenVars, serverVars
  <1>8. Cookies'
    BY CookiesKept DEF Sent, dataVars, serverVars
  <1> QED BY <1>3, <1>4, <1>5, <1>6, <1>7, <1>8

LEMMA CParamExchangeProtocol ==
  ASSUME TypeInv, Protocol, NEW e, CParamExchange(e), UNCHANGED serverVars PROVE Protocol'
  <1> USE DEF TypeInv, TypeOK, CtrlTypeOK, LoopTypeOK, Protocol, CParamExchange, DrainsAny, CDrained, Take, CSends
  <1>1. /\ Alive /\ Phase /\ proc["client"] = "Loop" /\ e \in batch["client"]
        /\ e.src = CONTROL /\ e.readable /\ sock["client"] = "open" /\ buf["client"] # << >>
        /\ \A f \in batch["client"] \ {e} : f.src # CONTROL
        /\ CONTROL \notin ready["client"]
    BY CReadable
  <1>2. tail["server"] = "none" /\ sock["server"] \in {"open", "closed"}
    BY <1>1, ClientPhase
  <1>3. sstate = "ParamExchange" /\ None("server") /\ wire["client"] = << >> /\ cstreams = 0
    BY <1>1 DEF Phase, At, AtMost, None, StreamCount
  <1>4. Connection' /\ ClientPlace' /\ Resets'
    BY <1>1, <1>2, <1>3 DEF Connection, ClientPlace, Resets, At, Up, Alive, Gone, None, listenVars, serverVars
  <1>5. Started'
    <2>1. Phase'
      BY <1>1, <1>3, Single DEF Phase, At, None, AtMost, serverVars
    <2> QED BY <1>1, <1>3, <2>1 DEF Started, Restarted, Up, Alive, Gone, listenVars, serverVars
  <1>6. ServerEvents'
    BY ServerKept DEF Alive, Gone
  <1>7. ClientEvents' /\ ClientStreams'
    BY <1>1, <1>3 DEF ClientEvents, ClientStreams, OneEach, Alive, Gone, dataVars
  <1>8. StreamCount'
    BY DEF StreamCount, listenVars, serverVars
  <1>9. Cookies'
    BY CookiesKept DEF Sent, dataVars, serverVars
  <1> QED BY <1>4, <1>5, <1>6, <1>7, <1>8, <1>9

LEMMA CCreateStreamsProtocol ==
  ASSUME TypeInv, Protocol, NEW e, CCreateStreams(e), UNCHANGED serverVars PROVE Protocol'
  <1> USE DEF TypeInv, TypeOK, CtrlTypeOK, LoopTypeOK, Protocol, CCreateStreams, DrainsAny, CDrained, Take
  <1>1. /\ Alive /\ Phase /\ proc["client"] = "Loop" /\ e \in batch["client"]
        /\ e.src = CONTROL /\ e.readable /\ sock["client"] = "open" /\ buf["client"] # << >>
        /\ \A f \in batch["client"] \ {e} : f.src # CONTROL
        /\ CONTROL \notin ready["client"]
    BY CReadable
  <1>2. tail["server"] = "none" /\ sock["server"] \in {"open", "closed"}
    BY <1>1, ClientPhase
  <1>3. sstate = "CreateStreams" /\ None("server") /\ wire["client"] = << >>
    BY <1>1 DEF Phase, At, AtMost, None
  <1>4. Alive'
    BY DEF Alive, Gone
  <1>5. Connection' /\ ClientPlace' /\ Resets'
    BY <1>1, <1>2, <1>3, <1>4 DEF Connection, ClientPlace, Resets, At, Up, Alive, Gone, None, listenVars, serverVars, clientVars
  <1>6. Started'
    <2>1. Phase'
      BY <1>1, <1>3, Single DEF Phase, At, None, AtMost, serverVars, clientVars
    <2> QED BY <1>1, <1>3, <2>1 DEF Started, Restarted, listenVars, serverVars
  <1>7. ServerEvents'
    BY <1>1, ServerKept
  <1>8. ClientEvents' /\ ClientStreams'
    BY <1>1, <1>3, <1>4 DEF ClientEvents, ClientStreams, OneEach, dataVars, clientVars
  <1>9. StreamCount'
    BY DEF StreamCount, listenVars, serverVars, clientVars
  <1>10. Cookies'
    BY CookiesKept DEF Sent, dataVars, serverVars, clientVars
  <1> QED BY <1>5, <1>6, <1>7, <1>8, <1>9, <1>10

LEMMA CConnectProtocol ==
  ASSUME TypeInv, Protocol, CConnect, UNCHANGED serverVars PROVE Protocol'
  <1> USE DEF TypeInv, TypeOK, CtrlTypeOK, LoopTypeOK, ListenTypeOK, ServerTypeOK, ClientTypeOK, Protocol
  <1>1. /\ proc["client"] = "Connecting" /\ proc["server"] = "Loop" /\ Alive /\ cstate = "CreateStreams"
        /\ cidx = 1 /\ ~running /\ ~parsed
    BY DEF CConnect, ServerUp, Alive, Gone, Counters, ClientPlace
  <1>2. Phase /\ tail["server"] = "none" /\ sock["server"] \in {"open", "closed"} /\ ~syn /\ tail["client"] = "none"
    BY <1>1, ClientPhase DEF Connection, Up
  <1>3. sstate = "CreateStreams" /\ None("server") /\ None("client")
    BY <1>1, <1>2 DEF Phase, At
  <1>4. /\ proc'["server"] = "Loop" /\ Alive' /\ backlog' = backlog + 1 /\ cstreams' = cstreams + 1
        /\ ready'["client"] = ready["client"] /\ ready'["server"] \subseteq ready["server"] \cup {TCP_LISTENER}
        /\ UNCHANGED << ctrlVars, reg, batch, syn, dataVars, cstate, running, cidx, parsed >>
        /\ proc'["client"] = "Printing"
    BY <1>1 DEF CConnect, Alive, Gone
  <1>5. Connection' /\ ClientPlace' /\ Resets'
    BY <1>1, <1>2, <1>3, <1>4 DEF Connection, ClientPlace, Resets, At, Up, Alive, Gone, ctrlVars, serverVars
  <1>6. Started'
    <2>1. Phase'
      BY <1>1, <1>3, <1>4 DEF Phase, At, None, AtMost, ctrlVars, serverVars
    <2> QED BY <1>4, <2>1 DEF Started
  <1>7. ServerEvents'
    BY <1>1, <1>3, <1>4, Tokens DEF ServerEvents, CtrlReadable, OneEach, ctrlVars, serverVars
  <1>8. ClientEvents' /\ ClientStreams'
    BY <1>1, <1>4 DEF ClientEvents, ClientStreams, OneEach, CtrlReadable, ctrlVars, dataVars
  <1>9. StreamCount'
    <2>1. nstreams' + backlog' = cstreams'
      BY <1>1, <1>4 DEF StreamCount, serverVars
    <2>2. backlog' > 0
      BY <1>4
    <2> QED BY <1>1, <1>2, <1>3, <1>4, <2>1, <2>2 DEF StreamCount, serverVars
  <1>10. Cookies'
    <2>1. \A i \in Streams : Sent(i)' <=> Sent(i)
      BY <1>1, <1>4 DEF Sent, Streams
    <2> QED BY <1>1, <1>4, <2>1, CookiesKept DEF serverVars, dataVars
  <1> QED BY <1>5, <1>6, <1>7, <1>8, <1>9, <1>10

\* Only a server that was killed has reset the connection that is printed.
LEMMA PrintPanics ==
  ASSUME TypeInv, Protocol, CPrint
  PROVE  /\ proc["client"] = "Printing" /\ Alive /\ cstate = "CreateStreams"
         /\ dfin[cstreams] = "rst" => proc["server"] = "Killed"
  <1>1. proc["client"] = "Printing" /\ Alive /\ cstate = "CreateStreams"
    BY DEF TypeInv, CPrint, Alive, Gone, Counters
  <1>2. cstreams \in Streams
    <2>1. cstreams \in 1..NumStreams
      <3>1. cstreams > 0
        BY <1>1 DEF Protocol, ClientPlace
      <3> QED BY <3>1, Constants DEF TypeInv, TypeOK, ClientTypeOK
    <2> QED BY <2>1 DEF Streams
  <1> QED BY <1>1, <1>2 DEF Protocol, ClientStreams

LEMMA CPrintProtocol ==
  ASSUME TypeInv, Protocol, CPrint, UNCHANGED serverVars PROVE Protocol'
  <1> USE DEF TypeInv, TypeOK, CtrlTypeOK, LoopTypeOK, Protocol
  <1>1. /\ proc["client"] = "Printing" /\ Alive /\ cstate = "CreateStreams"
        /\ cidx = 1 /\ ~running /\ ~parsed
    BY PrintPanics DEF ClientPlace
  <1>2. CASE dfin[cstreams] = "rst"
    BY <1>1, <1>2, PrintPanics, ClientExitsProtocol DEF CPrint
  <1>3. CASE dfin[cstreams] # "rst"
    <2>1. Phase /\ tail["server"] = "none" /\ sock["server"] \in {"open", "closed"}
      BY <1>1, ClientPhase
    <2>2. /\ None("server")
          /\ \/ sstate = "CreateStreams" /\ None("client")
             \/ sstate = "TestStart" /\ AtMost("client", 3) /\ cstreams = NumStreams
      BY <1>1, <2>1 DEF Phase, At
    <2>3. /\ proc'["server"] = proc["server"] /\ Alive'
          /\ UNCHANGED << ctrlVars, ready, reg, batch, listenVars, dataVars, running, cstreams, cidx, parsed >>
          /\ IF cstreams = NumStreams
               THEN proc'["client"] = "Loop" /\ cstate' = "TestStart"
               ELSE proc'["client"] = "Connecting" /\ UNCHANGED cstate
      BY <1>1, <1>3 DEF CPrint, LastConnect, Alive, Gone
    <2>4. Connection' /\ ClientPlace' /\ Resets'
      BY <1>1, <2>1, <2>2, <2>3 DEF Connection, ClientPlace, Resets, At, Up, Alive, Gone, ctrlVars, listenVars, serverVars
    <2>5. Started'
      <3>1. Phase'
        BY <1>1, <2>2, <2>3 DEF Phase, At, None, AtMost, ctrlVars, serverVars
      <3> QED BY <1>1, <2>2, <2>3, <3>1 DEF Started, Restarted, listenVars, serverVars
    <2>6. ServerEvents'
      BY <1>1, <2>3, ServerKept DEF ctrlVars
    <2>7. ClientEvents' /\ ClientStreams'
      BY <1>1, <2>3 DEF ClientEvents, ClientStreams, OneEach, CtrlReadable, ctrlVars, dataVars
    <2>8. StreamCount'
      BY <1>1, <2>3 DEF StreamCount, listenVars, serverVars
    <2>9. Cookies'
      <3>1. \A i \in Streams : Sent(i)' <=> Sent(i)
        BY <1>1, <2>3 DEF Sent, Streams
      <3> QED BY <2>3, <3>1, CookiesKept DEF serverVars, dataVars
    <2> QED BY <2>4, <2>5, <2>6, <2>7, <2>8, <2>9
  <1> QED BY <1>2, <1>3

LEMMA CTestStartProtocol ==
  ASSUME TypeInv, Protocol, NEW e, CTestStart(e), UNCHANGED serverVars PROVE Protocol'
  <1> USE DEF TypeInv, TypeOK, CtrlTypeOK, LoopTypeOK, Protocol, CTestStart, DrainsAny, CDrained, Take
  <1>1. /\ Alive /\ Phase /\ proc["client"] = "Loop" /\ e \in batch["client"]
        /\ e.src = CONTROL /\ e.readable /\ sock["client"] = "open" /\ buf["client"] # << >>
        /\ \A f \in batch["client"] \ {e} : f.src # CONTROL
        /\ CONTROL \notin ready["client"]
    BY CReadable
  <1>2. tail["server"] = "none" /\ sock["server"] \in {"open", "closed"}
    BY <1>1, ClientPhase
  <1>3. sstate = "TestStart" /\ None("server") /\ wire["client"] = << >> /\ cidx = 1
    BY <1>1 DEF Phase, At, AtMost, None, ClientPlace
  <1>4. Alive'
    BY DEF Alive, Gone
  <1>5. Connection' /\ ClientPlace' /\ Resets'
    BY <1>1, <1>2, <1>3, <1>4 DEF Connection, ClientPlace, Resets, At, Up, Alive, Gone, None, listenVars, serverVars
  <1>6. Started'
    <2>1. Phase'
      BY <1>1, <1>3 DEF Phase, At, None, AtMost, serverVars
    <2> QED BY <1>1, <1>3, <2>1 DEF Started, Restarted, listenVars, serverVars
  <1>7. ServerEvents'
    BY <1>1, ServerKept
  <1>8. ClientEvents' /\ ClientStreams'
    BY <1>1, <1>3, <1>4 DEF ClientEvents, ClientStreams, OneEach, dataVars
  <1>9. StreamCount'
    BY DEF StreamCount, listenVars, serverVars
  <1>10. Cookies'
    BY <1>3, CookiesKept DEF Sent, dataVars, serverVars
  <1> QED BY <1>5, <1>6, <1>7, <1>8, <1>9, <1>10

LEMMA CCookieProtocol ==
  ASSUME TypeInv, Protocol, CCookie, UNCHANGED serverVars PROVE Protocol'
  <1> USE DEF TypeInv, TypeOK, CtrlTypeOK, LoopTypeOK, DataTypeOK, ClientTypeOK, Protocol
  <1>1. /\ proc["client"] = "Cookies" /\ Alive /\ cstate = "TestStart" /\ ~running /\ ~parsed
        /\ cidx \in Streams
    BY DEF CCookie, Alive, Gone, ClientPlace
  <1>2. Phase /\ tail["server"] = "none" /\ sock["server"] \in {"open", "closed"}
    BY <1>1, ClientPhase
  <1>3. sstate = "TestStart" /\ None("server") /\ None("client")
    BY <1>1, <1>2 DEF Phase, At
  <1>4. /\ proc'["server"] = proc["server"] /\ Alive'
        /\ UNCHANGED << ctrlVars, ready, reg, batch, listenVars, dbuf, dfin, running, cstreams, parsed >>
        /\ IF cidx = NumStreams
             THEN proc'["client"] = "Loop" /\ cstate' = "TestRunning" /\ UNCHANGED cidx
             ELSE proc'["client"] = "Cookies" /\ cidx' = cidx + 1 /\ UNCHANGED cstate
    BY <1>1 DEF CCookie, Alive, Gone
  <1>5. Connection' /\ ClientPlace' /\ Resets'
    BY <1>1, <1>2, <1>3, <1>4 DEF Connection, ClientPlace, Resets, At, Up, Alive, Gone, ctrlVars, listenVars, serverVars
  <1>6. Started'
    <2>1. Phase'
      BY <1>1, <1>3, <1>4 DEF Phase, At, None, AtMost, ctrlVars, serverVars
    <2> QED BY <1>1, <1>3, <1>4, <2>1 DEF Started, Restarted, listenVars, serverVars
  <1>7. ServerEvents'
    BY <1>1, <1>4, ServerKept DEF ctrlVars
  <1>8. ClientEvents' /\ ClientStreams'
    BY <1>1, <1>4 DEF ClientEvents, ClientStreams, OneEach, CtrlReadable, ctrlVars
  <1>9. StreamCount'
    BY <1>1, <1>4 DEF StreamCount, listenVars, serverVars
  <1>10. Cookies'
    <2>0. PICK c \in Streams : c = cidx
      BY <1>1
    <2>1. \A i \in Streams : Sent(i)' <=> (Sent(i) \/ i = c)
      BY <2>0, <1>1, <1>4, Constants DEF Sent, Streams
    <2>2. CASE proc["server"] # "Loop"
      BY <1>4, <2>2 DEF CCookie, ServerUp, Cookies, Empty
    <2>3. CASE proc["server"] = "Loop"
      <3>1. Empty(c) /\ ~Sent(c)
        BY <1>1, <2>0, <2>3 DEF Cookies, Sent, Streams
      <3>2. dwire' = [dwire EXCEPT ![c] = Append(@, COOKIE)]
        BY <2>0, <2>3 DEF CCookie, ServerUp
      <3>3. HasCookie(c)' /\ ~Empty(c)'
        BY <1>1, <1>4, <3>1, <3>2, Single DEF Empty, HasCookie
      <3>4. \A i \in Streams : i # c => (Empty(i)' <=> Empty(i)) /\ (HasCookie(i)' <=> HasCookie(i))
        BY <1>4, <3>2 DEF Empty, HasCookie
      <3>5. Drained' = Drained
        BY <2>1, <3>1, <3>3, <3>4 DEF Drained
      <3>6. \A i \in Streams : (Empty(i)' \/ HasCookie(i)') /\ (~Sent(i)' => Empty(i)')
        BY <1>3, <2>1, <2>3, <3>3, <3>4 DEF Cookies
      <3> QED BY <1>3, <1>4, <2>3, <3>5, <3>6 DEF Cookies, serverVars
    <2> QED BY <2>2, <2>3
  <1> QED BY <1>5, <1>6, <1>7, <1>8, <1>9, <1>10

LEMMA CRunningProtocol ==
  ASSUME TypeInv, Protocol, NEW e, CRunning(e), UNCHANGED serverVars PROVE Protocol'
  <1> USE DEF TypeInv, TypeOK, CtrlTypeOK, LoopTypeOK, Protocol, DrainsAny, CDrained, Take
  <1>1. /\ Alive /\ Phase /\ proc["client"] = "Loop" /\ e \in batch["client"]
        /\ e.src = CONTROL /\ e.readable /\ sock["client"] = "open" /\ buf["client"] # << >>
        /\ \A f \in batch["client"] \ {e} : f.src # CONTROL
        /\ CONTROL \notin ready["client"]
    BY CReadable DEF CRunning
  <1>2. cstate = "TestRunning" /\ ~running /\ tail["server"] = "none" /\ sock["server"] \in {"open", "closed"}
    BY <1>1, ClientPhase DEF CRunning
  <1>3. sstate = "TestRunning" /\ None("server") /\ wire["client"] = << >>
    BY <1>1, <1>2 DEF Phase, At, AtMost, None
  <1>4. Registers = Streams
    BY <1>2 DEF Registers, StreamCount, Streams
  <1>5. /\ Take("client", e) /\ buf' = [buf EXCEPT !["client"] = << >>] /\ running' = TRUE
        /\ reg' = [reg EXCEPT !["client"] = Streams]
        /\ ready' = [ready EXCEPT !["client"] = @ \cup Streams]
        /\ UNCHANGED << proc, wire, tail, sock, listenVars, dataVars, cstate, cstreams, cidx, parsed >>
    BY <1>1, <1>4 DEF CRunning
  <1>6. Alive'
    BY <1>1, <1>5 DEF Alive, Gone
  <1>7. Connection' /\ ClientPlace' /\ Resets'
    BY <1>1, <1>2, <1>3, <1>5, <1>6 DEF Connection, ClientPlace, Resets, At, Up, Alive, Gone, None, listenVars, serverVars
  <1>8. Started'
    <2>1. Phase'
      BY <1>2, <1>3, <1>5 DEF Phase, At, None, AtMost, serverVars
    <2> QED BY <1>1, <1>3, <1>5, <2>1 DEF Started, Restarted, listenVars, serverVars
  <1>9. ServerEvents'
    BY <1>1, <1>5, ServerKept
  <1>10. ClientEvents' /\ ClientStreams'
    BY <1>1, <1>2, <1>5, Tokens DEF ClientEvents, ClientStreams, OneEach, dataVars
  <1>11. StreamCount'
    BY <1>5 DEF StreamCount, listenVars, serverVars
  <1>12. Cookies'
    BY <1>5, CookiesKept DEF Sent, dataVars, serverVars
  <1> QED BY <1>7, <1>8, <1>9, <1>10, <1>11, <1>12

LEMMA CExchangeResultsProtocol ==
  ASSUME TypeInv, Protocol, NEW e, CExchangeResults(e), UNCHANGED serverVars PROVE Protocol'
  <1> USE DEF TypeInv, TypeOK, CtrlTypeOK, LoopTypeOK, Protocol, DrainsAny, CDrained, Take, CSends
  <1>1. /\ Alive /\ Phase /\ proc["client"] = "Loop" /\ e \in batch["client"]
        /\ e.readable /\ buf["client"] # << >>
    BY CReadable DEF CExchangeResults
  <1>2. cstate = "ExchangeResults" /\ tail["server"] = "none" /\ sock["server"] \in {"open", "closed"}
    BY <1>1, ClientPhase DEF CExchangeResults
  <1>3. sstate = "End" /\ None("server") /\ OnlyResults
    BY <1>1, <1>2 DEF Phase, At, None
  <1>4. /\ buf' = [buf EXCEPT !["client"] = << >>] /\ batch' = [batch EXCEPT !["client"] = @ \ {e}]
        /\ parsed' = from_serde(buf["client"]) /\ cstate' = "End"
        /\ wire' = [wire EXCEPT !["server"] = Append(@, 8)]
        /\ ready' = [ready EXCEPT !["client"] = @ \cup {WAKER}]
        /\ UNCHANGED << proc, tail, sock, reg, listenVars, dataVars, running, cstreams, cidx >>
    BY <1>1, Bytes DEF CExchangeResults
  <1>5. Alive'
    BY <1>1, <1>4 DEF Alive, Gone
  <1>6. Connection' /\ ClientPlace' /\ Resets'
    BY <1>1, <1>2, <1>3, <1>4, <1>5 DEF Connection, ClientPlace, Resets, At, Up, Alive, Gone, None, listenVars, serverVars
  <1>7. Started'
    <2>1. OnlyResults'
      BY <1>3, <1>4, ResultsDrained
    <2>2. AtMost("server", 8)'
      BY <1>3, <1>4, Single DEF None, AtMost
    <2>3. parsed' => None("client")'
      <3> SUFFICES ASSUME from_serde(buf["client"]) PROVE wire["client"] = << >>
        BY <1>4 DEF None
      <3>1. Len(buf["client"]) = ResultSegs /\ ResultSegs \in Nat
        BY NetAssumption DEF from_serde
      <3>2. Len(wire["client"]) \in Nat /\ Len(buf["client"]) + Len(wire["client"]) <= ResultSegs
        BY <1>3 DEF OnlyResults
      <3>3. Len(wire["client"]) = 0
        BY <3>1, <3>2
      <3> QED BY <3>3
    <2>4. Phase'
      BY <1>3, <1>4, <2>1, <2>2, <2>3 DEF Phase, At, serverVars
    <2> QED BY <1>1, <1>3, <1>4, <2>4 DEF Started, Restarted, listenVars, serverVars
  <1>8. ServerEvents'
    BY <1>1, <1>4, ServerKept
  <1>9. ClientEvents' /\ ClientStreams'
    BY <1>1, <1>2, <1>4, Tokens DEF ClientEvents, ClientStreams, OneEach, dataVars
  <1>10. StreamCount'
    BY <1>2, <1>4 DEF StreamCount, listenVars, serverVars
  <1>11. Cookies'
    BY <1>2, <1>4, CookiesKept DEF Sent, dataVars, serverVars
  <1> QED BY <1>6, <1>7, <1>8, <1>9, <1>10, <1>11

\* The sending loop runs with both machines in TestRunning.
LEMMA InSending ==
  ASSUME TypeInv, Protocol, proc["client"] \in {"Sending", "Leaving"}
  PROVE  /\ Alive /\ running /\ cstate = "TestRunning" /\ sstate = "TestRunning"
         /\ None("server") /\ None("client") /\ reg["client"] = Streams /\ cstreams = NumStreams
         /\ tail["server"] = "none" /\ sock["server"] \in {"open", "closed"} /\ sock["client"] # "reset"
         /\ tail["client"] # "rst"
  <1> USE DEF Protocol
  <1>1. Alive /\ running /\ cstate = "TestRunning"
    BY DEF Alive, Gone, ClientPlace
  <1>2. Phase /\ tail["server"] = "none" /\ sock["server"] \in {"open", "closed"}
    BY <1>1, ClientPhase
  <1>3. sstate = "TestRunning" /\ None("server") /\ None("client")
    BY <1>1, <1>2 DEF Phase, At
  <1>4. sock["client"] # "reset" /\ tail["client"] # "rst"
    BY <1>1, <1>3 DEF Resets
  <1> QED BY <1>1, <1>2, <1>3, <1>4 DEF ClientStreams, StreamCount

\* Steps of the loop that leave the control connection alone.
LEMMA SendingKept ==
  ASSUME TypeInv, Protocol, running, cstate = "TestRunning", proc["client"] \in {"Loop", "Sending", "Leaving"},
         proc'["client"] \in {"Loop", "Sending", "Leaving"}, proc'["server"] = proc["server"],
         batch'["server"] = batch["server"], batch'["client"] \subseteq batch["client"],
         \A i \in Streams : dfin'[i] = dfin[i] \/ dfin'[i] = "rst",
         UNCHANGED << ctrlVars, ready, reg, listenVars, serverVars, cstate, running, cstreams, parsed >>
  PROVE  /\ Connection' /\ ClientPlace' /\ Started' /\ Resets' /\ ServerEvents' /\ ClientEvents'
         /\ StreamCount' /\ ClientStreams'
  <1> USE DEF TypeInv, TypeOK, CtrlTypeOK, LoopTypeOK, DataTypeOK, Protocol
  <1>1. Alive /\ Alive'
    BY DEF Alive, Gone
  <1>2. Phase
    BY <1>1, ClientPhase
  <1>3. Connection' /\ ClientPlace' /\ Resets'
    BY <1>1 DEF Connection, ClientPlace, Resets, At, Up, Alive, Gone, ctrlVars, listenVars, serverVars
  <1>4. Started'
    <2>1. Phase'
      BY <1>1, <1>2 DEF Phase, At, None, AtMost, ctrlVars, serverVars
    <2> QED BY <1>1, <2>1 DEF Started, Restarted, listenVars, serverVars
  <1>5. ServerEvents'
    BY <1>1, ServerKept DEF ctrlVars
  <1>6. ClientEvents' /\ ClientStreams'
    BY <1>1 DEF ClientEvents, ClientStreams, OneEach, CtrlReadable, ctrlVars
  <1>7. StreamCount'
    BY DEF StreamCount, listenVars, serverVars
  <1> QED BY <1>3, <1>4, <1>5, <1>6, <1>7

LEMMA CSendProtocol ==
  ASSUME TypeInv, Protocol, NEW e, CSend(e), UNCHANGED serverVars PROVE Protocol'
  <1> USE DEF TypeInv, TypeOK, CtrlTypeOK, LoopTypeOK, Protocol, CSend, Take
  <1>1. running
    BY DEF COnStream, ClientStreams, Alive, Gone
  <1>2. Cookies'
    BY CookiesKept DEF Sent, dataVars, serverVars
  <1> QED BY <1>1, <1>2, SendingKept DEF COnStream, dataVars

LEMMA CContinueProtocol ==
  ASSUME TypeInv, Protocol, CContinue, UNCHANGED serverVars PROVE Protocol'
  <1> USE DEF TypeInv, TypeOK, LoopTypeOK, Protocol, CContinue
  <1>1. Cookies'
    BY CookiesKept DEF Sent, dataVars, serverVars, clientVars
  <1> QED BY <1>1, InSending, SendingKept DEF dataVars, clientVars

LEMMA CWriteProtocol ==
  ASSUME TypeInv, Protocol, CWrite \/ CWriteFails, UNCHANGED serverVars PROVE Protocol'
  <1> USE DEF TypeInv, TypeOK, LoopTypeOK, DataTypeOK, ClientTypeOK, Protocol
  <1>1. proc["client"] = "Sending" /\ running /\ cstate = "TestRunning" /\ sstate = "TestRunning"
    BY InSending DEF CWrite, CWriteFails
  <1>2. /\ proc'["client"] \in {"Sending", "Leaving"} /\ proc'["server"] = proc["server"]
        /\ UNCHANGED << ctrlVars, ready, reg, batch, listenVars, dbuf, cstate, running, cstreams, parsed >>
        /\ \A i \in Streams : dfin'[i] = dfin[i] \/ dfin'[i] = "rst"
        /\ \/ UNCHANGED dwire
           \/ proc["server"] = "Loop" /\ dwire' = [dwire EXCEPT ![cidx] = Append(@, DATA)]
    BY DEF CWrite, CWriteFails, ServerUp, clientVars
  <1>3. Cookies'
    <2>1. \A i \in Streams : OnlyData(i) => OnlyData(i)'
      <3>1. \A q \in Seq({DATA}) : Append(q, DATA) \in Seq({DATA})
        OBVIOUS
      <3>2. \A i \in Streams : dwire'[i] = dwire[i] \/ dwire'[i] = Append(dwire[i], DATA)
        BY <1>2
      <3> QED BY <1>2, <3>1, <3>2 DEF OnlyData
    <2>2. \A i \in Streams : Sent(i)'
      BY <1>1, <1>2 DEF Sent
    <2>3. proc["server"] # "Loop" => \A i \in Streams : Empty(i)'
      BY <1>2 DEF Cookies, Empty
    <2> QED BY <1>1, <1>2, <2>1, <2>2, <2>3 DEF Cookies, serverVars
  <1> QED BY <1>1, <1>2, <1>3, SendingKept

LEMMA CFinishProtocol ==
  ASSUME TypeInv, Protocol, CFinish, UNCHANGED serverVars PROVE Protocol'
  <1> USE DEF TypeInv, TypeOK, CtrlTypeOK, LoopTypeOK, DataTypeOK, Protocol, CSends
  <1>1. /\ Alive /\ running /\ cstate = "TestRunning" /\ sstate = "TestRunning"
        /\ None("server") /\ None("client") /\ reg["client"] = Streams /\ cstreams = NumStreams
        /\ tail["server"] = "none" /\ sock["server"] \in {"open", "closed"} /\ sock["client"] # "reset"
    BY InSending DEF CFinish
  <1>2. /\ dfin' = [i \in Streams |-> IF dfin[i] = "open" THEN "fin" ELSE dfin[i]]
        /\ reg' = [reg EXCEPT !["client"] = {}]
        /\ ready' = [ready EXCEPT !["client"] = @ \ Streams]
        /\ proc' = [proc EXCEPT !["client"] = "Loop"]
        /\ cstate' = "ExchangeResults"
        /\ wire' = [wire EXCEPT !["server"] = Append(@, 5)]
        /\ UNCHANGED << buf, tail, sock, batch, listenVars, dwire, dbuf, running, cstreams, cidx, parsed >>
    BY <1>1, Bytes DEF CFinish, CanWrite, Streams
  <1>3. Alive'
    BY <1>2 DEF Alive, Gone
  <1>4. Connection' /\ ClientPlace' /\ Resets'
    BY <1>1, <1>2, <1>3 DEF Connection, ClientPlace, Resets, At, Up, Alive, Gone, None, listenVars, serverVars
  <1>5. Started'
    <2>1. Phase'
      BY <1>1, <1>2, Single DEF Phase, At, None, AtMost, serverVars
    <2> QED BY <1>1, <1>2, <2>1 DEF Started, Restarted, listenVars, serverVars
  <1>6. ServerEvents'
    BY <1>1, <1>2, ServerKept
  <1>7. ClientEvents' /\ ClientStreams'
    BY <1>1, <1>2 DEF ClientEvents, ClientStreams, OneEach, CtrlReadable
  <1>8. StreamCount'
    BY <1>1, <1>2 DEF StreamCount, listenVars, serverVars
  <1>9. Cookies'
    BY <1>1, <1>2, CookiesKept DEF Sent, serverVars
  <1> QED BY <1>4, <1>5, <1>6, <1>7, <1>8, <1>9

LEMMA ClientPollProtocol ==
  ASSUME TypeInv, Protocol, ClientPoll, UNCHANGED serverVars PROVE Protocol'
  <1> USE DEF TypeInv, TypeOK, CtrlTypeOK, LoopTypeOK, Protocol, ClientPoll
  <1>1. Poll("client") /\ UNCHANGED << proc, ctrlVars, reg, listenVars, dataVars, clientVars >>
    BY DEF Poll
  <1>2. /\ proc["client"] = "Loop" /\ batch["client"] = {} /\ ready'["client"] = {}
        /\ OneEach("client")'
        /\ \A e \in batch'["client"] : /\ e.src \in ready["client"] /\ Reported("client", e.src)
                                       /\ e.readable <=> Readable("client", e.src)
        /\ batch'["server"] = batch["server"] /\ ready'["server"] = ready["server"]
    BY <1>1, PollEvents
  <1>3. Connection' /\ ClientPlace' /\ Resets'
    BY <1>1, <1>2 DEF Connection, ClientPlace, Resets, At, Up, Alive, Gone, ctrlVars, listenVars, serverVars, clientVars
  <1>4. Started'
    BY <1>1 DEF Started, Phase, Restarted, Up, Alive, Gone, At, None, AtMost, OnlyResults,
                ctrlVars, listenVars, serverVars, clientVars
  <1>5. ServerEvents'
    BY <1>1, <1>2, ServerKept DEF Alive, Gone, ctrlVars
  <1>6. ClientEvents'
    <2>1. \A e \in batch'["client"] : e.src = CONTROL => (e.readable <=> CtrlReadable("client"))
      BY <1>2 DEF Readable
    <2> QED BY <1>1, <1>2, <2>1, Tokens DEF ClientEvents, CtrlReadable, Alive, Gone, ctrlVars, clientVars
  <1>7. ClientStreams'
    BY <1>1, <1>2 DEF ClientStreams, Alive, Gone, dataVars, clientVars
  <1>8. StreamCount'
    BY <1>1, <1>2 DEF StreamCount, serverVars, listenVars, clientVars
  <1>9. Cookies'
    BY <1>1, <1>2, CookiesKept DEF Sent, dataVars, serverVars, clientVars
  <1> QED BY <1>3, <1>4, <1>5, <1>6, <1>7, <1>8, <1>9

LEMMA ClientProtocol == ASSUME TypeInv, Protocol, Client PROVE Protocol'
  <1>0. UNCHANGED serverVars
    BY DEF Client
  <1>1. CASE ClientPoll
    BY <1>0, <1>1, ClientPollProtocol
  <1>2. ASSUME NEW e \in batch["client"], CHandle(e) PROVE Protocol'
    <2>1. CASE CIgnore(e) \/ CStart(e) \/ CParamExchange(e) \/ CCreateStreams(e) \/ CTestStart(e)
      BY <1>0, <2>1, CIgnoreProtocol, CStartProtocol, CParamExchangeProtocol, CCreateStreamsProtocol, CTestStartProtocol
    <2>2. CASE CRunning(e) \/ CExchangeResults(e) \/ CSend(e)
      BY <1>0, <2>2, CRunningProtocol, CExchangeResultsProtocol, CSendProtocol
    <2>3. CASE CError(e) \/ CEnd(e)
      BY <1>0, <2>3, ClientExitsProtocol DEF CError, CEnd, COnControl, Alive, Gone
    <2>4. CASE CRemoteError(e)
      <3>1. Alive /\ running /\ cstate = "TestRunning"
        BY <2>4 DEF CRemoteError, COnControl, Alive, Gone
      <3>2. reg["client"] = 1..cstreams
        BY <3>1 DEF Protocol, ClientStreams, StreamCount, Streams
      <3> QED BY <1>0, <2>4, <3>1, <3>2, ClientExitsProtocol DEF CRemoteError
    <2> QED BY <1>2, <2>1, <2>2, <2>3, <2>4 DEF CHandle
  <1>3. CASE CConnect \/ CPrint \/ CCookie
    BY <1>0, <1>3, CConnectProtocol, CPrintProtocol, CCookieProtocol
  <1>4. CASE CWrite \/ CWriteFails \/ CContinue \/ CFinish
    BY <1>0, <1>4, CWriteProtocol, CContinueProtocol, CFinishProtocol
  <1>5. CASE CShutdownFails
    BY <1>0, <1>5, ClientExitsProtocol DEF CShutdownFails, Alive, Gone
  <1> QED BY <1>1, <1>2, <1>3, <1>4, <1>5 DEF Client, ClientStep

-----------------------------------------------------------------------------
(* The network's steps. *)

LEMMA Appended ==
  ASSUME NEW S, NEW from \in Seq(S), NEW to \in Seq(S), from # << >>
  PROVE  Append(to, Head(from)) # << >>
  <1>1. Head(from) \in S
    OBVIOUS
  <1>2. Len(Append(to, Head(from))) = Len(to) + 1 /\ Len(to) \in Nat
    BY <1>1
  <1>3. Len(<< >>) = 0
    OBVIOUS
  <1> QED BY <1>2, <1>3

\* Only an end of the connection that is up receives a message; there is one.
LEMMA DeliverCtrlServer ==
  ASSUME TypeInv, Protocol, DeliverCtrl("server"), UNCHANGED << serverVars, clientVars >> PROVE Protocol'
  <1> USE DEF TypeInv, TypeOK, CtrlTypeOK, LoopTypeOK, Protocol
  <1>1. /\ wire["server"] # << >> /\ wire' = [wire EXCEPT !["server"] = Tail(@)]
        /\ UNCHANGED << proc, sock, reg, batch, listenVars, dataVars >>
    BY DEF DeliverCtrl
  <1>2. sock["server"] \in {"open", "closed"}
    BY <1>1 DEF Connection
  <1>3. Restarted \/ (Phase /\ (sstate \in {"Start", "ParamExchange"} \/ cstate \in {"ExchangeResults", "End"}))
    BY <1>1 DEF Started, Phase, At, None
  <1>4. Phase => buf["server"] = << >> /\ \E m : wire["server"] = << m >>
    BY <1>1 DEF Phase, At, None, AtMost
  <1>5. StreamCount' /\ ClientStreams' /\ ClientPlace' /\ Cookies'
    <2>1. StreamCount' /\ ClientPlace'
      BY <1>1 DEF StreamCount, ClientPlace, listenVars, serverVars, clientVars
    <2>2. Cookies'
      BY <1>1, CookiesKept DEF Sent, dataVars, serverVars, clientVars
    <2>3. ready'["client"] = ready["client"]
      BY DEF DeliverCtrl
    <2> QED BY <1>1, <2>1, <2>2, <2>3 DEF ClientStreams, Alive, Gone, dataVars, clientVars
  <1>6. ClientEvents'
    <2>1. ready'["client"] = ready["client"] /\ buf'["client"] = buf["client"]
      BY DEF DeliverCtrl
    <2> QED BY <1>1, <2>1 DEF ClientEvents, OneEach, CtrlReadable, Alive, Gone, clientVars
  <1>7. CASE sock["server"] = "open"
    <2>1. /\ buf' = [buf EXCEPT !["server"] = Append(@, Head(wire["server"]))] /\ UNCHANGED tail
          /\ ready' = [ready EXCEPT !["server"] = IF proc["server"] = "Accept" THEN @ ELSE @ \cup {CONTROL}]
      BY <1>7 DEF DeliverCtrl
    <2>2. Up /\ Phase
      BY <1>3, <1>7 DEF Connection, Restarted
    <2>3. Connection' /\ Resets'
      BY <1>1, <1>7, <2>1, <2>2 DEF Connection, Resets, At, Up, Alive, Gone, listenVars, serverVars, clientVars
    <2>4. Started'
      <3>1. PICK m : wire["server"] = << m >>
        BY <1>4, <2>2
      <3>2. buf["server"] = << >> /\ buf'["server"] = << m >> /\ wire'["server"] = << >>
        BY <1>1, <1>4, <2>1, <2>2, <3>1, Single
      <3>3. buf'["client"] = buf["client"] /\ wire'["client"] = wire["client"]
        BY <1>1, <2>1
      <3>4. Phase'
        BY <1>1, <2>2, <3>1, <3>2, <3>3, Single DEF Phase, At, None, AtMost, OnlyResults, Alive, Gone, serverVars, clientVars
      <3> QED BY <1>1, <2>2, <3>4 DEF Started, Up, listenVars
    <2>5. ServerEvents'
      <3>1. buf'["server"] # << >>
        BY <1>1, <2>1, Appended
      <3>2. \A e \in batch["server"] : e.src = CONTROL => ~e.readable \/ proc["server"] # "Loop"
        BY <1>4, <1>7, <2>2 DEF ServerEvents, CtrlReadable
      <3> QED BY <1>1, <1>7, <2>1, <3>1, <3>2, Tokens DEF ServerEvents, OneEach, CtrlReadable, Alive, Gone, serverVars
    <2> QED BY <1>5, <1>6, <2>3, <2>4, <2>5
  <1>8. CASE sock["server"] = "closed"
    <2>1. tail' = [tail EXCEPT !["client"] = "rst"] /\ UNCHANGED << buf, ready >>
      BY <1>8 DEF DeliverCtrl
    <2>2. ~Up
      BY <1>8 DEF Connection
    <2>3. Connection'
      BY <1>1, <1>8, <2>1, <2>2 DEF Connection, Up, Alive, Gone, listenVars, serverVars, clientVars
    <2>4. Resets'
      BY <1>1, <1>3, <2>1 DEF Resets, At, Restarted, serverVars, clientVars
    <2>5. Started'
      <3>1. CASE Phase
        <4>1. wire'["server"] = << >> /\ wire'["client"] = wire["client"] /\ buf["server"] = << >>
          BY <1>1, <1>4, <3>1, Single
        <4>2. Phase'
          BY <1>1, <2>1, <3>1, <4>1 DEF Phase, At, None, AtMost, OnlyResults, Alive, Gone, serverVars, clientVars
        <4>3. Restarted => Restarted'
          BY <1>1, <2>1, <4>1 DEF Restarted, Up, Alive, Gone, None, OnlyResults, listenVars, serverVars, clientVars
        <4> QED BY <1>1, <4>2, <4>3 DEF Started, listenVars
      <3>2. CASE Restarted
        <4>1. wire'["client"] = wire["client"]
          BY <1>1
        <4>2. Restarted'
          BY <1>1, <2>1, <3>2, <4>1 DEF Restarted, Up, Alive, Gone, None, OnlyResults, listenVars, serverVars, clientVars
        <4> QED BY <4>2 DEF Started
      <3> QED BY <1>3, <3>1, <3>2
    <2>6. ServerEvents'
      BY <1>1, <2>1, ServerKept DEF Alive, Gone
    <2> QED BY <1>5, <1>6, <2>3, <2>4, <2>5, <2>6
  <1> QED BY <1>2, <1>7, <1>8

\* A segment of the results arrives, or finds nobody.
LEMMA ResultsDelivered ==
  ASSUME TypeInv, OnlyResults, wire["client"] # << >>, wire' = [wire EXCEPT !["client"] = Tail(@)],
         buf' = [buf EXCEPT !["client"] = Append(@, Head(wire["client"]))]
  PROVE  OnlyResults'
  <1>1. \A b, w \in Seq({RESULTS}) : w # << >> =>
          /\ Append(b, Head(w)) \in Seq({RESULTS}) /\ Tail(w) \in Seq({RESULTS})
          /\ Len(Append(b, Head(w))) + Len(Tail(w)) = Len(b) + Len(w)
    OBVIOUS
  <1>2. wire'["client"] = Tail(wire["client"]) /\ buf'["client"] = Append(buf["client"], Head(wire["client"]))
    BY DEF TypeInv, TypeOK, CtrlTypeOK
  <1>3. PICK b, w \in Seq({RESULTS}) : b = buf["client"] /\ w = wire["client"]
    BY DEF OnlyResults
  <1>4. /\ Append(b, Head(w)) \in Seq({RESULTS}) /\ Tail(w) \in Seq({RESULTS})
        /\ Len(Append(b, Head(w))) + Len(Tail(w)) = Len(b) + Len(w)
    BY <1>1, <1>3
  <1> QED BY <1>2, <1>3, <1>4 DEF OnlyResults

LEMMA ResultsLost ==
  ASSUME TypeInv, OnlyResults, wire["client"] # << >>, wire' = [wire EXCEPT !["client"] = Tail(@)],
         buf["client"] = << >>, UNCHANGED buf
  PROVE  OnlyResults'
  <1>1. \A w \in Seq({RESULTS}) : w # << >> => Tail(w) \in Seq({RESULTS}) /\ Len(Tail(w)) <= Len(w)
    OBVIOUS
  <1>2. wire'["client"] = Tail(wire["client"])
    BY DEF TypeInv, TypeOK, CtrlTypeOK
  <1>3. /\ Len(buf["client"]) \in Nat /\ Len(wire["client"]) \in Nat /\ Len(Tail(wire["client"])) \in Nat
        /\ ResultSegs \in Nat
    BY <1>1, NetAssumption DEF OnlyResults
  <1>4. Len(buf["client"]) + Len(wire["client"]) <= ResultSegs
        /\ Len(Tail(wire["client"])) <= Len(wire["client"])
    BY <1>1 DEF OnlyResults
  <1>5. \A a, b, c, d \in Nat : a + b <= c /\ d <= b => a + d <= c
    OBVIOUS
  <1>6. Len(buf["client"]) + Len(Tail(wire["client"])) <= ResultSegs
    BY <1>3, <1>4, <1>5
  <1> QED BY <1>1, <1>2, <1>6 DEF OnlyResults

LEMMA DeliverCtrlClient ==
  ASSUME TypeInv, Protocol, DeliverCtrl("client"), UNCHANGED << serverVars, clientVars >> PROVE Protocol'
  <1> USE DEF TypeInv, TypeOK, CtrlTypeOK, LoopTypeOK, Protocol
  <1>1. /\ wire["client"] # << >> /\ wire' = [wire EXCEPT !["client"] = Tail(@)]
        /\ UNCHANGED << proc, sock, reg, batch, listenVars, dataVars >>
    BY DEF DeliverCtrl
  <1>2. sock["client"] \in {"open", "closed"}
    BY <1>1 DEF Connection
  <1>3. StreamCount' /\ ClientPlace' /\ Cookies'
    <2>1. StreamCount' /\ ClientPlace'
      BY <1>1 DEF StreamCount, ClientPlace, listenVars, serverVars, clientVars
    <2>2. Cookies'
      BY <1>1, CookiesKept DEF Sent, dataVars, serverVars, clientVars
    <2> QED BY <2>1, <2>2
  <1>4. wire'["server"] = wire["server"] /\ buf'["server"] = buf["server"] /\ ready'["server"] = ready["server"]
    BY DEF DeliverCtrl
  <1>5. ServerEvents'
    BY <1>1, <1>4, ServerKept DEF Alive, Gone
  <1>6. CASE sock["client"] = "open"
    <2>1. /\ buf' = [buf EXCEPT !["client"] = Append(@, Head(wire["client"]))] /\ UNCHANGED tail
          /\ ready'["client"] = ready["client"] \cup {CONTROL}
      BY <1>6 DEF DeliverCtrl, Connection
    <2>2. Alive /\ Alive'
      BY <1>1, <1>6 DEF Connection, Alive, Gone
    <2>3. Connection' /\ Resets'
      BY <1>1, <1>4, <1>6, <2>1, <2>2 DEF Connection, Resets, At, Up, Alive, Gone, listenVars, serverVars, clientVars
    <2>4. OnlyResults => OnlyResults'
      BY <1>1, <2>1, ResultsDelivered
    <2>5. cstate \notin {"ExchangeResults", "End"} => buf["client"] = << >> /\ \E m : wire["client"] = << m >>
      BY <1>1, <2>2 DEF Started, Restarted, Phase, At, None, AtMost
    <2>6. Started'
      <3>1. Phase => Phase'
        <4>1. CASE cstate \in {"ExchangeResults", "End"}
          BY <1>1, <1>4, <2>1, <2>4, <4>1 DEF Phase, At, None, AtMost, serverVars, clientVars
        <4>2. CASE cstate \notin {"ExchangeResults", "End"}
          <5>1. PICK m : wire["client"] = << m >>
            BY <2>5, <4>2
          <5>2. buf["client"] = << >> /\ buf'["client"] = << m >> /\ wire'["client"] = << >>
            BY <1>1, <2>1, <2>5, <4>2, <5>1, Single
          <5> QED BY <1>1, <1>4, <4>2, <5>1, <5>2, Single DEF Phase, At, None, AtMost, Alive, Gone, serverVars, clientVars
        <4> QED BY <4>1, <4>2
      <3>2. Restarted => Restarted'
        BY <1>1, <2>2, <2>4 DEF Restarted, Up, None, listenVars, serverVars, clientVars
      <3> QED BY <1>1, <3>1, <3>2 DEF Started, listenVars
    <2>7. ClientEvents'
      <3>1. buf'["client"] # << >>
        BY <1>1, <2>1, Appended
      <3>2. cstate \notin {"ExchangeResults", "End"} =>
              \A e \in batch["client"] : e.src = CONTROL => ~e.readable
        BY <1>6, <2>2, <2>5 DEF ClientEvents, CtrlReadable
      <3> QED BY <1>1, <1>6, <2>1, <2>2, <3>1, <3>2, Tokens DEF ClientEvents, OneEach, CtrlReadable, clientVars
    <2>8. ClientStreams'
      BY <1>1, <2>1, <2>2, Tokens DEF ClientStreams, dataVars, clientVars
    <2> QED BY <1>3, <1>5, <2>3, <2>6, <2>7, <2>8
  <1>7. CASE sock["client"] = "closed"
    <2>1. tail' = [tail EXCEPT !["server"] = "rst"] /\ UNCHANGED << buf, ready >>
      BY <1>7 DEF DeliverCtrl
    <2>2. ~Alive /\ ~Alive' /\ buf["client"] = << >>
      BY <1>1, <1>7 DEF Connection, Alive, Gone
    <2>3. Connection'
      BY <1>1, <1>7, <2>1, <2>2 DEF Connection, Up, Alive, Gone, listenVars, serverVars, clientVars
    <2>4. Resets'
      <3>1. /\ ~At("CreateStreams", "TestStart") /\ ~At("TestStart", "TestRunning")
            /\ At("CreateStreams", "CreateStreams") => ~(cstreams > 0)
        BY <1>1 DEF Started, Restarted, Phase, At, None
      <3> QED BY <1>1, <2>1, <3>1 DEF Resets, At, serverVars, clientVars
    <2>5. Started'
      <3>1. Phase => Phase'
        <4>1. OnlyResults => OnlyResults'
          BY <1>1, <2>1, <2>2, ResultsLost
        <4>2. \A m : wire["client"] = << m >> => wire'["client"] = << >>
          BY <1>1, Single
        <4> QED BY <1>1, <1>4, <2>1, <2>2, <4>1, <4>2
                DEF Phase, At, None, AtMost, serverVars, clientVars
      <3>2. Restarted => Restarted'
        BY <1>1, <2>2 DEF Restarted, Up, listenVars, serverVars, clientVars
      <3> QED BY <1>1, <3>1, <3>2 DEF Started, listenVars
    <2>6. ClientEvents' /\ ClientStreams'
      BY <2>2 DEF ClientEvents, ClientStreams
    <2> QED BY <1>3, <1>5, <2>3, <2>4, <2>5, <2>6
  <1> QED BY <1>2, <1>6, <1>7

\* The FIN or RST of a side that has left reaches the other.
LEMMA DeliverTailProtocol ==
  ASSUME TypeInv, Protocol, NEW x \in Side, DeliverTail(x), UNCHANGED << serverVars, clientVars >>
  PROVE  Protocol'
  <1> USE DEF TypeInv, TypeOK, CtrlTypeOK, LoopTypeOK, Protocol
  <1>1. /\ wire[x] = << >> /\ tail[x] # "none" /\ tail' = [tail EXCEPT ![x] = "none"]
        /\ UNCHANGED << proc, wire, buf, reg, batch, listenVars, dataVars >>
        /\ sock'[Other(x)] = sock[Other(x)] /\ ready'[Other(x)] = ready[Other(x)]
        /\ sock[x] = "closed" => sock'[x] = "closed" /\ ready'[x] = ready[x]
        /\ sock[x] # "closed" =>
             /\ sock'[x] = IF tail[x] = "rst" THEN "reset" ELSE "eof"
             /\ ready'[x] = IF proc[x] = "Accept" THEN ready[x] ELSE ready[x] \cup {CONTROL}
    BY DEF DeliverTail
  <1>2. (x = "server" => ~Alive) /\ (x = "client" => ~Up)
    BY <1>1 DEF Connection
  <1>3. Connection'
    BY <1>1, <1>2 DEF Connection, Up, Alive, Gone, listenVars, clientVars
  <1>4. Resets'
    BY <1>1 DEF Resets, At, serverVars, clientVars
  <1>5. Started'
    BY <1>1 DEF Started, Phase, Restarted, Up, Alive, Gone, At, None, AtMost, OnlyResults, listenVars, serverVars, clientVars
  <1>6. ServerEvents'
    BY <1>1, <1>2, Tokens DEF ServerEvents, OneEach, CtrlReadable, Alive, Gone, serverVars
  <1>7. ClientEvents' /\ ClientStreams'
    BY <1>1, <1>2, Tokens DEF ClientEvents, ClientStreams, OneEach, CtrlReadable, Alive, Gone, dataVars, clientVars
  <1>8. StreamCount' /\ ClientPlace'
    BY <1>1 DEF StreamCount, ClientPlace, listenVars, serverVars, clientVars
  <1>9. Cookies'
    BY <1>1, CookiesKept DEF Sent, dataVars, serverVars, clientVars
  <1> QED BY <1>3, <1>4, <1>5, <1>6, <1>7, <1>8, <1>9

\* What stays when only a data connection and the server's ready list change.
LEMMA DataKept ==
  ASSUME TypeInv, Protocol, proc["server"] = "Loop", NEW i \in Streams, ServerEdge(i),
         dfin' = dfin \/ (dfin[i] = "fin" /\ dfin' = [dfin EXCEPT ![i] = "eof"]),
         UNCHANGED << proc, ctrlVars, reg, batch, listenVars, serverVars, clientVars >>
  PROVE  /\ Connection' /\ ClientPlace' /\ Started' /\ Resets' /\ ServerEvents' /\ ClientEvents'
         /\ StreamCount' /\ ClientStreams'
  <1> USE DEF TypeInv, TypeOK, CtrlTypeOK, LoopTypeOK, DataTypeOK, Protocol
  <1>1. ready'["server"] \subseteq ready["server"] \cup {i} /\ ready'["client"] = ready["client"]
    BY DEF ServerEdge
  <1>2. Connection' /\ ClientPlace' /\ Resets'
    BY DEF Connection, ClientPlace, Resets, At, Up, Alive, Gone, ctrlVars, listenVars, serverVars, clientVars
  <1>3. Started'
    BY DEF Started, Phase, Restarted, Up, Alive, Gone, At, None, AtMost, OnlyResults,
           ctrlVars, listenVars, serverVars, clientVars
  <1>4. ServerEvents'
    BY <1>1, Tokens DEF ServerEvents, OneEach, CtrlReadable, Alive, Gone, ctrlVars, serverVars
  <1>5. ClientEvents' /\ ClientStreams'
    BY <1>1 DEF ClientEvents, ClientStreams, OneEach, CtrlReadable, Alive, Gone, ctrlVars, clientVars
  <1>6. StreamCount'
    BY DEF StreamCount, listenVars, serverVars, clientVars
  <1> QED BY <1>2, <1>3, <1>4, <1>5, <1>6

LEMMA NetDataProtocol == ASSUME TypeInv, Protocol, NEW i \in Streams, NetData(i) PROVE Protocol'
  <1> USE DEF TypeInv, TypeOK, LoopTypeOK, DataTypeOK, Protocol
  <1>1. CASE DeliverData(i)
    <2>1. /\ dwire[i] # << >> /\ dwire' = [dwire EXCEPT ![i] = Tail(@)]
          /\ dbuf' = [dbuf EXCEPT ![i] = Append(@, Head(dwire[i]))] /\ ServerEdge(i)
          /\ UNCHANGED << proc, ctrlVars, reg, batch, listenVars, dfin, serverVars, clientVars >>
      BY <1>1 DEF DeliverData, NetData
    <2>2. proc["server"] = "Loop"
      BY <2>1 DEF Cookies, Empty
    <2>3. dbuf'[i] # << >>
      BY <2>1, Appended
    <2>4. \A j \in Streams : (Sent(j)' <=> Sent(j)) /\ (Empty(j)' <=> Empty(j))
      BY <2>1, <2>3 DEF Sent, Empty, clientVars
    <2>5. Drained' = Drained
      BY <2>4 DEF Drained
    <2>6. \A j \in Streams : HasCookie(j) => HasCookie(j)'
      BY <2>1, Single DEF HasCookie
    <2>7. \A j \in Streams : OnlyData(j) => OnlyData(j)'
      <3>1. \A b, w \in Seq({DATA}) : w # << >> => Append(b, Head(w)) \in Seq({DATA}) /\ Tail(w) \in Seq({DATA})
        OBVIOUS
      <3> QED BY <2>1, <3>1 DEF OnlyData
    <2>8. Cookies'
      <3>1. \A j \in Streams : dbuf[j] # << >> => dbuf'[j] # << >>
        BY <2>1, <2>3
      <3> QED BY <2>1, <2>2, <2>4, <2>5, <2>6, <2>7, <3>1 DEF Cookies, serverVars
    <2> QED BY <2>1, <2>2, <2>8, DataKept
  <1>2. CASE DeliverFin(i)
    <2>1. /\ dfin[i] = "fin" /\ dfin' = [dfin EXCEPT ![i] = "eof"] /\ ServerEdge(i) /\ proc["server"] = "Loop"
          /\ UNCHANGED << proc, ctrlVars, reg, batch, listenVars, dwire, dbuf, serverVars, clientVars >>
      BY <1>2 DEF DeliverFin, NetData
    <2>2. Cookies'
      BY <2>1, CookiesKept DEF Sent, serverVars, clientVars
    <2> QED BY <2>1, <2>2, DataKept
  <1> QED BY <1>1, <1>2 DEF NetData

-----------------------------------------------------------------------------
LEMMA NextProtocol == TypeInv /\ Protocol /\ [Next]_vars => Protocol'
  <1> SUFFICES ASSUME TypeInv, Protocol, [Next]_vars PROVE Protocol'
    OBVIOUS
  <1>1. CASE Server
    BY <1>1, ServerProtocol
  <1>2. CASE Client
    BY <1>2, ClientProtocol
  <1>3. CASE Time
    BY <1>3, TakenProtocol DEF Time, Tick, netVars
  <1>4. ASSUME NEW x \in Side, NetCtrl(x) PROVE Protocol'
    BY <1>4, DeliverCtrlServer, DeliverCtrlClient, DeliverTailProtocol DEF NetCtrl
  <1>5. ASSUME NEW i \in Streams, NetData(i) PROVE Protocol'
    BY <1>5, NetDataProtocol
  <1>6. CASE Killed
    BY <1>6, ServerKilledProtocol, ClientExitsProtocol DEF Killed, ClientKilled, Alive
  <1>7. CASE UNCHANGED vars
    BY <1>7, TakenProtocol DEF vars, netVars, clientVars
  <1> QED BY <1>1, <1>2, <1>3, <1>4, <1>5, <1>6, <1>7 DEF Next, Finished

LEMMA ProtocolInvariant == Spec => [](TypeInv /\ Protocol)
  <1>1. Init => TypeInv /\ Protocol
    BY InitTypeInv, InitProtocol
  <1>2. TypeInv /\ Protocol /\ [Next]_vars => (TypeInv /\ Protocol)'
    BY NextTypeInv, NextProtocol
  <1> QED BY <1>1, <1>2, PTL DEF Spec

-----------------------------------------------------------------------------
(* What the invariant says of the session. *)

\* None of the panics of ServerImpl::run is reachable: the unwrap of the
\* settings, of accept() and of send_state, and the deregister of Test::end.
\* Of ClientImpl::run's one is, the unwrap of print_new_stream, and only
\* behind a server that was killed with the connection in its queue.
THEOREM NeverPanics == Spec => []NoPanic
  <1>1. Protocol => NoPanic
    BY DEF Protocol, Connection, NoPanic
  <1> QED BY <1>1, ProtocolInvariant, PTL

\* At most one message m is unread.
LEMMA OneMessage ==
  ASSUME NEW x \in Side, NEW E, None(x) \/ \E m \in E : AtMost(x, m)
  PROVE  LET unread == buf[x] \o wire[x]
         IN (\A k \in DOMAIN unread : unread[k] \in E) /\ Len(unread) <= 1
  <1> DEFINE unread == buf[x] \o wire[x]
  <1>1. unread = << >> \/ \E m \in E : unread = << m >>
    BY Single, SingleLeft, NoMessage DEF None, AtMost
  <1> HIDE DEF unread
  <1>2. unread = << >> => (\A k \in DOMAIN unread : unread[k] \in E) /\ Len(unread) <= 1
    BY NoMessage
  <1>3. ASSUME NEW m \in E, unread = << m >> PROVE (\A k \in DOMAIN unread : unread[k] \in E) /\ Len(unread) <= 1
    BY <1>3
  <1>4. (\A k \in DOMAIN unread : unread[k] \in E) /\ Len(unread) <= 1
    BY <1>1, <1>2, <1>3
  <1> QED BY <1>4 DEF unread

LEMMA UnreadResults ==
  ASSUME OnlyResults
  PROVE  LET unread == buf["client"] \o wire["client"]
         IN (\A k \in DOMAIN unread : unread[k] \in {RESULTS}) /\ Len(unread) <= ResultSegs
  <1>1. \A b, w \in Seq({RESULTS}) : b \o w \in Seq({RESULTS}) /\ Len(b \o w) = Len(b) + Len(w)
    OBVIOUS
  <1>2. \A q \in Seq({RESULTS}) : \A k \in DOMAIN q : q[k] \in {RESULTS}
    OBVIOUS
  <1> QED BY <1>1, <1>2 DEF OnlyResults

\* drain_message reads whatever is there: in every state of either side that
\* is only the message the state's handler is written for.
THEOREM MessagesMatch == Spec => []MessageMatchesState
  <1> DEFINE Matches(x) ==
        LET unread == buf[x] \o wire[x]
        IN /\ \A k \in DOMAIN unread : unread[k] \in Expected(x)
           /\ Len(unread) <= IF RESULTS \in Expected(x) THEN ResultSegs ELSE 1
  <1>1. ASSUME TypeInv, Protocol, proc["server"] = "Loop" PROVE Matches("server")
    <2>1. Phase
      BY <1>1 DEF Protocol, Started, Restarted, Up
    <2>2. None("server") \/ \E m \in Expected("server") : AtMost("server", m)
      BY <2>1, Bytes DEF Phase, At, Expected
    <2>3. RESULTS \notin Expected("server")
      BY Bytes DEF Expected, RESULTS, COOKIE, SETTINGS
    <2> HIDE DEF Expected
    <2> QED BY <2>2, <2>3, OneMessage
  <1>2. ASSUME TypeInv, Protocol, proc["client"] \in {"Loop", "Connecting", "Printing", "Cookies", "Sending", "Leaving"}
        PROVE  Matches("client")
    <2>0. Alive
      BY <1>2 DEF Alive, Gone
    <2>1. CASE cstate \in {"ExchangeResults", "End"} /\ OnlyResults /\ (parsed => None("client"))
      <3>1. proc["client"] \notin {"Connecting", "Printing", "Cookies"}
        BY <1>2, <2>1 DEF TypeInv, Counters, Protocol, ClientPlace
      <3>2. CASE cstate = "End" /\ parsed
        <4>1. Expected("client") = {}
          BY <3>1, <3>2 DEF Expected
        <4> QED BY <2>1, <3>2, <4>1, OneMessage
      <3>3. CASE ~(cstate = "End" /\ parsed)
        <4>1. Expected("client") = {RESULTS}
          BY <2>1, <3>1, <3>3 DEF Expected
        <4> QED BY <2>1, <4>1, UnreadResults
      <3> QED BY <3>2, <3>3
    <2>2. CASE cstate = "ExchangeResults" /\ None("client")
      <3>1. OnlyResults
        <4>1. << >> \in Seq({RESULTS}) /\ Len(<< >>) = 0 /\ ResultSegs \in Nat
          BY NetAssumption
        <4> QED BY <2>2, <4>1 DEF None, OnlyResults
      <3> QED BY <1>2, <2>1, <2>2, <3>1
    <2>3. CASE cstate \notin {"ExchangeResults", "End"}
      <3>1. Phase
        BY <1>2, <2>0, <2>3, ClientPhase
      <3>2. None("client") \/ \E m \in Expected("client") : AtMost("client", m)
        <4>1. CASE proc["client"] = "Printing"
          <5>1. cstate = "CreateStreams"
            BY <1>2, <4>1 DEF TypeInv, Counters
          <5>2. None("client") \/ (AtMost("client", 3) /\ cstreams = NumStreams)
            BY <3>1, <4>1, <5>1 DEF Phase, At
          <5>3. cstreams = NumStreams => Expected("client") = {3}
            BY <4>1, Bytes DEF Expected, LastConnect
          <5> QED BY <5>2, <5>3
        <4>2. CASE proc["client"] # "Printing"
          <5>1. CASE proc["client"] \in {"Connecting", "Cookies"}
            BY <1>2, <2>0, <3>1, <5>1 DEF Phase, At, TypeInv, Counters, Protocol, ClientPlace
          <5>2. CASE proc["client"] \notin {"Connecting", "Cookies"}
            <6>1. /\ cstate \in {"ParamExchange", "CreateStreams", "TestStart"} => Expected("client") = {as_u8(cstate)}
                  /\ cstate = "TestRunning" /\ ~running => Expected("client") = {as_u8("TestRunning")}
              BY <4>2, <5>2 DEF Expected
            <6>2. \/ None("client")
                  \/ cstate \in {"ParamExchange", "CreateStreams", "TestStart"} /\ AtMost("client", as_u8(cstate))
                  \/ cstate = "TestRunning" /\ ~running /\ AtMost("client", as_u8("TestRunning"))
              BY <2>0, <2>3, <3>1, <4>2, Bytes DEF Phase, At
            <6> QED BY <6>1, <6>2
          <5> QED BY <5>1, <5>2
        <4> QED BY <4>1, <4>2
      <3>3. RESULTS \notin Expected("client")
        BY <2>3, Bytes DEF Expected, RESULTS
      <3> QED BY <3>2, <3>3, OneMessage
    <2> QED BY <1>2, <2>0, <2>1, <2>2, <2>3 DEF Protocol, Started, Restarted, Phase, At, ClientPlace
  <1>3. TypeInv /\ Protocol => MessageMatchesState
    <2> SUFFICES ASSUME TypeInv, Protocol PROVE MessageMatchesState
      OBVIOUS
    <2>1. proc["server"] \in {"Accept", "Loop", "Killed"}
      BY DEF Protocol, Connection
    <2> QED BY <1>1, <1>2, <2>1 DEF MessageMatchesState
  <1> QED BY <1>3, ProtocolInvariant, PTL

\* recv() of the server counts no cookie as test data, and the cookies are
\* counted on connections that carry nothing else yet.
THEOREM CookiesApart == Spec => []CookieBarrier
  <1>1. Protocol => CookieBarrier
    <2> SUFFICES ASSUME Protocol, NEW i \in Streams
                 PROVE  LET unread == dbuf[i] \o dwire[i]
                        IN /\ sstate = "TestRunning" => \A k \in DOMAIN unread : unread[k] = DATA
                           /\ sstate \in {"CreateStreams", "TestStart"} => unread \in {<< >>, << COOKIE >>}
      BY DEF CookieBarrier
    <2>1. Empty(i) => dbuf[i] \o dwire[i] = << >>
      BY NoMessage DEF Empty
    <2>2. HasCookie(i) => dbuf[i] \o dwire[i] = << COOKIE >>
      BY Single, SingleLeft DEF HasCookie
    <2>3. OnlyData(i) => \A k \in DOMAIN (dbuf[i] \o dwire[i]) : (dbuf[i] \o dwire[i])[k] = DATA
      <3>1. \A b, w \in Seq({DATA}) : b \o w \in Seq({DATA})
        OBVIOUS
      <3>2. \A q \in Seq({DATA}) : \A k \in DOMAIN q : q[k] = DATA
        OBVIOUS
      <3> QED BY <3>1, <3>2 DEF OnlyData
    <2>4. CASE proc["server"] = "Loop"
      BY <2>1, <2>2, <2>3, <2>4 DEF Protocol, Cookies
    <2>5. CASE proc["server"] # "Loop"
      BY <2>1, <2>5, NoMessage DEF Protocol, Cookies
    <2> QED BY <2>4, <2>5
  <1> QED BY <1>1, ProtocolInvariant, PTL

\* "this state for this token can only be hit if the server is shutdown
\* unplanned": the client's Remote error arm is reached only after the server
\* process has gone.
THEOREM RemoteErrorOnlyAfterLoss == Spec => []RemoteErrorIsReal
  <1>1. ASSUME TypeInv, Protocol PROVE RemoteErrorIsReal
    <2> SUFFICES ASSUME running, cstate = "TestRunning", CtrlReadable("client"), ~Gone("client")
                 PROVE  Gone("server")
      BY DEF RemoteErrorIsReal
    <2>1. Phase /\ sock["client"] \in {"open", "eof", "reset"}
      BY <1>1, ClientPhase DEF Alive
    <2>2. None("client")
      BY <2>1 DEF Phase, At, Alive
    <2>3. ~Up
      BY <1>1, <2>1, <2>2 DEF Protocol, Connection, CtrlReadable, None
    <2>4. proc["server"] = "Killed"
      BY <1>1, <2>3 DEF Protocol, Connection, Up, Started, Restarted, Alive
    <2> QED BY <2>4 DEF Gone
  <1> QED BY <1>1, ProtocolInvariant, PTL

-----------------------------------------------------------------------------
(* The session implements Lockstep.  A step that moves one machine leaves the *)
(* other, so the pair of states before and the pair after are rows of the same *)
(* table; the other machine's state is the one the two rows have in common.  *)

LEMMA ServerTurn ==
  ASSUME TypeInv, Protocol, Protocol', Server PROVE [Turns!Next]_<< sstate, cstate >>
  <1> USE DEF Turns!Next, Turns!ServerAdvances, Turns!ServerMove, Turns!ServerGivesUp, Turns!ServerRestarts
  <1>0. UNCHANGED cstate
    BY DEF Server, clientVars
  <1>1. CASE SAccept \/ ServerPoll
    BY <1>0, <1>1 DEF SAccept, ServerPoll, serverVars
  <1>2. ASSUME NEW e \in batch["server"], SHandle(e) PROVE [Turns!Next]_<< sstate, cstate >>
    <2>0. Phase
      BY InLoop
    <2>1. CASE SIgnore(e) \/ SUnexpected(e) \/ SRead(e)
      BY <1>0, <2>1 DEF SIgnore, SUnexpected, SRead, serverVars
    <2>2. CASE SError(e) \/ SEnd(e)
      BY <1>0, <2>2 DEF SError, SEnd, Restart
    <2>3. CASE ServerPanics
      BY <1>0, <2>3 DEF ServerPanics, serverVars
    <2>4. CASE ~ServerPanics /\ ~SError(e) /\ ~SEnd(e)
      <3>0. proc'["server"] = "Loop"
        BY <1>2, <2>4, InLoop
           DEF SHandle, SIgnore, SStart, SParamExchange, STestRunning, SClientShutdown, STestEnd,
               SExchangeResults, SCreateStream, SCookie, SRead, SUnexpected
      <3>1. Phase'
        BY <3>0 DEF Protocol, Started, Restarted, Up
      <3>2. CASE SStart(e) \/ SParamExchange(e) \/ STestEnd(e) \/ SExchangeResults(e)
        BY <1>0, <2>0, <2>4, <3>1, <3>2 DEF SStart, SParamExchange, STestEnd, SExchangeResults, Phase, At
      <3>3. CASE STestRunning(e) \/ SClientShutdown(e)
        <4>1. sstate = "TestRunning" /\ sstate' \in {"TestEnd", "End"}
          BY <2>4, <3>3, RequestedType DEF STestRunning, SClientShutdown
        <4> QED BY <1>0, <3>1, <4>1 DEF Phase, At
      <3>4. CASE SCreateStream(e) \/ SCookie(e)
        <4>1. \/ UNCHANGED sstate
              \/ sstate = "CreateStreams" /\ sstate' = "TestStart"
              \/ sstate = "TestStart" /\ sstate' = "TestRunning"
          BY <2>4, <3>4 DEF SCreateStream, SCookie
        <4> QED BY <1>0, <2>0, <3>1, <4>1 DEF Phase, At
      <3> QED BY <1>2, <2>1, <2>4, <3>2, <3>3, <3>4 DEF SHandle
    <2> QED BY <2>2, <2>3, <2>4
  <1> QED BY <1>1, <1>2 DEF Server, ServerStep

LEMMA ClientTurn ==
  ASSUME TypeInv, Protocol, Protocol', Client PROVE [Turns!Next]_<< sstate, cstate >>
  <1> USE DEF Turns!Next, Turns!ClientAdvances, Turns!ClientMove
  <1>0. UNCHANGED sstate
    BY DEF Client, serverVars
  <1>1. CASE UNCHANGED cstate
    BY <1>0, <1>1
  <1>2. CASE cstate' # cstate
    <2> DEFINE Moves == /\ proc["client"] \in {"Loop", "Printing", "Cookies", "Leaving"}
                        /\ proc'["client"] = "Loop"
                        /\ \/ cstate = "Start" /\ cstate' = "ParamExchange"
                           \/ cstate = "ParamExchange" /\ cstate' = "CreateStreams"
                           \/ cstate = "CreateStreams" /\ cstate' = "TestStart"
                           \/ cstate = "TestStart" /\ cstate' = "TestRunning"
                           \/ cstate = "TestRunning" /\ cstate' = "ExchangeResults"
                           \/ cstate = "ExchangeResults" /\ cstate' = "End"
    <2>1. Moves
      <3> USE DEF TypeInv, TypeOK, LoopTypeOK
      <3>1. CASE CPrint
        BY <1>2, <3>1 DEF CPrint, TypeInv, Counters, ClientExits, clientVars
      <3>2. CASE CCookie
        BY <1>2, <3>2 DEF CCookie, Protocol, ClientPlace
      <3>3. CASE CFinish
        BY <1>2, <3>3, InSending DEF CFinish, ClientExits, clientVars
      <3>4. CASE ClientPoll \/ CConnect \/ CWrite \/ CWriteFails \/ CContinue \/ CShutdownFails
        BY <1>2, <3>4 DEF ClientPoll, CConnect, CWrite, CWriteFails, CContinue, CShutdownFails, ClientExits, clientVars
      <3>5. ASSUME NEW e \in batch["client"], CHandle(e)
            PROVE  CStart(e) \/ CParamExchange(e) \/ CExchangeResults(e)
        BY <1>2, <3>5 DEF CHandle, CIgnore, CError, CCreateStreams, CTestStart, CRunning, CRemoteError, CEnd, CSend,
                           ClientExits, clientVars
      <3>6. ASSUME NEW e \in batch["client"], CHandle(e) PROVE Moves
        BY <3>5, <3>6 DEF CStart, CParamExchange, CExchangeResults, DrainsAny, COnControl
      <3> QED BY <3>1, <3>2, <3>3, <3>4, <3>6 DEF Client, ClientStep
    <2>2. Phase
      BY <2>1, ClientPhase DEF Alive, Gone
    <2>3. Phase' \/ (sstate' = "Start" /\ cstate' = "End")
      BY <2>1 DEF Protocol, Started, Restarted, Alive, Gone
    <2>4. sstate # "End" \/ cstate # "TestRunning"
      BY <2>1, <2>2 DEF Phase, At, Alive, Gone
    <2> QED BY <1>0, <2>1, <2>2, <2>3, <2>4 DEF Phase, At
  <1> QED BY <1>1, <1>2

\* The server and the client of a session move in turns, as Lockstep says.
THEOREM ImplementsLockstep == Spec => TakesTurns
  <1>1. Init => Turns!Init
    BY DEF Init, ServerInit, ClientInit, Turns!Init
  <1>2. TypeInv /\ Protocol /\ Protocol' /\ [Next]_vars => [Turns!Next]_<< sstate, cstate >>
    <2> SUFFICES ASSUME TypeInv, Protocol, Protocol', [Next]_vars, UNCHANGED << sstate, cstate >> \/ Server \/ Client
                 PROVE  [Turns!Next]_<< sstate, cstate >>
      BY DEF Next, Time, Tick, NetCtrl, NetData, Killed, ClientKilled, ServerKilled, ClientExits, Finished,
             vars, serverVars, clientVars
    <2> QED BY ServerTurn, ClientTurn
  <1> QED BY <1>1, <1>2, ProtocolInvariant, PTL DEF Spec, TakesTurns, Turns!Spec

-----------------------------------------------------------------------------
(***************************************************************************)
(* No event of the edge-triggered loops is lost.  Both loops wait in       *)
(* poll() for an edge that comes once; the invariants say, source by       *)
(* source, where the edge of everything still to be handled is (Watched    *)
(* for the server, Woken for the client).  They rest on Protocol, which    *)
(* says what can be unread in each phase.                                  *)
(***************************************************************************)

\* A ready source, or an event of it in the batch.
HasEdge(s) == s \in ready["server"] \/ \E e \in batch["server"] : e.src = s
StreamEvent == \E e \in batch["server"] : e.src \in Streams

Serving == proc["server"] = "Loop" /\ Alive

\* An unread control message has a readable event.
ControlWatched ==
  buf["server"] # << >> =>
    CONTROL \in ready["server"] \/ \E e \in batch["server"] : e.src = CONTROL /\ e.readable

\* In TestEnd and ExchangeResults the loop has woken itself.
WakerWatched == sstate \in {"TestEnd", "ExchangeResults"} => HasEdge(WAKER)

\* The `break` of an unexpected stream event drops the rest of the batch.  It
\* drops no control event: the streams are deregistered by then, and those of
\* the batch at that moment came with the control event already handled.
DropsNothing ==
  sstate \in {"ExchangeResults", "End"} =>
    /\ reg["server"] = {} /\ ready["server"] \cap Streams = {}
    /\ sstate = "End" => ~StreamEvent
    /\ StreamEvent => \A e \in batch["server"] : e.src \notin {CONTROL, WAKER}

\* The listener's handler accepts one connection per event, which is enough
\* while the client's connects are apart.
ListenerWatched ==
  /\ backlog <= 1
  /\ sstate = "CreateStreams" => listening /\ (backlog > 0 => HasEdge(TCP_LISTENER))

StreamsWatched ==
  sstate \in {"TestStart", "TestRunning"} => \A i \in Streams : dbuf[i] # << >> => HasEdge(i)

Watched ==
  Serving => ControlWatched /\ WakerWatched /\ DropsNothing /\ ListenerWatched /\ StreamsWatched

-----------------------------------------------------------------------------
(* The server's events. *)

\* Every source that is reported gets its event.
LEMMA PollReports ==
  ASSUME TypeInv, Poll("server"), NEW s \in ready["server"], Reported("server", s)
  PROVE  \E e \in batch'["server"] : e.src = s /\ e.readable = Readable("server", s)
  <1> DEFINE ev == [src |-> s, readable |-> Readable("server", s)]
  <1>1. ev \in batch'["server"]
    BY DEF Poll, TypeInv, TypeOK, LoopTypeOK
  <1>2. ev.src = s /\ ev.readable = Readable("server", s)
    OBVIOUS
  <1> HIDE DEF ev
  <1> QED BY <1>1, <1>2

LEMMA ServerPollWatched ==
  ASSUME TypeInv, Protocol, Watched, ServerPoll, UNCHANGED clientVars PROVE Watched'
  <1> USE DEF TypeInv, TypeOK, CtrlTypeOK, LoopTypeOK
  <1>1. Poll("server") /\ UNCHANGED << proc, ctrlVars, reg, listenVars, dataVars, serverVars >>
    BY DEF Poll, ServerPoll
  <1>2. /\ proc["server"] = "Loop" /\ batch["server"] = {} /\ ready'["server"] = {}
        /\ \A e \in batch'["server"] : e.src \in ready["server"]
    BY <1>1, PollEvents
  <1> SUFFICES ASSUME Serving'
               PROVE  (ControlWatched /\ WakerWatched /\ DropsNothing /\ ListenerWatched /\ StreamsWatched)'
    BY DEF Watched
  <1>3. ControlWatched /\ WakerWatched /\ DropsNothing /\ ListenerWatched /\ StreamsWatched
    BY <1>1 DEF Watched, Serving, Alive, Gone
  <1>4. ASSUME NEW s, HasEdge(s), Reported("server", s) PROVE HasEdge(s)'
    BY <1>1, <1>2, <1>4, PollReports DEF HasEdge
  <1>5. ControlWatched'
    <2>1. buf["server"] # << >> => CONTROL \in ready["server"] /\ Readable("server", CONTROL)
      BY <1>2, <1>3 DEF ControlWatched, Readable, CtrlReadable
    <2>2. Reported("server", CONTROL)
      BY Tokens DEF Reported
    <2> QED BY <1>1, <2>1, <2>2, PollReports DEF ControlWatched, ctrlVars
  <1>6. WakerWatched'
    <2>1. Reported("server", WAKER)
      BY Tokens DEF Reported
    <2> QED BY <1>1, <1>3, <1>4, <2>1 DEF WakerWatched, serverVars
  <1>7. DropsNothing'
    BY <1>1, <1>2, <1>3 DEF DropsNothing, StreamEvent, serverVars
  <1>8. ListenerWatched'
    <2>1. backlog > 0 => Reported("server", TCP_LISTENER)
      BY Tokens DEF Reported
    <2> QED BY <1>1, <1>3, <1>4, <2>1 DEF ListenerWatched, listenVars, serverVars
  <1>9. StreamsWatched'
    <2>1. \A i \in Streams : dbuf[i] # << >> => Reported("server", i)
      BY Tokens DEF Reported
    <2> QED BY <1>1, <1>3, <1>4, <2>1 DEF StreamsWatched, dataVars, serverVars
  <1> QED BY <1>5, <1>6, <1>7, <1>8, <1>9

\* An event is handled, and what it stood for is.
LEMMA TakeWatched ==
  ASSUME TypeInv, Protocol, Watched, NEW e \in batch["server"], Take("server", e),
         proc'["server"] = proc["server"], Alive' => Alive, ready'["server"] = ready["server"],
         UNCHANGED << buf, reg, backlog, listening >>,
         sstate' = sstate \/ (sstate = "TestStart" /\ sstate' = "TestRunning"),
         e.src = CONTROL => ~e.readable \/ buf["server"] = << >>,
         e.src = WAKER => sstate \notin {"TestEnd", "ExchangeResults"},
         e.src = TCP_LISTENER => sstate # "CreateStreams",
         \A i \in Streams : dbuf'[i] # << >> => dbuf[i] # << >> /\ (e.src = i => sstate = "TestEnd")
  PROVE  Watched'
  <1> SUFFICES ASSUME Serving'
               PROVE  (ControlWatched /\ WakerWatched /\ DropsNothing /\ ListenerWatched /\ StreamsWatched)'
    BY DEF Watched
  <1>1. ControlWatched /\ WakerWatched /\ DropsNothing /\ ListenerWatched /\ StreamsWatched
    BY DEF Watched, Serving
  <1>2. batch'["server"] = batch["server"] \ {e}
    BY DEF Take, TypeInv, TypeOK, LoopTypeOK
  <1>3. \A s : s # e.src /\ HasEdge(s) => HasEdge(s)'
    BY <1>2 DEF HasEdge
  <1>4. ControlWatched' /\ WakerWatched' /\ ListenerWatched'
    BY <1>1, <1>2, <1>3 DEF ControlWatched, WakerWatched, ListenerWatched
  <1>5. DropsNothing'
    BY <1>1, <1>2 DEF DropsNothing, StreamEvent
  <1>6. StreamsWatched'
    BY <1>1, <1>3 DEF StreamsWatched
  <1> QED BY <1>4, <1>5, <1>6

LEMMA SHandleWatched ==
  ASSUME TypeInv, Protocol, Watched, NEW e \in batch["server"], SHandle(e), UNCHANGED clientVars
  PROVE  Watched'
  <1> USE DEF TypeInv, TypeOK, CtrlTypeOK, LoopTypeOK, Protocol
  <1>0. proc["server"] = "Loop" /\ Phase
    BY InLoop
  <1>1. CASE SError(e) \/ SEnd(e) \/ ServerPanics
    BY <1>1 DEF SError, SEnd, Restart, ServerPanics, ServerCloses, Watched, Serving
  <1>2. CASE ~SError(e) /\ ~SEnd(e) /\ ~ServerPanics /\ Alive
    <2>0. /\ sock["server"] = "open" /\ ControlWatched /\ WakerWatched /\ DropsNothing /\ ListenerWatched
          /\ StreamsWatched
      BY <1>0, <1>2, InLoop DEF Watched, Serving
    <2>1. CASE SIgnore(e)
      <3>1. e.src = CONTROL => ~e.readable \/ buf["server"] = << >>
        BY <1>0, <2>1, Tokens DEF SIgnore, OnListener, OnStream, Phase, At, None
      <3>2. e.src = WAKER => sstate \notin {"TestEnd", "ExchangeResults"}
        BY <2>1, Tokens DEF SIgnore, OnListener, OnStream
      <3>3. e.src = TCP_LISTENER => sstate # "CreateStreams"
        BY <2>1, Tokens DEF SIgnore, OnControl, OnStream
      <3>4. e.src \in Streams => sstate = "TestEnd"
        BY <2>1, Tokens DEF SIgnore, OnControl, OnListener
      <3>5. Take("server", e) /\ UNCHANGED << proc, ready, buf, reg, backlog, listening, dbuf, sstate >>
        BY <2>1 DEF SIgnore, ctrlVars, listenVars, dataVars, serverVars
      <3> QED BY <1>2, <3>1, <3>2, <3>3, <3>4, <3>5, TakeWatched
    <2>2. CASE SRead(e) \/ SCookie(e)
      <3>1. e.src \in Streams /\ Take("server", e) /\ UNCHANGED << proc, buf, reg, backlog, listening >>
        BY <1>2, <2>2 DEF SRead, SCookie, OnStream, ctrlVars, listenVars
      <3>2. sstate' = sstate \/ (sstate = "TestStart" /\ sstate' = "TestRunning")
        BY <1>2, <2>2 DEF SRead, SCookie, serverVars
      <3>3. ready'["server"] = ready["server"] /\ dbuf' = [dbuf EXCEPT ![e.src] = << >>]
        BY <1>2, <2>2 DEF SRead, SCookie
      <3>4. \A i \in Streams : dbuf'[i] # << >> => dbuf[i] # << >> /\ e.src # i
        BY <3>1, <3>3 DEF DataTypeOK
      <3> QED BY <1>2, <3>1, <3>2, <3>3, <3>4, TakeWatched, Tokens
    <2>3. CASE SStart(e)
      BY <2>0, <2>3 DEF SStart, Watched, ControlWatched, WakerWatched, DropsNothing, ListenerWatched, StreamsWatched, listenVars
    <2>4. CASE SParamExchange(e)
      <3>1. backlog = 0
        BY <1>0, <2>4 DEF SParamExchange, Phase, At, StreamCount, ListenTypeOK, ServerTypeOK
      <3> QED BY <1>2, <2>0, <2>4, <3>1
              DEF SParamExchange, Watched, ControlWatched, WakerWatched, DropsNothing, ListenerWatched, StreamsWatched
    <2>5. CASE STestRunning(e)
      <3>1. buf["server"] # << >>
        BY <2>5, Readable1 DEF STestRunning
      <3>2. buf["server"] = << 5 >>
        BY <1>0, <2>5, <3>1 DEF STestRunning, Phase, At, None, AtMost
      <3>3. sstate' = "TestEnd"
        BY <2>5, <3>2 DEF STestRunning, Requested, StateMessage, from_i8, StateByte
      <3>4. HasEdge(WAKER)' /\ buf'["server"] = << >> /\ UNCHANGED << backlog, listening >>
        BY <2>5 DEF STestRunning, Wake, HasEdge, listenVars
      <3> QED BY <2>0, <3>3, <3>4
              DEF Watched, ControlWatched, WakerWatched, DropsNothing, ListenerWatched, StreamsWatched
    <2>6. CASE SClientShutdown(e)
      BY <1>2, <2>6, ShutdownIsReal
    <2>7. CASE STestEnd(e)
      <3>1. /\ sstate = "TestEnd" /\ OnControl(e) /\ Take("server", e) /\ EndServer /\ sstate' = "ExchangeResults"
            /\ ready' = [ready EXCEPT !["server"] = Wake(WithoutStreams(@))]
            /\ UNCHANGED << buf, backlog, listening >>
        BY <1>2, <2>7 DEF STestEnd, ctrlVars, listenVars
      <3>2. buf["server"] = << >>
        BY <1>0, <3>1 DEF Phase, At, None
      <3>3. \A f \in batch["server"] : f.src \in {CONTROL, WAKER} => f.src = WAKER
        BY <1>0, <1>2, <2>0, <3>1, <3>2 DEF ServerEvents, CtrlReadable
      <3>4. \A f \in batch'["server"] : f.src \notin {CONTROL, WAKER}
        BY <1>0, <3>1, <3>3 DEF OnControl, Take, ServerEvents, OneEach
      <3>5. HasEdge(WAKER)' /\ reg'["server"] = {} /\ ready'["server"] \cap Streams = {}
        BY <3>1, Tokens DEF Wake, WithoutStreams, EndServer, HasEdge
      <3> QED BY <2>0, <3>1, <3>2, <3>4, <3>5
              DEF Watched, ControlWatched, WakerWatched, DropsNothing, StreamEvent, ListenerWatched, StreamsWatched
    <2>8. CASE SExchangeResults(e)
      <3>1. /\ sstate = "ExchangeResults" /\ OnControl(e) /\ Take("server", e) /\ sstate' = "End"
            /\ UNCHANGED << buf, ready, reg, backlog, listening >>
        BY <2>8 DEF SExchangeResults, listenVars
      <3>2. buf["server"] = << >>
        BY <1>0, <3>1 DEF Phase, At, None
      <3>3. ~StreamEvent'
        BY <2>0, <3>1 DEF DropsNothing, StreamEvent, OnControl, Take
      <3> QED BY <2>0, <3>1, <3>2, <3>3
              DEF Watched, ControlWatched, WakerWatched, DropsNothing, ListenerWatched, StreamsWatched
    <2>9. CASE SCreateStream(e)
      <3>1. sstate = "CreateStreams" /\ backlog = 1
        <4>1. sstate = "CreateStreams" /\ backlog > 0
          BY <1>0, <2>9 DEF SCreateStream, OnListener, StreamCount
        <4> QED BY <2>0, <4>1 DEF ListenerWatched, ListenTypeOK
      <3>2. backlog' = 0 /\ UNCHANGED << buf, dbuf, listening >> /\ sstate' \in {"CreateStreams", "TestStart"}
        BY <1>2, <2>9, <3>1 DEF SCreateStream, create_tcp_stream, dataVars
      <3>3. buf["server"] = << >> /\ \A i \in Streams : dbuf[i] = << >>
        BY <1>0, <3>1 DEF Phase, At, None, Cookies, Empty
      <3> QED BY <2>0, <3>1, <3>2, <3>3
              DEF Watched, ControlWatched, WakerWatched, DropsNothing, ListenerWatched, StreamsWatched
    <2>10. CASE SUnexpected(e)
      <3>1. /\ e.src \in Streams /\ sstate \notin {"TestStart", "TestRunning", "TestEnd"}
            /\ UNCHANGED << buf, ready, reg, backlog, listening, sstate >>
        BY <2>10 DEF SUnexpected, OnStream, ctrlVars, listenVars, serverVars
      <3>2. sstate \notin {"Start", "ParamExchange", "CreateStreams"}
        BY <1>0, <1>2, <3>1 DEF Cookies, ClientStreams, Phase, At
      <3>3. sstate = "ExchangeResults" /\ WAKER \in ready["server"]
        BY <1>0, <2>0, <3>1, <3>2 DEF Phase, At, DropsNothing, StreamEvent, WakerWatched, HasEdge
      <3>4. buf["server"] = << >>
        BY <1>0, <3>3 DEF Phase, At, None
      <3>5. batch'["server"] = {}
        BY <2>10 DEF SUnexpected
      <3> QED BY <2>0, <3>1, <3>3, <3>4, <3>5
              DEF Watched, ControlWatched, WakerWatched, DropsNothing, StreamEvent, ListenerWatched, StreamsWatched, HasEdge
    <2> QED BY <1>2, <2>1, <2>2, <2>3, <2>4, <2>5, <2>6, <2>7, <2>8, <2>9, <2>10 DEF SHandle
  <1>3. CASE ~SError(e) /\ ~SEnd(e) /\ ~ServerPanics /\ ~Alive
    <2>1. UNCHANGED proc
      BY <1>3 DEF SHandle, SIgnore, SStart, SParamExchange, STestRunning, SClientShutdown, STestEnd,
                   SExchangeResults, SCreateStream, SCookie, SRead, SUnexpected
    <2> QED BY <1>3, <2>1 DEF Watched, Serving, Alive, Gone
  <1> QED BY <1>1, <1>2, <1>3

\* Steps of the client and of the network: edges are only added.
LEMMA EdgesAdded ==
  ASSUME TypeInv, Protocol, Watched, Alive' => Alive, proc'["server"] = proc["server"],
         batch'["server"] = batch["server"], reg'["server"] = reg["server"], UNCHANGED << sstate, backlog, listening >>,
         ready["server"] \subseteq ready'["server"],
         ready'["server"] \subseteq ready["server"] \cup reg["server"] \cup {CONTROL, TCP_LISTENER},
         Serving => buf'["server"] = buf["server"] \/ CONTROL \in ready'["server"],
         Serving /\ sstate \in {"TestStart", "TestRunning"} =>
           \A i \in Streams : dbuf'[i] # << >> => dbuf[i] # << >> \/ i \in ready'["server"]
  PROVE  Watched'
  <1> SUFFICES ASSUME Serving'
               PROVE  (ControlWatched /\ WakerWatched /\ DropsNothing /\ ListenerWatched /\ StreamsWatched)'
    BY DEF Watched
  <1>1. /\ Serving /\ ControlWatched /\ WakerWatched /\ DropsNothing /\ ListenerWatched /\ StreamsWatched
    BY DEF Watched, Serving
  <1>2. \A s : HasEdge(s) => HasEdge(s)'
    BY DEF HasEdge
  <1>3. ControlWatched' /\ WakerWatched' /\ ListenerWatched'
    BY <1>1, <1>2 DEF ControlWatched, WakerWatched, ListenerWatched
  <1>4. DropsNothing'
    BY <1>1, Tokens DEF DropsNothing, StreamEvent
  <1>5. StreamsWatched'
    BY <1>1, <1>2 DEF StreamsWatched, HasEdge
  <1> QED BY <1>3, <1>4, <1>5

\* The paced client connects when the server has accepted the last connection.
LEMMA CConnectWatched ==
  ASSUME TypeInv, Protocol, Watched, Paced, CConnect, UNCHANGED serverVars PROVE Watched'
  <1> USE DEF TypeInv, TypeOK, LoopTypeOK, Protocol
  <1>1. proc["server"] = "Loop" /\ Alive /\ cstate = "CreateStreams" /\ backlog' = 1
    BY DEF CConnect, ServerUp, Alive, Gone, Counters
  <1>2. sstate = "CreateStreams" /\ None("server")
    BY <1>1, ClientPhase DEF CConnect, Phase, At
  <1>3. Serving /\ ControlWatched /\ WakerWatched /\ DropsNothing /\ ListenerWatched /\ StreamsWatched
    BY <1>1 DEF Watched, Serving
  <1>4. TCP_LISTENER \in ready'["server"] /\ UNCHANGED << sstate, buf, listening >>
    BY <1>2, <1>3 DEF CConnect, ListenerWatched, ctrlVars, serverVars
  <1> QED BY <1>1, <1>2, <1>3, <1>4
          DEF Watched, ControlWatched, WakerWatched, DropsNothing, ListenerWatched, StreamsWatched, HasEdge, None

LEMMA ClientWatched == ASSUME TypeInv, Protocol, Watched, Paced, Client PROVE Watched'
  <1> USE DEF TypeInv, TypeOK, CtrlTypeOK, LoopTypeOK
  <1>1. CASE CConnect
    BY <1>1, CConnectWatched DEF Client
  <1>2. CASE ~CConnect
    <2>1. UNCHANGED sstate
      BY DEF Client, serverVars
    <2>2. Alive
      BY DEF Client, ClientStep, ClientPoll, Poll, CHandle, CIgnore, CError, CStart, CParamExchange, CCreateStreams,
             CTestStart, CRunning, CRemoteError, CExchangeResults, CEnd, CSend, CConnect, CPrint, CCookie, CWrite,
             CWriteFails, CContinue, CFinish, CShutdownFails, COnControl, COnStream, DrainsAny, Alive, Gone
    <2> DEFINE Untouched ==
          /\ proc'["server"] = proc["server"] /\ batch'["server"] = batch["server"]
          /\ reg'["server"] = reg["server"] /\ ready'["server"] = ready["server"]
          /\ buf'["server"] = buf["server"] /\ UNCHANGED << backlog, listening, dbuf >>
    <2>3. Untouched
      <3>1. ASSUME NEW p, ClientExits(p) PROVE Untouched
        BY <3>1 DEF ClientExits, listenVars
      <3>5. CASE CPrint
        BY <3>1, <3>5 DEF CPrint, ctrlVars, listenVars, dataVars
      <3>2. CASE ClientPoll \/ CCookie \/ CWrite \/ CWriteFails \/ CContinue
        BY <3>2 DEF ClientPoll, Poll, CCookie, CWrite, CWriteFails, CContinue, listenVars, dataVars, ctrlVars
      <3>3. CASE CFinish \/ CShutdownFails
        BY <3>1, <3>3 DEF CFinish, CShutdownFails, listenVars
      <3>4. ASSUME NEW e \in batch["client"], CHandle(e) PROVE Untouched
        <4>1. CASE CIgnore(e) \/ CStart(e) \/ CParamExchange(e) \/ CCreateStreams(e) \/ CTestStart(e)
          BY <4>1 DEF CIgnore, CStart, CParamExchange, CCreateStreams, CTestStart, DrainsAny, CDrained, Take, listenVars, dataVars
        <4>2. CASE CRunning(e) \/ CExchangeResults(e) \/ CSend(e)
          BY <4>2 DEF CRunning, CExchangeResults, CSend, DrainsAny, CDrained, Take, listenVars, dataVars, ctrlVars
        <4>3. CASE CError(e) \/ CRemoteError(e) \/ CEnd(e)
          BY <3>1, <4>3 DEF CError, CRemoteError, CEnd
        <4> QED BY <3>4, <4>1, <4>2, <4>3 DEF CHandle
      <3> QED BY <1>2, <3>2, <3>3, <3>4, <3>5 DEF Client, ClientStep
    <2> QED BY <2>1, <2>2, <2>3, EdgesAdded
  <1> QED BY <1>1, <1>2

LEMMA NetWatched ==
  ASSUME TypeInv, Protocol, Watched,
         (\E x \in Side : NetCtrl(x)) \/ (\E i \in Streams : NetData(i))
  PROVE  Watched'
  <1> USE DEF TypeInv, TypeOK, CtrlTypeOK, LoopTypeOK, DataTypeOK
  <1>1. ASSUME NEW x \in Side, DeliverCtrl(x), UNCHANGED serverVars PROVE Watched'
    <2>1. /\ UNCHANGED << proc, batch, reg, backlog, listening, dbuf, sstate >>
          /\ ready["server"] \subseteq ready'["server"] /\ ready'["server"] \subseteq ready["server"] \cup {CONTROL}
          /\ proc["server"] = "Loop" => buf'["server"] = buf["server"] \/ CONTROL \in ready'["server"]
      BY <1>1 DEF DeliverCtrl, listenVars, dataVars, serverVars
    <2> QED BY <2>1, EdgesAdded DEF Alive, Gone, Serving
  <1>2. ASSUME NEW x \in Side, DeliverTail(x), UNCHANGED serverVars PROVE Watched'
    <2>1. /\ UNCHANGED << proc, buf, batch, reg, backlog, listening, dbuf, sstate >>
          /\ ready["server"] \subseteq ready'["server"] /\ ready'["server"] \subseteq ready["server"] \cup {CONTROL}
      BY <1>2 DEF DeliverTail, listenVars, dataVars, serverVars
    <2> QED BY <2>1, EdgesAdded DEF Alive, Gone
  <1>3. ASSUME NEW i \in Streams, NetData(i) PROVE Watched'
    <2>1. /\ UNCHANGED << proc, buf, batch, reg, backlog, listening, sstate >> /\ ServerEdge(i)
          /\ dbuf' = dbuf \/ dbuf' = [dbuf EXCEPT ![i] = Append(@, Head(dwire[i]))]
      BY <1>3 DEF NetData, DeliverData, DeliverFin, ctrlVars, listenVars, serverVars
    <2>2. /\ ready["server"] \subseteq ready'["server"] /\ ready'["server"] \subseteq ready["server"] \cup reg["server"]
          /\ i \in reg["server"] => i \in ready'["server"]
      BY <2>1 DEF ServerEdge
    <2>3. Serving /\ sstate \in {"TestStart", "TestRunning"} => i \in reg["server"]
      BY DEF Serving, Protocol, StreamCount, Streams
    <2>4. \A j \in Streams \ {i} : dbuf'[j] = dbuf[j]
      BY <2>1
    <2> QED BY <2>1, <2>2, <2>3, <2>4, EdgesAdded DEF Alive, Gone
  <1> QED BY <1>1, <1>2, <1>3 DEF NetCtrl

LEMMA NextWatched == ASSUME Paced PROVE TypeInv /\ Protocol /\ Watched /\ [Next]_vars => Watched'
  <1> SUFFICES ASSUME TypeInv, Protocol, Watched, [Next]_vars PROVE Watched'
    OBVIOUS
  <1>1. CASE Server
    <2>1. CASE SAccept
      <3>1. /\ syn /\ proc["server"] = "Accept" /\ CONTROL \in ready'["server"]
            /\ UNCHANGED << sstate, backlog >>
        BY <2>1 DEF SAccept, accept, serverVars, TypeInv, TypeOK, LoopTypeOK
      <3>2. sstate = "Start" /\ backlog = 0
        BY <3>1 DEF Protocol, StreamCount
      <3> QED BY <3>1, <3>2 DEF Watched, ControlWatched, WakerWatched, DropsNothing, ListenerWatched, StreamsWatched
    <2> QED BY <1>1, <2>1, ServerPollWatched, SHandleWatched DEF Server, ServerStep
  <1>2. CASE Client
    BY <1>2, ClientWatched
  <1>3. CASE (\E x \in Side : NetCtrl(x)) \/ (\E i \in Streams : NetData(i))
    BY <1>3, NetWatched
  <1>4. CASE Killed
    BY <1>4 DEF Killed, ClientKilled, ServerKilled, ClientExits, ServerCloses, TypeInv, TypeOK, LoopTypeOK,
                Watched, Serving, Alive, Gone
  <1>5. CASE Time \/ UNCHANGED vars
    <2>1. UNCHANGED << proc, batch, reg, ready, buf, dbuf, backlog, listening, sstate >>
      BY <1>5 DEF Time, Tick, vars, netVars, ctrlVars, listenVars, dataVars, serverVars
    <2> QED BY <2>1, EdgesAdded DEF Alive, Gone
  <1> QED BY <1>1, <1>2, <1>3, <1>4, <1>5 DEF Next, Finished

\* Paced by its sleep, the client cannot make the server miss an event: while
\* it lives, everything the server's loop has yet to handle (a control message,
\* a connection to accept, a cookie or block to read, its own wake-up) is on
\* the ready list or in the batch being handled.
THEOREM NoEventLost == ASSUME Paced PROVE Spec => []NoLostEvent
  <1>1. Init => Watched
    BY DEF Init, Watched, Serving
  <1>2. Protocol /\ Watched => NoLostEvent
    <2> SUFFICES ASSUME Protocol, Watched, proc["server"] = "Loop", ~Gone("client")
                 PROVE  NoLostEvent
      BY DEF NoLostEvent
    <2>1. ControlWatched /\ WakerWatched /\ ListenerWatched /\ StreamsWatched /\ Alive
      BY DEF Watched, Serving, Alive
    <2>2. \A s : HasEdge(s) => Pending("server", s)
      BY DEF HasEdge, Pending
    <2>3. CtrlReadable("server") => buf["server"] # << >>
      BY <2>1 DEF CtrlReadable, Protocol, Connection, Up
    <2>4. CtrlReadable("server") => Pending("server", CONTROL)
      BY <2>1, <2>3 DEF ControlWatched, Pending
    <2> QED BY <2>1, <2>2, <2>4 DEF NoLostEvent, WakerWatched, ListenerWatched, StreamsWatched
  <1> QED BY <1>1, <1>2, NextWatched, ProtocolInvariant, PTL DEF Spec

-----------------------------------------------------------------------------
\* The client is back in poll, or on its way there, with test time left.
Polling ==
  /\ running /\ cstate = "TestRunning" /\ proc["server"] = "Loop"
  /\ proc["client"] = "Loop" \/ (proc["client"] = "Leaving" /\ ~elapsed)

\* A stream is writable, or a full one will be once the server reads it.
RoomComes ==
  \/ \E e \in batch["client"] : e.src \in Streams
  \/ \E i \in Streams : i \in ready["client"] /\ Held(i) < Cap
  \/ \E i \in nospace : Held(i) > 0

Woken ==
  /\ \A i \in Streams : Held(i) <= Cap
  /\ proc["server"] = "Loop" /\ sstate = "TestRunning" /\ ~running => \A i \in Streams : Empty(i)
  /\ proc["client"] = "Sending" /\ try_later => elapsed
  /\ Polling => RoomComes

-----------------------------------------------------------------------------
(* The client's events. *)

\* How the kernel's and the processes' steps change what a connection holds.
LEMMA HeldNat == ASSUME TypeInv PROVE \A i \in Streams : Held(i) \in Nat
  BY DEF TypeInv, TypeOK, DataTypeOK, Held

LEMMA EmptyHolds == ASSUME NEW i, Empty(i) PROVE Held(i) = 0
  BY NoMessage DEF Empty, Held

LEMMA NonEmptyLen ==
  ASSUME NEW S, NEW q \in Seq(S) PROVE Len(q) \in Nat /\ (q # << >> <=> Len(q) > 0)
  OBVIOUS

\* A batch that only loses events of the control connection, a ready list that
\* only grows, and the same connections.
LEMMA WokenKept ==
  ASSUME TypeInv, Protocol, Woken, UNCHANGED << dwire, dbuf, nospace >>,
         proc'["server"] = "Loop" => proc["server"] = "Loop",
         sstate' = "TestRunning" => sstate = "TestRunning", ~running' => ~running,
         proc'["client"] = "Sending" /\ try_later' => elapsed',
         Polling' => /\ Polling /\ ready["client"] \subseteq ready'["client"]
                     /\ \A e \in batch["client"] : e.src \in Streams => e \in batch'["client"]
  PROVE  Woken'
  <1>1. \A i : (Held(i)' = Held(i)) /\ (Empty(i)' <=> Empty(i))
    BY DEF Held, Empty
  <1>2. Polling' => RoomComes'
    BY <1>1 DEF Woken, RoomComes
  <1> QED BY <1>1, <1>2 DEF Woken

\* During the test the server is in TestRunning, too.
LEMMA PollingPhase ==
  ASSUME TypeInv, Protocol, Polling PROVE Alive /\ sstate = "TestRunning" /\ reg["client"] = Streams
  <1>1. Alive /\ running /\ cstate = "TestRunning"
    BY DEF Polling, Alive, Gone
  <1> QED BY <1>1, ClientPhase DEF Protocol, Phase, At, ClientStreams

\* A read that makes room in a full connection tells the client.
LEMMA SReadWoken ==
  ASSUME TypeInv, Protocol, Woken, NEW e, SRead(e), UNCHANGED clientVars PROVE Woken'
  <1> USE DEF TypeInv, TypeOK, LoopTypeOK, DataTypeOK
  <1> DEFINE j == e.src
  <1>1. /\ j \in Streams /\ dbuf' = [dbuf EXCEPT ![j] = << >>] /\ batch'["client"] = batch["client"]
        /\ UNCHANGED << proc, reg, dwire, serverVars, clientVars >>
        /\ IF j \in nospace /\ dbuf[j] # << >>
             THEN /\ nospace' = nospace \ {j}
                  /\ ready' = [ready EXCEPT !["client"] = IF j \in reg["client"] THEN @ \cup {j} ELSE @]
             ELSE UNCHANGED << nospace, ready >>
    BY DEF SRead, OnStream, Take
  <1> HIDE DEF j
  <1>2. \A i \in Streams \ {j} : (Held(i)' = Held(i)) /\ (Empty(i)' <=> Empty(i))
    BY <1>1 DEF Held, Empty
  <1>3. /\ Held(j) = Len(dwire[j]) + Len(dbuf[j]) /\ Held(j)' = Len(dwire[j]) + 0
        /\ Len(dwire[j]) \in Nat /\ Len(dbuf[j]) \in Nat /\ (dbuf[j] # << >> <=> Len(dbuf[j]) > 0)
    <2>1. Held(j)' = Len(dwire[j]) + Len(<< >>)
      BY <1>1 DEF Held, j
    <2> QED BY <1>1, <2>1, NoMessage, NonEmptyLen DEF Held
  <1>4. Cap \in Nat \ {0} /\ Held(j) <= Cap
    BY <1>1, NetAssumption DEF Woken
  <1>5. Held(j)' <= Held(j) /\ Held(j)' <= Cap /\ (dbuf[j] # << >> => Held(j)' < Cap)
        /\ (dbuf[j] = << >> => Held(j)' = Held(j))
    BY <1>3, <1>4
  <1>6. \A i \in Streams : Held(i)' <= Cap
    BY <1>2, <1>5 DEF Woken, j
  <1>7. proc'["server"] = "Loop" /\ sstate' = "TestRunning" /\ ~running' => \A i \in Streams : Empty(i)'
    BY <1>1, <1>2 DEF Woken, Empty, serverVars, clientVars
  <1>8. Polling' => RoomComes'
    <2> SUFFICES ASSUME Polling' PROVE RoomComes'
      OBVIOUS
    <2>1. Polling
      BY <1>1 DEF Polling, clientVars
    <2>2. CASE j \in nospace /\ dbuf[j] # << >>
      <3>1. j \in ready'["client"]
        BY <1>1, <2>1, <2>2, PollingPhase
      <3> QED BY <1>1, <1>5, <2>2, <3>1 DEF RoomComes, j
    <2>3. CASE ~(j \in nospace /\ dbuf[j] # << >>)
      <3>1. UNCHANGED << nospace, ready >>
        BY <1>1, <2>3
      <3>2. CASE \E f \in batch["client"] : f.src \in Streams
        BY <1>1, <3>2 DEF RoomComes
      <3>3. ASSUME NEW i \in Streams, i \in ready["client"], Held(i) < Cap PROVE RoomComes'
        <4>1. Held(i)' < Cap
          <5>1. CASE i = j
            BY <1>3, <1>4, <1>5, <3>3, <5>1 DEF j
          <5>2. CASE i # j
            BY <1>2, <3>3, <5>2
          <5> QED BY <5>1, <5>2
        <4> QED BY <3>1, <3>3, <4>1 DEF RoomComes
      <3>4. ASSUME NEW i \in nospace, Held(i) > 0 PROVE RoomComes'
        <4>1. i \in Streams /\ (i = j => dbuf[j] = << >>)
          BY <2>3
        <4>2. Held(i)' > 0
          <5>1. CASE i = j
            BY <1>5, <3>4, <4>1, <5>1 DEF j
          <5>2. CASE i # j
            BY <1>2, <3>4, <4>1, <5>2
          <5> QED BY <5>1, <5>2
        <4> QED BY <3>1, <4>2 DEF RoomComes
      <3> QED BY <2>1, <3>2, <3>3, <3>4 DEF Woken, RoomComes
    <2> QED BY <2>2, <2>3
  <1> QED BY <1>1, <1>6, <1>7, <1>8 DEF Woken, clientVars

LEMMA ServerWoken == ASSUME TypeInv, Protocol, Woken, Server PROVE Woken'
  <1> USE DEF TypeInv, TypeOK, LoopTypeOK, DataTypeOK
  <1>0. UNCHANGED clientVars
    BY DEF Server
  <1>1. CASE SAccept
    <2>1. /\ syn /\ UNCHANGED << batch, dwire, dbuf, nospace, sstate >> /\ proc'["client"] = proc["client"]
          /\ proc["server"] = "Accept"
      BY <1>1 DEF SAccept, accept, dataVars, serverVars
    <2>2. sstate = "Start" /\ cstate # "TestRunning"
      BY <2>1, Constants DEF Protocol, StreamCount
    <2>3. \A i : Held(i)' = Held(i)
      BY <2>1 DEF Held
    <2> QED BY <1>0, <2>1, <2>2, <2>3 DEF Woken, Polling, clientVars
  <1>2. CASE ServerPoll
    BY <1>0, <1>2, WokenKept DEF ServerPoll, Poll, dataVars, serverVars, clientVars, Woken, Polling
  <1>3. ASSUME NEW e \in batch["server"], SHandle(e) PROVE Woken'
    <2>1. CASE SError(e) \/ SEnd(e) \/ ServerPanics
      <3>1. /\ proc'["server"] # "Loop" /\ proc'["client"] = proc["client"]
            /\ \A i \in Streams : dwire'[i] = << >> /\ dbuf'[i] = << >>
        BY <2>1 DEF SError, SEnd, Restart, ServerPanics, ServerCloses
      <3>2. \A i \in Streams : Held(i)' = 0
        <4> SUFFICES ASSUME NEW i \in Streams PROVE Held(i)' = 0
          OBVIOUS
        <4>1. Held(i)' = Len(<< >>) + Len(<< >>)
          BY <3>1 DEF Held
        <4> QED BY <4>1, NoMessage
      <3> QED BY <1>0, <3>1, <3>2, NetAssumption DEF Woken, Polling, clientVars
    <2>2. CASE SRead(e)
      BY <1>0, <2>2, SReadWoken
    <2>3. CASE SCookie(e) /\ ~ServerPanics
      <3> DEFINE j == e.src
      <3>1. /\ j \in Streams /\ sstate = "TestStart" /\ dbuf' = [dbuf EXCEPT ![j] = << >>] /\ UNCHANGED << proc, dwire >>
            /\ sstate' = "TestRunning" => LastCookie
        BY <2>3, CookieCounted DEF SCookie
      <3> HIDE DEF j
      <3>2. \A i \in Streams : Held(i)' <= Cap
        <4>1. \A i \in Streams \ {j} : Held(i)' = Held(i)
          BY <3>1 DEF Held
        <4>2. Held(j)' = 0
          <5>1. dbuf'[j] = << >> /\ dwire'[j] = << >>
            BY <2>3, <3>1, CookieCounted DEF j
          <5>2. Empty(j)'
            BY <5>1 DEF Empty, j
          <5> QED BY <5>1, NoMessage DEF Held, j
        <4> QED BY <4>1, <4>2, NetAssumption DEF Woken, j
      <3>3. LastCookie => \A i \in Streams : Empty(i)'
        BY <2>3, <3>1, CookieCounted DEF Drained, Empty, j
      <3>4. (~running /\ cstate # "TestRunning") \/ ~Polling'
        BY <1>0, <3>1, PollingPhase DEF Polling, clientVars
      <3> QED BY <1>0, <3>1, <3>2, <3>3, <3>4 DEF Woken, Polling, clientVars
    <2>4. CASE ~SError(e) /\ ~SEnd(e) /\ ~ServerPanics /\ ~SRead(e) /\ ~SCookie(e)
      <3>1. /\ UNCHANGED << proc, dwire, dbuf, nospace >>
            /\ sstate' # "TestRunning" \/ sstate' = sstate
            /\ batch'["client"] = batch["client"] /\ ready'["client"] = ready["client"]
        <4>1. CASE SIgnore(e) \/ SUnexpected(e) \/ SStart(e) \/ SParamExchange(e)
          BY <2>4, <4>1 DEF SIgnore, SUnexpected, SStart, SParamExchange, Take, dataVars, serverVars
        <4>2. CASE STestRunning(e) \/ SClientShutdown(e)
          BY <2>4, <4>2, RequestedType DEF STestRunning, SClientShutdown, Take, dataVars
        <4>3. CASE STestEnd(e) \/ SExchangeResults(e)
          BY <2>4, <4>3 DEF STestEnd, SExchangeResults, Take, dataVars
        <4>4. CASE SCreateStream(e)
          BY <2>4, <4>4 DEF SCreateStream, create_tcp_stream, Take, dataVars
        <4> QED BY <1>3, <2>4, <4>1, <4>2, <4>3, <4>4 DEF SHandle
      <3> QED BY <1>0, <3>1, WokenKept DEF clientVars, Woken, Polling
    <2> QED BY <2>1, <2>2, <2>3, <2>4
  <1> QED BY <1>1, <1>2, <1>3 DEF Server, ServerStep

LEMMA CWriteWoken ==
  ASSUME TypeInv, Protocol, Woken, CWrite \/ CWriteFails, UNCHANGED serverVars PROVE Woken'
  <1> USE DEF TypeInv, TypeOK, LoopTypeOK, DataTypeOK, ClientTypeOK
  <1>1. proc["client"] = "Sending" /\ running /\ cstate = "TestRunning" /\ cidx \in Streams
    BY InSending DEF CWrite, CWriteFails
  <1>2. PICK c \in Streams : c = cidx
    BY <1>1
  <1>3. proc'["server"] = proc["server"] /\ UNCHANGED << running, cstate, dbuf >>
    BY DEF CWrite, CWriteFails, clientVars
  <1>4. CASE CWrite
    <2>1. \A i \in Streams : Held(i)' <= Cap
      <3>1. CASE UNCHANGED dwire
        BY <1>3, <3>1 DEF Woken, Held
      <3>2. CASE Held(c) < Cap /\ dwire' = [dwire EXCEPT ![c] = Append(@, DATA)]
        <4>1. dwire'[c] = Append(dwire[c], DATA) /\ dwire[c] \in Seq(Block) /\ DATA \in Block
          BY <3>2 DEF Block
        <4>2. Len(dwire'[c]) = Len(dwire[c]) + 1 /\ Len(dwire[c]) \in Nat /\ Len(dbuf[c]) \in Nat
          BY <4>1
        <4>3. Held(c)' <= Cap
          BY <1>3, <3>2, <4>2, NetAssumption DEF Held
        <4>4. \A i \in Streams \ {c} : Held(i)' = Held(i)
          BY <1>3, <3>2 DEF Held
        <4> QED BY <4>3, <4>4 DEF Woken
      <3> QED BY <1>2, <1>4, <3>1, <3>2 DEF CWrite
    <2>2. try_later' => elapsed'
      BY <1>1, <1>4 DEF CWrite, Woken
    <2>3. proc'["client"] = "Sending" \/ (proc'["client"] = "Leaving" /\ try_later')
      BY <1>1, <1>4 DEF CWrite
    <2> QED BY <1>1, <1>3, <2>1, <2>2, <2>3 DEF Woken, Polling
  <1>5. CASE CWriteFails
    <2>1. proc'["client"] = "Leaving" /\ UNCHANGED << dwire, try_later, elapsed >>
      BY <1>5 DEF CWriteFails, clientVars
    <2>2. \A i \in Streams : Held(i)' = Held(i)
      BY <1>3, <2>1 DEF Held
    <2>3. Polling' => RoomComes'
      <3> SUFFICES ASSUME Polling' PROVE RoomComes'
        OBVIOUS
      <3>1. c \in nospace' /\ Held(c) >= Cap
        BY <1>2, <1>3, <1>5 DEF CWriteFails, ServerUp, Polling
      <3>2. Held(c)' > 0
        BY <2>2, <3>1, HeldNat, NetAssumption
      <3> QED BY <3>1, <3>2 DEF RoomComes
    <2> QED BY <1>1, <1>3, <2>1, <2>2, <2>3 DEF Woken
  <1> QED BY <1>4, <1>5

LEMMA CCookieWoken ==
  ASSUME TypeInv, Protocol, Woken, CCookie, UNCHANGED serverVars PROVE Woken'
  <1> USE DEF TypeInv, TypeOK, LoopTypeOK, DataTypeOK, ClientTypeOK, Protocol
  <1>1. /\ proc["client"] = "Cookies" /\ Alive /\ cstate = "TestStart" /\ ~running
        /\ cidx \in Streams
    BY DEF CCookie, Alive, Gone, ClientPlace
  <1>2. sstate = "TestStart"
    BY <1>1, ClientPhase DEF Phase, At
  <1>3. PICK c \in Streams : c = cidx
    BY <1>1
  <1>4. \A i \in Streams : Held(i)' <= Cap
    <2>1. CASE UNCHANGED dwire
      BY <2>1 DEF CCookie, Woken, Held
    <2>2. CASE proc["server"] = "Loop" /\ dwire' = [dwire EXCEPT ![c] = Append(@, COOKIE)]
      <3>1. Empty(c)
        BY <1>1, <1>3, <2>2 DEF Cookies, Sent, Streams
      <3>2. dwire'[c] = << COOKIE >> /\ dbuf'[c] = << >>
        BY <2>2, <3>1, Single DEF CCookie, Empty
      <3>3. Len(<< COOKIE >>) = 1
        OBVIOUS
      <3>4. Held(c)' <= Cap
        BY <3>2, <3>3, NoMessage, NetAssumption DEF Held
      <3>5. \A i \in Streams \ {c} : Held(i)' = Held(i)
        BY <2>2 DEF CCookie, Held
      <3> QED BY <3>4, <3>5 DEF Woken
    <2> QED BY <1>3, <2>1, <2>2 DEF CCookie, ServerUp
  <1>5. proc'["client"] \in {"Cookies", "Loop"} /\ UNCHANGED << running, sstate >>
    BY <1>1 DEF CCookie, serverVars
  <1> QED BY <1>1, <1>2, <1>4, <1>5 DEF Woken, Polling

LEMMA ClientWoken == ASSUME TypeInv, Protocol, Woken, Client PROVE Woken'
  <1> USE DEF TypeInv, TypeOK, LoopTypeOK
  <1>0. UNCHANGED serverVars
    BY DEF Client
  <1>1. CASE CWrite \/ CWriteFails \/ CCookie
    BY <1>0, <1>1, CWriteWoken, CCookieWoken
  <1>2. ASSUME NEW p, p # "Sending", p # "Loop", p # "Leaving", ClientExits(p) PROVE Woken'
    BY <1>0, <1>2, WokenKept DEF ClientExits, Polling, serverVars, clientVars
  <1>3. CASE ClientPoll
    <2>1. /\ Poll("client") /\ UNCHANGED << proc, dwire, dbuf, nospace, clientVars >> /\ proc["client"] = "Loop"
          /\ batch["client"] = {}
      BY <1>3 DEF ClientPoll, Poll, dataVars
    <2>2. \A i : (Held(i)' = Held(i)) /\ (Empty(i)' <=> Empty(i))
      BY <2>1 DEF Held, Empty
    <2>3. ASSUME NEW i \in Streams, i \in ready["client"], Held(i) < Cap
          PROVE  \E e \in batch'["client"] : e.src \in Streams
      <3> DEFINE ev == [src |-> i, readable |-> Readable("client", i)]
      <3>1. Reported("client", i)
        BY <2>3, Tokens DEF Reported
      <3>2. ev \in batch'["client"]
        BY <2>1, <2>3, <3>1 DEF Poll
      <3>3. ev.src = i
        OBVIOUS
      <3> HIDE DEF ev
      <3> QED BY <3>2, <3>3
    <2>4. Polling' => RoomComes'
      BY <2>1, <2>2, <2>3 DEF Woken, RoomComes, Polling, clientVars
    <2> QED BY <1>0, <2>1, <2>2, <2>4 DEF Woken, serverVars, clientVars
  <1>4. ASSUME NEW e \in batch["client"], CHandle(e) PROVE Woken'
    <2>1. CASE CError(e) \/ CRemoteError(e) \/ CEnd(e)
      BY <1>2, <2>1 DEF CError, CRemoteError, CEnd
    <2>2. CASE CRunning(e)
      <3>1. Phase /\ cstate = "TestRunning" /\ ~running /\ Alive /\ buf["client"] # << >>
        BY <2>2, CReadable DEF CRunning, DrainsAny
      <3>2. sstate = "TestRunning" /\ cstreams = NumStreams
        BY <3>1 DEF Phase, At, None, Protocol, StreamCount
      <3>3. /\ UNCHANGED << proc, dwire, dbuf, nospace, try_later, elapsed >> /\ running' = TRUE
            /\ Streams \subseteq ready'["client"]
        BY <2>2, <3>2 DEF CRunning, Registers, Streams, dataVars
      <3>4. \A i : (Held(i)' = Held(i)) /\ (Empty(i)' <=> Empty(i))
        BY <3>3 DEF Held, Empty
      <3>5. Polling' => RoomComes'
        <4> SUFFICES ASSUME Polling' PROVE RoomComes'
          OBVIOUS
        <4>1. Empty(1)
          BY <3>1, <3>2, <3>3, Constants DEF Polling, Woken
        <4>2. Held(1)' = 0
          BY <3>4, <4>1, EmptyHolds
        <4> QED BY <3>3, <4>2, Constants, NetAssumption DEF RoomComes
      <3> QED BY <3>3, <3>4, <3>5 DEF Woken
    <2>3. CASE CSend(e)
      <3>1. /\ UNCHANGED << dwire, dbuf, nospace, running >> /\ proc'["server"] = proc["server"]
            /\ proc'["client"] = "Sending" /\ try_later' = FALSE
        BY <2>3 DEF CSend, dataVars
      <3> QED BY <1>0, <3>1, WokenKept DEF Polling, serverVars
    <2>4. CASE CIgnore(e)
      <3>1. /\ UNCHANGED << proc, dwire, dbuf, nospace, ready, clientVars >>
            /\ batch'["client"] = batch["client"] \ {e}
            /\ cstate = "TestRunning" => e.src \notin Streams
        BY <2>4, Tokens DEF CIgnore, Take, dataVars, COnControl
      <3> QED BY <1>0, <3>1, WokenKept DEF Polling, Woken, serverVars, clientVars
    <2>5. CASE CStart(e) \/ CParamExchange(e) \/ CCreateStreams(e) \/ CTestStart(e) \/ CExchangeResults(e)
      <3>1. /\ UNCHANGED << dwire, dbuf, nospace, running >> /\ proc'["server"] = proc["server"]
            /\ proc'["client"] # "Sending" /\ cstate' # "TestRunning"
        BY <2>5 DEF CStart, CParamExchange, CCreateStreams, CTestStart, CExchangeResults, DrainsAny, COnControl, dataVars, clientVars
      <3> QED BY <1>0, <3>1, WokenKept DEF Polling, serverVars
    <2> QED BY <1>4, <2>1, <2>2, <2>3, <2>4, <2>5 DEF CHandle
  <1>5. CASE CConnect
    <2>1. /\ UNCHANGED << dwire, dbuf, nospace, running >> /\ proc'["server"] = proc["server"]
          /\ proc'["client"] # "Sending" /\ cstate' # "TestRunning"
      BY <1>5 DEF CConnect, Counters, dataVars
    <2> QED BY <1>0, <2>1, WokenKept DEF Polling, serverVars
  <1>9. CASE CPrint
    <2>1. CASE ClientExits("Panic")
      BY <1>2, <2>1
    <2>2. CASE ~ClientExits("Panic")
      <3>1. /\ UNCHANGED << dwire, dbuf, nospace, running >> /\ proc'["server"] = proc["server"]
            /\ proc'["client"] # "Sending" /\ cstate' # "TestRunning"
        BY <1>9, <2>2 DEF CPrint, Counters, dataVars
      <3> QED BY <1>0, <3>1, WokenKept DEF Polling, serverVars
    <2> QED BY <2>1, <2>2
  <1>6. CASE CContinue
    <2>1. /\ UNCHANGED << dwire, dbuf, nospace, ready, batch, clientVars >> /\ proc'["server"] = proc["server"]
          /\ proc'["client"] = "Loop" /\ proc["client"] = "Leaving" /\ ~elapsed
      BY <1>6 DEF CContinue, dataVars
    <2> QED BY <1>0, <2>1, WokenKept DEF Polling, serverVars, clientVars
  <1>7. CASE CFinish
    <2>1. CASE ClientExits("Panic")
      BY <1>2, <2>1
    <2>2. CASE ~ClientExits("Panic")
      <3>1. /\ UNCHANGED << dwire, dbuf, nospace, running >> /\ proc'["server"] = proc["server"]
            /\ proc'["client"] = "Loop" /\ cstate' # "TestRunning"
        BY <1>7, <2>2 DEF CFinish
      <3> QED BY <1>0, <3>1, WokenKept DEF Polling, serverVars
    <2> QED BY <2>1, <2>2
  <1>8. CASE CShutdownFails
    BY <1>2, <1>8 DEF CShutdownFails
  <1> QED BY <1>1, <1>3, <1>4, <1>5, <1>6, <1>7, <1>8, <1>9 DEF Client, ClientStep

LEMMA NetWoken ==
  ASSUME TypeInv, Protocol, Woken,
         (\E x \in Side : NetCtrl(x)) \/ (\E i \in Streams : NetData(i))
  PROVE  Woken'
  <1> USE DEF TypeInv, TypeOK, LoopTypeOK, DataTypeOK
  <1>1. ASSUME NEW x \in Side, NetCtrl(x) PROVE Woken'
    <2>1. /\ UNCHANGED << proc, dwire, dbuf, nospace, batch, serverVars, clientVars >>
          /\ ready["client"] \subseteq ready'["client"]
      BY <1>1 DEF NetCtrl, DeliverCtrl, DeliverTail, dataVars
    <2> QED BY <2>1, WokenKept DEF Polling, Woken, serverVars, clientVars
  <1>2. ASSUME NEW i \in Streams, DeliverFin(i), NetData(i) PROVE Woken'
    <2>1. /\ UNCHANGED << proc, dwire, dbuf, nospace, batch, serverVars, clientVars >>
          /\ ready'["client"] = ready["client"]
      BY <1>2 DEF DeliverFin, NetData, ServerEdge
    <2> QED BY <2>1, WokenKept DEF Polling, Woken, serverVars, clientVars
  <1>3. ASSUME NEW i \in Streams, DeliverData(i), NetData(i) PROVE Woken'
    <2>1. /\ UNCHANGED << proc, nospace, batch, serverVars, clientVars >>
          /\ ready'["client"] = ready["client"] /\ dwire[i] # << >>
          /\ dwire'[i] = Tail(dwire[i]) /\ dbuf'[i] = Append(dbuf[i], Head(dwire[i]))
          /\ \A j \in Streams \ {i} : dwire'[j] = dwire[j] /\ dbuf'[j] = dbuf[j]
      BY <1>3 DEF DeliverData, NetData, ServerEdge
    <2>2. \A b, w \in Seq(Block) : w # << >> => Len(Tail(w)) + Len(Append(b, Head(w))) = Len(w) + Len(b)
      OBVIOUS
    <2>3. \A j \in Streams : Held(j)' = Held(j)
      <3>1. Held(i)' = Held(i)
        BY <2>1, <2>2 DEF Held
      <3>2. \A j \in Streams \ {i} : Held(j)' = Held(j)
        BY <2>1 DEF Held
      <3> QED BY <3>1, <3>2
    <2>4. \A j \in Streams : Empty(j) => Empty(j)'
      BY <2>1 DEF Empty
    <2>5. Polling' => RoomComes'
      BY <2>1, <2>3 DEF Polling, Woken, RoomComes, clientVars
    <2> QED BY <2>1, <2>3, <2>4, <2>5 DEF Woken, serverVars, clientVars
  <1> QED BY <1>1, <1>2, <1>3 DEF NetData

LEMMA NextWoken == TypeInv /\ Protocol /\ Woken /\ [Next]_vars => Woken'
  <1> SUFFICES ASSUME TypeInv, Protocol, Woken, [Next]_vars PROVE Woken'
    OBVIOUS
  <1> USE DEF TypeInv, TypeOK, LoopTypeOK
  <1>1. CASE Server
    BY <1>1, ServerWoken
  <1>2. CASE Client
    BY <1>2, ClientWoken
  <1>3. CASE (\E x \in Side : NetCtrl(x)) \/ (\E i \in Streams : NetData(i))
    BY <1>3, NetWoken
  <1>4. CASE Killed
    <2>1. CASE ClientKilled /\ UNCHANGED serverVars
      BY <2>1, WokenKept DEF ClientKilled, ClientExits, Polling, serverVars, clientVars
    <2>2. CASE ServerKilled /\ UNCHANGED clientVars
      <3>1. /\ proc'["server"] # "Loop" /\ proc'["client"] = proc["client"]
            /\ \A i \in Streams : dwire'[i] = << >> /\ dbuf'[i] = << >>
        BY <2>2 DEF ServerKilled, ServerCloses
      <3>2. \A i \in Streams : Held(i)' = 0
        <4> SUFFICES ASSUME NEW i \in Streams PROVE Held(i)' = 0
          OBVIOUS
        <4>1. Held(i)' = Len(<< >>) + Len(<< >>)
          BY <3>1 DEF Held
        <4> QED BY <4>1, NoMessage
      <3> QED BY <2>2, <3>1, <3>2, NetAssumption DEF Woken, Polling, clientVars
    <2> QED BY <1>4, <2>1, <2>2 DEF Killed
  <1>5. CASE Time \/ UNCHANGED vars
    <2>1. UNCHANGED << proc, dwire, dbuf, nospace, batch, ready, sstate, running, cstate, try_later, elapsed >>
      BY <1>5 DEF Time, Tick, vars, netVars, dataVars, serverVars, clientVars
    <2> QED BY <2>1, WokenKept DEF Polling, Woken
  <1> QED BY <1>1, <1>2, <1>3, <1>4, <1>5 DEF Next, Finished

\* A client back in poll during the test is not left there: a stream of it is
\* writable, or one that was full still holds blocks that the server will read.
THEOREM NoRoomLost == Spec => []NoLostRoom
  <1>1. Init => Woken
    <2> SUFFICES ASSUME Init PROVE Woken
      OBVIOUS
    <2>1. \A i \in Streams : Empty(i)
      BY DEF Init, Empty
    <2>2. \A i \in Streams : Held(i) <= Cap
      BY <2>1, EmptyHolds, NetAssumption
    <2> QED BY <2>1, <2>2 DEF Init, ClientInit, Woken, Polling
  <1>2. Woken => NoLostRoom
    BY DEF Woken, NoLostRoom, Polling, RoomComes, Pending, ServerUp
  <1> QED BY <1>1, <1>2, NextWoken, ProtocolInvariant, PTL DEF Spec
=============================================================================
