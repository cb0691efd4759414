---------------------------- MODULE ServerImpl ----------------------------
(***************************************************************************)
(* ServerImpl::run for a TCP test: the event loop over the control         *)
(* connection, the listener and the data connections, and the loop of      *)
(* main() that starts it again after every run.  One action per match arm; *)
(* an event e is handled to the end before the next one.                   *)
(***************************************************************************)
EXTENDS Net

VARIABLES
  sstate,         \* test.state of the server
  nstreams,       \* test.streams.len() of the server
  cookie_count    \* test.cookie_count

serverVars == << sstate, nstreams, cookie_count >>

\* Events reported with token CONTROL: the socket's and the waker's.
OnControl(e) == e \in batch["server"] /\ e.src \in {CONTROL, WAKER}
OnListener(e) == e \in batch["server"] /\ e.src = TCP_LISTENER
OnStream(e) == e \in batch["server"] /\ e.src \in Streams

-----------------------------------------------------------------------------
\* Connection i waits in the listener's queue.
Queued(i) == nstreams < i /\ i <= nstreams + backlog

\* The process leaves run(): its sockets are closed, the client's registered
\* connections report it, and what was in flight to it is lost.  A connection
\* that was not accepted is reset.
ServerCloses(p) ==
  /\ proc' = [proc EXCEPT !["server"] = p]
  /\ tail' = TailOnClose("server")
  /\ sock' = [sock EXCEPT !["server"] = "closed"]
  /\ buf' = [buf EXCEPT !["server"] = << >>]
  /\ ready' = [ready EXCEPT !["server"] = {}, !["client"] = @ \cup reg["client"]]
  /\ reg' = [reg EXCEPT !["server"] = {}]
  /\ batch' = [batch EXCEPT !["server"] = {}]
  /\ syn' = FALSE
  /\ backlog' = 0
  /\ listening' = FALSE
  /\ dwire' = [i \in Streams |-> << >>]
  /\ dbuf' = [i \in Streams |-> << >>]
  /\ dfin' = [i \in Streams |-> IF Queued(i) THEN "rst" ELSE dfin[i]]
  /\ UNCHANGED << wire, nospace >>

\* main's loop: the run's value is dropped, a fresh Test and listener follow.
Restart ==
  /\ ServerCloses("Accept")
  /\ sstate' = "Start"
  /\ nstreams' = 0
  /\ cookie_count' = 0

ServerPanics == ServerCloses("Panic") /\ UNCHANGED serverVars

\* tcp::accept: polls until the control connection is in the queue.
accept == syn /\ syn' = FALSE

\* The control connection is accepted and registered; the loop starts.
SAccept ==
  /\ proc["server"] = "Accept"
  /\ accept
  /\ proc' = [proc EXCEPT !["server"] = "Loop"]
  /\ ready' = [ready EXCEPT !["server"] = {CONTROL}]
  /\ UNCHANGED << ctrlVars, reg, batch, backlog, listening, dataVars, serverVars >>

\* send_state: the message is written, or unwrap() panics on a reset socket.
Sends(m) == wire' = [wire EXCEPT !["client"] = @ \o m]

-----------------------------------------------------------------------------
(* CONTROL events. *)

\* Arms that do nothing with the event.
SIgnore(e) ==
  /\ \/ OnControl(e) /\ ~e.readable /\ sstate \in {"Start", "ParamExchange", "TestRunning"}
     \/ OnControl(e) /\ sstate \in {"CreateStreams", "TestStart"}
     \/ OnListener(e) /\ sstate # "CreateStreams"
     \/ OnStream(e) /\ sstate = "TestEnd"
  /\ Take("server", e)
  /\ UNCHANGED << proc, ctrlVars, ready, reg, listenVars, dataVars, serverVars >>

\* Mutant: the errors are dropped and the loop goes on.
SErrorDropped(e) ==
  /\ \/ OnControl(e) /\ e.readable /\ sstate \in {"Start", "ParamExchange"} /\ DrainFails("server")
     \/ OnControl(e) /\ sstate = "ExchangeResults" /\ ~CanWrite("server")
     \/ OnStream(e) /\ sstate = "TestStart" /\ dfin[e.src] = "eof"
  /\ Take("server", e)
  /\ UNCHANGED << proc, ctrlVars, ready, reg, listenVars, dataVars, serverVars >>

\* The `?`s of run(): drain_message or the write of the results fails.
SError(e) ==
  /\ \/ OnControl(e) /\ e.readable /\ sstate \in {"Start", "ParamExchange"} /\ DrainFails("server")
     \/ OnControl(e) /\ sstate = "ExchangeResults" /\ ~CanWrite("server")
     \/ OnStream(e) /\ sstate = "TestStart" /\ dfin[e.src] = "eof"
  /\ Restart

SStart(e) ==
  /\ OnControl(e) /\ e.readable /\ sstate = "Start" /\ ~DrainFails("server")
  /\ Take("server", e)
  /\ buf' = [buf EXCEPT !["server"] = << >>]
  /\ sstate' = "ParamExchange"
  /\ Sends(<< as_u8("ParamExchange") >>)
  /\ UNCHANGED << proc, tail, sock, ready, reg, listenVars, dataVars, nstreams, cookie_count >>

\* set_settings unwraps the parse of whatever was drained.  The listener the
\* control connection came from is registered for the data connections.
SParamExchange(e) ==
  /\ OnControl(e) /\ e.readable /\ sstate = "ParamExchange" /\ ~DrainFails("server")
  /\ IF buf["server"] # << SETTINGS >>
       THEN ServerPanics
       ELSE /\ Take("server", e)
            /\ buf' = [buf EXCEPT !["server"] = << >>]
            /\ listening' = TRUE
            /\ ready' = [ready EXCEPT !["server"] =
                           IF backlog > 0 THEN @ \cup {TCP_LISTENER} ELSE @]
            /\ sstate' = "CreateStreams"
            /\ Sends(<< as_u8("CreateStreams") >>)
            /\ UNCHANGED << proc, tail, sock, reg, syn, backlog, dataVars, nstreams, cookie_count >>

\* Test::end: every stream is deregistered; deregistering one twice panics.
CanEnd == reg["server"] = 1..nstreams
EndServer == reg' = [reg EXCEPT !["server"] = {}]
WithoutStreams(r) == r \ Streams

\* Mutant: the call is missing.
NoWake(r) == r

\* waker.wake(): the loop runs once more with a CONTROL event.
Wake(r) == r \cup {WAKER}

\* The single byte of a state, the only message TestRunning accepts.
StateMessage == Len(buf["server"]) = 1 /\ buf["server"][1] \in StateByte

\* Mutants: a lost client is treated as a test that ended.
RequestedTestEnd ==
  IF ~DrainFails("server") /\ StateMessage THEN from_i8(buf["server"][1]) ELSE "TestEnd"
RequestedResults ==
  IF ~DrainFails("server") /\ StateMessage THEN from_i8(buf["server"][1]) ELSE "ExchangeResults"

\* The state TestRunning goes to: what the client asks for, or End.
Requested ==
  IF ~DrainFails("server") /\ StateMessage THEN from_i8(buf["server"][1]) ELSE "End"

\* TestRunning, Ok arm: one byte, the state the client asks for.
STestRunning(e) ==
  /\ OnControl(e) /\ e.readable /\ sstate = "TestRunning" /\ ~DrainFails("server")
  /\ StateMessage
  /\ Take("server", e)
  /\ buf' = [buf EXCEPT !["server"] = << >>]
  /\ sstate' = Requested
  /\ ready' = [ready EXCEPT !["server"] = Wake(@)]
  /\ UNCHANGED << proc, wire, tail, sock, reg, listenVars, dataVars, nstreams, cookie_count >>

\* TestRunning, Err arm and any other length: the test is over.
SClientShutdown(e) ==
  /\ OnControl(e) /\ e.readable /\ sstate = "TestRunning"
  /\ DrainFails("server") \/ ~StateMessage
  /\ IF ~CanEnd
       THEN ServerPanics
       ELSE /\ Take("server", e)
            /\ buf' = [buf EXCEPT !["server"] = << >>]
            /\ EndServer
            /\ sstate' = Requested
            /\ ready' = [ready EXCEPT !["server"] = Wake(WithoutStreams(@))]
            /\ UNCHANGED << proc, wire, tail, sock, listenVars, dataVars, nstreams, cookie_count >>

STestEnd(e) ==
  /\ OnControl(e) /\ sstate = "TestEnd"
  /\ IF ~CanEnd
       THEN ServerPanics
       ELSE /\ Take("server", e)
            /\ EndServer
            /\ sstate' = "ExchangeResults"
            /\ ready' = [ready EXCEPT !["server"] = Wake(WithoutStreams(@))]
            /\ UNCHANGED << proc, ctrlVars, listenVars, dataVars, nstreams, cookie_count >>

\* One write of the whole JSON text; End is then left to the next event.
SExchangeResults(e) ==
  /\ OnControl(e) /\ sstate = "ExchangeResults" /\ CanWrite("server")
  /\ Take("server", e)
  /\ Sends([k \in 1..ResultSegs |-> RESULTS])
  /\ sstate' = "End"
  /\ UNCHANGED << proc, buf, tail, sock, ready, reg, listenVars, dataVars, nstreams, cookie_count >>

\* Any CONTROL event ends the run, without reading the socket.
SEnd(e) == OnControl(e) /\ sstate = "End" /\ Restart

-----------------------------------------------------------------------------
(* TCP_LISTENER and data connection events. *)

\* Mutant: the test starts with the first connection.
AnyStream(i) == TRUE

\* test.streams.len() == num_streams: the last of the data connections.
LastStream(i) == i = NumStreams

\* Accepts one data connection, the i-th, and registers it.
create_tcp_stream(i) ==
  /\ backlog' = backlog - 1
  /\ nstreams' = i
  /\ reg' = [reg EXCEPT !["server"] = @ \cup {i}]
  /\ ready' = [ready EXCEPT !["server"] =
                 IF dbuf[i] # << >> \/ dfin[i] = "eof" THEN @ \cup {i} ELSE @]

\* One connection per event; the last one starts the test.
SCreateStream(e) ==
  /\ OnListener(e) /\ sstate = "CreateStreams"
  /\ LET i == nstreams + 1
     IN IF backlog = 0 \/ i > NumStreams \/ (LastStream(i) /\ ~CanWrite("server"))
          THEN ServerPanics
          ELSE /\ Take("server", e)
               /\ create_tcp_stream(i)
               /\ IF LastStream(i)
                    THEN sstate' = "TestStart" /\ Sends(<< as_u8("TestStart") >>)
                    ELSE UNCHANGED << sstate, wire >>
               /\ UNCHANGED << proc, buf, tail, sock, syn, listening, dataVars, cookie_count >>

\* Mutant: the first cookie starts the test.
AnyCookie == TRUE

\* num_streams == cookie_count after the increment.
LastCookie == cookie_count + 1 = NumStreams

\* TestStart: one cookie per stream; the last one starts the test.
SCookie(e) ==
  /\ OnStream(e) /\ sstate = "TestStart" /\ dfin[e.src] # "eof"
  /\ IF LastCookie /\ ~CanWrite("server")
       THEN ServerPanics
       ELSE /\ Take("server", e)
            /\ dbuf' = [dbuf EXCEPT ![e.src] = << >>]
            /\ cookie_count' = cookie_count + 1
            /\ IF LastCookie
                 THEN sstate' = "TestRunning" /\ Sends(<< as_u8("TestRunning") >>)
                 ELSE UNCHANGED << sstate, wire >>
            /\ UNCHANGED << proc, buf, tail, sock, ready, reg, listenVars,
                            dwire, dfin, nospace, nstreams >>

\* TestRunning: read until the socket is empty; room made wakes the client.
SRead(e) ==
  /\ OnStream(e) /\ sstate = "TestRunning"
  /\ Take("server", e)
  /\ dbuf' = [dbuf EXCEPT ![e.src] = << >>]
  /\ IF e.src \in nospace /\ dbuf[e.src] # << >>
       THEN /\ nospace' = nospace \ {e.src}
            /\ ready' = [ready EXCEPT !["client"] =
                           IF e.src \in reg["client"] THEN @ \cup {e.src} ELSE @]
       ELSE UNCHANGED << nospace, ready >>
  /\ UNCHANGED << proc, ctrlVars, reg, listenVars, dwire, dfin, serverVars >>

\* "Unexpected state for STREAM": break leaves the rest of the batch unhandled.
SUnexpected(e) ==
  /\ OnStream(e) /\ sstate \notin {"TestStart", "TestRunning", "TestEnd"}
  /\ batch' = [batch EXCEPT !["server"] = {}]
  /\ UNCHANGED << proc, ctrlVars, ready, reg, listenVars, dataVars, serverVars >>

SHandle(e) ==
  \/ SIgnore(e) \/ SError(e)
  \/ SStart(e) \/ SParamExchange(e) \/ STestRunning(e) \/ SClientShutdown(e)
  \/ STestEnd(e) \/ SExchangeResults(e) \/ SEnd(e)
  \/ SCreateStream(e) \/ SCookie(e) \/ SRead(e) \/ SUnexpected(e)

ServerPoll == Poll("server") /\ UNCHANGED serverVars

ServerStep == SAccept \/ ServerPoll \/ \E e \in batch["server"] : SHandle(e)

\* The operator kills the server.
ServerKilled ==
  /\ ~Gone("server")
  /\ ServerCloses("Killed")
  /\ UNCHANGED serverVars

ServerInit ==
  /\ sstate = "Start"
  /\ nstreams = 0
  /\ cookie_count = 0

ServerTypeOK ==
  /\ sstate \in TestState
  /\ nstreams \in 0..NumStreams
  /\ cookie_count \in 0..NumStreams
=============================================================================
