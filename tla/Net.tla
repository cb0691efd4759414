------------------------------- MODULE Net -------------------------------
(***************************************************************************)
(* What the two nperf processes share: the test-state encoding, the        *)
(* control connection, the TCP data connections, the listener's queue and  *)
(* the edge-triggered readiness that mio::Poll reports (Linux epoll with   *)
(* EPOLLET).  Kernel and mio are not part of the repository: they are      *)
(* modelled from how net.rs, tcp.rs, server.rs and client.rs use them.     *)
(***************************************************************************)
EXTENDS Integers, Sequences, FiniteSets

CONSTANTS
  NumStreams,   \* -P, Settings.num_streams: parallel data streams
  Cap,          \* blocks a data connection holds before a write would block
  ResultSegs    \* TCP segments the results JSON arrives in

ASSUME NetAssumption ==
  /\ NumStreams \in 1..255    \* num_streams is a u8; 0 streams never start a test
  /\ Cap \in Nat \ {0}
  /\ ResultSegs \in Nat \ {0}

VARIABLES
  proc,       \* what each process is doing (see Process)
  wire,       \* wire[x]: control messages in flight to x
  buf,        \* buf[x]: control messages arrived at x and not yet read
  tail,       \* tail[x]: FIN or RST in flight to x behind wire[x]
  sock,       \* sock[x]: what x's control socket has seen
  ready,      \* ready[x]: sources on x's epoll ready list
  reg,        \* reg[x]: data connections registered with x's event loop
  batch,      \* batch[x]: events of the current poll x has still to handle
  syn,        \* the control connection waits in the listener's queue
  backlog,    \* data connections waiting in the listener's queue
  listening,  \* the listener is registered with the server's event loop
  dwire,      \* dwire[i]: blocks in flight on data connection i
  dbuf,       \* dbuf[i]: blocks arrived at the server and not yet read
  dfin,       \* dfin[i]: the client's end of data connection i
  nospace     \* data connections whose last write would have blocked

ctrlVars   == << wire, buf, tail, sock >>
listenVars == << syn, backlog, listening >>
dataVars   == << dwire, dbuf, dfin, nospace >>
netVars    == << proc, ctrlVars, ready, reg, batch, listenVars, dataVars >>

Side == {"server", "client"}
Other(x) == IF x = "server" THEN "client" ELSE "server"
Streams == 1..NumStreams

-----------------------------------------------------------------------------
(* TestState and the byte that stands for it on the control connection. *)

TestState == {"Start", "ParamExchange", "CreateStreams", "TestStart", "TestRunning",
              "TestEnd", "Wait", "ExchangeResults", "End"}

as_u8(s) ==
  CASE s = "Start" -> 0 [] s = "ParamExchange" -> 1 [] s = "CreateStreams" -> 2
    [] s = "TestStart" -> 3 [] s = "TestRunning" -> 4 [] s = "TestEnd" -> 5
    [] s = "Wait" -> 6 [] s = "ExchangeResults" -> 7 [] s = "End" -> 8

from_i8(b) ==
  CASE b = 0 -> "Start" [] b = 1 -> "ParamExchange" [] b = 2 -> "CreateStreams"
    [] b = 3 -> "TestStart" [] b = 4 -> "TestRunning" [] b = 5 -> "TestEnd"
    [] b = 6 -> "Wait" [] b = 7 -> "ExchangeResults" [] b = 8 -> "End"

StateByte == 0..8

\* The three longer messages; only their identity matters.
COOKIE   == 100
SETTINGS == 101
RESULTS  == 102
\* A block of test data; data connections carry a cookie and then blocks.
DATA     == 103

Msg   == StateByte \cup {COOKIE, SETTINGS, RESULTS}
Block == {COOKIE, DATA}

-----------------------------------------------------------------------------
(* Event sources.  Data connection i (token i - 1 in the code) is source i. *)
(* The Waker's eventfd is a source of its own, reported with token CONTROL. *)

CONTROL      == 1024
TCP_LISTENER == 1025
WAKER        == 1030

Source == Streams \cup {CONTROL, TCP_LISTENER, WAKER}
Event  == [src : Source, readable : BOOLEAN]

\* Where a process is: waiting for its control connection, in its event loop,
\* inside one of the client handler's inner loops, or ended.
Process == {"Accept", "Loop", "Connecting", "Printing", "Cookies", "Sending", "Leaving",
            "Done", "Failed", "Panic", "Killed"}

Gone(x) == proc[x] \in {"Done", "Failed", "Panic", "Killed"}

\* Blocks a data connection holds, in flight or unread.
Held(i) == Len(dwire[i]) + Len(dbuf[i])

\* x has something to read on its control socket (EOF and errors count).
CtrlReadable(x) == buf[x] # << >> \/ sock[x] # "open"

\* epoll_wait asks the source again and drops it when nothing is ready.  The
\* control sockets are registered for WRITABLE too and always writable.
Reported(x, s) ==
  CASE s \in {CONTROL, WAKER} -> TRUE
    [] s = TCP_LISTENER       -> backlog > 0
    [] OTHER -> IF x = "server" THEN dbuf[s] # << >> \/ dfin[s] = "eof"
                                ELSE Held(s) < Cap \/ proc["server"] # "Loop"

Readable(x, s) == s = CONTROL => CtrlReadable(x)

\* poll.poll(&mut events, ..): the ready list becomes the batch to iterate.
Poll(x) ==
  /\ proc[x] = "Loop"
  /\ batch[x] = {}
  /\ ready[x] # {}
  /\ batch' = [batch EXCEPT ![x] =
                 {[src |-> s, readable |-> Readable(x, s)] :
                    s \in {r \in ready[x] : Reported(x, r)}}]
  /\ ready' = [ready EXCEPT ![x] = {}]
  /\ UNCHANGED << proc, ctrlVars, reg, listenVars, dataVars >>

\* The handler of event e is done; the others of the batch are still to come.
Take(x, e) == batch' = [batch EXCEPT ![x] = @ \ {e}]

\* drain_message fails once EOF or a reset is on the socket, whatever it read.
DrainFails(x) == sock[x] # "open"

\* write_socket on the control connection succeeds unless it was reset.
CanWrite(x) == sock[x] # "reset"

\* What x's peer is sent when x's control socket is closed: closing with
\* unread data aborts the connection, and a dead connection sends nothing.
TailOnClose(x) ==
  [tail EXCEPT ![Other(x)] =
     IF sock[x] \in {"reset", "closed"} THEN @
     ELSE IF buf[x] # << >> \/ (x = "server" /\ syn) THEN "rst" ELSE "fin"]

\* A control message reaches x: read buffer and a new edge, or a reset back
\* to the sender when x has already closed its socket.
DeliverCtrl(x) ==
  /\ wire[x] # << >>
  /\ wire' = [wire EXCEPT ![x] = Tail(@)]
  /\ \/ /\ sock[x] \in {"open", "eof"}
        /\ buf' = [buf EXCEPT ![x] = Append(@, Head(wire[x]))]
        /\ ready' = [ready EXCEPT ![x] = IF proc[x] = "Accept" THEN @ ELSE @ \cup {CONTROL}]
        /\ UNCHANGED tail
     \/ /\ sock[x] = "closed"
        /\ tail' = [tail EXCEPT ![Other(x)] = "rst"]
        /\ UNCHANGED << buf, ready >>
     \/ /\ sock[x] = "reset"
        /\ UNCHANGED << buf, ready, tail >>
  /\ UNCHANGED << proc, sock, reg, batch, listenVars, dataVars >>

\* The FIN or RST behind the messages reaches x.
DeliverTail(x) ==
  /\ wire[x] = << >>
  /\ tail[x] # "none"
  /\ tail' = [tail EXCEPT ![x] = "none"]
  /\ IF sock[x] = "closed"
       THEN UNCHANGED << sock, ready >>
       ELSE /\ sock' = [sock EXCEPT ![x] = IF tail[x] = "rst" THEN "reset" ELSE "eof"]
            /\ ready' = [ready EXCEPT ![x] = IF proc[x] = "Accept" THEN @ ELSE @ \cup {CONTROL}]
  /\ UNCHANGED << proc, wire, buf, reg, batch, listenVars, dataVars >>

-----------------------------------------------------------------------------
(* The data connections: client to server only. *)

\* A readiness edge for the server, if it has registered connection i.
ServerEdge(i) ==
  ready' = [ready EXCEPT !["server"] = IF i \in reg["server"] THEN @ \cup {i} ELSE @]

DeliverData(i) ==
  /\ dwire[i] # << >>
  /\ dwire' = [dwire EXCEPT ![i] = Tail(@)]
  /\ dbuf' = [dbuf EXCEPT ![i] = Append(@, Head(dwire[i]))]
  /\ ServerEdge(i)
  /\ UNCHANGED << proc, ctrlVars, reg, batch, listenVars, dfin, nospace >>

\* The client's FIN reaches the server behind the last block.
DeliverFin(i) ==
  /\ dfin[i] = "fin"
  /\ dwire[i] = << >>
  /\ proc["server"] = "Loop"
  /\ dfin' = [dfin EXCEPT ![i] = "eof"]
  /\ ServerEdge(i)
  /\ UNCHANGED << proc, ctrlVars, reg, batch, listenVars, dwire, dbuf, nospace >>

-----------------------------------------------------------------------------
CtrlTypeOK ==
  /\ wire \in [Side -> Seq(Msg)]
  /\ buf \in [Side -> Seq(Msg)]
  /\ tail \in [Side -> {"none", "fin", "rst"}]
  /\ sock \in [Side -> {"open", "eof", "reset", "closed"}]

LoopTypeOK ==
  /\ proc \in [Side -> Process]
  /\ ready \in [Side -> SUBSET Source]
  /\ reg \in [Side -> SUBSET Streams]
  /\ batch \in [Side -> SUBSET Event]

ListenTypeOK ==
  /\ syn \in BOOLEAN
  /\ backlog \in Nat
  /\ listening \in BOOLEAN

DataTypeOK ==
  /\ dwire \in [Streams -> Seq(Block)]
  /\ dbuf \in [Streams -> Seq(Block)]
  /\ dfin \in [Streams -> {"open", "fin", "eof", "rst"}]
  /\ nospace \in SUBSET Streams
=============================================================================
