--------------------------- MODULE TlsHandshake ---------------------------
(***************************************************************************)
(* Setting up the data streams of a TLS test: the client's connect loop    *)
(* and the server's TLS_LISTENER handler, each of which runs a whole       *)
(* TlsEndpoint::handshake inside itself.  rustls is external: of a TLS 1.3 *)
(* handshake only the number of messages each side has queued matters.     *)
(***************************************************************************)
EXTENDS Naturals

CONSTANTS
  NumStreams,        \* Settings.num_streams
  DebugAssertions,   \* a dev build: mio refuses a second registration
  MayDie             \* the sides that may be killed

Side == {"client", "server"}

ASSUME TlsAssumption ==
  /\ NumStreams \in 1..255
  /\ DebugAssertions \in BOOLEAN
  /\ MayDie \subseteq Side

Streams == 1..NumStreams
Other(x) == IF x = "client" THEN "server" ELSE "client"

VARIABLES
  pc,         \* pc[x]: loop, connected, handshake, adopt (print_new_stream), over, panic, gone
  streams,    \* streams[x]: test.streams.len() of x
  sstate,     \* test.state of the server
  backlog,    \* connections in the listener's queue
  ledge,      \* the listener has an event the server has not taken
  edge,       \* edge[x]: an event in the Poll of x's handshake
  written,    \* written[x][i]: handshake messages x has written to stream i
  arrived,    \* arrived[x][i]: messages of the peer in x's socket, ever
  read,       \* read[x][i]: of these, the ones rustls has processed
  sock        \* sock[x][i]: open, eof, or reset

vars == << pc, streams, sstate, backlog, ledge, edge, written, arrived, read, sock >>
netVars == << written, arrived, read, sock >>

Current(x) == streams[x] + 1
Alive(x) == pc[x] \notin {"panic", "gone"}

\* rustls: messages x has queued once it has processed r of the peer's.  The
\* client opens with its hello and ends with its Finished; the server answers
\* with a flight of two segments and, when it has the client's Finished, a ticket.
Queued(x, r) ==
  IF x = "client" THEN IF r >= 2 THEN 2 ELSE 1
                  ELSE IF r >= 2 THEN 3 ELSE IF r = 1 THEN 2 ELSE 0

\* Mutants: the loop is left at the first event; after the first message.
NoHandshake(r) == TRUE
AfterHello(r) == r >= 1

\* !self.entity.is_handshaking(): both of the peer's messages are processed.
HandshakeOver(r) == r >= 2

\* Mutants: the event that ends the handshake does not write; what was written
\* stays queued.
WriteUnlessOver(x, before, after) == Queued(x, IF HandshakeOver(after) THEN before ELSE after)
WriteAgain(x, before, after) == Queued(x, before) + Queued(x, after)

\* do_tls_write_and_handle_error after ready(): all that is queued by then.
do_write(x, before, after) == Queued(x, after)

Init ==
  /\ pc = [x \in Side |-> "loop"]
  /\ streams = [x \in Side |-> 0]
  /\ sstate = "CreateStreams"
  /\ backlog = 0 /\ ledge = FALSE
  /\ edge = [x \in Side |-> FALSE]
  /\ written = [x \in Side |-> [i \in Streams |-> 0]]
  /\ arrived = [x \in Side |-> [i \in Streams |-> 0]]
  /\ read = [x \in Side |-> [i \in Streams |-> 0]]
  /\ sock = [x \in Side |-> [i \in Streams |-> "open"]]

\* x enters handshake(): a new Poll, in which the socket is writable at once.
Handshake(x) ==
  /\ pc' = [pc EXCEPT ![x] = "handshake"]
  /\ edge' = [edge EXCEPT ![x] = TRUE]

\* The client's loop: connect.
Connect ==
  /\ pc["client"] = "loop" /\ Alive("server")
  /\ backlog' = backlog + 1
  /\ ledge' = TRUE
  /\ pc' = [pc EXCEPT !["client"] = "connected"]
  /\ UNCHANGED << streams, sstate, edge, netVars >>

\* TlsEndpoint::client unwraps peer_addr() for the server's name.
ClientEndpoint ==
  /\ pc["client"] = "connected"
  /\ IF sock["client"][Current("client")] = "reset"
       THEN pc' = [pc EXCEPT !["client"] = "panic"] /\ UNCHANGED edge
       ELSE Handshake("client")
  /\ UNCHANGED << streams, sstate, backlog, ledge, netVars >>

\* create_tls_stream: one connection per event; its socket is registered with
\* the server's loop and then with the Poll of the handshake.
create_tls_stream ==
  /\ pc["server"] = "loop" /\ sstate = "CreateStreams"
  /\ ledge /\ backlog > 0
  /\ ledge' = FALSE
  /\ backlog' = backlog - 1
  /\ IF DebugAssertions
       THEN pc' = [pc EXCEPT !["server"] = "panic"] /\ UNCHANGED edge
       ELSE Handshake("server")
  /\ UNCHANGED << streams, sstate, netVars >>

\* One event of handshake(): read if readable, write, and leave if it is over.
\* An end of stream or an error only sets `closing`, which nothing looks at.
HandshakeEvent(x) ==
  LET i == Current(x)
      r == arrived[x][i]
  IN /\ pc[x] = "handshake" /\ edge[x]
     /\ edge' = [edge EXCEPT ![x] = FALSE]
     /\ read' = [read EXCEPT ![x][i] = r]
     /\ written' = IF sock[x][i] = "reset" THEN written
                   ELSE [written EXCEPT ![x][i] = do_write(x, read[x][i], r)]
     /\ pc' = [pc EXCEPT ![x] = IF HandshakeOver(r) THEN "adopt" ELSE @]
     /\ UNCHANGED << streams, sstate, backlog, ledge, arrived, sock >>

\* print_new_stream unwraps peer_addr(), the stream is pushed, and the last one
\* ends the client's loop and makes the server announce TestStart.
Adopt(x) ==
  /\ pc[x] = "adopt"
  /\ IF sock[x][Current(x)] = "reset"
       THEN pc' = [pc EXCEPT ![x] = "panic"] /\ UNCHANGED << streams, sstate >>
       ELSE /\ streams' = [streams EXCEPT ![x] = @ + 1]
            /\ pc' = [pc EXCEPT ![x] = IF x = "client" /\ Current(x) = NumStreams
                                       THEN "over" ELSE "loop"]
            /\ sstate' = IF x = "server" /\ Current(x) = NumStreams THEN "TestStart" ELSE sstate
  /\ UNCHANGED << backlog, ledge, edge, netVars >>

\* A new edge for a handshake on stream i.
Edge(x, i) == edge' = [edge EXCEPT ![x] = @ \/ (pc[x] = "handshake" /\ Current(x) = i)]

Deliver(x, i) ==
  /\ Alive(x)
  /\ arrived[x][i] < written[Other(x)][i]
  /\ arrived' = [arrived EXCEPT ![x][i] = @ + 1]
  /\ Edge(x, i)
  /\ UNCHANGED << pc, streams, sstate, backlog, ledge, written, read, sock >>

\* x has a socket for stream i.
Holds(x, i) == i <= streams[x] \/ (pc[x] \in {"connected", "handshake", "adopt"} /\ i = Current(x))

\* The peer has died: its FIN comes behind its data, and a reset if it had not
\* accepted the connection, or has left something of x's unread.
PeerGone(x, i) ==
  /\ Alive(x) /\ ~Alive(Other(x)) /\ Holds(x, i)
  /\ \/ /\ sock[x][i] = "open" /\ arrived[x][i] = written[Other(x)][i]
        /\ sock' = [sock EXCEPT ![x][i] = "eof"]
     \/ /\ sock[x][i] # "reset"
        /\ \/ written[x][i] > read[Other(x)][i]
           \/ x = "client" /\ backlog > 0 /\ i = Current(x)
        /\ sock' = [sock EXCEPT ![x][i] = "reset"]
  /\ Edge(x, i)
  /\ UNCHANGED << pc, streams, sstate, backlog, ledge, written, arrived, read >>

Dies(x) ==
  /\ x \in MayDie /\ Alive(x)
  /\ pc' = [pc EXCEPT ![x] = "gone"]
  /\ UNCHANGED << streams, sstate, backlog, ledge, edge, netVars >>

\* The set-up is over.
Finished == pc["client"] = "over" /\ sstate = "TestStart" /\ UNCHANGED vars

Client == Connect \/ ClientEndpoint \/ HandshakeEvent("client") \/ Adopt("client")
Server == create_tls_stream \/ HandshakeEvent("server") \/ Adopt("server")
Net(i) == \E x \in Side : Deliver(x, i) \/ PeerGone(x, i)

Next == Client \/ Server \/ (\E i \in Streams : Net(i)) \/ (\E x \in Side : Dies(x)) \/ Finished

Spec == Init /\ [][Next]_vars
FairSpec == Spec /\ WF_vars(Client) /\ WF_vars(Server) /\ \A i \in Streams : WF_vars(Net(i))

-----------------------------------------------------------------------------
\* Every variable has its type.
TypeOK ==
  /\ pc \in [Side -> {"loop", "connected", "handshake", "adopt", "over", "panic", "gone"}]
  /\ streams \in [Side -> 0..NumStreams]
  /\ sstate \in {"CreateStreams", "TestStart"}
  /\ backlog \in Nat /\ ledge \in BOOLEAN
  /\ edge \in [Side -> BOOLEAN]
  /\ written \in [Side -> [Streams -> 0..3]]
  /\ arrived \in [Side -> [Streams -> 0..3]]
  /\ read \in [Side -> [Streams -> 0..3]]
  /\ sock \in [Side -> [Streams -> {"open", "eof", "reset"}]]

\* TestStart is announced only when the handshake of every stream is over on
\* both sides: no cookie can meet a socket that still speaks the handshake.
SecuredStart ==
  sstate = "TestStart" => \A x \in Side, i \in Streams : read[x][i] >= 2

\* handshake() returns on one event although its socket is edge-triggered: what
\* the peer waits for has been written by then (the client's Finished is
\* queued by the very event that ends its handshake).
NothingHeldBack ==
  \A x \in Side, i \in Streams :
    Holds(x, i) /\ (i <= streams[x] \/ pc[x] = "adopt") =>
      written[x][i] = Queued(x, read[x][i]) \/ sock[x][i] = "reset"

\* The listener is edge-triggered and one connection is accepted per event.  A
\* TLS client cannot outrun it: its handshake waits for the accept.
ListenerKeepsUp == backlog <= 1 /\ (backlog = 1 => ledge)

\* The two handshake loops do not wait for each other for ever, unless one of
\* the processes is killed.
TestStarts ==
  \/ <>(sstate = "TestStart" /\ pc["client"] = "over")
  \/ <>(\E x \in Side : pc[x] = "gone")

\* "Error: {}, restarting" (main): a lost client does not end the server.
ServerSurvives == pc["server"] # "panic"
=============================================================================
