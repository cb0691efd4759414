---------------------------- MODULE UdpStreams ----------------------------
(***************************************************************************)
(* Setting up the streams of a UDP test.  Each stream starts with a hello  *)
(* datagram; the server's one unconnected socket takes it, is connected to *)
(* its sender and becomes the stream, and a new socket is bound to the     *)
(* same port.  Then a cookie per stream starts the test.  The network may  *)
(* lose, duplicate and reorder datagrams; the control connection's         *)
(* announcements are read off the server's state.                          *)
(***************************************************************************)
EXTENDS Naturals, Sequences, FiniteSets

CONSTANTS
  NumStreams,   \* Settings.num_streams
  MaxLoss,      \* bound: datagrams lost
  MaxDup        \* bound: datagrams duplicated

ASSUME UdpAssumption ==
  /\ NumStreams \in 0..255
  /\ MaxLoss \in Nat /\ MaxDup \in Nat

Streams == 1..NumStreams
Sockets == 1..(IF NumStreams = 0 THEN 1 ELSE NumStreams)
Kind == {"hello", "cookie"}

VARIABLES
  sstate,        \* test.state of the server
  nstreams,      \* test.streams.len(): the sockets 1..nstreams are streams
  nsock,         \* sockets bound so far
  peer,          \* peer[s]: the client socket s is connected to, or 0
  step,          \* inside create_udp_stream: idle, connect or bind
  sender,        \* the address recv_from returned
  queue,         \* queue[s]: datagrams in socket s
  ready,         \* ready[s]: s is in epoll's ready list
  batch,         \* the events of the current poll
  cookie_count,
  cstate, cidx,  \* the client's state and its place in its loop
  refused,       \* refused[i]: an ICMP error waits on the client's socket i
  paced,         \* in this test the client's 10 ms sleep outlasts the server's handling
  flight,        \* flight[i][k]: datagrams of kind k from socket i on their way
  lost, dups

server == << sstate, nstreams, nsock, peer, step, sender, batch, cookie_count >>
client == << cstate, cidx, refused >>
net == << paced, flight, lost, dups >>
vars == << server, client, queue, ready, net >>

Init ==
  /\ sstate = "CreateStreams" /\ nstreams = 0 /\ nsock = 1
  /\ peer = [s \in Sockets |-> 0] /\ step = "idle" /\ sender = 0
  /\ queue = [s \in Sockets |-> << >>]
  /\ ready = [s \in Sockets |-> FALSE] /\ batch = {}
  /\ cookie_count = 0
  /\ cstate = "CreateStreams" /\ cidx = 1
  /\ refused = [i \in Streams |-> FALSE]
  /\ paced \in BOOLEAN
  /\ flight = [i \in Streams |-> [k \in Kind |-> 0]]
  /\ lost = 0 /\ dups = 0

\* Nothing is left for the network or the server to do.
Quiet ==
  /\ \A i \in Streams, k \in Kind : flight[i][k] = 0
  /\ batch = {} /\ step = "idle" /\ \A s \in Sockets : ~ready[s]

-----------------------------------------------------------------------------
\* udp::connect: a socket of its own and its hello.
connect ==
  /\ cstate = "CreateStreams" /\ cidx \in Streams
  /\ paced => Quiet
  /\ flight' = [flight EXCEPT ![cidx]["hello"] = @ + 1]
  /\ cidx' = cidx + 1
  /\ UNCHANGED << server, queue, ready, cstate, refused, paced, lost, dups >>

\* The cookie of one stream; a pending error is reported instead of a send,
\* and the client goes on with the next stream.
CCookie ==
  /\ cstate = "TestStart" /\ sstate # "CreateStreams" /\ cidx \in Streams
  /\ refused' = [refused EXCEPT ![cidx] = FALSE]
  /\ flight' = IF refused[cidx] THEN flight ELSE [flight EXCEPT ![cidx]["cookie"] = @ + 1]
  /\ cidx' = cidx + 1
  /\ UNCHANGED << server, queue, ready, cstate, paced, lost, dups >>

\* The end of either loop.
CLoopEnds ==
  /\ cidx = NumStreams + 1
  /\ \/ cstate = "CreateStreams" /\ cstate' = "TestStart"
     \/ cstate = "TestStart" /\ sstate # "CreateStreams" /\ cstate' = "TestRunning"
  /\ cidx' = 1
  /\ UNCHANGED << server, queue, ready, refused, net >>

-----------------------------------------------------------------------------
\* poll: a source of the ready list is reported if it is still readable.
SPoll ==
  /\ batch = {} /\ step = "idle" /\ \E s \in Sockets : ready[s]
  /\ batch' = {s \in Sockets : ready[s] /\ queue[s] # << >>}
  /\ ready' = [s \in Sockets |-> FALSE]
  /\ UNCHANGED << sstate, nstreams, nsock, peer, step, sender, cookie_count, client, queue, net >>

\* Mutants: the limits are taken wrongly; the socket stays unconnected.
OneMoreSocket(n) == n <= NumStreams
AnyCookie(n) == n >= 1
OneMoreCookie(n) == n > NumStreams
NoConnect(p) == 0

NeedsSocket(n) == n < NumStreams
LastCookie(n) == n = NumStreams
Connected(p) == p

\* create_udp_stream, recv_from: the event of the unconnected socket.
SReceive(s) ==
  /\ s \in batch /\ s > nstreams /\ step = "idle" /\ sstate = "CreateStreams"
  /\ batch' = batch \ {s}
  /\ sender' = Head(queue[s]).from
  /\ queue' = [queue EXCEPT ![s] = Tail(@)]
  /\ step' = "connect"
  /\ UNCHANGED << sstate, nstreams, nsock, peer, cookie_count, client, ready, net >>

\* connect, reregister (which looks for queued datagrams) and the push.
SConnect ==
  /\ step = "connect"
  /\ peer' = [peer EXCEPT ![nsock] = Connected(sender)]
  /\ ready' = [ready EXCEPT ![nsock] = queue[nsock] # << >>]
  /\ nstreams' = nstreams + 1
  /\ step' = "bind"
  /\ UNCHANGED << sstate, nsock, sender, batch, cookie_count, client, queue, net >>

\* A socket for the next stream, or the announcement after the last one.
SBind ==
  /\ step = "bind"
  /\ nsock' = IF NeedsSocket(nstreams) THEN nsock + 1 ELSE nsock
  /\ sstate' = IF nstreams = NumStreams THEN "TestStart" ELSE sstate
  /\ step' = "idle"
  /\ UNCHANGED << nstreams, peer, sender, batch, cookie_count, client, queue, ready, net >>

\* A stream's event.  In TestStart drain_message takes all there is for one
\* cookie; in TestRunning it would be read as data; in CreateStreams it is
\* unexpected and the rest of the batch is dropped with it.
SStream(s) ==
  /\ s \in batch /\ s <= nstreams /\ step = "idle"
  /\ IF sstate = "CreateStreams"
       THEN batch' = {} /\ UNCHANGED << queue, cookie_count, sstate >>
       ELSE /\ batch' = batch \ {s}
            /\ queue' = [queue EXCEPT ![s] = << >>]
            /\ cookie_count' = IF sstate = "TestStart" THEN cookie_count + 1 ELSE cookie_count
            /\ sstate' = IF LastCookie(cookie_count') THEN "TestRunning" ELSE sstate
  /\ UNCHANGED << nstreams, nsock, peer, step, sender, client, ready, net >>

-----------------------------------------------------------------------------
\* The socket a datagram of client socket i is for: the one connected to it,
\* else an unconnected one, else none.
Target(i) ==
  LET bound == 1..nsock
      own == {s \in bound : peer[s] = i}
  IN IF own # {} THEN own ELSE {s \in bound : peer[s] = 0}

Takes(i, k) == flight[i][k] > 0 /\ flight' = [flight EXCEPT ![i][k] = @ - 1]

Deliver(i, k) ==
  /\ Takes(i, k)
  /\ \E s \in Target(i) :
       /\ queue' = [queue EXCEPT ![s] = Append(@, [from |-> i, kind |-> k])]
       /\ ready' = [ready EXCEPT ![s] = TRUE]
  /\ UNCHANGED << server, client, paced, lost, dups >>

\* No socket: the answer is an ICMP error, which may get lost itself.
Refuse(i, k) ==
  /\ Takes(i, k) /\ Target(i) = {}
  /\ \E e \in BOOLEAN : refused' = [refused EXCEPT ![i] = @ \/ e]
  /\ UNCHANGED << server, queue, ready, cstate, cidx, paced, lost, dups >>

Lose(i, k) ==
  /\ Takes(i, k) /\ lost < MaxLoss
  /\ lost' = lost + 1
  /\ UNCHANGED << server, client, queue, ready, paced, dups >>

Duplicate(i, k) ==
  /\ flight[i][k] > 0 /\ dups < MaxDup
  /\ flight' = [flight EXCEPT ![i][k] = @ + 1]
  /\ dups' = dups + 1
  /\ UNCHANGED << server, client, queue, ready, paced, lost >>

\* The test runs, or waits for what was lost.
Finished ==
  /\ Quiet /\ ((sstate = "TestRunning" /\ cstate = "TestRunning") \/ lost > 0)
  /\ UNCHANGED vars

Client == connect \/ CCookie \/ CLoopEnds
Server == SPoll \/ SConnect \/ SBind \/ \E s \in Sockets : SReceive(s) \/ SStream(s)
Arrives == \E i \in Streams, k \in Kind : Deliver(i, k) \/ Refuse(i, k)
Faults == \E i \in Streams, k \in Kind : Lose(i, k) \/ Duplicate(i, k)

Next == Client \/ Server \/ Arrives \/ Faults \/ Finished

Spec == Init /\ [][Next]_vars
FairSpec == Spec /\ WF_vars(Client) /\ WF_vars(Server) /\ WF_vars(Arrives)

-----------------------------------------------------------------------------
\* Every variable has its type.
TypeOK ==
  /\ sstate \in {"CreateStreams", "TestStart", "TestRunning"}
  /\ nstreams \in 0..NumStreams /\ nsock \in Sockets
  /\ peer \in [Sockets -> 0..NumStreams] /\ sender \in 0..NumStreams
  /\ step \in {"idle", "connect", "bind"}
  /\ queue \in [Sockets -> Seq([from : Streams, kind : Kind])]
  /\ ready \in [Sockets -> BOOLEAN] /\ batch \subseteq Sockets
  /\ cookie_count \in 0..NumStreams
  /\ cstate \in {"CreateStreams", "TestStart", "TestRunning"} /\ cidx \in 1..(NumStreams + 1)
  /\ refused \in [Streams -> BOOLEAN]
  /\ flight \in [Streams -> [Kind -> Nat]] /\ lost \in 0..MaxLoss /\ dups \in 0..MaxDup

\* Every stream has a client socket of its own, whatever is duplicated or comes
\* between recv_from and connect: until the socket is connected no other one is
\* bound that could take a second hello for a second stream.
OneSocketPerStream ==
  \A s, t \in 1..nstreams : s # t => peer[s] # peer[t]

\* Without duplicates a running test has taken all cookies and hellos: none is
\* left that TestRunning would count as data and as a sequence number.
NoStray ==
  sstate = "TestRunning" /\ dups = 0 =>
    /\ \A s \in Sockets : queue[s] = << >>
    /\ \A i \in Streams, k \in Kind : flight[i][k] = 0

\* The set-up ends unless a datagram is lost: nothing is ever sent again.
SetUp == sstate = "TestRunning" \/ lost > 0

\* A paced set-up ends.
UdpStarts == paced => <>SetUp

\* So does one whose hellos come faster than the server handles them.
UdpStartsUnpaced == <>SetUp
=============================================================================
