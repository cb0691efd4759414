------------------------- MODULE UdpStreamsProofs -------------------------
(***************************************************************************)
(* The set-up of a UDP test, proved for every number of streams and every  *)
(* number of lost and duplicated datagrams: its types, a client socket of  *)
(* its own for every stream, and nothing of the set-up left for a running  *)
(* test when the network duplicates nothing.                               *)
(***************************************************************************)
EXTENDS UdpStreams, FiniteSetTheorems, TLAPS

\* What a queue holds.
Datagram == [from : Streams, kind : Kind]

\* Which sockets are bound, connected and hold something, in each step of
\* create_udp_stream.
Bound ==
  /\ step = "connect" => /\ sstate = "CreateStreams" /\ sender \in Streams
                         /\ nsock = nstreams + 1 /\ nstreams < NumStreams
  /\ step = "bind" => sstate = "CreateStreams" /\ nsock = nstreams /\ nstreams > 0
  /\ step = "idle" /\ sstate = "CreateStreams" =>
       nsock = nstreams + 1 /\ (NumStreams = 0 \/ nstreams < NumStreams)
  /\ sstate # "CreateStreams" =>
       step = "idle" /\ nstreams = NumStreams /\ nsock = NumStreams /\ NumStreams > 0
  /\ \A s \in Sockets : peer[s] # 0 <=> s <= nstreams
  /\ \A s \in Sockets : s > nsock => queue[s] = << >>
  /\ \A s \in batch : queue[s] # << >>

\* The cookies of a test that has not all of them are fewer than its streams.
Counted ==
  /\ sstate = "CreateStreams" => cookie_count = 0
  /\ sstate = "TestStart" => cookie_count < NumStreams
  /\ sstate = "TestRunning" => cookie_count = NumStreams

\* No stream's client is the sender that is being connected, or has a
\* datagram in the unconnected socket.
Apart ==
  /\ OneSocketPerStream
  /\ step = "connect" => \A t \in 1..nstreams : peer[t] # sender
  /\ \A s \in Sockets : s > nstreams =>
       \A n \in DOMAIN queue[s] : \A t \in 1..nstreams : peer[t] # queue[s][n].from

Setup == TypeOK /\ Bound /\ Counted /\ Apart

-----------------------------------------------------------------------------
(* Without duplicates. *)

\* The client has got past the datagram of kind k on socket i.
Sent(i, k) ==
  IF k = "hello" THEN cstate # "CreateStreams" \/ i < cidx
  ELSE cstate = "TestRunning" \/ (cstate = "TestStart" /\ i < cidx)

Queued(s, i, k) == \E n \in DOMAIN queue[s] : queue[s][n] = [from |-> i, kind |-> k]

\* A datagram is in one place: unsent, in flight, in one queue, or gone.
Once ==
  /\ \A i \in Streams, k \in Kind :
       /\ flight[i][k] <= 1
       /\ ~Sent(i, k) => flight[i][k] = 0
       /\ \A s \in Sockets : Queued(s, i, k) => Sent(i, k) /\ flight[i][k] = 0
       /\ \A s, t \in Sockets : Queued(s, i, k) /\ Queued(t, i, k) => s = t
  /\ \A s \in Sockets : \A m, n \in DOMAIN queue[s] : queue[s][m] = queue[s][n] => m = n

\* The hello of a stream, or of the sender being connected, is gone.
Taken(i) == (\E s \in 1..nstreams : peer[s] = i) \/ (step = "connect" /\ sender = i)
Hellos ==
  \A i \in Streams : Taken(i) =>
    /\ Sent(i, "hello") /\ flight[i]["hello"] = 0
    /\ \A s \in Sockets : ~Queued(s, i, "hello")

\* Cookies follow the announcement, and are all that a stream can get then.
Cookies ==
  /\ sstate = "CreateStreams" => \A i \in Streams : ~Sent(i, "cookie")
  /\ sstate # "CreateStreams" =>
       /\ \A i \in Streams : flight[i]["hello"] = 0
       /\ \A s \in Sockets : \A n \in DOMAIN queue[s] :
            queue[s][n] = [from |-> peer[s], kind |-> "cookie"]

\* The clients whose cookie is gone: every counted one is among them.
Spent ==
  {i \in Streams : /\ Sent(i, "cookie") /\ flight[i]["cookie"] = 0
                   /\ \A s \in Sockets : ~Queued(s, i, "cookie")}

Clear ==
  /\ Once /\ Hellos /\ Cookies
  /\ sstate # "CreateStreams" => cookie_count <= Cardinality(Spent)

NoDuplicates == dups = 0 => Clear

-----------------------------------------------------------------------------
(* Queues. *)

LEMMA SocketFacts ==
  /\ NumStreams \in Nat /\ Streams = 1..NumStreams
  /\ \A s \in Sockets : s \in Nat /\ s > 0
  /\ NumStreams > 0 => Sockets = Streams
  /\ NumStreams = 0 => Sockets = {1} /\ Streams = {}
  BY UdpAssumption DEF Sockets, Streams

LEMMA AppendQueue ==
  ASSUME NEW q \in Seq(Datagram), NEW d \in Datagram
  PROVE  /\ Append(q, d) \in Seq(Datagram) /\ Append(q, d) # << >>
         /\ Len(q) \in Nat /\ DOMAIN q = 1..Len(q)
         /\ DOMAIN Append(q, d) = 1..(Len(q) + 1)
         /\ \A n \in DOMAIN q : Append(q, d)[n] = q[n] /\ q[n] \in Datagram
         /\ Append(q, d)[Len(q) + 1] = d
  OBVIOUS

LEMMA TailQueue ==
  ASSUME NEW q \in Seq(Datagram), q # << >>
  PROVE  /\ Tail(q) \in Seq(Datagram) /\ Head(q) \in Datagram
         /\ 1 \in DOMAIN q /\ Head(q) = q[1]
         /\ \A n \in DOMAIN Tail(q) : n \in Nat /\ n + 1 \in DOMAIN q /\ n + 1 # 1 /\ Tail(q)[n] = q[n + 1]
  OBVIOUS

-----------------------------------------------------------------------------
(* Types, sockets and counts, whatever the network does. *)

LEMMA SetupInit == Init => Setup
  <1> SUFFICES ASSUME Init PROVE Setup
    OBVIOUS
  <1>1. TypeOK
    BY UdpAssumption, SocketFacts DEF Init, TypeOK, Sockets, Streams, Kind
  <1>2. Bound /\ Counted
    BY SocketFacts DEF Init, Bound, Counted
  <1>3. Apart
    BY SocketFacts DEF Init, Apart, OneSocketPerStream
  <1> QED BY <1>1, <1>2, <1>3 DEF Setup

\* The client and the network's losses and duplicates touch no socket.
LEMMA SetupRest ==
  ASSUME Setup, UNCHANGED << server, queue >>, ready' \in [Sockets -> BOOLEAN],
         cstate' \in {"CreateStreams", "TestStart", "TestRunning"},
         cidx' \in 1..(NumStreams + 1), refused' \in [Streams -> BOOLEAN],
         flight' \in [Streams -> [Kind -> Nat]], lost' \in 0..MaxLoss, dups' \in 0..MaxDup
  PROVE  Setup'
  BY DEF Setup, TypeOK, Bound, Counted, Apart, OneSocketPerStream, server

LEMMA SetupClient == ASSUME Setup, Client PROVE Setup'
  <1>1. TypeOK /\ NumStreams \in Nat
    BY UdpAssumption DEF Setup
  <1>2. CASE connect
    <2>1. flight' \in [Streams -> [Kind -> Nat]] /\ cidx' \in 1..(NumStreams + 1)
      BY <1>1, <1>2 DEF connect, TypeOK, Kind, Streams
    <2> QED BY <1>1, <1>2, <2>1, SetupRest DEF connect, TypeOK
  <1>3. CASE CCookie
    <2>1. flight' \in [Streams -> [Kind -> Nat]]
      BY <1>1, <1>3 DEF CCookie, TypeOK, Kind
    <2>3. cidx' \in 1..(NumStreams + 1)
      BY <1>1, <1>3 DEF CCookie, Streams
    <2>2. refused' \in [Streams -> BOOLEAN]
      BY <1>1, <1>3 DEF CCookie, TypeOK
    <2> QED BY <1>1, <1>3, <2>1, <2>2, <2>3, SetupRest DEF CCookie, TypeOK
  <1>4. CASE CLoopEnds
    BY <1>1, <1>4, SetupRest DEF CLoopEnds, TypeOK, net
  <1> QED BY <1>2, <1>3, <1>4 DEF Client

LEMMA SetupFaults ==
  ASSUME Setup, NEW i \in Streams, NEW k \in Kind,
         Refuse(i, k) \/ Lose(i, k) \/ Duplicate(i, k)
  PROVE  Setup'
  <1>1. TypeOK /\ MaxLoss \in Nat /\ MaxDup \in Nat
    BY UdpAssumption DEF Setup
  <1>2. flight' \in [Streams -> [Kind -> Nat]]
    <2>1. PICK n \in Nat : flight' = [flight EXCEPT ![i][k] = n]
      <3>1. CASE Takes(i, k)
        <4>1. flight[i][k] - 1 \in Nat
          BY <1>1, <3>1 DEF Takes, TypeOK
        <4> QED BY <3>1, <4>1 DEF Takes
      <3>2. CASE Duplicate(i, k)
        <4>1. flight[i][k] + 1 \in Nat
          BY <1>1 DEF TypeOK
        <4> QED BY <3>2, <4>1 DEF Duplicate
      <3> QED BY <3>1, <3>2 DEF Refuse, Lose
    <2> QED BY <1>1, <2>1 DEF TypeOK
  <1>4. lost' \in 0..MaxLoss /\ dups' \in 0..MaxDup
    <2>1. lost \in 0..MaxLoss /\ dups \in 0..MaxDup
      BY <1>1 DEF TypeOK
    <2>2. CASE Refuse(i, k)
      BY <2>1, <2>2 DEF Refuse
    <2>3. CASE Lose(i, k)
      BY <1>1, <2>1, <2>3 DEF Lose
    <2>4. CASE Duplicate(i, k)
      BY <1>1, <2>1, <2>4 DEF Duplicate
    <2> QED BY <2>2, <2>3, <2>4
  <1>3. refused' \in [Streams -> BOOLEAN]
    BY <1>1 DEF Refuse, Lose, Duplicate, TypeOK, client
  <1> QED BY <1>1, <1>2, <1>3, <1>4, SetupRest DEF Refuse, Lose, Duplicate, client, TypeOK

\* A delivery puts a datagram in the socket connected to its sender, or in
\* the unconnected one if there is none.
LEMMA SetupDeliver ==
  ASSUME Setup, NEW i \in Streams, NEW k \in Kind, Deliver(i, k)
  PROVE  Setup'
  <1> DEFINE d == [from |-> i, kind |-> k]
  <1>1. TypeOK /\ Bound /\ Apart /\ Counted /\ d \in Datagram
    BY DEF Setup, Datagram
  <1>2. PICK s \in Target(i) :
          /\ queue' = [queue EXCEPT ![s] = Append(@, d)]
          /\ ready' = [ready EXCEPT ![s] = TRUE]
    BY DEF Deliver
  <1>3. UNCHANGED << server, client, lost, dups >>
    BY DEF Deliver
  <1>4. /\ s \in Sockets /\ s <= nsock /\ (peer[s] = i \/ peer[s] = 0)
        /\ peer[s] = 0 => \A t \in 1..nsock : peer[t] # i
    <2>1. 1..nsock \subseteq Sockets
      BY <1>1, UdpAssumption DEF TypeOK, Sockets
    <2>2. i # 0 /\ nsock \in Nat
      BY <1>1, SocketFacts DEF TypeOK
    <2>3. CASE \E t \in 1..nsock : peer[t] = i
      BY <1>2, <2>1, <2>2, <2>3 DEF Target
    <2>4. CASE \A t \in 1..nsock : peer[t] # i
      BY <1>2, <2>1, <2>2, <2>4 DEF Target
    <2> QED BY <2>3, <2>4
  <1>5. queue[s] \in Seq(Datagram)
    BY <1>1, <1>4 DEF TypeOK, Datagram
  <1>6. /\ queue'[s] = Append(queue[s], d)
        /\ \A t \in Sockets : t # s => queue'[t] = queue[t]
    BY <1>1, <1>2, <1>4 DEF TypeOK
  <1>7. queue' \in [Sockets -> Seq(Datagram)]
    BY <1>1, <1>2, <1>4, <1>5, AppendQueue DEF TypeOK, Datagram
  <1>8. flight' \in [Streams -> [Kind -> Nat]]
    BY <1>1 DEF Deliver, Takes, TypeOK
  <1> HIDE DEF d
  <1>9. TypeOK'
    BY <1>1, <1>2, <1>3, <1>7, <1>8 DEF TypeOK, server, client, Datagram
  <1>10. Bound'
    <2>4. queue'[s] # << >>
      BY <1>1, <1>5, <1>6, AppendQueue
    <2>1. queue'[s] # << >> /\ nsock \in Nat /\ s \in Nat
      BY <1>1, <1>4, <2>4, SocketFacts DEF TypeOK
    <2>2. \A t \in Sockets : t > nsock => queue'[t] = << >>
      BY <1>1, <1>4, <1>6, <2>1 DEF Bound
    <2>3. \A t \in batch : queue'[t] # << >>
      BY <1>1, <1>4, <1>6, <2>1 DEF Bound, TypeOK
    <2> QED BY <1>1, <1>3, <2>2, <2>3 DEF Bound, server
  <1>11. Apart'
    <2>1. ASSUME NEW t \in Sockets, t > nstreams, NEW n \in DOMAIN queue'[t], NEW u \in 1..nstreams
          PROVE  peer[u] # queue'[t][n].from
      <3>1. CASE t # s
        BY <1>1, <1>6, <2>1, <3>1 DEF Apart
      <3>2. CASE t = s /\ n \in DOMAIN queue[s]
        BY <1>1, <1>5, <1>6, <2>1, <3>2, AppendQueue DEF Apart
      <3>3. CASE t = s /\ n \notin DOMAIN queue[s]
        <4>1. queue'[t][n] = d
          BY <1>1, <1>5, <1>6, <2>1, <3>3, AppendQueue
        <4>2. peer[s] = 0
          BY <1>1, <1>4, <2>1, <3>3, SocketFacts DEF Bound, TypeOK
        <4>3. u \in 1..nsock
          BY <1>1, <1>4, <2>1, <3>3, SocketFacts DEF TypeOK
        <4> QED BY <1>4, <4>1, <4>2, <4>3 DEF d
      <3> QED BY <3>1, <3>2, <3>3
    <2> QED BY <1>1, <1>3, <2>1 DEF Apart, OneSocketPerStream, server
  <1> QED BY <1>1, <1>3, <1>9, <1>10, <1>11 DEF Setup, Counted, server

LEMMA SetupPoll == ASSUME Setup, SPoll PROVE Setup'
  <1>1. batch' \subseteq Sockets /\ \A s \in batch' : queue[s] # << >>
    BY DEF SPoll
  <1>2. ready' \in [Sockets -> BOOLEAN]
    BY DEF SPoll
  <1>3. UNCHANGED << sstate, nstreams, nsock, peer, step, sender, cookie_count, client, queue, net >>
    BY DEF SPoll
  <1>4. TypeOK'
    BY <1>1, <1>2, <1>3 DEF Setup, TypeOK, client, net
  <1>5. Bound'
    BY <1>1, <1>3 DEF Setup, Bound
  <1> QED BY <1>3, <1>4, <1>5 DEF Setup, Counted, Apart, OneSocketPerStream

\* recv_from takes the first datagram of the unconnected socket; its sender
\* is no stream's client.
LEMMA SetupReceive ==
  ASSUME Setup, NEW s \in Sockets, SReceive(s)
  PROVE  Setup'
  <1>1. /\ TypeOK /\ Bound /\ Apart /\ Counted
        /\ s \in batch /\ s > nstreams /\ step = "idle" /\ sstate = "CreateStreams"
        /\ batch' = batch \ {s} /\ sender' = Head(queue[s]).from /\ step' = "connect"
        /\ UNCHANGED << sstate, nstreams, nsock, peer, cookie_count, client, ready, net >>
    BY DEF Setup, SReceive
  <1>2. /\ queue' = [queue EXCEPT ![s] = Tail(@)]
        /\ queue'[s] = Tail(queue[s])
        /\ \A t \in Sockets : t # s => queue'[t] = queue[t]
    BY <1>1 DEF SReceive, TypeOK
  <1>3. queue[s] \in Seq(Datagram) /\ queue[s] # << >> /\ s <= nsock
    <2>1. queue[s] \in Seq(Datagram) /\ nsock \in Nat /\ s \in Nat
      BY <1>1, SocketFacts DEF TypeOK, Datagram
    <2> QED BY <1>1, <2>1 DEF Bound
  <1>4. queue' \in [Sockets -> Seq(Datagram)] /\ sender' \in Streams
    BY <1>1, <1>2, <1>3, TailQueue DEF TypeOK, Datagram
  <1>5. TypeOK'
    <2>1. sender' \in 0..NumStreams
      BY <1>4, SocketFacts
    <2>2. batch' \subseteq Sockets
      BY <1>1 DEF TypeOK
    <2> QED BY <1>1, <1>4, <2>1, <2>2 DEF TypeOK, client, net, Datagram
  <1>6. nsock = nstreams + 1 /\ nstreams < NumStreams
    BY <1>1, <1>4, SocketFacts DEF Bound
  <1>7. Bound'
    <2>1. \A t \in Sockets : t > nsock => queue'[t] = << >>
      BY <1>1, <1>2, <1>3, SocketFacts DEF Bound, TypeOK
    <2>2. \A t \in batch' : queue'[t] # << >>
      BY <1>1, <1>2 DEF Bound, TypeOK
    <2> QED BY <1>1, <1>4, <1>6, <2>1, <2>2 DEF Bound
  <1>8. Apart'
    <2>1. \A t \in 1..nstreams : peer[t] # sender'
      BY <1>1, <1>3, TailQueue DEF Apart
    <2>2. ASSUME NEW t \in Sockets, t > nstreams, NEW n \in DOMAIN queue'[t], NEW u \in 1..nstreams
          PROVE  peer[u] # queue'[t][n].from
      BY <1>1, <1>2, <1>3, <2>2, TailQueue DEF Apart
    <2> QED BY <1>1, <2>1, <2>2 DEF Apart, OneSocketPerStream
  <1> QED BY <1>1, <1>5, <1>7, <1>8 DEF Setup, Counted

LEMMA SetupConnect == ASSUME Setup, SConnect PROVE Setup'
  <1>1. /\ TypeOK /\ Bound /\ Apart /\ Counted
        /\ step = "connect" /\ step' = "bind" /\ nstreams' = nstreams + 1
        /\ peer' = [peer EXCEPT ![nsock] = sender]
        /\ UNCHANGED << sstate, nsock, sender, batch, cookie_count, client, queue, net >>
    BY DEF Setup, SConnect, Connected
  <1>2. /\ sstate = "CreateStreams" /\ sender \in Streams /\ sender # 0
        /\ nsock = nstreams + 1 /\ nstreams < NumStreams
        /\ nsock \in Sockets /\ nstreams \in Nat
    BY <1>1, SocketFacts DEF Bound, TypeOK
  <1>3. /\ peer'[nsock] = sender
        /\ \A t \in Sockets : t # nsock => peer'[t] = peer[t]
    BY <1>1, <1>2 DEF TypeOK
  <1>4. ready' \in [Sockets -> BOOLEAN]
    BY <1>2 DEF SConnect, Setup, TypeOK
  <1>5. TypeOK'
    <2>1. nstreams' \in 0..NumStreams /\ peer' \in [Sockets -> 0..NumStreams]
      BY <1>1, <1>2, SocketFacts DEF TypeOK
    <2> QED BY <1>1, <1>4, <2>1 DEF TypeOK, client, net
  <1>6. Bound'
    BY <1>1, <1>2, <1>3, SocketFacts DEF Bound
  <1>7. OneSocketPerStream'
    <2>1. ASSUME NEW t \in 1..nstreams', NEW u \in 1..nstreams', t # u
          PROVE  peer'[t] # peer'[u]
      <3>1. t \in Sockets /\ u \in Sockets
        BY <1>1, <1>2, SocketFacts
      <3>2. CASE t = nsock
        <4>1. u \in 1..nstreams
          BY <1>1, <1>2, <2>1, <3>2
        <4> QED BY <1>1, <1>3, <2>1, <3>1, <3>2, <4>1 DEF Apart
      <3>3. CASE u = nsock
        <4>1. t \in 1..nstreams
          BY <1>1, <1>2, <2>1, <3>3
        <4> QED BY <1>1, <1>3, <2>1, <3>1, <3>3, <4>1 DEF Apart
      <3>4. CASE t # nsock /\ u # nsock
        <4>1. t \in 1..nstreams /\ u \in 1..nstreams
          BY <1>1, <1>2, <2>1, <3>4
        <4> QED BY <1>1, <1>3, <2>1, <3>1, <3>4, <4>1 DEF Apart, OneSocketPerStream
      <3> QED BY <3>2, <3>3, <3>4
    <2> QED BY <2>1 DEF OneSocketPerStream
  <1>8. Apart'
    <2>1. \A t \in Sockets : t > nstreams' => queue[t] = << >>
      BY <1>1, <1>2 DEF Bound
    <2> QED BY <1>1, <1>7, <2>1 DEF Apart
  <1> QED BY <1>1, <1>5, <1>6, <1>8 DEF Setup, Counted

LEMMA SetupBind == ASSUME Setup, SBind PROVE Setup'
  <1>1. /\ TypeOK /\ Bound /\ Apart /\ Counted
        /\ step = "bind" /\ step' = "idle"
        /\ nsock' = IF nstreams < NumStreams THEN nsock + 1 ELSE nsock
        /\ sstate' = IF nstreams = NumStreams THEN "TestStart" ELSE sstate
        /\ UNCHANGED << nstreams, peer, sender, batch, cookie_count, client, queue, ready, net >>
    BY DEF Setup, SBind, NeedsSocket
  <1>2. /\ sstate = "CreateStreams" /\ nsock = nstreams /\ nstreams > 0
        /\ nstreams \in 0..NumStreams /\ Sockets = 1..NumStreams /\ NumStreams \in Nat
    BY <1>1, SocketFacts DEF Bound, TypeOK
  <1>3. TypeOK'
    <2>1. nsock' \in Sockets /\ sstate' \in {"CreateStreams", "TestStart", "TestRunning"}
      BY <1>1, <1>2
    <2> QED BY <1>1, <2>1 DEF TypeOK, client, net
  <1>4. Bound' /\ Counted'
    BY <1>1, <1>2 DEF Bound, Counted
  <1>5. Apart'
    BY <1>1 DEF Apart, OneSocketPerStream
  <1> QED BY <1>3, <1>4, <1>5 DEF Setup

LEMMA SetupStream ==
  ASSUME Setup, NEW s \in Sockets, SStream(s)
  PROVE  Setup'
  <1>1. /\ TypeOK /\ Bound /\ Apart /\ Counted /\ s \in batch /\ s <= nstreams /\ step = "idle"
        /\ UNCHANGED << nstreams, nsock, peer, step, sender, client, ready, net >>
    BY DEF Setup, SStream
  <1>2. CASE sstate = "CreateStreams"
    <2>1. batch' = {} /\ UNCHANGED << queue, cookie_count, sstate >>
      BY <1>2 DEF SStream
    <2> QED BY <1>1, <2>1 DEF Setup, TypeOK, Bound, Counted, Apart, OneSocketPerStream, client, net
  <1>3. CASE sstate # "CreateStreams"
    <2>1. /\ batch' = batch \ {s} /\ queue' = [queue EXCEPT ![s] = << >>]
          /\ cookie_count' = IF sstate = "TestStart" THEN cookie_count + 1 ELSE cookie_count
          /\ sstate' = IF cookie_count' = NumStreams THEN "TestRunning" ELSE sstate
      BY <1>3 DEF SStream, LastCookie
    <2>2. /\ queue'[s] = << >> /\ \A t \in Sockets : t # s => queue'[t] = queue[t]
          /\ queue' \in [Sockets -> Seq(Datagram)]
      <3>1. queue \in [Sockets -> Seq(Datagram)]
        BY <1>1 DEF TypeOK, Datagram
      <3>2. << >> \in Seq(Datagram)
        OBVIOUS
      <3> QED BY <2>1, <3>1, <3>2
    <2>3. Counted' /\ cookie_count' \in 0..NumStreams /\ sstate' \in {"TestStart", "TestRunning"}
      BY <1>1, <1>3, <2>1, SocketFacts DEF Counted, TypeOK
    <2>4. TypeOK'
      BY <1>1, <2>1, <2>2, <2>3 DEF TypeOK, client, net, Datagram
    <2>5. Bound'
      BY <1>1, <1>3, <2>1, <2>2, <2>3, SocketFacts DEF Bound, TypeOK
    <2>6. Apart'
      <3>1. \A t \in Sockets : t > nstreams => queue'[t] = queue[t]
        BY <1>1, <2>2, SocketFacts DEF TypeOK
      <3> QED BY <1>1, <3>1 DEF Apart, OneSocketPerStream
    <2> QED BY <2>3, <2>4, <2>5, <2>6 DEF Setup
  <1> QED BY <1>2, <1>3

LEMMA SetupNext == Setup /\ [Next]_vars => Setup'
  <1> SUFFICES ASSUME Setup, [Next]_vars PROVE Setup'
    OBVIOUS
  <1>1. CASE Client
    BY <1>1, SetupClient
  <1>2. CASE Server
    BY <1>2, SetupPoll, SetupConnect, SetupBind, SetupReceive, SetupStream DEF Server
  <1>3. CASE Arrives \/ Faults
    BY <1>3, SetupDeliver, SetupFaults DEF Arrives, Faults
  <1>4. CASE Finished \/ UNCHANGED vars
    BY <1>4, SetupRest DEF Finished, vars, client, net, Setup, TypeOK
  <1> QED BY <1>1, <1>2, <1>3, <1>4 DEF Next

LEMMA SetupInvariant == Spec => []Setup
  BY SetupInit, SetupNext, PTL DEF Spec

-----------------------------------------------------------------------------
(* Without duplicates nothing of the set-up is left for the test. *)

\* As many streams as clients, all different: every client has its stream.
LEMMA EveryClient ==
  ASSUME Setup, nstreams = NumStreams, NEW i \in Streams
  PROVE  \E s \in 1..nstreams : peer[s] = i
  <1> DEFINE N == 1..NumStreams
             p == [s \in N |-> peer[s]]
  <1>1. NumStreams \in Nat /\ Streams = N /\ Sockets = N
    BY SocketFacts
  <1>2. \A s \in N : peer[s] \in N
    BY <1>1 DEF Setup, TypeOK, Bound
  <1>3. p \in [N -> N]
    BY <1>2
  <1>4. \A s, t \in N : p[s] = p[t] => s = t
    BY DEF Setup, Apart, OneSocketPerStream
  <1>5. p \in Injection(N, N)
    BY <1>3, <1>4 DEF Injection, IsInjective
  <1>6. IsFiniteSet(N)
    BY <1>1, FS_Interval
  <1>7. p \in Surjection(N, N)
    BY <1>5, <1>6, FS_Injection
  <1> QED BY <1>1, <1>7 DEF Surjection

\* The queues lose datagrams at their heads.
Shrink ==
  \A s \in Sockets : \E c \in Nat : \A n \in DOMAIN queue'[s] :
    n + c \in DOMAIN queue[s] /\ queue'[s][n] = queue[s][n + c]

LEMMA ShrinkOnce ==
  ASSUME Once, Shrink, UNCHANGED << cstate, cidx, flight >>, TypeOK, TypeOK'
  PROVE  /\ Once'
         /\ \A i \in Streams, k \in Kind : Sent(i, k)' <=> Sent(i, k)
         /\ \A s \in Sockets, i \in Streams, k \in Kind : Queued(s, i, k)' => Queued(s, i, k)
  <1>1. \A i \in Streams, k \in Kind : Sent(i, k)' <=> Sent(i, k)
    BY DEF Sent
  <1>2. ASSUME NEW s \in Sockets, NEW i \in Streams, NEW k \in Kind, Queued(s, i, k)'
        PROVE  Queued(s, i, k)
    BY <1>2 DEF Queued, Shrink
  <1>3. ASSUME NEW s \in Sockets, NEW m \in DOMAIN queue'[s], NEW n \in DOMAIN queue'[s],
               queue'[s][m] = queue'[s][n]
        PROVE  m = n
    <2>1. PICK c \in Nat : \A x \in DOMAIN queue'[s] :
            x + c \in DOMAIN queue[s] /\ queue'[s][x] = queue[s][x + c]
      BY DEF Shrink
    <2>2. m + c = n + c
      BY <1>3, <2>1 DEF Once
    <2>3. queue'[s] \in Seq(Datagram)
      BY DEF TypeOK, Datagram
    <2>4. m \in Nat /\ n \in Nat
      BY <2>3
    <2> QED BY <2>2, <2>4
  <1> QED BY <1>1, <1>2, <1>3 DEF Once

\* A spent cookie stays spent as long as nothing is sent a second time.
LEMMA SpentGrows ==
  ASSUME Spent \subseteq Spent'
  PROVE  /\ IsFiniteSet(Spent) /\ IsFiniteSet(Spent')
         /\ Cardinality(Spent) \in Nat /\ Cardinality(Spent') \in Nat
         /\ Cardinality(Spent) <= Cardinality(Spent')
  <1>1. IsFiniteSet(Streams)
    BY SocketFacts, FS_Interval
  <1>2. Spent \in SUBSET Streams /\ Spent' \in SUBSET Streams
    BY DEF Spent
  <1>3. IsFiniteSet(Spent) /\ IsFiniteSet(Spent')
    BY <1>1, <1>2, FS_Subset
  <1> QED BY <1>3, FS_Subset, FS_CardinalityType

LEMMA ClearInit == Init => Clear
  <1> SUFFICES ASSUME Init PROVE Clear
    OBVIOUS
  <1>1. \A s \in Sockets : DOMAIN queue[s] = {}
    BY DEF Init
  <1>2. \A i \in Streams, k \in Kind : ~Sent(i, k) /\ flight[i][k] = 0
    BY SocketFacts DEF Init, Sent
  <1>3. Once
    BY <1>1, <1>2 DEF Once, Queued
  <1>4. Hellos
    BY DEF Init, Hellos, Taken
  <1> QED BY <1>2, <1>3, <1>4 DEF Clear, Cookies, Init, Kind

\* The client sends what it had not sent before.
LEMMA ClearSend ==
  ASSUME Setup, Clear, connect \/ CCookie
  PROVE  Clear'
  <1>0. PICK c \in Streams : c = cidx
    BY DEF connect, CCookie
  <1>1. PICK k \in Kind, b \in {0, 1} :
          /\ ~Sent(c, k) /\ c = cidx
          /\ flight' = [flight EXCEPT ![c][k] = b]
          /\ cidx' = c + 1 /\ UNCHANGED << sstate, nstreams, peer, step, sender, cookie_count, queue, cstate, dups >>
          /\ \/ k = "hello" /\ cstate = "CreateStreams"
             \/ k = "cookie" /\ cstate = "TestStart" /\ sstate # "CreateStreams"
    <2>1. CASE connect
      <3>1. ~Sent(c, "hello") /\ "hello" \in Kind
        BY <1>0, <2>1 DEF connect, Sent, Kind, Streams
      <3>2. flight[c]["hello"] = 0
        BY <3>1 DEF Clear, Once
      <3>3. flight' = [flight EXCEPT ![c]["hello"] = 1]
        BY <1>0, <2>1, <3>2 DEF connect
      <3> QED BY <1>0, <2>1, <3>1, <3>3 DEF connect, server
    <2>2. CASE CCookie
      <3>1. ~Sent(c, "cookie") /\ "cookie" \in Kind
        BY <1>0, <2>2 DEF CCookie, Sent, Kind, Streams
      <3>2. flight[c]["cookie"] = 0
        BY <3>1 DEF Clear, Once
      <3>3. flight = [flight EXCEPT ![c]["cookie"] = 0]
        BY <3>1, <3>2 DEF Setup, TypeOK
      <3>4. CASE refused[c]
        BY <1>0, <2>2, <3>1, <3>3, <3>4 DEF CCookie, server
      <3>5. CASE ~refused[c]
        <4>1. flight' = [flight EXCEPT ![c]["cookie"] = 1]
          BY <1>0, <2>2, <3>2, <3>5 DEF CCookie
        <4> QED BY <1>0, <2>2, <3>1, <4>1 DEF CCookie, server
      <3> QED BY <3>4, <3>5
    <2> QED BY <2>1, <2>2
  <1>2. /\ \A i \in Streams, l \in Kind : i # c \/ l # k => flight'[i][l] = flight[i][l]
        /\ flight'[c][k] = b
    BY <1>1 DEF Setup, TypeOK
  <1>3. /\ \A i \in Streams, l \in Kind : i # c \/ l # k => (Sent(i, l)' <=> Sent(i, l))
        /\ Sent(c, k)'
    BY <1>1, SocketFacts DEF Sent, Kind
  <1>4. \A s \in Sockets : \A i, l : Queued(s, i, l)' <=> Queued(s, i, l)
    BY <1>1 DEF Queued
  <1>5. \A s \in Sockets : ~Queued(s, c, k)
    BY <1>1 DEF Clear, Once
  <1>6. Once'
    <2>1. \A i \in Streams, l \in Kind :
            /\ flight'[i][l] <= 1
            /\ ~Sent(i, l)' => flight'[i][l] = 0
      BY <1>1, <1>2, <1>3 DEF Clear, Once
    <2>2. \A i \in Streams, l \in Kind, s \in Sockets :
            Queued(s, i, l) => Sent(i, l)' /\ flight'[i][l] = 0
      BY <1>2, <1>3, <1>5 DEF Clear, Once
    <2> QED BY <1>1, <1>4, <2>1, <2>2 DEF Clear, Once
  <1>7. \A i \in Streams : Taken(i)' <=> Taken(i)
    BY <1>1 DEF Taken
  <1>8. Hellos'
    <2> SUFFICES ASSUME NEW i \in Streams, Taken(i)
                 PROVE  /\ Sent(i, "hello")' /\ flight'[i]["hello"] = 0
                        /\ \A s \in Sockets : ~Queued(s, i, "hello")'
      BY <1>7 DEF Hellos
    <2>1. /\ Sent(i, "hello") /\ flight[i]["hello"] = 0 /\ "hello" \in Kind
          /\ \A s \in Sockets : ~Queued(s, i, "hello")
      BY DEF Clear, Hellos, Kind
    <2>2. i # c \/ "hello" # k
      BY <1>1, <2>1
    <2> QED BY <1>2, <1>3, <1>4, <2>1, <2>2
  <1>9. Cookies'
    <2>1. CASE sstate = "CreateStreams"
      BY <1>1, <1>3, <2>1 DEF Clear, Cookies, Kind
    <2>2. CASE sstate # "CreateStreams"
      <3>1. k # "hello"
        <4>1. nstreams = NumStreams
          BY <2>2 DEF Setup, Bound
        <4>2. Taken(c)
          BY <1>1, <4>1, EveryClient DEF Taken
        <4> QED BY <1>1, <4>2 DEF Clear, Hellos
      <3> QED BY <1>1, <1>2, <2>2, <3>1 DEF Clear, Cookies, Kind
    <2> QED BY <2>1, <2>2
  <1>10. Spent \subseteq Spent'
    <2> SUFFICES ASSUME NEW i \in Spent PROVE i \in Spent'
      OBVIOUS
    <2>1. /\ i \in Streams /\ "cookie" \in Kind /\ Sent(i, "cookie") /\ flight[i]["cookie"] = 0
          /\ \A s \in Sockets : ~Queued(s, i, "cookie")
      BY DEF Spent, Kind
    <2>2. i # c \/ "cookie" # k
      BY <1>1, <2>1
    <2> QED BY <1>2, <1>3, <1>4, <2>1, <2>2 DEF Spent
  <1> QED BY <1>1, <1>6, <1>8, <1>9, <1>10, SpentGrows DEF Clear, Setup, TypeOK

\* Steps that move no datagram, open no stream and announce nothing.
LEMMA ClearSame ==
  ASSUME Clear, UNCHANGED << sstate, nstreams, peer, step, sender, cookie_count, queue, flight >>,
         \A i \in Streams, k \in Kind : Sent(i, k)' <=> Sent(i, k)
  PROVE  Clear'
  <1>1. \A s \in Sockets : \A i, k : Queued(s, i, k)' <=> Queued(s, i, k)
    BY DEF Queued
  <1>2. Once'
    BY <1>1 DEF Clear, Once
  <1>3. Hellos' /\ Cookies'
    BY <1>1 DEF Clear, Hellos, Taken, Cookies, Kind
  <1>4. Spent' = Spent
    BY <1>1 DEF Spent, Kind
  <1> QED BY <1>2, <1>3, <1>4 DEF Clear

LEMMA ClearLoopEnds == ASSUME Setup, Clear, CLoopEnds PROVE Clear'
  <1>1. \A i \in Streams, k \in Kind : Sent(i, k)' <=> Sent(i, k)
    BY SocketFacts DEF CLoopEnds, Sent, Kind
  <1> QED BY <1>1, ClearSame DEF CLoopEnds, server, net

\* A datagram leaves the flight: one was there, none is now.
LEMMA FlightTaken ==
  ASSUME Setup, Clear, NEW i \in Streams, NEW k \in Kind, Takes(i, k), UNCHANGED << cstate, cidx >>
  PROVE  /\ flight[i][k] = 1 /\ flight'[i][k] = 0 /\ Sent(i, k)
         /\ \A s \in Sockets : ~Queued(s, i, k)
         /\ \A j \in Streams, l \in Kind : j # i \/ l # k => flight'[j][l] = flight[j][l]
         /\ \A j \in Streams, l \in Kind : Sent(j, l)' <=> Sent(j, l)
  <1>1. flight[i][k] \in Nat /\ flight[i][k] > 0 /\ flight[i][k] <= 1
    BY DEF Takes, Clear, Once, Setup, TypeOK
  <1>2. flight[i][k] = 1
    BY <1>1
  <1>3. /\ flight'[i][k] = flight[i][k] - 1
        /\ \A j \in Streams, l \in Kind : j # i \/ l # k => flight'[j][l] = flight[j][l]
    BY DEF Takes, Setup, TypeOK
  <1>4. Sent(i, k) /\ \A s \in Sockets : ~Queued(s, i, k)
    BY <1>2 DEF Clear, Once
  <1> QED BY <1>2, <1>3, <1>4 DEF Sent

LEMMA ClearLost ==
  ASSUME Setup, Clear, NEW i \in Streams, NEW k \in Kind, Refuse(i, k) \/ Lose(i, k)
  PROVE  Clear'
  <1>1. /\ Takes(i, k)
        /\ UNCHANGED << sstate, nstreams, peer, step, sender, cookie_count, queue, cstate, cidx >>
    BY DEF Refuse, Lose, server, client
  <1>2. \A s \in Sockets : \A j, l : Queued(s, j, l)' <=> Queued(s, j, l)
    BY <1>1 DEF Queued
  <1>3. \A j \in Streams, l \in Kind :
          /\ flight'[j][l] <= 1 /\ (flight[j][l] = 0 => flight'[j][l] = 0)
          /\ Sent(j, l)' <=> Sent(j, l)
    BY <1>1, FlightTaken DEF Clear, Once
  <1>4. Once'
    BY <1>1, <1>2, <1>3 DEF Clear, Once
  <1>5. Hellos' /\ Cookies'
    BY <1>1, <1>2, <1>3 DEF Clear, Hellos, Taken, Cookies, Kind
  <1>6. Spent \subseteq Spent'
    BY <1>2, <1>3 DEF Spent, Kind
  <1> QED BY <1>1, <1>4, <1>5, <1>6, SpentGrows DEF Clear, Setup, TypeOK

\* A delivery moves a datagram from the flight to the end of one queue.
LEMMA ClearDeliver ==
  ASSUME Setup, Clear, NEW i \in Streams, NEW k \in Kind, Deliver(i, k)
  PROVE  Clear'
  <1> DEFINE d == [from |-> i, kind |-> k]
  <1>1. /\ Takes(i, k)
        /\ UNCHANGED << sstate, nstreams, nsock, peer, step, sender, cookie_count, cstate, cidx >>
    BY DEF Deliver, server, client
  <1>2. PICK s \in Target(i) : queue' = [queue EXCEPT ![s] = Append(@, d)]
    BY DEF Deliver
  <1>3. s \in Sockets /\ s <= nsock /\ (peer[s] = i \/ peer[s] = 0)
    <2>1. 1..nsock \subseteq Sockets /\ nsock \in Nat
      BY UdpAssumption DEF Setup, TypeOK, Sockets
    <2>2. s \in 1..nsock /\ (peer[s] = i \/ peer[s] = 0)
      <3>1. CASE \E t \in 1..nsock : peer[t] = i
        BY <1>2, <3>1 DEF Target
      <3>2. CASE \A t \in 1..nsock : peer[t] # i
        BY <1>2, <3>2 DEF Target
      <3> QED BY <3>1, <3>2
    <2> QED BY <2>1, <2>2
  <1>4. queue[s] \in Seq(Datagram) /\ d \in Datagram
    BY <1>3 DEF Setup, TypeOK, Datagram
  <1>5. /\ queue'[s] = Append(queue[s], d)
        /\ \A t \in Sockets : t # s => queue'[t] = queue[t]
    BY <1>2, <1>3 DEF Setup, TypeOK
  <1>6. /\ flight[i][k] = 1 /\ flight'[i][k] = 0 /\ Sent(i, k)
        /\ \A t \in Sockets : ~Queued(t, i, k)
        /\ \A j \in Streams, l \in Kind : j # i \/ l # k => flight'[j][l] = flight[j][l]
        /\ \A j \in Streams, l \in Kind : Sent(j, l)' <=> Sent(j, l)
    BY <1>1, FlightTaken
  <1>7. /\ DOMAIN queue[s] = 1..Len(queue[s]) /\ Len(queue[s]) \in Nat
        /\ DOMAIN queue'[s] = DOMAIN queue[s] \cup {Len(queue[s]) + 1}
        /\ \A n \in DOMAIN queue[s] : queue'[s][n] = queue[s][n]
        /\ queue'[s][Len(queue[s]) + 1] = d
    BY <1>4, <1>5, AppendQueue
  <1>8. \A t \in Sockets, j \in Streams, l \in Kind :
          j # i \/ l # k => (Queued(t, j, l)' => Queued(t, j, l))
    <2> SUFFICES ASSUME NEW t \in Sockets, NEW j \in Streams, NEW l \in Kind, j # i \/ l # k,
                        Queued(t, j, l)'
                 PROVE  Queued(t, j, l)
      OBVIOUS
    <2>1. PICK n \in DOMAIN queue'[t] : queue'[t][n] = [from |-> j, kind |-> l]
      BY DEF Queued
    <2>2. CASE t # s
      BY <1>5, <2>1, <2>2 DEF Queued
    <2>3. CASE t = s
      <3>1. queue'[t][n] # d
        BY <2>1
      <3> QED BY <1>7, <2>1, <2>3, <3>1 DEF Queued
    <2> QED BY <2>2, <2>3
  <1>9. \A t \in Sockets : Queued(t, i, k)' => t = s
    BY <1>5, <1>6 DEF Queued
  <1>10. \A n \in DOMAIN queue[s] : queue[s][n] # d
    BY <1>3, <1>6 DEF Queued
  <1> HIDE DEF d
  <1>11. Once'
    <2>1. \A j \in Streams, l \in Kind :
            /\ flight'[j][l] <= 1
            /\ ~Sent(j, l)' => flight'[j][l] = 0
      BY <1>6 DEF Clear, Once
    <2>2. \A j \in Streams, l \in Kind, t \in Sockets :
            Queued(t, j, l)' => Sent(j, l)' /\ flight'[j][l] = 0
      BY <1>6, <1>8 DEF Clear, Once
    <2>3. \A j \in Streams, l \in Kind, t, u \in Sockets :
            Queued(t, j, l)' /\ Queued(u, j, l)' => t = u
      BY <1>8, <1>9 DEF Clear, Once
    <2>4. \A t \in Sockets : \A m, n \in DOMAIN queue'[t] : queue'[t][m] = queue'[t][n] => m = n
      <3>1. \A m, n \in DOMAIN queue'[s] : queue'[s][m] = queue'[s][n] => m = n
        BY <1>3, <1>7, <1>10 DEF Clear, Once
      <3> QED BY <1>5, <3>1 DEF Clear, Once
    <2> QED BY <2>1, <2>2, <2>3, <2>4 DEF Once
  <1>12. Hellos'
    <2> SUFFICES ASSUME NEW j \in Streams, Taken(j)
                 PROVE  /\ Sent(j, "hello")' /\ flight'[j]["hello"] = 0
                        /\ \A t \in Sockets : ~Queued(t, j, "hello")'
      BY <1>1 DEF Hellos, Taken
    <2>1. /\ Sent(j, "hello") /\ flight[j]["hello"] = 0 /\ "hello" \in Kind
          /\ \A t \in Sockets : ~Queued(t, j, "hello")
      BY DEF Clear, Hellos, Kind
    <2>2. j # i \/ "hello" # k
      BY <1>6, <2>1
    <2> QED BY <1>6, <1>8, <2>1, <2>2
  <1>13. Cookies'
    <2>1. CASE sstate = "CreateStreams"
      BY <1>1, <1>6, <2>1 DEF Clear, Cookies, Kind
    <2>2. CASE sstate # "CreateStreams"
      <3>1. k = "cookie"
        BY <1>6, <2>2 DEF Clear, Cookies, Kind
      <3>2. peer[s] = i
        BY <1>3, <2>2, SocketFacts DEF Setup, Bound
      <3>3. d = [from |-> peer[s], kind |-> "cookie"]
        BY <3>1, <3>2 DEF d
      <3>4. \A n \in DOMAIN queue'[s] : queue'[s][n] = [from |-> peer[s], kind |-> "cookie"]
        BY <1>3, <1>7, <2>2, <3>3 DEF Clear, Cookies
      <3>5. \A j \in Streams : flight'[j]["hello"] = 0
        BY <1>6, <2>2, <3>1 DEF Clear, Cookies, Kind
      <3> QED BY <1>1, <1>5, <2>2, <3>4, <3>5 DEF Clear, Cookies
    <2> QED BY <2>1, <2>2
  <1>14. Spent \subseteq Spent'
    <2> SUFFICES ASSUME NEW j \in Spent PROVE j \in Spent'
      OBVIOUS
    <2>1. /\ j \in Streams /\ "cookie" \in Kind /\ Sent(j, "cookie") /\ flight[j]["cookie"] = 0
          /\ \A t \in Sockets : ~Queued(t, j, "cookie")
      BY DEF Spent, Kind
    <2>2. j # i \/ "cookie" # k
      BY <1>6, <2>1
    <2> QED BY <1>6, <1>8, <2>1, <2>2 DEF Spent
  <1> QED BY <1>1, <1>11, <1>12, <1>13, <1>14, SpentGrows DEF Clear, Setup, TypeOK

\* The head of the unconnected socket is a hello, the only one of its sender.
LEMMA ClearReceive ==
  ASSUME Setup, Setup', Clear, NEW s \in Sockets, SReceive(s)
  PROVE  Clear'
  <1>1. /\ s \in batch /\ sstate = "CreateStreams" /\ step = "idle"
        /\ sender' = Head(queue[s]).from /\ queue' = [queue EXCEPT ![s] = Tail(@)]
        /\ UNCHANGED << sstate, nstreams, peer, cookie_count, cstate, cidx, flight >>
    BY DEF SReceive, client, net
  <1>2. queue[s] \in Seq(Datagram) /\ queue[s] # << >>
    BY <1>1 DEF Setup, TypeOK, Bound, Datagram
  <1>3. /\ queue'[s] = Tail(queue[s])
        /\ \A t \in Sockets : t # s => queue'[t] = queue[t]
    BY <1>1 DEF Setup, TypeOK
  <1>4. Shrink
    <2> SUFFICES ASSUME NEW t \in Sockets
                 PROVE  \E c \in Nat : \A n \in DOMAIN queue'[t] :
                          n + c \in DOMAIN queue[t] /\ queue'[t][n] = queue[t][n + c]
      BY DEF Shrink
    <2>1. CASE t = s
      <3>1. \A n \in DOMAIN Tail(queue[s]) :
              n + 1 \in DOMAIN queue[s] /\ Tail(queue[s])[n] = queue[s][n + 1]
        BY <1>2, TailQueue
      <3> QED BY <1>3, <2>1, <3>1
    <2>2. CASE t # s
      <3>1. queue'[t] = queue[t] /\ queue[t] \in Seq(Datagram)
        BY <1>3, <2>2 DEF Setup, TypeOK, Datagram
      <3>2. \A n \in DOMAIN queue[t] : n \in Nat /\ n + 0 = n
        BY <3>1
      <3> QED BY <3>1, <3>2
    <2> QED BY <2>1, <2>2
  <1>5. /\ Once'
        /\ \A i \in Streams, k \in Kind : Sent(i, k)' <=> Sent(i, k)
        /\ \A t \in Sockets, i \in Streams, k \in Kind : Queued(t, i, k)' => Queued(t, i, k)
    BY <1>1, <1>4, ShrinkOnce DEF Clear, Setup
  <1>6. PICK i \in Streams, k \in Kind : queue[s][1] = [from |-> i, kind |-> k] /\ sender' = i
    BY <1>1, <1>2, TailQueue DEF Datagram
  <1>7. Queued(s, i, k) /\ 1 \in DOMAIN queue[s]
    BY <1>2, <1>6, TailQueue DEF Queued
  <1>8. k = "hello"
    BY <1>1, <1>7 DEF Clear, Once, Cookies, Kind
  <1>9. Sent(i, "hello") /\ flight[i]["hello"] = 0
    BY <1>7, <1>8 DEF Clear, Once
  <1>10. \A t \in Sockets : ~Queued(t, i, "hello")'
    <2> SUFFICES ASSUME NEW t \in Sockets, Queued(t, i, "hello")' PROVE FALSE
      OBVIOUS
    <2>1. Queued(t, i, "hello")
      BY <1>5, <1>8
    <2>2. t = s
      BY <1>7, <1>8, <2>1 DEF Clear, Once
    <2>3. PICK n \in DOMAIN queue'[s] : queue'[s][n] = [from |-> i, kind |-> "hello"]
      BY <2>2 DEF Queued
    <2>4. n + 1 \in DOMAIN queue[s] /\ n + 1 # 1 /\ queue[s][n + 1] = queue[s][1]
      BY <1>2, <1>3, <1>6, <1>8, <2>3, TailQueue
    <2> QED BY <1>7, <2>4 DEF Clear, Once
  <1>11. Hellos'
    <2> SUFFICES ASSUME NEW j \in Streams, Taken(j)'
                 PROVE  /\ Sent(j, "hello")' /\ flight'[j]["hello"] = 0
                        /\ \A t \in Sockets : ~Queued(t, j, "hello")'
      BY DEF Hellos
    <2>1. CASE j = i
      BY <1>1, <1>5, <1>8, <1>9, <1>10, <2>1
    <2>2. CASE j # i
      <3>1. Taken(j)
        BY <1>1, <1>6, <2>2 DEF Taken
      <3> QED BY <1>1, <1>5, <3>1 DEF Clear, Hellos, Kind
    <2> QED BY <2>1, <2>2
  <1>12. Cookies'
    BY <1>1, <1>5 DEF Clear, Cookies, Kind
  <1> QED BY <1>1, <1>5, <1>11, <1>12 DEF Clear

LEMMA ClearConnect == ASSUME Setup, Clear, SConnect PROVE Clear'
  <1>1. /\ step = "connect" /\ step' = "bind" /\ nstreams' = nstreams + 1
        /\ peer' = [peer EXCEPT ![nsock] = sender] /\ sstate = "CreateStreams"
        /\ nsock = nstreams + 1 /\ nsock \in Sockets /\ nstreams \in Nat
        /\ UNCHANGED << sstate, cookie_count, cstate, cidx, queue, flight >>
    BY DEF SConnect, Connected, client, net, Setup, Bound, TypeOK
  <1>2. /\ \A s \in Sockets : \A i, k : Queued(s, i, k)' <=> Queued(s, i, k)
        /\ \A i \in Streams, k \in Kind : Sent(i, k)' <=> Sent(i, k)
    BY <1>1 DEF Queued, Sent
  <1>3. \A i \in Streams : Taken(i)' => Taken(i)
    <2> SUFFICES ASSUME NEW i \in Streams, NEW s \in 1..nstreams', peer'[s] = i
                 PROVE  Taken(i)
      BY <1>1 DEF Taken
    <2>1. s \in Sockets
      BY <1>1, SocketFacts DEF Setup, Bound
    <2>2. CASE s = nsock
      BY <1>1, <2>2 DEF Taken, Setup, TypeOK
    <2>3. CASE s # nsock
      <3>1. s \in 1..nstreams /\ peer[s] = i
        BY <1>1, <2>1, <2>3 DEF Setup, TypeOK
      <3> QED BY <3>1 DEF Taken
    <2> QED BY <2>2, <2>3
  <1>4. Once'
    BY <1>1, <1>2 DEF Clear, Once
  <1>5. Hellos' /\ Cookies'
    BY <1>1, <1>2, <1>3 DEF Clear, Hellos, Cookies, Kind
  <1> QED BY <1>1, <1>4, <1>5 DEF Clear

\* The announcement comes when every client's hello is gone, and before any
\* cookie: all queues are empty.
LEMMA ClearBind == ASSUME Setup, Clear, SBind PROVE Clear'
  <1>1. /\ step = "bind" /\ step' = "idle" /\ sstate = "CreateStreams"
        /\ sstate' = IF nstreams = NumStreams THEN "TestStart" ELSE sstate
        /\ UNCHANGED << nstreams, peer, sender, cookie_count, cstate, cidx, queue, flight >>
    BY DEF SBind, client, net, Setup, Bound
  <1>2. /\ \A s \in Sockets : \A i, k : Queued(s, i, k)' <=> Queued(s, i, k)
        /\ \A i \in Streams, k \in Kind : Sent(i, k)' <=> Sent(i, k)
        /\ \A i \in Streams : Taken(i)' <=> Taken(i)
    BY <1>1 DEF Queued, Sent, Taken
  <1>3. Once' /\ Hellos'
    BY <1>1, <1>2 DEF Clear, Once, Hellos, Kind
  <1>4. CASE nstreams # NumStreams
    BY <1>1, <1>2, <1>3, <1>4 DEF Clear, Cookies, Kind
  <1>5. CASE nstreams = NumStreams
    <2>1. \A i \in Streams : Taken(i)
      BY <1>5, EveryClient DEF Taken
    <2>2. \A i \in Streams : flight[i]["hello"] = 0
      BY <2>1 DEF Clear, Hellos
    <2>3. ASSUME NEW s \in Sockets, NEW n \in DOMAIN queue[s]
          PROVE  FALSE
      <3>1. queue[s] \in Seq(Datagram)
        BY DEF Setup, TypeOK, Datagram
      <3>2. PICK i \in Streams, k \in Kind : queue[s][n] = [from |-> i, kind |-> k]
        <4>1. queue[s][n] \in Datagram
          BY <3>1
        <4> QED BY <4>1 DEF Datagram
      <3>3. Queued(s, i, k)
        BY <3>2 DEF Queued
      <3> QED BY <1>1, <2>1, <3>3 DEF Clear, Once, Hellos, Cookies, Kind
    <2>4. Cookies'
      BY <1>1, <1>5, <2>2, <2>3 DEF Cookies
    <2>5. cookie_count = 0 /\ 0 <= Cardinality(Spent')
      BY <1>1, SpentGrows, <1>2 DEF Setup, Counted, Spent, Kind
    <2> QED BY <1>1, <1>3, <2>4, <2>5 DEF Clear
  <1> QED BY <1>4, <1>5

\* A stream's event in TestStart spends the cookie of its client.
LEMMA ClearStream ==
  ASSUME Setup, Setup', Clear, NEW s \in Sockets, SStream(s)
  PROVE  Clear'
  <1>1. /\ s \in batch /\ s <= nstreams /\ queue[s] # << >>
        /\ UNCHANGED << nstreams, peer, step, sender, cstate, cidx, flight >>
    BY DEF SStream, client, net, Setup, Bound
  <1>2. CASE sstate = "CreateStreams"
    <2>1. \A i \in Streams, k \in Kind : Sent(i, k)' <=> Sent(i, k)
      BY <1>1 DEF Sent
    <2> QED BY <1>1, <1>2, <2>1, ClearSame DEF SStream
  <1>3. CASE sstate # "CreateStreams"
    <2>1. /\ queue' = [queue EXCEPT ![s] = << >>]
          /\ cookie_count' = IF sstate = "TestStart" THEN cookie_count + 1 ELSE cookie_count
          /\ sstate' # "CreateStreams"
      BY <1>3 DEF SStream
    <2>2. /\ queue'[s] = << >> /\ DOMAIN queue'[s] = {}
          /\ \A t \in Sockets : t # s => queue'[t] = queue[t]
      BY <2>1 DEF Setup, TypeOK
    <2>3. Shrink
      <3>1. \A t \in Sockets : \A n \in DOMAIN queue'[t] :
              n + 0 \in DOMAIN queue[t] /\ queue'[t][n] = queue[t][n + 0]
        <4> SUFFICES ASSUME NEW t \in Sockets, NEW n \in DOMAIN queue'[t]
                     PROVE  n + 0 \in DOMAIN queue[t] /\ queue'[t][n] = queue[t][n + 0]
          OBVIOUS
        <4>1. queue'[t] = queue[t] /\ queue[t] \in Seq(Datagram)
          BY <2>2 DEF Setup, TypeOK, Datagram
        <4>2. n \in Nat /\ n + 0 = n
          BY <4>1
        <4> QED BY <4>1, <4>2
      <3> QED BY <3>1 DEF Shrink
    <2>4. /\ Once'
          /\ \A i \in Streams, k \in Kind : Sent(i, k)' <=> Sent(i, k)
          /\ \A t \in Sockets, i \in Streams, k \in Kind : Queued(t, i, k)' => Queued(t, i, k)
      BY <1>1, <2>3, ShrinkOnce DEF Clear, Setup
    <2>5. Hellos'
      BY <1>1, <2>4 DEF Clear, Hellos, Taken, Kind
    <2>6. Cookies'
      <3>1. \A t \in Sockets : \A n \in DOMAIN queue'[t] :
              queue'[t][n] = [from |-> peer[t], kind |-> "cookie"]
        BY <1>3, <2>2 DEF Clear, Cookies
      <3> QED BY <1>1, <1>3, <2>1, <3>1 DEF Clear, Cookies
    <2>7. Spent \subseteq Spent'
      BY <1>1, <2>4 DEF Spent, Kind
    <2>11. PICK i \in Streams : i = peer[s]
      <3>1. peer[s] \in 0..NumStreams
        BY <1>1 DEF Setup, TypeOK
      <3>2. peer[s] # 0
        BY <1>1 DEF Setup, Bound
      <3> QED BY <3>1, <3>2, SocketFacts
    <2>8. i \notin Spent /\ i \in Spent'
      <3>2. 1 \in DOMAIN queue[s]
        BY <1>1, TailQueue DEF Setup, TypeOK, Datagram
      <3>3. Queued(s, i, "cookie") /\ "cookie" \in Kind
        BY <1>3, <2>11, <3>2 DEF Clear, Cookies, Queued, Kind
      <3>4. Sent(i, "cookie")' /\ flight'[i]["cookie"] = 0
        BY <1>1, <2>4, <3>3 DEF Clear, Once
      <3>5. \A t \in Sockets : ~Queued(t, i, "cookie")'
        <4>1. \A t \in Sockets : Queued(t, i, "cookie")' => t = s
          BY <2>4, <3>3 DEF Clear, Once
        <4>2. ~Queued(s, i, "cookie")'
          BY <2>2 DEF Queued
        <4> QED BY <4>1, <4>2
      <3>6. i \notin Spent
        BY <3>3 DEF Spent
      <3> QED BY <3>4, <3>5, <3>6 DEF Spent
    <2>9. Cardinality(Spent) + 1 <= Cardinality(Spent')
      <3>1. Spent \cup {i} \in SUBSET Spent' /\ IsFiniteSet(Spent) /\ IsFiniteSet(Spent')
        BY <2>7, <2>8, SpentGrows
      <3>2. Cardinality(Spent \cup {i}) = Cardinality(Spent) + 1
        BY <2>8, <3>1, FS_AddElement
      <3> QED BY <3>1, <3>2, FS_Subset
    <2>10. cookie_count' <= Cardinality(Spent')
      <3>1. Cardinality(Spent) \in Nat /\ Cardinality(Spent') \in Nat
        BY <2>7, SpentGrows
      <3>2. cookie_count \in Nat /\ cookie_count <= Cardinality(Spent)
        BY <1>3, UdpAssumption DEF Clear, Setup, TypeOK
      <3> QED BY <2>1, <2>9, <3>1, <3>2
    <2> QED BY <2>1, <2>4, <2>5, <2>6, <2>10 DEF Clear
  <1> QED BY <1>2, <1>3

LEMMA ClearNext ==
  ASSUME Setup, Setup', NoDuplicates, [Next]_vars, dups' = 0
  PROVE  Clear'
  <1>1. dups = 0 \/ \E i \in Streams, k \in Kind : Duplicate(i, k)
    BY DEF Next, Client, Server, Arrives, Faults, Finished, connect, CCookie, CLoopEnds, SPoll,
           SConnect, SBind, SReceive, SStream, Deliver, Refuse, Lose, net, vars
  <1>2. dups = 0 /\ Clear /\ \A i \in Streams, k \in Kind : ~Duplicate(i, k)
    <2>1. dups \in Nat
      BY UdpAssumption DEF Setup, TypeOK
    <2> QED BY <1>1, <2>1 DEF Duplicate, NoDuplicates
  <1>3. CASE Client
    BY <1>2, <1>3, ClearSend, ClearLoopEnds DEF Client
  <1>4. CASE Server
    <2>1. CASE SPoll
      <3>1. \A i \in Streams, k \in Kind : Sent(i, k)' <=> Sent(i, k)
        BY <2>1 DEF SPoll, client, Sent
      <3> QED BY <1>2, <2>1, <3>1, ClearSame DEF SPoll, net
    <2> QED BY <1>2, <1>4, <2>1, ClearConnect, ClearBind, ClearReceive, ClearStream DEF Server
  <1>5. CASE Arrives \/ Faults
    BY <1>2, <1>5, ClearDeliver, ClearLost DEF Arrives, Faults
  <1>6. CASE Finished \/ UNCHANGED vars
    <2>1. \A i \in Streams, k \in Kind : Sent(i, k)' <=> Sent(i, k)
      BY <1>6 DEF Finished, vars, client, Sent
    <2> QED BY <1>2, <1>6, <2>1, ClearSame DEF Finished, vars, server, net
  <1> QED BY <1>3, <1>4, <1>5, <1>6 DEF Next

\* Every count of a cookie has spent one, so a running test has spent all.
LEMMA ClearNoStray == ASSUME Setup, NoDuplicates PROVE NoStray
  <1> SUFFICES ASSUME sstate = "TestRunning", Setup, Clear
               PROVE  /\ \A s \in Sockets : queue[s] = << >>
                      /\ \A i \in Streams, k \in Kind : flight[i][k] = 0
    BY DEF NoStray, NoDuplicates
  <1>1. cookie_count = NumStreams /\ cookie_count <= Cardinality(Spent) /\ NumStreams \in Nat
    BY SocketFacts DEF Setup, Counted, Clear
  <1>2. IsFiniteSet(Streams) /\ Cardinality(Streams) = NumStreams
    BY <1>1, SocketFacts, FS_Interval
  <1>3. Spent \in SUBSET Streams
    BY DEF Spent
  <1>4. /\ IsFiniteSet(Spent) /\ Cardinality(Spent) <= Cardinality(Streams)
        /\ Cardinality(Streams) = Cardinality(Spent) => Streams = Spent
    BY <1>2, <1>3, FS_Subset
  <1>5. Spent = Streams
    BY <1>1, <1>2, <1>4, FS_CardinalityType
  <1>6. \A i \in Streams, k \in Kind : flight[i][k] = 0
    BY <1>5 DEF Spent, Clear, Cookies, Kind
  <1>7. ASSUME NEW s \in Sockets, queue[s] # << >>
        PROVE  FALSE
    <2>1. queue[s] \in Seq(Datagram) /\ s <= nstreams
      <3>1. queue[s] \in Seq(Datagram) /\ Sockets = 1..nstreams
        BY SocketFacts DEF Setup, TypeOK, Bound, Datagram
      <3> QED BY <3>1 DEF Setup, TypeOK
    <2>2. 1 \in DOMAIN queue[s]
      BY <1>7, <2>1, TailQueue
    <2>3. peer[s] \in Streams
      BY <2>1, SocketFacts DEF Setup, TypeOK, Bound
    <2>4. Queued(s, peer[s], "cookie")
      BY <2>2 DEF Clear, Cookies, Queued
    <2> QED BY <1>5, <2>3, <2>4 DEF Spent
  <1> QED BY <1>6, <1>7

-----------------------------------------------------------------------------
\* The set-up keeps its types: never more streams, sockets or counted cookies
\* than -P asks for, whatever create_udp_stream and the network do.
THEOREM UdpTypes == Spec => []TypeOK
  <1>1. Setup => TypeOK
    BY DEF Setup
  <1> QED BY <1>1, SetupInvariant, PTL

\* Two streams never share a client socket, for any number of streams,
\* losses and duplicates.
THEOREM UdpOwnSocket == Spec => []OneSocketPerStream
  <1>1. Setup => OneSocketPerStream
    BY DEF Setup, Apart
  <1> QED BY <1>1, SetupInvariant, PTL

\* Without duplicates a running test finds no hello or cookie in a socket or
\* on its way that it would count as data.
THEOREM UdpNoStray == Spec => []NoStray
  <1>1. Init => NoDuplicates
    BY ClearInit DEF NoDuplicates
  <1>2. Setup /\ Setup' /\ NoDuplicates /\ [Next]_vars => NoDuplicates'
    BY ClearNext DEF NoDuplicates
  <1>3. Setup /\ NoDuplicates => NoStray
    BY ClearNoStray
  <1> QED BY <1>1, <1>2, <1>3, SetupInvariant, PTL DEF Spec
=============================================================================
