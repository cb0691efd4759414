------------------------ MODULE TlsHandshakeProofs ------------------------
(***************************************************************************)
(* The set-up of a TLS test, proved for every number of streams, for both  *)
(* build profiles and whichever side is killed.                            *)
(***************************************************************************)
EXTENDS TlsHandshake, TLAPS

\* A side in a handshake still has a stream to set up; the server announces
\* TestStart with its last stream.
Places ==
  /\ \A x \in Side : pc[x] \in {"connected", "handshake", "adopt"} => streams[x] < NumStreams
  /\ pc["client"] = "loop" => streams["client"] < NumStreams
  /\ sstate = "CreateStreams" => streams["server"] < NumStreams
  /\ sstate = "TestStart" => streams["server"] = NumStreams

\* What is processed has arrived, what has arrived was written, and nothing is
\* written before rustls has queued it.
Flow(x, i) ==
  /\ read[x][i] <= arrived[x][i]
  /\ arrived[x][i] <= written[Other(x)][i]
  /\ written[x][i] <= Queued(x, read[x][i])

\* A stream that is pushed, or about to be, has ended its handshake.
Secured(x, i) == Holds(x, i) /\ (i <= streams[x] \/ pc[x] = "adopt") => read[x][i] >= 2

IInv ==
  /\ TypeOK /\ Places /\ NothingHeldBack
  /\ \A x \in Side, i \in Streams : Flow(x, i) /\ Secured(x, i)

-----------------------------------------------------------------------------
\* Queued is bounded, grows with what is processed, and a client that has
\* queued both its messages has processed both of the server's.
LEMMA QueuedFacts ==
  ASSUME NEW x \in Side, NEW r \in 0..3
  PROVE  /\ Queued(x, r) \in 0..3
         /\ \A q \in 0..3 : q <= r => Queued(x, q) <= Queued(x, r)
         /\ x = "client" /\ Queued(x, r) >= 2 => r >= 2
  BY DEF Queued, Side

LEMMA InitIInv == Init => IInv
  <1> SUFFICES ASSUME Init PROVE IInv
    OBVIOUS
  <1> USE TlsAssumption DEF Init, Side, Streams
  <1>1. TypeOK
    <2>1. edge \in [Side -> BOOLEAN] /\ ledge \in BOOLEAN
      BY Zenon
    <2> QED
      BY <2>1 DEF TypeOK
  <1>2. Places
    BY DEF Places
  <1>3. NothingHeldBack
    BY DEF NothingHeldBack, Holds, Current
  <1>4. ASSUME NEW x \in Side, NEW i \in Streams PROVE Flow(x, i) /\ Secured(x, i)
    BY DEF Flow, Secured, Holds, Current, Other, Queued
  <1> QED
    BY <1>1, <1>2, <1>3, <1>4 DEF IInv

\* The client connects, and then starts its handshake unless it was reset.
LEMMA ConnectInv == IInv /\ Connect => IInv'
  <1> SUFFICES ASSUME IInv, Connect PROVE IInv'
    OBVIOUS
  <1> USE TlsAssumption DEF IInv, Connect, netVars
  <1>1. TypeOK'
    BY DEF TypeOK, Side
  <1>2. Places'
    BY DEF Places, TypeOK, Side
  <1>3. NothingHeldBack'
    BY DEF NothingHeldBack, Holds, Current, TypeOK, Side
  <1>4. ASSUME NEW x \in Side, NEW i \in Streams PROVE Flow(x, i)' /\ Secured(x, i)'
    BY DEF Flow, Secured, Holds, Current, TypeOK, Side
  <1> QED
    BY <1>1, <1>2, <1>3, <1>4

LEMMA EndpointInv == IInv /\ ClientEndpoint => IInv'
  <1> SUFFICES ASSUME IInv, ClientEndpoint PROVE IInv'
    OBVIOUS
  <1> USE TlsAssumption DEF IInv, ClientEndpoint, Handshake, netVars
  <1>1. TypeOK'
    <2>1. edge' \in [Side -> BOOLEAN]
      <3>1. edge \in [Side -> BOOLEAN]
        BY DEF TypeOK
      <3>2. edge' = edge \/ edge' = [edge EXCEPT !["client"] = TRUE]
        OBVIOUS
      <3> QED BY ONLY <3>1, <3>2
    <2>2. pc' \in [Side -> {"loop", "connected", "handshake", "adopt", "over", "panic", "gone"}]
      BY DEF TypeOK, Side
    <2> QED
      BY <2>1, <2>2 DEF TypeOK
  <1>2. Places'
    BY DEF Places, TypeOK, Side
  <1>3. NothingHeldBack'
    BY DEF NothingHeldBack, Holds, Current, TypeOK, Side
  <1>4. ASSUME NEW x \in Side, NEW i \in Streams PROVE Flow(x, i)' /\ Secured(x, i)'
    BY DEF Flow, Secured, Holds, Current, TypeOK, Side
  <1> QED
    BY <1>1, <1>2, <1>3, <1>4

LEMMA AcceptInv == IInv /\ create_tls_stream => IInv'
  <1> SUFFICES ASSUME IInv, create_tls_stream PROVE IInv'
    OBVIOUS
  <1> USE TlsAssumption DEF IInv, create_tls_stream, Handshake, netVars
  <1>1. TypeOK'
    <2>1. edge' \in [Side -> BOOLEAN]
      BY DEF TypeOK, Side
    <2>2. pc' \in [Side -> {"loop", "connected", "handshake", "adopt", "over", "panic", "gone"}]
      BY DEF TypeOK, Side
    <2>3. backlog' \in Nat
      BY DEF TypeOK
    <2>4. ledge' \in BOOLEAN
      OBVIOUS
    <2> QED
      BY <2>1, <2>2, <2>3, <2>4 DEF TypeOK
  <1>2. Places'
    BY DEF Places, TypeOK, Side
  <1>3. NothingHeldBack'
    BY DEF NothingHeldBack, Holds, Current, TypeOK, Side
  <1>4. ASSUME NEW x \in Side, NEW i \in Streams PROVE Flow(x, i)' /\ Secured(x, i)'
    BY DEF Flow, Secured, Holds, Current, TypeOK, Side
  <1> QED
    BY <1>1, <1>2, <1>3, <1>4

\* One event: what has arrived is processed, and all that is queued is written.
LEMMA EventInv == ASSUME NEW x \in Side, IInv, HandshakeEvent(x) PROVE IInv'
  <1> DEFINE i == Current(x)
             r == arrived[x][i]
  <1>1. i \in Streams /\ r \in 0..3 /\ read[x][i] \in 0..3 /\ read[x][i] <= r
    <2>1. streams[x] \in 0..NumStreams /\ streams[x] < NumStreams /\ NumStreams \in Nat
      BY TlsAssumption DEF IInv, HandshakeEvent, Places, TypeOK
    <2>2. i \in Streams
      BY <2>1 DEF Current, Streams
    <2> HIDE DEF i
    <2>3. r \in 0..3 /\ read[x][i] \in 0..3
      BY <2>2 DEF IInv, TypeOK
    <2> QED BY <2>2, <2>3 DEF IInv, Flow
  <1>2. Queued(x, r) \in 0..3 /\ Queued(x, read[x][i]) <= Queued(x, r)
    BY <1>1, QueuedFacts
  <1> USE DEF IInv, HandshakeEvent
  <1>3. TypeOK'
    BY <1>1, <1>2 DEF TypeOK, do_write, Side
  <1>4. Places'
    BY DEF Places, TypeOK, Side
  <1>5. ASSUME NEW y \in Side, NEW j \in Streams, y # x \/ j # i
        PROVE  /\ read'[y][j] = read[y][j] /\ written'[y][j] = written[y][j]
               /\ (Holds(y, j) /\ (j <= streams[y] \/ pc[y] = "adopt"))'
                    = (Holds(y, j) /\ (j <= streams[y] \/ pc[y] = "adopt"))
    BY <1>5 DEF TypeOK, Holds, Current
  <1>6. /\ read'[x][i] = r
        /\ written'[x][i] = IF sock[x][i] = "reset" THEN written[x][i] ELSE Queued(x, r)
        /\ written[x][i] <= Queued(x, r) /\ written[x][i] \in 0..3
        /\ HandshakeOver(r) <=> pc'[x] = "adopt"
        /\ streams[x] \in Nat /\ ~(i <= streams[x])
    <2>1. HandshakeOver(r) <=> pc'[x] = "adopt"
      BY DEF TypeOK, HandshakeOver
    <2>2. streams[x] \in Nat /\ ~(i <= streams[x])
      BY DEF TypeOK, Current
    <2>3. written[x][i] <= Queued(x, r) /\ written[x][i] \in 0..3
      <3>1. written[x][i] <= Queued(x, read[x][i]) /\ written[x][i] \in 0..3
        BY <1>1 DEF Flow, TypeOK
      <3>2. Queued(x, read[x][i]) \in 0..3
        BY <1>1, QueuedFacts
      <3> QED
        BY <1>2, <3>1, <3>2
    <2>4. read'[x][i] = r
      BY <1>1 DEF TypeOK
    <2>5. written'[x][i] = IF sock[x][i] = "reset" THEN written[x][i] ELSE Queued(x, r)
      BY <1>1 DEF TypeOK, do_write
    <2> QED
      BY <2>1, <2>2, <2>3, <2>4, <2>5
  <1>7. NothingHeldBack'
    BY <1>5, <1>6 DEF NothingHeldBack, TypeOK
  <1>8. ASSUME NEW y \in Side, NEW j \in Streams PROVE Flow(y, j)'
    <2>1. arrived'[y][j] <= written'[Other(y)][j]
      <3>1. Other(y) \in Side /\ arrived[y][j] <= written[Other(y)][j]
            /\ arrived[y][j] \in 0..3 /\ written[Other(y)][j] \in 0..3
        BY DEF Flow, Other, Side, TypeOK
      <3>2. written[Other(y)][j] <= written'[Other(y)][j]
        BY <1>2, <1>5, <1>6, <3>1
      <3>3. written'[Other(y)][j] \in 0..3
        BY <1>3, <3>1 DEF TypeOK
      <3> QED
        BY <3>1, <3>2, <3>3
    <2>2. read'[y][j] <= arrived'[y][j] /\ written'[y][j] <= Queued(y, read'[y][j])
      BY <1>1, <1>2, <1>5, <1>6 DEF Flow
    <2> QED
      BY <2>1, <2>2 DEF Flow
  <1>9. ASSUME NEW y \in Side, NEW j \in Streams PROVE Secured(y, j)'
    BY <1>5, <1>6 DEF Secured, HandshakeOver
  <1> QED
    BY <1>3, <1>4, <1>7, <1>8, <1>9

LEMMA AdoptInv == ASSUME NEW x \in Side, IInv, Adopt(x) PROVE IInv'
  <1> USE TlsAssumption DEF IInv, Adopt, netVars
  <1>1. Current(x) \in Streams /\ streams[x] \in 0..NumStreams
    BY DEF Places, TypeOK, Current, Streams
  <1>2. TypeOK'
    BY <1>1 DEF TypeOK, Side, Current, Streams
  <1>3. Places'
    BY <1>1 DEF Places, TypeOK, Side, Current
  <1>4. ASSUME NEW y \in Side, NEW j \in Streams,
               (Holds(y, j) /\ (j <= streams[y] \/ pc[y] = "adopt"))'
        PROVE  Holds(y, j) /\ (j <= streams[y] \/ pc[y] = "adopt")
    <2>1. CASE sock[x][Current(x)] = "reset"
      BY <1>4, <2>1 DEF TypeOK, Holds, Current
    <2>2. CASE sock[x][Current(x)] # "reset" /\ y = x
      <3>1. streams'[x] = streams[x] + 1 /\ pc'[x] \in {"loop", "over"}
        BY <2>2 DEF TypeOK
      <3>2. j <= streams[x] + 1 /\ j \in Nat
        BY <1>1, <1>4, <2>2, <3>1 DEF Holds, Current, Streams
      <3> QED
        BY <1>1, <2>2, <3>2 DEF Holds, Current
    <2>3. CASE sock[x][Current(x)] # "reset" /\ y # x
      BY <1>4, <2>3 DEF TypeOK, Holds, Current
    <2> QED
      BY <2>1, <2>2, <2>3
  <1>5. NothingHeldBack'
    BY <1>4 DEF NothingHeldBack
  <1>6. ASSUME NEW y \in Side, NEW j \in Streams PROVE Flow(y, j)' /\ Secured(y, j)'
    BY <1>4 DEF Flow, Secured
  <1> QED
    BY <1>2, <1>3, <1>5, <1>6

LEMMA DeliverInv == ASSUME NEW x \in Side, NEW i \in Streams, IInv, Deliver(x, i) PROVE IInv'
  <1> USE DEF IInv, Deliver, Edge
  <1>1. TypeOK'
    BY DEF TypeOK, Side, Other
  <1>2. Places'
    BY DEF Places
  <1>3. NothingHeldBack'
    BY DEF NothingHeldBack, Holds, Current
  <1>4. ASSUME NEW y \in Side, NEW j \in Streams PROVE Flow(y, j)' /\ Secured(y, j)'
    <2>1. Other(y) \in Side /\ arrived[y][j] \in 0..3 /\ written[Other(y)][j] \in 0..3
      BY DEF TypeOK, Other, Side
    <2>2. arrived'[y][j] = IF y = x /\ j = i THEN arrived[y][j] + 1 ELSE arrived[y][j]
      BY DEF TypeOK
    <2>3. read[y][j] \in 0..3 /\ Flow(y, j)
      BY DEF TypeOK
    <2>4. arrived'[y][j] <= written[Other(y)][j] /\ read[y][j] <= arrived'[y][j]
      BY <2>1, <2>2, <2>3 DEF Flow
    <2>5. Flow(y, j)'
      BY <2>3, <2>4 DEF Flow
    <2>6. Secured(y, j)'
      BY DEF Secured, Holds, Current
    <2> QED
      BY <2>5, <2>6
  <1> QED
    BY <1>1, <1>2, <1>3, <1>4

LEMMA PeerGoneInv == ASSUME NEW x \in Side, NEW i \in Streams, IInv, PeerGone(x, i) PROVE IInv'
  <1> USE DEF IInv, PeerGone, Edge
  <1>0. PICK v \in {"eof", "reset"} :
          sock' = [sock EXCEPT ![x][i] = v] /\ sock[x][i] # "reset"
    OBVIOUS
  <1>1. TypeOK'
    <2>1. edge' \in [Side -> BOOLEAN]
      BY DEF TypeOK
    <2>2. sock' \in [Side -> [Streams -> {"open", "eof", "reset"}]]
      BY <1>0 DEF TypeOK
    <2> QED
      BY <2>1, <2>2 DEF TypeOK
  <1>2. Places'
    BY DEF Places
  <1>3. ASSUME NEW y \in Side, NEW j \in Streams, sock[y][j] = "reset"
        PROVE  sock'[y][j] = "reset"
    BY <1>0, <1>3 DEF TypeOK
  <1>4. NothingHeldBack'
    BY <1>3 DEF NothingHeldBack, Holds, Current
  <1>5. ASSUME NEW y \in Side, NEW j \in Streams PROVE Flow(y, j)' /\ Secured(y, j)'
    BY DEF Flow, Secured, Holds, Current
  <1> QED
    BY <1>1, <1>2, <1>4, <1>5

LEMMA DiesInv == ASSUME NEW x \in Side, IInv, Dies(x) PROVE IInv'
  <1> USE DEF IInv, Dies, netVars
  <1>1. TypeOK'
    BY DEF TypeOK
  <1>2. Places'
    BY DEF Places, TypeOK, Side
  <1>3. NothingHeldBack'
    BY DEF NothingHeldBack, Holds, Current, TypeOK
  <1>4. ASSUME NEW y \in Side, NEW j \in Streams PROVE Flow(y, j)' /\ Secured(y, j)'
    BY DEF Flow, Secured, Holds, Current, TypeOK
  <1> QED
    BY <1>1, <1>2, <1>3, <1>4

LEMMA StutterInv == IInv /\ UNCHANGED vars => IInv'
  BY DEF IInv, vars, TypeOK, Places, NothingHeldBack, Flow, Secured, Holds, Current

LEMMA NextIInv == IInv /\ [Next]_vars => IInv'
  <1> SUFFICES ASSUME IInv, [Next]_vars PROVE IInv'
    OBVIOUS
  <1>1. CASE Client
    BY <1>1, ConnectInv, EndpointInv, EventInv, AdoptInv DEF Client, Side
  <1>2. CASE Server
    BY <1>2, AcceptInv, EventInv, AdoptInv DEF Server, Side
  <1>3. ASSUME NEW i \in Streams, Net(i) PROVE IInv'
    BY <1>3, DeliverInv, PeerGoneInv DEF Net
  <1>4. ASSUME NEW x \in Side, Dies(x) PROVE IInv'
    BY <1>4, DiesInv
  <1>5. CASE Finished \/ UNCHANGED vars
    BY <1>5, StutterInv DEF Finished
  <1> QED
    BY <1>1, <1>2, <1>3, <1>4, <1>5 DEF Next

\* Types, flow of the handshake messages, secured streams and places hold in
\* every state, killed processes or not.
THEOREM Inductive == Spec => []IInv
  BY InitIInv, NextIInv, PTL DEF Spec

-----------------------------------------------------------------------------
\* The types hold: no stream is set up beyond -P, and create_tls_stream never
\* takes a connection that is not in the listener's queue.
THEOREM TlsTypeCorrect == Spec => []TypeOK
  <1>1. IInv => TypeOK
    BY DEF IInv
  <1> QED
    BY <1>1, Inductive, PTL

\* handshake() never returns with a message its peer waits for still queued.
THEOREM NothingHeldBackThm == Spec => []NothingHeldBack
  <1>1. IInv => NothingHeldBack
    BY DEF IInv
  <1> QED
    BY <1>1, Inductive, PTL

\* The server announces TestStart only when both sides have ended every
\* handshake.  The server's side is its own loop's doing; the client's follows
\* from the messages: the server has processed the client's second one, which
\* the client writes only after it has processed both of the server's.
THEOREM SecuredStartThm == Spec => []SecuredStart
  <1>1. IInv => SecuredStart
    <2> SUFFICES ASSUME IInv, sstate = "TestStart", NEW i \in Streams
                 PROVE  read["server"][i] >= 2 /\ read["client"][i] >= 2
      BY DEF SecuredStart, Side
    <2>1. read["server"][i] >= 2
      BY TlsAssumption DEF IInv, Places, Secured, Holds, Streams, Side
    <2>2. /\ Flow("server", i) /\ Flow("client", i) /\ Other("server") = "client"
          /\ read["client"][i] \in 0..3 /\ read["server"][i] \in 0..3
          /\ arrived["server"][i] \in 0..3 /\ written["client"][i] \in 0..3
      BY DEF IInv, Side, Other, TypeOK
    <2>3. Queued("client", read["client"][i]) \in 0..3
      BY <2>2, QueuedFacts DEF Side
    <2>4. Queued("client", read["client"][i]) >= 2
      BY <2>1, <2>2, <2>3 DEF Flow
    <2> QED
      BY <2>1, <2>2, <2>4, QueuedFacts DEF Side
  <1> QED
    BY <1>1, Inductive, PTL

-----------------------------------------------------------------------------
(* The listener's queue. *)

\* Connections x has, in the loop of its set-up.
Busy(x) == IF pc[x] \in {"connected", "handshake", "adopt"} THEN 1 ELSE 0
Has(x) == streams[x] + Busy(x)

\* While both sides live, the queue holds what the client has and the server
\* has not; the server writes only to what it has accepted.
Accounted ==
  /\ ListenerKeepsUp
  /\ pc["server"] # "over"
  /\ Alive("server") => \A i \in Streams : written["server"][i] > 0 => i <= Has("server")
  /\ Alive("client") /\ Alive("server") => Has("client") = Has("server") + backlog

\* The client is never ahead of the server by more than the stream it is at:
\* a stream it has pushed was answered.
LEMMA ClientBehind ==
  ASSUME IInv, Accounted, Alive("client"), Alive("server")
  PROVE  streams["client"] <= Has("server")
  <1>1. /\ streams["client"] \in 0..NumStreams /\ streams["server"] \in 0..NumStreams
        /\ Has("server") \in Nat /\ NumStreams \in Nat
    BY TlsAssumption DEF IInv, TypeOK, Side, Has, Busy
  <1>2. CASE streams["client"] = 0
    BY <1>1, <1>2
  <1>3. CASE streams["client"] > 0
    <2> DEFINE n == streams["client"]
    <2>1. n \in Streams /\ Secured("client", n) /\ Flow("client", n) /\ Other("client") = "server"
      BY <1>1, <1>3 DEF IInv, Streams, Side, Other
    <2>2. /\ read["client"][n] \in 0..3 /\ arrived["client"][n] \in 0..3
          /\ written["server"][n] \in 0..3
      BY <2>1 DEF IInv, TypeOK, Side
    <2>3. read["client"][n] >= 2
      BY <1>1, <2>1 DEF Secured, Holds
    <2>4. written["server"][n] > 0
      BY <2>1, <2>2, <2>3 DEF Flow
    <2> QED BY <2>1, <2>4 DEF Accounted
  <1> QED BY <1>1, <1>2, <1>3

LEMMA AccountedInit == Init => Accounted
  BY TlsAssumption DEF Init, Accounted, ListenerKeepsUp, Has, Busy, Side, Alive, Streams

LEMMA AccountedNext == ASSUME IInv, Accounted, [Next]_vars PROVE Accounted'
  <1>0. /\ TypeOK /\ NumStreams \in Nat /\ backlog \in Nat /\ "client" \in Side /\ "server" \in Side
        /\ streams["client"] \in Nat /\ streams["server"] \in Nat
    BY TlsAssumption DEF IInv, TypeOK, Side
  <1>1. CASE Connect
    <2>1. /\ pc["client"] = "loop" /\ Alive("client") /\ Alive("server")
          /\ pc'["client"] = "connected" /\ pc'["server"] = pc["server"]
          /\ backlog' = backlog + 1 /\ ledge' /\ UNCHANGED << streams, written >>
      BY <1>0, <1>1 DEF Connect, TypeOK, Alive, netVars
    <2>2. Has("client") = streams["client"] /\ Has("client")' = streams["client"] + 1
          /\ Has("server")' = Has("server") /\ Has("server") \in Nat
      BY <1>0, <2>1 DEF Has, Busy
    <2>3. backlog = 0
      BY <1>0, <2>1, <2>2, ClientBehind DEF Accounted
    <2> QED BY <1>0, <2>1, <2>2, <2>3 DEF Accounted, ListenerKeepsUp, Alive
  <1>2. CASE create_tls_stream
    <2>1. /\ pc["server"] = "loop" /\ pc'["client"] = pc["client"] /\ backlog > 0
          /\ pc'["server"] \in {"panic", "handshake"}
          /\ backlog' = backlog - 1 /\ UNCHANGED << streams, written >>
      BY <1>0, <1>2 DEF create_tls_stream, Handshake, TypeOK, netVars
    <2>2. /\ Has("client")' = Has("client") /\ Has("client") \in Nat
          /\ Has("server") = streams["server"]
          /\ pc'["server"] = "handshake" => Has("server")' = streams["server"] + 1
      BY <1>0, <2>1 DEF Has, Busy
    <2> QED BY <1>0, <2>1, <2>2 DEF Accounted, ListenerKeepsUp, Alive, Streams
  <1>3. ASSUME NEW x \in Side, HandshakeEvent(x) PROVE Accounted'
    <2>1. /\ pc[x] = "handshake" /\ pc'[x] \in {"handshake", "adopt"}
          /\ \A y \in Side : y # x => pc'[y] = pc[y]
          /\ UNCHANGED << streams, backlog, ledge >>
      BY <1>0, <1>3 DEF HandshakeEvent, TypeOK
    <2>2. \A y \in Side : Has(y)' = Has(y) /\ (Alive(y)' <=> Alive(y))
      BY <2>1 DEF Has, Busy, Alive
    <2>3. ASSUME NEW i \in Streams, written'["server"][i] > 0, Alive("server")
          PROVE  i <= Has("server")
      <3>1. CASE written'["server"][i] = written["server"][i]
        BY <2>3, <3>1 DEF Accounted
      <3>2. CASE written'["server"][i] # written["server"][i]
        <4>1. x = "server" /\ i = Current("server")
          BY <1>0, <1>3, <3>2 DEF HandshakeEvent, TypeOK
        <4> QED BY <1>0, <2>1, <4>1 DEF Has, Busy, Current
      <3> QED BY <3>1, <3>2
    <2> QED BY <1>0, <2>1, <2>2, <2>3 DEF Accounted, ListenerKeepsUp
  <1>4. ASSUME NEW x \in Side, Adopt(x) PROVE Accounted'
    <2>1. /\ pc[x] = "adopt" /\ \A y \in Side : y # x => pc'[y] = pc[y] /\ streams'[y] = streams[y]
          /\ UNCHANGED << backlog, ledge, written >>
          /\ \/ pc'[x] = "panic"
             \/ streams'[x] = streams[x] + 1 /\ (pc'[x] = "loop" \/ (pc'[x] = "over" /\ x = "client"))
      BY <1>0, <1>4 DEF Adopt, TypeOK, netVars
    <2>2. \A y \in Side : (Alive(y)' => Alive(y)) /\ (Alive(y)' => Has(y)' = Has(y))
      <3> SUFFICES ASSUME NEW y \in Side, Alive(y)' PROVE Alive(y) /\ Has(y)' = Has(y)
        OBVIOUS
      <3>1. streams[y] \in Nat
        BY <1>0 DEF TypeOK
      <3>2. CASE y = x
        BY <2>1, <3>1, <3>2 DEF Has, Busy, Alive
      <3>3. CASE y # x
        BY <2>1, <3>3 DEF Has, Busy, Alive
      <3> QED BY <3>2, <3>3
    <2> QED BY <1>0, <2>1, <2>2 DEF Accounted, ListenerKeepsUp
  <1>5. ASSUME NEW i \in Streams, Net(i) PROVE Accounted'
    <2>1. UNCHANGED << pc, streams, backlog, ledge, written >>
      BY <1>5 DEF Net, Deliver, PeerGone
    <2> QED BY <2>1 DEF Accounted, ListenerKeepsUp, Has, Busy, Alive
  <1>6. ASSUME NEW x \in Side, Dies(x) PROVE Accounted'
    <2>1. /\ UNCHANGED << streams, backlog, ledge, written >> /\ pc'[x] = "gone"
          /\ \A y \in Side : y # x => pc'[y] = pc[y]
      BY <1>0, <1>6 DEF Dies, TypeOK, netVars
    <2> QED BY <1>0, <2>1 DEF Accounted, ListenerKeepsUp, Has, Busy, Alive
  <1>8. CASE ClientEndpoint
    <2>1. /\ UNCHANGED << streams, backlog, ledge, written >> /\ pc["client"] = "connected"
          /\ pc'["client"] \in {"panic", "handshake"} /\ pc'["server"] = pc["server"]
      BY <1>0, <1>8 DEF ClientEndpoint, Handshake, TypeOK, netVars
    <2> QED BY <1>0, <2>1 DEF Accounted, ListenerKeepsUp, Has, Busy, Alive
  <1>7. CASE Finished \/ UNCHANGED vars
    BY <1>7 DEF Finished, vars, Accounted, ListenerKeepsUp, Has, Busy, Alive
  <1> QED
    BY <1>0, <1>1, <1>2, <1>3, <1>4, <1>5, <1>6, <1>7, <1>8 DEF Next, Client, Server

\* The listener's queue never holds a connection without an event for it,
\* although the listener is edge-triggered and accepts one per event: a TLS
\* client connects again only after the server has answered its last hello.
THEOREM ListenerKeepsUpThm == Spec => []ListenerKeepsUp
  <1>1. IInv /\ Accounted /\ [Next]_vars => Accounted'
    BY AccountedNext
  <1>2. Accounted => ListenerKeepsUp
    BY DEF Accounted
  <1> QED
    BY <1>1, <1>2, AccountedInit, Inductive, PTL DEF Spec
=============================================================================
