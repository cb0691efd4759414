-------------------------- MODULE AdmissionProofs --------------------------
(***************************************************************************)
(* Clients that keep apart: one server serves any number of them, with any *)
(* number of streams, and gives no connection of one to the test of        *)
(* another.  That they keep apart is assumed: the server does not see to   *)
(* it, and a client that connects while another is being set up becomes a  *)
(* stream of its test.                                                     *)
(***************************************************************************)
EXTENDS Admission, FiniteSetTheorems, TLAPS

Connection == [who : Clients, kind : {"ctrl", "data"}]

Types ==
  /\ sstate \in {"Listen", "Start", "CreateStreams", "TestStart", "TestRunning"}
  /\ backlog \in Seq(Connection) /\ streams \in Seq(Connection) /\ ledge \in BOOLEAN
  /\ sready \subseteq 1..NumStreams /\ counted \in Nat
  /\ cpc \in [Clients -> {"off", "ctrl", "cookie", "wait", "missed", "send", "done", "failed"}]
  /\ opened \in [Clients -> Nat]
  /\ \A c \in Clients : cpc[c] = "off" => opened[c] = 0
  /\ \A c \in Clients : cpc[c] = "send" => sstate = "TestRunning" /\ owner = c

\* No connection is anybody's but the owner's.
Own(q) == \A n \in DOMAIN q : q[n] = Conn(owner, "data")

NoStreams == streams = << >> /\ sready = {} /\ counted = 0

\* In tcp::accept at most one client waits, and it has opened nothing.
Listening ==
  /\ NoStreams
  /\ \/ backlog = << >>
     \/ \E c \in Clients : backlog = << Conn(c, "ctrl") >> /\ cpc[c] = "ctrl" /\ opened[c] = 0

Starting ==
  /\ NoStreams /\ backlog = << >> /\ owner \in Clients
  /\ cpc[owner] = "ctrl" /\ opened[owner] = 0

\* What the owner has opened is a stream or in the listener's queue, and
\* nothing else is.
Creating ==
  /\ owner \in Clients /\ Own(streams) /\ Own(backlog)
  /\ opened[owner] = Len(streams) + Len(backlog)
  /\ Len(streams) < NumStreams /\ opened[owner] <= NumStreams
  /\ cpc[owner] = IF opened[owner] < NumStreams THEN "ctrl" ELSE "cookie"
  /\ ledge => backlog # << >>
  /\ sready = {} /\ counted = 0

\* Before the owner's cookies there is no event; after them there is one for
\* every cookie not counted yet.
Started ==
  /\ owner \in Clients /\ Own(streams) /\ Len(streams) = NumStreams
  /\ \/ cpc[owner] = "cookie" /\ sready = {} /\ counted = 0
     \/ /\ cpc[owner] = "wait"
        /\ counted + Cardinality(sready) = NumStreams /\ counted < NumStreams

Running ==
  /\ owner \in Clients /\ Own(streams) /\ Len(streams) = NumStreams
  /\ sready = {} /\ cpc[owner] \in {"wait", "send"}

Served ==
  /\ Types
  /\ sstate = "Listen" => Listening
  /\ sstate = "Start" => Starting
  /\ sstate = "CreateStreams" => Creating
  /\ sstate = "TestStart" => Started
  /\ sstate = "TestRunning" => Running

-----------------------------------------------------------------------------
LEMMA Numbers == NumStreams \in Nat /\ NumStreams > 0
  BY AdmissionAssumption

LEMMA ConnType ==
  ASSUME NEW c \in Clients
  PROVE  /\ Conn(c, "ctrl") \in Connection /\ Conn(c, "data") \in Connection
         /\ Conn(c, "ctrl").who = c /\ Conn(c, "data").kind = "data"
  BY DEF Conn, Connection

LEMMA AppendConn ==
  ASSUME NEW q \in Seq(Connection), NEW k \in Connection
  PROVE  /\ Append(q, k) \in Seq(Connection) /\ Append(q, k) # << >>
         /\ Len(q) \in Nat /\ Len(Append(q, k)) = Len(q) + 1
         /\ DOMAIN q = 1..Len(q) /\ DOMAIN Append(q, k) = 1..(Len(q) + 1)
         /\ \A n \in 1..Len(q) : Append(q, k)[n] = q[n]
         /\ Append(q, k)[Len(q) + 1] = k
  OBVIOUS

LEMMA TailConn ==
  ASSUME NEW q \in Seq(Connection), q # << >>
  PROVE  /\ Tail(q) \in Seq(Connection) /\ Head(q) \in Connection
         /\ Len(q) \in Nat /\ Len(q) > 0 /\ Len(Tail(q)) = Len(q) - 1
         /\ 1 \in DOMAIN q /\ Head(q) = q[1]
         /\ \A n \in DOMAIN Tail(q) : n + 1 \in DOMAIN q /\ Tail(q)[n] = q[n + 1]
  OBVIOUS

\* Owning a queue survives another connection of the owner's and a departure.
LEMMA OwnAppend ==
  ASSUME NEW q \in Seq(Connection), owner \in Clients, Own(q)
  PROVE  Own(Append(q, Conn(owner, "data")))
  <1>1. Conn(owner, "data") \in Connection
    BY ConnType
  <1> QED BY <1>1, AppendConn DEF Own

LEMMA OwnTail ==
  ASSUME NEW q \in Seq(Connection), q # << >>, Own(q)
  PROVE  Own(Tail(q)) /\ Head(q) = Conn(owner, "data")
  BY TailConn DEF Own

LEMMA ServedInit == Init => Served
  <1> SUFFICES ASSUME Init PROVE Served
    OBVIOUS
  <1>1. Types
    <2>1. << >> \in Seq(Connection) /\ {} \subseteq 1..NumStreams
      OBVIOUS
    <2>2. ledge \in BOOLEAN
      BY DEF Init
    <2>3. /\ cpc \in [Clients -> {"off", "ctrl", "cookie", "wait", "missed", "send", "done", "failed"}]
          /\ opened \in [Clients -> Nat]
          /\ \A c \in Clients : cpc[c] = "off" /\ opened[c] = 0
      BY DEF Init
    <2> QED BY <2>1, <2>2, <2>3 DEF Init, Types
  <1> QED BY <1>1 DEF Init, Served, Listening, NoStreams

\* A client that starts joins an empty queue in Listen, or one the server no
\* longer takes from.
LEMMA ServedCStart ==
  ASSUME Apart, Served, NEW c \in Clients, CStart(c)
  PROVE  Served'
  <1>1. /\ Types /\ cpc[c] = "off" /\ opened[c] = 0
        /\ sstate \in {"Listen", "TestStart", "TestRunning"}
        /\ sstate = "Listen" => backlog = << >>
        /\ backlog' = Append(backlog, Conn(c, "ctrl"))
        /\ ledge' \in BOOLEAN
        /\ cpc' = [cpc EXCEPT ![c] = "ctrl"]
        /\ UNCHANGED << sstate, owner, streams, sready, counted, opened >>
    BY DEF Served, Types, CStart, Go, server
  <1>2. backlog' \in Seq(Connection)
    BY <1>1, AppendConn, ConnType DEF Types
  <1>3. /\ cpc'[c] = "ctrl" /\ \A d \in Clients : d # c => cpc'[d] = cpc[d]
        /\ cpc' \in [Clients -> {"off", "ctrl", "cookie", "wait", "missed", "send", "done", "failed"}]
    BY <1>1 DEF Types
  <1>4. Types'
    BY <1>1, <1>2, <1>3 DEF Types
  <1>5. sstate = "Listen" => Listening'
    <2>1. Append(<< >>, Conn(c, "ctrl")) = << Conn(c, "ctrl") >>
      OBVIOUS
    <2> QED BY <1>1, <1>3, <2>1 DEF Served, Listening, NoStreams
  <1>6. sstate \in {"TestStart", "TestRunning"} => c # owner /\ cpc'[owner] = cpc[owner]
    BY <1>1, <1>3 DEF Served, Started, Running
  <1>7. sstate = "TestStart" => Started'
    BY <1>1, <1>6 DEF Served, Started, Own
  <1>8. sstate = "TestRunning" => Running'
    BY <1>1, <1>6 DEF Served, Running, Own
  <1> QED BY <1>1, <1>4, <1>5, <1>7, <1>8 DEF Served

\* The owner connects only while the server creates streams.
LEMMA ServedCConnect ==
  ASSUME Served, NEW c \in Clients, CConnect(c)
  PROVE  Served'
  <1>1. /\ Types /\ owner = c /\ cpc[c] = "ctrl" /\ sstate \notin {"Listen", "Start"}
        /\ backlog' = Append(backlog, Conn(c, "data")) /\ ledge' = TRUE
        /\ opened' = [opened EXCEPT ![c] = @ + 1]
        /\ cpc' = [cpc EXCEPT ![c] = IF opened'[c] = NumStreams THEN "cookie" ELSE "ctrl"]
        /\ UNCHANGED << sstate, owner, streams, sready, counted >>
    BY DEF Served, CConnect, Go, server
  <1>2. sstate = "CreateStreams" /\ Creating
    BY <1>1 DEF Served, Types, Started, Running
  <1>3. /\ opened'[c] = opened[c] + 1 /\ opened[c] \in Nat
        /\ cpc'[c] = IF opened[c] + 1 = NumStreams THEN "cookie" ELSE "ctrl"
        /\ \A d \in Clients : d # c => cpc'[d] = cpc[d] /\ opened'[d] = opened[d]
        /\ cpc' \in [Clients -> {"off", "ctrl", "cookie", "wait", "missed", "send", "done", "failed"}]
        /\ opened' \in [Clients -> Nat]
    BY <1>1 DEF Types
  <1>4. /\ backlog' \in Seq(Connection) /\ backlog' # << >>
        /\ Len(backlog') = Len(backlog) + 1 /\ Len(backlog) \in Nat /\ Len(streams) \in Nat
    BY <1>1, AppendConn, ConnType DEF Types
  <1>5. Types'
    BY <1>1, <1>3, <1>4 DEF Types
  <1>6. Own(backlog)'
    <2>1. Own(backlog')
      BY <1>1, <1>2, OwnAppend DEF Creating, Types
    <2> QED BY <1>1, <2>1 DEF Own
  <1>7. opened[c] < NumStreams
    BY <1>1, <1>2, <1>3, Numbers DEF Creating
  <1>8. Creating'
    <2>1. /\ opened'[owner'] = Len(streams') + Len(backlog') /\ opened'[owner'] <= NumStreams
          /\ cpc'[owner'] = IF opened'[owner'] < NumStreams THEN "ctrl" ELSE "cookie"
      <3>1. opened[c] = Len(streams) + Len(backlog) /\ streams' = streams /\ owner' = c
        BY <1>1, <1>2 DEF Creating
      <3>2. opened'[c] = Len(streams') + Len(backlog') /\ opened'[c] <= NumStreams
        BY <1>3, <1>4, <1>7, <3>1, Numbers
      <3>3. cpc'[c] = IF opened'[c] < NumStreams THEN "ctrl" ELSE "cookie"
        BY <1>3, <1>7, Numbers
      <3> QED BY <3>1, <3>2, <3>3
    <2>2. Own(streams)'
      BY <1>1, <1>2 DEF Creating, Own
    <2> QED BY <1>1, <1>2, <1>4, <1>6, <2>1, <2>2 DEF Creating
  <1> QED BY <1>1, <1>2, <1>5, <1>8 DEF Served

\* The owner's cookies reach all streams, which are all its own.
LEMMA ServedCCookies ==
  ASSUME Served, NEW c \in Clients, CCookies(c)
  PROVE  Served'
  <1>1. /\ Types /\ owner = c /\ cpc[c] = "cookie" /\ sstate \in {"TestStart", "TestRunning"}
        /\ sready' = sready \cup Of(c)
        /\ cpc' = [cpc EXCEPT ![c] = IF sstate = "TestStart" THEN "wait" ELSE "missed"]
        /\ UNCHANGED << sstate, owner, streams, counted, backlog, ledge, opened >>
    BY DEF Served, CCookies, Go
  <1>2. sstate = "TestStart" /\ Started /\ sready = {} /\ counted = 0
    BY <1>1 DEF Served, Started, Running
  <1>3. Of(c) = 1..NumStreams
    BY <1>1, <1>2 DEF Of, Started, Own, Types
  <1>4. Cardinality(sready') = NumStreams /\ sready' = 1..NumStreams
    BY <1>1, <1>2, <1>3, Numbers, FS_Interval
  <1>5. /\ cpc'[c] = "wait" /\ \A d \in Clients : d # c => cpc'[d] = cpc[d]
        /\ cpc' \in [Clients -> {"off", "ctrl", "cookie", "wait", "missed", "send", "done", "failed"}]
    BY <1>1, <1>2 DEF Types
  <1>6. Types'
    BY <1>1, <1>4, <1>5 DEF Types
  <1>7. Started'
    BY <1>1, <1>2, <1>4, <1>5, Numbers DEF Started, Own
  <1> QED BY <1>1, <1>2, <1>6, <1>7 DEF Served

LEMMA ServedCRunning ==
  ASSUME Served, NEW c \in Clients, CRunning(c)
  PROVE  Served'
  <1>1. /\ Types /\ owner = c /\ sstate = "TestRunning"
        /\ cpc' = [cpc EXCEPT ![c] = "send"]
        /\ UNCHANGED << sstate, owner, streams, sready, counted, backlog, ledge, opened >>
    BY DEF Served, CRunning, Go, server
  <1>2. /\ cpc'[c] = "send" /\ \A d \in Clients : d # c => cpc'[d] = cpc[d]
        /\ cpc' \in [Clients -> {"off", "ctrl", "cookie", "wait", "missed", "send", "done", "failed"}]
    BY <1>1 DEF Types
  <1>3. Types'
    BY <1>1, <1>2 DEF Types
  <1> QED BY <1>1, <1>2, <1>3 DEF Served, Running, Own

\* The server starts over with nothing of the test, or of who waited, left.
LEMMA ServedCEnd ==
  ASSUME Served, NEW c \in Clients, CEnd(c)
  PROVE  Served'
  <1>1. /\ Types /\ owner = c /\ cpc[c] = "send"
        /\ sstate' = "Listen" /\ streams' = << >> /\ sready' = {} /\ counted' = 0
        /\ backlog' = << >> /\ ledge' = FALSE /\ opened' = opened
    BY DEF Served, CEnd
  <1>2. sstate = "TestRunning"
    BY <1>1 DEF Types
  <1>3. \A d \in Clients : cpc'[d] = "done" \/ cpc'[d] = "failed" \/ (cpc'[d] = cpc[d] /\ d # c)
    BY DEF CEnd
  <1>4. cpc' \in [Clients -> {"off", "ctrl", "cookie", "wait", "missed", "send", "done", "failed"}]
    <2>1. cpc' = [d \in Clients |-> cpc'[d]]
      BY DEF CEnd
    <2> QED BY <1>1, <1>3, <2>1 DEF Types
  <1>5. \A d \in Clients : d # c => cpc[d] # "send"
    BY <1>1 DEF Types
  <1>6. << >> \in Seq(Connection)
    OBVIOUS
  <1>7. Types'
    BY <1>1, <1>3, <1>4, <1>5, <1>6 DEF Types
  <1> QED BY <1>1, <1>7 DEF Served, Listening, NoStreams

LEMMA ServedSAccept == ASSUME Served, SAccept PROVE Served'
  <1>1. /\ Types /\ Listening /\ backlog # << >>
        /\ sstate = "Listen" /\ sstate' = "Start" /\ owner' = Head(backlog).who
        /\ backlog' = Tail(backlog)
        /\ UNCHANGED << ledge, streams, sready, counted, cpc, opened >>
    BY DEF Served, SAccept
  <1>2. PICK c \in Clients : backlog = << Conn(c, "ctrl") >> /\ cpc[c] = "ctrl" /\ opened[c] = 0
    BY <1>1 DEF Listening
  <1>3. Head(backlog) = Conn(c, "ctrl") /\ Tail(backlog) = << >>
    BY <1>2
  <1>4. owner' = c /\ backlog' = << >>
    BY <1>1, <1>3, ConnType
  <1>5. Starting'
    BY <1>1, <1>2, <1>4 DEF Starting, Listening, NoStreams
  <1>6. backlog' \in Seq(Connection)
    BY <1>1, TailConn DEF Types
  <1>7. Types'
    BY <1>1, <1>6 DEF Types
  <1> QED BY <1>1, <1>5, <1>7 DEF Served

LEMMA ServedSParams == ASSUME Served, SParams PROVE Served'
  <1>1. /\ Types /\ Starting /\ sstate = "Start" /\ sstate' = "CreateStreams"
        /\ ledge' = (backlog # << >>) /\ ledge' \in BOOLEAN
        /\ UNCHANGED << owner, streams, sready, counted, backlog, cpc, opened >>
    BY DEF Served, SParams
  <1>2. Types'
    BY <1>1 DEF Types
  <1>3. Own(streams)' /\ Own(backlog)' /\ Len(streams') = 0 /\ Len(backlog') = 0
    BY <1>1 DEF Starting, NoStreams, Own
  <1>4. Creating'
    <2>1. opened'[owner'] = 0 /\ cpc'[owner'] = "ctrl" /\ ~ledge'
      BY <1>1 DEF Starting
    <2> QED BY <1>1, <1>3, <2>1, Numbers DEF Starting, NoStreams, Creating
  <1> QED BY <1>1, <1>2, <1>4 DEF Served

\* In CreateStreams the connection at the head of the queue is the owner's;
\* in the later states the event is dropped.
LEMMA ServedSListener == ASSUME Served, SListener PROVE Served'
  <1>1. /\ Types /\ ledge /\ ledge' = FALSE
        /\ UNCHANGED << owner, counted, cpc, opened >>
    BY DEF Served, SListener
  <1>2. CASE sstate # "CreateStreams"
    <2>1. UNCHANGED << streams, backlog, sready, sstate >>
      BY <1>2 DEF SListener, Accepts
    <2>2. Types'
      BY <1>1, <2>1 DEF Types
    <2> QED BY <1>1, <1>2, <2>1, <2>2
            DEF Served, Types, Listening, Starting, Started, Running, NoStreams, Own
  <1>3. CASE sstate = "CreateStreams"
    <2>1. /\ streams' = Append(streams, Head(backlog)) /\ backlog' = Tail(backlog)
          /\ sready' = IF Head(backlog).kind = "ctrl" THEN sready \cup {Len(streams')} ELSE sready
          /\ sstate' = IF Len(streams') = NumStreams THEN "TestStart" ELSE sstate
      BY <1>3 DEF SListener, Accepts
    <2>2. Creating /\ backlog # << >> /\ backlog \in Seq(Connection) /\ streams \in Seq(Connection)
      BY <1>1, <1>3 DEF Served, Creating, Types
    <2>3. /\ Head(backlog) = Conn(owner, "data") /\ owner \in Clients
          /\ Own(Tail(backlog)) /\ Own(Append(streams, Conn(owner, "data")))
      BY <2>2, OwnTail, OwnAppend DEF Creating
    <2>4. sready' = {}
      BY <2>1, <2>2, <2>3, ConnType DEF Creating
    <2>5. /\ streams' \in Seq(Connection) /\ backlog' \in Seq(Connection)
          /\ Len(streams') = Len(streams) + 1 /\ Len(streams) \in Nat
          /\ Len(backlog') = Len(backlog) - 1 /\ Len(backlog) \in Nat /\ Len(backlog) > 0
      BY <2>1, <2>2, <2>3, AppendConn, TailConn, ConnType
    <2>6. Own(streams)' /\ Own(backlog)'
      BY <1>1, <2>1, <2>3 DEF Own
    <2>7. sstate' \in {"CreateStreams", "TestStart"}
      BY <1>3, <2>1
    <2>8. \A c \in Clients : cpc[c] # "send"
      BY <1>1, <1>3 DEF Types
    <2>9. Types'
      BY <1>1, <2>4, <2>5, <2>7, <2>8 DEF Types
    <2>10. opened[owner] = Len(streams') + Len(backlog')
      BY <2>2, <2>5 DEF Creating
    <2>11. CASE Len(streams') = NumStreams
      <3>1. sstate' = "TestStart" /\ opened[owner] = NumStreams
        BY <2>1, <2>2, <2>5, <2>10, <2>11, Numbers DEF Creating
      <3>2. cpc[owner] = "cookie"
        BY <2>2, <3>1, Numbers DEF Creating
      <3>3. Started'
        BY <1>1, <2>2, <2>4, <2>6, <2>11, <3>2 DEF Creating, Started
      <3> QED BY <2>9, <3>1, <3>3 DEF Served
    <2>12. CASE Len(streams') # NumStreams
      <3>1. sstate' = "CreateStreams" /\ Len(streams') < NumStreams
        BY <1>3, <2>1, <2>2, <2>5, <2>12, Numbers DEF Creating
      <3>2. Creating'
        BY <1>1, <2>2, <2>4, <2>6, <2>10, <3>1 DEF Creating
      <3> QED BY <2>9, <3>1, <3>2 DEF Served
    <2> QED BY <2>11, <2>12
  <1> QED BY <1>2, <1>3

\* A stream's event counts the cookie it stands for; the last one leaves none.
LEMMA ServedSStream ==
  ASSUME Served, NEW s \in 1..NumStreams, SStream(s)
  PROVE  Served'
  <1>1. /\ Types /\ s \in sready /\ sready' = sready \ {s}
        /\ UNCHANGED << owner, streams, backlog, ledge, cpc, opened >>
    BY DEF Served, SStream
  <1>2. sstate = "TestStart" /\ Started
    BY <1>1 DEF Served, Types, Listening, Starting, NoStreams, Creating, Running
  <1>3. /\ cpc[owner] = "wait" /\ counted \in Nat /\ sready \subseteq 1..NumStreams
        /\ counted + Cardinality(sready) = NumStreams /\ counted < NumStreams
    BY <1>1, <1>2 DEF Started, Types
  <1>4. counted' = counted + 1 /\ sstate' = IF counted + 1 = NumStreams THEN "TestRunning" ELSE "TestStart"
    BY <1>2 DEF SStream, LastCookie
  <1>5. /\ IsFiniteSet(sready) /\ IsFiniteSet(sready')
        /\ Cardinality(sready) \in Nat /\ Cardinality(sready') = Cardinality(sready) - 1
    <2>1. IsFiniteSet(1..NumStreams)
      BY Numbers, FS_Interval
    <2>2. IsFiniteSet(sready)
      BY <1>3, <2>1, FS_Subset
    <2> QED BY <1>1, <2>2, FS_RemoveElement, FS_CardinalityType
  <1>6. \A c \in Clients : cpc[c] # "send"
    BY <1>1, <1>2 DEF Types
  <1>7. Types'
    BY <1>1, <1>3, <1>4, <1>6 DEF Types
  <1>8. Own(streams)'
    BY <1>1, <1>2 DEF Started, Own
  <1>9. CASE counted + 1 = NumStreams
    <2>1. Cardinality(sready') = 0
      BY <1>3, <1>5, <1>9, Numbers
    <2>2. sready' = {}
      BY <1>5, <2>1, FS_EmptySet
    <2> QED BY <1>1, <1>2, <1>3, <1>4, <1>7, <1>8, <1>9, <2>2 DEF Served, Started, Running
  <1>10. CASE counted + 1 # NumStreams
    <2>1. counted' + Cardinality(sready') = NumStreams /\ counted' < NumStreams
      BY <1>3, <1>4, <1>5, <1>10, Numbers
    <2> QED BY <1>1, <1>2, <1>3, <1>4, <1>7, <1>8, <1>10, <2>1 DEF Served, Started
  <1> QED BY <1>9, <1>10

LEMMA ServedNext == ASSUME Apart PROVE Served /\ [Next]_vars => Served'
  <1> SUFFICES ASSUME Served, [Next]_vars PROVE Served'
    OBVIOUS
  <1>1. CASE Server
    BY <1>1, ServedSAccept, ServedSParams, ServedSListener, ServedSStream DEF Server
  <1>2. ASSUME NEW c \in Clients, Client(c) PROVE Served'
    BY <1>2, ServedCStart, ServedCConnect, ServedCCookies, ServedCRunning, ServedCEnd DEF Client
  <1>3. CASE Over \/ UNCHANGED vars
    <2>1. UNCHANGED vars
      BY <1>3 DEF Over
    <2>2. Types'
      BY <2>1 DEF vars, Served, Types
    <2>3. Own(streams)' = Own(streams) /\ Own(backlog)' = Own(backlog)
      BY <2>1 DEF vars, Own
    <2> QED BY <2>1, <2>2, <2>3
            DEF vars, Served, Listening, Starting, Creating, Started, Running, NoStreams
  <1> QED BY <1>1, <1>2, <1>3 DEF Next

-----------------------------------------------------------------------------
\* Of clients that keep apart none gets a stream of another, for any number
\* of clients and streams.
THEOREM StreamsAreOwn == ASSUME Apart PROVE Spec => []OwnStreams
  <1>1. Served => OwnStreams
    BY DEF Served, Types, Listening, Starting, Creating, Started, Running, NoStreams, Own, OwnStreams
  <1> QED BY <1>1, ServedInit, ServedNext, PTL DEF Spec

\* Their tests run only when the cookie of every stream was counted, and
\* their client waits for the announcement: it does not drain it with another.
THEOREM CookiesAllCounted == ASSUME Apart PROVE Spec => []AllCookies
  <1>1. Served => AllCookies
    BY DEF Served, Running, AllCookies
  <1> QED BY <1>1, ServedInit, ServedNext, PTL DEF Spec
=============================================================================
