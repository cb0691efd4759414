------------------------- MODULE QuicStreamsProofs -------------------------
(***************************************************************************)
(* A QUIC test, proved for every number of streams and blocks: its types,  *)
(* the order of its streams and, when the test is a plain one, a complete  *)
(* count and no connection that times out.  Only the last of these looks   *)
(* at when time may pass.                                                  *)
(***************************************************************************)
EXTENDS QuicStreams, WellFoundedInduction, TLAPS

\* What the client has written by its place in its loops.
Sending ==
  /\ cidx <= num_streams
  /\ \A i \in Streams : i > num_streams => written[i] = 0
  /\ \A i \in 1..num_streams :
       /\ cpc = "connect" => written[i] = IF i < cidx THEN 2 ELSE 0
       /\ cpc = "shake" => written[i] = IF i < cidx THEN 2 ELSE IF i = cidx THEN 1 ELSE 0
       /\ cpc = "announced" => cidx = 1 /\ written[i] = 2
       /\ cpc \in {"sleep", "cookie"} => written[i] = IF i < cidx THEN 3 ELSE 2
       /\ cpc = "wait" => cidx = 1 /\ written[i] = 3
       /\ cpc = "send" => written[i] >= 3

\* The end of a stream is sent once, in the order of the streams.
Ending ==
  \A i \in Streams :
    /\ fin[i] => written[i] >= 1
    /\ ~fin[i] => written[i] <= 3 + MaxData
    /\ fin[i] => \/ cpc \in {"ended", "panic"}
                 \/ cpc = "next" /\ i < cidx
                 \/ cpc = "finish" /\ i <= cidx

\* Nothing arrives that was not written, and a known connection has written.
Flow ==
  \A i \in Streams :
    /\ arrived[i] <= written[i]
    /\ \A e \in Streams : insock[e][i] <= written[i]
    /\ home[i] # 0 => written[i] > 0

\* Endpoints are bound one by one, and only bound ones have anything.
Endpoints ==
  /\ nstreams <= num_streams
  /\ nsock = IF nstreams < num_streams THEN nstreams + 1 ELSE nstreams
  /\ sstate = "CreateStreams" <=> nstreams < num_streams
  /\ \A e \in Streams : e > nsock => ~ready[e] /\ e \notin batch /\ \A i \in Streams : insock[e][i] = 0
  /\ \A i \in Streams : home[i] <= nsock

\* The server's awaits belong to its states.
Awaits ==
  /\ spc = "accept" => sstate = "CreateStreams"
  /\ spc = "cookie" => sstate = "TestStart"
  /\ spc = "read" => sstate = "TestRunning"
  /\ spc \in {"cookie", "read"} => sidx <= nstreams
  /\ sstate = "CreateStreams" => cookie_count = 0
  /\ sstate = "TestStart" => cookie_count < num_streams
  /\ cookie_count <= num_streams

\* A stream's connection lives on the stream's endpoint.
Connections ==
  \A s \in 1..nstreams : conn[s] \in Streams /\ home[conn[s]] = s

Setup == TypeOK /\ Sending /\ Ending /\ Flow /\ Endpoints /\ Awaits /\ Connections

-----------------------------------------------------------------------------
(* A plain test. *)

\* The stream's event is in the batch.
Noticed == batch = {1}

\* Nothing but the cookie has been received, and a newer datagram is ready.
Fresh ==
  /\ arrived[1] = 3 /\ taken[1] = 3
  /\ insock[1][1] > 3 => ready[1]

\* Everything up to the end of the stream is counted.
Complete == fin[1] /\ arrived[1] = written[1] /\ taken[1] = written[1] - 1

\* The connection was lost before the client could end the test.
Broken == lost[1] /\ cpc # "ended"

Counting ==
  /\ sstate \in {"CreateStreams", "TestStart"} =>
       /\ cpc \notin {"send", "next", "finish", "ended"}
       /\ \A i \in Streams : written[i] <= 3
  /\ cpc # "next"
  /\ cpc \in {"finish", "ended"} => fin[1] /\ written[1] > 4
  /\ cpc = "ended" => arrived[1] = written[1]
  /\ sstate = "TestRunning" /\ spc = "poll" => Noticed \/ Fresh \/ Complete \/ Broken
  /\ sstate = "TestEnd" => Complete

PlainCounting == Plain => Counting

-----------------------------------------------------------------------------
LEMMA Numbers ==
  /\ MaxStreams \in Nat /\ MaxStreams > 0 /\ MaxData \in Nat /\ MaxAcks \in Nat
  /\ Streams = 1..MaxStreams /\ 1 \in Streams
  BY QuicAssumption DEF Streams

\* The smallest of some connections is one of them.
LEMMA MinMember ==
  ASSUME NEW S \in SUBSET Streams, S # {}
  PROVE  Min(S) \in S
  <1> DEFINE R == OpToRel(<, Nat)
  <1>1. S \subseteq Nat
    BY Numbers
  <1>2. PICK x \in S : \A y \in S : ~(<< y, x >> \in R)
    <2>1. IsWellFoundedOn(R, Nat)
      BY NatLessThanWellFounded
    <2> HIDE DEF R
    <2> QED BY <1>1, <2>1, WFMin
  <1>3. \A y \in S : ~(y < x)
    BY <1>1, <1>2 DEF OpToRel
  <1>4. \A y \in S : x =< y
    BY <1>1, <1>3
  <1> QED BY <1>4 DEF Min

\* The numbers a connection has.
LEMMA Values ==
  ASSUME TypeOK, NEW i \in Streams
  PROVE  /\ written[i] \in Nat /\ arrived[i] \in Nat /\ taken[i] \in Nat /\ home[i] \in Nat
         /\ \A e \in Streams : insock[e][i] \in Nat
  <1> DEFINE Span == 0..(4 + MaxData)
  <1>1. Span \subseteq Nat /\ 0..(3 + MaxData) \subseteq Nat /\ 0..MaxStreams \subseteq Nat
    BY Numbers
  <1>2. written[i] \in Span /\ arrived[i] \in Span
    BY DEF TypeOK
  <1>3. taken[i] \in 0..(3 + MaxData) /\ home[i] \in 0..MaxStreams
    BY DEF TypeOK
  <1>4. \A e \in Streams : insock[e][i] \in Span
    BY DEF TypeOK
  <1> HIDE DEF Span
  <1> QED BY <1>1, <1>2, <1>3, <1>4

LEMMA SetupInit == Init => Setup
  <1> SUFFICES ASSUME Init PROVE Setup
    OBVIOUS
  <1> USE Numbers DEF Init
  <1>1. TypeOK
    <2>1. ready \in [Streams -> BOOLEAN] /\ fin \in [Streams -> BOOLEAN]
      OBVIOUS
    <2>2. dropped \in [Streams -> BOOLEAN] /\ lost \in [Streams -> BOOLEAN]
      OBVIOUS
    <2>3. insock \in [Streams -> [Streams -> 0..(4 + MaxData)]]
      OBVIOUS
    <2>4. idle \in [Streams -> 0..(max_idle_timeout + 1)]
      BY DEF max_idle_timeout
    <2>5. /\ written \in [Streams -> 0..(4 + MaxData)] /\ arrived \in [Streams -> 0..(4 + MaxData)]
          /\ taken \in [Streams -> 0..(3 + MaxData)]
      OBVIOUS
    <2> QED BY <2>1, <2>2, <2>3, <2>4, <2>5 DEF TypeOK
  <1>2. Sending /\ Ending
    BY DEF Sending, Ending
  <1>3. Flow
    BY DEF Flow
  <1>4. Endpoints
    BY DEF Endpoints
  <1>5. Awaits /\ Connections
    BY DEF Awaits, Connections
  <1> QED BY <1>1, <1>2, <1>3, <1>4, <1>5 DEF Setup

CPlaces == {"connect", "shake", "announced", "sleep", "cookie", "wait", "send",
            "next", "finish", "ended", "panic"}

\* The client's steps leave the server and quinn alone and take nothing back.
LEMMA SetupClient ==
  ASSUME Setup, UNCHANGED << test, svars, ready, taken, arrived, home, insock, lost, acks >>,
         dropped' \in [Streams -> BOOLEAN], idle' \in [Streams -> 0..(max_idle_timeout + 1)],
         cpc' \in CPlaces, cidx' \in Streams, written' \in [Streams -> 0..(4 + MaxData)],
         fin' \in [Streams -> BOOLEAN], \A i \in Streams : written'[i] >= written[i],
         Sending', Ending'
  PROVE  Setup'
  <1>1. TypeOK'
    BY DEF Setup, TypeOK, CPlaces, test, svars
  <1>2. Flow'
    <2>1. \A i \in Streams : /\ written[i] \in Nat /\ written'[i] \in Nat /\ arrived[i] \in Nat
                             /\ \A e \in Streams : insock[e][i] \in Nat
      <3>1. \A i \in Streams : written'[i] \in Nat
        BY Numbers
      <3> QED BY <3>1, Values DEF Setup
    <2> QED BY <2>1 DEF Setup, Flow
  <1>3. Endpoints' /\ Awaits' /\ Connections'
    BY DEF Setup, Endpoints, Awaits, Connections, test, svars
  <1> QED BY <1>1, <1>2, <1>3 DEF Setup

\* One more of the sequence of the client's current connection.
LEMMA SendsFacts ==
  ASSUME Setup, Sends(cidx), written[cidx] <= 3 + MaxData, NEW c \in Streams, c = cidx
  PROVE  /\ written'[c] = written[c] + 1 /\ written[c] \in Nat
         /\ \A i \in Streams : i # c => written'[i] = written[i]
         /\ \A i \in Streams : written'[i] >= written[i]
         /\ written' \in [Streams -> 0..(4 + MaxData)]
  <1>1. written \in [Streams -> 0..(4 + MaxData)] /\ MaxData \in Nat
    BY Numbers DEF Setup, TypeOK
  <1>2. written'[c] = written[c] + 1 /\ \A i \in Streams : i # c => written'[i] = written[i]
    BY <1>1 DEF Sends
  <1>3. written[c] + 1 \in 0..(4 + MaxData)
    BY <1>1
  <1>4. written' \in [Streams -> 0..(4 + MaxData)]
    BY <1>1, <1>3 DEF Sends
  <1>5. \A i \in Streams : written'[i] >= written[i]
    BY <1>1, <1>2
  <1> QED BY <1>1, <1>2, <1>4, <1>5

LEMMA SetupCConnect == ASSUME Setup, CConnect PROVE Setup'
  <1>1. PICK c \in Streams : c = cidx
    BY DEF Setup, TypeOK
  <1>2. /\ cpc = "connect" /\ cpc' = "shake" /\ Sends(cidx)
        /\ UNCHANGED << test, svars, ready, taken, cidx, fin, qvars >>
    BY DEF CConnect
  <1>3. c <= num_streams /\ num_streams \in Streams /\ c \in 1..num_streams
    BY <1>1, Numbers DEF Setup, Sending, TypeOK
  <1>4. written[c] = 0
    BY <1>1, <1>2, <1>3 DEF Setup, Sending
  <1>5. /\ written'[c] = 1 /\ \A i \in Streams : i # c => written'[i] = written[i]
        /\ \A i \in Streams : written'[i] >= written[i]
        /\ written' \in [Streams -> 0..(4 + MaxData)]
    BY <1>1, <1>2, <1>4, SendsFacts, Numbers
  <1>6. Sending'
    <2>1. \A i \in 1..num_streams : i \in Streams /\ written[i] = IF i < c THEN 2 ELSE 0
      BY <1>1, <1>2, <1>3, Numbers DEF Setup, Sending
    <2>2. \A i \in 1..num_streams : written'[i] = IF i < c THEN 2 ELSE IF i = c THEN 1 ELSE 0
      BY <1>3, <1>5, <2>1, Numbers
    <2>3. \A i \in Streams : i > num_streams => written'[i] = 0
      BY <1>3, <1>5, Numbers DEF Setup, Sending
    <2> QED BY <1>1, <1>2, <1>3, <2>2, <2>3 DEF Sending, test
  <1>7. Ending'
    BY <1>1, <1>2, <1>5, Numbers DEF Setup, Ending
  <1> QED BY <1>1, <1>2, <1>5, <1>6, <1>7, SetupClient DEF qvars, CPlaces, Setup, TypeOK

LEMMA SetupCConnected == ASSUME Setup, CConnected PROVE Setup'
  <1>1. PICK c \in Streams : c = cidx
    BY DEF Setup, TypeOK
  <1>2. /\ cpc = "shake" /\ Sends(cidx) /\ Then("connect", "announced")
        /\ UNCHANGED << test, svars, ready, taken, fin, qvars >>
    BY DEF CConnected
  <1>3. c <= num_streams /\ num_streams \in Streams /\ c \in 1..num_streams
    BY <1>1, Numbers DEF Setup, Sending, TypeOK
  <1>4. written[c] = 1
    BY <1>1, <1>2, <1>3 DEF Setup, Sending
  <1>5. /\ written'[c] = 2 /\ \A i \in Streams : i # c => written'[i] = written[i]
        /\ \A i \in Streams : written'[i] >= written[i]
        /\ written' \in [Streams -> 0..(4 + MaxData)]
    BY <1>1, <1>2, <1>4, SendsFacts, Numbers
  <1>6. \/ c < num_streams /\ cpc' = "connect" /\ cidx' = c + 1
        \/ c = num_streams /\ cpc' = "announced" /\ cidx' = 1
    BY <1>1, <1>2, <1>3, Numbers DEF Then
  <1>7. cidx' \in Streams
    BY <1>3, <1>6, Numbers
  <1>8. Sending'
    <2>1. \A i \in 1..num_streams : i \in Streams /\ i \in Nat /\ written[i] = IF i < c THEN 2 ELSE (IF i = c THEN 1 ELSE 0)
      BY <1>1, <1>2, <1>3, Numbers DEF Setup, Sending
    <2>2. \A i \in 1..num_streams : written'[i] = IF i <= c THEN 2 ELSE 0
      BY <1>3, <1>5, <2>1, Numbers
    <2>3. \A i \in Streams : i > num_streams => written'[i] = 0
      BY <1>3, <1>5, Numbers DEF Setup, Sending
    <2>4. CASE c < num_streams /\ cpc' = "connect" /\ cidx' = c + 1
      <3>1. \A i \in 1..num_streams : i <= c <=> i < cidx'
        BY <1>3, <2>4, Numbers
      <3>2. cidx' <= num_streams
        BY <1>3, <2>4, Numbers
      <3> QED BY <1>2, <2>2, <2>3, <2>4, <3>1, <3>2 DEF Sending, test
    <2>5. CASE c = num_streams /\ cpc' = "announced" /\ cidx' = 1
      <3>1. \A i \in 1..num_streams : written'[i] = 2
        BY <1>3, <2>2, <2>5, Numbers
      <3>2. cidx' <= num_streams
        BY <1>3, <2>5, Numbers
      <3> QED BY <1>2, <2>3, <2>5, <3>1, <3>2 DEF Sending, test
    <2> QED BY <1>6, <2>4, <2>5
  <1>9. Ending'
    BY <1>1, <1>2, <1>5, Numbers DEF Setup, Ending
  <1> QED BY <1>2, <1>5, <1>6, <1>7, <1>8, <1>9, SetupClient DEF qvars, CPlaces, Setup, TypeOK

LEMMA SetupCCookie == ASSUME Setup, CCookie PROVE Setup'
  <1>1. PICK c \in Streams : c = cidx
    BY DEF Setup, TypeOK
  <1>2. /\ cpc = "cookie" /\ Sends(cidx) /\ Then("sleep", "wait")
        /\ UNCHANGED << test, svars, ready, taken, fin, qvars >>
    BY DEF CCookie
  <1>3. c <= num_streams /\ num_streams \in Streams /\ c \in 1..num_streams
    BY <1>1, Numbers DEF Setup, Sending, TypeOK
  <1>4. written[c] = 2
    BY <1>1, <1>2, <1>3 DEF Setup, Sending
  <1>5. /\ written'[c] = 3 /\ \A i \in Streams : i # c => written'[i] = written[i]
        /\ \A i \in Streams : written'[i] >= written[i]
        /\ written' \in [Streams -> 0..(4 + MaxData)]
    BY <1>1, <1>2, <1>4, SendsFacts, Numbers
  <1>6. \/ c < num_streams /\ cpc' = "sleep" /\ cidx' = c + 1
        \/ c = num_streams /\ cpc' = "wait" /\ cidx' = 1
    BY <1>1, <1>2, <1>3, Numbers DEF Then
  <1>7. cidx' \in Streams
    BY <1>3, <1>6, Numbers
  <1>8. Sending'
    <2>1. \A i \in 1..num_streams : i \in Streams /\ i \in Nat /\ written[i] = IF i < c THEN 3 ELSE 2
      BY <1>1, <1>2, <1>3, Numbers DEF Setup, Sending
    <2>2. \A i \in 1..num_streams : written'[i] = IF i <= c THEN 3 ELSE 2
      BY <1>3, <1>5, <2>1, Numbers
    <2>3. \A i \in Streams : i > num_streams => written'[i] = 0
      BY <1>3, <1>5, Numbers DEF Setup, Sending
    <2>4. CASE c < num_streams /\ cpc' = "sleep" /\ cidx' = c + 1
      <3>1. \A i \in 1..num_streams : i <= c <=> i < cidx'
        BY <1>3, <2>4, Numbers
      <3>2. cidx' <= num_streams
        BY <1>3, <2>4, Numbers
      <3> QED BY <1>2, <2>2, <2>3, <2>4, <3>1, <3>2 DEF Sending, test
    <2>5. CASE c = num_streams /\ cpc' = "wait" /\ cidx' = 1
      <3>1. \A i \in 1..num_streams : written'[i] = 3
        BY <1>3, <2>2, <2>5, Numbers
      <3>2. cidx' <= num_streams
        BY <1>3, <2>5, Numbers
      <3> QED BY <1>2, <2>3, <2>5, <3>1, <3>2 DEF Sending, test
    <2> QED BY <1>6, <2>4, <2>5
  <1>9. Ending'
    BY <1>1, <1>2, <1>5, Numbers DEF Setup, Ending
  <1> QED BY <1>2, <1>5, <1>6, <1>7, <1>8, <1>9, SetupClient DEF qvars, CPlaces, Setup, TypeOK

LEMMA SetupCWrite == ASSUME Setup, CWrite PROVE Setup'
  <1>1. PICK c \in Streams : c = cidx
    BY DEF Setup, TypeOK
  <1>2. /\ cpc = "send" /\ cpc' = "send" /\ Sends(cidx) /\ written[cidx] < 3 + MaxData
        /\ cidx' = IF cidx < num_streams THEN cidx + 1 ELSE 1
        /\ UNCHANGED << test, svars, ready, taken, fin, qvars >>
    BY DEF CWrite
  <1>3. c <= num_streams /\ num_streams \in Streams /\ c \in 1..num_streams
    BY <1>1, Numbers DEF Setup, Sending, TypeOK
  <1>4. written[c] \in Nat /\ written[c] <= 3 + MaxData
    BY <1>1, <1>2, Values, Numbers DEF Setup
  <1>5. /\ written'[c] = written[c] + 1 /\ \A i \in Streams : i # c => written'[i] = written[i]
        /\ \A i \in Streams : written'[i] >= written[i]
        /\ written' \in [Streams -> 0..(4 + MaxData)]
    BY <1>1, <1>2, <1>4, SendsFacts
  <1>6. cidx' \in Streams /\ cidx' <= num_streams
    BY <1>1, <1>2, <1>3, Numbers
  <1>7. Sending'
    <2>1. \A i \in 1..num_streams : written[i] >= 3 /\ i \in Streams
      BY <1>2, <1>3, Numbers DEF Setup, Sending
    <2>2. \A i \in 1..num_streams : written'[i] >= 3
      BY <1>4, <1>5, <2>1
    <2>3. \A i \in Streams : i > num_streams => written'[i] = 0
      BY <1>3, <1>5, Numbers DEF Setup, Sending
    <2> QED BY <1>2, <1>6, <2>2, <2>3 DEF Sending, test
  <1>8. Ending'
    BY <1>1, <1>2, <1>4, <1>5, Numbers DEF Setup, Ending
  <1> QED BY <1>2, <1>5, <1>6, <1>7, <1>8, SetupClient DEF qvars, CPlaces, Setup, TypeOK

LEMMA SetupCFinish == ASSUME Setup, CFinish PROVE Setup'
  <1>1. PICK c \in Streams : c = cidx
    BY DEF Setup, TypeOK
  <1>2. /\ cpc \in {"send", "next"} /\ cpc' = "finish" /\ Sends(cidx)
        /\ fin' = [fin EXCEPT ![cidx] = TRUE]
        /\ UNCHANGED << test, svars, ready, taken, cidx, qvars >>
    BY DEF CFinish
  <1>3. c <= num_streams /\ num_streams \in Streams /\ c \in 1..num_streams
    BY <1>1, Numbers DEF Setup, Sending, TypeOK
  <1>4. ~fin[c] /\ written[c] \in Nat /\ written[c] <= 3 + MaxData
    <2>1. ~fin[c]
      BY <1>1, <1>2, Numbers DEF Setup, Ending
    <2> QED BY <1>1, <2>1, Values DEF Setup, Ending
  <1>5. /\ written'[c] = written[c] + 1 /\ \A i \in Streams : i # c => written'[i] = written[i]
        /\ \A i \in Streams : written'[i] >= written[i]
        /\ written' \in [Streams -> 0..(4 + MaxData)]
    BY <1>1, <1>2, <1>4, SendsFacts
  <1>6. /\ fin' \in [Streams -> BOOLEAN] /\ fin'[c]
        /\ \A i \in Streams : i # c => fin'[i] = fin[i]
    BY <1>1, <1>2 DEF Setup, TypeOK
  <1>7. Sending'
    BY <1>1, <1>2, <1>3, <1>5, Numbers DEF Setup, Sending, test
  <1>8. Ending'
    BY <1>1, <1>2, <1>4, <1>5, <1>6, Numbers DEF Setup, Ending
  <1> QED BY <1>1, <1>2, <1>5, <1>6, <1>7, <1>8, SetupClient DEF qvars, CPlaces, Setup, TypeOK

LEMMA SetupCFinished == ASSUME Setup, CFinished PROVE Setup'
  <1>1. PICK c \in Streams : c = cidx
    BY DEF Setup, TypeOK
  <1>2. /\ cpc = "finish" /\ Then("next", "ended")
        /\ UNCHANGED << test, svars, ready, taken, written, fin, qvars >>
    BY DEF CFinished
  <1>3. c <= num_streams /\ num_streams \in Streams /\ c \in 1..num_streams
    BY <1>1, Numbers DEF Setup, Sending, TypeOK
  <1>4. \/ c < num_streams /\ cpc' = "next" /\ cidx' = c + 1
        \/ c = num_streams /\ cpc' = "ended" /\ cidx' = 1
    BY <1>1, <1>2, <1>3, Numbers DEF Then
  <1>5. cidx' \in Streams
    BY <1>3, <1>4, Numbers
  <1>6. Sending'
    BY <1>2, <1>3, <1>4, Numbers DEF Setup, Sending, test
  <1>7. Ending'
    BY <1>1, <1>2, <1>4, Numbers DEF Setup, Ending
  <1>8. \A i \in Streams : written'[i] >= written[i]
    BY <1>2, Numbers DEF Setup, TypeOK
  <1> QED BY <1>2, <1>4, <1>5, <1>6, <1>7, <1>8, SetupClient DEF qvars, CPlaces, Setup, TypeOK

\* The steps in which the client only changes its place.
LEMMA SetupCPlace == ASSUME Setup, CTestStart \/ CRunning \/ CPanics PROVE Setup'
  <1>1. /\ UNCHANGED << test, svars, ready, taken, cidx, written, fin, qvars >>
        /\ \/ cpc = "announced" /\ cpc' = "sleep"
           \/ cpc = "wait" /\ cpc' = "send"
           \/ cpc' = "panic"
    BY DEF CTestStart, CRunning, CPanics
  <1>2. num_streams \in Streams /\ \A i \in Streams : written'[i] >= written[i]
    BY <1>1, Numbers DEF Setup, TypeOK
  <1>3. Sending'
    BY <1>1, <1>2, Numbers DEF Setup, Sending, test
  <1>4. Ending'
    BY <1>1 DEF Setup, Ending
  <1> QED BY <1>1, <1>2, <1>3, <1>4, SetupClient DEF qvars, CPlaces, Setup, TypeOK

LEMMA SetupTick == ASSUME Setup, Tick PROVE Setup'
  <1>1. /\ \A i \in Streams : idle[i] <= max_idle_timeout
        /\ cpc' = IF cpc = "sleep" THEN "cookie" ELSE cpc
        /\ idle' = [i \in Streams |-> IF written[i] > 0 /\ ~lost[i] THEN idle[i] + 1 ELSE 0]
        /\ dropped' = [i \in Streams |-> FALSE]
        /\ UNCHANGED << test, svars, ready, taken, cidx, written, fin, arrived, home, insock, lost, acks >>
    BY DEF Tick
  <1>2. idle' \in [Streams -> 0..(max_idle_timeout + 1)]
    BY <1>1 DEF Setup, TypeOK, max_idle_timeout
  <1>3. dropped' \in [Streams -> BOOLEAN]
    BY <1>1
  <1>4. num_streams \in Streams /\ cpc \in CPlaces /\ \A i \in Streams : written'[i] >= written[i]
    BY <1>1, Numbers DEF Setup, TypeOK, CPlaces
  <1>5. cpc' \in CPlaces /\ (cpc' = cpc \/ (cpc = "sleep" /\ cpc' = "cookie"))
    BY <1>1, <1>4 DEF CPlaces
  <1>6. Sending'
    BY <1>1, <1>5 DEF Setup, Sending, test
  <1>7. Ending'
    BY <1>1, <1>5 DEF Setup, Ending
  <1> QED BY <1>1, <1>2, <1>3, <1>4, <1>5, <1>6, <1>7, SetupClient DEF Setup, TypeOK

-----------------------------------------------------------------------------
(* The server's steps. *)

\* They leave the client and quinn alone.
LEMMA SetupServer ==
  ASSUME Setup, UNCHANGED << test, cvars, qvars >>,
         sstate' \in {"CreateStreams", "TestStart", "TestRunning", "TestEnd"},
         spc' \in {"poll", "accept", "cookie", "read", "panic"}, sidx' \in Streams,
         nstreams' \in 0..MaxStreams, nsock' \in Streams, cookie_count' \in 0..MaxStreams,
         conn' \in [Streams -> 0..MaxStreams], ready' \in [Streams -> BOOLEAN],
         batch' \subseteq Streams, taken' \in [Streams -> 0..(3 + MaxData)],
         Endpoints', Awaits', Connections'
  PROVE  Setup'
  <1>1. TypeOK'
    BY DEF Setup, TypeOK, test, cvars, qvars
  <1>2. Sending' /\ Ending' /\ Flow'
    BY DEF Setup, Sending, Ending, Flow, test, cvars, qvars
  <1> QED BY <1>1, <1>2 DEF Setup

LEMMA SetupSPoll == ASSUME Setup, SPoll PROVE Setup'
  <1>1. /\ spc = "poll" /\ batch' = {e \in Streams : ready[e] /\ Pending(e)}
        /\ ready' = [e \in Streams |-> FALSE]
        /\ UNCHANGED << test, sstate, spc, sidx, nstreams, nsock, conn, cookie_count, taken, cvars, qvars >>
    BY DEF SPoll
  <1>2. ready' \in [Streams -> BOOLEAN] /\ batch' \subseteq Streams
    BY <1>1
  <1>3. Endpoints'
    BY <1>1 DEF Setup, Endpoints, test, qvars
  <1>4. Awaits' /\ Connections'
    BY <1>1 DEF Setup, Awaits, Connections, test, qvars
  <1> QED BY <1>1, <1>2, <1>3, <1>4, SetupServer DEF Setup, TypeOK

LEMMA SetupSListener ==
  ASSUME Setup, NEW e \in Streams, SListener(e)
  PROVE  Setup'
  <1>1. /\ spc = "poll" /\ e \in batch /\ e > nstreams /\ spc' = "accept" /\ batch' = {}
        /\ UNCHANGED << test, sstate, sidx, nstreams, nsock, conn, cookie_count, ready, taken, cvars, qvars >>
    BY DEF SListener
  <1>2. nstreams \in Nat /\ nsock \in Nat /\ num_streams \in Nat /\ e \in Nat
    BY Numbers DEF Setup, TypeOK
  <1>3. sstate = "CreateStreams"
    BY <1>1, <1>2 DEF Setup, Endpoints
  <1>4. Endpoints'
    BY <1>1 DEF Setup, Endpoints, test, qvars
  <1>5. Awaits' /\ Connections'
    BY <1>1, <1>3 DEF Setup, Awaits, Connections, test, qvars
  <1> QED BY <1>1, <1>4, <1>5, SetupServer DEF Setup, TypeOK

LEMMA SetupSAccepted == ASSUME Setup, SAccepted PROVE Setup'
  <1>1. PICK i \in Streams : i = Min(Incoming) /\ home[i] = nsock
    <2>1. Incoming \in SUBSET Streams /\ Incoming # {}
      BY DEF SAccepted, Incoming
    <2>2. Min(Incoming) \in Incoming
      BY <2>1, MinMember
    <2> QED BY <2>1, <2>2 DEF Incoming
  <1>2. /\ spc = "accept" /\ conn' = [conn EXCEPT ![nsock] = i]
        /\ ready' = [ready EXCEPT ![nsock] = Pending(nsock)]
        /\ nstreams' = nstreams + 1 /\ nsock' = IF NeedsSocket(nstreams') THEN nsock + 1 ELSE nsock
        /\ sstate' = IF nstreams' = num_streams THEN "TestStart" ELSE sstate
        /\ spc' = "poll"
        /\ UNCHANGED << test, sidx, batch, cookie_count, taken, cvars, qvars >>
    BY <1>1 DEF SAccepted
  <1>3. /\ sstate = "CreateStreams" /\ cookie_count = 0
        /\ nstreams \in Nat /\ num_streams \in 1..MaxStreams /\ num_streams \in Nat
        /\ nstreams < num_streams /\ nsock = nstreams + 1
    BY <1>2, Numbers DEF Setup, TypeOK, Awaits, Endpoints
  <1>4. nsock \in Streams /\ nstreams' = nsock /\ nsock <= num_streams /\ nsock \in Nat
    BY <1>2, <1>3, Numbers DEF Setup, TypeOK
  <1>5. nsock' = (IF nsock < num_streams THEN nsock + 1 ELSE nsock) /\ nsock' \in Streams
    BY <1>2, <1>3, <1>4, Numbers DEF NeedsSocket
  <1>6. conn' \in [Streams -> 0..MaxStreams] /\ ready' \in [Streams -> BOOLEAN]
    <2>1. i \in 0..MaxStreams /\ Pending(nsock) \in BOOLEAN
      BY Numbers DEF Pending
    <2> QED BY <1>2, <2>1 DEF Setup, TypeOK
  <1>7. Endpoints'
    <2>1. \A e \in Streams : e > nsock' => e > nsock
      BY <1>3, <1>4, <1>5, Numbers
    <2>2. \A e \in Streams : e > nsock => ready'[e] = ready[e]
      BY <1>2, <1>4, Numbers DEF Setup, TypeOK
    <2>3. \A e \in Streams : e > nsock' =>
            ~ready'[e] /\ e \notin batch' /\ \A k \in Streams : insock'[e][k] = 0
      BY <1>2, <2>1, <2>2 DEF Setup, Endpoints, qvars
    <2>4. \A k \in Streams : home'[k] <= nsock'
      <3>1. \A k \in Streams : home[k] <= nsock /\ home[k] \in Nat
        BY Values DEF Setup, Endpoints
      <3> QED BY <1>2, <1>4, <1>5, <3>1 DEF qvars
    <2>5. sstate' = "CreateStreams" <=> nstreams' < num_streams'
      BY <1>2, <1>3, <1>4 DEF test
    <2> QED BY <1>2, <1>3, <1>4, <1>5, <2>3, <2>4, <2>5 DEF Endpoints, test
  <1>8. Awaits'
    BY <1>2, <1>3, <1>4 DEF Setup, Awaits, test
  <1>9. Connections'
    <2>1. \A s \in 1..nsock : s # nsock => s \in 1..nstreams /\ s \in Streams /\ conn'[s] = conn[s]
      BY <1>2, <1>3, <1>4, Numbers DEF Setup, TypeOK
    <2>2. conn'[nsock] = i
      BY <1>2, <1>4 DEF Setup, TypeOK
    <2> QED BY <1>1, <1>2, <1>4, <2>1, <2>2 DEF Setup, Connections, qvars
  <1>10. nstreams' \in 0..MaxStreams
    BY <1>4, Numbers
  <1>11. sstate' \in {"CreateStreams", "TestStart", "TestRunning", "TestEnd"}
    BY <1>2, <1>3
  <1> QED BY <1>2, <1>5, <1>6, <1>7, <1>8, <1>9, <1>10, <1>11, SetupServer DEF Setup, TypeOK

LEMMA SetupSStream ==
  ASSUME Setup, NEW e \in Streams, SStream(e)
  PROVE  Setup'
  <1>1. /\ spc = "poll" /\ e \in batch /\ e <= nstreams /\ batch' \subseteq batch /\ sidx' = e
        /\ spc' = CASE sstate = "TestStart" -> "cookie"
                    [] sstate = "TestRunning" -> "read"
                    [] OTHER -> "poll"
        /\ UNCHANGED << test, sstate, nstreams, nsock, conn, cookie_count, ready, taken, cvars, qvars >>
    BY DEF SStream
  <1>2. \/ spc' = "poll"
        \/ spc' = "cookie" /\ sstate = "TestStart"
        \/ spc' = "read" /\ sstate = "TestRunning"
    BY <1>1
  <1>3. Endpoints'
    BY <1>1 DEF Setup, Endpoints, test, qvars
  <1>4. Awaits' /\ Connections'
    BY <1>1, <1>2 DEF Setup, Awaits, Connections, test, qvars
  <1> QED BY <1>1, <1>2, <1>3, <1>4, SetupServer DEF Setup, TypeOK

LEMMA SetupSCookie == ASSUME Setup, SCookie PROVE Setup'
  <1>1. PICK i \in Streams : i = conn[sidx]
    <2>1. sidx \in 1..nstreams
      BY Numbers DEF SCookie, Setup, Awaits, TypeOK
    <2> QED BY <2>1 DEF Setup, Connections
  <1>2. /\ spc = "cookie" /\ taken' = [taken EXCEPT ![i] = 3]
        /\ cookie_count' = cookie_count + 1
        /\ sstate' = IF LastCookie(cookie_count') THEN "TestRunning" ELSE sstate
        /\ spc' = "poll"
        /\ UNCHANGED << test, sidx, nstreams, nsock, conn, batch, ready, cvars, qvars >>
    BY <1>1 DEF SCookie
  <1>3. taken' \in [Streams -> 0..(3 + MaxData)]
    <2>1. 3 \in 0..(3 + MaxData)
      BY Numbers
    <2> QED BY <1>2, <2>1 DEF Setup, TypeOK
  <1>4. /\ sstate = "TestStart" /\ cookie_count < num_streams /\ cookie_count \in Nat
        /\ num_streams \in 1..MaxStreams
    BY <1>2, Numbers DEF Setup, Awaits, TypeOK
  <1>5. /\ cookie_count' \in 0..MaxStreams /\ cookie_count' <= num_streams
        /\ sstate' \in {"TestStart", "TestRunning"}
        /\ sstate' = "TestStart" => cookie_count' < num_streams
    BY <1>2, <1>4, Numbers DEF LastCookie
  <1>6. Endpoints'
    BY <1>2, <1>4, <1>5 DEF Setup, Endpoints, test, qvars
  <1>7. Awaits' /\ Connections'
    BY <1>2, <1>5 DEF Setup, Awaits, Connections, test, qvars
  <1> QED BY <1>2, <1>3, <1>5, <1>6, <1>7, SetupServer DEF Setup, TypeOK

\* What the reader may have is not the end of the stream.
LEMMA ReadableFacts ==
  ASSUME Setup, NEW i \in Streams
  PROVE  Readable(i) \in 0..(3 + MaxData)
  <1>1. written[i] \in Nat /\ arrived[i] \in Nat /\ arrived[i] <= written[i]
    BY Values DEF Setup, Flow
  <1>2. written[i] <= 4 + MaxData
    BY Numbers DEF Setup, TypeOK
  <1>3. (fin[i] => written[i] >= 1) /\ (~fin[i] => written[i] <= 3 + MaxData)
    BY DEF Setup, Ending
  <1> QED BY <1>1, <1>2, <1>3, Numbers DEF Readable

LEMMA SetupSRead == ASSUME Setup, SRead PROVE Setup'
  <1>1. PICK i \in Streams : i = conn[sidx]
    <2>1. sidx \in 1..nstreams
      BY Numbers DEF SRead, Setup, Awaits, TypeOK
    <2> QED BY <2>1 DEF Setup, Connections
  <1>2. /\ \/ taken' = [taken EXCEPT ![i] = Readable(i)] /\ UNCHANGED spc
           \/ spc' = "poll" /\ UNCHANGED taken
        /\ UNCHANGED << test, sstate, sidx, nstreams, nsock, conn, batch, cookie_count, ready, cvars, qvars >>
    BY <1>1 DEF SRead
  <1>3. taken' \in [Streams -> 0..(3 + MaxData)]
    BY <1>2, ReadableFacts DEF Setup, TypeOK
  <1>4. Endpoints'
    BY <1>2 DEF Setup, Endpoints, test, qvars
  <1>5. Awaits' /\ Connections'
    BY <1>2 DEF Setup, Awaits, Connections, test, qvars
  <1> QED BY <1>2, <1>3, <1>4, <1>5, SetupServer DEF Setup, TypeOK

LEMMA SetupSEnds == ASSUME Setup, STestEnd \/ SPanics PROVE Setup'
  <1>1. /\ \/ sstate = "TestRunning" /\ sstate' = "TestEnd" /\ spc = "poll" /\ UNCHANGED spc
           \/ spc' = "panic" /\ UNCHANGED sstate
        /\ UNCHANGED << test, sidx, nstreams, nsock, conn, batch, cookie_count, ready, taken, cvars, qvars >>
    BY DEF STestEnd, SPanics
  <1>2. Endpoints'
    BY <1>1 DEF Setup, Endpoints, test, qvars
  <1>3. Awaits' /\ Connections'
    BY <1>1 DEF Setup, Awaits, Connections, test, qvars
  <1> QED BY <1>1, <1>2, <1>3, SetupServer DEF Setup, TypeOK

-----------------------------------------------------------------------------
(* The steps of quinn. *)

\* A datagram reaches the newest endpoint.
LEMMA SetupArrives ==
  ASSUME Setup, NEW i \in Streams, NEW n \in Nat, n <= written[i], Arrives(i, n),
         acks' \in 0..MaxAcks,
         UNCHANGED << test, svars, taken, cvars, arrived, home, dropped, idle, lost >>
  PROVE  Setup'
  <1>1. PICK e \in Streams : e = nsock
    BY DEF Setup, TypeOK
  <1>2. insock \in [Streams -> [Streams -> 0..(4 + MaxData)]] /\ ready \in [Streams -> BOOLEAN]
    BY DEF Setup, TypeOK
  <1>3. n \in 0..(4 + MaxData)
    <2>1. written[i] \in 0..(4 + MaxData)
      BY DEF Setup, TypeOK
    <2> QED BY <2>1, Numbers
  <1>4. insock' = [insock EXCEPT ![e] = [insock[e] EXCEPT ![i] = n]] /\ ready' = [ready EXCEPT ![e] = TRUE]
    BY <1>1, <1>2 DEF Arrives
  <1>5. [insock[e] EXCEPT ![i] = n] \in [Streams -> 0..(4 + MaxData)]
    BY <1>2, <1>3
  <1>6. insock' \in [Streams -> [Streams -> 0..(4 + MaxData)]] /\ ready' \in [Streams -> BOOLEAN]
    BY <1>2, <1>4, <1>5
  <1>7. TypeOK'
    BY <1>6 DEF Setup, TypeOK, test, svars, cvars
  <1>8. \A d, k \in Streams : insock'[d][k] = insock[d][k] \/ (d = e /\ k = i /\ insock'[d][k] = n)
    BY <1>2, <1>4
  <1>9. Flow'
    <2>1. \A k \in Streams : \A d \in Streams : insock'[d][k] <= written'[k]
      BY <1>8 DEF Setup, Flow, cvars
    <2> QED BY <2>1 DEF Setup, Flow, cvars
  <1>10. Endpoints'
    <2>1. \A d \in Streams : d > nsock => d # e
      BY <1>1, Numbers
    <2>2. \A d \in Streams : d # e => ready'[d] = ready[d]
      BY <1>2, <1>4
    <2>3. \A d \in Streams : d > nsock' =>
            ~ready'[d] /\ d \notin batch' /\ \A k \in Streams : insock'[d][k] = 0
      BY <1>8, <2>1, <2>2 DEF Setup, Endpoints, svars
    <2> QED BY <2>3 DEF Setup, Endpoints, test, svars
  <1>11. Sending' /\ Ending' /\ Awaits' /\ Connections'
    BY DEF Setup, Sending, Ending, Awaits, Connections, test, svars, cvars
  <1> QED BY <1>7, <1>9, <1>10, <1>11 DEF Setup

LEMMA SetupDeliver == ASSUME Setup, NEW i \in Streams, Deliver(i) PROVE Setup'
  <1>1. written[i] \in Nat /\ written[i] <= written[i] /\ acks \in 0..MaxAcks
    BY Values DEF Setup, TypeOK
  <1> QED BY <1>1, SetupArrives DEF Deliver

LEMMA SetupAck == ASSUME Setup, NEW i \in Streams, Ack(i) PROVE Setup'
  <1>1. arrived[i] \in Nat /\ arrived[i] <= written[i]
    BY Values DEF Setup, Flow
  <1>2. acks' \in 0..MaxAcks
    BY Numbers DEF Setup, TypeOK, Ack
  <1> QED BY <1>1, <1>2, SetupArrives DEF Ack

\* What a driver changes: it empties a place in its socket, and either takes
\* the datagram or leaves it to a retransmission.
LEMMA DriverFacts ==
  ASSUME Setup, NEW e \in Streams, NEW i \in Streams, Driver(e, i)
  PROVE  /\ insock[e][i] \in Nat /\ insock[e][i] > 0 /\ e <= nsock
         /\ mio_first => ~(spc = "poll" /\ batch = {} /\ ready[e])
         /\ insock' \in [Streams -> [Streams -> 0..(4 + MaxData)]]
         /\ \A d, k \in Streams : insock'[d][k] = IF d = e /\ k = i THEN 0 ELSE insock[d][k]
         /\ \/ /\ home[i] \in {0, e} /\ home' = [home EXCEPT ![i] = e]
               /\ arrived' = [arrived EXCEPT ![i] = IF insock[e][i] > @ THEN insock[e][i] ELSE @]
               /\ idle' = [idle EXCEPT ![i] = 0] /\ UNCHANGED dropped
            \/ /\ home[i] \notin {0, e}
               /\ dropped' = [dropped EXCEPT ![i] = TRUE] /\ UNCHANGED << home, arrived, idle >>
         /\ UNCHANGED << test, svars, ready, taken, cvars, lost, acks >>
  <1>1. insock \in [Streams -> [Streams -> 0..(4 + MaxData)]]
    BY DEF Setup, TypeOK
  <1>2. insock[e][i] \in Nat /\ insock[e][i] > 0
    BY Values DEF Setup, Driver
  <1>3. e <= nsock
    <2>1. e \in Nat /\ nsock \in Nat
      BY Numbers DEF Setup, TypeOK
    <2> QED BY <1>2, <2>1 DEF Setup, Endpoints
  <1>4. insock' = [insock EXCEPT ![e] = [insock[e] EXCEPT ![i] = 0]]
    BY <1>1 DEF Driver
  <1>5. [insock[e] EXCEPT ![i] = 0] \in [Streams -> 0..(4 + MaxData)]
    <2>1. 0 \in 0..(4 + MaxData)
      BY Numbers
    <2> QED BY <1>1, <2>1
  <1>6. insock' \in [Streams -> [Streams -> 0..(4 + MaxData)]]
    BY <1>1, <1>4, <1>5
  <1>7. \A d, k \in Streams : insock'[d][k] = IF d = e /\ k = i THEN 0 ELSE insock[d][k]
    BY <1>1, <1>4
  <1>8. /\ mio_first => ~(spc = "poll" /\ batch = {} /\ ready[e])
        /\ UNCHANGED << test, svars, ready, taken, cvars, lost, acks >>
    BY DEF Driver
  <1>9. \/ /\ home[i] \in {0, e} /\ home' = [home EXCEPT ![i] = e]
           /\ arrived' = [arrived EXCEPT ![i] = IF insock[e][i] > @ THEN insock[e][i] ELSE @]
           /\ idle' = [idle EXCEPT ![i] = 0] /\ UNCHANGED dropped
        \/ /\ home[i] \notin {0, e}
           /\ dropped' = [dropped EXCEPT ![i] = TRUE] /\ UNCHANGED << home, arrived, idle >>
    BY DEF Driver
  <1> QED BY <1>2, <1>3, <1>6, <1>7, <1>8, <1>9

LEMMA SetupDriver ==
  ASSUME Setup, NEW e \in Streams, NEW i \in Streams, Driver(e, i)
  PROVE  Setup'
  <1>1. /\ insock' \in [Streams -> [Streams -> 0..(4 + MaxData)]]
        /\ \A d, k \in Streams : insock'[d][k] = IF d = e /\ k = i THEN 0 ELSE insock[d][k]
        /\ UNCHANGED << test, svars, ready, taken, cvars, lost, acks >>
        /\ insock[e][i] \in Nat /\ insock[e][i] > 0 /\ e <= nsock
    BY DriverFacts
  <1>2. \A k \in Streams : /\ written[k] \in Nat /\ arrived[k] \in Nat /\ home[k] \in Nat
                           /\ \A d \in Streams : insock[d][k] \in Nat
    BY Values DEF Setup
  <1>3. insock[e][i] \in 0..(4 + MaxData) /\ insock[e][i] <= written[i] /\ e \in 0..MaxStreams /\ e \in Nat
    <2>1. insock[e][i] \in 0..(4 + MaxData)
      BY DEF Setup, TypeOK
    <2>2. insock[e][i] <= written[i]
      BY DEF Setup, Flow
    <2> QED BY <2>1, <2>2, Numbers
  <1>4. /\ dropped' \in [Streams -> BOOLEAN] /\ idle' \in [Streams -> 0..(max_idle_timeout + 1)]
        /\ home' \in [Streams -> 0..MaxStreams] /\ arrived' \in [Streams -> 0..(4 + MaxData)]
    <2>1. CASE /\ home' = [home EXCEPT ![i] = e]
               /\ arrived' = [arrived EXCEPT ![i] = IF insock[e][i] > @ THEN insock[e][i] ELSE @]
               /\ idle' = [idle EXCEPT ![i] = 0] /\ UNCHANGED dropped
      BY <1>3, <2>1 DEF Setup, TypeOK, max_idle_timeout
    <2>2. CASE dropped' = [dropped EXCEPT ![i] = TRUE] /\ UNCHANGED << home, arrived, idle >>
      BY <2>2 DEF Setup, TypeOK
    <2> QED BY <2>1, <2>2, DriverFacts
  <1>5. TypeOK'
    BY <1>1, <1>4 DEF Setup, TypeOK, test, svars, cvars
  <1>6. \A k \in Streams : /\ home'[k] = home[k] \/ (k = i /\ home[k] \in {0, e} /\ home'[k] = e)
                           /\ arrived'[k] = arrived[k] \/ (k = i /\ arrived'[k] = insock[e][i])
    BY DriverFacts DEF Setup, TypeOK
  <1>7. Flow'
    <2>1. \A k \in Streams : \A d \in Streams : insock'[d][k] <= written[k]
      BY <1>1, <1>2 DEF Setup, Flow
    <2>2. \A k \in Streams : arrived'[k] <= written[k]
      BY <1>3, <1>6 DEF Setup, Flow
    <2>3. \A k \in Streams : home'[k] # 0 => written[k] > 0
      BY <1>1, <1>2, <1>3, <1>6 DEF Setup, Flow
    <2> QED BY <1>1, <2>1, <2>2, <2>3 DEF Flow, cvars
  <1>8. Endpoints'
    <2>1. \A d \in Streams : d > nsock => \A k \in Streams : insock'[d][k] = 0
      BY <1>1 DEF Setup, Endpoints
    <2>2. \A k \in Streams : home'[k] <= nsock
      BY <1>1, <1>6 DEF Setup, Endpoints
    <2> QED BY <1>1, <2>1, <2>2 DEF Setup, Endpoints, test, svars
  <1>9. Connections'
    <2>1. \A s \in 1..nstreams : conn[s] \in Streams /\ home[conn[s]] = s
      BY DEF Setup, Connections
    <2>2. \A s \in 1..nstreams : s # 0
      OBVIOUS
    <2>3. \A s \in 1..nstreams : home'[conn[s]] = s
      BY <1>6, <2>1, <2>2
    <2> QED BY <1>1, <2>1, <2>3 DEF Connections, svars
  <1>10. Sending' /\ Ending' /\ Awaits'
    BY <1>1 DEF Setup, Sending, Ending, Awaits, test, svars, cvars
  <1> QED BY <1>5, <1>7, <1>8, <1>9, <1>10 DEF Setup

LEMMA SetupTimedOut == ASSUME Setup, NEW i \in Streams, TimedOut(i) PROVE Setup'
  <1>1. /\ lost' = [lost EXCEPT ![i] = TRUE]
        /\ UNCHANGED << test, svars, ready, taken, cvars, arrived, home, insock, dropped, idle, acks >>
    BY DEF TimedOut
  <1>2. TypeOK'
    BY <1>1 DEF Setup, TypeOK, test, svars, cvars
  <1>3. Sending' /\ Ending' /\ Flow' /\ Endpoints'
    BY <1>1 DEF Setup, Sending, Ending, Flow, Endpoints, test, svars, cvars
  <1>4. Awaits' /\ Connections'
    BY <1>1 DEF Setup, Awaits, Connections, test, svars
  <1> QED BY <1>2, <1>3, <1>4 DEF Setup

LEMMA SetupStutter == ASSUME Setup, UNCHANGED vars PROVE Setup'
  <1>1. TypeOK'
    BY DEF Setup, TypeOK, vars, test, svars, cvars, qvars
  <1>2. Sending' /\ Ending' /\ Flow' /\ Endpoints'
    BY DEF Setup, Sending, Ending, Flow, Endpoints, vars, test, svars, cvars, qvars
  <1>3. Awaits' /\ Connections'
    BY DEF Setup, Awaits, Connections, vars, test, svars, cvars, qvars
  <1> QED BY <1>1, <1>2, <1>3 DEF Setup

LEMMA SetupNext == Setup /\ [Next]_vars => Setup'
  <1> SUFFICES ASSUME Setup, [Next]_vars PROVE Setup'
    OBVIOUS
  <1>1. CASE Client
    BY <1>1, SetupCConnect, SetupCConnected, SetupCPlace, SetupCCookie, SetupCWrite, SetupCFinish,
       SetupCFinished DEF Client
  <1>2. CASE Server
    BY <1>2, SetupSPoll, SetupSAccepted, SetupSCookie, SetupSRead, SetupSEnds, SetupSListener,
       SetupSStream DEF Server
  <1>3. CASE Quinn
    BY <1>3, SetupDeliver, SetupDriver DEF Quinn
  <1>4. CASE \E i \in Streams : Ack(i) \/ TimedOut(i)
    BY <1>4, SetupAck, SetupTimedOut
  <1>5. CASE Tick
    BY <1>5, SetupTick
  <1>6. CASE UNCHANGED vars
    BY <1>6, SetupStutter
  <1> QED BY <1>1, <1>2, <1>3, <1>4, <1>5, <1>6 DEF Next, Prompt

\* The numbers of the sequence, the endpoints and the connections of the streams
\* agree at every step of the two event loops and of quinn's threads.
THEOREM SetupInvariant == Spec => []Setup
  BY SetupInit, SetupNext, PTL DEF Spec

-----------------------------------------------------------------------------
(* The count of a plain test. *)

\* A plain test has one endpoint, one connection and one stream.
LEMMA PlainFacts ==
  ASSUME Setup, Plain
  PROVE  /\ num_streams = 1 /\ cidx = 1 /\ nsock = 1 /\ mio_first
         /\ \A i \in Streams : i # 1 => written[i] = 0
         /\ batch \subseteq {1}
         /\ \A e \in Streams : e # 1 => ~ready[e]
         /\ \A e, i \in Streams : insock[e][i] > 0 => e = 1 /\ i = 1
         /\ sstate # "CreateStreams" => nstreams = 1
         /\ spc \in {"cookie", "read"} => conn[sidx] = 1
  <1>1. num_streams = 1 /\ mio_first
    BY DEF Plain
  <1>2. /\ cidx \in Streams /\ nsock \in Streams /\ nstreams \in Nat /\ batch \subseteq Streams
        /\ sidx \in Streams
    BY Numbers DEF Setup, TypeOK
  <1>3. cidx = 1 /\ nsock = 1
    BY <1>1, <1>2, Numbers DEF Setup, Sending, Endpoints
  <1>4. \A i \in Streams : i # 1 => written[i] = 0 /\ i > 1
    BY <1>1, Numbers DEF Setup, Sending
  <1>5. \A e \in Streams : e # 1 => ~ready[e] /\ e \notin batch /\ \A i \in Streams : insock[e][i] = 0
    BY <1>3, <1>4 DEF Setup, Endpoints
  <1>6. \A e, i \in Streams : insock[e][i] > 0 => e = 1 /\ i = 1
    <2>1. \A e, i \in Streams : insock[e][i] \in Nat /\ insock[e][i] <= written[i]
      BY Values DEF Setup, Flow
    <2> QED BY <1>4, <1>5, <2>1
  <1>7. sstate # "CreateStreams" => nstreams = 1
    BY <1>1, <1>2 DEF Setup, Endpoints
  <1>8. spc \in {"cookie", "read"} => conn[sidx] = 1
    <2>1. SUFFICES ASSUME spc \in {"cookie", "read"} PROVE conn[sidx] = 1
      OBVIOUS
    <2>2. sidx \in 1..nstreams
      BY <1>2, <2>1, Numbers DEF Setup, Awaits
    <2>3. conn[sidx] \in Streams /\ home[conn[sidx]] = sidx /\ sidx # 0
      BY <2>2 DEF Setup, Connections
    <2>4. written[conn[sidx]] > 0
      BY <2>3 DEF Setup, Flow
    <2> QED BY <1>4, <2>3, <2>4
  <1> QED BY <1>1, <1>2, <1>3, <1>4, <1>5, <1>6, <1>7, <1>8

LEMMA CountingInit == Init => PlainCounting
  <1>1. SUFFICES ASSUME Init PROVE Counting
    BY DEF PlainCounting
  <1> QED BY <1>1 DEF Init, Counting

\* Only the way out of finish ends the client's sending, and after the end of
\* the stream nothing more is written.
LEMMA CountingClient ==
  ASSUME Setup, Plain, Counting, Client, Setup'
  PROVE  Counting'
  <1>1. UNCHANGED << test, svars, ready, taken, qvars >>
    BY DEF Client, CConnect, CConnected, CTestStart, CCookie, CRunning, CWrite, CFinish, CFinished, CPanics
  <1>2. num_streams = 1 /\ cidx = 1 /\ 1 \in Streams /\ ~(cidx < num_streams)
    BY PlainFacts, Numbers
  <1>3. written[1] \in Nat /\ written'[1] \in Nat /\ arrived[1] \in Nat
    <2>1. written' \in [Streams -> 0..(4 + MaxData)]
      BY DEF Setup, TypeOK
    <2>2. written'[1] \in 0..(4 + MaxData)
      BY <2>1, Numbers
    <2> QED BY <2>2, Numbers, Values DEF Setup
  <1>4. fin[1] => cpc \in {"finish", "ended", "panic"}
    BY <1>2 DEF Setup, Ending, Counting
  <1>5. fin[1] => UNCHANGED << written, fin >> /\ (CFinished \/ CPanics)
    BY <1>4, Zenon DEF Client, CConnect, CConnected, CTestStart, CCookie, CRunning, CWrite, CFinish, CFinished,
       CPanics, Counting
  <1>6. cpc' = "ended" =>
          cpc = "finish" /\ ~lost[1] /\ arrived[1] = written[1] /\ UNCHANGED << written, fin >>
    BY <1>2 DEF Client, CConnect, CConnected, CTestStart, CCookie, CRunning, CWrite, CFinish, CFinished,
       CPanics, Then, finished
  <1>7. cpc' = "finish" => fin'[1] /\ written'[1] > 4
    <2>1. SUFFICES ASSUME cpc' = "finish" PROVE fin'[1] /\ written'[1] > 4
      OBVIOUS
    <2>2. CFinish
      BY <1>2, <2>1 DEF Client, CConnect, CConnected, CTestStart, CCookie, CRunning, CWrite, CFinished, CPanics,
         Then
    <2>3. fin'[1] /\ written'[1] = written[1] + 1
      BY <1>2, <2>2 DEF CFinish, Sends, Setup, TypeOK
    <2>4. written[1] > 3
      BY <2>2 DEF CFinish, Counting
    <2> QED BY <1>3, <2>3, <2>4
  <1>8. cpc' # "next"
    BY <1>2 DEF Client, CConnect, CConnected, CTestStart, CCookie, CRunning, CWrite, CFinish, CFinished,
       CPanics, Then
  <1>9. sstate \in {"CreateStreams", "TestStart"} =>
          cpc' \notin {"send", "next", "finish", "ended"} /\ \A i \in Streams : written'[i] <= 3
    <2>1. SUFFICES ASSUME sstate \in {"CreateStreams", "TestStart"}
                   PROVE  /\ cpc' \notin {"send", "next", "finish", "ended"}
                          /\ \A i \in Streams : written'[i] <= 3
      OBVIOUS
    <2>2. cpc \notin {"send", "next", "finish", "ended"} /\ \A i \in Streams : written[i] <= 3
      BY <2>1 DEF Counting
    <2>3. \/ cpc' \in {"shake", "announced", "sleep", "wait"}
          \/ cpc' = "panic" /\ UNCHANGED written
      BY <1>2, <2>1, <2>2 DEF Client, CConnect, CConnected, CTestStart, CCookie, CRunning, CWrite, CFinish,
         CFinished, CPanics, Then
    <2>4. num_streams' = 1 /\ \A i \in Streams : i # 1 => i > 1
      BY <1>1, <1>2, Numbers DEF test
    <2>5. \A i \in Streams : i # 1 => written'[i] = 0
      BY <2>4 DEF Setup, Sending
    <2>6. cpc' \in {"shake", "announced", "sleep", "wait"} => written'[1] <= 3
      BY <2>4 DEF Setup, Sending
    <2> QED BY <2>2, <2>3, <2>5, <2>6
  <1>10. sstate = "TestRunning" /\ spc = "poll" => Noticed' \/ Fresh' \/ Complete' \/ Broken'
    <2>1. SUFFICES ASSUME sstate = "TestRunning", spc = "poll"
                   PROVE  Noticed' \/ Fresh' \/ Complete' \/ Broken'
      OBVIOUS
    <2>2. Noticed => Noticed'
      BY <1>1 DEF Noticed, svars
    <2>3. Fresh => Fresh'
      BY <1>1 DEF Fresh, qvars
    <2>4. Complete => Complete'
      BY <1>1, <1>5 DEF Complete, qvars
    <2>5. Broken => Broken'
      BY <1>1, <1>6 DEF Broken, qvars
    <2> QED BY <2>1, <2>2, <2>3, <2>4, <2>5 DEF Counting
  <1>11. sstate = "TestEnd" => Complete'
    BY <1>1, <1>5 DEF Counting, Complete, qvars
  <1>12. cpc' = "ended" => fin'[1] /\ written'[1] > 4 /\ arrived'[1] = written'[1]
    BY <1>1, <1>6 DEF Counting, qvars
  <1> QED BY <1>1, <1>7, <1>8, <1>9, <1>10, <1>11, <1>12 DEF Counting, svars

\* The reading of the server: it is back in its poll with the cookie and
\* nothing else, or with everything, or with a connection that is lost.
LEMMA CountingServer ==
  ASSUME Setup, Plain, Counting, Server
  PROVE  Counting'
  <1>1. UNCHANGED << test, cvars, qvars >>
    BY DEF Server, SPoll, SListener, SAccepted, SStream, SCookie, SPanics, SRead, STestEnd
  <1>2. /\ num_streams = 1 /\ nsock = 1 /\ 1 \in Streams /\ batch \subseteq {1}
        /\ \A e \in Streams : e # 1 => ~ready[e]
        /\ sstate # "CreateStreams" => nstreams = 1
        /\ spc \in {"cookie", "read"} => conn[sidx] = 1
    BY PlainFacts, Numbers
  <1>3. written[1] \in Nat /\ arrived[1] \in Nat /\ taken[1] \in Nat /\ insock[1][1] \in Nat
    BY <1>2, Values DEF Setup
  <1>4. arrived[1] <= written[1] /\ insock[1][1] <= written[1]
    BY <1>2 DEF Setup, Flow
  <1>5. SUFFICES /\ sstate' \in {"CreateStreams", "TestStart"} => sstate \in {"CreateStreams", "TestStart"}
                 /\ sstate' = "TestRunning" /\ spc' = "poll" => Noticed' \/ Fresh' \/ Complete' \/ Broken'
                 /\ sstate' = "TestEnd" => Complete'
    BY <1>1 DEF Counting, cvars, qvars
  <1>6. ASSUME UNCHANGED taken PROVE (Complete => Complete') /\ (Broken => Broken')
    BY <1>1, <1>6 DEF Complete, Broken, cvars, qvars
  <1>7. CASE SPoll
    <2>1. /\ spc = "poll" /\ batch = {} /\ batch' = {e \in Streams : ready[e] /\ Pending(e)}
          /\ ready' = [e \in Streams |-> FALSE] /\ UNCHANGED << sstate, spc, taken >>
      BY <1>7 DEF SPoll
    <2>2. Fresh => Fresh' \/ Noticed'
      <3>1. CASE insock[1][1] > 3
        <4>1. Fresh => ready[1] /\ Pending(1)
          BY <1>2, <1>3, <3>1 DEF Fresh, Pending
        <4> QED BY <1>2, <2>1, <4>1 DEF Noticed
      <3>2. CASE ~(insock[1][1] > 3)
        BY <1>1, <2>1, <3>2 DEF Fresh, qvars
      <3> QED BY <3>1, <3>2
    <2>3. ~Noticed
      BY <2>1 DEF Noticed
    <2> QED BY <1>6, <2>1, <2>2, <2>3 DEF Counting
  <1>8. CASE \E e \in Streams : SListener(e)
    <2>1. UNCHANGED << sstate, taken >> /\ spc' = "accept"
      BY <1>8 DEF SListener
    <2> QED BY <1>6, <2>1 DEF Counting
  <1>9. CASE SAccepted
    <2>1. sstate = "CreateStreams" /\ sstate' \in {"CreateStreams", "TestStart"}
      BY <1>9 DEF SAccepted, Setup, Awaits
    <2> QED BY <2>1
  <1>10. CASE \E e \in Streams : SStream(e)
    <2>1. /\ UNCHANGED << sstate, taken >>
          /\ spc' = CASE sstate = "TestStart" -> "cookie"
                      [] sstate = "TestRunning" -> "read"
                      [] OTHER -> "poll"
      BY <1>10 DEF SStream
    <2> QED BY <1>6, <2>1 DEF Counting
  <1>11. CASE SCookie
    <2>1. /\ spc = "cookie" /\ arrived[1] >= 3 /\ taken' = [taken EXCEPT ![1] = 3]
          /\ sstate' = IF LastCookie(cookie_count') THEN "TestRunning" ELSE sstate
      BY <1>2, <1>11 DEF SCookie
    <2>2. sstate = "TestStart"
      BY <2>1 DEF Setup, Awaits
    <2>3. written[1] <= 3
      BY <1>2, <2>2 DEF Counting
    <2>4. arrived[1] = 3 /\ ~(insock[1][1] > 3)
      BY <1>3, <1>4, <2>1, <2>3
    <2>5. taken'[1] = 3
      BY <1>2, <2>1 DEF Setup, TypeOK
    <2>6. Fresh'
      BY <1>1, <2>4, <2>5 DEF Fresh, qvars
    <2> QED BY <2>1, <2>2, <2>6
  <1>12. CASE SRead
    <2>1. /\ spc = "read" /\ UNCHANGED sstate
          /\ \/ UNCHANGED spc
             \/ /\ taken[1] = Readable(1) /\ (lost[1] \/ Readable(1) < arrived[1])
                /\ UNCHANGED taken
      BY <1>2, <1>12 DEF SRead
    <2>2. sstate = "TestRunning"
      BY <2>1 DEF Setup, Awaits
    <2>3. ASSUME taken[1] = Readable(1), lost[1] \/ Readable(1) < arrived[1]
          PROVE  Complete \/ Broken
      <3>1. CASE fin[1] /\ arrived[1] = written[1]
        BY <2>3, <3>1 DEF Readable, Complete
      <3>2. CASE ~(fin[1] /\ arrived[1] = written[1])
        <4>1. lost[1]
          BY <1>3, <2>3, <3>2 DEF Readable
        <4>2. cpc # "ended"
          BY <3>2 DEF Counting
        <4> QED BY <4>1, <4>2 DEF Broken
      <3> QED BY <3>1, <3>2
    <2> QED BY <1>6, <2>1, <2>2, <2>3
  <1>13. CASE STestEnd
    <2>1. /\ spc = "poll" /\ batch = {} /\ sstate = "TestRunning" /\ cpc = "ended"
          /\ sstate' = "TestEnd" /\ UNCHANGED taken
      BY <1>13 DEF STestEnd
    <2>2. ~Noticed /\ ~Broken
      BY <2>1 DEF Noticed, Broken
    <2>3. ~Fresh
      BY <2>1 DEF Fresh, Counting
    <2> QED BY <1>6, <2>1, <2>2, <2>3 DEF Counting
  <1>14. CASE SPanics
    <2>1. UNCHANGED << sstate, taken >> /\ spc' = "panic"
      BY <1>14 DEF SPanics
    <2> QED BY <1>6, <2>1 DEF Counting
  <1> QED BY <1>7, <1>8, <1>9, <1>10, <1>11, <1>12, <1>13, <1>14 DEF Server

\* quinn takes nothing new while the server waits in its poll without having
\* noticed it.
LEMMA CountingDriver ==
  ASSUME Setup, Plain, Counting, NEW e \in Streams, NEW i \in Streams, Driver(e, i)
  PROVE  Counting'
  <1>1. /\ UNCHANGED << test, svars, ready, taken, cvars, lost >>
        /\ insock[e][i] > 0 /\ (mio_first => ~(spc = "poll" /\ batch = {} /\ ready[e]))
        /\ insock' \in [Streams -> [Streams -> 0..(4 + MaxData)]]
        /\ \A d, k \in Streams : insock'[d][k] = IF d = e /\ k = i THEN 0 ELSE insock[d][k]
    BY DriverFacts
  <1>2. e = 1 /\ i = 1 /\ mio_first /\ batch \subseteq {1}
    BY <1>1, PlainFacts
  <1>3. arrived[1] \in Nat /\ insock[1][1] \in Nat /\ written[1] \in Nat /\ insock[1][1] <= written[1]
    BY <1>2, Values DEF Setup, Flow
  <1>4. arrived'[1] = IF insock[1][1] > arrived[1] THEN insock[1][1] ELSE arrived[1]
    <2>1. home[1] \in {0, 1}
      <3>1. home[1] \in Nat /\ home[1] <= nsock /\ nsock = 1
        BY <1>2, Values, PlainFacts DEF Setup, Endpoints
      <3> QED BY <3>1
    <2> QED BY <1>2, <2>1, DriverFacts DEF Setup, TypeOK
  <1>5. arrived[1] = written[1] => arrived'[1] = written[1]
    BY <1>3, <1>4
  <1>6. insock'[1][1] = 0
    BY <1>1, <1>2
  <1>7. Complete => Complete'
    BY <1>1, <1>5 DEF Complete, cvars
  <1>8. Broken => Broken'
    BY <1>1 DEF Broken, cvars
  <1>9. spc = "poll" /\ Fresh /\ ~Noticed => Fresh'
    <2>1. SUFFICES ASSUME spc = "poll", Fresh, ~Noticed PROVE Fresh'
      OBVIOUS
    <2>2. batch = {}
      BY <1>2, <2>1 DEF Noticed
    <2>3. ~(insock[1][1] > 3)
      BY <1>1, <1>2, <2>1, <2>2 DEF Fresh
    <2>4. arrived'[1] = 3
      BY <1>3, <1>4, <2>1, <2>3 DEF Fresh
    <2> QED BY <1>1, <1>6, <2>1, <2>4 DEF Fresh
  <1>10. Noticed => Noticed'
    BY <1>1 DEF Noticed, svars
  <1>11. sstate = "TestRunning" /\ spc = "poll" => Noticed' \/ Fresh' \/ Complete' \/ Broken'
    BY <1>7, <1>8, <1>9, <1>10 DEF Counting
  <1> QED BY <1>1, <1>5, <1>7, <1>11 DEF Counting, svars, cvars

\* A datagram that reaches the socket makes it ready.
LEMMA CountingArrives ==
  ASSUME Setup, Plain, Counting, NEW i \in Streams, Deliver(i) \/ Ack(i)
  PROVE  Counting'
  <1>1. /\ UNCHANGED << test, svars, taken, cvars, arrived, lost >>
        /\ ready' = [ready EXCEPT ![nsock] = TRUE]
    BY DEF Deliver, Ack, Arrives
  <1>2. ready'[1]
    BY <1>1, PlainFacts, Numbers DEF Setup, TypeOK
  <1>3. (Noticed => Noticed') /\ (Fresh => Fresh')
    BY <1>1, <1>2 DEF Noticed, Fresh, svars
  <1>4. (Complete => Complete') /\ (Broken => Broken')
    BY <1>1 DEF Complete, Broken, cvars
  <1> QED BY <1>1, <1>3, <1>4 DEF Counting, svars, cvars

\* Time ends a sleep, and a connection; neither changes a count.
LEMMA CountingTime ==
  ASSUME Setup, Plain, Counting, Tick \/ \E i \in Streams : TimedOut(i)
  PROVE  Counting'
  <1>1. /\ UNCHANGED << test, svars, ready, taken, cidx, written, fin, arrived, insock >>
        /\ cpc' = cpc \/ (cpc = "sleep" /\ cpc' = "cookie")
        /\ lost[1] => lost'[1]
    BY Numbers DEF Tick, TimedOut, cvars, Setup, TypeOK
  <1>2. (Noticed => Noticed') /\ (Fresh => Fresh')
    BY <1>1 DEF Noticed, Fresh, svars
  <1>3. (Complete => Complete') /\ (Broken => Broken')
    BY <1>1 DEF Complete, Broken
  <1> QED BY <1>1, <1>2, <1>3 DEF Counting, svars

LEMMA CountingStutter == ASSUME Counting, UNCHANGED vars PROVE Counting'
  BY DEF Counting, Noticed, Fresh, Complete, Broken, vars, test, svars, cvars, qvars

LEMMA CountingNext == Setup /\ Setup' /\ PlainCounting /\ [Next]_vars => PlainCounting'
  <1>1. SUFFICES ASSUME Setup, Setup', PlainCounting, [Next]_vars, Plain' PROVE Counting'
    BY DEF PlainCounting
  <1>2. UNCHANGED test
    BY <1>1 DEF Next, Prompt, Client, Server, Quinn, CConnect, CConnected, CTestStart, CCookie, CRunning, CWrite,
       CFinish, CFinished, CPanics, SPoll, SListener, SAccepted, SStream, SCookie, SPanics, SRead, STestEnd,
       Deliver, Ack, Driver, TimedOut, Tick, vars
  <1>3. Plain /\ Counting
    BY <1>1, <1>2 DEF Plain, PlainCounting, test
  <1>4. CASE Client
    BY <1>1, <1>3, <1>4, CountingClient
  <1>5. CASE Server
    BY <1>1, <1>3, <1>5, CountingServer
  <1>6. CASE Quinn
    BY <1>1, <1>3, <1>6, CountingArrives, CountingDriver DEF Quinn
  <1>7. CASE \E i \in Streams : Ack(i) \/ TimedOut(i)
    BY <1>1, <1>3, <1>7, CountingArrives, CountingTime
  <1>8. CASE Tick
    BY <1>1, <1>3, <1>8, CountingTime
  <1>9. CASE UNCHANGED vars
    BY <1>3, <1>9, CountingStutter
  <1> QED BY <1>1, <1>4, <1>5, <1>6, <1>7, <1>8, <1>9 DEF Next, Prompt

\* Between two reads of a plain test the server has noticed what is in the
\* socket, has nothing but the cookie, has everything, or has lost the client.
THEOREM CountingInvariant == Spec => []PlainCounting
  BY SetupInvariant, CountingInit, CountingNext, PTL DEF Spec

-----------------------------------------------------------------------------
\* Every variable has its type, whatever quinn's threads do between the steps
\* of the two event loops, and no count passes its bound.
THEOREM QuicTypes == Spec => []TypeOK
  <1>1. Setup => TypeOK
    BY DEF Setup
  <1> QED BY <1>1, SetupInvariant, PTL

(* The order of the streams. *)

\* quic::client goes on to a connection when the one before is known, so that
\* it is known to no older an endpoint and its datagrams reach no older one.
Ordered ==
  /\ \A i \in 1..num_streams :
       (cpc = "connect" /\ i < cidx) \/ cpc \notin {"connect", "shake", "panic"} => home[i] # 0
  /\ \A i \in Streams : arrived[i] > 0 => home[i] # 0
  /\ \A i, j \in Streams : i < j =>
       /\ written[j] > 0 => home[i] # 0
       /\ home[j] # 0 => home[i] <= home[j]
       /\ \A e \in Streams : insock[e][j] > 0 => home[i] <= e

\* A step of the client adds to a connection only when those before are known.
LEMMA OrderedClient ==
  ASSUME Setup, Ordered, Client PROVE Ordered'
  <1> DEFINE K(p, c) == \A i \in 1..num_streams :
                          (p = "connect" /\ i < c) \/ p \notin {"connect", "shake", "panic"} => home[i] # 0
  <1>1. UNCHANGED << num_streams, arrived, home, insock >>
    BY DEF Client, CConnect, CConnected, CTestStart, CCookie, CRunning, CWrite, CFinish,
           CFinished, CPanics, test, qvars
  <1>2. cidx \in 1..num_streams /\ num_streams \in Streams /\ Streams \subseteq Nat
    BY Numbers DEF Setup, TypeOK, Sending
  <1>3. \A i \in 1..num_streams : i \in Streams
    BY <1>2, Numbers
  <1>4. K(cpc', cidx')
    <2>1. CASE CConnected
      <3>1. home[cidx] # 0
        <4>1. arrived[cidx] \in Nat /\ arrived[cidx] >= 1
          BY <1>2, <1>3, <2>1, Values DEF Setup, CConnected
        <4> QED BY <1>2, <1>3, <4>1 DEF Ordered
      <3>2. \A i \in 1..num_streams : i < cidx => home[i] # 0
        <4>1. written[cidx] = 1
          BY <1>2, <2>1 DEF Setup, Sending, CConnected
        <4> QED BY <1>2, <1>3, <4>1 DEF Ordered
      <3>3. \A i \in 1..num_streams : i <= cidx => home[i] # 0
        BY <1>2, <3>1, <3>2
      <3>4. \/ cpc' = "connect" /\ cidx' = cidx + 1
            \/ cpc' = "announced" /\ cidx = num_streams
        BY <1>2, <2>1 DEF CConnected, Then
      <3> QED BY <1>2, <3>3, <3>4
    <2>2. CASE ~CConnected
      <3>1. cpc' \notin {"shake", "panic"} => cpc \notin {"connect", "shake", "panic"} /\ cpc' # "connect"
        BY <2>2 DEF Client, CConnect, CTestStart, CCookie, CRunning, CWrite, CFinish,
                    CFinished, CPanics, Then
      <3> QED BY <3>1 DEF Ordered
    <2> QED BY <2>1, <2>2
  <1>5. \A i, j \in Streams : i < j /\ written'[j] > 0 => home[i] # 0
    <2>1. CASE written' = written
      BY <2>1 DEF Ordered
    <2>2. CASE Sends(cidx)
      <3> SUFFICES ASSUME NEW i \in Streams, NEW j \in Streams, i < j, written'[j] > 0
                   PROVE  home[i] # 0
        OBVIOUS
      <3>1. CASE j = cidx
        <4>1. i \in 1..num_streams /\ i < cidx
          BY <1>2, <3>1, Numbers
        <4>2. CASE cpc = "shake"
          <5>1. written[j] = 1
            BY <1>2, <3>1, <4>2 DEF Setup, Sending
          <5> QED BY <5>1 DEF Ordered
        <4>3. CASE cpc # "shake"
          <5>1. cpc = "connect" \/ cpc \notin {"connect", "shake", "panic"}
            BY <4>3 DEF Client, CConnect, CConnected, CTestStart, CCookie, CRunning, CWrite, CFinish,
                        CFinished, CPanics
          <5>2. CASE cpc # "panic"
            BY <4>1, <4>3, <5>2 DEF Ordered
          <5> QED BY <5>1, <5>2
        <4> QED BY <4>2, <4>3
      <3>2. CASE j # cidx
        <4>1. written'[j] = written[j]
          BY <2>2, <3>2 DEF Sends, Setup, TypeOK
        <4> QED BY <4>1 DEF Ordered
      <3> QED BY <3>1, <3>2
    <2>3. written' = written \/ Sends(cidx)
      BY DEF Client, CConnect, CConnected, CTestStart, CCookie, CRunning, CWrite, CFinish,
             CFinished, CPanics
    <2> QED BY <2>1, <2>2, <2>3
  <1> QED BY <1>1, <1>4, <1>5 DEF Ordered

\* A datagram reaches the newest endpoint, when all before it are known.
LEMMA OrderedArrives ==
  ASSUME Setup, Ordered, NEW k \in Streams, NEW n, Arrives(k, n), written[k] > 0,
         UNCHANGED << num_streams, cpc, cidx, written, arrived, home >>
  PROVE  Ordered'
  <1>1. \A i \in Streams : home[i] <= nsock
    BY DEF Setup, Endpoints
  <1>2. \A e, j \in Streams : insock'[e][j] > 0 => insock[e][j] > 0 \/ (e = nsock /\ j = k)
    <2>1. insock \in [Streams -> [Streams -> 0..(4 + MaxData)]]
      BY DEF Setup, TypeOK
    <2> QED BY <2>1 DEF Arrives
  <1> QED BY <1>1, <1>2 DEF Ordered

\* A driver makes a connection known only when all before it are, and none after.
LEMMA OrderedDriver ==
  ASSUME Setup, Ordered, NEW e \in Streams, NEW k \in Streams, Driver(e, k)
  PROVE  Ordered'
  <1>1. UNCHANGED << num_streams, cpc, cidx, written >>
    BY DEF Driver, test, cvars
  <1>2. e \in Nat /\ e > 0
    BY Numbers
  <1>3. \A d, j \in Streams : insock'[d][j] > 0 => insock[d][j] > 0
    <2>1. insock \in [Streams -> [Streams -> 0..(4 + MaxData)]]
      BY DEF Setup, TypeOK
    <2> QED BY <2>1 DEF Driver
  <1>4. CASE UNCHANGED << home, arrived >>
    BY <1>1, <1>3, <1>4 DEF Ordered
  <1>5. CASE home[k] \in {0, e}
    <2>1. home'[k] = e /\ \A i \in Streams : i # k => home'[i] = home[i] /\ arrived'[i] = arrived[i]
      BY <1>5 DEF Driver, Setup, TypeOK
    <2>2. \A i \in Streams : home[i] # 0 => home'[i] = home[i]
      BY <1>5, <2>1
    <2>3. \A i \in Streams : home[i] # 0 => home'[i] # 0
      BY <2>2
    <2>4. \A i \in Streams : arrived'[i] > 0 => home'[i] # 0
      BY <1>2, <2>1, <2>3 DEF Ordered
    <2>5. \A j \in Streams : /\ home[j] # 0 => written[j] > 0
                             /\ \A d \in Streams : insock[d][j] > 0 => written[j] > 0
      <3>1. \A j \in Streams : /\ home[j] # 0 => written[j] > 0
                               /\ \A d \in Streams : insock[d][j] <= written[j]
        BY DEF Setup, Flow
      <3>2. \A j \in Streams : written[j] \in Nat /\ \A d \in Streams : insock[d][j] \in Nat
        BY Values DEF Setup
      <3> QED BY <3>1, <3>2
    <2>6. insock[e][k] > 0
      BY DEF Driver
    <2>7. ASSUME NEW i \in Streams, NEW j \in Streams, i < j, home'[j] # 0
          PROVE  home'[i] <= home'[j]
      <3>1. CASE j = k
        BY <2>1, <2>6, <2>7, <3>1, Numbers DEF Ordered
      <3>2. CASE j # k
        <4>1. home'[j] = home[j] /\ home[j] # 0
          BY <2>1, <2>7, <3>2
        <4>2. home[i] # 0 /\ home[i] <= home[j]
          BY <2>5, <2>7, <4>1 DEF Ordered
        <4> QED BY <2>2, <4>1, <4>2
      <3> QED BY <3>1, <3>2
    <2>8. ASSUME NEW i \in Streams, NEW j \in Streams, i < j, NEW d \in Streams, insock'[d][j] > 0
          PROVE  home'[i] <= d
      <3>1. insock[d][j] > 0
        BY <1>3, <2>8
      <3>2. home[i] # 0 /\ home[i] <= d
        BY <2>5, <2>8, <3>1 DEF Ordered
      <3> QED BY <2>2, <3>2
    <2>9. \A i \in 1..num_streams : i \in Streams
      BY Numbers DEF Setup, TypeOK
    <2> QED BY <1>1, <2>3, <2>4, <2>7, <2>8, <2>9 DEF Ordered
  <1> QED BY <1>4, <1>5 DEF Driver

LEMMA OrderedNext == ASSUME Setup, Ordered, [Next]_vars PROVE Ordered'
  <1>1. CASE Client
    BY <1>1, OrderedClient
  <1>2. CASE Server \/ (\E i \in Streams : TimedOut(i)) \/ UNCHANGED vars
    <2>1. UNCHANGED << num_streams, cpc, cidx, written, arrived, home, insock >>
      BY <1>2 DEF Server, SPoll, SAccepted, SCookie, SRead, STestEnd, SPanics, SListener, SStream,
                  TimedOut, vars, test, cvars, qvars
    <2> QED BY <2>1 DEF Ordered
  <1>3. CASE Tick
    <2>1. UNCHANGED << num_streams, cidx, written, arrived, home, insock >>
      BY <1>3 DEF Tick, test
    <2>2. cpc' = cpc \/ (cpc = "sleep" /\ cpc' = "cookie")
      BY <1>3 DEF Tick
    <2> QED BY <2>1, <2>2 DEF Ordered
  <1>4. ASSUME NEW k \in Streams, Deliver(k) \/ Ack(k)
        PROVE  Ordered'
    <2>1. arrived[k] \in Nat /\ written[k] \in Nat /\ arrived[k] <= written[k]
      BY Values DEF Setup, Flow
    <2>2. written[k] > 0
      BY <1>4, <2>1 DEF Deliver, Ack
    <2>3. UNCHANGED << num_streams, cpc, cidx, written, arrived, home >>
      BY <1>4 DEF Deliver, Ack, test, cvars
    <2>4. \E n : Arrives(k, n)
      BY <1>4 DEF Deliver, Ack
    <2> QED BY <2>2, <2>3, <2>4, OrderedArrives
  <1>5. ASSUME NEW k \in Streams, NEW e \in Streams, Driver(e, k)
        PROVE  Ordered'
    BY <1>5, OrderedDriver
  <1> QED BY <1>1, <1>2, <1>3, <1>4, <1>5 DEF Next, Prompt, Quinn

\* The streams of the server are numbered as the client made its connections,
\* for every number of streams and whichever endpoint was first at a datagram:
\* the client awaits each connection before the next, and a connection is
\* known to no older an endpoint than the ones before it.
THEOREM QuicStreamOrder == Spec => []StreamOrder
  <1>1. Init => Ordered
    BY Numbers DEF Init, Ordered
  <1>2. Setup /\ Ordered => StreamOrder
    <2> SUFFICES ASSUME Setup, Ordered, NEW s \in 1..nstreams, NEW t \in 1..nstreams, s < t
                 PROVE  conn[s] < conn[t]
      BY DEF StreamOrder
    <2>1. /\ conn[s] \in Streams /\ home[conn[s]] = s
          /\ conn[t] \in Streams /\ home[conn[t]] = t
      BY DEF Setup, Connections
    <2>2. s \in Nat /\ t \in Nat /\ s # 0
      OBVIOUS
    <2>3. ~(conn[t] < conn[s])
      BY <2>1, <2>2 DEF Ordered
    <2>4. conn[t] # conn[s]
      BY <2>1, <2>2
    <2> QED BY <2>1, <2>3, <2>4, Numbers
  <1> QED BY <1>1, <1>2, SetupInvariant, OrderedNext, PTL DEF Spec

\* A server that handles TestEnd of a plain test has counted every block that
\* the client has written.
THEOREM QuicAllCounted == Spec => []AllCounted
  <1>1. PlainCounting => AllCounted
    BY DEF PlainCounting, Counting, Complete, AllCounted
  <1> QED BY <1>1, CountingInvariant, PTL

-----------------------------------------------------------------------------
(***************************************************************************)
(* Nothing that is unwrapped fails.  The argument is about time: half a    *)
(* second passes only when neither loop nor quinn can move, and a plain    *)
(* test is in such a state once, in the client's sleep.  So the connection *)
(* is never idle for the second that would lose it.                        *)
(***************************************************************************)

\* Before the server has accepted, and before it has the cookie, nothing gets
\* past its poll.
Unaccepted ==
  sstate = "CreateStreams" /\ spc = "poll" /\ batch = {} =>
    arrived[1] = 0 /\ (ready[1] <=> insock[1][1] > 0)
NoCookie ==
  sstate = "TestStart" /\ spc = "poll" /\ batch = {} =>
    arrived[1] <= 2 /\ (insock[1][1] > 0 => ready[1])

Alive ==
  /\ spc # "panic" /\ cpc # "panic"
  /\ ~dropped[1] /\ (arrived[1] > 0 => home[1] = 1)
  /\ lost[1] => sstate = "TestEnd"
  /\ sstate # "TestEnd" => idle[1] <= 1
  /\ cpc \in {"connect", "shake", "announced", "sleep"} => idle[1] = 0
  /\ cpc \notin {"connect", "shake", "announced"} => sstate # "CreateStreams"
  /\ sstate \in {"CreateStreams", "TestStart"} => taken[1] = 0
  /\ sstate = "TestEnd" => cpc = "ended"
  /\ Unaccepted /\ NoCookie

PlainAlive == Plain => Alive

LEMMA AliveInit == Init => PlainAlive
  <1>1. SUFFICES ASSUME Init PROVE Alive
    BY DEF PlainAlive
  <1> QED BY <1>1, Numbers DEF Init, Alive, Unaccepted, NoCookie

\* The numbers of the one connection.
LEMMA One ==
  ASSUME Setup, Plain
  PROVE  /\ 1 \in Streams /\ written[1] \in Nat /\ arrived[1] \in Nat /\ taken[1] \in Nat
         /\ insock[1][1] \in Nat /\ idle[1] \in Nat /\ home[1] \in {0, 1}
         /\ arrived[1] <= written[1] /\ insock[1][1] <= written[1]
         /\ lost[1] \in BOOLEAN /\ dropped[1] \in BOOLEAN /\ ready[1] \in BOOLEAN
  <1>1. 1 \in Streams
    BY Numbers
  <1>2. written[1] \in Nat /\ arrived[1] \in Nat /\ taken[1] \in Nat /\ insock[1][1] \in Nat /\ home[1] \in Nat
    BY <1>1, Values DEF Setup
  <1>3. idle[1] \in Nat
    <2>1. idle[1] \in 0..(max_idle_timeout + 1)
      BY <1>1 DEF Setup, TypeOK
    <2> QED BY <2>1 DEF max_idle_timeout
  <1>4. home[1] <= 1
    BY <1>1, PlainFacts DEF Setup, Endpoints
  <1>5. home[1] \in {0, 1}
    BY <1>2, <1>4
  <1>6. arrived[1] <= written[1] /\ insock[1][1] <= written[1]
    BY <1>1 DEF Setup, Flow
  <1>7. lost[1] \in BOOLEAN /\ dropped[1] \in BOOLEAN /\ ready[1] \in BOOLEAN
    BY <1>1 DEF Setup, TypeOK
  <1> QED BY <1>1, <1>2, <1>3, <1>5, <1>6, <1>7

\* When quinn has nothing to do, all that was written has arrived.
LEMMA QuinnDone ==
  ASSUME Setup, Plain, Alive, ~lost[1], ~ServerAble, ~QuinnAble
  PROVE  insock[1][1] = 0 /\ arrived[1] = written[1]
  <1>1. 1 \in Streams /\ nsock = 1 /\ mio_first
    BY One, PlainFacts
  <1>2. ~(spc = "poll" /\ ready[1])
    BY <1>1 DEF ServerAble
  <1>3. ~(insock[1][1] > 0)
    BY <1>1, <1>2 DEF QuinnAble
  <1>4. insock[1][1] = 0
    BY <1>3, One
  <1>5. ~(written[1] > arrived[1] /\ insock[1][1] < written[1])
    BY <1>1 DEF QuinnAble, Alive
  <1>6. arrived[1] = written[1]
    <2>1. PICK w \in Nat, a \in Nat : w = written[1] /\ a = arrived[1]
      BY One
    <2>2. a <= w /\ ~(w > a /\ 0 < w)
      BY <1>4, <1>5, <2>1, One
    <2>3. a = w
      BY <2>2
    <2> QED BY <2>1, <2>3
  <1> QED BY <1>4, <1>6

\* A server that waits while all has arrived.
LEMMA ServerDone ==
  ASSUME Setup, Plain, Alive, ~lost[1], ~ServerAble, insock[1][1] = 0
  PROVE  /\ sstate = "CreateStreams" => arrived[1] < 2
         /\ sstate = "TestStart" => arrived[1] <= 2
         /\ sstate = "TestRunning" =>
              cpc # "ended" \/ ~(fin[1] /\ arrived[1] = written[1])
  <1>1. /\ spc \in {"poll", "accept", "cookie", "read"} /\ 1 \in Streams /\ arrived[1] \in Nat
        /\ arrived[1] <= written[1] /\ nsock = 1
        /\ spc \in {"cookie", "read"} => conn[sidx] = 1
    BY One, PlainFacts DEF Setup, TypeOK, Alive
  <1>2. CASE spc = "poll"
    <2>1. batch = {} /\ ~ready[1] /\ ~(sstate = "TestRunning" /\ cpc = "ended")
      BY <1>1, <1>2 DEF ServerAble
    <2>2. sstate = "CreateStreams" => arrived[1] = 0
      BY <1>2, <2>1 DEF Alive, Unaccepted
    <2>3. sstate = "TestStart" => arrived[1] <= 2
      BY <1>2, <2>1 DEF Alive, NoCookie
    <2> QED BY <2>1, <2>2, <2>3
  <1>3. CASE spc = "accept"
    <2>1. sstate = "CreateStreams"
      BY <1>3 DEF Setup, Awaits
    <2>2. ASSUME arrived[1] >= 2 PROVE FALSE
      <3>1. 1 \in Incoming
        BY <1>1, <2>2 DEF Alive, Incoming
      <3>2. \A i \in Incoming : i = 1
        BY <1>1, PlainFacts DEF Incoming, Setup, Flow
      <3>3. Incoming \in SUBSET Streams
        BY DEF Incoming
      <3>4. Min(Incoming) = 1
        BY <3>1, <3>2, <3>3, MinMember
      <3> QED BY <1>3, <2>2, <3>1, <3>4 DEF ServerAble
    <2> QED BY <1>1, <2>1, <2>2
  <1>4. CASE spc = "cookie"
    <2>1. sstate = "TestStart" /\ taken[1] = 0
      BY <1>4 DEF Setup, Awaits, Alive
    <2>2. ~(arrived[1] >= 3)
      BY <1>1, <1>4, <2>1 DEF ServerAble
    <2> QED BY <1>1, <2>1, <2>2
  <1>5. CASE spc = "read"
    <2>1. sstate = "TestRunning"
      BY <1>5 DEF Setup, Awaits
    <2>2. ~(Readable(1) < arrived[1])
      BY <1>1, <1>5 DEF ServerAble
    <2>3. ~(fin[1] /\ arrived[1] = written[1])
      BY <1>1, <2>2 DEF Readable
    <2> QED BY <2>1, <2>3
  <1> QED BY <1>1, <1>2, <1>3, <1>4, <1>5

\* Only a sleeping client and a test that is over leave nothing to do.
LEMMA OnlySleep ==
  ASSUME Setup, Plain, Counting, Alive, ~lost[1], ~Able, sstate # "TestEnd"
  PROVE  cpc = "sleep"
  <1>1. ~ClientAble /\ ~ServerAble /\ ~QuinnAble
    BY DEF Able
  <1>2. insock[1][1] = 0 /\ arrived[1] = written[1] /\ written[1] \in Nat
    BY <1>1, QuinnDone, One
  <1>3. /\ sstate = "CreateStreams" => written[1] < 2
        /\ sstate = "TestStart" => written[1] <= 2
        /\ sstate = "TestRunning" => cpc # "ended" \/ ~fin[1]
    BY <1>1, <1>2, ServerDone
  <1>4. sstate \in {"CreateStreams", "TestStart", "TestRunning"} /\ cpc \in CPlaces /\ cidx = 1 /\ num_streams = 1
    BY PlainFacts DEF Setup, TypeOK, CPlaces
  <1>5. /\ cpc = "shake" => written[1] = 1
        /\ cpc = "announced" => written[1] = 2
        /\ cpc = "wait" => written[1] = 3
        /\ cpc = "send" => written[1] >= 3
    BY <1>4, Numbers DEF Setup, Sending
  <1>6. cpc \notin {"connect", "cookie", "next"}
    BY <1>1 DEF ClientAble
  <1>7. cpc # "shake"
    <2>1. SUFFICES ASSUME cpc = "shake" PROVE FALSE
      OBVIOUS
    <2>2. arrived[1] >= 1
      BY <1>2, <1>5, <2>1
    <2> QED BY <1>1, <1>4, <2>1, <2>2 DEF ClientAble
  <1>8. cpc # "announced"
    <2>1. SUFFICES ASSUME cpc = "announced" PROVE FALSE
      OBVIOUS
    <2>2. sstate = "CreateStreams"
      BY <1>1, <2>1 DEF ClientAble
    <2>3. written[1] < 2 /\ written[1] = 2
      BY <1>3, <1>5, <2>1, <2>2
    <2> QED BY <2>3
  <1>9. cpc # "wait"
    <2>1. SUFFICES ASSUME cpc = "wait" PROVE FALSE
      OBVIOUS
    <2>2. sstate # "TestRunning"
      BY <1>1, <2>1 DEF ClientAble
    <2>3. sstate = "TestStart"
      BY <1>4, <2>1, <2>2 DEF Alive
    <2>4. written[1] <= 2 /\ written[1] = 3
      BY <1>3, <1>5, <2>1, <2>3
    <2> QED BY <2>4
  <1>10. cpc # "send"
    <2>1. SUFFICES ASSUME cpc = "send" PROVE FALSE
      OBVIOUS
    <2>2. ~(written[1] < 3 + MaxData) /\ ~(written[1] > 3)
      BY <1>1, <1>4, <2>1 DEF ClientAble
    <2>3. MaxData \in Nat /\ MaxData > 0
      BY QuicAssumption
    <2> QED BY <1>2, <2>2, <2>3
  <1>11. cpc # "finish"
    BY <1>1, <1>2, <1>4 DEF ClientAble, finished
  <1>12. cpc # "ended"
    <2>1. SUFFICES ASSUME cpc = "ended" PROVE FALSE
      OBVIOUS
    <2>2. sstate = "TestRunning" /\ fin[1]
      BY <1>4, <2>1 DEF Counting
    <2> QED BY <1>3, <2>1, <2>2
  <1>13. cpc # "panic"
    BY DEF Alive
  <1> QED BY <1>4, <1>6, <1>7, <1>8, <1>9, <1>10, <1>11, <1>12, <1>13 DEF CPlaces

-----------------------------------------------------------------------------
\* The client goes on while its connection is in use.
LEMMA AliveClient ==
  ASSUME Setup, Plain, Alive, Client
  PROVE  Alive'
  <1>1. UNCHANGED << test, svars, ready, taken, qvars >>
    BY DEF Client, CConnect, CConnected, CTestStart, CCookie, CRunning, CWrite, CFinish, CFinished, CPanics
  <1>2. num_streams = 1 /\ cidx = 1 /\ ~(cidx < num_streams)
    BY PlainFacts
  <1>3. ~CPanics
    BY <1>2 DEF CPanics, Alive
  <1>4. /\ cpc' \in {"connect", "shake", "announced", "sleep"} =>
             cpc \in {"connect", "shake", "announced"}
        /\ cpc \notin {"connect", "shake", "announced"} \/ cpc' \in {"shake", "announced"}
             \/ sstate # "CreateStreams"
        /\ cpc # "ended" /\ cpc' # "panic"
    BY <1>2, <1>3 DEF Client, CConnect, CConnected, CTestStart, CCookie, CRunning, CWrite, CFinish, CFinished, Then
  <1>5. Unaccepted' /\ NoCookie'
    BY <1>1 DEF Alive, Unaccepted, NoCookie, svars, qvars
  <1>6. sstate # "TestEnd"
    BY <1>4 DEF Alive
  <1> QED BY <1>1, <1>4, <1>5, <1>6 DEF Alive, svars, qvars

\* The server accepts, takes the cookie and reads from a connection it has.
LEMMA AliveServer ==
  ASSUME Setup, Plain, Counting, Alive, Server
  PROVE  Alive'
  <1>1. UNCHANGED << test, cvars, qvars >>
    BY DEF Server, SPoll, SListener, SAccepted, SStream, SCookie, SPanics, SRead, STestEnd
  <1>2. /\ num_streams = 1 /\ nsock = 1 /\ 1 \in Streams /\ batch \subseteq {1}
        /\ \A e \in Streams : e # 1 => ~ready[e]
        /\ sstate # "CreateStreams" => nstreams = 1
        /\ spc \in {"cookie", "read"} => conn[sidx] = 1
        /\ insock[1][1] \in Nat
    BY PlainFacts, One
  <1>3. SUFFICES /\ spc' # "panic"
                 /\ sstate = "TestEnd" => sstate' = "TestEnd"
                 /\ sstate' = "TestEnd" => cpc = "ended"
                 /\ sstate' = "CreateStreams" => sstate = "CreateStreams"
                 /\ sstate' \in {"CreateStreams", "TestStart"} => taken'[1] = 0
                 /\ Unaccepted' /\ NoCookie'
    BY <1>1 DEF Alive, cvars, qvars
  <1>4. CASE SPoll
    <2>1. /\ spc = "poll" /\ batch = {} /\ \E e \in Streams : ready[e]
          /\ batch' = {e \in Streams : ready[e] /\ Pending(e)}
          /\ ready' = [e \in Streams |-> FALSE] /\ UNCHANGED << sstate, spc, taken >>
      BY <1>4 DEF SPoll
    <2>2. ready[1]
      BY <1>2, <2>1
    <2>3. insock[1][1] > 0 => 1 \in batch'
      BY <1>2, <2>1, <2>2 DEF Pending
    <2>4. Unaccepted'
      BY <2>1, <2>2, <2>3 DEF Alive, Unaccepted
    <2>5. NoCookie'
      BY <1>1, <2>1, <2>3 DEF Alive, NoCookie, qvars
    <2> QED BY <2>1, <2>4, <2>5 DEF Alive
  <1>5. CASE \E e \in Streams : SListener(e)
    <2>1. UNCHANGED << sstate, taken >> /\ spc' = "accept"
      BY <1>5 DEF SListener
    <2> QED BY <2>1 DEF Alive, Unaccepted, NoCookie
  <1>6. CASE SAccepted
    <2>1. /\ spc = "accept" /\ spc' = "poll" /\ UNCHANGED << batch, taken >>
          /\ ready' = [ready EXCEPT ![1] = Pending(1)]
          /\ nstreams' = nstreams + 1
          /\ sstate' = IF nstreams' = num_streams THEN "TestStart" ELSE sstate
      BY <1>2, <1>6 DEF SAccepted
    <2>2. sstate = "CreateStreams" /\ nstreams = 0
      <3>1. sstate = "CreateStreams" /\ nstreams < 1 /\ nstreams \in Nat
        BY <1>2, <2>1, Numbers DEF Setup, TypeOK, Awaits, Endpoints
      <3> QED BY <3>1
    <2>3. sstate' = "TestStart"
      BY <1>2, <2>1, <2>2
    <2>4. written[1] <= 2
      <3>1. cpc \in {"connect", "shake", "announced"}
        BY <2>2 DEF Alive
      <3>2. written[1] \in {0, 1, 2}
        BY <1>2, <3>1, PlainFacts, Numbers DEF Setup, Sending
      <3> QED BY <3>2
    <2>5. arrived[1] <= 2
      BY <2>4, One
    <2>6. insock[1][1] > 0 => ready'[1]
      BY <1>2, <2>1 DEF Pending, Setup, TypeOK
    <2>7. NoCookie' /\ Unaccepted'
      BY <1>1, <2>3, <2>5, <2>6 DEF NoCookie, Unaccepted, qvars
    <2> QED BY <2>1, <2>2, <2>3, <2>7 DEF Alive
  <1>7. CASE \E e \in Streams : SStream(e)
    <2>1. PICK e \in Streams : SStream(e)
      BY <1>7
    <2>2. /\ e <= nstreams /\ UNCHANGED << sstate, taken >>
          /\ spc' = CASE sstate = "TestStart" -> "cookie"
                      [] sstate = "TestRunning" -> "read"
                      [] OTHER -> "poll"
      BY <2>1 DEF SStream
    <2>3. sstate # "CreateStreams"
      <3>1. e \in Nat /\ e > 0 /\ nstreams \in Nat
        BY Numbers DEF Setup, TypeOK
      <3> QED BY <1>2, <2>2, <3>1 DEF Setup, Endpoints
    <2>4. spc' # "panic" /\ (sstate = "TestStart" => spc' = "cookie")
      BY <2>2
    <2> QED BY <2>2, <2>3, <2>4 DEF Alive, Unaccepted, NoCookie
  <1>8. CASE SCookie
    <2>1. /\ spc = "cookie" /\ spc' = "poll" /\ cookie_count' = cookie_count + 1
          /\ sstate' = IF LastCookie(cookie_count') THEN "TestRunning" ELSE sstate
      BY <1>8 DEF SCookie
    <2>2. cookie_count \in Nat /\ cookie_count < 1
      BY <1>2, <2>1, Numbers DEF Setup, Awaits, TypeOK
    <2>3. cookie_count' = 1
      BY <2>1, <2>2
    <2>4. sstate = "TestStart" /\ sstate' = "TestRunning"
      BY <1>2, <2>1, <2>3 DEF LastCookie, Setup, Awaits
    <2> QED BY <2>1, <2>4 DEF Unaccepted, NoCookie
  <1>9. CASE SRead
    <2>1. spc = "read" /\ spc' \in {"read", "poll"} /\ UNCHANGED sstate
      BY <1>9 DEF SRead
    <2>2. sstate = "TestRunning"
      BY <2>1 DEF Setup, Awaits
    <2> QED BY <2>1, <2>2 DEF Unaccepted, NoCookie
  <1>10. CASE STestEnd
    <2>1. spc' = "poll" /\ cpc = "ended" /\ sstate' = "TestEnd"
      BY <1>10 DEF STestEnd
    <2> QED BY <2>1 DEF Unaccepted, NoCookie
  <1>11. CASE SPanics
    <2>1. \/ spc = "accept" /\ Incoming # {} /\ lost[Min(Incoming)]
          \/ spc = "cookie" /\ lost[conn[sidx]]
      BY <1>11 DEF SPanics
    <2>2. spc = "accept" /\ Incoming # {} => Min(Incoming) = 1
      <3>1. SUFFICES ASSUME Incoming # {} PROVE Min(Incoming) = 1
        OBVIOUS
      <3>2. \A i \in Incoming : i = 1
        BY <1>2, PlainFacts DEF Incoming, Setup, Flow
      <3>3. Incoming \in SUBSET Streams
        BY DEF Incoming
      <3> QED BY <3>1, <3>2, <3>3, MinMember
    <2>3. lost[1] /\ spc \in {"accept", "cookie"}
      BY <1>2, <2>1, <2>2
    <2> QED BY <2>3 DEF Alive, Setup, Awaits
  <1> QED BY <1>4, <1>5, <1>6, <1>7, <1>8, <1>9, <1>10, <1>11 DEF Server

\* The one endpoint's driver drops nothing, and takes nothing before the poll
\* has seen it.
LEMMA AliveDriver ==
  ASSUME Setup, Plain, Alive, NEW e \in Streams, NEW i \in Streams, Driver(e, i)
  PROVE  Alive'
  <1>1. /\ UNCHANGED << test, svars, ready, taken, cvars, lost >>
        /\ insock[e][i] > 0 /\ (mio_first => ~(spc = "poll" /\ batch = {} /\ ready[e]))
    BY DriverFacts
  <1>2. e = 1 /\ i = 1 /\ mio_first /\ 1 \in Streams
    BY <1>1, PlainFacts
  <1>3. home[1] \in {0, 1}
    BY One
  <1>4. /\ home' = [home EXCEPT ![1] = 1] /\ idle' = [idle EXCEPT ![1] = 0] /\ UNCHANGED dropped
    BY <1>2, <1>3, DriverFacts
  <1>5. home'[1] = 1 /\ idle'[1] = 0
    BY <1>2, <1>4 DEF Setup, TypeOK
  <1>6. Unaccepted' /\ NoCookie'
    BY <1>1, <1>2 DEF Alive, Unaccepted, NoCookie, svars
  <1> QED BY <1>1, <1>4, <1>5, <1>6 DEF Alive, svars, cvars

LEMMA AliveArrives ==
  ASSUME Setup, Plain, Alive, NEW i \in Streams, Deliver(i) \/ Ack(i)
  PROVE  Alive'
  <1>1. /\ UNCHANGED << test, svars, taken, cvars, arrived, home, dropped, idle, lost >>
        /\ ready' = [ready EXCEPT ![nsock] = TRUE]
    BY DEF Deliver, Ack, Arrives
  <1>2. ready'[1] /\ nsock = 1 /\ 1 \in Streams
    BY <1>1, PlainFacts, Numbers DEF Setup, TypeOK
  <1>3. i = 1
    <2>1. written[i] > 0
      <3>1. written[i] \in Nat /\ arrived[i] \in Nat /\ arrived[i] <= written[i]
        BY Values DEF Setup, Flow
      <3>2. written[i] > arrived[i] \/ arrived[i] >= 2
        BY DEF Deliver, Ack
      <3> QED BY <3>1, <3>2
    <2> QED BY <2>1, PlainFacts
  <1>4. arrived[1] = 0 => insock'[1][1] > 0
    <2>1. SUFFICES ASSUME arrived[1] = 0 PROVE insock'[1][1] > 0
      OBVIOUS
    <2>2. insock' = [insock EXCEPT ![1][1] = written[1]] /\ written[1] > 0
      BY <1>2, <1>3, <2>1 DEF Deliver, Ack, Arrives
    <2>3. insock'[1][1] = written[1]
      BY <1>2, <2>2 DEF Setup, TypeOK
    <2> QED BY <2>2, <2>3
  <1>5. Unaccepted' /\ NoCookie'
    BY <1>1, <1>2, <1>4 DEF Alive, Unaccepted, NoCookie, svars
  <1> QED BY <1>1, <1>5 DEF Alive, svars, cvars

\* A connection that times out has been idle for a second: the test is over.
LEMMA AliveTimedOut ==
  ASSUME Setup, Plain, Alive, NEW i \in Streams, TimedOut(i)
  PROVE  Alive'
  <1>1. /\ idle[i] >= 2 /\ lost' = [lost EXCEPT ![i] = TRUE]
        /\ UNCHANGED << test, svars, ready, taken, cvars, arrived, home, insock, dropped, idle >>
    BY DEF TimedOut, max_idle_timeout
  <1>2. lost'[1] => sstate = "TestEnd"
    <2>1. CASE i = 1
      <3>1. ~(idle[1] <= 1)
        BY <1>1, <2>1, One
      <3> QED BY <3>1 DEF Alive
    <2>2. CASE i # 1
      BY <1>1, <2>2, Numbers DEF Alive, Setup, TypeOK
    <2> QED BY <2>1, <2>2
  <1>3. Unaccepted' /\ NoCookie'
    BY <1>1 DEF Alive, Unaccepted, NoCookie, svars
  <1> QED BY <1>1, <1>2, <1>3 DEF Alive, svars, cvars

\* Half a second of a test that is not over is the client's sleep.
LEMMA AliveTick ==
  ASSUME Setup, Plain, Counting, Alive, Tick
  PROVE  Alive'
  <1>1. /\ ~Able /\ cpc' = IF cpc = "sleep" THEN "cookie" ELSE cpc
        /\ idle' = [k \in Streams |-> IF written[k] > 0 /\ ~lost[k] THEN idle[k] + 1 ELSE 0]
        /\ dropped' = [k \in Streams |-> FALSE]
        /\ UNCHANGED << test, svars, ready, taken, cidx, written, fin, arrived, home, insock, lost, acks >>
    BY DEF Tick
  <1>2. 1 \in Streams /\ ~dropped'[1]
    BY <1>1, Numbers
  <1>3. Unaccepted' /\ NoCookie'
    BY <1>1 DEF Alive, Unaccepted, NoCookie, svars
  <1>4. CASE sstate = "TestEnd"
    <2>1. cpc = "ended" /\ cpc' = "ended" /\ sstate' = "TestEnd"
      BY <1>1, <1>4 DEF Alive, svars
    <2> QED BY <1>1, <1>2, <1>3, <2>1 DEF Alive, svars
  <1>5. CASE sstate # "TestEnd"
    <2>1. ~lost[1]
      BY <1>5 DEF Alive
    <2>2. cpc = "sleep" /\ cpc' = "cookie" /\ idle[1] = 0
      BY <1>1, <1>5, <2>1, OnlySleep DEF Alive
    <2>3. idle'[1] \in {0, 1}
      BY <1>1, <1>2, <2>2
    <2>4. idle'[1] <= 1
      BY <2>3
    <2> QED BY <1>1, <1>2, <1>3, <1>5, <2>1, <2>2, <2>4 DEF Alive, svars
  <1> QED BY <1>4, <1>5

LEMMA AliveStutter == ASSUME Alive, UNCHANGED vars PROVE Alive'
  BY DEF Alive, Unaccepted, NoCookie, vars, test, svars, cvars, qvars

LEMMA AliveNext == Setup /\ PlainCounting /\ PlainAlive /\ [Next]_vars => PlainAlive'
  <1>1. SUFFICES ASSUME Setup, PlainCounting, PlainAlive, [Next]_vars, Plain' PROVE Alive'
    BY DEF PlainAlive
  <1>2. UNCHANGED test
    BY <1>1 DEF Next, Prompt, Client, Server, Quinn, CConnect, CConnected, CTestStart, CCookie, CRunning, CWrite,
       CFinish, CFinished, CPanics, SPoll, SListener, SAccepted, SStream, SCookie, SPanics, SRead, STestEnd,
       Deliver, Ack, Driver, TimedOut, Tick, vars
  <1>3. Plain /\ Counting /\ Alive
    BY <1>1, <1>2 DEF Plain, PlainCounting, PlainAlive, test
  <1>4. CASE Client
    BY <1>1, <1>3, <1>4, AliveClient
  <1>5. CASE Server
    BY <1>1, <1>3, <1>5, AliveServer
  <1>6. CASE Quinn
    BY <1>1, <1>3, <1>6, AliveArrives, AliveDriver DEF Quinn
  <1>7. CASE \E i \in Streams : Ack(i) \/ TimedOut(i)
    BY <1>1, <1>3, <1>7, AliveArrives, AliveTimedOut
  <1>8. CASE Tick
    BY <1>1, <1>3, <1>8, AliveTick
  <1>9. CASE UNCHANGED vars
    BY <1>3, <1>9, AliveStutter
  <1> QED BY <1>1, <1>4, <1>5, <1>6, <1>7, <1>8, <1>9 DEF Next, Prompt

\* In a plain test no connect, accept, open_uni, cookie or finish unwraps an
\* error, for every number of blocks: the connection is never idle for the
\* second of max_idle_timeout before TestEnd, although both sides wait in
\* handlers and nothing sends a keep-alive.
THEOREM QuicNoPanic == Spec => []NoPanic
  <1>1. PlainAlive => NoPanic
    BY DEF PlainAlive, Alive, NoPanic
  <1>2. Spec => []PlainAlive
    BY SetupInvariant, CountingInvariant, AliveInit, AliveNext, PTL DEF Spec
  <1> QED BY <1>1, <1>2, PTL
=============================================================================
