---------------------------- MODULE QuicStreams ----------------------------
(***************************************************************************)
(* A QUIC test from the first connection to TestEnd.  quinn is external:   *)
(* its drivers run on threads of their own, so that a connection is set up *)
(* and its stream is received without either event loop.  nperf registers  *)
(* the endpoint's socket with mio as well, and awaits quinn's futures      *)
(* inside its handlers.                                                    *)
(*                                                                         *)
(* What a client connection sends is one numbered sequence: 1 the Initial, *)
(* 2 the end of the handshake, 3 the stream with the cookie, then blocks   *)
(* and the end of the stream.                                              *)
(***************************************************************************)
EXTENDS Naturals, FiniteSets, FiniteSetsExt

CONSTANTS
  MaxStreams,   \* bound: Settings.num_streams
  MaxData,      \* bound: blocks per stream
  MaxAcks       \* bound: datagrams that carry no part of the sequence

ASSUME QuicAssumption ==
  MaxStreams \in 1..255 /\ MaxData \in Nat \ {0} /\ MaxAcks \in Nat

Streams == 1..MaxStreams

VARIABLES
  num_streams,     \* Settings.num_streams
  mio_first,       \* in this test a waiting poll sees a datagram before quinn takes it
  sstate,          \* test.state of the server
  spc, sidx,       \* poll, or the await it is in: accept, cookie, read; its stream
  nstreams, nsock, \* test.streams.len(), endpoints bound
  conn,            \* conn[s]: the connection of stream s
  ready, batch,    \* mio's ready list and events, by endpoint
  cookie_count,
  cpc, cidx,       \* the client's await or sleep, and its stream
  written,         \* written[i]: what connection i has sent
  fin,             \* fin[i]: the last of it is the end of the stream
  arrived,         \* arrived[i]: what the server's quinn has
  taken,           \* taken[i]: what the server has read
  home,            \* home[i]: the endpoint that knows connection i, or 0
  insock,          \* insock[e][i]: newest datagram of i in endpoint e's socket
  dropped,         \* dropped[i]: waits for its retransmission timer
  idle, lost,      \* idle[i]: half seconds without a packet; timed out
  acks

svars == << sstate, spc, sidx, nstreams, nsock, conn, batch, cookie_count >>
cvars == << cpc, cidx, written, fin >>
qvars == << arrived, home, insock, dropped, idle, lost, acks >>
test == << num_streams, mio_first >>
vars == << test, svars, ready, taken, cvars, qvars >>

Init ==
  /\ num_streams \in Streams /\ mio_first \in BOOLEAN
  /\ sstate = "CreateStreams" /\ spc = "poll" /\ sidx = 1
  /\ nstreams = 0 /\ nsock = 1 /\ conn = [s \in Streams |-> 0]
  /\ ready = [e \in Streams |-> FALSE] /\ batch = {} /\ cookie_count = 0
  /\ cpc = "connect" /\ cidx = 1
  /\ written = [i \in Streams |-> 0] /\ fin = [i \in Streams |-> FALSE]
  /\ arrived = [i \in Streams |-> 0] /\ taken = [i \in Streams |-> 0]
  /\ home = [i \in Streams |-> 0]
  /\ insock = [e \in Streams |-> [i \in Streams |-> 0]]
  /\ dropped = [i \in Streams |-> FALSE]
  /\ idle = [i \in Streams |-> 0] /\ lost = [i \in Streams |-> FALSE] /\ acks = 0

\* Mutants: wrong limits; the timeout is half a second; finish is not awaited.
OneMoreSocket(n) == n <= num_streams
OneMoreCookie(n) == n > num_streams
HalfSecond == 1
NotAwaited(i) == TRUE

NeedsSocket(n) == n < num_streams
LastCookie(n) == n = num_streams
\* transport_config: max_idle_timeout, in half seconds.
max_idle_timeout == 2
\* SendStream::finish: the peer has acknowledged everything.
finished(i) == arrived[i] = written[i]

-----------------------------------------------------------------------------
Sends(i) == written' = [written EXCEPT ![i] = @ + 1]

\* The client's place after stream cidx: the loop's next round, or the next phase.
Then(again, next) ==
  IF cidx < num_streams THEN cpc' = again /\ cidx' = cidx + 1 ELSE cpc' = next /\ cidx' = 1

\* quic::client: connect_with, and its await.
CConnect ==
  /\ cpc = "connect" /\ cpc' = "shake" /\ Sends(cidx)
  /\ UNCHANGED << test, svars, ready, taken, cidx, fin, qvars >>

\* Mutant: the connection is handed on before its handshake is over.
CConnecting ==
  /\ cpc = "shake" /\ ~lost[cidx]
  /\ Sends(cidx) /\ Then("connect", "announced")
  /\ UNCHANGED << test, svars, ready, taken, fin, qvars >>

CConnected ==
  /\ cpc = "shake" /\ arrived[cidx] >= 1 /\ ~lost[cidx]
  /\ Sends(cidx) /\ Then("connect", "announced")
  /\ UNCHANGED << test, svars, ready, taken, fin, qvars >>

\* TestStart: half a second of sleep before each stream's open_uni and cookie.
CTestStart ==
  /\ cpc = "announced" /\ sstate # "CreateStreams"
  /\ cpc' = "sleep"
  /\ UNCHANGED << test, svars, ready, taken, cidx, written, fin, qvars >>

CCookie ==
  /\ cpc = "cookie" /\ ~lost[cidx]
  /\ Sends(cidx) /\ Then("sleep", "wait")
  /\ UNCHANGED << test, svars, ready, taken, fin, qvars >>

CRunning ==
  /\ cpc = "wait" /\ sstate = "TestRunning"
  /\ cpc' = "send"
  /\ UNCHANGED << test, svars, ready, taken, cidx, written, fin, qvars >>

\* quic::write of one block.
CWrite ==
  /\ cpc = "send" /\ ~lost[cidx] /\ written[cidx] < 3 + MaxData
  /\ Sends(cidx)
  /\ cidx' = IF cidx < num_streams THEN cidx + 1 ELSE 1
  /\ UNCHANGED << test, svars, ready, taken, cpc, fin, qvars >>

\* The time is over: the loop ends, and each stream is finished in turn.
CFinish ==
  /\ cpc \in {"send", "next"} /\ (cpc = "send" => cidx = 1 /\ written[1] > 3)
  /\ cpc' = "finish"
  /\ Sends(cidx) /\ fin' = [fin EXCEPT ![cidx] = TRUE]
  /\ UNCHANGED << test, svars, ready, taken, cidx, qvars >>

CFinished ==
  /\ cpc = "finish" /\ finished(cidx) /\ ~lost[cidx]
  /\ Then("next", "ended")
  /\ UNCHANGED << test, svars, ready, taken, written, fin, qvars >>

\* connect, open_uni and finish unwrap what a lost connection returns.
CPanics ==
  /\ cpc \in {"shake", "cookie", "finish"} /\ lost[cidx]
  /\ cpc' = "panic"
  /\ UNCHANGED << test, svars, ready, taken, cidx, written, fin, qvars >>

-----------------------------------------------------------------------------
Pending(e) == \E i \in Streams : insock[e][i] > 0

SPoll ==
  /\ spc = "poll" /\ batch = {} /\ \E e \in Streams : ready[e]
  /\ batch' = {e \in Streams : ready[e] /\ Pending(e)}
  /\ ready' = [e \in Streams |-> FALSE]
  /\ UNCHANGED << test, sstate, spc, sidx, nstreams, nsock, conn, cookie_count, taken, cvars, qvars >>

\* A QUIC_LISTENER event: create_quic_stream awaits a connection.
SListener(e) ==
  /\ spc = "poll" /\ e \in batch /\ e > nstreams
  /\ spc' = "accept" /\ batch' = {}
  /\ UNCHANGED << test, sstate, sidx, nstreams, nsock, conn, cookie_count, ready, taken, cvars, qvars >>

\* The connections the current endpoint can give out.
Incoming == {i \in Streams : home[i] = nsock}

SAccepted ==
  /\ spc = "accept" /\ Incoming # {}
  /\ LET i == Min(Incoming) IN
       /\ arrived[i] >= 2 /\ ~lost[i]
       /\ conn' = [conn EXCEPT ![nsock] = i]
  /\ ready' = [ready EXCEPT ![nsock] = Pending(nsock)]
  /\ nstreams' = nstreams + 1
  /\ nsock' = IF NeedsSocket(nstreams') THEN nsock + 1 ELSE nsock
  /\ sstate' = IF nstreams' = num_streams THEN "TestStart" ELSE sstate
  /\ spc' = "poll"
  /\ UNCHANGED << test, sidx, batch, cookie_count, taken, cvars, qvars >>

\* A stream's event starts an await that nothing but its stream ends.
SStream(e) ==
  /\ spc = "poll" /\ e \in batch /\ e <= nstreams
  /\ batch' = IF sstate = "CreateStreams" THEN {} ELSE batch \ {e}
  /\ sidx' = e
  /\ spc' = CASE sstate = "TestStart" -> "cookie"
              [] sstate = "TestRunning" -> "read"
              [] OTHER -> "poll"
  /\ UNCHANGED << test, sstate, nstreams, nsock, conn, cookie_count, ready, taken, cvars, qvars >>

\* accept_uni and read_cookie; a stream that was already accepted is no other.
SCookie ==
  LET i == conn[sidx] IN
  /\ spc = "cookie" /\ arrived[i] >= 3 /\ taken[i] = 0 /\ ~lost[i]
  /\ taken' = [taken EXCEPT ![i] = 3]
  /\ cookie_count' = cookie_count + 1
  /\ sstate' = IF LastCookie(cookie_count') THEN "TestRunning" ELSE sstate
  /\ spc' = "poll"
  /\ UNCHANGED << test, sidx, nstreams, nsock, conn, batch, ready, cvars, qvars >>

\* accept, the handshake, accept_uni and the cookie unwrap as well.
SPanics ==
  /\ CASE spc = "accept" -> Incoming # {} /\ lost[Min(Incoming)]
       [] spc = "cookie" -> lost[conn[sidx]]
       [] OTHER -> FALSE
  /\ spc' = "panic"
  /\ UNCHANGED << test, sstate, sidx, nstreams, nsock, conn, batch, cookie_count, ready, taken, cvars, qvars >>

\* The blocks of connection i that quinn has for the reader.
Readable(i) == IF fin[i] /\ arrived[i] = written[i] THEN arrived[i] - 1 ELSE arrived[i]

\* quic::read: there is no WouldBlock, it returns with data or with an error
\* (the end of the stream, or a lost connection), which ends the loop.
SRead ==
  LET i == conn[sidx] IN
  /\ spc = "read"
  /\ \/ /\ taken[i] < Readable(i)
        /\ taken' = [taken EXCEPT ![i] = Readable(i)] /\ UNCHANGED spc
     \/ /\ taken[i] = Readable(i) /\ (lost[i] \/ Readable(i) < arrived[i])
        /\ spc' = "poll" /\ UNCHANGED taken
  /\ UNCHANGED << test, sstate, sidx, nstreams, nsock, conn, batch, cookie_count, ready, cvars, qvars >>

\* The client's TestEnd on the control connection.
STestEnd ==
  /\ spc = "poll" /\ batch = {} /\ sstate = "TestRunning" /\ cpc = "ended"
  /\ sstate' = "TestEnd"
  /\ UNCHANGED << test, spc, sidx, nstreams, nsock, conn, batch, cookie_count, ready, taken, cvars, qvars >>

-----------------------------------------------------------------------------
\* Of the sockets bound to the port the kernel gives a datagram to the newest.
Arrives(i, n) ==
  /\ ~lost[i]
  /\ insock' = [insock EXCEPT ![nsock][i] = n]
  /\ ready' = [ready EXCEPT ![nsock] = TRUE]

Deliver(i) ==
  /\ written[i] > arrived[i] /\ insock[nsock][i] < written[i] /\ ~dropped[i]
  /\ Arrives(i, written[i])
  /\ UNCHANGED << test, svars, taken, cvars, arrived, home, dropped, idle, lost, acks >>

Ack(i) ==
  /\ arrived[i] >= 2 /\ insock[nsock][i] = 0 /\ acks < MaxAcks
  /\ Arrives(i, arrived[i]) /\ acks' = acks + 1
  /\ UNCHANGED << test, svars, taken, cvars, arrived, home, dropped, idle, lost >>

\* quinn's driver of endpoint e takes a datagram: of a connection it knows or
\* a new one; what belongs to another endpoint is dropped.
Driver(e, i) ==
  /\ insock[e][i] > 0
  /\ mio_first => ~(spc = "poll" /\ batch = {} /\ ready[e])
  /\ insock' = [insock EXCEPT ![e][i] = 0]
  /\ IF home[i] \in {0, e}
       THEN /\ home' = [home EXCEPT ![i] = e]
            /\ arrived' = [arrived EXCEPT ![i] = IF insock[e][i] > @ THEN insock[e][i] ELSE @]
            /\ idle' = [idle EXCEPT ![i] = 0]
            /\ UNCHANGED dropped
       ELSE dropped' = [dropped EXCEPT ![i] = TRUE] /\ UNCHANGED << home, arrived, idle >>
  /\ UNCHANGED << test, svars, ready, taken, cvars, lost, acks >>

TimedOut(i) ==
  /\ idle[i] >= max_idle_timeout /\ ~lost[i]
  /\ lost' = [lost EXCEPT ![i] = TRUE]
  /\ UNCHANGED << test, svars, ready, taken, cvars, arrived, home, insock, dropped, idle, acks >>

Client ==
  \/ CConnect \/ CConnected \/ CTestStart \/ CCookie \/ CRunning
  \/ CWrite \/ CFinish \/ CFinished \/ CPanics
Server ==
  \/ SPoll \/ SAccepted \/ SCookie \/ SRead \/ STestEnd \/ SPanics
  \/ \E e \in Streams : SListener(e) \/ SStream(e)
Quinn == \E i \in Streams : Deliver(i) \/ \E e \in Streams : Driver(e, i)
Prompt == Client \/ Server \/ Quinn

\* An await of either side is over, or it is in none: the guards of Prompt.
ClientAble ==
  CASE cpc \in {"connect", "cookie", "next"} -> TRUE
    [] cpc = "shake" -> arrived[cidx] >= 1 \/ lost[cidx]
    [] cpc = "announced" -> sstate # "CreateStreams"
    [] cpc = "wait" -> sstate = "TestRunning"
    [] cpc = "send" -> \/ ~lost[cidx] /\ written[cidx] < 3 + MaxData
                       \/ cidx = 1 /\ written[1] > 3
    [] cpc = "finish" -> finished(cidx) \/ lost[cidx]
    [] OTHER -> FALSE
ServerAble ==
  LET i == conn[sidx] IN
  CASE spc = "poll" -> \/ batch # {} \/ \E e \in Streams : ready[e]
                       \/ sstate = "TestRunning" /\ cpc = "ended"
    [] spc = "accept" -> Incoming # {} /\ (arrived[Min(Incoming)] >= 2 \/ lost[Min(Incoming)])
    [] spc = "cookie" -> lost[i] \/ (arrived[i] >= 3 /\ taken[i] = 0)
    [] spc = "read" -> taken[i] < Readable(i) \/ lost[i] \/ Readable(i) < arrived[i]
    [] OTHER -> FALSE
QuinnAble ==
  \E i \in Streams :
    \/ ~lost[i] /\ written[i] > arrived[i] /\ insock[nsock][i] < written[i] /\ ~dropped[i]
    \/ \E e \in Streams :
         insock[e][i] > 0 /\ (mio_first => ~(spc = "poll" /\ batch = {} /\ ready[e]))
Able == ClientAble \/ ServerAble \/ QuinnAble

\* Half a second passes when nothing else is left to do: it ends a sleep, and
\* a connection in use is idle for that much longer.
Tick ==
  /\ ~Able
  /\ \A i \in Streams : idle[i] <= max_idle_timeout
  /\ cpc = "sleep" \/ \E i \in Streams : written[i] > 0 /\ ~lost[i]
  /\ cpc' = IF cpc = "sleep" THEN "cookie" ELSE cpc
  /\ idle' = [i \in Streams |-> IF written[i] > 0 /\ ~lost[i] THEN idle[i] + 1 ELSE 0]
  /\ dropped' = [i \in Streams |-> FALSE]
  /\ UNCHANGED << test, svars, ready, taken, cidx, written, fin, arrived, home, insock, lost, acks >>

Next == Prompt \/ (\E i \in Streams : Ack(i) \/ TimedOut(i)) \/ Tick

Spec == Init /\ [][Next]_vars
FairSpec ==
  /\ Spec
  /\ WF_vars(Client) /\ WF_vars(Server) /\ WF_vars(Quinn) /\ WF_vars(Tick)
  /\ \A i \in Streams : WF_vars(TimedOut(i))

-----------------------------------------------------------------------------
\* Every variable has its type.
TypeOK ==
  /\ num_streams \in Streams /\ mio_first \in BOOLEAN
  /\ sstate \in {"CreateStreams", "TestStart", "TestRunning", "TestEnd"}
  /\ spc \in {"poll", "accept", "cookie", "read", "panic"} /\ sidx \in Streams
  /\ nstreams \in 0..MaxStreams /\ nsock \in Streams /\ cookie_count \in 0..MaxStreams
  /\ conn \in [Streams -> 0..MaxStreams] /\ home \in [Streams -> 0..MaxStreams]
  /\ ready \in [Streams -> BOOLEAN] /\ batch \subseteq Streams
  /\ cpc \in {"connect", "shake", "announced", "sleep", "cookie", "wait", "send",
              "next", "finish", "ended", "panic"}
  /\ cidx \in Streams
  /\ written \in [Streams -> 0..(4 + MaxData)] /\ arrived \in [Streams -> 0..(4 + MaxData)]
  /\ taken \in [Streams -> 0..(3 + MaxData)] /\ fin \in [Streams -> BOOLEAN]
  /\ insock \in [Streams -> [Streams -> 0..(4 + MaxData)]]
  /\ dropped \in [Streams -> BOOLEAN] /\ lost \in [Streams -> BOOLEAN]
  /\ idle \in [Streams -> 0..(max_idle_timeout + 1)] /\ acks \in 0..MaxAcks

\* The tests the code is made for: one stream, and mio is faster than quinn.
Plain == num_streams = 1 /\ mio_first

\* Nothing nperf unwraps fails: no connection it awaits has timed out.
NoPanic == Plain => spc # "panic" /\ cpc # "panic"

\* The server handles TestEnd only when it has counted all that was sent: it
\* is in a read that only the end of the stream ends, and the client sends
\* TestEnd only after that end was acknowledged.
AllCounted ==
  Plain /\ sstate = "TestEnd" => taken[1] = written[1] - 1

\* The server's streams are numbered in the order in which the client made its
\* connections, whichever endpoint's driver had the first datagram of each and
\* whatever connections were left behind on an older endpoint: print_stats of
\* the two sides lists the same streams in the same order.  It is
\* quic::client's await of one connection before the next that orders them.
StreamOrder ==
  \A s, t \in 1..nstreams : s < t => conn[s] < conn[t]

\* A QUIC test ends.
QuicEnds == Plain => <>(sstate = "TestEnd")

\* So does one with parallel streams.
ParallelEnds == mio_first => <>(sstate = "TestEnd")

\* So does one in which quinn's driver may empty a socket before mio looks.
RacedEnds == num_streams = 1 => <>(sstate = "TestEnd")
=============================================================================
