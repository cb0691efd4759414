---------------------------- MODULE ClientImpl ----------------------------
(***************************************************************************)
(* ClientImpl::run for a TCP test.  The handlers that loop over the data   *)
(* connections (connecting, sending cookies, sending blocks) are one step  *)
(* per connection: the server runs meanwhile.  The others are one action   *)
(* per match arm.                                                          *)
(***************************************************************************)
EXTENDS Net

CONSTANT Paced   \* the 10 ms sleep lets the server accept before the next connect

ASSUME ClientAssumption == Paced \in BOOLEAN

VARIABLES
  cstate,    \* test.state of the client
  running,   \* ClientImpl.running
  cstreams,  \* test.streams.len() of the client, and the connection it prints
  cidx,      \* the stream an inner loop is at
  clock,     \* 0 test time not over, 1 over, 2 over and every interval past 1 s
  elapsed,   \* the sending loop's last look at the clock was past the test time
  try_later, \* the sending loop's own flag: this pass over the streams is the last
  parsed     \* from_serde accepted the server's results

clientVars == << cstate, running, cstreams, cidx, clock, elapsed, try_later, parsed >>

COnControl(e) == e \in batch["client"] /\ e.src \in {CONTROL, WAKER} /\ proc["client"] = "Loop"
COnStream(e) == e \in batch["client"] /\ e.src \in Streams /\ proc["client"] = "Loop"

\* The server of this session still holds its end of the connections.
ServerUp == proc["server"] = "Loop"

CSends(m) == wire' = [wire EXCEPT !["server"] = Append(@, m)]

\* Mutant: the message is left in the socket.
NotDrained(e) == UNCHANGED buf

CDrained(e) == buf' = [buf EXCEPT !["client"] = IF e.readable THEN << >> ELSE @]

\* The process ends and the kernel closes its sockets.
ClientExits(p) ==
  /\ proc' = [proc EXCEPT !["client"] = p]
  /\ tail' = TailOnClose("client")
  /\ sock' = [sock EXCEPT !["client"] = "closed"]
  /\ buf' = [buf EXCEPT !["client"] = << >>]
  /\ ready' = [ready EXCEPT !["client"] = {}]
  /\ reg' = [reg EXCEPT !["client"] = {}]
  /\ batch' = [batch EXCEPT !["client"] = {}]
  /\ dfin' = [i \in Streams |->
                IF i <= cstreams /\ dfin[i] = "open" THEN "fin" ELSE dfin[i]]
  /\ UNCHANGED << wire, listenVars, dwire, dbuf, nospace, clientVars >>

-----------------------------------------------------------------------------
(* CONTROL events. *)

\* Arms that do nothing; a failed drain in ExchangeResults is a `continue`.
CIgnore(e) ==
  /\ \/ COnControl(e) /\ cstate \in {"TestRunning", "ExchangeResults"} /\ ~e.readable
        /\ UNCHANGED buf
     \/ COnControl(e) /\ cstate = "ExchangeResults" /\ e.readable /\ DrainFails("client")
        /\ buf' = [buf EXCEPT !["client"] = << >>]
     \/ COnStream(e) /\ cstate # "TestRunning" /\ UNCHANGED buf
  /\ Take("client", e)
  /\ UNCHANGED << proc, wire, tail, sock, ready, reg, listenVars, dataVars, clientVars >>

\* Mutant: the errors are dropped and the loop goes on.
CErrorDropped(e) ==
  /\ COnControl(e)
  /\ \/ cstate \in {"Start", "ParamExchange"} /\ ~CanWrite("client")
     \/ /\ cstate \in {"ParamExchange", "CreateStreams", "TestStart", "TestRunning"}
        /\ ~running /\ e.readable /\ DrainFails("client")
  /\ Take("client", e)
  /\ UNCHANGED << proc, ctrlVars, ready, reg, listenVars, dataVars, clientVars >>

\* The `?`s of run(): drain_message or write_socket fails and main exits 1.
CError(e) ==
  /\ COnControl(e)
  /\ \/ cstate \in {"Start", "ParamExchange"} /\ ~CanWrite("client")
     \/ /\ cstate \in {"ParamExchange", "CreateStreams", "TestStart", "TestRunning"}
        /\ ~running /\ e.readable /\ DrainFails("client")
  /\ ClientExits("Failed")

CStart(e) ==
  /\ COnControl(e) /\ cstate = "Start" /\ CanWrite("client")
  /\ Take("client", e)
  /\ CSends(COOKIE)
  /\ cstate' = "ParamExchange"
  /\ UNCHANGED << proc, buf, tail, sock, ready, reg, listenVars, dataVars,
                  running, cstreams, cidx, clock, elapsed, try_later, parsed >>

\* A handler that first drains what is readable, whatever it is.
DrainsAny(e) == COnControl(e) /\ (e.readable => ~DrainFails("client")) /\ CDrained(e)

CParamExchange(e) ==
  /\ cstate = "ParamExchange" /\ DrainsAny(e) /\ CanWrite("client")
  /\ Take("client", e)
  /\ CSends(SETTINGS)
  /\ cstate' = "CreateStreams"
  /\ UNCHANGED << proc, tail, sock, ready, reg, listenVars, dataVars,
                  running, cstreams, cidx, clock, elapsed, try_later, parsed >>

CCreateStreams(e) ==
  /\ cstate = "CreateStreams" /\ DrainsAny(e)
  /\ Take("client", e)
  /\ proc' = [proc EXCEPT !["client"] = "Connecting"]
  /\ UNCHANGED << wire, tail, sock, ready, reg, listenVars, dataVars, clientVars >>

\* Mutant: off by one.
OneMoreConnect == cstreams > NumStreams

\* The connection made is the last of 0..num_streams.
LastConnect == cstreams = NumStreams

\* tcp::connect, one data connection; it is retried for as long as the
\* server's port refuses it.
CConnect ==
  /\ proc["client"] = "Connecting"
  /\ ServerUp
  /\ Paced => backlog = 0
  /\ backlog' = backlog + 1
  /\ ready' = [ready EXCEPT !["server"] = IF listening THEN @ \cup {TCP_LISTENER} ELSE @]
  /\ cstreams' = cstreams + 1
  /\ proc' = [proc EXCEPT !["client"] = "Printing"]
  /\ UNCHANGED << ctrlVars, reg, batch, syn, listening, dataVars,
                  cstate, running, cidx, clock, elapsed, try_later, parsed >>

\* print_new_stream unwraps the peer's address, which a connection that was
\* reset does not have; then the stream is pushed and the loop goes on.
CPrint ==
  /\ proc["client"] = "Printing"
  /\ IF dfin[cstreams] = "rst"
       THEN ClientExits("Panic")
       ELSE /\ IF LastConnect
                 THEN proc' = [proc EXCEPT !["client"] = "Loop"] /\ cstate' = "TestStart"
                 ELSE proc' = [proc EXCEPT !["client"] = "Connecting"] /\ UNCHANGED cstate
            /\ UNCHANGED << ctrlVars, ready, reg, batch, listenVars, dataVars,
                            running, cstreams, cidx, clock, elapsed, try_later, parsed >>

CTestStart(e) ==
  /\ cstate = "TestStart" /\ DrainsAny(e)
  /\ Take("client", e)
  /\ proc' = [proc EXCEPT !["client"] = "Cookies"]
  /\ cidx' = 1
  /\ UNCHANGED << wire, tail, sock, ready, reg, listenVars, dataVars,
                  cstate, running, cstreams, clock, elapsed, try_later, parsed >>

\* The cookie of stream cidx; a failed write is reported and skipped.
CCookie ==
  /\ proc["client"] = "Cookies"
  /\ dwire' = IF ServerUp THEN [dwire EXCEPT ![cidx] = Append(@, COOKIE)] ELSE dwire
  /\ IF cidx = NumStreams
       THEN /\ proc' = [proc EXCEPT !["client"] = "Loop"]
            /\ cstate' = "TestRunning"
            /\ UNCHANGED cidx
       ELSE cidx' = cidx + 1 /\ UNCHANGED << proc, cstate >>
  /\ UNCHANGED << ctrlVars, ready, reg, batch, listenVars, dbuf, dfin, nospace,
                  running, cstreams, clock, elapsed, try_later, parsed >>

\* Mutants: no stream is registered; the last one is left out.
RegistersNone == {}
RegistersAllButOne == 1..(cstreams - 1)

\* The streams the TestRunning handler registers.
Registers == 1..cstreams

\* TestRunning arrives: the streams are registered and the clock is started.
CRunning(e) ==
  /\ cstate = "TestRunning" /\ ~running
  /\ e.readable /\ DrainsAny(e)
  /\ Take("client", e)
  /\ running' = TRUE
  /\ reg' = [reg EXCEPT !["client"] = Registers]
  /\ ready' = [ready EXCEPT !["client"] = @ \cup Registers]
  /\ UNCHANGED << proc, wire, tail, sock, listenVars, dataVars,
                  cstate, cstreams, cidx, clock, elapsed, try_later, parsed >>

\* "Remote error, ending test": end() and a normal exit.
CRemoteError(e) ==
  /\ COnControl(e) /\ cstate = "TestRunning" /\ running /\ e.readable
  /\ ClientExits(IF reg["client"] = 1..cstreams THEN "Done" ELSE "Panic")

\* Mutant: the results are refused.
Rejects(m) == FALSE

\* The text is the whole JSON of the server's Test.
from_serde(m) == m = [k \in 1..ResultSegs |-> RESULTS]

\* The results, or what has arrived of them, are parsed and End is sent.
CExchangeResults(e) ==
  /\ cstate = "ExchangeResults" /\ e.readable /\ DrainsAny(e)
  /\ Take("client", e)
  /\ parsed' = from_serde(buf["client"])
  /\ cstate' = "End"
  /\ CSends(as_u8("End"))
  /\ ready' = [ready EXCEPT !["client"] = @ \cup {WAKER}]
  /\ UNCHANGED << proc, tail, sock, reg, listenVars, dataVars,
                  running, cstreams, cidx, clock, elapsed, try_later >>

\* shutdown fails with ENOTCONN once the connection is reset, and `?` leaves
\* before print_stats; otherwise the results are printed.
CEnd(e) ==
  /\ COnControl(e) /\ cstate = "End"
  /\ ClientExits(IF sock["client"] = "reset" THEN "Failed" ELSE "Done")

-----------------------------------------------------------------------------
(* STREAM events: the sending loop. *)

CSend(e) ==
  /\ COnStream(e) /\ cstate = "TestRunning"
  /\ Take("client", e)
  /\ proc' = [proc EXCEPT !["client"] = "Sending"]
  /\ cidx' = 1
  /\ elapsed' = (clock > 0)
  /\ try_later' = FALSE
  /\ UNCHANGED << ctrlVars, ready, reg, listenVars, dataVars,
                  cstate, running, cstreams, clock, parsed >>

\* Ok(n): on to the next stream; after a second's worth the clock is read
\* again, and past the test time the pass over the streams is the last.
CWrite ==
  /\ proc["client"] = "Sending"
  /\ \/ /\ ServerUp /\ Held(cidx) < Cap
        /\ dwire' = [dwire EXCEPT ![cidx] = Append(@, DATA)]
        /\ UNCHANGED dfin
     \/ /\ ~ServerUp /\ dfin[cidx] = "open"       \* answered by a reset
        /\ dfin' = [dfin EXCEPT ![cidx] = "rst"]
        /\ UNCHANGED dwire
  /\ \E late \in {clock = 2, clock > 0} :
       /\ elapsed' = (elapsed \/ late)
       /\ try_later' = (try_later \/ late)
       /\ IF cidx < NumStreams
            THEN cidx' = cidx + 1 /\ UNCHANGED proc
            ELSE /\ cidx' = 1
                 /\ proc' = [proc EXCEPT !["client"] = IF try_later' THEN "Leaving" ELSE @]
  /\ UNCHANGED << ctrlVars, ready, reg, batch, listenVars, dbuf, nospace,
                  cstate, running, cstreams, clock, parsed >>

\* WouldBlock, or an error once the server is gone: break out of the loop.
CWriteFails ==
  /\ proc["client"] = "Sending"
  /\ \/ /\ ServerUp /\ Held(cidx) >= Cap
        /\ nospace' = nospace \cup {cidx}
        /\ UNCHANGED dfin
     \/ /\ ~ServerUp
        /\ dfin' = [dfin EXCEPT ![cidx] = "rst"]
        /\ UNCHANGED nospace
  /\ proc' = [proc EXCEPT !["client"] = "Leaving"]
  /\ UNCHANGED << ctrlVars, ready, reg, batch, listenVars, dwire, dbuf, clientVars >>

\* After the loop, the test time not over: back to poll.
CContinue ==
  /\ proc["client"] = "Leaving" /\ ~elapsed
  /\ proc' = [proc EXCEPT !["client"] = "Loop"]
  /\ UNCHANGED << ctrlVars, ready, reg, batch, listenVars, dataVars, clientVars >>

\* After the loop, the test time over: shut down the streams, end(), TestEnd.
CFinish ==
  /\ proc["client"] = "Leaving" /\ elapsed
  /\ IF reg["client"] # 1..cstreams \/ ~CanWrite("client")
       THEN ClientExits("Panic")
       ELSE /\ dfin' = [i \in Streams |-> IF dfin[i] = "open" THEN "fin" ELSE dfin[i]]
            /\ reg' = [reg EXCEPT !["client"] = {}]
            /\ ready' = [ready EXCEPT !["client"] = @ \ Streams]
            /\ proc' = [proc EXCEPT !["client"] = "Loop"]
            /\ cstate' = "ExchangeResults"
            /\ CSends(as_u8("TestEnd"))
            /\ UNCHANGED << buf, tail, sock, batch, listenVars, dwire, dbuf, nospace,
                            running, cstreams, cidx, clock, elapsed, try_later, parsed >>

\* shutdown of a stream that the server's death has reset: `?` exits.
CShutdownFails ==
  /\ proc["client"] = "Leaving" /\ elapsed
  /\ ~ServerUp
  /\ ClientExits("Failed")

\* Time passes while the test runs.
Tick ==
  /\ running /\ cstate = "TestRunning" /\ ~Gone("client")
  /\ clock < 2
  /\ clock' = clock + 1
  /\ UNCHANGED << netVars, cstate, running, cstreams, cidx, elapsed, try_later, parsed >>

CHandle(e) ==
  \/ CIgnore(e) \/ CError(e)
  \/ CStart(e) \/ CParamExchange(e) \/ CCreateStreams(e) \/ CTestStart(e)
  \/ CRunning(e) \/ CRemoteError(e) \/ CExchangeResults(e) \/ CEnd(e) \/ CSend(e)

ClientPoll == Poll("client") /\ UNCHANGED clientVars

ClientStep ==
  \/ ClientPoll
  \/ \E e \in batch["client"] : CHandle(e)
  \/ CConnect \/ CPrint \/ CCookie
  \/ CWrite \/ CWriteFails \/ CContinue \/ CFinish \/ CShutdownFails

\* The user kills the client.
ClientKilled == ~Gone("client") /\ ClientExits("Killed")

ClientInit ==
  /\ cstate = "Start"
  /\ running = FALSE
  /\ cstreams = 0
  /\ cidx = 1
  /\ clock = 0
  /\ elapsed = FALSE
  /\ try_later = FALSE
  /\ parsed = FALSE

ClientTypeOK ==
  /\ cstate \in TestState
  /\ running \in BOOLEAN
  /\ cstreams \in 0..NumStreams
  /\ cidx \in Streams
  /\ clock \in 0..2
  /\ elapsed \in BOOLEAN
  /\ try_later \in BOOLEAN
  /\ parsed \in BOOLEAN
=============================================================================
