------------------------------- MODULE Nperf -------------------------------
(***************************************************************************)
(* One nperf TCP test: a server (ServerImpl) and a client (ClientImpl)     *)
(* whose control connection is already in the server's accept queue, and   *)
(* the network between them (Net).                                         *)
(***************************************************************************)
EXTENDS ServerImpl, ClientImpl

CONSTANTS
  ClientMayDie,   \* the client may be killed at any moment
  ServerMayDie    \* the server may be killed at any moment

ASSUME NperfAssumption == ClientMayDie \in BOOLEAN /\ ServerMayDie \in BOOLEAN

vars == << netVars, serverVars, clientVars >>

Init ==
  /\ proc = [x \in Side |-> IF x = "server" THEN "Accept" ELSE "Loop"]
  /\ wire = [x \in Side |-> << >>]
  /\ buf = [x \in Side |-> << >>]
  /\ tail = [x \in Side |-> "none"]
  /\ sock = [x \in Side |-> "open"]
  /\ ready = [x \in Side |-> IF x = "server" THEN {} ELSE {CONTROL}]
  /\ reg = [x \in Side |-> {}]
  /\ batch = [x \in Side |-> {}]
  /\ syn = TRUE
  /\ backlog = 0
  /\ listening = FALSE
  /\ dwire = [i \in Streams |-> << >>]
  /\ dbuf = [i \in Streams |-> << >>]
  /\ dfin = [i \in Streams |-> "open"]
  /\ nospace = {}
  /\ ServerInit
  /\ ClientInit

Server == ServerStep /\ UNCHANGED clientVars
Client == ClientStep /\ UNCHANGED serverVars
Time   == Tick /\ UNCHANGED serverVars

NetCtrl(x) == (DeliverCtrl(x) \/ DeliverTail(x)) /\ UNCHANGED << serverVars, clientVars >>
NetData(i) == (DeliverData(i) \/ DeliverFin(i)) /\ UNCHANGED << serverVars, clientVars >>

Killed ==
  \/ ClientMayDie /\ ClientKilled /\ UNCHANGED serverVars
  \/ ServerMayDie /\ ServerKilled /\ UNCHANGED clientVars

\* Nothing is left to do once the client is gone and the server waits for
\* the next one (or is gone too).
Finished ==
  /\ Gone("client")
  /\ proc["server"] = "Accept" \/ Gone("server")
  /\ \A x \in Side : wire[x] = << >> /\ tail[x] = "none"
  /\ UNCHANGED vars

Next ==
  \/ Server \/ Client \/ Time
  \/ \E x \in Side : NetCtrl(x)
  \/ \E i \in Streams : NetData(i)
  \/ Killed \/ Finished

\* Both processes keep running, every connection delivers and time passes.
Fairness ==
  /\ WF_vars(Server) /\ WF_vars(Client) /\ WF_vars(Time)
  /\ \A x \in Side : WF_vars(NetCtrl(x))
  /\ \A i \in Streams : WF_vars(NetData(i))

Spec == Init /\ [][Next]_vars
FairSpec == Spec /\ Fairness

-----------------------------------------------------------------------------
\* Every variable of the test has its type.
TypeOK ==
  /\ CtrlTypeOK /\ LoopTypeOK /\ ListenTypeOK /\ DataTypeOK
  /\ ServerTypeOK /\ ClientTypeOK

-----------------------------------------------------------------------------
(* Safety. *)

\* No unwrap(), panic! or from_i8 fires: settings parse, accept() finds a
\* connection, no stream is deregistered twice and no send_state meets a reset
\* connection.  One does: a server that is killed resets the connections it has
\* not accepted, and the client unwraps the address of the one it prints.
NoPanic ==
  /\ proc["server"] # "Panic"
  /\ proc["client"] = "Panic" => proc["server"] = "Killed" /\ cstate = "CreateStreams"

\* The message a side's handler in its present state is written for.  The
\* client drains whatever is there and never looks at it.
Expected(x) ==
  IF x = "server"
  THEN CASE sstate = "Start" -> {COOKIE}
         [] sstate = "ParamExchange" -> {SETTINGS}
         [] sstate = "TestRunning" -> {as_u8("TestEnd")}
         [] sstate = "End" -> {as_u8("End")}
         [] OTHER -> {}
  ELSE IF proc["client"] \in {"Connecting", "Cookies"} THEN {}
  ELSE IF proc["client"] = "Printing" THEN IF LastConnect THEN {as_u8("TestStart")} ELSE {}
  ELSE CASE cstate \in {"ParamExchange", "CreateStreams", "TestStart"} -> {as_u8(cstate)}
         [] cstate = "TestRunning" /\ ~running -> {as_u8("TestRunning")}
         [] cstate = "ExchangeResults" -> {RESULTS}
         [] cstate = "End" /\ ~parsed -> {RESULTS}
         [] OTHER -> {}

\* What a running process has not read yet of its control connection is the
\* one message its state expects (the results may come in segments), so two
\* messages are never drained as one and none is taken for another.
MessageMatchesState ==
  \A x \in Side :
    proc[x] \in {"Loop", "Connecting", "Printing", "Cookies", "Sending", "Leaving"} =>
      LET unread == buf[x] \o wire[x]
      IN /\ \A k \in DOMAIN unread : unread[k] \in Expected(x)
         /\ Len(unread) <= IF RESULTS \in Expected(x) THEN ResultSegs ELSE 1

\* The server counts no cookie as test data and takes no test data for a
\* cookie: in TestRunning every cookie has been drained, before it no block
\* has been sent.
CookieBarrier ==
  \A i \in Streams :
    LET unread == dbuf[i] \o dwire[i]
    IN /\ sstate = "TestRunning" => \A k \in DOMAIN unread : unread[k] = DATA
       /\ sstate \in {"CreateStreams", "TestStart"} => unread \in {<< >>, << COOKIE >>}

Pending(x, s) == s \in ready[x] \/ \E e \in batch[x] : e.src = s

\* Readiness is edge-triggered, so an event taken without emptying its source
\* is lost for good.  While the client lives none is: whatever the server's
\* loop still has to react to has an event on the ready list or in the batch.
NoLostEvent ==
  proc["server"] = "Loop" /\ ~Gone("client") =>
    /\ sstate \in {"Start", "ParamExchange", "TestRunning", "End"} /\ CtrlReadable("server")
         => Pending("server", CONTROL) \/ Pending("server", WAKER)
    /\ sstate = "CreateStreams" /\ backlog > 0 => Pending("server", TCP_LISTENER)
    /\ sstate \in {"TestStart", "TestRunning"} =>
         \A i \in Streams : dbuf[i] # << >> => Pending("server", i)
    /\ sstate \in {"TestEnd", "ExchangeResults"} => Pending("server", WAKER)

\* A client back in poll during the test will be called again: a stream event
\* is pending, or a connection it found full still holds blocks to be read.
NoLostRoom ==
  proc["client"] = "Loop" /\ running /\ cstate = "TestRunning" /\ ServerUp =>
    \/ \E i \in Streams : Pending("client", i)
    \/ \E i \in nospace : Held(i) > 0

\* "this state for this token can only be hit if the server is shutdown
\* unplanned" (TestRunning, readable, running, in ClientImpl::run).
RemoteErrorIsReal ==
  running /\ cstate = "TestRunning" /\ CtrlReadable("client") /\ ~Gone("client")
    => Gone("server")

\* The control connection keeps the two machines in turns (see Lockstep).
Turns == INSTANCE Lockstep WITH server <- sstate, client <- cstate
TakesTurns == Turns!Spec

\* A client that has parsed the server's results prints them.
ResultsPrinted == parsed => proc["client"] # "Failed"

\* The results the server sent are the ones the client reads.
ResultsParsed == cstate = "End" => parsed

-----------------------------------------------------------------------------
(* Liveness. *)

\* An undisturbed test ends: the client has the results and the server waits
\* for its next client.
TestCompletes ==
  \/ <>[](Gone("client") /\ parsed /\ proc["server"] = "Accept")
  \/ <>(\E x \in Side : proc[x] = "Killed")

\* When its client is gone the server starts over, unless the client was lost
\* while the server waited for data connections (or the server is killed too).
ServerRecovers ==
  Gone("client") ~> \/ proc["server"] \in {"Accept", "Killed"}
                    \/ sstate = "CreateStreams"

\* When the server is gone the client ends, unless it waits for the results
\* or for a data connection.
ClientNotices ==
  Gone("server") ~> \/ Gone("client")
                    \/ cstate = "ExchangeResults"
                    \/ proc["client"] = "Connecting"
=============================================================================
