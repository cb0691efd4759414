----------------------------- MODULE Admission -----------------------------
(***************************************************************************)
(* Several clients of one server.  The server accepts a control connection *)
(* and then uses the same listener for the data connections of a TCP test; *)
(* it closes the listener when it starts over.  The messages of the        *)
(* control protocol are in Nperf; here they are read off the states.       *)
(***************************************************************************)
EXTENDS Naturals, Sequences, SequencesExt

CONSTANTS
  Clients,      \* client processes, each of which runs once
  NumStreams,   \* Settings.num_streams, the same for all
  Apart         \* no client connects while another is being set up

ASSUME AdmissionAssumption == NumStreams \in Nat \ {0} /\ Apart \in BOOLEAN

VARIABLES
  sstate,    \* test.state of the server; Listen: in tcp::accept
  owner,     \* the client of the control connection
  backlog,   \* the listener's queue
  ledge,     \* the registered listener has an event
  streams,   \* test.streams: [who, kind] of each
  sready,    \* streams with an event
  counted,   \* cookie_count
  cpc,       \* cpc[c]: off, ctrl, cookie, wait, missed, send, done or failed
  opened     \* opened[c]: data connections of c

vars == << sstate, owner, backlog, ledge, streams, sready, counted, cpc, opened >>
server == << sstate, owner, streams, sready, counted >>

Conn(c, k) == [who |-> c, kind |-> k]
Nobody == "nobody"

Init ==
  /\ sstate = "Listen" /\ owner = Nobody /\ backlog = << >> /\ ledge = FALSE
  /\ streams = << >> /\ sready = {} /\ counted = 0
  /\ cpc = [c \in Clients |-> "off"] /\ opened = [c \in Clients |-> 0]

Go(c, to) == cpc' = [cpc EXCEPT ![c] = to]

\* Mutants: a stream is taken in every state; one cookie is enough; one too many.
AnyState == sstate \in {"CreateStreams", "TestStart"}
AnyCookie(n) == n >= 1
OneMoreCookie(n) == n > NumStreams

\* The state in which the listener's event is acted on.
Accepts == sstate = "CreateStreams"
LastCookie(n) == n = NumStreams

-----------------------------------------------------------------------------
\* ClientImpl::new, and the cookie which run() sends at once.
CStart(c) ==
  /\ cpc[c] = "off"
  /\ Apart => (sstate = "Listen" /\ backlog = << >>) \/ sstate \in {"TestStart", "TestRunning"}
  /\ backlog' = Append(backlog, Conn(c, "ctrl")) /\ ledge' = (sstate \notin {"Listen", "Start"})
  /\ Go(c, "ctrl")
  /\ UNCHANGED << server, opened >>

\* CreateStreams: one data connection after another, paced by the client's sleep.
CConnect(c) ==
  /\ owner = c /\ sstate \notin {"Listen", "Start"} /\ cpc[c] = "ctrl" /\ ~ledge
  /\ backlog' = Append(backlog, Conn(c, "data")) /\ ledge' = TRUE
  /\ opened' = [opened EXCEPT ![c] = @ + 1]
  /\ Go(c, IF opened'[c] = NumStreams THEN "cookie" ELSE "ctrl")
  /\ UNCHANGED server

Of(c) == {s \in DOMAIN streams : streams[s] = Conn(c, "data")}

\* TestStart: a cookie on every stream, accepted or not.  If TestRunning was
\* announced by then, it is drained together with TestStart.
CCookies(c) ==
  /\ owner = c /\ cpc[c] = "cookie" /\ sstate \in {"TestStart", "TestRunning"}
  /\ sready' = sready \cup Of(c)
  /\ Go(c, IF sstate = "TestStart" THEN "wait" ELSE "missed")
  /\ UNCHANGED << sstate, owner, streams, counted, backlog, ledge, opened >>

CRunning(c) ==
  /\ owner = c /\ cpc[c] = "wait" /\ sstate = "TestRunning"
  /\ Go(c, "send")
  /\ UNCHANGED << server, backlog, ledge, opened >>

\* The first stream's socket fills unless the server reads it, and only a
\* writable event brings the client back to look at the time.  Then TestEnd,
\* the results, and the server starts over: its listener and streams are gone.
CEnd(c) ==
  /\ owner = c /\ cpc[c] = "send" /\ Of(c) # {}
  /\ cpc' = [d \in Clients |->
               IF d = c THEN "done"
               ELSE IF \E s \in ToSet(streams \o backlog) : s.who = d THEN "failed" ELSE cpc[d]]
  /\ sstate' = "Listen" /\ owner' = Nobody
  /\ streams' = << >> /\ sready' = {} /\ counted' = 0 /\ backlog' = << >> /\ ledge' = FALSE
  /\ UNCHANGED opened

-----------------------------------------------------------------------------
\* tcp::accept on a Poll of its own.
SAccept ==
  /\ sstate = "Listen" /\ backlog # << >>
  /\ sstate' = "Start" /\ owner' = Head(backlog).who /\ backlog' = Tail(backlog)
  /\ UNCHANGED << ledge, streams, sready, counted, cpc, opened >>

\* Start and ParamExchange: the listener is registered again, for data.
SParams ==
  /\ sstate = "Start" /\ sstate' = "CreateStreams"
  /\ ledge' = (backlog # << >>)
  /\ UNCHANGED << owner, streams, sready, counted, backlog, cpc, opened >>

\* A listener event: one connection is accepted, whoever it is from; what it
\* has sent already makes its stream readable.
SListener ==
  /\ ledge /\ ledge' = FALSE
  /\ IF Accepts
       THEN /\ streams' = Append(streams, Head(backlog)) /\ backlog' = Tail(backlog)
            /\ sready' = IF Head(backlog).kind = "ctrl" THEN sready \cup {Len(streams')} ELSE sready
            /\ sstate' = IF Len(streams') = NumStreams THEN "TestStart" ELSE sstate
       ELSE UNCHANGED << streams, backlog, sready, sstate >>
  /\ UNCHANGED << owner, counted, cpc, opened >>

\* A stream's event: a cookie in TestStart, unexpected and dropped before.
SStream(s) ==
  /\ s \in sready /\ sready' = sready \ {s}
  /\ counted' = IF sstate = "TestStart" THEN counted + 1 ELSE counted
  /\ sstate' = IF sstate = "TestStart" /\ LastCookie(counted') THEN "TestRunning" ELSE sstate
  /\ UNCHANGED << owner, streams, backlog, ledge, cpc, opened >>

Over ==
  /\ \A c \in Clients : cpc[c] \in {"done", "failed"}
  /\ UNCHANGED vars

Client(c) == CStart(c) \/ CConnect(c) \/ CCookies(c) \/ CRunning(c) \/ CEnd(c)
Server == SAccept \/ SParams \/ SListener \/ \E s \in 1..NumStreams : SStream(s)

Next == Server \/ (\E c \in Clients : Client(c)) \/ Over

Spec == Init /\ [][Next]_vars
FairSpec == Spec /\ WF_vars(Server) /\ \A c \in Clients : WF_vars(Client(c))

-----------------------------------------------------------------------------
\* All streams of a test are data connections of the client it is for.
OwnStreams == \A s \in DOMAIN streams : streams[s] = Conn(owner, "data")

\* When the test runs the cookie of every stream has been taken.
AllCookies == sstate = "TestRunning" => sready = {} /\ cpc[owner] \in {"wait", "send"}

\* Every client gets its test or learns that it does not.
EveryoneEnds == \A c \in Clients : <>(cpc[c] \in {"done", "failed"})
=============================================================================
