------------------------------ MODULE Options ------------------------------
(***************************************************************************)
(* The command line and what becomes of it: parse_args, Test::from, the    *)
(* block length the client settles on, the Settings it sends in            *)
(* ParamExchange and the server takes over, and the buffer the sending     *)
(* loop cuts a block from.  A server with fixed options serves one client  *)
(* after another.                                                          *)
(***************************************************************************)
EXTENDS Naturals

CONSTANTS
  CtrlMss,       \* MSS of the control connection
  LengthTexts,   \* bound: numbers given with -l; 0 is the default
  MaxTests       \* bound: clients started

\* The largest MTU, the loopback's, leaves no larger segment.
ASSUME OptionsAssumption ==
  /\ CtrlMss \in 1..65483 /\ LengthTexts \subseteq Nat /\ MaxTests \in Nat

MAX_TCP_PAYLOAD == 131072
MAX_UDP_PAYLOAD == 65500
MAX_QUIC_PAYLOAD == 65500

\* An amount as it is typed: its number, whether that parses, its last character.
Amount(num, digits, last) == [num |-> num, digits |-> digits, last |-> last]
NoAmount == Amount(0, FALSE, "default")
Amounts ==
  {NoAmount, Amount(0, TRUE, "digit"), Amount(1, TRUE, "K"), Amount(0, FALSE, "M"),
   Amount(1, TRUE, "letter"), Amount(1, TRUE, "sign")}

ClientOptions ==
  [both : BOOLEAN, udp : BOOLEAN, quic : BOOLEAN, tls : BOOLEAN, parallel : 1..2,
   bitrate : Amounts, bytes : Amounts, blks : 0..1, time : {0, 10},
   length : LengthTexts, suffix : BOOLEAN]
\* A server may be given a client's options too: they are read and not used.
ServerOptions ==
  [udp : BOOLEAN, quic : BOOLEAN, tls : BOOLEAN, parallel : 1..2, bitrate : {NoAmount},
   bytes : {NoAmount}, blks : {0}, time : {10}, length : {0}, cert : {"cert.crt", "given"}]

VARIABLES
  sopts, spc, sset, cert,  \* the server: options, place, test.settings, certificate loaded
  cpc, cset,               \* the client: place, test.settings
  suffixed,                \* this client was given -l with a K, M or G
  wire,                    \* Settings on the control connection
  tests

optionVars == << sopts, spc, sset, cert, cpc, cset, suffixed, wire, tests >>

-----------------------------------------------------------------------------
kmg_to_bits(rate, kmg) ==
  rate * (CASE kmg = "K" -> 1024 [] kmg = "M" -> 1048576 [] kmg = "G" -> 1073741824 [] OTHER -> 1)

\* "abcdef", the default, and any other letter at the end mean no limit.
getrate_in_bits(a) == IF a.last \in {"default", "letter"} THEN 0 ELSE kmg_to_bits(a.num, a.last)
\* The parse that is unwrapped fails.
BadAmount(a) == a.last = "sign" \/ (a.last \in {"K", "M", "G", "digit"} /\ ~a.digits)

\* How parse_args ends: argparse refuses a value that is not a number of its
\* type, -s excludes -c, a bad amount panics.
parse_args(o) ==
  IF o.suffix \/ o.both THEN "exit"
  ELSE IF BadAmount(o.bitrate) \/ BadAmount(o.bytes) THEN "panic" ELSE "setup"

\* Mutants: a length is not limited; the server keeps its own settings.
LengthUnlimited(conn, length) == IF length = 0 THEN CtrlMss ELSE length
KeepsSettings(settings) == sset

Conn(o) == IF o.tls THEN "TLS" ELSE IF o.quic THEN "QUIC" ELSE IF o.udp THEN "UDP" ELSE "TCP"

\* Test::from: a limit replaces the time, and -t may be 0.
TestFrom(o) ==
  [conn |-> Conn(o), num_streams |-> o.parallel, bitrate |-> getrate_in_bits(o.bitrate),
   bytes |-> getrate_in_bits(o.bytes), blks |-> o.blks, length |-> o.length,
   time |-> IF getrate_in_bits(o.bytes) > 0 \/ o.blks > 0 THEN 3600 ELSE o.time]

\* The length ClientImpl::run settles on.
Length(conn, length) ==
  IF conn \in {"TCP", "TLS"}
    THEN IF length = 0 THEN MAX_TCP_PAYLOAD ELSE length
    ELSE IF length > MAX_UDP_PAYLOAD THEN MAX_UDP_PAYLOAD
         ELSE IF length = 0 THEN CtrlMss ELSE length

\* The array the sending loop slices.
Buffer(conn) ==
  CASE conn \in {"TCP", "TLS"} -> MAX_TCP_PAYLOAD
    [] conn = "UDP" -> MAX_UDP_PAYLOAD
    [] conn = "QUIC" -> MAX_QUIC_PAYLOAD

\* Settings::default is gone, and every field is the client's.
set_settings(settings) == settings

-----------------------------------------------------------------------------
OptionsInit ==
  /\ sopts \in ServerOptions /\ sset = TestFrom(sopts) /\ spc = "Start" /\ cert = "none"
  /\ cpc = "off" /\ cset = TestFrom(sopts) /\ suffixed = FALSE /\ wire = {} /\ tests = 0

\* main: the client parses its options and makes its test of them.
CStart ==
  /\ cpc = "off" /\ tests < MaxTests
  /\ \E o \in ClientOptions :
       /\ cpc' = parse_args(o) /\ suffixed' = (o.suffix /\ ~o.both)
       /\ cset' = IF cpc' = "setup" THEN TestFrom(o) ELSE cset
  /\ UNCHANGED << sopts, spc, sset, cert, wire, tests >>

\* ClientImpl::run up to the Settings it sends.
CSetup ==
  /\ cpc = "setup" /\ cpc' = "sent"
  /\ cset' = [cset EXCEPT !.length = Length(cset.conn, @)]
  /\ wire' = {cset'}
  /\ UNCHANGED << sopts, spc, sset, cert, suffixed, tests >>

\* ParamExchange at the server.  The certificate's name is fixed.
SParams ==
  /\ spc = "Start" /\ spc' = "Streams"
  /\ \E settings \in wire : sset' = set_settings(settings)
  /\ wire' = {}
  /\ cert' = IF sset'.conn \in {"TLS", "QUIC"} THEN "cert.crt" ELSE cert
  /\ UNCHANGED << sopts, cpc, cset, suffixed, tests >>

\* The first block of the sending loop.
CWrite ==
  /\ cpc = "sent" /\ spc = "Streams"
  /\ cpc' = IF cset.length <= Buffer(cset.conn) THEN "done" ELSE "panic"
  /\ UNCHANGED << sopts, spc, sset, cert, cset, suffixed, wire, tests >>

\* The client has ended; the server starts over with a test of its own options.
Over ==
  /\ cpc \in {"exit", "panic", "done"}
  /\ cpc' = "off" /\ suffixed' = FALSE /\ tests' = tests + 1
  /\ spc' = "Start" /\ sset' = TestFrom(sopts) /\ cert' = "none"
  /\ cset' = TestFrom(sopts) /\ UNCHANGED << sopts, wire >>

OptionsNext == CStart \/ CSetup \/ SParams \/ CWrite \/ Over

OptionsSpec == OptionsInit /\ [][OptionsNext]_optionVars

-----------------------------------------------------------------------------
\* Both sides run the same test, whatever options the server was started with
\* and whatever test it ran before: the transport it listens with, and the
\* number of streams it counts to, are the ones of this client.
SameTest == spc = "Streams" => sset = cset

\* A block is never empty, which would end the sending loop at once and for
\* ever, and a datagram fits the array it is cut from.
BlockUsable ==
  cpc = "sent" =>
    /\ cset.length > 0
    /\ cset.conn \in {"UDP", "QUIC"} => cset.length <= Buffer(cset.conn)

\* A TCP or TLS block is at most 128 KB as well, as the help says.
MaximumForTcp == cpc = "sent" => cset.length <= Buffer(cset.conn)

\* -l takes a K, M or G.
LengthTakesSuffix == suffixed => cpc # "exit"

\* A server with --tls-cert uses that file.
CertificateUsed ==
  spc = "Streams" /\ sset.conn \in {"TLS", "QUIC"} => cert = sopts.cert
=============================================================================
