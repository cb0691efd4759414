# Verification of nperf

nperf measures network throughput between a client and a server process. This
directory holds TLA+ models of its control protocol, its event loops, its four
transports, its options and its accounting, the TLC configurations that check them on small instances,
and TLAPS proofs for every instance.

## 1. Inventory

| part | state | operations | source |
|---|---|---|---|
| server run | `test.state`, streams, `cookie_count`, listener, control socket | one handler per event token and state, restart by `main` | `server.rs`, `main.rs` |
| client run | `test.state`, `running`, streams, timers | handlers of the control socket, connect loop, cookie loop, sending loop | `client.rs`, `main.rs` |
| socket helpers | none | `drain_message` (reads all that is there; fails on end of stream), `write_socket`, `send_state` (unwraps), `connect` (retries for ever), `accept` | `net.rs`, `tcp.rs` |
| test object | settings, totals, streams, peer's results | `transition`, `start`, `end`, `from_serde`, `results` | `test.rs` |
| stream statistics | totals, open interval, interval list, two sequence marks | `push_stat`, counting in both loops, sums in `end` | `test.rs` |
| UDP transport | one unconnected socket, one connected socket per stream | `connect` with its hello, `create_udp_stream`, cookies | `udp.rs`, `server.rs` |
| TLS transport | rustls connection, `closing` | `handshake` with its own `Poll`, `create_tls_stream` | `tls.rs`, `server.rs` |
| QUIC transport | endpoint, connection, streams; quinn's threads | `server`, `client`, `read`, `write`, cookies, `create_quic_stream` | `quic.rs`, `server.rs` |
| QUIC without protection | the keys quinn holds | key wrapping, `encrypt`, `decrypt` | `noprotection.rs` |
| sending loop | rate and interval of each stream, test time | `-t`, `--bitrate` | `client.rs` |
| admission | listener's queue, control connection | `tcp::accept`, `TCP_LISTENER`, restart | `server.rs`, `tcp.rs`, `main.rs` |
| command line | options, `Settings` of both sides | `parse_args`, `Test::from`, `set_settings` | `params.rs`, `test.rs` |
| metrics, reports | none that outlives a call | sampling, formatting | `metrics.rs`, `test.rs` |

Server and client are single-threaded processes. They interact only through
sockets: one TCP *control* connection with one-byte state messages, a cookie,
the settings and the results, and `-P` *data* connections from client to
server. Each process sleeps in `mio::Poll::poll`, gets a batch of
edge-triggered events and handles them one by one; a `Waker` puts a CONTROL
event into its own queue.

What is hard to test: an edge-triggered event that is taken without emptying
its source never comes again; the client reads messages without looking at
them; the two state machines agree only through the order of messages; a
process may die between any two steps and `unwrap()` turns many errors into a
panic; the last message and the close of the connection race; counters are
unsigned and subtracted. `PROJECT.json` lists these hazards line by line.

What makes each part correct:

- control protocol: the two machines take turns (`TakesTurns`), each message is
  read in the state that expects it (`MessageMatchesState`), no cookie is taken
  for data (`CookieBarrier`), nothing panics but a client that prints a connection
  a killed server has reset (`NoPanic`), a test ends
  (`TestCompletes`) and survives the other side's death (`ServerRecovers`,
  `ClientNotices`);
- event loops: no event is lost that the loop still needs (`NoLostEvent`,
  `NoLostRoom`), and "remote error" is never a false alarm (`RemoteErrorIsReal`);
- statistics: intervals, stream totals and test totals add up
  (`IntervalsAddUp`, `TotalsAddUp`) and, on a network that neither reorders nor
  repeats, the loss the receiver reports is what was lost (`LossTelescopes`,
  `ReportedLoss`, `ReportWithinSent`);
- UDP set-up: every stream has a client socket of its own
  (`OneSocketPerStream`), nothing of the set-up is counted as data (`NoStray`),
  and it ends (`UdpStarts`);
- TLS set-up: a handshake leaves nothing unwritten that its peer waits for
  (`NothingHeldBack`), no test starts on an unsecured stream (`SecuredStart`),
  the edge-triggered listener misses no connection (`ListenerKeepsUp`), and the
  two loops do not wait for each other for ever (`TestStarts`);
- QUIC: no awaited connection has timed out (`NoPanic`), the server's streams are
  in the order of the client's connections (`StreamOrder`), as the reports of the
  two sides list them, all data is counted before the end
  (`AllCounted`), the test ends (`QuicEnds`), and packets are read as they were
  sent whatever keys are wrapped (`PacketsOpen`);
- sending loop: no interval is faster than the bitrate (`IntervalRate`) and the
  loop ends (`SendEnds`), in time (`EndsOnTime`);
- admission: a test has only its own client's streams (`OwnStreams`), starts
  with all of their cookies (`AllCookies`), and everyone is served or refused
  (`EveryoneEnds`);
- options: both sides run the same test (`SameTest`) with a block length the
  transport can send (`BlockUsable`).

## 2. Modules

- `Net`: what both processes share. `TestState` and its byte; the control
  connection as messages in flight (`wire`), unread (`buf`), and a FIN or RST
  behind them (`tail`, `sock`); the listener's queue; data connections with
  `Cap` blocks of room; the epoll ready list (`ready`) and the current batch
  (`batch`). `Poll` turns the ready list into a batch and asks each source again
  whether it is ready, as `epoll_wait` does. Kernel and mio are external to the
  repository and modelled from their use.
- `ServerImpl`, `ClientImpl`: one action per match arm of `run`. A handler is
  one step, with every call it makes; only the client's loops over its streams
  (connecting, cookies, sending) take steps per stream, because the server runs
  meanwhile; a connection is made (`CConnect`) and then printed and pushed
  (`CPrint`), and a server that ends in between resets it if it was in its queue
  (`Queued`). `?` is `SError` / `CError`; a panic ends the process
  (`ServerPanics`, `ClientExits("Panic")`). `Restart` is `main`'s loop.
- `Lockstep`: the abstract specification. Two states; the client enters a state
  only after the server has announced it, the server leaves one only after the
  client has answered, and an abandoned run puts the server back to `Start`. The
  answer to `CreateStreams` is the last connection: the server may be in `TestStart`
  while the client still prints that connection in `CreateStreams`.
- `Nperf`: composes server, client and network, with optional kills, states the
  properties and shows that the composition implements `Lockstep`
  (`TakesTurns`, with `server <- sstate`, `client <- cstate`).
- `StreamStats`: the accounting of a UDP test. Both sides' `PerfStream`
  counters, the sending loop with `-k`/`-n`, the reading loop, `push_stat` and
  `end`, over a network that loses and, unless `inorder`, reorders and repeats
  datagrams. `test_blks` and `test_bytes` are the limits; any error of a write
  (`WouldBlock`) leaves the loop. The
  vector of intervals is kept as its sums. Losses are modulo `Wrap`, the model's
  2^64; `OverflowChecks` is cargo's dev profile.
- `UdpStreams`: the set-up of a UDP test. `connect`, the cookie loop and its
  end are the client; `SReceive`, `SConnect` and `SBind` are the three parts of
  `create_udp_stream`, between which a datagram may arrive, and `SStream` is
  the cookie. A datagram goes to the socket connected to its sender, else to
  the unconnected one, else it is refused. What the server announces on the
  control connection is read off its state.
- `TlsHandshake`: the set-up of a TLS test. Each side is in its loop, in
  `handshake` or about to print and push the stream (`Adopt`); the client is also
  between `connect` and `TlsEndpoint::client`, which unwraps the peer's address
  (`ClientEndpoint`). Of rustls only
  the number of handshake messages queued after each one processed is kept.
  Either side may be killed; its sockets then end or are reset.
- `QuicStreams`: a QUIC test from the first connection to `TestEnd`. An await
  inside a handler is a place of its process (`spc`, `cpc`), so that nothing
  else of it runs. quinn's drivers (`Driver`) take datagrams out of the same
  sockets mio watches.
- `NoProtection`: the packet keys under `--skip-tls`. Levels are the keys in the
  order of use; `Wrapped` says which of them `NoProtectionSession` wraps;
  `encrypt` and `decrypt` work on payload and tag as the code does.
- `SendLoop`: the sending loop against a clock, one step per stream.
- `Admission`: several clients of one server. The control protocol is reduced to
  the states in which connections are made, accepted and closed.
- `Options`: from the typed options to the `Settings` on both sides. An amount
  is its number, whether that parses, and its last character; `-t` may be 0.
- `NperfProofs`, `StreamStatsProofs`, `TlsHandshakeProofs`, `UdpStreamsProofs`,
  `QuicStreamsProofs`, `AdmissionProofs`, `SendLoopProofs`, `NoProtectionProofs`:
  the theorems about these modules.

The transports' modules start where `Nperf` and `Options` leave off: the server
is in `CreateStreams` with the client's settings.

A definition whose comment says *Mutant* is a plausible bug; nothing uses it. It
documents which mistake the property paired with it in `PROJECT.json` detects.

## 3. Runs

| run | what it shows |
|---|---|
| `session` | two streams, either side may be killed anywhere: turns, messages, cookies, events and room are right, nothing panics but a client that prints a connection a killed server has reset; a test nobody is killed in ends with parsed results, and whoever survives a kill starts over or ends |
| `results_reset` | **violated**: the server's close resets the connection before the client has printed |
| `stats` | two streams, with `-t` or `-k 3`, a network that loses and may reorder and repeat: all counters add up, and in order and without copies the losses are right |
| `tls_setup` | three streams, either side may be killed: handshakes leave nothing behind, no unsecured stream starts, the listener keeps up without the client's pacing, and without a kill the test starts |
| `udp_setup` | three streams, paced or not, with a loss, a duplicate and reordering: no two streams share a client socket, and without the duplicate no set-up datagram is left when the test runs; paced and without a loss it starts |
| `quic_test` | one or two streams, with and without the race for the socket: streams are in the order of the client's connections; in the plain case no timeout, everything counted, the test ends |
| `quic_parallel` | **violated**: with two endpoints on a port the first connection starves and times out |
| `skip_tls` | the flag on both sides or neither: every packet is read as it was sent, through two key updates |
| `options` | two clients in turn with any options: both sides run the same test with a usable block |
| `send_rate` | two streams with a bitrate: no interval above it, and the loop ends, within an interval of its time |
| `clients_apart` | four clients that come one by one or during a running test: own streams, all cookies, everyone ends |
| `second_client` | **violated**: a second client's control connection becomes the first one's data stream, all hang |

The violated runs are disagreements between the code and its documentation;
`findings` in `PROJECT.json` quotes both.

**Further counterexamples.** These configurations are kept so that each case can
be reproduced with `tlc -config <name>.cfg <module>`; TLC reports the property as
violated in all of them.

| configuration | module | property | the case, and what the repository says |
|---|---|---|---|
| `unpaced` | `Nperf` | `TestCompletes` | two connections before one poll leave the second in the queue of the edge-triggered listener; only the client's 10 ms sleep hides it |
| `results_split` | `Nperf` | `ResultsParsed` | results in two segments are never parsed; `test.rs:20`: "serialized and sent over to the client" |
| `blocks_limit` | `StreamStats` | `StopsAtBlocks` | `-k` sends more blocks than asked for; `params.rs:168`: "number of blocks (packets) to transmit" |
| `udp_dev_build` | `StreamStats` | `NoOverflowPanic` | the UDP client's first `push_stat` underflows; README: "cargo run -- -u" |
| `udp_unpaced` | `UdpStreams` | `UdpStartsUnpaced` | a hello queued before the first socket is connected belongs to no stream, and the set-up hangs |
| `zero_streams` | `UdpStreams` | `UdpStarts` | `-P 0` is accepted and hangs both sides |
| `tls_client_dies` | `TlsHandshake` | `ServerSurvives` | a client killed behind its Finished makes the server panic; `main.rs:88`: "restarting" |
| `tls_dev_build` | `TlsHandshake` | `TestStarts` | a dev build of mio refuses the second registration of the socket |
| `quic_race` | `QuicStreams` | `RacedEnds` | quinn's driver empties the socket before mio looks, and nobody accepts |
| `skip_tls_client` | `NoProtection` | `PacketsOpen` | the flag on one side only breaks the connection at the first key update; `params.rs:198` calls it a client's option |
| `skip_tls_data` | `NoProtection` | `SkipDisables` | the first 1-RTT keys are not wrapped, data is encrypted until a key update; `noprotection.rs:10`: "does not perform packet encryption/decryption" |
| `slow_rate` | `SendLoop` | `EndsOnTime` | a bitrate below a block in the test's time keeps the loop spinning beyond it |
| `target_rate` | `SendLoop` | `TargetBitrate` | each interval starts with an unmeasured block, the whole test is above the target; `params.rs:153`: "target bitrate" |
| `tcp_length` | `Options` | `MaximumForTcp` | a TCP length above 128 KB panics at the first write; `params.rs:173`: "maximum for TCP - 128KB" |
| `length_suffix` | `Options` | `LengthTakesSuffix` | `-l` with a suffix is refused; `params.rs:173`: "[KMG] length of buffer" |
| `tls_cert` | `Options` | `CertificateUsed` | `--tls-cert` is set and never read; `params.rs:203`: "TLS certificate file" |

**Conditional results** say what they except:

- `TestCompletes` and `TestStarts` except a test in which a side is killed;
- `ServerRecovers` excepts a server in `CreateStreams`, which ignores its
  control connection and really waits for ever (the option `--idle-timeout` that
  would restart it is commented out in `params.rs`);
- `ClientNotices` excepts a client in `ExchangeResults`, whose failed read is
  skipped, or in `tcp::connect`, which retries without end;
- `UdpStarts` is about the paced client of a test that loses no set-up datagram:
  nothing is sent again, so a loss really hangs it;
- `NoPanic`, `AllCounted` and `QuicEnds` of `QuicStreams` are about the plain
  case (`Plain`): one stream, and mio sees its datagrams before quinn's driver
  has emptied the socket. Otherwise they fail, as `quic_parallel` and `quic_race`
  show.

**Bounds.** Two streams are the smallest number for which "the last stream",
"the last cookie" and an event of one stream between those of another exist.
`Cap = 1` block fills a connection at once, so that every write meets both
outcomes. One result segment is the case the client handles, two the one it
does not. `clock` has the three values the code tells apart: before the end of
the test time, after it, and after it with every interval older than a second.
In `StreamStats` three datagrams per stream (`MaxBlks`) and two reads
(`MaxReads`) allow a loss before, between and after two pushed intervals, a
datagram overtaken and one read twice; `SndBuf` bounds the datagrams in
flight, and `-k 3` (`BlksGiven`) is reached by both streams together. The proofs
remove these bounds.

`Paced` stands for the 10 ms the client sleeps before each connect: with it, the
server has accepted the previous connection. Every configuration of `Nperf` but
`unpaced` assumes it. The variable `paced` of `UdpStreams` is the same sleep; its
initial states have both values.

Three UDP and TLS streams give a first, a middle and a last one; one loss and one
duplicate reach every place of the set-up, and more of them only repeat it.
`quic_test` has up to two streams, three blocks and two datagrams without data,
so that a readable event comes with and without something to read. In
`QuicStreams` half a second passes only when neither process nor quinn can do
anything: handling is far shorter than that. `Able` spells these guards out; TLC
finds it equal to `ENABLED Prompt` in every state of `quic_test`. `mio_first` is a scheduling
assumption the code relies on without making sure of it; the initial states have
it and its opposite. `NoProtection` has two key updates, so that packets of wrapped and unwrapped, current and previous keys meet, and five
packets per side, which reach both updates; quinn's own first update comes after
at most a thousand packets. `LengthTexts` has the default, a length below
every maximum, one above the UDP maximum only and one above both; the MSS of
the control connection is at most that of the loopback. In `SendLoop` a second
is two ticks, a pass over the streams takes less than one, and a full socket has
room again after one; `MaxClock` is beyond every end of a passing run. Four
clients in `Admission` are one in service, two that wait and one that arrives
during the next test; `Apart` keeps them from connecting while another one is
being set up, and `second_client` drops it.

**Fairness.** Weak fairness for each process (it is runnable whenever its batch
or ready list is not empty, and handlers do not block), for each connection's
delivery (TCP) and for time. Within a process no fairness between events is
assumed: any order of a batch is possible. Kills, losses and duplicates are
never fair. In `QuicStreams` quinn's threads, time and each connection's idle
timer are weakly fair. In `SendLoop` the clock is strongly fair: a loop that
spins does not stop it, although each turn of the loop disables it for a moment.

**Deadlock** is checked in `stats`, `send_rate` and `clients_apart`. It is
not where a process may really wait for ever (`session`, `tls_setup`,
`udp_setup`, `quic_test` and the configurations that show such a wait), where
the liveness properties say who must not, nor in `NoProtection` and `Options`,
whose bounds end a behaviour. `Finished`, where a module has it, is the stuttering of a test that is over.

## 4. Proofs

`StreamStatsProofs` proves `IntervalsAddUp`, `LossTelescopes`, `ReportedLoss`,
`ReportWithinSent`, `TotalsAddUp` and `TypeOK` for every number of streams, length, limit and bound;
the three about losses assume `inorder`, a network that keeps the order and repeats nothing. The
losses are not inductive. The invariant `IInv` adds what connects a stream's
counters to the datagrams still in flight: for each stream the sender's block
count bounds every number in flight, every number in flight is above the last
one read, and reads are at most the last number minus what was skipped. With it,
a read can only increase the mark by at least one block, so no interval's
subtraction is negative, and pushing an interval moves exactly the open
difference into the sum. `MaxBlks < Wrap` keeps losses below 2^64.

`TotalsAddUp` compares the counters of a test with sums over its streams, folds
whose order `CHOOSE` decides. `SetInduction` is induction stated for a *set* of
numbers (a least element outside it, by well-foundedness, is a contradiction), so
that no theorem with an operator parameter is needed. By induction on the size of
a set of streams, `SumExists` shows that the fold is a function to numbers and
`SumCounts` that adding to one stream adds as much to the sum. `Totaled` then says
that each side's totals agree with its streams, and that the server's loss is their
sum, modulo 2^64, once it has ended.

`NperfProofs` is about the whole composition, for any number of streams, any
capacity of the connections, any number of result segments, with kills and
without. It has three parts, each with an invariant that rests on the one before.

- *Types.* `TypeCorrect` proves `TypeOK`. It is not inductive: the server adds to
  `cookie_count` without a test and takes its next state from a byte. `Counters`
  adds that only the client's four messages are on their way to the server, that
  the count is 0 before and below `NumStreams` in `TestStart`, and that the
  connect loop runs only in `CreateStreams` with streams left to connect.
- *Protocol.* `NeverPanics`, `MessagesMatch`, `CookiesApart`,
  `RemoteErrorOnlyAfterLoss` and the refinement `ImplementsLockstep`. What a side
  may do depends on what the other one has sent and not yet read, so none of these
  is inductive. `Protocol` is a table of phases: the pair of states, what is
  unread in each direction, and where the client's loops are (`Started`). Since an
  event moves the pair from one row to the next (a row of its own has the server in
  `TestStart` and the client still printing its last connection), it also says which events the
  loops may still hold (`ServerEvents`, `ClientEvents`), who has seen the other
  one close (`Connection`, `Resets`), and how many streams and cookies there are on
  each side (`StreamCount`, `ClientStreams`, `Cookies`; the last counts the
  streams whose cookie is unread). `Lockstep` follows row by row: every step that
  changes a state maps to a step of it, every other one to a stutter. `NeverPanics`
  is about the server without exception; a client panics only behind a server that
  was killed with the connection being printed in its queue.
- *Events.* `NoEventLost` and `NoRoomLost`. An edge comes once, so the invariants
  say of everything that is left to handle where its edge is: `Watched` for the
  server (control messages, its own wake-up, connections, cookies and blocks),
  `Woken` for the client (room in a stream it found full). `NoEventLost` assumes
  `Paced`, the client's sleep: without it the listener loses one (`unpaced`).

`TlsHandshakeProofs` proves `TypeOK`, `NothingHeldBack`, `SecuredStart` and
`ListenerKeepsUp` for any number of streams, both build profiles and whichever
side is killed. The server announces `TestStart` by what it has itself; that the
client's handshake is over too needs the messages. The invariant adds `Flow` (what
is processed has arrived, what has arrived was written, and nothing is written
that rustls has not queued), `Secured` (a stream that is pushed or about to be has
processed both messages) and `Places`. The server has processed the client's
second message, so the client has written it, and it is queued only after both of
the server's were processed. For the listener, `Accounted` adds that the client is
exactly the queued connections ahead of the server.

`UdpStreamsProofs` proves `TypeOK`, `OneSocketPerStream` and `NoStray` for any
number of streams, losses and duplicates. `Bound` says which sockets are bound,
connected and hold something in each of the three steps of `create_udp_stream`;
`Apart` that neither the sender just received nor any datagram in the unconnected
socket is of a client that has a stream. `NoStray` is about a network without
duplicates; `Clear` says of every hello and cookie that it is in one place, and of
every stream that its client's hello is gone. As many streams as clients, each with
a client of its own, are all of them (a pigeonhole lemma), so that nothing is left.

`QuicStreamsProofs` proves `TypeOK`, `StreamOrder`, `AllCounted` and `NoPanic`
for any number of streams and blocks. `Setup` ties what the client has written to its place
in its loops, and endpoints to streams: endpoints are bound one by one and a
connection, once known to one, never moves. `Ordered` is what `StreamOrder` rests on:
the client writes to a connection only when all before it are known, so its datagrams
reach no older an endpoint than theirs, and a driver that makes it known finds them
known and none after it. A connection may be left behind on an endpoint that has
accepted another one (`quic_parallel`), but none overtakes. `Counting` is about the plain test: in
its poll the server has noticed what is in the socket, or has read the cookie and
nothing else arrived, or has everything, or has lost a client that cannot end the
test any more. These do not use the guard of `Tick`: they hold however time passes.
`NoPanic` is about time. Half a second passes only when nobody is `Able` to move,
and `OnlySleep` goes through the places of a plain test: in every one but the
client's sleep before its cookie the server has something to poll, an await is over
or quinn has a datagram to move. Hence the connection is idle for half a second at
most, below `max_idle_timeout`. For this `Alive` adds to `Counting` what is in front
of the server's poll before it has accepted (`Unaccepted`) and before it has the
cookie (`NoCookie`): data that has arrived without an edge left would be a wait that
ends in a timeout.

`AdmissionProofs` proves `OwnStreams` and `AllCookies` for any number of clients
and streams, assuming `Apart`, without which both fail (`second_client`). `Served`
says, state by state, that all connections beyond the first are the owner's, and
that every cookie not yet counted has an event.

`SendLoopProofs` proves `IntervalRate` for every bitrate, block length, number of
streams and length of the clock. The step is `OneMoreBlock`: a stream whose
truncated quotient is not above the rate may send a block more. `EndsOnTime` is
proved under `BlockInTick`, a block below what the bitrate allows in a tick (or no
bitrate at all), without which it fails (`slow_rate`). `OnTime` says that a stream
not looked at since the last tick can be written to, that an interval ending after
the time has told the loop to end, and that a loop which waits has an edge or a
full socket; so from the deadline on the loop ends when it comes to the last stream,
and it cannot go back to waiting more than once.

Its second half is about the command line, `Options` (`OptionsSpec`): `SameTest` and
`BlockUsable` for every MSS of the control connection, every set of lengths and any
number of clients in turn. `SameTest` is not inductive: Settings left on the wire
would be taken by the next client's test. `Handed` says that they are there only
between `CSetup` and `SParams`, that they are the client's, and that no client is set
up while the server serves; `Settled` and `Fits` are what `Test::from` and the client's
length limits leave.

`NoProtectionProofs` proves `PacketsOpen` for every length of the tag and any
number of key updates, assuming `SameFlags`, without which it fails
(`skip_tls_client`). `Agreed` says that a packet is as its sender's key has left
it; `RoundTrip` that `decrypt` undoes `encrypt`.

The assumptions on constants are those of the component modules: at most 255
streams, since `num_streams` is a `u8`; `MaxBlks < Wrap`; and that numbers, flags
and sets are what they should be.

Only model-checked is liveness under fairness (`TestCompletes`, `ServerRecovers`,
`ClientNotices`, `UdpStarts`, `TestStarts`, `QuicEnds`, `SendEnds`, `EveryoneEnds`),
which is beyond the prover. Every invariant of a passing run is proved, and so is the
refinement of `Lockstep`. Options other than lengths are enumerated in `Options` as
the classes its parsing tells apart; the proofs are about those.

## 5. Not modelled

- The records of a running TLS test: rustls' stream is read and written where the
  TCP stream is, and `Nperf` and `StreamStats` have those loops.
- The cookie drain of TLS and QUIC beyond what `TlsHandshake` and `QuicStreams`
  say; 0-RTT keys, which nperf never uses.
- MSS and other socket options, retransmission counts from `TcpInfo`: they change
  nothing that a property tells apart.
- `metrics.rs` and the reports: samples and text in floating point.
- Amounts that exceed 64 bits (`16G` times 2^30 and above) and lengths below 8
  with UDP, for which neither code nor help says what is meant.
- Addresses, port, names of keys, verbose and debug output. The idle timeout is
  fixed to 0 in `params.rs`, so that its arm is never reached.

## 6. Status

The modules, runs and theorems above are complete as far as section 5 allows. What
would come next is a model of the TLS records of a running test, and liveness proofs
when the provers can do them.
