---------------------------- MODULE StreamStats ----------------------------
(***************************************************************************)
(* The accounting of a UDP test: PerfStream and Test counters on both      *)
(* sides, the client's sending loop with its -k and -n limits, and the     *)
(* interval statistics push_stat cuts them into.  The stats vector is kept *)
(* as the sums of its entries, which is all end() and the reports use.     *)
(***************************************************************************)
EXTENDS Integers, FiniteSets, FiniteSetsExt

CONSTANTS
  NumStreams,      \* Settings.num_streams
  Length,          \* Settings.length: bytes of a datagram
  BlksGiven,       \* bound: the numbers -k may give, 0 for no limit
  BytesGiven,      \* bound: the numbers -n may give, 0 for no limit
  Wrap,            \* u64 arithmetic is modulo Wrap (2^64)
  OverflowChecks,  \* cargo's dev profile: arithmetic overflow panics
  SndBuf,          \* datagrams in flight per stream before a write would block
  MaxBlks,         \* bound on the datagrams of one stream
  MaxReads         \* bound on the reads of one stream, duplicates included

ASSUME StatsAssumption ==
  /\ NumStreams \in 1..255
  /\ Length \in Nat \ {0}
  /\ BlksGiven \subseteq Nat /\ BytesGiven \subseteq Nat
  /\ Wrap \in Nat \ {0}
  /\ OverflowChecks \in BOOLEAN
  /\ SndBuf \in Nat \ {0}
  /\ MaxBlks \in Nat /\ MaxBlks < Wrap /\ MaxReads \in Nat

VARIABLES
  test_blks, test_bytes, \* -k and -n
  inorder,     \* the network of this test keeps the order and repeats nothing
  snd, rcv,    \* test.streams of the client and of the server
  sdata, rdata,\* test.data of the client and of the server
  flight,      \* flight[i]: sequence numbers of the datagrams on the way
  pc,          \* the client: poll, loop (sending), ended, panic
  cidx,        \* the stream the sending loop is at
  elapsed,     \* the loop's last look at the clock was past the test time
  try_later,   \* this pass over the streams is the last
  server       \* the server: reading, ended, panic

test == << test_blks, test_bytes, inorder >>
vars == << test, snd, rcv, sdata, rdata, flight, pc, cidx, elapsed, try_later, server >>
clientVars == << snd, sdata, pc, cidx, elapsed, try_later >>
serverVars == << rcv, rdata, server >>

Streams == 1..NumStreams

\* PerfStream: data, temp, the sums over stats, and the two sequence marks.
PerfStream == [bytes : Nat, blks : Nat, lost : Nat, tbytes : Nat, tblks : Nat,
               sbytes : Nat, sblks : Nat, slost : Nat, first : Nat, last : Nat]
new == [bytes |-> 0, blks |-> 0, lost |-> 0, tbytes |-> 0, tblks |-> 0,
        sbytes |-> 0, sblks |-> 0, slost |-> 0, first |-> 0, last |-> 0]

Word(n) == n % Wrap

\* last_recvd_in_interval - first_recvd_in_interval - temp.blks
IntervalLoss(s) == s.last - s.first - s.tblks

\* push_stat would panic: the subtraction underflows in a checked build.
PushPanics(s) == OverflowChecks /\ IntervalLoss(s) < 0

\* Mutants: a counter of the interval is not reset; its mark is not moved.
push_stat_keeps(s) ==
  [bytes |-> s.bytes, blks |-> s.blks, lost |-> s.lost, tbytes |-> 0, tblks |-> s.tblks,
   sbytes |-> s.sbytes + s.tbytes, sblks |-> s.sblks + s.tblks,
   slost |-> Word(s.slost + Word(IntervalLoss(s))), first |-> s.last, last |-> s.last]
push_stat_unmarked(s) ==
  [bytes |-> s.bytes, blks |-> s.blks, lost |-> s.lost, tbytes |-> 0, tblks |-> 0,
   sbytes |-> s.sbytes + s.tbytes, sblks |-> s.sblks + s.tblks,
   slost |-> Word(s.slost + Word(IntervalLoss(s))), first |-> s.first, last |-> s.last]

push_stat(s) ==
  [bytes |-> s.bytes, blks |-> s.blks, lost |-> s.lost, tbytes |-> 0, tblks |-> 0,
   sbytes |-> s.sbytes + s.tbytes, sblks |-> s.sblks + s.tblks,
   slost |-> Word(s.slost + Word(IntervalLoss(s))), first |-> s.last, last |-> s.last]

\* Ok(n): the counters of a datagram written, or read with number q.
Count(s, q) ==
  [bytes |-> s.bytes + Length, blks |-> s.blks + 1, lost |-> s.lost,
   tbytes |-> s.tbytes + Length, tblks |-> s.tblks + 1,
   sbytes |-> s.sbytes, sblks |-> s.sblks, slost |-> s.slost, first |-> s.first, last |-> q]
\* Mutant: only the bytes are counted.
CountTestBytes(d) == [d EXCEPT !.bytes = @ + Length]
CountTest(d) == [d EXCEPT !.bytes = @ + Length, !.blks = @ + 1]

\* Mutant: the open interval is dropped.
NeverOpen(s) == FALSE

\* Test::end for one stream: the open interval is pushed if it has bytes.
Open(s) == s.tbytes > 0
SetLost(s) ==
  [bytes |-> s.bytes, blks |-> s.blks, lost |-> s.slost, tbytes |-> s.tbytes,
   tblks |-> s.tblks, sbytes |-> s.sbytes, sblks |-> s.sblks, slost |-> s.slost,
   first |-> s.first, last |-> s.last]
EndStream(s) == SetLost(IF Open(s) THEN push_stat(s) ELSE s)
EndPanics(f) == \E i \in Streams : Open(f[i]) /\ PushPanics(f[i])

\* Test::end for the test: its loss is the sum over the streams.
SumLost(f) == MapThenSumSet(LAMBDA i : f[i].lost, Streams)
EndTest(d, f) == [d EXCEPT !.lost = Word(SumLost(f))]

-----------------------------------------------------------------------------
(* The client's sending loop. *)

\* Mutants: numbered from zero; numbered across the streams of the test.
SeqFromZero(s) == s.blks
SeqOfTest(s) == sdata.blks + 1

\* The number a datagram carries.
SeqNo(s) == s.blks + 1

LimitReached(d) ==
  (test_blks # 0 /\ d.blks >= test_blks) \/ (test_bytes # 0 /\ d.bytes >= test_bytes)

\* With -k or -n the test time is an hour and does not end the test.
TimeMayEnd == test_blks = 0 /\ test_bytes = 0

\* A writable event enters the loop; the clock is read once.
EnterLoop ==
  /\ pc = "poll"
  /\ pc' = "loop"
  /\ cidx' = 1
  /\ try_later' = FALSE
  /\ elapsed' \in {elapsed, TimeMayEnd}
  /\ UNCHANGED << test, snd, sdata, flight, serverVars >>

\* Ok(n).  sec: the stream's interval is older than a second.
Write ==
  /\ pc = "loop"
  /\ Cardinality(flight[cidx]) < SndBuf
  /\ snd[cidx].blks < MaxBlks
  /\ \E sec \in BOOLEAN, up \in {elapsed, TimeMayEnd} :
       LET s    == Count(snd[cidx], snd[cidx].last)
           push == LimitReached(CountTest(sdata)) \/ sec
       IN /\ flight' = [flight EXCEPT ![cidx] = @ \cup {SeqNo(snd[cidx])}]
          /\ sdata' = CountTest(sdata)
          /\ snd' = [snd EXCEPT ![cidx] = IF push THEN push_stat(s) ELSE s]
          /\ elapsed' = IF push THEN up ELSE elapsed
          /\ try_later' = (try_later \/ (push /\ up))
          /\ cidx' = IF cidx < NumStreams THEN cidx + 1 ELSE 1
          /\ pc' = IF push /\ PushPanics(s) THEN "panic"
                   ELSE IF cidx = NumStreams /\ try_later' THEN "left" ELSE "loop"
  /\ UNCHANGED << test, serverVars >>

\* Err of the write, a full buffer or any other: break.
WouldBlock ==
  /\ pc = "loop"
  /\ pc' = "left"
  /\ UNCHANGED << test, snd, sdata, flight, cidx, elapsed, try_later, serverVars >>

\* After the loop: end() when a limit or the time is reached, else poll again.
LeaveLoop ==
  /\ pc = "left"
  /\ IF ~(LimitReached(sdata) \/ elapsed)
       THEN pc' = "poll" /\ UNCHANGED << snd, sdata >>
       ELSE IF EndPanics(snd)
       THEN pc' = "panic" /\ UNCHANGED << snd, sdata >>
       ELSE /\ pc' = "ended"
            /\ snd' = [i \in Streams |-> EndStream(snd[i])]
            /\ sdata' = EndTest(sdata, snd')
  /\ UNCHANGED << test, flight, cidx, elapsed, try_later, serverVars >>

-----------------------------------------------------------------------------
(* The network and the server. *)

Lose(i, q) ==
  /\ q \in flight[i]
  /\ flight' = [flight EXCEPT ![i] = @ \ {q}]
  /\ UNCHANGED << test, clientVars, serverVars >>

\* The server reads datagram q.  In order, what q overtook never arrives;
\* otherwise a copy of q may still come.
Read(i, q) ==
  /\ server = "reading"
  /\ q \in flight[i] /\ rcv[i].blks < MaxReads
  /\ \E rest \in IF inorder THEN {{p \in flight[i] : p > q}} ELSE {flight[i], flight[i] \ {q}} :
       flight' = [flight EXCEPT ![i] = rest]
  /\ rdata' = CountTest(rdata)
  /\ \E sec \in BOOLEAN :
       LET s == Count(rcv[i], q)
       IN /\ rcv' = [rcv EXCEPT ![i] = IF sec THEN push_stat(s) ELSE s]
          /\ server' = IF sec /\ PushPanics(s) THEN "panic" ELSE server
  /\ UNCHANGED << test, clientVars >>

\* TestEnd has arrived: end().
EndServer ==
  /\ server = "reading"
  /\ pc = "ended"
  /\ IF EndPanics(rcv)
       THEN server' = "panic" /\ UNCHANGED << rcv, rdata >>
       ELSE /\ server' = "ended"
            /\ rcv' = [i \in Streams |-> EndStream(rcv[i])]
            /\ rdata' = EndTest(rdata, rcv')
  /\ UNCHANGED << test, clientVars, flight >>

\* Both tests are over (or a process has panicked).
Over == (server = "ended" \/ pc = "panic" \/ server = "panic") /\ UNCHANGED vars

Init ==
  /\ test_blks \in BlksGiven /\ test_bytes \in BytesGiven /\ inorder \in BOOLEAN
  /\ snd = [i \in Streams |-> new] /\ rcv = [i \in Streams |-> new]
  /\ sdata = [bytes |-> 0, blks |-> 0, lost |-> 0]
  /\ rdata = [bytes |-> 0, blks |-> 0, lost |-> 0]
  /\ flight = [i \in Streams |-> {}]
  /\ pc = "poll" /\ cidx = 1 /\ elapsed = FALSE /\ try_later = FALSE
  /\ server = "reading"

Next ==
  \/ EnterLoop \/ Write \/ WouldBlock \/ LeaveLoop
  \/ \E i \in Streams : \E q \in flight[i] : Lose(i, q) \/ Read(i, q)
  \/ EndServer \/ Over

Spec == Init /\ [][Next]_vars

-----------------------------------------------------------------------------
TestData == [bytes : Nat, blks : Nat, lost : Nat]

\* Every counter has its type, and datagrams are numbered from 1: the server
\* takes 0 for "none received yet" (first_recvd_in_interval starts at 0).
TypeOK ==
  /\ test_blks \in BlksGiven /\ test_bytes \in BytesGiven /\ inorder \in BOOLEAN
  /\ snd \in [Streams -> PerfStream] /\ rcv \in [Streams -> PerfStream]
  /\ sdata \in TestData /\ rdata \in TestData
  /\ flight \in [Streams -> SUBSET (Nat \ {0})]
  /\ pc \in {"poll", "loop", "left", "ended", "panic"}
  /\ cidx \in Streams /\ elapsed \in BOOLEAN /\ try_later \in BOOLEAN
  /\ server \in {"reading", "ended", "panic"}

\* push_stat cuts a stream's counters into intervals without losing or
\* counting twice: what was pushed and the open interval add up to the total,
\* also where a limit pushes at every block and whatever the network repeats.
IntervalsAddUp ==
  \A i \in Streams : \A s \in {snd[i], rcv[i]} :
    /\ s.sbytes + s.tbytes = s.bytes
    /\ s.sblks + s.tblks = s.blks

\* The [Sum] line is the sum of the per-stream lines, on both sides.
TotalsAddUp ==
  /\ sdata.bytes = MapThenSumSet(LAMBDA i : snd[i].bytes, Streams)
  /\ sdata.blks = MapThenSumSet(LAMBDA i : snd[i].blks, Streams)
  /\ rdata.bytes = MapThenSumSet(LAMBDA i : rcv[i].bytes, Streams)
  /\ rdata.blks = MapThenSumSet(LAMBDA i : rcv[i].blks, Streams)
  /\ server = "ended" => rdata.lost = Word(SumLost(rcv))

\* When datagrams arrive in order and none twice, the losses of the receiver's
\* intervals telescope: no interval's subtraction wraps, and what has been
\* reported so far is what is missing up to the last datagram of the last
\* pushed interval.  (The sender reads no numbers, and its subtraction wraps.)
LossTelescopes ==
  inorder => \A i \in Streams :
    /\ IntervalLoss(rcv[i]) >= 0
    /\ rcv[i].slost + rcv[i].sblks = rcv[i].first

\* The loss in the server's final report, of a network that keeps the order and
\* repeats nothing: the datagrams missing before the last one received.
ReportedLoss ==
  inorder /\ server = "ended" =>
    \A i \in Streams : rcv[i].lost + rcv[i].blks = rcv[i].last

\* On such a network never more datagrams are read and reported lost than were
\* sent.
ReportWithinSent ==
  inorder => \A i \in Streams : rcv[i].lost + rcv[i].blks <= snd[i].blks

\* "[c] number of blocks (packets) to transmit (instead of -t or -n)"
StopsAtBlocks == test_blks # 0 => sdata.blks <= test_blks

\* A UDP test runs: no arithmetic of push_stat panics.
NoOverflowPanic == pc # "panic" /\ server # "panic"
=============================================================================
