------------------------------ MODULE SendLoop ------------------------------
(***************************************************************************)
(* The client's sending loop against the clock: -t and --bitrate (the      *)
(* limits -k and -n are in StreamStats).  Time is in ticks, OneSec of them *)
(* a second.  A pass over the streams takes less than a tick, and a socket *)
(* that is full has room again after one.                                  *)
(***************************************************************************)
EXTENDS Naturals

CONSTANTS
  NumStreams,   \* Settings.num_streams
  Bitrate,      \* Settings.bitrate: bits in a second, 0 for unlimited
  BlockBits,    \* 8 * Settings.length
  OneSec,       \* ONE_SEC in ticks
  TestTime,     \* Settings.time in ticks
  MaxRoom,      \* bound: blocks a socket takes in a tick
  MaxClock      \* bound: ticks

ASSUME SendAssumption ==
  /\ NumStreams \in Nat \ {0} /\ Bitrate \in Nat /\ BlockBits \in Nat \ {0}
  /\ OneSec \in Nat \ {0} /\ TestTime \in Nat /\ MaxRoom \in Nat \ {0} /\ MaxClock \in Nat

Streams == 1..NumStreams

VARIABLES
  pc,          \* poll, loop, or ended: TestEnd is sent
  idx,         \* pstream
  try_later,
  elapsed,     \* since the start, when it was last looked at
  now,         \* the clock; the test starts at 0
  curr,        \* curr[i]: pstream.timers.curr, the interval's start
  temp,        \* temp[i]: pstream.temp in bits
  total,       \* test.data in bits
  room,        \* room[i]: blocks socket i still takes
  full, edge,  \* streams that refused a block; a writable event is due
  looked       \* streams the loop has come to since the last tick

kernel == << room, full, edge >>
vars == << pc, idx, try_later, elapsed, now, curr, temp, total, kernel, looked >>

Init ==
  /\ pc = "poll" /\ idx = 1 /\ try_later = FALSE /\ elapsed = 0 /\ now = 0
  /\ curr = [i \in Streams |-> 0] /\ temp = [i \in Streams |-> 0] /\ total = 0
  /\ room \in [Streams -> 1..MaxRoom] /\ full = {} /\ edge = TRUE /\ looked = {}

\* Mutants: the rate is not looked at; the interval is never over.
NeverTooFast(i) == FALSE
NeverOver(i) == FALSE

\* rate as u64 > test_bitrate: a quotient of floats, truncated; by zero it is
\* infinite, or not a number and then 0.
TooFast(i) ==
  /\ Bitrate # 0
  /\ LET t == now - curr[i] IN
       IF t = 0 THEN temp[i] > 0 ELSE (temp[i] * OneSec) \div t > Bitrate

\* t > ONE_SEC
IntervalOver(i) == now - curr[i] > OneSec

-----------------------------------------------------------------------------
\* A writable event.
Enter ==
  /\ pc = "poll" /\ edge /\ edge' = FALSE
  /\ pc' = "loop" /\ idx' = 1 /\ try_later' = FALSE /\ elapsed' = now
  /\ UNCHANGED << now, curr, temp, total, room, full, looked >>

\* After the for loop: another round, the end of the test, or the next event.
AfterStream ==
  /\ looked' = looked \cup {idx}
  /\ idx' = IF idx < NumStreams THEN idx + 1 ELSE 1
  /\ pc' = IF idx < NumStreams \/ ~try_later' THEN "loop"
           ELSE IF elapsed' > TestTime THEN "ended" ELSE "poll"

\* continue: neither the interval nor the time is looked at.
Skip ==
  /\ pc = "loop" /\ TooFast(idx)
  /\ UNCHANGED << try_later, elapsed, now, curr, temp, total, kernel >>
  /\ AfterStream

\* A block is written and counted; the interval's end pushes it and looks at the time.
Write ==
  /\ pc = "loop" /\ ~TooFast(idx) /\ room[idx] > 0
  /\ room' = [room EXCEPT ![idx] = @ - 1]
  /\ total' = total + BlockBits
  /\ IF IntervalOver(idx)
       THEN /\ temp' = [temp EXCEPT ![idx] = 0] /\ curr' = [curr EXCEPT ![idx] = now]
            /\ elapsed' = now /\ try_later' = (try_later \/ now > TestTime)
       ELSE /\ temp' = [temp EXCEPT ![idx] = @ + BlockBits]
            /\ UNCHANGED << curr, elapsed, try_later >>
  /\ AfterStream
  /\ UNCHANGED << now, full, edge >>

\* A full socket breaks out of both loops.
WouldBlock ==
  /\ pc = "loop" /\ ~TooFast(idx) /\ room[idx] = 0
  /\ try_later' = TRUE /\ full' = full \cup {idx}
  /\ pc' = IF elapsed > TestTime THEN "ended" ELSE "poll"
  /\ UNCHANGED << idx, elapsed, now, curr, temp, total, room, edge, looked >>

\* A socket that refused a block raises a writable event once it has room.
Tick ==
  /\ now < MaxClock /\ pc # "ended"
  /\ pc = "poll" => ~edge
  /\ pc = "loop" => looked = Streams
  /\ now' = now + 1 /\ looked' = {}
  /\ room' \in [Streams -> 1..MaxRoom] /\ full' = {} /\ edge' = (edge \/ full # {})
  /\ UNCHANGED << pc, idx, try_later, elapsed, curr, temp, total >>

Ended == pc = "ended" /\ UNCHANGED vars

Step == Enter \/ Skip \/ Write \/ WouldBlock
Next == Step \/ Tick \/ Ended

Spec == Init /\ [][Next]_vars
FairSpec == Spec /\ WF_vars(Step) /\ SF_vars(Tick)

-----------------------------------------------------------------------------
\* In no interval has a stream sent more than its rate allows for the time
\* passed, and one block.
IntervalRate ==
  Bitrate # 0 => \A i \in Streams :
    temp[i] * OneSec < (Bitrate + 1) * (now - curr[i]) + (BlockBits + 1) * OneSec

\* The loop ends, although a stream above its rate is skipped without a look at
\* the time.
SendEnds == <>(pc = "ended")

\* The client transmits for the time it was given; an interval more, in which
\* it does not look at the time, is allowed for.
EndsOnTime == pc # "ended" => now <= TestTime + OneSec + 2

\* Over the whole test the client stays at its target bitrate, give or take a
\* block of each stream.
TargetBitrate ==
  Bitrate # 0 => total * OneSec <= NumStreams * (Bitrate * now + BlockBits * OneSec)
=============================================================================
