--------------------------- MODULE SendLoopProofs ---------------------------
(***************************************************************************)
(* The rate of an interval, proved for every bitrate, block length, number *)
(* of streams and clock; and the end of the loop in time, proved for a     *)
(* block that is small against what the bitrate allows in a tick.  The     *)
(* second half is about where these numbers come from, the command line.   *)
(***************************************************************************)
EXTENDS SendLoop, Options, Integers, TLAPS

\* What the rate rests on: an interval begins in the past.
Clocked ==
  /\ idx \in Streams /\ now \in Nat
  /\ curr \in [Streams -> Nat] /\ temp \in [Streams -> Nat]
  /\ \A i \in Streams : curr[i] <= now

\* What a stream may have sent in t ticks of its interval.
Allowed(t) == (Bitrate + 1) * t + (BlockBits + 1) * OneSec

Pace == Clocked /\ \A i \in Streams : Bitrate # 0 => temp[i] * OneSec < Allowed(now - curr[i])

-----------------------------------------------------------------------------
LEMMA Numbers ==
  /\ NumStreams \in Nat /\ NumStreams > 0 /\ Bitrate \in Nat /\ BlockBits \in Nat
  /\ OneSec \in Nat /\ OneSec > 0 /\ Streams = 1..NumStreams
  BY SendAssumption DEF Streams

\* A truncated quotient that is not above the rate bounds what is divided.
LEMMA Truncated ==
  ASSUME NEW a \in Nat, NEW t \in Nat, t > 0, NEW b \in Nat, ~(a \div t > b)
  PROVE  a < (b + 1) * t
  <1>1. PICK q \in Int : q = a \div t
    OBVIOUS
  <1>2. a < (q + 1) * t
    BY <1>1
  <1>3. q + 1 <= b + 1
    BY <1>1
  <1>4. (q + 1) * t <= (b + 1) * t
    BY <1>1, <1>3
  <1> QED BY <1>1, <1>2, <1>4

\* More time allows for more.
LEMMA AllowedGrows ==
  ASSUME NEW t \in Nat
  PROVE  /\ Allowed(t) \in Nat /\ Allowed(t + 1) \in Nat /\ Allowed(t) <= Allowed(t + 1)
         /\ 0 < Allowed(t)
  <1>1. PICK b \in Nat : b = Bitrate + 1
    BY Numbers
  <1>2. PICK c \in Nat : c = (BlockBits + 1) * OneSec /\ c > 0
    <2>1. (BlockBits + 1) * OneSec = BlockBits * OneSec + OneSec
      BY Numbers
    <2>2. BlockBits * OneSec \in Nat
      BY Numbers
    <2> QED BY <2>1, <2>2, Numbers
  <1>3. b * (t + 1) = b * t + b /\ b * t \in Nat
    OBVIOUS
  <1> QED BY <1>1, <1>2, <1>3 DEF Allowed

\* A stream that is not above its rate may send one block more.
LEMMA OneMoreBlock ==
  ASSUME Clocked, NEW i \in Streams, Bitrate # 0, ~TooFast(i)
  PROVE  (temp[i] + BlockBits) * OneSec < Allowed(now - curr[i])
  <1>1. PICK t \in Nat : t = now - curr[i]
    BY DEF Clocked
  <1>2. PICK x \in Nat : x = temp[i]
    BY DEF Clocked
  <1>3. /\ (x + BlockBits) * OneSec = x * OneSec + BlockBits * OneSec
        /\ (BlockBits + 1) * OneSec = BlockBits * OneSec + OneSec
        /\ x * OneSec \in Nat /\ BlockBits * OneSec \in Nat /\ (Bitrate + 1) * t \in Nat
    BY Numbers
  <1>4. x * OneSec < (Bitrate + 1) * t + OneSec
    <2>1. CASE t = 0
      <3>1. x = 0
        BY <1>1, <1>2, <2>1 DEF TooFast
      <3> QED BY <1>3, <2>1, <3>1, Numbers
    <2>2. CASE t # 0
      <3>1. ~((x * OneSec) \div t > Bitrate)
        BY <1>1, <1>2, <2>2 DEF TooFast
      <3>2. x * OneSec < (Bitrate + 1) * t
        BY <1>3, <2>2, <3>1, Truncated, Numbers
      <3> QED BY <1>3, <3>2, Numbers
    <2> QED BY <2>1, <2>2
  <1>5. x * OneSec + BlockBits * OneSec < (Bitrate + 1) * t + (BlockBits * OneSec + OneSec)
    BY <1>3, <1>4, Numbers
  <1> QED BY <1>1, <1>2, <1>3, <1>5 DEF Allowed

LEMMA PaceInit == Init => Pace
  <1>1. SUFFICES ASSUME Init PROVE Pace
    OBVIOUS
  <1>2. Clocked
    BY <1>1, Numbers DEF Init, Clocked
  <1>3. 0 < Allowed(0)
    BY AllowedGrows
  <1>4. \A i \in Streams : temp[i] * OneSec = 0 /\ now - curr[i] = 0
    BY <1>1, Numbers DEF Init
  <1> QED BY <1>2, <1>3, <1>4 DEF Pace

LEMMA PaceWrite == ASSUME Pace, Write PROVE Pace'
  <1>1. PICK k \in Streams : k = idx
    BY DEF Pace, Clocked
  <1>2. /\ ~TooFast(k) /\ now' = now
        /\ \/ temp' = [temp EXCEPT ![k] = 0] /\ curr' = [curr EXCEPT ![k] = now]
           \/ temp' = [temp EXCEPT ![k] = @ + BlockBits] /\ UNCHANGED curr
        /\ idx' = IF idx < NumStreams THEN idx + 1 ELSE 1
    BY <1>1 DEF Write, AfterStream
  <1>3. idx' \in Streams
    BY <1>1, <1>2, Numbers
  <1>4. CASE temp' = [temp EXCEPT ![k] = 0] /\ curr' = [curr EXCEPT ![k] = now]
    <2>1. Clocked'
      BY <1>2, <1>3, <1>4 DEF Pace, Clocked
    <2>2. temp'[k] = 0 /\ now' - curr'[k] = 0 /\ temp'[k] * OneSec = 0
      BY <1>2, <1>4, Numbers DEF Pace, Clocked
    <2>3. 0 < Allowed(0)
      BY AllowedGrows
    <2>4. \A i \in Streams : i # k => temp'[i] = temp[i] /\ curr'[i] = curr[i]
      BY <1>4 DEF Pace, Clocked
    <2> QED BY <1>2, <2>1, <2>2, <2>3, <2>4 DEF Pace, Allowed
  <1>5. CASE temp' = [temp EXCEPT ![k] = @ + BlockBits] /\ UNCHANGED curr
    <2>1. Clocked'
      <3>1. temp[k] + BlockBits \in Nat /\ temp \in [Streams -> Nat]
        BY Numbers DEF Pace, Clocked
      <3>2. temp' \in [Streams -> Nat]
        BY <1>5, <3>1
      <3> QED BY <1>2, <1>3, <1>5, <3>2 DEF Pace, Clocked
    <2>2. temp'[k] = temp[k] + BlockBits /\ \A i \in Streams : i # k => temp'[i] = temp[i]
      BY <1>5 DEF Pace, Clocked
    <2>3. Bitrate # 0 => temp'[k] * OneSec < Allowed(now - curr[k])
      BY <1>2, <2>2, OneMoreBlock DEF Pace
    <2> QED BY <1>2, <1>5, <2>1, <2>2, <2>3 DEF Pace, Allowed
  <1> QED BY <1>2, <1>4, <1>5

LEMMA PaceTick == ASSUME Pace, Tick PROVE Pace'
  <1>1. now' = now + 1 /\ UNCHANGED << idx, curr, temp >>
    BY DEF Tick
  <1>2. Clocked'
    BY <1>1 DEF Pace, Clocked
  <1>3. ASSUME NEW i \in Streams, Bitrate # 0
        PROVE  temp'[i] * OneSec < Allowed(now' - curr'[i])
    <2>1. PICK t \in Nat : t = now - curr[i] /\ t + 1 = now' - curr'[i]
      BY <1>1 DEF Pace, Clocked
    <2>2. temp[i] * OneSec \in Nat /\ temp[i] * OneSec < Allowed(t)
      <3>1. temp[i] \in Nat /\ temp[i] * OneSec < Allowed(now - curr[i])
        BY <1>3 DEF Pace, Clocked
      <3>2. temp[i] * OneSec \in Nat
        BY <3>1, Numbers
      <3> QED BY <2>1, <3>1, <3>2
    <2>3. temp[i] * OneSec < Allowed(t + 1)
      BY <2>2, AllowedGrows
    <2> QED BY <1>1, <2>1, <2>3
  <1> QED BY <1>2, <1>3 DEF Pace, Allowed

\* The steps in which neither the clock nor a count changes.
LEMMA PaceOther == ASSUME Pace, Enter \/ Skip \/ WouldBlock \/ UNCHANGED vars PROVE Pace'
  <1>1. UNCHANGED << now, curr, temp >> /\ idx' \in {1, idx, IF idx < NumStreams THEN idx + 1 ELSE 1}
    BY DEF Enter, Skip, WouldBlock, AfterStream, vars
  <1>2. idx' \in Streams
    BY <1>1, Numbers DEF Pace, Clocked
  <1>3. Clocked'
    BY <1>1, <1>2 DEF Pace, Clocked
  <1> QED BY <1>1, <1>3 DEF Pace, Allowed

\* In its interval a stream never sends more than the rate allows for the time
\* that has passed, the truncation of the quotient, and the one block whose
\* length no look at the rate takes into account.
THEOREM RateKept == Spec => []IntervalRate
  <1>1. Pace /\ [Next]_vars => Pace'
    BY PaceWrite, PaceTick, PaceOther DEF Next, Step, Ended
  <1>2. Pace => IntervalRate
    BY DEF Pace, Allowed, IntervalRate
  <1> QED BY <1>1, <1>2, PaceInit, PTL DEF Spec

-----------------------------------------------------------------------------
(* The end in time. *)

\* A block is less than the rate allows in a tick: with it a stream that has
\* just sent is below its rate again after one.
BlockInTick == Bitrate # 0 => (BlockBits + 1) * OneSec <= Bitrate + 1

\* When every interval that began in time is over.
Deadline == TestTime + OneSec + 1

\* A waiting loop has an edge, or a full socket that will raise it.
Waits ==
  /\ pc = "poll" => IF edge THEN looked = {} /\ full = {} ELSE full # {}
  /\ pc = "loop" => ~edge /\ full = {}

\* A stream the loop has not come to since the last tick can be written to.
Writable == \A i \in Streams : i \notin looked => room[i] > 0 /\ ~TooFast(i)

\* An interval that ends after the time has told the loop to end.
Told ==
  /\ pc = "loop" /\ try_later => elapsed > TestTime
  /\ \A i \in Streams : curr[i] > TestTime => pc = "ended" \/ (pc = "loop" /\ try_later)

\* From the deadline on, the loop ends when it comes to the last stream.
AtDeadline ==
  /\ pc = "loop" /\ now >= Deadline => NumStreams \notin looked
  /\ now <= Deadline + 1
  /\ now = Deadline + 1 => (pc = "poll" => edge) /\ (pc = "loop" => elapsed > TestTime)

OnTime ==
  /\ pc \in {"poll", "loop", "ended"} /\ edge \in BOOLEAN /\ try_later \in BOOLEAN
  /\ elapsed \in Nat /\ elapsed <= now /\ room \in [Streams -> Nat] /\ looked \subseteq Streams
  /\ Waits /\ Writable /\ Told /\ AtDeadline

LEMMA Times == TestTime \in Nat /\ Deadline \in Nat /\ Deadline = TestTime + OneSec + 1 /\ NumStreams \in Streams
  BY SendAssumption, Numbers DEF Deadline

\* What is below its share of the time has a quotient that is not above the rate.
LEMMA QuotientBelow ==
  ASSUME NEW a \in Nat, NEW t \in Nat, t > 0, NEW b \in Nat, a < (b + 1) * t
  PROVE  ~(a \div t > b)
  <1>1. PICK q \in Int : q = a \div t
    OBVIOUS
  <1>2. q * t <= a
    BY <1>1
  <1>3. SUFFICES ASSUME q >= b + 1 PROVE FALSE
    BY <1>1
  <1>4. (b + 1) * t <= q * t
    BY <1>1, <1>3
  <1> QED BY <1>1, <1>2, <1>4

\* A tick brings every stream below its rate.
LEMMA TickSlows ==
  ASSUME BlockInTick, Pace, NEW i \in Streams, now' = now + 1, UNCHANGED << curr, temp >>
  PROVE  ~TooFast(i)'
  <1>1. PICK t \in Nat : t = now - curr[i] /\ t + 1 = now' - curr'[i]
    BY DEF Pace, Clocked
  <1>2. PICK a \in Nat : a = temp[i] * OneSec
    BY Numbers DEF Pace, Clocked
  <1>3. CASE Bitrate = 0
    BY <1>3 DEF TooFast
  <1>4. CASE Bitrate # 0
    <2>1. a < Allowed(t)
      BY <1>1, <1>2, <1>4 DEF Pace
    <2>2. PICK b \in Nat : b = Bitrate + 1
      BY Numbers
    <2>3. b * (t + 1) = b * t + b /\ b * t \in Nat
      OBVIOUS
    <2>4. (BlockBits + 1) * OneSec <= b /\ (BlockBits + 1) * OneSec \in Nat
      BY <1>4, <2>2, Numbers DEF BlockInTick
    <2>5. a < (Bitrate + 1) * (t + 1)
      BY <2>1, <2>2, <2>3, <2>4 DEF Allowed
    <2>6. ~(a \div (t + 1) > Bitrate)
      BY <2>5, QuotientBelow, Numbers
    <2> QED BY <1>1, <1>2, <2>6 DEF TooFast
  <1> QED BY <1>3, <1>4

LEMMA OnTimeInit == Init => OnTime
  <1>1. SUFFICES ASSUME Init PROVE OnTime
    OBVIOUS
  <1>2. room \in [Streams -> Nat] /\ \A i \in Streams : room[i] > 0
    BY <1>1, SendAssumption DEF Init
  <1>3. \A i \in Streams : ~TooFast(i)
    BY <1>1 DEF Init, TooFast
  <1>4. Waits /\ Writable /\ Told /\ AtDeadline
    BY <1>1, <1>2, <1>3, Times, Numbers DEF Init, Waits, Writable, Told, AtDeadline
  <1>5. pc \in {"poll", "loop", "ended"} /\ edge \in BOOLEAN /\ try_later \in BOOLEAN
    BY <1>1 DEF Init
  <1>6. elapsed \in Nat /\ elapsed <= now /\ looked \subseteq Streams
    BY <1>1 DEF Init
  <1> QED BY <1>2, <1>4, <1>5, <1>6 DEF OnTime

LEMMA OnTimeEnter == ASSUME Pace, OnTime, Enter PROVE OnTime'
  <1>1. /\ pc = "poll" /\ edge /\ edge' = FALSE /\ pc' = "loop" /\ try_later' = FALSE /\ elapsed' = now
        /\ UNCHANGED << now, curr, temp, room, full, looked >>
    BY DEF Enter
  <1>2. now \in Nat /\ looked = {} /\ full = {}
    BY <1>1 DEF Pace, Clocked, OnTime, Waits
  <1>3. Waits' /\ Told'
    BY <1>1, <1>2 DEF OnTime, Waits, Told
  <1>4. Writable'
    BY <1>1 DEF OnTime, Writable, TooFast
  <1>5. AtDeadline'
    BY <1>1, <1>2, Times, Numbers DEF OnTime, AtDeadline, Deadline
  <1>6. pc' \in {"poll", "loop", "ended"} /\ edge' \in BOOLEAN /\ try_later' \in BOOLEAN
    BY <1>1
  <1>7. elapsed' \in Nat /\ elapsed' <= now' /\ room' \in [Streams -> Nat] /\ looked' \subseteq Streams
    BY <1>1, <1>2 DEF OnTime
  <1> QED BY <1>3, <1>4, <1>5, <1>6, <1>7 DEF OnTime

\* A round that is over goes on, or ends: after a look at the time that was
\* too late it never goes back to waiting.
LEMMA RoundEnds ==
  ASSUME Pace, OnTime, pc = "loop", AfterStream, UNCHANGED << now, full, edge >>,
         try_later' \in BOOLEAN, elapsed' \in Nat, elapsed' <= now, room' \in [Streams -> Nat],
         try_later' => elapsed' > TestTime, elapsed > TestTime => elapsed' > TestTime,
         \A i \in Streams : i # idx => room'[i] = room[i] /\ temp'[i] = temp[i] /\ curr'[i] = curr[i],
         \A i \in Streams : curr'[i] > TestTime => try_later',
         now >= Deadline /\ idx = NumStreams => try_later'
  PROVE  OnTime'
  <1>1. PICK k \in Streams : k = idx
    BY DEF Pace, Clocked
  <1>2. looked' = looked \cup {k} /\ (pc' = "loop" \/ (pc' = "ended" /\ k = NumStreams))
    BY <1>1, Times, Numbers DEF AfterStream
  <1>3. pc' = "loop" => k # NumStreams \/ ~try_later'
    BY <1>1, Times, Numbers DEF AfterStream
  <1>4. try_later' /\ k = NumStreams => pc' = "ended"
    BY <1>1, Times, Numbers DEF AfterStream
  <1>5. Waits'
    BY <1>2 DEF OnTime, Waits
  <1>6. Writable'
    BY <1>1, <1>2 DEF OnTime, Writable, TooFast
  <1>7. Told'
    BY <1>2, <1>4, <1>3 DEF Told
  <1>8. AtDeadline'
    <2>1. pc' = "loop" /\ now' >= Deadline => NumStreams \notin looked'
      BY <1>1, <1>2, <1>3 DEF OnTime, AtDeadline
    <2>2. now' <= Deadline + 1 /\ (now' = Deadline + 1 /\ pc' = "loop" => elapsed' > TestTime)
      BY DEF OnTime, AtDeadline
    <2> QED BY <1>2, <2>1, <2>2 DEF AtDeadline, Deadline
  <1> QED BY <1>1, <1>2, <1>5, <1>6, <1>7, <1>8 DEF OnTime

LEMMA OnTimeSkip == ASSUME Pace, OnTime, Skip PROVE OnTime'
  <1>1. pc = "loop" /\ TooFast(idx) /\ UNCHANGED << try_later, elapsed, now, curr, temp, room, full, edge >> /\ AfterStream
    BY DEF Skip, kernel
  <1>2. idx \in looked
    BY <1>1 DEF Pace, Clocked, OnTime, Writable
  <1>3. now >= Deadline => idx # NumStreams
    BY <1>1, <1>2 DEF OnTime, AtDeadline
  <1>4. \A i \in Streams : curr'[i] > TestTime => try_later'
    BY <1>1 DEF OnTime, Told
  <1> QED BY <1>1, <1>3, <1>4, RoundEnds DEF OnTime, Told

LEMMA OnTimeWrite == ASSUME Pace, OnTime, Write PROVE OnTime'
  <1>1. PICK k \in Streams : k = idx
    BY DEF Pace, Clocked
  <1>2. /\ pc = "loop" /\ room[k] > 0 /\ room' = [room EXCEPT ![k] = @ - 1] /\ AfterStream
        /\ UNCHANGED << now, full, edge >>
    BY <1>1 DEF Write
  <1>3. room' \in [Streams -> Nat] /\ \A i \in Streams : i # k => room'[i] = room[i]
    BY <1>2 DEF OnTime
  <1>4. now \in Nat /\ elapsed \in Nat /\ elapsed <= now /\ curr[k] \in Nat /\ TestTime \in Nat
    BY Times DEF Pace, Clocked, OnTime
  <1>5. CASE IntervalOver(k)
    <2>1. /\ temp' = [temp EXCEPT ![k] = 0] /\ curr' = [curr EXCEPT ![k] = now]
          /\ elapsed' = now /\ try_later' = (try_later \/ now > TestTime)
      BY <1>1, <1>5 DEF Write
    <2>2. \A i \in Streams : i # k => temp'[i] = temp[i] /\ curr'[i] = curr[i]
      BY <2>1 DEF Pace, Clocked
    <2>3. curr'[k] = now
      BY <2>1 DEF Pace, Clocked
    <2>4. try_later' \in BOOLEAN /\ (try_later' => elapsed' > TestTime)
      BY <1>2, <1>4, <2>1 DEF OnTime, Told
    <2>5. \A i \in Streams : curr'[i] > TestTime => try_later'
      BY <1>2, <2>1, <2>2, <2>3 DEF OnTime, Told
    <2>6. now >= Deadline => try_later'
      <3>1. now >= Deadline => now > TestTime
        BY <1>4, Times, Numbers
      <3> QED BY <2>1, <3>1
    <2>7. elapsed' \in Nat /\ elapsed' <= now /\ (elapsed > TestTime => elapsed' > TestTime)
      BY <1>4, <2>1
    <2> QED BY <1>1, <1>2, <1>3, <2>2, <2>4, <2>5, <2>6, <2>7, RoundEnds
  <1>6. CASE ~IntervalOver(k)
    <2>1. temp' = [temp EXCEPT ![k] = @ + BlockBits] /\ UNCHANGED << curr, elapsed, try_later >>
      BY <1>1, <1>6 DEF Write
    <2>2. \A i \in Streams : i # k => temp'[i] = temp[i] /\ curr'[i] = curr[i]
      BY <2>1 DEF Pace, Clocked
    <2>3. \A i \in Streams : curr'[i] > TestTime => try_later'
      BY <1>2, <2>1 DEF OnTime, Told
    <2>4. now >= Deadline => try_later'
      <3>1. now >= Deadline => curr[k] > TestTime
        BY <1>4, <1>6, Times, Numbers DEF IntervalOver
      <3> QED BY <2>1, <2>3, <3>1
    <2>5. try_later' \in BOOLEAN /\ (try_later' => elapsed' > TestTime)
      BY <1>2, <2>1 DEF OnTime, Told
    <2> QED BY <1>1, <1>2, <1>3, <1>4, <2>1, <2>2, <2>3, <2>4, <2>5, RoundEnds
  <1> QED BY <1>5, <1>6

LEMMA OnTimeWouldBlock == ASSUME Pace, OnTime, WouldBlock PROVE OnTime'
  <1>1. PICK k \in Streams : k = idx
    BY DEF Pace, Clocked
  <1>2. /\ pc = "loop" /\ try_later' = TRUE /\ full' = full \cup {k}
        /\ pc' = IF elapsed > TestTime THEN "ended" ELSE "poll"
        /\ UNCHANGED << elapsed, now, curr, temp, room, edge, looked >>
    BY <1>1 DEF WouldBlock
  <1>3. Waits'
    BY <1>2 DEF OnTime, Waits
  <1>4. Writable'
    BY <1>2 DEF OnTime, Writable, TooFast
  <1>5. Told'
    BY <1>2 DEF OnTime, Told
  <1>6. AtDeadline'
    BY <1>2 DEF OnTime, AtDeadline, Deadline
  <1> QED BY <1>2, <1>3, <1>4, <1>5, <1>6 DEF OnTime

LEMMA OnTimeTick == ASSUME BlockInTick, Pace, OnTime, Tick PROVE OnTime'
  <1>1. /\ pc # "ended" /\ (pc = "poll" => ~edge) /\ (pc = "loop" => looked = Streams)
        /\ now' = now + 1 /\ looked' = {}
        /\ room' \in [Streams -> 1..MaxRoom] /\ full' = {} /\ edge' = (edge \/ full # {})
        /\ UNCHANGED << pc, idx, try_later, elapsed, curr, temp >>
    BY DEF Tick
  <1>2. room' \in [Streams -> Nat] /\ \A i \in Streams : room'[i] > 0
    BY <1>1, SendAssumption
  <1>3. now \in Nat /\ elapsed \in Nat /\ elapsed <= now'
    BY <1>1 DEF Pace, Clocked, OnTime
  <1>4. Waits'
    BY <1>1 DEF OnTime, Waits
  <1>5. Writable'
    BY <1>1, <1>2, TickSlows DEF Writable
  <1>6. Told'
    BY <1>1 DEF OnTime, Told
  <1>7. AtDeadline'
    <2>1. pc = "loop" => ~(now >= Deadline)
      BY <1>1, Times DEF OnTime, AtDeadline
    <2>2. pc = "poll" => now # Deadline + 1 /\ edge'
      BY <1>1 DEF OnTime, AtDeadline, Waits
    <2>3. now <= Deadline + 1 /\ now # Deadline + 1 /\ (pc = "loop" => now < Deadline)
      BY <1>1, <1>3, <2>1, <2>2, Times DEF OnTime, AtDeadline
    <2> QED BY <1>1, <1>3, <2>2, <2>3, Times DEF AtDeadline, Deadline
  <1> QED BY <1>1, <1>2, <1>3, <1>4, <1>5, <1>6, <1>7 DEF OnTime

LEMMA OnTimeStutter == ASSUME OnTime, UNCHANGED vars PROVE OnTime'
  BY DEF OnTime, Waits, Writable, TooFast, Told, AtDeadline, Deadline, vars, kernel

\* The loop sends TestEnd at most an interval and two ticks after its time, for
\* any number of streams, when the bitrate is unlimited or a block is small
\* against it: skipped streams and full sockets never keep it from looking at
\* the clock for longer.  A block that is not small does (slow_rate).
THEOREM StopsInTime == ASSUME BlockInTick PROVE Spec => []EndsOnTime
  <1>1. Pace /\ OnTime /\ [Next]_vars => OnTime'
    BY OnTimeEnter, OnTimeSkip, OnTimeWrite, OnTimeWouldBlock, OnTimeTick, OnTimeStutter DEF Next, Step, Ended
  <1>2. Pace /\ [Next]_vars => Pace'
    BY PaceWrite, PaceTick, PaceOther DEF Next, Step, Ended
  <1>3. OnTime => EndsOnTime
    BY Times, Numbers DEF OnTime, AtDeadline, EndsOnTime
  <1> QED BY <1>1, <1>2, <1>3, PaceInit, OnTimeInit, PTL DEF Spec

-----------------------------------------------------------------------------
(***************************************************************************)
(* Where the loop's numbers come from: Options, from the command line to   *)
(* the Settings both sides run with, for every MSS, length and number of   *)
(* clients.                                                                *)
(***************************************************************************)
Conns == {"TCP", "TLS", "UDP", "QUIC"}

\* A block is not empty, and a datagram fits its array.
Fits(s) ==
  s.length > 0 /\ (s.conn \in {"UDP", "QUIC"} => s.length <= Buffer(s.conn))

\* Settings as Test::from and CSetup leave them.
Settled(s) ==
  s \in [conn : Conns, num_streams : Nat, bitrate : Nat, bytes : Nat, blks : Nat,
         length : Nat, time : Nat]

\* What SameTest rests on: Settings are on the wire only between CSetup and
\* SParams, and no client runs, and none is set up, while the server serves.
Handed ==
  /\ wire # {} => cpc = "sent" /\ wire = {cset}
  /\ spc = "Streams" => wire = {} /\ cpc \in {"sent", "panic", "done"}

Commanded ==
  /\ spc \in {"Start", "Streams"} /\ sopts \in ServerOptions
  /\ Settled(cset) /\ (cpc = "sent" => Fits(cset))
  /\ Handed /\ SameTest

LEMMA Limits ==
  ASSUME NEW c \in Conns, NEW l \in Nat
  PROVE  /\ Length(c, l) \in Nat /\ Length(c, l) > 0
         /\ c \in {"UDP", "QUIC"} => Length(c, l) <= Buffer(c)
  <1>1. CASE c \in {"TCP", "TLS"}
    <2>1. Length(c, l) = IF l = 0 THEN 131072 ELSE l
      BY <1>1 DEF Length, MAX_TCP_PAYLOAD
    <2>2. c \notin {"UDP", "QUIC"}
      BY <1>1
    <2>3. (IF l = 0 THEN 131072 ELSE l) \in Nat /\ (IF l = 0 THEN 131072 ELSE l) > 0
      OBVIOUS
    <2> QED BY <2>1, <2>2, <2>3
  <1>2. CASE c \in {"UDP", "QUIC"}
    <2>1. Length(c, l) = IF l > 65500 THEN 65500 ELSE IF l = 0 THEN CtrlMss ELSE l
      BY <1>2 DEF Length, MAX_UDP_PAYLOAD
    <2>2. Buffer(c) = 65500
      BY <1>2 DEF Buffer, MAX_UDP_PAYLOAD, MAX_QUIC_PAYLOAD
    <2>3. CtrlMss \in Nat /\ CtrlMss > 0 /\ CtrlMss <= 65500
      BY OptionsAssumption
    <2> QED BY <2>1, <2>2, <2>3
  <1> QED BY <1>1, <1>2 DEF Conns

\* An amount comes out as a number of bits.
LEMMA Rates ==
  ASSUME NEW a \in Amounts
  PROVE  getrate_in_bits(a) \in Nat
  <1>1. a.num \in Nat
    BY DEF Amounts, Amount, NoAmount
  <1>2. ASSUME NEW k
        PROVE  kmg_to_bits(a.num, k) \in Nat
    <2>1. PICK f \in Nat : kmg_to_bits(a.num, k) = a.num * f
      <3>1. CASE k = "K"
        BY <3>1 DEF kmg_to_bits
      <3>2. CASE k = "M"
        BY <3>2 DEF kmg_to_bits
      <3>3. CASE k = "G"
        BY <3>3 DEF kmg_to_bits
      <3>4. CASE k \notin {"K", "M", "G"}
        BY <3>4 DEF kmg_to_bits
      <3> QED BY <3>1, <3>2, <3>3, <3>4
    <2> QED BY <1>1, <2>1
  <1> QED BY <1>2 DEF getrate_in_bits

LEMMA FromOptions ==
  ASSUME NEW o, o.parallel \in 1..2, o.bitrate \in Amounts, o.bytes \in Amounts,
         o.blks \in Nat, o.time \in Nat, o.length \in Nat
  PROVE  Settled(TestFrom(o))
  <1>1. Conn(o) \in Conns
    BY DEF Conn, Conns
  <1>2. getrate_in_bits(o.bitrate) \in Nat /\ getrate_in_bits(o.bytes) \in Nat
    BY Rates
  <1>3. PICK c \in Conns : c = Conn(o)
    BY <1>1
  <1>4. PICK r \in Nat : r = getrate_in_bits(o.bitrate)
    BY <1>2
  <1>5. PICK b \in Nat : b = getrate_in_bits(o.bytes)
    BY <1>2
  <1>6. PICK t \in Nat : t = IF b > 0 \/ o.blks > 0 THEN 3600 ELSE o.time
    OBVIOUS
  <1>7. PICK p \in 1..2, k \in Nat, l \in Nat : p = o.parallel /\ k = o.blks /\ l = o.length
    OBVIOUS
  <1>8. TestFrom(o) =
          [conn |-> c, num_streams |-> p, bitrate |-> r, bytes |-> b, blks |-> k,
           length |-> l, time |-> t]
    BY <1>3, <1>4, <1>5, <1>6, <1>7 DEF TestFrom
  <1>9. p \in Nat
    OBVIOUS
  <1> QED BY <1>8, <1>9 DEF Settled

LEMMA FromClient ==
  ASSUME NEW o \in ClientOptions
  PROVE  Settled(TestFrom(o))
  <1>1. /\ o.parallel \in 1..2 /\ o.bitrate \in Amounts /\ o.bytes \in Amounts
        /\ o.blks \in 0..1 /\ o.time \in {0, 10} /\ o.length \in LengthTexts
    BY DEF ClientOptions
  <1>2. o.blks \in Nat /\ o.time \in Nat
    BY <1>1
  <1>3. LengthTexts \subseteq Nat
    BY OptionsAssumption
  <1>4. o.length \in Nat
    BY <1>1, <1>3
  <1> QED BY <1>1, <1>2, <1>4, FromOptions

LEMMA FromServer ==
  ASSUME NEW o \in ServerOptions
  PROVE  Settled(TestFrom(o))
  <1>1. /\ o.parallel \in 1..2 /\ o.bitrate = NoAmount /\ o.bytes = NoAmount
        /\ o.blks = 0 /\ o.time = 10 /\ o.length = 0
    BY DEF ServerOptions
  <1>2. NoAmount \in Amounts
    BY DEF Amounts
  <1> QED BY <1>1, <1>2, FromOptions

LEMMA CommandInit == OptionsInit => Commanded
  BY FromServer DEF OptionsInit, Commanded, Handed, SameTest

LEMMA CommandStart == ASSUME Commanded, CStart PROVE Commanded'
  <1>1. PICK o \in ClientOptions :
          /\ cpc = "off" /\ cpc' = parse_args(o)
          /\ cset' = IF cpc' = "setup" THEN TestFrom(o) ELSE cset
          /\ UNCHANGED << sopts, spc, sset, cert, wire, tests >>
    BY DEF CStart
  <1>2. cpc' \in {"exit", "panic", "setup"}
    BY <1>1 DEF parse_args
  <1>3. Settled(cset')
    BY <1>1, FromClient DEF Commanded
  <1>4. spc = "Start" /\ wire = {}
    BY <1>1 DEF Commanded, Handed
  <1> QED BY <1>1, <1>2, <1>3, <1>4 DEF Commanded, Handed, SameTest, Settled

LEMMA CommandSetup == ASSUME Commanded, CSetup PROVE Commanded'
  <1>1. /\ cpc = "setup" /\ cpc' = "sent" /\ wire' = {cset'}
        /\ cset' = [cset EXCEPT !.length = Length(cset.conn, cset.length)]
        /\ UNCHANGED << sopts, spc, sset, cert, suffixed, tests >>
    BY DEF CSetup
  <1>2. cset.conn \in Conns /\ cset.length \in Nat
    BY DEF Commanded, Settled
  <1>3. PICK l \in Nat : /\ l = Length(cset.conn, cset.length) /\ l > 0
                         /\ cset.conn \in {"UDP", "QUIC"} => l <= Buffer(cset.conn)
    BY <1>2, Limits
  <1>4. cset' = [cset EXCEPT !.length = l]
    BY <1>1, <1>3
  <1>5. Settled(cset') /\ cset'.conn = cset.conn /\ cset'.length = l
    BY <1>4 DEF Commanded, Settled
  <1>6. Fits(cset')
    BY <1>3, <1>5 DEF Fits
  <1>7. spc = "Start" /\ spc' = "Start"
    BY <1>1 DEF Commanded, Handed
  <1>8. Handed' /\ SameTest'
    BY <1>1, <1>7 DEF Handed, SameTest
  <1> QED BY <1>1, <1>5, <1>6, <1>7, <1>8 DEF Commanded, Settled, Fits, Buffer, ServerOptions

LEMMA CommandParams == ASSUME Commanded, SParams PROVE Commanded'
  <1>1. PICK settings \in wire :
          /\ spc' = "Streams" /\ sset' = settings /\ wire' = {}
          /\ UNCHANGED << sopts, cpc, cset, suffixed, tests >>
    BY DEF SParams, set_settings
  <1>2. settings = cset /\ cpc = "sent"
    BY <1>1 DEF Commanded, Handed
  <1> QED BY <1>1, <1>2 DEF Commanded, Handed, SameTest, Settled, Fits

LEMMA CommandWrite == ASSUME Commanded, CWrite PROVE Commanded'
  <1>1. /\ cpc = "sent" /\ spc = "Streams" /\ cpc' \in {"done", "panic"}
        /\ UNCHANGED << sopts, spc, sset, cert, cset, suffixed, wire, tests >>
    BY DEF CWrite
  <1> QED BY <1>1 DEF Commanded, Handed, SameTest, Settled

LEMMA CommandOver == ASSUME Commanded, Over PROVE Commanded'
  <1>1. /\ cpc # "sent" /\ cpc' = "off" /\ spc' = "Start" /\ cset' = TestFrom(sopts)
        /\ UNCHANGED << sopts, wire >>
    BY DEF Over
  <1>2. Settled(cset')
    BY <1>1, FromServer DEF Commanded
  <1>3. wire = {}
    BY <1>1 DEF Commanded, Handed
  <1> QED BY <1>1, <1>2, <1>3 DEF Commanded, Handed, SameTest, Settled

LEMMA CommandStutter == ASSUME Commanded, UNCHANGED optionVars PROVE Commanded'
  BY DEF Commanded, Handed, SameTest, Settled, Fits, optionVars

LEMMA CommandSafe == OptionsSpec => []Commanded
  <1>1. Commanded /\ [OptionsNext]_optionVars => Commanded'
    BY CommandStart, CommandSetup, CommandParams, CommandWrite, CommandOver, CommandStutter DEF OptionsNext
  <1> QED BY <1>1, CommandInit, PTL DEF OptionsSpec

\* Both sides run the test of the client that is being served, however the
\* server was started and whatever it ran before: set_settings takes every
\* field over, and Settings are never left on the wire for the next client.
THEOREM OneTest == OptionsSpec => []SameTest
  <1>1. Commanded => SameTest
    BY DEF Commanded
  <1> QED BY <1>1, CommandSafe, PTL

\* Whatever -l says and whatever MSS the control connection has, the block the
\* client settles on is not empty and a datagram fits the array it is cut from.
THEOREM BlocksUsable == OptionsSpec => []BlockUsable
  <1>1. Commanded => BlockUsable
    BY DEF Commanded, Fits, BlockUsable
  <1> QED BY <1>1, CommandSafe, PTL
=============================================================================
