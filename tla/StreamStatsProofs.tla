------------------------- MODULE StreamStatsProofs -------------------------
(***************************************************************************)
(* What push_stat and end() report, proved for every number of streams,    *)
(* datagram length, limit and number of datagrams: first for each stream,  *)
(* then for the sums over the streams.                                     *)
(***************************************************************************)
EXTENDS StreamStats, FiniteSetTheorems, WellFoundedInduction, TLAPS

\* The types the arguments about one stream need.
StatsType ==
  /\ snd \in [Streams -> PerfStream] /\ rcv \in [Streams -> PerfStream]
  /\ flight \in [Streams -> SUBSET (1..MaxBlks)]
  /\ cidx \in Streams
  /\ server \in {"reading", "ended", "panic"}

\* One stream's counters: the intervals add up, and an interval without
\* bytes has no blocks either.
AddsUp(s) ==
  /\ s.sbytes + s.tbytes = s.bytes
  /\ s.sblks + s.tblks = s.blks
  /\ s.tbytes = 0 => s.tblks = 0

\* A stream read in order: the open interval has room for its blocks, the
\* pushed ones telescope, nothing in flight is older than what was read.
InOrder(s, f, sent) ==
  /\ s.tblks <= s.last - s.first
  /\ s.tblks = 0 => s.last = s.first
  /\ s.slost + s.sblks = s.first
  /\ s.last <= sent
  /\ \A q \in f : s.last < q /\ q <= sent

IInv ==
  /\ StatsType
  /\ \A i \in Streams : AddsUp(snd[i]) /\ AddsUp(rcv[i]) /\ snd[i].blks <= MaxBlks
  /\ inorder => \A i \in Streams : InOrder(rcv[i], flight[i], snd[i].blks)
  /\ \A i \in Streams : server # "ended" => rcv[i].lost = 0
  /\ server = "ended" => \A i \in Streams : rcv[i].tblks = 0 /\ rcv[i].lost = rcv[i].slost

-----------------------------------------------------------------------------
\* A word is a natural number, and a number below Wrap is its own word.
LEMMA WordType == ASSUME NEW n \in Int PROVE Word(n) \in Nat
  BY StatsAssumption DEF Word

LEMMA WordSmall == ASSUME NEW n \in Nat, n < Wrap PROVE Word(n) = n
  BY StatsAssumption DEF Word

\* push_stat keeps the types and the sums, and opens an empty interval.
LEMMA PushType ==
  ASSUME NEW s \in PerfStream
  PROVE  /\ push_stat(s) \in PerfStream
         /\ push_stat(s).tbytes = 0 /\ push_stat(s).tblks = 0
         /\ push_stat(s).blks = s.blks /\ push_stat(s).bytes = s.bytes
         /\ push_stat(s).lost = s.lost /\ push_stat(s).last = s.last
         /\ push_stat(s).first = s.last
         /\ push_stat(s).sblks = s.sblks + s.tblks
         /\ push_stat(s).sbytes = s.sbytes + s.tbytes
         /\ push_stat(s).slost = Word(s.slost + Word(IntervalLoss(s)))
  <1>1. IntervalLoss(s) \in Int
    BY DEF IntervalLoss, PerfStream
  <1>2. Word(IntervalLoss(s)) \in Nat
    BY <1>1, WordType
  <1>3. Word(s.slost + Word(IntervalLoss(s))) \in Nat
    BY <1>2, WordType DEF PerfStream
  <1> QED BY <1>3 DEF push_stat, PerfStream

LEMMA PushAddsUp ==
  ASSUME NEW s \in PerfStream, AddsUp(s)
  PROVE  AddsUp(push_stat(s))
  BY PushType DEF AddsUp, PerfStream

\* In order, the interval's loss is a word and the sum of the losses grows by
\* exactly what is missing between the two marks.
LEMMA PushInOrder ==
  ASSUME NEW s \in PerfStream, NEW f, NEW sent \in Nat, sent <= MaxBlks,
         InOrder(s, f, sent)
  PROVE  InOrder(push_stat(s), f, sent)
  <1> DEFINE d == s.last - s.first - s.tblks
  <1>1. d \in Nat /\ s.slost + d \in Nat /\ s.slost + d + s.sblks + s.tblks = s.last
    BY DEF InOrder, PerfStream
  <1>2. d < Wrap /\ s.slost + d < Wrap
    BY <1>1, StatsAssumption DEF InOrder, PerfStream
  <1>3. Word(IntervalLoss(s)) = d
    BY <1>1, <1>2, WordSmall DEF IntervalLoss
  <1>4. push_stat(s).slost = s.slost + d
    BY <1>1, <1>2, <1>3, WordSmall, PushType
  <1> QED BY <1>1, <1>4, PushType DEF InOrder, PerfStream

\* A counted datagram.
LEMMA CountType ==
  ASSUME NEW s \in PerfStream, NEW q \in Nat
  PROVE  /\ Count(s, q) \in PerfStream
         /\ Count(s, q).blks = s.blks + 1 /\ Count(s, q).tblks = s.tblks + 1
         /\ Count(s, q).bytes = s.bytes + Length /\ Count(s, q).tbytes = s.tbytes + Length
         /\ Count(s, q).lost = s.lost /\ Count(s, q).slost = s.slost
         /\ Count(s, q).sblks = s.sblks /\ Count(s, q).sbytes = s.sbytes
         /\ Count(s, q).first = s.first /\ Count(s, q).last = q
  BY StatsAssumption DEF Count, PerfStream

LEMMA CountAddsUp ==
  ASSUME NEW s \in PerfStream, AddsUp(s), NEW q \in Nat
  PROVE  AddsUp(Count(s, q))
  BY StatsAssumption DEF Count, AddsUp, PerfStream

\* end() on one stream.
LEMMA EndStreamType ==
  ASSUME NEW s \in PerfStream, AddsUp(s)
  PROVE  /\ EndStream(s) \in PerfStream /\ AddsUp(EndStream(s))
         /\ EndStream(s).tblks = 0 /\ EndStream(s).lost = EndStream(s).slost
         /\ EndStream(s).blks = s.blks /\ EndStream(s).last = s.last
         /\ EndStream(s).bytes = s.bytes
  <1> DEFINE p == IF Open(s) THEN push_stat(s) ELSE s
  <1>1. p \in PerfStream /\ AddsUp(p) /\ p.blks = s.blks /\ p.last = s.last /\ p.bytes = s.bytes
    BY PushType, PushAddsUp
  <1>2. p.tblks = 0
    BY PushType DEF Open, AddsUp, PerfStream
  <1>3. EndStream(s) = SetLost(p)
    BY DEF EndStream
  <1> HIDE DEF p
  <1> QED BY <1>1, <1>2, <1>3 DEF AddsUp, PerfStream, SetLost

LEMMA EndStreamInOrder ==
  ASSUME NEW s \in PerfStream, NEW f, NEW sent \in Nat, sent <= MaxBlks,
         InOrder(s, f, sent)
  PROVE  InOrder(EndStream(s), f, sent)
  <1> DEFINE p == IF Open(s) THEN push_stat(s) ELSE s
  <1>1. p \in PerfStream /\ InOrder(p, f, sent)
    BY PushType, PushInOrder
  <1>2. EndStream(s) = SetLost(p)
    BY DEF EndStream
  <1> HIDE DEF p
  <1> QED BY <1>1, <1>2 DEF InOrder, PerfStream, SetLost

-----------------------------------------------------------------------------
LEMMA InitIInv == Init => IInv
  BY StatsAssumption DEF Init, IInv, StatsType, AddsUp, InOrder, new, PerfStream, Streams

\* A write counts and perhaps pushes one stream of the client; the datagram
\* it puts in flight is newer than all others.
LEMMA WriteIInv == IInv /\ Write => IInv'
  <1> SUFFICES ASSUME IInv, Write PROVE IInv'
    OBVIOUS
  <1> DEFINE s == Count(snd[cidx], snd[cidx].last)
  <1>1. PICK push \in BOOLEAN :
          /\ flight' = [flight EXCEPT ![cidx] = @ \cup {snd[cidx].blks + 1}]
          /\ snd' = [snd EXCEPT ![cidx] = IF push THEN push_stat(s) ELSE s]
    BY DEF Write, SeqNo
  <1>2. /\ snd[cidx] \in PerfStream /\ AddsUp(snd[cidx]) /\ snd[cidx].blks < MaxBlks
        /\ cidx \in Streams /\ cidx' \in Streams
        /\ UNCHANGED << inorder, rcv, rdata, server >>
    BY StatsAssumption DEF IInv, StatsType, Write, test, serverVars, Streams
  <1>3. s \in PerfStream /\ AddsUp(s) /\ s.blks = snd[cidx].blks + 1
    BY <1>2, CountType, CountAddsUp DEF PerfStream
  <1>4. s.blks \in 1..MaxBlks
    BY <1>2, <1>3, StatsAssumption DEF PerfStream
  <1> DEFINE t == IF push THEN push_stat(s) ELSE s
  <1>5. t \in PerfStream /\ AddsUp(t) /\ t.blks = s.blks
    BY <1>3, PushType, PushAddsUp
  <1> HIDE DEF s, t
  <1>6. /\ snd' = [snd EXCEPT ![cidx] = t]
        /\ flight' = [flight EXCEPT ![cidx] = @ \cup {s.blks}]
    BY <1>1, <1>3 DEF t
  <1>7. StatsType'
    BY <1>2, <1>4, <1>5, <1>6 DEF IInv, StatsType
  <1>8. \A i \in Streams : AddsUp(snd[i])' /\ AddsUp(rcv[i])' /\ (snd[i].blks <= MaxBlks)'
    BY <1>2, <1>4, <1>5, <1>6 DEF IInv, StatsType, AddsUp
  <1>9. ASSUME inorder, NEW i \in Streams
        PROVE  InOrder(rcv[i], flight[i], snd[i].blks)'
    <2>1. InOrder(rcv[i], flight[i], snd[i].blks) /\ rcv[i] \in PerfStream
      BY <1>9 DEF IInv, StatsType
    <2>2. CASE i = cidx
      <3>1. /\ flight'[i] = flight[i] \cup {s.blks} /\ snd'[i].blks = snd[i].blks + 1
            /\ s.blks = snd[i].blks + 1 /\ snd[i].blks \in Nat
        BY <1>1, <1>2, <1>3, <1>5, <1>6, <2>2 DEF IInv, StatsType, PerfStream
      <3> QED BY <2>1, <3>1, <1>2 DEF InOrder, PerfStream, IInv, StatsType
    <2>3. CASE i # cidx
      <3>1. flight'[i] = flight[i] /\ snd'[i] = snd[i]
        BY <1>1, <1>6, <2>3 DEF IInv, StatsType
      <3> QED BY <2>1, <3>1, <1>2 DEF InOrder
    <2> QED BY <2>2, <2>3
  <1> QED BY <1>2, <1>7, <1>8, <1>9 DEF IInv

\* A read takes the oldest datagram still to come of one stream and counts it.
LEMMA ReadIInv ==
  ASSUME IInv, NEW i \in Streams, NEW q \in flight[i], Read(i, q)
  PROVE  IInv'
  <1> DEFINE s == Count(rcv[i], q)
  <1>1. PICK sec \in BOOLEAN : rcv' = [rcv EXCEPT ![i] = IF sec THEN push_stat(s) ELSE s]
    BY DEF Read
  <1>2. UNCHANGED << inorder, snd, cidx >> /\ server = "reading" /\ server' \in {"reading", "panic"}
    BY DEF Read, test, clientVars
  <1>5. PICK f \in SUBSET flight[i] : /\ flight' = [flight EXCEPT ![i] = f]
                                      /\ inorder => f = {p \in flight[i] : p > q}
    <2>1. PICK f \in IF inorder THEN {{p \in flight[i] : p > q}} ELSE {flight[i], flight[i] \ {q}} :
            flight' = [flight EXCEPT ![i] = f]
      BY DEF Read
    <2>2. f \in SUBSET flight[i] /\ (inorder => f = {p \in flight[i] : p > q})
      BY <2>1
    <2> QED BY <2>1, <2>2
  <1>3. /\ rcv[i] \in PerfStream /\ AddsUp(rcv[i]) /\ rcv[i].lost = 0
        /\ snd[i] \in PerfStream /\ snd[i].blks <= MaxBlks
        /\ q \in 1..MaxBlks /\ flight[i] \in SUBSET (1..MaxBlks)
    BY <1>2 DEF IInv, StatsType
  <1>4. s \in PerfStream /\ AddsUp(s) /\ s.lost = 0 /\ s.last = q /\ s.tblks = rcv[i].tblks + 1
        /\ s.first = rcv[i].first /\ s.slost = rcv[i].slost /\ s.sblks = rcv[i].sblks
    <2>1. q \in Nat
      BY <1>3, StatsAssumption
    <2>2. AddsUp(s)
      BY <1>3, <2>1, CountAddsUp
    <2> QED BY <1>3, <2>1, <2>2, CountType
  <1>6. inorder => InOrder(s, f, snd[i].blks)
    <2> SUFFICES ASSUME inorder PROVE InOrder(s, f, snd[i].blks)
      OBVIOUS
    <2>1. InOrder(rcv[i], flight[i], snd[i].blks)
      BY DEF IInv
    <2>2. f = {p \in flight[i] : p > q}
      BY <1>5
    <2> HIDE DEF s
    <2> QED BY <1>3, <1>4, <2>1, <2>2 DEF InOrder, PerfStream
  <1> DEFINE t == IF sec THEN push_stat(s) ELSE s
  <1>7. /\ t \in PerfStream /\ AddsUp(t) /\ t.lost = 0
        /\ inorder => InOrder(t, f, snd[i].blks)
    <2> HIDE DEF s
    <2>1. snd[i].blks \in Nat
      BY <1>3 DEF PerfStream
    <2> QED BY <1>3, <1>4, <1>6, <2>1, PushType, PushAddsUp, PushInOrder
  <1>8. f \in SUBSET (1..MaxBlks) /\ flight' = [flight EXCEPT ![i] = f]
    BY <1>3, <1>5
  <1>9. rcv' = [rcv EXCEPT ![i] = t]
    BY <1>1
  <1> HIDE DEF s, t
  <1>10. StatsType'
    BY <1>2, <1>7, <1>8, <1>9 DEF IInv, StatsType
  <1>11. \A j \in Streams : AddsUp(snd[j])' /\ AddsUp(rcv[j])' /\ (snd[j].blks <= MaxBlks)'
    BY <1>2, <1>7, <1>9 DEF IInv, StatsType, AddsUp
  <1>12. ASSUME inorder, NEW j \in Streams
         PROVE  InOrder(rcv[j], flight[j], snd[j].blks)'
    BY <1>2, <1>7, <1>8, <1>9, <1>12 DEF IInv, StatsType, InOrder
  <1>13. \A j \in Streams : rcv'[j].lost = 0
    BY <1>2, <1>7, <1>9 DEF IInv, StatsType
  <1> QED BY <1>2, <1>10, <1>11, <1>12, <1>13 DEF IInv

LEMMA LoseIInv ==
  ASSUME IInv, NEW i \in Streams, NEW q \in flight[i], Lose(i, q)
  PROVE  IInv'
  <1>1. flight' = [flight EXCEPT ![i] = @ \ {q}] /\ UNCHANGED << inorder, snd, rcv, cidx, server >>
    BY DEF Lose, test, clientVars, serverVars
  <1> QED BY <1>1 DEF IInv, StatsType, AddsUp, InOrder

LEMMA LeaveLoopIInv == IInv /\ LeaveLoop => IInv'
  <1> SUFFICES ASSUME IInv, LeaveLoop PROVE IInv'
    OBVIOUS
  <1>1. UNCHANGED << inorder, flight, cidx, rcv, server >>
    BY DEF LeaveLoop, test, serverVars
  <1>2. CASE UNCHANGED snd
    BY <1>1, <1>2 DEF IInv, StatsType, AddsUp, InOrder
  <1>3. CASE snd' = [i \in Streams |-> EndStream(snd[i])]
    <2>1. \A i \in Streams : snd[i] \in PerfStream /\ AddsUp(snd[i])
      BY DEF IInv, StatsType
    <2>2. \A i \in Streams : /\ snd'[i] \in PerfStream /\ AddsUp(snd'[i])
                             /\ snd'[i].blks = snd[i].blks
      BY <1>3, <2>1, EndStreamType
    <2>3. StatsType'
      BY <1>1, <1>3, <2>2 DEF IInv, StatsType
    <2> QED BY <1>1, <2>2, <2>3 DEF IInv, InOrder, AddsUp
  <1> QED BY <1>2, <1>3 DEF LeaveLoop

LEMMA EndServerIInv == IInv /\ EndServer => IInv'
  <1> SUFFICES ASSUME IInv, EndServer PROVE IInv'
    OBVIOUS
  <1>1. UNCHANGED << inorder, flight, cidx, snd >> /\ server = "reading"
    BY DEF EndServer, test, clientVars
  <1>2. CASE UNCHANGED rcv /\ server' = "panic"
    BY <1>1, <1>2 DEF IInv, StatsType, AddsUp, InOrder
  <1>3. CASE rcv' = [i \in Streams |-> EndStream(rcv[i])] /\ server' = "ended"
    <2>1. \A i \in Streams : /\ rcv[i] \in PerfStream /\ AddsUp(rcv[i])
                             /\ snd[i].blks \in Nat /\ snd[i].blks <= MaxBlks
      BY DEF IInv, StatsType, PerfStream
    <2>2. \A i \in Streams : /\ rcv'[i] \in PerfStream /\ AddsUp(rcv'[i])
                             /\ rcv'[i].tblks = 0 /\ rcv'[i].lost = rcv'[i].slost
      BY <1>3, <2>1, EndStreamType
    <2>3. inorder => \A i \in Streams : InOrder(rcv'[i], flight[i], snd[i].blks)
      BY <1>3, <2>1, EndStreamInOrder DEF IInv
    <2>4. StatsType'
      BY <1>1, <1>3, <2>2 DEF IInv, StatsType
    <2> QED BY <1>1, <1>3, <2>2, <2>3, <2>4 DEF IInv, AddsUp, InOrder
  <1> QED BY <1>2, <1>3 DEF EndServer

LEMMA NextIInv == IInv /\ [Next]_vars => IInv'
  <1> SUFFICES ASSUME IInv, [Next]_vars PROVE IInv'
    OBVIOUS
  <1>1. CASE EnterLoop \/ WouldBlock
    <2>1. UNCHANGED << inorder, snd, rcv, flight, server >> /\ cidx' \in Streams
      BY <1>1, StatsAssumption DEF EnterLoop, WouldBlock, test, serverVars, Streams, IInv, StatsType
    <2> QED BY <2>1 DEF IInv, StatsType, AddsUp, InOrder
  <1>2. CASE Write
    BY <1>2, WriteIInv
  <1>3. CASE LeaveLoop
    BY <1>3, LeaveLoopIInv
  <1>4. CASE \E i \in Streams : \E q \in flight[i] : Lose(i, q) \/ Read(i, q)
    BY <1>4, LoseIInv, ReadIInv
  <1>5. CASE EndServer
    BY <1>5, EndServerIInv
  <1>6. CASE Over \/ UNCHANGED vars
    BY <1>6 DEF Over, vars, test, IInv, StatsType, AddsUp, InOrder
  <1> QED BY <1>1, <1>2, <1>3, <1>4, <1>5, <1>6 DEF Next

LEMMA IInvInvariant == Spec => []IInv
  BY InitIInv, NextIInv, PTL DEF Spec

-----------------------------------------------------------------------------
\* On both sides the intervals of a stream add up to its totals, whatever
\* the network does.
THEOREM IntervalsAddUpThm == Spec => []IntervalsAddUp
  <1>1. IInv => IntervalsAddUp
    BY DEF IInv, IntervalsAddUp, AddsUp
  <1> QED BY <1>1, IInvInvariant, PTL

\* In order and without copies, the losses of the receiver's intervals telescope
\* for a test of any length.
THEOREM LossTelescopesThm == Spec => []LossTelescopes
  <1>1. IInv => LossTelescopes
    BY DEF IInv, StatsType, LossTelescopes, InOrder, IntervalLoss, PerfStream
  <1> QED BY <1>1, IInvInvariant, PTL

\* In order and without copies, the final report counts the datagrams missing
\* before the last one received.
THEOREM ReportedLossThm == Spec => []ReportedLoss
  <1>1. IInv => ReportedLoss
    BY DEF IInv, StatsType, ReportedLoss, InOrder, AddsUp, PerfStream
  <1> QED BY <1>1, IInvInvariant, PTL

\* In order and without copies, a report never accounts for more datagrams than
\* were sent.
THEOREM ReportWithinSentThm == Spec => []ReportWithinSent
  <1>1. IInv => ReportWithinSent
    BY DEF IInv, StatsType, ReportWithinSent, InOrder, AddsUp, PerfStream
  <1> QED BY <1>1, IInvInvariant, PTL

-----------------------------------------------------------------------------
(***************************************************************************)
(* The sums over the streams.  MapThenSumSet adds in an order CHOOSE       *)
(* decides, along a function on the sets of streams; what it returns is    *)
(* shown by induction on their size.                                       *)
(***************************************************************************)
Pick(s) == CHOOSE x \in s : TRUE

\* it[s] adds up g over the streams of s.
Adds(it, g) ==
  it = [s \in SUBSET Streams |-> IF s = {} THEN 0 ELSE g[Pick(s)] + it[s \ {Pick(s)}]]

\* Induction over the natural numbers, for a set of them.
LEMMA SetInduction ==
  ASSUME NEW T, T \subseteq Nat, 0 \in T, \A n \in T : n + 1 \in T
  PROVE  \A n \in Nat : n \in T
  <1> SUFFICES ASSUME Nat \ T # {} PROVE FALSE
    OBVIOUS
  <1>1. PICK m \in Nat \ T : \A n \in Nat \ T : ~(<<n, m>> \in OpToRel(<, Nat))
    BY NatLessThanWellFounded, WFMin
  <1>2. m \in Nat /\ m # 0
    BY <1>1
  <1>5. m - 1 \in Nat /\ m - 1 < m /\ m - 1 + 1 = m
    BY <1>2
  <1>3. <<m - 1, m>> \in OpToRel(<, Nat)
    BY <1>2, <1>5 DEF OpToRel
  <1>4. m - 1 \in T
    BY <1>1, <1>3, <1>5
  <1>6. m - 1 + 1 \in T
    BY <1>4
  <1> QED BY <1>1, <1>5, <1>6

LEMMA SizeStreams ==
  NumStreams \in Nat /\ NumStreams > 0 /\ IsFiniteSet(Streams) /\ Cardinality(Streams) = NumStreams
  <1>1. NumStreams \in Nat /\ NumStreams > 0
    BY StatsAssumption
  <1>2. IsFiniteSet(1..NumStreams)
    BY <1>1, FS_Interval
  <1>3. Cardinality(1..NumStreams) = IF 1 > NumStreams THEN 0 ELSE NumStreams - 1 + 1
    BY <1>1, FS_Interval
  <1> QED BY <1>1, <1>2, <1>3 DEF Streams

\* The sets of streams, by size.
LEMMA Picked ==
  ASSUME NEW s \in SUBSET Streams
  PROVE  /\ IsFiniteSet(s) /\ Cardinality(s) \in Nat
         /\ Cardinality(s) = 0 <=> s = {}
         /\ s # {} => /\ Pick(s) \in s /\ Pick(s) \in Streams
                      /\ s \ {Pick(s)} \in SUBSET Streams
                      /\ Cardinality(s \ {Pick(s)}) = Cardinality(s) - 1
  <1>2. IsFiniteSet(s)
    BY SizeStreams, FS_Subset
  <1>3. Cardinality(s) \in Nat /\ (Cardinality(s) = 0 <=> s = {})
    BY <1>2, FS_CardinalityType, FS_EmptySet
  <1>4. s # {} => Pick(s) \in s
    BY DEF Pick
  <1>5. s # {} => Cardinality(s \ {Pick(s)}) = Cardinality(s) - 1
    BY <1>2, <1>4, FS_RemoveElement
  <1> QED BY <1>2, <1>3, <1>4, <1>5

LEMMA NothingPicked ==
  ASSUME NEW s \in SUBSET Streams, Cardinality(s) <= 0
  PROVE  s = {}
  <1>1. Cardinality(s) \in Nat /\ (Cardinality(s) = 0 <=> s = {})
    BY Picked
  <1>2. Cardinality(s) = 0
    BY <1>1
  <1> QED BY <1>1, <1>2

\* There is such a function, and it is a sum of numbers.
LEMMA SumExists ==
  ASSUME NEW g \in [Streams -> Nat]
  PROVE  \E it \in [SUBSET Streams -> Nat] : Adds(it, g)
  <1> DEFINE Upto(it, n) ==
               \A s \in SUBSET Streams : Cardinality(s) <= n =>
                 it[s] = IF s = {} THEN 0 ELSE g[Pick(s)] + it[s \ {Pick(s)}]
             T == {n \in Nat : \E it \in [SUBSET Streams -> Nat] : Upto(it, n)}
  <1>1. 0 \in T
    <2>1. [s \in SUBSET Streams |-> 0] \in [SUBSET Streams -> Nat]
      OBVIOUS
    <2>2. ASSUME NEW s \in SUBSET Streams, Cardinality(s) <= 0
          PROVE  s = {}
      BY <2>2, NothingPicked
    <2>3. Upto([s \in SUBSET Streams |-> 0], 0)
      BY <2>2
    <2> QED BY <2>1, <2>3
  <1>2. ASSUME NEW n \in T
        PROVE  n + 1 \in T
    <2>1. PICK it \in [SUBSET Streams -> Nat] : Upto(it, n)
      OBVIOUS
    <2>2. PICK jt : jt = [s \in SUBSET Streams |->
                            IF s = {} THEN 0 ELSE g[Pick(s)] + it[s \ {Pick(s)}]]
      OBVIOUS
    <2>3. \A s \in SUBSET Streams : (IF s = {} THEN 0 ELSE g[Pick(s)] + it[s \ {Pick(s)}]) \in Nat
      <3> SUFFICES ASSUME NEW s \in SUBSET Streams, s # {}
                   PROVE  g[Pick(s)] + it[s \ {Pick(s)}] \in Nat
        OBVIOUS
      <3>1. g[Pick(s)] \in Nat /\ it[s \ {Pick(s)}] \in Nat
        BY Picked
      <3> QED BY <3>1
    <2>4. jt \in [SUBSET Streams -> Nat]
      BY <2>2, <2>3
    <2>5. ASSUME NEW s \in SUBSET Streams, Cardinality(s) <= n + 1
          PROVE  jt[s] = IF s = {} THEN 0 ELSE g[Pick(s)] + jt[s \ {Pick(s)}]
      <3>1. CASE s = {}
        BY <2>2, <3>1
      <3>2. CASE s # {}
        <4>1. PICK r \in SUBSET Streams : r = s \ {Pick(s)} /\ Cardinality(r) <= n
          <5>1. /\ s \ {Pick(s)} \in SUBSET Streams /\ Cardinality(s) \in Nat
                /\ Cardinality(s \ {Pick(s)}) = Cardinality(s) - 1
            BY <3>2, Picked
          <5>2. n \in Nat
            OBVIOUS
          <5> QED BY <2>5, <5>1, <5>2
        <4>2. it[r] = jt[r]
          BY <2>1, <2>2, <4>1
        <4>3. jt[s] = g[Pick(s)] + it[r]
          BY <2>2, <3>2, <4>1
        <4> QED BY <3>2, <4>1, <4>2, <4>3
      <3> QED BY <3>1, <3>2
    <2>6. Upto(jt, n + 1)
      BY <2>5
    <2>7. n + 1 \in Nat
      OBVIOUS
    <2> QED BY <2>4, <2>6, <2>7
  <1> HIDE DEF T
  <1>3. T \subseteq Nat
    BY DEF T
  <1>4. NumStreams \in T
    <2>1. \A n \in Nat : n \in T
      BY <1>1, <1>2, <1>3, SetInduction
    <2> QED BY <2>1, SizeStreams
  <1>5. PICK it \in [SUBSET Streams -> Nat] : Upto(it, NumStreams)
    BY <1>4 DEF T
  <1>6. \A s \in SUBSET Streams : Cardinality(s) <= NumStreams
    BY SizeStreams, FS_Subset
  <1>7. \A s \in SUBSET Streams : it[s] = IF s = {} THEN 0 ELSE g[Pick(s)] + it[s \ {Pick(s)}]
    BY <1>5, <1>6
  <1>8. it = [s \in SUBSET Streams |-> IF s = {} THEN 0 ELSE g[Pick(s)] + it[s \ {Pick(s)}]]
    BY <1>7
  <1> QED BY <1>8 DEF Adds

\* h counts d more than g, for stream c.
More(g, h, c, d) == h[c] = g[c] + d /\ \A i \in Streams : i # c => h[i] = g[i]

\* Such a function is made of numbers, and what one stream counts more shows in
\* the sum of every set it is in, once.
LEMMA SumCounts ==
  ASSUME NEW g \in [Streams -> Nat], NEW h \in [Streams -> Nat], NEW c \in Streams, NEW d \in Nat,
         More(g, h, c, d),
         NEW it \in [SUBSET Streams -> Nat], Adds(it, g), NEW jt, Adds(jt, h)
  PROVE  jt[Streams] = it[Streams] + d
  <1> DEFINE more(s) == IF c \in s THEN d ELSE 0
             T == {n \in Nat : \A s \in SUBSET Streams : Cardinality(s) <= n =>
                                 jt[s] = it[s] + more(s)}
  <1>1. \A s \in SUBSET Streams :
          /\ it[s] = IF s = {} THEN 0 ELSE g[Pick(s)] + it[s \ {Pick(s)}]
          /\ jt[s] = IF s = {} THEN 0 ELSE h[Pick(s)] + jt[s \ {Pick(s)}]
    BY DEF Adds
  <1>2. ASSUME NEW s \in SUBSET Streams, s = {}
        PROVE  jt[s] = it[s] + more(s)
    <2>1. it[s] = 0 /\ jt[s] = 0
      BY <1>1, <1>2
    <2>2. more(s) = 0
      BY <1>2
    <2> QED BY <2>1, <2>2
  <1>3. 0 \in T
    <2>1. ASSUME NEW s \in SUBSET Streams, Cardinality(s) <= 0
          PROVE  s = {}
      BY <2>1, NothingPicked
    <2> QED BY <1>2, <2>1
  <1>4. ASSUME NEW n \in T
        PROVE  n + 1 \in T
    <2>1. ASSUME NEW s \in SUBSET Streams, Cardinality(s) <= n + 1
          PROVE  jt[s] = it[s] + more(s)
      <3>1. CASE s = {}
        BY <1>2, <3>1
      <3>2. CASE s # {}
        <4>1. PICK x \in Streams : x = Pick(s) /\ x \in s
          BY <3>2, Picked
        <4>2. PICK r \in SUBSET Streams : r = s \ {x} /\ Cardinality(r) <= n
          <5>1. /\ s \ {Pick(s)} \in SUBSET Streams /\ Cardinality(s) \in Nat
                /\ Cardinality(s \ {Pick(s)}) = Cardinality(s) - 1
            BY <3>2, Picked
          <5>2. n \in Nat
            OBVIOUS
          <5> QED BY <2>1, <4>1, <5>1, <5>2
        <4>3. jt[r] = it[r] + more(r)
          BY <4>2
        <4>4. it[s] = g[x] + it[r] /\ jt[s] = h[x] + jt[r]
          BY <1>1, <3>2, <4>1, <4>2
        <4>5. g[x] \in Nat /\ h[x] \in Nat /\ it[r] \in Nat
          OBVIOUS
        <4>6. CASE x = c
          <5>1. more(r) = 0 /\ more(s) = d /\ h[x] = g[x] + d
            BY <4>1, <4>2, <4>6 DEF More
          <5> HIDE DEF more
          <5> QED BY <4>3, <4>4, <4>5, <5>1
        <4>7. CASE x # c
          <5>1. more(r) = more(s) /\ h[x] = g[x]
            BY <4>1, <4>2, <4>7 DEF More
          <5>2. more(s) \in Nat
            OBVIOUS
          <5> HIDE DEF more
          <5> QED BY <4>3, <4>4, <4>5, <5>1, <5>2
        <4> QED BY <4>6, <4>7
      <3> QED BY <3>1, <3>2
    <2>2. n + 1 \in Nat
      OBVIOUS
    <2> QED BY <2>1, <2>2
  <1>5. \A s \in SUBSET Streams : Cardinality(s) <= NumStreams => jt[s] = it[s] + more(s)
    <2> HIDE DEF more
    <2>1. T \subseteq Nat
      OBVIOUS
    <2>2. NumStreams \in T
      <3> HIDE DEF T
      <3>1. \A n \in Nat : n \in T
        BY <1>3, <1>4, <2>1, SetInduction
      <3> QED BY <3>1, SizeStreams
    <2> QED BY <2>2
  <1>6. Streams \in SUBSET Streams /\ Cardinality(Streams) <= NumStreams
    BY SizeStreams
  <1>7. jt[Streams] = it[Streams] + more(Streams)
    BY <1>5, <1>6
  <1> QED BY <1>7

\* The sum of a counter, as a function of the counter only.
Total(g) == CHOOSE n \in Nat : \A it \in [SUBSET Streams -> Nat] : Adds(it, g) => n = it[Streams]

LEMMA TotalIs ==
  ASSUME NEW g \in [Streams -> Nat], NEW jt, Adds(jt, g)
  PROVE  Total(g) \in Nat /\ jt[Streams] = Total(g)
  <1>1. PICK it \in [SUBSET Streams -> Nat] : Adds(it, g)
    BY SumExists
  <1>2. PICK c \in Streams : TRUE
    BY StatsAssumption DEF Streams
  <1>3. PICK z \in Nat : z = 0 /\ More(g, g, c, z)
    <2>1. \A n \in Nat : n = n + 0
      OBVIOUS
    <2> QED BY <2>1 DEF More
  <1>4. ASSUME NEW kt, Adds(kt, g)
        PROVE  kt[Streams] = it[Streams]
    <2>1. kt[Streams] = it[Streams] + z
      BY <1>1, <1>3, <1>4, SumCounts
    <2>2. it[Streams] \in Nat
      OBVIOUS
    <2> QED BY <1>3, <2>1, <2>2
  <1>5. \A kt \in [SUBSET Streams -> Nat] : Adds(kt, g) => it[Streams] = kt[Streams]
    BY <1>4
  <1>6. it[Streams] \in Nat
    OBVIOUS
  <1>7. Total(g) \in Nat /\ Total(g) = it[Streams]
    <2>1. \E n \in Nat : \A kt \in [SUBSET Streams -> Nat] : Adds(kt, g) => n = kt[Streams]
      BY <1>5, <1>6
    <2>2. /\ Total(g) \in Nat
          /\ \A kt \in [SUBSET Streams -> Nat] : Adds(kt, g) => Total(g) = kt[Streams]
      BY <2>1 DEF Total
    <2> QED BY <1>1, <2>2
  <1> QED BY <1>4, <1>7

LEMMA TotalCounts ==
  ASSUME NEW g \in [Streams -> Nat], NEW h \in [Streams -> Nat], NEW c \in Streams, NEW d \in Nat,
         More(g, h, c, d)
  PROVE  Total(g) \in Nat /\ Total(h) = Total(g) + d
  <1>1. PICK it \in [SUBSET Streams -> Nat] : Adds(it, g)
    BY SumExists
  <1>2. PICK jt \in [SUBSET Streams -> Nat] : Adds(jt, h)
    BY SumExists
  <1>3. Total(g) \in Nat /\ it[Streams] = Total(g) /\ jt[Streams] = Total(h)
    BY <1>1, <1>2, TotalIs
  <1>4. jt[Streams] = it[Streams] + d
    BY <1>1, <1>2, SumCounts
  <1> QED BY <1>3, <1>4


\* The sums of the model are such totals.
LEMMA SumBytes ==
  ASSUME NEW f \in [Streams -> PerfStream]
  PROVE  MapThenSumSet(LAMBDA i : f[i].bytes, Streams) = Total([i \in Streams |-> f[i].bytes])
  <1>1. PICK g \in [Streams -> Nat] : g = [i \in Streams |-> f[i].bytes]
    BY DEF PerfStream
  <1>2. PICK it \in [SUBSET Streams -> Nat] : Adds(it, g)
    BY SumExists
  <1>3. \A s \in SUBSET Streams : s # {} => g[Pick(s)] = f[Pick(s)].bytes
    BY <1>1, Picked
  <1>4. \A jt : Adds(jt, g) <=>
          jt = [s \in SUBSET Streams |-> IF s = {} THEN 0 ELSE f[Pick(s)].bytes + jt[s \ {Pick(s)}]]
    BY <1>3 DEF Adds
  <1>5. PICK jt :
          /\ jt = [s \in SUBSET Streams |-> IF s = {} THEN 0 ELSE f[Pick(s)].bytes + jt[s \ {Pick(s)}]]
          /\ MapThenSumSet(LAMBDA i : f[i].bytes, Streams) = jt[Streams]
    <2>1. \E kt : kt = [s \in SUBSET Streams |-> IF s = {} THEN 0 ELSE f[Pick(s)].bytes + kt[s \ {Pick(s)}]]
      BY <1>2, <1>4
    <2> QED BY <2>1 DEF MapThenSumSet, MapThenFoldSet, Pick
  <1> QED BY <1>1, <1>4, <1>5, TotalIs

LEMMA SumBlks ==
  ASSUME NEW f \in [Streams -> PerfStream]
  PROVE  MapThenSumSet(LAMBDA i : f[i].blks, Streams) = Total([i \in Streams |-> f[i].blks])
  <1>1. PICK g \in [Streams -> Nat] : g = [i \in Streams |-> f[i].blks]
    BY DEF PerfStream
  <1>2. PICK it \in [SUBSET Streams -> Nat] : Adds(it, g)
    BY SumExists
  <1>3. \A s \in SUBSET Streams : s # {} => g[Pick(s)] = f[Pick(s)].blks
    BY <1>1, Picked
  <1>4. \A jt : Adds(jt, g) <=>
          jt = [s \in SUBSET Streams |-> IF s = {} THEN 0 ELSE f[Pick(s)].blks + jt[s \ {Pick(s)}]]
    BY <1>3 DEF Adds
  <1>5. PICK jt :
          /\ jt = [s \in SUBSET Streams |-> IF s = {} THEN 0 ELSE f[Pick(s)].blks + jt[s \ {Pick(s)}]]
          /\ MapThenSumSet(LAMBDA i : f[i].blks, Streams) = jt[Streams]
    <2>1. \E kt : kt = [s \in SUBSET Streams |-> IF s = {} THEN 0 ELSE f[Pick(s)].blks + kt[s \ {Pick(s)}]]
      BY <1>2, <1>4
    <2> QED BY <2>1 DEF MapThenSumSet, MapThenFoldSet, Pick
  <1> QED BY <1>1, <1>4, <1>5, TotalIs

LEMMA SumOfLost ==
  ASSUME NEW f \in [Streams -> PerfStream]
  PROVE  MapThenSumSet(LAMBDA i : f[i].lost, Streams) = Total([i \in Streams |-> f[i].lost])
  <1>1. PICK g \in [Streams -> Nat] : g = [i \in Streams |-> f[i].lost]
    BY DEF PerfStream
  <1>2. PICK it \in [SUBSET Streams -> Nat] : Adds(it, g)
    BY SumExists
  <1>3. \A s \in SUBSET Streams : s # {} => g[Pick(s)] = f[Pick(s)].lost
    BY <1>1, Picked
  <1>4. \A jt : Adds(jt, g) <=>
          jt = [s \in SUBSET Streams |-> IF s = {} THEN 0 ELSE f[Pick(s)].lost + jt[s \ {Pick(s)}]]
    BY <1>3 DEF Adds
  <1>5. PICK jt :
          /\ jt = [s \in SUBSET Streams |-> IF s = {} THEN 0 ELSE f[Pick(s)].lost + jt[s \ {Pick(s)}]]
          /\ MapThenSumSet(LAMBDA i : f[i].lost, Streams) = jt[Streams]
    <2>1. \E kt : kt = [s \in SUBSET Streams |-> IF s = {} THEN 0 ELSE f[Pick(s)].lost + kt[s \ {Pick(s)}]]
      BY <1>2, <1>4
    <2> QED BY <2>1 DEF MapThenSumSet, MapThenFoldSet, Pick
  <1> QED BY <1>1, <1>4, <1>5, TotalIs

\* Test::data agrees with the streams.
Agree(d, f) ==
  /\ d \in TestData
  /\ d.bytes = Total([i \in Streams |-> f[i].bytes])
  /\ d.blks = Total([i \in Streams |-> f[i].blks])

LEMMA TotalsMeaning ==
  ASSUME snd \in [Streams -> PerfStream], rcv \in [Streams -> PerfStream],
         Agree(sdata, snd), Agree(rdata, rcv),
         server = "ended" => rdata.lost = Word(SumLost(rcv))
  PROVE  TotalsAddUp
  <1>1. /\ MapThenSumSet(LAMBDA i : snd[i].bytes, Streams) = Total([i \in Streams |-> snd[i].bytes])
        /\ MapThenSumSet(LAMBDA i : rcv[i].bytes, Streams) = Total([i \in Streams |-> rcv[i].bytes])
    BY SumBytes
  <1>2. /\ MapThenSumSet(LAMBDA i : snd[i].blks, Streams) = Total([i \in Streams |-> snd[i].blks])
        /\ MapThenSumSet(LAMBDA i : rcv[i].blks, Streams) = Total([i \in Streams |-> rcv[i].blks])
    BY SumBlks
  <1> QED BY <1>1, <1>2 DEF TotalsAddUp, Agree

LEMMA SumLostType == ASSUME NEW f \in [Streams -> PerfStream] PROVE SumLost(f) \in Nat
  <1>1. PICK g \in [Streams -> Nat] : g = [i \in Streams |-> f[i].lost]
    BY DEF PerfStream
  <1>2. PICK it \in [SUBSET Streams -> Nat] : Adds(it, g)
    BY SumExists
  <1>3. Total(g) \in Nat
    BY <1>2, TotalIs
  <1> QED BY <1>1, <1>3, SumOfLost DEF SumLost

\* Nothing has been counted.
LEMMA NewAgrees ==
  ASSUME NEW d, d = [bytes |-> 0, blks |-> 0, lost |-> 0]
  PROVE  Agree(d, [i \in Streams |-> new])
  <1>1. PICK g \in [Streams -> Nat] : g = [i \in Streams |-> 0]
    OBVIOUS
  <1>2. PICK it : it = [s \in SUBSET Streams |-> 0]
    OBVIOUS
  <1>3. \A s \in SUBSET Streams : it[s] = IF s = {} THEN 0 ELSE g[Pick(s)] + it[s \ {Pick(s)}]
    <2> SUFFICES ASSUME NEW s \in SUBSET Streams, s # {}
                 PROVE  it[s] = g[Pick(s)] + it[s \ {Pick(s)}]
      BY <1>2
    <2>1. g[Pick(s)] = 0 /\ it[s] = 0 /\ it[s \ {Pick(s)}] = 0
      BY <1>1, <1>2, Picked
    <2> QED BY <2>1
  <1>4. Adds(it, g)
    BY <1>2, <1>3 DEF Adds
  <1>5. Total(g) = 0
    <2>1. it[Streams] = 0
      BY <1>2
    <2> QED BY <1>4, <2>1, TotalIs
  <1>6. /\ [i \in Streams |-> [j \in Streams |-> new][i].bytes] = g
        /\ [i \in Streams |-> [j \in Streams |-> new][i].blks] = g
    BY <1>1 DEF new
  <1> QED BY <1>5, <1>6 DEF Agree, TestData

\* A datagram is counted for its stream and for the test.
LEMMA CountAgrees ==
  ASSUME NEW f \in [Streams -> PerfStream], NEW c \in Streams, NEW t \in PerfStream,
         t.bytes = f[c].bytes + Length, t.blks = f[c].blks + 1,
         NEW d, Agree(d, f)
  PROVE  Agree(CountTest(d), [f EXCEPT ![c] = t]) /\ CountTest(d).lost = d.lost
  <1>1. PICK h \in [Streams -> PerfStream] : h = [f EXCEPT ![c] = t]
    OBVIOUS
  <1>2. h[c] = t /\ \A i \in Streams : i # c => h[i] = f[i]
    BY <1>1
  <1>3. /\ d \in TestData /\ Length \in Nat
        /\ CountTest(d).bytes = d.bytes + Length /\ CountTest(d).blks = d.blks + 1
        /\ CountTest(d).lost = d.lost /\ CountTest(d) \in TestData
    <2>1. d \in TestData
      BY DEF Agree
    <2>2. Length \in Nat
      BY StatsAssumption
    <2>3. CountTest(d).blks = d.blks + 1 /\ CountTest(d).lost = d.lost
      BY <2>1, <2>2 DEF CountTest, TestData
    <2>4. CountTest(d).bytes = d.bytes + Length
      BY <2>1, <2>2 DEF CountTest, TestData
    <2>5. CountTest(d) \in TestData
      <3>1. PICK n \in Nat, m \in Nat : n = d.bytes + Length /\ m = d.blks + 1
        BY <2>1, <2>2 DEF TestData
      <3>2. CountTest(d) = [d EXCEPT !.bytes = n, !.blks = m]
        BY <3>1 DEF CountTest
      <3> QED BY <2>1, <3>2 DEF TestData
    <2> QED BY <2>1, <2>2, <2>3, <2>4, <2>5
  <1>4. CountTest(d).bytes = Total([i \in Streams |-> h[i].bytes])
    <2>1. PICK g \in [Streams -> Nat] : g = [i \in Streams |-> f[i].bytes]
      BY DEF PerfStream
    <2>2. PICK e \in [Streams -> Nat] : e = [i \in Streams |-> h[i].bytes]
      BY DEF PerfStream
    <2>3. More(g, e, c, Length)
      BY <1>2, <2>1, <2>2 DEF More
    <2>4. Total(e) = Total(g) + Length
      BY <1>3, <2>3, TotalCounts
    <2> QED BY <1>3, <2>1, <2>2, <2>4 DEF Agree
  <1>5. CountTest(d).blks = Total([i \in Streams |-> h[i].blks])
    <2>1. PICK g \in [Streams -> Nat] : g = [i \in Streams |-> f[i].blks]
      BY DEF PerfStream
    <2>2. PICK e \in [Streams -> Nat] : e = [i \in Streams |-> h[i].blks]
      BY DEF PerfStream
    <2>3. PICK u \in Nat : u = 1 /\ More(g, e, c, u)
      BY <1>2, <2>1, <2>2 DEF More
    <2>4. Total(e) = Total(g) + u
      BY <2>3, TotalCounts
    <2> QED BY <1>3, <2>1, <2>2, <2>3, <2>4 DEF Agree
  <1> QED BY <1>1, <1>3, <1>4, <1>5 DEF Agree

\* end() moves no datagram, and its sum is a number.
LEMMA EndAgrees ==
  ASSUME NEW f \in [Streams -> PerfStream], NEW h \in [Streams -> PerfStream],
         \A i \in Streams : h[i].bytes = f[i].bytes /\ h[i].blks = f[i].blks,
         NEW d, Agree(d, f)
  PROVE  Agree(EndTest(d, h), h) /\ EndTest(d, h).lost = Word(SumLost(h))
  <1>1. /\ [i \in Streams |-> h[i].bytes] = [i \in Streams |-> f[i].bytes]
        /\ [i \in Streams |-> h[i].blks] = [i \in Streams |-> f[i].blks]
    OBVIOUS
  <1>2. PICK w \in Nat : w = Word(SumLost(h))
    BY SumLostType, WordType
  <1>3. EndTest(d, h) = [bytes |-> d.bytes, blks |-> d.blks, lost |-> w]
    BY <1>2 DEF Agree, EndTest, TestData
  <1> QED BY <1>1, <1>2, <1>3 DEF Agree, TestData

Totaled ==
  /\ Agree(sdata, snd) /\ Agree(rdata, rcv)
  /\ server = "ended" => rdata.lost = Word(SumLost(rcv))
  /\ pc \in {"poll", "loop", "left", "ended", "panic"}
  /\ elapsed \in BOOLEAN /\ try_later \in BOOLEAN

LEMMA InitTotaled == Init => Totaled
  BY NewAgrees DEF Init, Totaled

LEMMA WriteTotaled == ASSUME IInv, Totaled, Write PROVE Totaled'
  <1> DEFINE s == Count(snd[cidx], snd[cidx].last)
  <1>1. PICK push \in BOOLEAN, up \in BOOLEAN :
          /\ snd' = [snd EXCEPT ![cidx] = IF push THEN push_stat(s) ELSE s]
          /\ sdata' = CountTest(sdata)
          /\ elapsed' = IF push THEN up ELSE elapsed
          /\ try_later' = (try_later \/ (push /\ up))
          /\ pc' \in {"panic", "left", "loop"}
          /\ UNCHANGED << rcv, rdata, server >>
    BY DEF Write, TimeMayEnd, Totaled, serverVars
  <1>2. /\ snd \in [Streams -> PerfStream] /\ cidx \in Streams
        /\ snd[cidx] \in PerfStream /\ snd[cidx].last \in Nat
    BY DEF IInv, StatsType, PerfStream
  <1>3. PICK t \in PerfStream : /\ t = (IF push THEN push_stat(s) ELSE s)
                                /\ t.bytes = snd[cidx].bytes + Length /\ t.blks = snd[cidx].blks + 1
    <2>1. s \in PerfStream /\ s.bytes = snd[cidx].bytes + Length /\ s.blks = snd[cidx].blks + 1
      BY <1>2, CountType
    <2> HIDE DEF s
    <2> QED BY <2>1, PushType
  <1>4. Agree(sdata', snd')
    BY <1>1, <1>2, <1>3, CountAgrees DEF Totaled
  <1>5. Agree(rdata', rcv') /\ (server' = "ended" => rdata'.lost = Word(SumLost(rcv')))
    BY <1>1 DEF Totaled
  <1>6. elapsed' \in BOOLEAN /\ try_later' \in BOOLEAN
    BY <1>1 DEF Totaled
  <1> QED BY <1>1, <1>4, <1>5, <1>6 DEF Totaled

LEMMA ReadTotaled ==
  ASSUME IInv, Totaled, NEW i \in Streams, NEW q \in flight[i], Read(i, q)
  PROVE  Totaled'
  <1> DEFINE s == Count(rcv[i], q)
  <1>1. PICK sec \in BOOLEAN :
          /\ rcv' = [rcv EXCEPT ![i] = IF sec THEN push_stat(s) ELSE s]
          /\ rdata' = CountTest(rdata) /\ server' \in {"panic", "reading"}
          /\ UNCHANGED << snd, sdata, pc, elapsed, try_later >>
    BY DEF Read, clientVars
  <1>2. rcv \in [Streams -> PerfStream] /\ rcv[i] \in PerfStream /\ q \in Nat
    BY StatsAssumption DEF IInv, StatsType
  <1>3. PICK t \in PerfStream : /\ t = (IF sec THEN push_stat(s) ELSE s)
                                /\ t.bytes = rcv[i].bytes + Length /\ t.blks = rcv[i].blks + 1
    <2>1. s \in PerfStream /\ s.bytes = rcv[i].bytes + Length /\ s.blks = rcv[i].blks + 1
      BY <1>2, CountType
    <2> HIDE DEF s
    <2> QED BY <2>1, PushType
  <1>4. Agree(rdata', rcv')
    BY <1>1, <1>2, <1>3, CountAgrees DEF Totaled
  <1> QED BY <1>1, <1>4 DEF Totaled

LEMMA LeaveLoopTotaled == ASSUME IInv, Totaled, LeaveLoop PROVE Totaled'
  <1>1. UNCHANGED << elapsed, try_later, rcv, rdata, server >> /\ pc' \in {"poll", "panic", "ended"}
    BY DEF LeaveLoop, serverVars
  <1>2. CASE UNCHANGED << snd, sdata >>
    BY <1>1, <1>2 DEF Totaled
  <1>3. CASE snd' = [i \in Streams |-> EndStream(snd[i])] /\ sdata' = EndTest(sdata, snd')
    <2>1. \A i \in Streams : snd[i] \in PerfStream /\ AddsUp(snd[i])
      BY DEF IInv, StatsType
    <2>2. \A i \in Streams : /\ EndStream(snd[i]) \in PerfStream
                             /\ EndStream(snd[i]).bytes = snd[i].bytes /\ EndStream(snd[i]).blks = snd[i].blks
      BY <2>1, EndStreamType
    <2>3. PICK h \in [Streams -> PerfStream] : h = [i \in Streams |-> EndStream(snd[i])]
      BY <2>2
    <2>4. Agree(EndTest(sdata, h), h)
      BY <2>2, <2>3, EndAgrees DEF Totaled, IInv, StatsType
    <2> QED BY <1>1, <1>3, <2>3, <2>4 DEF Totaled
  <1> QED BY <1>2, <1>3 DEF LeaveLoop

LEMMA EndServerTotaled == ASSUME IInv, Totaled, EndServer PROVE Totaled'
  <1>1. UNCHANGED << snd, sdata, pc, elapsed, try_later >>
    BY DEF EndServer, clientVars
  <1>2. CASE UNCHANGED << rcv, rdata >> /\ server' = "panic"
    BY <1>1, <1>2 DEF Totaled
  <1>3. CASE rcv' = [i \in Streams |-> EndStream(rcv[i])] /\ rdata' = EndTest(rdata, rcv')
    <2>1. \A i \in Streams : rcv[i] \in PerfStream /\ AddsUp(rcv[i])
      BY DEF IInv, StatsType
    <2>2. \A i \in Streams : /\ EndStream(rcv[i]) \in PerfStream
                             /\ EndStream(rcv[i]).bytes = rcv[i].bytes /\ EndStream(rcv[i]).blks = rcv[i].blks
      BY <2>1, EndStreamType
    <2>3. PICK h \in [Streams -> PerfStream] : h = [i \in Streams |-> EndStream(rcv[i])]
      BY <2>2
    <2>4. Agree(EndTest(rdata, h), h) /\ EndTest(rdata, h).lost = Word(SumLost(h))
      BY <2>2, <2>3, EndAgrees DEF Totaled, IInv, StatsType
    <2> QED BY <1>1, <1>3, <2>3, <2>4 DEF Totaled
  <1> QED BY <1>2, <1>3 DEF EndServer

LEMMA NextTotaled == IInv /\ Totaled /\ [Next]_vars => Totaled'
  <1> SUFFICES ASSUME IInv, Totaled, [Next]_vars PROVE Totaled'
    OBVIOUS
  <1>1. CASE EnterLoop \/ WouldBlock
    <2>1. /\ UNCHANGED << snd, sdata, rcv, rdata, server >> /\ pc' \in {"loop", "left"}
          /\ elapsed' \in BOOLEAN /\ try_later' \in BOOLEAN
      BY <1>1 DEF EnterLoop, WouldBlock, serverVars, TimeMayEnd, Totaled
    <2> QED BY <2>1 DEF Totaled
  <1>2. CASE Write
    BY <1>2, WriteTotaled
  <1>3. CASE LeaveLoop
    BY <1>3, LeaveLoopTotaled
  <1>4. ASSUME NEW i \in Streams, NEW q \in flight[i], Lose(i, q)
        PROVE  Totaled'
    <2>1. UNCHANGED << snd, sdata, rcv, rdata, server, pc, elapsed, try_later >>
      BY <1>4 DEF Lose, clientVars, serverVars
    <2> QED BY <2>1 DEF Totaled
  <1>5. CASE EndServer
    BY <1>5, EndServerTotaled
  <1>6. CASE Over \/ UNCHANGED vars
    <2>1. UNCHANGED << snd, sdata, rcv, rdata, server, pc, elapsed, try_later >>
      BY <1>6 DEF Over, vars
    <2> QED BY <2>1 DEF Totaled
  <1> QED BY <1>1, <1>2, <1>3, <1>4, <1>5, <1>6, ReadTotaled DEF Next

LEMMA TotaledInvariant == Spec => [](IInv /\ Totaled)
  <1>1. Init => IInv /\ Totaled
    BY InitIInv, InitTotaled
  <1>2. IInv /\ Totaled /\ [Next]_vars => (IInv /\ Totaled)'
    BY NextIInv, NextTotaled
  <1> QED BY <1>1, <1>2, PTL DEF Spec

\* The [Sum] line is the sum of the lines of the streams on both sides, for any
\* number of streams: every datagram counted for a stream is counted for the
\* test, the client's end() and the server's change neither, and the loss
\* reported for the test is that of its streams, modulo 2^64.
THEOREM TotalsAddUpThm == Spec => []TotalsAddUp
  <1>1. IInv /\ Totaled => TotalsAddUp
    BY TotalsMeaning DEF IInv, StatsType, Totaled
  <1> QED BY <1>1, TotaledInvariant, PTL

\* Every counter has its type, the sums over the streams included, and no
\* datagram is numbered 0, which the server takes for "none received yet".
THEOREM StatsTypeCorrect == Spec => []TypeOK
  <1> DEFINE Given == test_blks \in BlksGiven /\ test_bytes \in BytesGiven /\ inorder \in BOOLEAN
  <1>1. ASSUME IInv, Totaled, Given
        PROVE  TypeOK
    <2>1. 1..MaxBlks \subseteq Nat \ {0}
      BY StatsAssumption
    <2>2. flight \in [Streams -> SUBSET (Nat \ {0})]
      <3>1. flight \in [Streams -> SUBSET (1..MaxBlks)]
        BY <1>1 DEF IInv, StatsType
      <3>2. \A i \in Streams : flight[i] \in SUBSET (Nat \ {0})
        BY <2>1, <3>1
      <3> QED BY <3>1, <3>2
    <2> QED BY <2>2, <1>1 DEF TypeOK, IInv, StatsType, Totaled, Agree
  <1>2. Init => Given
    BY DEF Init
  <1>3. Given /\ [Next]_vars => Given'
    <2>1. [Next]_vars => UNCHANGED test
      BY DEF Next, EnterLoop, Write, WouldBlock, LeaveLoop, Lose, Read, EndServer, Over, vars
    <2> QED BY <2>1 DEF test
  <1> HIDE DEF Given
  <1> QED BY <1>1, <1>2, <1>3, TotaledInvariant, PTL DEF Spec
=============================================================================
