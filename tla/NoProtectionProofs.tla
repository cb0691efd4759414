------------------------- MODULE NoProtectionProofs -------------------------
(***************************************************************************)
(* The packets of a connection whose sides agree on --skip-tls open, for   *)
(* every length of the tag and any number of key updates.                  *)
(***************************************************************************)
EXTENDS NoProtection, SequenceTheorems, TLAPS

\* A packet is as its sender's key has left it.
WellSealed(k) ==
  /\ k.from \in Sides /\ k.sent \in Payloads
  /\ k.sealed = ~Wrapped(k.from, k.level)
  /\ ~k.sealed => k.text = encrypt(Storage(k.sent))

\* The sides agree, so that a receiver wraps the keys that the sender wraps.
Agreed ==
  /\ skip \in [Sides -> BOOLEAN] /\ skip["client"] = skip["server"]
  /\ last \in [Sides -> [sent : Seq(Nat), read : Seq(Nat)]]
  /\ \A k \in net : WellSealed(k)
  /\ PacketsOpen

-----------------------------------------------------------------------------
\* The wrapper takes away what it has put on: the fill goes into the storage of
\* the tag and nowhere else.
LEMMA RoundTrip ==
  ASSUME NEW p \in Seq(Nat)
  PROVE  decrypt(encrypt(Storage(p))) = p
  <1> DEFINE tag == [i \in 1..TagLen |-> 0]
             text == encrypt(Storage(p))
  <1>1. TagLen \in Nat
    BY ProtectionAssumption
  <1>2. tag \in Seq(Nat) /\ Len(tag) = TagLen
    BY <1>1
  <1>3. /\ Storage(p) \in Seq(Nat) /\ Len(Storage(p)) = Len(p) + TagLen
        /\ \A i \in 1..Len(p) : Storage(p)[i] = p[i]
    <2>1. Storage(p) = p \o tag
      BY DEF Storage
    <2> HIDE DEF tag
    <2>2. /\ p \o tag \in Seq(Nat) /\ Len(p \o tag) = Len(p) + Len(tag)
          /\ \A i \in 1..(Len(p) + Len(tag)) :
               (p \o tag)[i] = IF i <= Len(p) THEN p[i] ELSE tag[i - Len(p)]
      BY <1>2, ConcatProperties, Zenon
    <2>3. \A i \in 1..Len(p) : i \in 1..(Len(p) + Len(tag)) /\ i <= Len(p)
      BY <1>1, <1>2
    <2> QED BY <1>2, <2>1, <2>2, <2>3
  <1>4. Len(p) \in Nat
    OBVIOUS
  <1>5. /\ text \in Seq(Nat) /\ Len(text) = Len(p) + TagLen
        /\ \A i \in 1..Len(p) : text[i] = p[i]
    <2>1. text = [i \in 1..(Len(p) + TagLen) |-> IF i > Len(p) THEN 42 ELSE Storage(p)[i]]
      BY <1>1, <1>3, <1>4 DEF encrypt
    <2>2. \A i \in 1..(Len(p) + TagLen) : (IF i > Len(p) THEN 42 ELSE Storage(p)[i]) \in Nat
      BY <1>1, <1>3, <1>4
    <2>3. text \in [1..(Len(p) + TagLen) -> Nat]
      BY <2>1, <2>2
    <2>4. text \in Seq(Nat) /\ Len(text) = Len(p) + TagLen
      BY <1>1, <1>4, <2>3
    <2>5. \A i \in 1..Len(p) : text[i] = p[i]
      BY <1>1, <1>3, <1>4, <2>1
    <2> QED BY <2>4, <2>5
  <1>6. decrypt(text) = SubSeq(text, 1, Len(p))
    BY <1>1, <1>4, <1>5 DEF decrypt
  <1> HIDE DEF text
  <1>7. /\ SubSeq(text, 1, Len(p)) \in Seq(Nat) /\ Len(SubSeq(text, 1, Len(p))) = Len(p)
        /\ \A i \in 1..Len(p) : SubSeq(text, 1, Len(p))[i] = text[i]
    BY <1>1, <1>4, <1>5
  <1>8. SubSeq(text, 1, Len(p)) = p
    BY <1>5, <1>7, SeqEqual
  <1> QED BY <1>6, <1>8 DEF text

LEMMA PayloadsAreBytes == Payloads \subseteq Seq(Nat)
  BY DEF Payloads

\* A packet that a key has sealed is read as it was sent by the key's peer.
LEMMA ReadsSent ==
  ASSUME Agreed, NEW s \in Sides, NEW k \in net
  PROVE  Opened(s, k) = k.sent /\ k.sent \in Seq(Nat)
  <1>1. WellSealed(k)
    BY DEF Agreed
  <1>2. k.sent \in Seq(Nat)
    BY <1>1, PayloadsAreBytes DEF WellSealed
  <1>3. Wrapped(s, k.level) = Wrapped(k.from, k.level)
    BY <1>1 DEF Agreed, WellSealed, Wrapped, Sides
  <1>4. CASE Wrapped(s, k.level)
    <2>1. ~k.sealed /\ k.text = encrypt(Storage(k.sent)) /\ Opens(s, k)
      BY <1>1, <1>3, <1>4 DEF WellSealed, Opens
    <2>2. Opened(s, k) = decrypt(k.text)
      BY <1>4, <2>1 DEF Opened
    <2> QED BY <1>2, <2>1, <2>2, RoundTrip
  <1>5. CASE ~Wrapped(s, k.level)
    <2>1. k.sealed /\ Opens(s, k)
      BY <1>1, <1>3, <1>5 DEF WellSealed, Opens
    <2>2. Opened(s, k) = k.sent
      BY <1>5, <2>1 DEF Opened
    <2> QED BY <1>2, <2>2
  <1> QED BY <1>4, <1>5

LEMMA AgreedInit == SameFlags /\ Init => Agreed
  <1>1. Nothing \in [sent : Seq(Nat), read : Seq(Nat)]
    BY DEF Nothing
  <1>2. Nothing.sent = Nothing.read
    BY DEF Nothing
  <1> QED BY <1>1, <1>2 DEF Init, Agreed, PacketsOpen

LEMMA AgreedSend == ASSUME Agreed, NEW s \in Sides, Send(s) PROVE Agreed'
  <1>1. PICK p \in Payloads : net' = net \cup {Seal(s, p)}
    BY DEF Send
  <1>2. UNCHANGED << skip, level, last >>
    BY DEF Send
  <1>3. WellSealed(Seal(s, p))
    BY DEF WellSealed, Seal, Wrapped
  <1>4. \A k \in net' : WellSealed(k)
    BY <1>1, <1>3 DEF Agreed
  <1>5. \A k \in net' : WellSealed(k)'
    BY <1>2, <1>4 DEF WellSealed, Wrapped
  <1> QED BY <1>2, <1>5 DEF Agreed, PacketsOpen

LEMMA AgreedReceive == ASSUME Agreed, NEW s \in Sides, Receive(s) PROVE Agreed'
  <1>1. PICK k \in net : /\ net' = net \ {k} /\ UNCHANGED skip
                         /\ last' = [last EXCEPT ![s] = [sent |-> k.sent, read |-> Opened(s, k)]]
    BY DEF Receive
  <1>2. Opened(s, k) = k.sent /\ k.sent \in Seq(Nat)
    BY ReadsSent
  <1>3. last' \in [Sides -> [sent : Seq(Nat), read : Seq(Nat)]]
    BY <1>1, <1>2 DEF Agreed
  <1>4. PacketsOpen'
    BY <1>1, <1>2 DEF Agreed, PacketsOpen
  <1>5. \A m \in net' : WellSealed(m)'
    BY <1>1 DEF Agreed, WellSealed, Wrapped
  <1> QED BY <1>1, <1>3, <1>4, <1>5 DEF Agreed

\* The steps that put nothing on the way and take nothing in.
LEMMA AgreedOther ==
  ASSUME Agreed, Lose \/ (\E s \in Sides : WriteHandshake(s) \/ KeyUpdate(s)) \/ UNCHANGED vars
  PROVE  Agreed'
  <1>1. net' \subseteq net /\ UNCHANGED << skip, last >>
    BY DEF Lose, WriteHandshake, KeyUpdate, vars
  <1>2. \A k \in net' : WellSealed(k)'
    BY <1>1 DEF Agreed, WellSealed, Wrapped
  <1> QED BY <1>1, <1>2 DEF Agreed, PacketsOpen

\* Two sides that agree on --skip-tls read what the other one has sent, whatever
\* the length of the tag, across the handshake and any number of key updates.
THEOREM PacketsAlwaysOpen ==
  ASSUME SameFlags
  PROVE  Spec => []PacketsOpen
  <1>1. Init => Agreed
    BY AgreedInit
  <1>2. Agreed /\ [Next]_vars => Agreed'
    BY AgreedSend, AgreedReceive, AgreedOther DEF Next
  <1>3. Agreed => PacketsOpen
    BY DEF Agreed
  <1> QED BY <1>1, <1>2, <1>3, PTL DEF Spec
=============================================================================
