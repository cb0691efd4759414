---------------------------- MODULE NoProtection ----------------------------
(***************************************************************************)
(* The packet keys of a QUIC connection under --skip-tls.  The session of  *)
(* noprotection.rs forwards everything to rustls and wraps some of the     *)
(* keys it hands to quinn.  The levels are the keys in the order of their  *)
(* use: 0 Initial, 1 Handshake, 2 the first 1-RTT keys, and one more for   *)
(* each key update.  rustls and quinn's choice of the key are external:    *)
(* the packet number and the key phase name the key a packet was sealed    *)
(* with, and a packet older than the previous key is dropped.              *)
(***************************************************************************)
EXTENDS Naturals, Sequences, FiniteSets

CONSTANTS
  SameFlags,   \* both sides are started with --skip-tls, or neither is
  TagLen,      \* tag_len of the inner key
  MaxLevel,    \* bound: key updates
  MaxPackets   \* bound: packets of a side

ASSUME ProtectionAssumption ==
  /\ SameFlags \in BOOLEAN /\ TagLen \in Nat \ {0}
  /\ MaxLevel \in Nat /\ MaxPackets \in Nat

Sides == {"client", "server"}
Peer(s) == IF s = "client" THEN "server" ELSE "client"
Payloads == { << 1 >>, << 7, 7 >> }

VARIABLES
  skip,    \* skip[s]: test.skip_tls, which is not part of Settings
  level,   \* level[s]: the keys s seals with
  heard,   \* heard[s]: the highest level s has opened a packet of
  count,   \* packets sent
  net,     \* packets on the way, in no order
  last     \* last[s]: the last packet s took, as it was sent and as it was read

vars == << skip, level, heard, count, net, last >>

Nothing == [sent |-> << >>, read |-> << >>]

Init ==
  /\ skip \in [Sides -> BOOLEAN] /\ (SameFlags => skip["client"] = skip["server"])
  /\ level = [s \in Sides |-> 0] /\ heard = [s \in Sides |-> 0]
  /\ count = [s \in Sides |-> 0] /\ net = {} /\ last = [s \in Sides |-> Nothing]

-----------------------------------------------------------------------------
\* Mutant: the tag is written over the payload.
FillsFirst(text) == [i \in 1..Len(text) |-> IF i <= TagLen THEN 42 ELSE text[i]]

\* initial_keys and write_handshake forward rustls' keys as they are, the first
\* 1-RTT keys too; next_1rtt_keys wraps both directions of what a key update uses.
Wrapped(s, l) == skip[s] /\ l > 2

\* NoProtectionPacketKey::encrypt on payload and tag storage.
encrypt(text) == [i \in 1..Len(text) |-> IF i > Len(text) - TagLen THEN 42 ELSE text[i]]
\* NoProtectionPacketKey::decrypt, which looks at nothing.
decrypt(text) == SubSeq(text, 1, Len(text) - TagLen)

Storage(payload) == payload \o [i \in 1..TagLen |-> 0]

Seal(s, payload) ==
  LET wrapped == Wrapped(s, level[s]) IN
  [from |-> s, level |-> level[s], sent |-> payload, sealed |-> ~wrapped,
   text |-> IF wrapped THEN encrypt(Storage(payload)) ELSE Storage(payload)]

\* rustls' key returns an error for what it has not sealed; the wrapper never does.
Opens(s, k) == Wrapped(s, k.level) \/ k.sealed

\* What s reads: nothing, ciphertext (no byte anybody sent), or the payload.
Opened(s, k) ==
  CASE ~Opens(s, k) -> << >>
    [] Wrapped(s, k.level) /\ k.sealed -> [i \in 1..Len(decrypt(k.text)) |-> 256]
    [] Wrapped(s, k.level) /\ ~k.sealed -> decrypt(k.text)
    [] OTHER -> k.sent

-----------------------------------------------------------------------------
Send(s) ==
  /\ count[s] < MaxPackets
  /\ \E payload \in Payloads : net' = net \cup {Seal(s, payload)}
  /\ count' = [count EXCEPT ![s] = @ + 1]
  /\ UNCHANGED << skip, level, heard, last >>

\* The keys s has for a packet: its own, the ones before, and after the
\* handshake the precomputed ones of a key update, which a packet that opens
\* makes its own.
Receive(s) ==
  \E k \in net :
    /\ k.from = Peer(s)
    /\ \/ k.level \in {level[s], level[s] - 1}
       \/ level[s] >= 2 /\ k.level = level[s] + 1
    /\ net' = net \ {k}
    /\ last' = [last EXCEPT ![s] = [sent |-> k.sent, read |-> Opened(s, k)]]
    /\ heard' = [heard EXCEPT ![s] = IF Opens(s, k) /\ k.level > @ THEN k.level ELSE @]
    /\ level' = [level EXCEPT ![s] = IF Opens(s, k) /\ k.level > @ THEN k.level ELSE @]
    /\ UNCHANGED << skip, count >>

\* A packet that is lost, or too old for the keys its receiver has kept.
Lose == \E k \in net : net' = net \ {k} /\ UNCHANGED << skip, level, heard, count, last >>

\* write_handshake returns the keys of the next level.
WriteHandshake(s) ==
  /\ level[s] < 2 /\ heard[s] = level[s] /\ last[s] # Nothing
  /\ level' = [level EXCEPT ![s] = @ + 1]
  /\ UNCHANGED << skip, heard, count, net, last >>

\* quinn updates its keys when the peer has used the current ones.
KeyUpdate(s) ==
  /\ level[s] \in 2..(MaxLevel - 1) /\ heard[s] = level[s]
  /\ level' = [level EXCEPT ![s] = @ + 1]
  /\ UNCHANGED << skip, heard, count, net, last >>

Next ==
  \/ Lose
  \/ \E s \in Sides : Send(s) \/ Receive(s) \/ WriteHandshake(s) \/ KeyUpdate(s)

Spec == Init /\ [][Next]_vars

-----------------------------------------------------------------------------
\* What a side reads is what the other one sent, through the handshake and any
\* number of key updates, which either side may start while packets of the
\* previous keys are on their way.
PacketsOpen == \A s \in Sides : last[s].read = last[s].sent

\* --skip-tls disables the encryption of a QUIC connection's data.
SkipDisables == \A k \in net : skip[k.from] /\ k.level >= 2 => ~k.sealed
=============================================================================
