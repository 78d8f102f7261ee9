----------------------------- MODULE UtpProofs ------------------------------
(***************************************************************************)
(* Proofs about Utp, for every width of the sequence numbers, packet size, *)
(* buffer, window and number of faults, as long as each end sends less     *)
(* than half a turn of packets (FewPackets): the types, AckedHasArrived,   *)
(* NothingStalls and the refinement of ByteStream.                         *)
(*                                                                         *)
(* The argument compares all copies of a packet with one log.  The ghost   *)
(* field log of an end lists what it has sent for the first time; Nth      *)
(* turns a sequence number into a place of the log.  The invariant UInv    *)
(* says of each end that its send buffer and its retransmission queue      *)
(* continue the log (SendOK), that every datagram on its way is a copy of  *)
(* it (MsgOK), that the peer has read, can read or keeps for reordering a  *)
(* piece of it from the start and some packets beyond (RecvOK), that what  *)
(* is no longer queued is among these (AckOK), and that no end waits       *)
(* without a nudge or a timer (RestOK).                                    *)
(***************************************************************************)
EXTENDS Utp, QueueOrderProofs

(* An end has sent, or has sent and may still send, less than half a turn  *)
(* of packets: k more hold what was written and not sent yet, and n are    *)
(* kept back.                                                              *)
Short(c) == Len(c.log) < Mod \div 2
Few(c, w, n) ==
    \E k \in Nat : /\ w - Upto(c.log, Len(c.log)) <= k * PacketSize
                   /\ Len(c.log) + k + n < Mod \div 2

(* The one assumption of the theorems: an end sends less than half a turn  *)
(* of packets (32767), those of what was written already and a FIN         *)
(* included.  The code compares sequence numbers modulo 2^16 and has       *)
(* nothing else to tell a datagram delayed by a whole turn from a new one. *)
FewPackets == \A e \in Ends : Few(conn[e], written[e], 1)

(* The fields of an end.                                                   *)
Fields == {"state", "seqNr", "ackNr", "sendBuf", "unacked", "recv", "reorder", "peerWnd",
           "lastAck", "dupAcks", "probe", "advertised", "needsAck", "wantFin", "peerFin", "eof",
           "error", "lingers", "readerGone", "pending", "teardown", "offered", "held", "nudge",
           "out", "log"}

(* A record with these fields, which the provers know from its domain.     *)
Shape(c) == c = [f \in Fields |-> c[f]]

(* Sequence numbers, what is sent under them, what is kept of it (log,     *)
(* unacked, reorder), and datagrams.                                       *)
Seqs == 0..(Mod - 1)
Kinds == {"syn", "data", "fin"}
Entry == [type : Kinds, upto : Nat]
Packet == [type : Kinds, seq : Seqs, data : Seq(Nat), tx : Nat, resend : BOOLEAN, fast : BOOLEAN]
Datagram == [type : Kinds \cup {"state", "reset"}, seq : Seqs, data : Seq(Nat), ack : Seqs,
             wnd : Nat, sack : SUBSET Nat]
Buffered == [seq : Seqs, data : Seq(Nat)]

(* The number of the packet that an end sends under s, counted from 1.     *)
Nth(e, s) == Distance(s, Add(Isn[e], -1))

(* What the i-th packet of a log carries.                                  *)
Units(L, i) == [k \in 1..(Upto(L, i) - Upto(L, i - 1)) |-> Upto(L, i - 1) + k]

(* The FIN is the last packet of a log.                                    *)
Ended(L) == L # <<>> /\ L[Len(L)].type = "fin"

(* A log is cut into packets of bounded size, the SYN first, the FIN last, *)
(* data only where units are carried, and at most two packets carry none:  *)
(* what was sent bounds the number of packets.                             *)
LogOK(e, L) ==
    /\ L \in Seq(Entry)
    /\ \A i, j \in 0..Len(L) : i <= j => Upto(L, i) <= Upto(L, j)
    /\ \A i \in 1..Len(L) :
          /\ Upto(L, i) - Upto(L, i - 1) <= PacketSize
          /\ L[i].type = "data" <=> Upto(L, i - 1) < Upto(L, i)
          /\ L[i].type = "syn" <=> i = 1 /\ e = "initiator"
          /\ L[i].type = "fin" => i = Len(L)
          /\ i <= Upto(L, i) + (IF L[i].type = "fin" THEN 2 ELSE 1)

(* A packet, or a datagram, is a copy of the entry of the log that its     *)
(* sequence number stands for.                                             *)
Carries(e, L, p) ==
    LET i == Nth(e, p.seq)
    IN  i \in 1..Len(L) /\ p.type = L[i].type /\ p.data = Units(L, i)

(* The sending half of an end: sequence number, send buffer and            *)
(* retransmission queue continue one log of what was written.              *)
SendOK(e, c, w) ==
    LET L == c.log
        n == Upto(L, Len(L))
    IN  /\ LogOK(e, L) /\ w \in 0..Load[e]
        /\ c.seqNr = Add(Isn[e], Len(L))
        /\ c.sendBuf \in Seq(Nat) /\ \A k \in 1..Len(c.sendBuf) : c.sendBuf[k] = n + k
        /\ n + Len(c.sendBuf) <= w /\ (c.error = "none" \/ Ended(L) => n + Len(c.sendBuf) = w)
        /\ c.unacked \in Seq(Packet)
        /\ \A k \in 1..Len(c.unacked) : Carries(e, L, c.unacked[k])
        /\ \A j, k \in 1..Len(c.unacked) :
              j < k => Nth(e, c.unacked[j].seq) < Nth(e, c.unacked[k].seq)

(* What the states of an end say about its other fields.                   *)
StateOK(e, c) ==
    LET n == Len(c.log)
    IN  /\ c.state \in {"none", "syn", "connected", "fin", "closed"}
        /\ c.error # "none" => c.state = "closed"
        /\ c.state = "none" => c = Fresh(e) /\ e = "responder"
        /\ c.state = "syn" => e = "initiator" /\ n = 1 /\ c.unacked # <<>> /\ ~c.held
        /\ e = "initiator" => n >= 1 /\ (c.state \in {"connected", "fin"} => c.held)
        /\ n > (IF e = "initiator" THEN 1 ELSE 0) \/ c.sendBuf # <<>> \/ c.wantFin
             \/ c.readerGone => c.held
        /\ c.state = "connected" => ~Ended(c.log)
        /\ c.state = "fin" => Ended(c.log)
        /\ Ended(c.log) => c.sendBuf = <<>> /\ c.wantFin /\ c.state \in {"fin", "closed"}
        /\ c.state = "closed" /\ c.error = "none" => Ended(c.log) /\ c.unacked = <<>> /\ c.eof
        /\ c.lingers => c.unacked = <<>> /\ c.state \in {"fin", "closed"}
        /\ c.readerGone => c.teardown \/ c.state = "closed"

(* The zero-window probe.                                                  *)
Probes == {"none", "armed", "due"}

(* An initiator that is not connected has nothing to acknowledge, and a    *)
(* responder's stream is held once it was offered.                         *)
EarlyOK(e, c) ==
    /\ c.probe \in Probes /\ c.peerWnd \in Nat
    /\ e = "initiator" /\ ~c.held => ~c.needsAck /\ ~c.nudge
    /\ e = "responder" /\ c.held => c.offered

(* An end knows the sequence numbers of its peer from the first datagram   *)
(* it has accepted; it has a packet of the peer that is acknowledged or    *)
(* kept for reordering.                                                    *)
Joined(e, c) == IF e = "initiator" THEN c.held ELSE c.state # "none"
Has(e, d, i) == i <= Nth(e, d.ackNr) \/ \E q \in d.reorder : Nth(e, q.seq) = i

(* The receiving half of an end, against the log L of its peer: what was   *)
(* read, what is ready and what is kept for reordering are the packets of  *)
(* L up to a point and some beyond the gap after it; the end of the stream *)
(* is told only where L ends.                                              *)
RecvOK(e, c, L, g) ==
    LET p == Peer(e)
        r == Nth(p, c.ackNr)
    IN  /\ c.recv \in Seq(Nat) /\ g \in Seq(Nat) /\ \A k \in 1..Len(g) : g[k] = k
        /\ Len(g) <= Upto(L, Len(L))
        /\ IsFiniteSet(c.reorder) /\ c.ackNr \in Seqs
        /\ c.peerFin # None => Joined(e, c) /\ c.peerFin \in Seqs /\ Ended(L) /\ Nth(p, c.peerFin) = Len(L)
        /\ c.readerGone => c.recv = <<>>
        /\ ~Joined(e, c) => /\ c.recv = <<>> /\ c.reorder = {} /\ g = <<>>
                            /\ e = "initiator" => L = <<>>
        /\ Joined(e, c) =>
              /\ r \in 0..Len(L) /\ (e = "responder" => r >= 1)
              /\ \A q \in c.reorder :
                    LET i == Nth(p, q.seq)
                    IN  /\ q \in Buffered /\ i \in (r + 2)..Len(L)
                        /\ q.data = IF c.readerGone THEN <<>> ELSE Units(L, i)
              /\ \A q, o \in c.reorder : q.seq = o.seq => q = o
              /\ ~c.readerGone => /\ Len(g) + Len(c.recv) = Upto(L, r)
                                  /\ \A k \in 1..Len(c.recv) : c.recv[k] = Len(g) + k
              /\ Ended(L) /\ Has(p, c, Len(L)) => c.peerFin # None
        /\ e = "responder" /\ c.held => Len(L) >= 2
        /\ c.eof /\ c.error = "none" =>
              \/ c.peerFin # None /\ r = Len(L)
              \/ c.wantFin /\ c.state = "closed"

(* The buffers stay within what accept_inorder allows.                     *)
Shelf == RecvMax \div PacketSize

SizeOK(c) ==
    /\ Cardinality(c.reorder) <= Shelf
    /\ Len(c.recv) + ReorderBytes(c) < RecvMax + PacketSize

(* What an end has dropped from its retransmission queue has arrived.      *)
AckOK(e, c, d) ==
    c.error = "none" =>
        \A i \in 1..Len(c.log) :
            \/ \E k \in 1..Len(c.unacked) : Nth(e, c.unacked[k].seq) = i
            \/ Joined(Peer(e), d) /\ Has(e, d, i)

(* A datagram on its way is a copy of the log of its sender, and what it   *)
(* acknowledges has arrived there.                                         *)
MsgOK(e, c, m) ==
    LET p == Peer(e)
    IN  /\ m \in Datagram
        /\ m.type \in Kinds => Carries(e, c.log, m)
        /\ m.type = "state" => Nth(e, m.seq) \in 1..(Len(c.log) + 1)
        /\ m.type \in {"data", "fin", "state"} =>
              /\ Joined(e, c) /\ Nth(p, m.ack) <= Nth(p, c.ackNr)
              /\ \A b \in m.sack : Has(p, c, Nth(p, m.ack) + 2 + b)

(* A program that was told the end has read everything.                    *)
EndOK(e, c, L, t) ==
    t # "open" => /\ c.recv = <<>>
                  /\ \/ c.state = "closed"
                     \/ c.peerFin # None /\ Nth(Peer(e), c.ackNr) = Len(L)

(* The states in which an end may be waiting.                              *)
Open == {"connected", "fin"}

(* An open end has told its reader the end of the stream as soon as it is  *)
(* reached, and a responder is held or still to be handed over.            *)
Fit(e, c, L) ==
    c.state \in Open =>
        /\ c.peerFin # None /\ Nth(Peer(e), c.ackNr) = Len(L) => c.eof
        /\ e = "responder" => c.held \/ c.pending

(* What keeps an open end from waiting for ever: when it is blocked with   *)
(* nothing in flight it is nudged or its probe is armed, and when it has   *)
(* its FIN to send it is nudged.                                           *)
RestOK(e, c, L) ==
    /\ Fit(e, c, L)
    /\ c.state \in Open /\ Blocked(c) /\ InFlight(c) = 0 => c.nudge \/ c.probe = "armed"
    /\ c.state = "connected" /\ c.wantFin /\ c.sendBuf = <<>> => c.nudge

-----------------------------------------------------------------------------
(* Sequence numbers around the wrap.                                       *)

(* What the constants say about a turn.                                    *)
LEMMA ModFacts ==
    /\ Mod \in Nat /\ Mod >= 4 /\ Mod \div 2 \in Nat /\ 2 * (Mod \div 2) = Mod
    /\ MaxReorder \in Nat /\ MaxReorder < Mod \div 2
<1>1. Mod \in Nat /\ Mod % 2 = 0 /\ MaxReorder \in 1..(Mod \div 2 - 1)
  BY UtpConstants
<1>2. Mod \div 2 \in Int /\ 2 * (Mod \div 2) = Mod
  BY <1>1
<1> QED BY <1>1, <1>2

(* The remainder within a turn of it.                                      *)
LEMMA Turns ==
    ASSUME NEW a \in Int
    PROVE  /\ a \in Seqs => a % Mod = a
           /\ a + Mod \in Seqs => a % Mod = a + Mod
           /\ a - Mod \in Seqs => a % Mod = a - Mod
BY ModFacts DEF Seqs

(* The other end.                                                          *)
LEMMA PeerFacts ==
    ASSUME NEW e \in Ends
    PROVE  Peer(e) \in Ends /\ Peer(e) # e /\ Peer(Peer(e)) = e
           /\ Isn[e] \in Seqs /\ Load[e] \in Nat
BY UtpConstants DEF Ends, Peer, Seqs

(* The sequence number before the first one.                               *)
LEMMA Before ==
    ASSUME NEW e \in Ends
    PROVE  LET z == Add(Isn[e], -1) IN z \in Seqs /\ (Isn[e] = z + 1 \/ (Isn[e] = 0 /\ z = Mod - 1))
<1>1. Isn[e] \in Seqs /\ Isn[e] + (-1) \in Int
  BY PeerFacts, ModFacts DEF Seqs
<1> QED BY <1>1, Turns, ModFacts DEF Add, Seqs

(* The distance between two sequence numbers.                              *)
LEMMA Distances ==
    ASSUME NEW a \in Seqs, NEW b \in Seqs
    PROVE  /\ Distance(a, b) \in Seqs
           /\ Distance(a, b) = IF a >= b THEN a - b ELSE a - b + Mod
<1>1. a - b \in Int
  BY ModFacts DEF Seqs
<1> QED BY <1>1, Turns, ModFacts DEF Distance, Seqs

(* Distances are those between the packets, up to a turn.                  *)
LEMMA NthDistance ==
    ASSUME NEW e \in Ends, NEW a \in Seqs, NEW b \in Seqs
    PROVE  /\ Nth(e, a) \in Seqs /\ Nth(e, b) \in Seqs
           /\ Distance(a, b) = IF Nth(e, a) >= Nth(e, b) THEN Nth(e, a) - Nth(e, b)
                               ELSE Nth(e, a) - Nth(e, b) + Mod
           /\ Nth(e, a) = Nth(e, b) => a = b
<1> DEFINE z == Add(Isn[e], -1)
<1>1. z \in Seqs
  BY Before
<1> HIDE DEF z
<1>2. /\ Distance(a, z) \in Seqs /\ Distance(a, z) = IF a >= z THEN a - z ELSE a - z + Mod
      /\ Distance(b, z) \in Seqs /\ Distance(b, z) = IF b >= z THEN b - z ELSE b - z + Mod
      /\ Distance(a, b) = IF a >= b THEN a - b ELSE a - b + Mod
  BY <1>1, Distances
<1>3. Nth(e, a) = Distance(a, z) /\ Nth(e, b) = Distance(b, z)
  BY DEF Nth, z
<1> QED BY <1>1, <1>2, <1>3, ModFacts DEF Seqs

(* Going on by k goes on by k packets.                                     *)
LEMMA NthAdd ==
    ASSUME NEW e \in Ends, NEW a \in Seqs, NEW k \in Int, Nth(e, a) + k \in Seqs
    PROVE  Add(a, k) \in Seqs /\ Nth(e, Add(a, k)) = Nth(e, a) + k
<1> DEFINE z == Add(Isn[e], -1)
<1>1. z \in Seqs
  BY Before
<1> HIDE DEF z
<1>2. /\ Distance(a, z) = IF a >= z THEN a - z ELSE a - z + Mod
      /\ Nth(e, a) = Distance(a, z)
  BY <1>1, Distances DEF Nth, z
<1>3. a + k \in Int /\ a \in Int /\ z \in Int
  BY <1>1, ModFacts DEF Seqs
<1>4. Add(a, k) \in Seqs /\ Add(a, k) \in {a + k, a + k - Mod, a + k + Mod}
  BY <1>1, <1>2, <1>3, Turns, ModFacts DEF Add, Seqs
<1>5. Distance(Add(a, k), z) = IF Add(a, k) >= z THEN Add(a, k) - z ELSE Add(a, k) - z + Mod
  BY <1>1, <1>4, Distances
<1> QED BY <1>1, <1>2, <1>3, <1>4, <1>5, ModFacts DEF Nth, z, Seqs

(* The first packet is number 1.                                           *)
LEMMA NthIsn ==
    ASSUME NEW e \in Ends, NEW n \in Nat, n + 1 \in Seqs
    PROVE  Add(Isn[e], n) \in Seqs /\ Nth(e, Add(Isn[e], n)) = n + 1
<1>1. Isn[e] \in Seqs /\ Nth(e, Isn[e]) = 1
  <2> DEFINE z == Add(Isn[e], -1)
  <2>1. /\ z \in Seqs /\ Isn[e] \in Seqs /\ Nth(e, Isn[e]) = Distance(Isn[e], z)
        /\ Isn[e] = z + 1 \/ (Isn[e] = 0 /\ z = Mod - 1)
    BY Before, PeerFacts DEF Nth
  <2> HIDE DEF z
  <2>2. Distance(Isn[e], z) = IF Isn[e] >= z THEN Isn[e] - z ELSE Isn[e] - z + Mod
    BY <2>1, Distances
  <2> QED BY <2>1, <2>2, ModFacts DEF Seqs
<1> QED BY <1>1, NthAdd, n \in Int

(* Within half a turn sequence numbers compare as the packets do.          *)
LEMMA NthAfter ==
    ASSUME NEW e \in Ends, NEW a \in Seqs, NEW b \in Seqs,
           Nth(e, a) < Mod \div 2, Nth(e, b) < Mod \div 2
    PROVE  /\ Nth(e, a) \in Nat /\ Nth(e, b) \in Nat
           /\ SeqAfter(a, b) <=> Nth(e, a) > Nth(e, b)
           /\ Distance(a, b) \in Nat
           /\ Distance(a, b) < Mod \div 2 => Nth(e, a) = Nth(e, b) + Distance(a, b)
<1>1. /\ Nth(e, a) \in Seqs /\ Nth(e, b) \in Seqs
      /\ Distance(a, b) = IF Nth(e, a) >= Nth(e, b) THEN Nth(e, a) - Nth(e, b)
                          ELSE Nth(e, a) - Nth(e, b) + Mod
  BY NthDistance
<1> QED BY <1>1, ModFacts DEF SeqAfter, Seqs

-----------------------------------------------------------------------------
(* Logs that grow.                                                         *)

(* A log that goes on.                                                     *)
Extends(L, M) ==
    /\ Len(L) <= Len(M) /\ \A i \in 1..Len(L) : M[i] = L[i]
    /\ Ended(L) => M = L

(* Types and bounds of a log.                                              *)
LEMMA LogFacts ==
    ASSUME NEW e \in Ends, NEW L, LogOK(e, L)
    PROVE  /\ L \in Seq(Entry) /\ Len(L) \in Nat
           /\ \A i \in 0..Len(L) : Upto(L, i) \in Nat
           /\ \A i \in 1..Len(L) : L[i] \in Entry /\ Upto(L, i) = L[i].upto
           /\ Len(L) <= Upto(L, Len(L)) + 2
           /\ ~Ended(L) => Len(L) <= Upto(L, Len(L)) + 1
<1>1. L \in Seq(Entry) /\ Len(L) \in Nat /\ \A i \in 1..Len(L) : L[i] \in Entry
  BY DEF LogOK
<1>2. \A i \in 0..Len(L) : Upto(L, i) \in Nat
  BY <1>1 DEF Upto, Entry
<1>3. Len(L) # 0 => Len(L) \in 1..Len(L) /\ L # <<>>
  BY <1>1
<1> QED BY <1>1, <1>2, <1>3 DEF LogOK, Upto, Ended

(* What a packet carries does not change while the log grows.              *)
LEMMA LogExtends ==
    ASSUME NEW L \in Seq(Entry), NEW M \in Seq(Entry), Extends(L, M)
    PROVE  /\ \A i \in 0..Len(L) : Upto(M, i) = Upto(L, i)
           /\ \A i \in 1..Len(L) : Units(M, i) = Units(L, i)
           /\ \A e, p : Carries(e, L, p) => Carries(e, M, p)
           /\ Len(M) = Len(L) => M = L
<1>1. \A i \in 0..Len(L) : Upto(M, i) = Upto(L, i)
  BY DEF Extends, Upto
<1>2. ASSUME NEW i \in 1..Len(L) PROVE Units(M, i) = Units(L, i)
  <2>1. Upto(M, i) = Upto(L, i) /\ Upto(M, i - 1) = Upto(L, i - 1)
    BY <1>1, <1>2
  <2> QED BY <2>1 DEF Units
<1>3. ASSUME NEW e, NEW p, Carries(e, L, p) PROVE Carries(e, M, p)
  <2>1. Nth(e, p.seq) \in 1..Len(L)
    BY <1>3 DEF Carries
  <2>2. Nth(e, p.seq) \in 1..Len(M) /\ M[Nth(e, p.seq)] = L[Nth(e, p.seq)]
    BY <2>1 DEF Extends
  <2> QED BY <1>2, <1>3, <2>1, <2>2 DEF Carries
<1>4. Len(M) = Len(L) => M = L
  BY DEF Extends
<1> QED BY <1>1, <1>2, <1>3, <1>4

(* A log extends itself.                                                   *)
LEMMA LogSame == \A L : Extends(L, L)
BY DEF Extends

(* A packet of data or the FIN at the end of a log.                        *)
LEMMA LogAppend ==
    ASSUME NEW e \in Ends, NEW L, LogOK(e, L), ~Ended(L), e = "initiator" => Len(L) >= 1,
           NEW type \in {"data", "fin"}, NEW n \in 0..PacketSize, type = "data" <=> n > 0
    PROVE  LET M == Append(L, [type |-> type, upto |-> Upto(L, Len(L)) + n])
           IN  /\ LogOK(e, M) /\ Extends(L, M) /\ Len(M) = Len(L) + 1
               /\ Upto(M, Len(M)) = Upto(L, Len(L)) + n /\ M[Len(M)].type = type
               /\ Ended(M) <=> type = "fin"
<1> DEFINE x == [type |-> type, upto |-> Upto(L, Len(L)) + n]
           M == Append(L, x)
<1>1. /\ L \in Seq(Entry) /\ Len(L) \in Nat /\ \A i \in 0..Len(L) : Upto(L, i) \in Nat
      /\ Len(L) <= Upto(L, Len(L)) + 1 /\ PacketSize \in Nat /\ n \in Nat
  BY LogFacts, UtpConstants
<1>2. x \in Entry /\ x.type = type /\ x.upto = Upto(L, Len(L)) + n
  BY <1>1 DEF Entry, Kinds
<1> HIDE DEF x
<1>3. /\ M \in Seq(Entry) /\ Len(M) = Len(L) + 1 /\ M[Len(L) + 1] = x
      /\ \A i \in 1..Len(L) : M[i] = L[i] /\ M # <<>>
  BY <1>1, <1>2
<1> HIDE DEF M
<1>4. Extends(L, M)
  BY <1>1, <1>3 DEF Extends
<1>5. /\ \A i \in 0..Len(L) : Upto(M, i) = Upto(L, i)
      /\ Upto(M, Len(L) + 1) = Upto(L, Len(L)) + n
  BY <1>1, <1>2, <1>3, <1>4, LogExtends DEF Upto
<1>6. Ended(M) <=> type = "fin"
  BY <1>1, <1>2, <1>3 DEF Ended
<1>7. \A i, j \in 0..Len(L) : i <= j => Upto(L, i) <= Upto(L, j)
  BY DEF LogOK
<1>8. \A i, j \in 0..Len(M) : i <= j => Upto(M, i) <= Upto(M, j)
  <2> SUFFICES ASSUME NEW i \in 0..Len(M), NEW j \in 0..Len(M), i <= j
               PROVE  Upto(M, i) <= Upto(M, j)
    OBVIOUS
  <2>1. CASE j <= Len(L)
    BY <1>1, <1>3, <1>5, <1>7, <2>1
  <2>2. CASE j = Len(L) + 1 /\ i = Len(L) + 1
    BY <1>1, <1>3, <1>5, <2>2
  <2>3. CASE j = Len(L) + 1 /\ i <= Len(L)
    <3>1. i \in 0..Len(L) /\ Upto(L, i) <= Upto(L, Len(L)) /\ Upto(L, i) \in Nat
      BY <1>1, <1>7, <2>3
    <3> QED BY <1>1, <1>5, <2>3, <3>1
  <2> QED BY <1>1, <1>3, <2>1, <2>2, <2>3
<1>9. ASSUME NEW i \in 1..Len(M)
      PROVE  /\ Upto(M, i) - Upto(M, i - 1) <= PacketSize
             /\ M[i].type = "data" <=> Upto(M, i - 1) < Upto(M, i)
             /\ M[i].type = "syn" <=> i = 1 /\ e = "initiator"
             /\ M[i].type = "fin" => i = Len(M)
             /\ i <= Upto(M, i) + (IF M[i].type = "fin" THEN 2 ELSE 1)
  <2>1. CASE i <= Len(L)
    <3>1. /\ i \in 1..Len(L) /\ M[i] = L[i] /\ Upto(M, i) = Upto(L, i)
          /\ Upto(M, i - 1) = Upto(L, i - 1)
      BY <1>1, <1>3, <1>5, <2>1
    <3>2. L[i].type # "fin"
      <4>1. L[i].type = "fin" => i = Len(L)
        BY <3>1 DEF LogOK
      <4> QED BY <1>1, <3>1, <4>1 DEF Ended
    <3> QED BY <3>1, <3>2 DEF LogOK
  <2>2. CASE i = Len(L) + 1
    <3>1. M[i].type = type /\ Upto(M, i) = Upto(L, Len(L)) + n /\ Upto(M, i - 1) = Upto(L, Len(L))
      BY <1>1, <1>2, <1>3, <1>5, <2>2
    <3>2. type = "data" \/ (type = "fin" /\ n = 0)
      BY <1>1
    <3>3. e = "initiator" => i # 1
      BY <1>1, <2>2
    <3>4. /\ type = "data" => i <= Upto(M, i) + 1
          /\ type = "fin" => i <= Upto(M, i) + 2
      BY <1>1, <2>2, <3>1, <3>2
    <3>5. /\ Upto(M, i) - Upto(M, i - 1) <= PacketSize
          /\ type = "data" <=> Upto(M, i - 1) < Upto(M, i)
      BY <1>1, <3>1, <3>2
    <3>6. type = "syn" <=> i = 1 /\ e = "initiator"
      BY <3>2, <3>3
    <3>7. i = Len(M) /\ (i <= Upto(M, i) + (IF type = "fin" THEN 2 ELSE 1))
      BY <1>3, <2>2, <3>2, <3>4
    <3> QED BY <3>1, <3>5, <3>6, <3>7
  <2> QED BY <1>1, <1>3, <2>1, <2>2
<1>10. LogOK(e, M)
  BY <1>3, <1>8, <1>9 DEF LogOK
<1> QED BY <1>2, <1>3, <1>4, <1>5, <1>6, <1>10 DEF M, x

-----------------------------------------------------------------------------
(* What one end relies on while it works, and what its steps preserve.     *)

(* What a pass is about to send.                                           *)
OutOK(e, c) == c.out \in Seq(Datagram) /\ \A m \in Elems(c.out) : MsgOK(e, c, m)

(* All that holds of one end, given its peer.                              *)
Good(e, c, d, w, g) ==
    /\ Shape(c) /\ StateOK(e, c) /\ EarlyOK(e, c) /\ SendOK(e, c, w) /\ RecvOK(e, c, d.log, g) /\ SizeOK(c)
    /\ AckOK(e, c, d) /\ OutOK(e, c)

(* What an end has sent and what it has received never shrinks.            *)
Grows(e, c, d) ==
    /\ Extends(c.log, d.log)
    /\ Joined(e, c) => /\ Joined(e, d) /\ Nth(Peer(e), c.ackNr) <= Nth(Peer(e), d.ackNr)
                       /\ \A i \in Nat : Has(Peer(e), c, i) => Has(Peer(e), d, i)

(* Only the fields in F change.                                            *)
Same(c, d, F) == \A f \in Fields \ F : d[f] = c[f]

(* The bounds of a log.                                                    *)
LEMMA LogBound ==
    ASSUME NEW e \in Ends, NEW c, NEW w, SendOK(e, c, w)
    PROVE  /\ Len(c.log) \in Nat /\ (Short(c) => Len(c.log) < Mod \div 2)
           /\ Upto(c.log, Len(c.log)) \in Nat /\ Upto(c.log, Len(c.log)) <= Load[e]
<1>1. /\ LogOK(e, c.log) /\ w \in 0..Load[e] /\ c.sendBuf \in Seq(Nat)
      /\ Upto(c.log, Len(c.log)) + Len(c.sendBuf) <= w
  BY DEF SendOK
<1>2. Load[e] \in Nat
  BY PeerFacts
<1>3. Len(c.sendBuf) \in Nat /\ Len(c.log) \in Nat /\ Upto(c.log, Len(c.log)) \in Nat
  BY <1>1, LogFacts
<1> QED BY <1>1, <1>2, <1>3 DEF Short

(* A few packets more leave the log short.                                 *)
LEMMA FewShort ==
    ASSUME NEW e \in Ends, NEW c, NEW w, SendOK(e, c, w), NEW n \in Nat, Few(c, w, n)
    PROVE  Short(c) /\ Few(c, w, 0)
<1>1. PICK k \in Nat : /\ w - Upto(c.log, Len(c.log)) <= k * PacketSize
                       /\ Len(c.log) + k + n < Mod \div 2
  BY DEF Few
<1>2. Len(c.log) \in Nat /\ Mod \div 2 \in Int
  BY LogBound, ModFacts
<1>3. Len(c.log) < Mod \div 2 /\ Len(c.log) + k + 0 < Mod \div 2
  BY <1>1, <1>2
<1> QED BY <1>1, <1>3 DEF Short, Few

(* They depend on the log alone.                                           *)
LEMMA FewSame ==
    ASSUME NEW c, NEW b, b.log = c.log, NEW w, NEW n, Few(c, w, n)
    PROVE  Few(b, w, n)
BY DEF Few

(* The range of the numbers of packets.                                    *)
LEMMA NthRange ==
    ASSUME NEW e \in Ends, NEW s \in Seqs
    PROVE  Nth(e, s) \in Nat /\ Nth(e, s) < Mod
BY NthDistance, ModFacts DEF Seqs

(* Growing is reflexive ...                                                *)
LEMMA GrowsItself == \A e \in Ends : \A c : c.ackNr \in Seqs => Grows(e, c, c)
<1> SUFFICES ASSUME NEW e \in Ends, NEW c, c.ackNr \in Seqs PROVE Grows(e, c, c)
  OBVIOUS
<1>1. Nth(Peer(e), c.ackNr) \in Nat
  BY NthRange, PeerFacts
<1> QED BY <1>1, LogSame DEF Grows

(* ... and transitive.                                                     *)
LEMMA GrowsOn ==
    ASSUME NEW e \in Ends, NEW b, NEW c, NEW d, Grows(e, b, c), Grows(e, c, d),
           b.ackNr \in Seqs, c.ackNr \in Seqs, d.ackNr \in Seqs,
           b.log \in Seq(Entry), c.log \in Seq(Entry), d.log \in Seq(Entry)
    PROVE  Grows(e, b, d)
<1>1. /\ Nth(Peer(e), b.ackNr) \in Nat /\ Nth(Peer(e), c.ackNr) \in Nat
      /\ Nth(Peer(e), d.ackNr) \in Nat
  BY NthRange, PeerFacts
<1>2. Extends(b.log, d.log)
  <2>1. Len(b.log) \in Nat /\ Len(c.log) \in Nat /\ Len(d.log) \in Nat
    OBVIOUS
  <2> QED BY <2>1 DEF Grows, Extends
<1> QED BY <1>1, <1>2 DEF Grows

(* A datagram stays true while its sender moves on.                        *)
LEMMA MsgGrows ==
    ASSUME NEW e \in Ends, NEW c, NEW d, NEW m, MsgOK(e, c, m), Grows(e, c, d),
           c.ackNr \in Seqs, d.ackNr \in Seqs, c.log \in Seq(Entry), d.log \in Seq(Entry)
    PROVE  MsgOK(e, d, m)
<1> DEFINE p == Peer(e)
<1>1. m \in Datagram /\ m.seq \in Seqs /\ m.ack \in Seqs /\ m.sack \subseteq Nat
  BY DEF MsgOK, Datagram
<1>2. /\ Nth(p, m.ack) \in Nat /\ Nth(p, c.ackNr) \in Nat /\ Nth(p, d.ackNr) \in Nat
      /\ Nth(e, m.seq) \in Nat
  BY <1>1, NthRange, PeerFacts
<1>3. Extends(c.log, d.log) /\ Len(c.log) \in Nat /\ Len(d.log) \in Nat /\ Len(c.log) <= Len(d.log)
  BY DEF Grows, Extends
<1>4. m.type \in Kinds => Carries(e, d.log, m)
  BY <1>3, LogExtends DEF MsgOK
<1>5. m.type = "state" => Nth(e, m.seq) \in 1..(Len(d.log) + 1)
  BY <1>2, <1>3 DEF MsgOK
<1>6. ASSUME m.type \in {"data", "fin", "state"}
      PROVE  /\ Joined(e, d) /\ Nth(p, m.ack) <= Nth(p, d.ackNr)
             /\ \A b \in m.sack : Has(p, d, Nth(p, m.ack) + 2 + b)
  <2>1. /\ Joined(e, c) /\ Nth(p, m.ack) <= Nth(p, c.ackNr)
        /\ \A b \in m.sack : Has(p, c, Nth(p, m.ack) + 2 + b)
    BY <1>6 DEF MsgOK
  <2>2. /\ Joined(e, d) /\ Nth(p, c.ackNr) <= Nth(p, d.ackNr)
        /\ \A i \in Nat : Has(p, c, i) => Has(p, d, i)
    BY <2>1 DEF Grows
  <2>3. \A b \in m.sack : Nth(p, m.ack) + 2 + b \in Nat
    BY <1>1, <1>2
  <2> QED BY <1>2, <2>1, <2>2, <2>3
<1> QED BY <1>1, <1>4, <1>5, <1>6 DEF MsgOK

(* What the peer of an end relies on holds when the end moves on.          *)
LEMMA RecvGrows ==
    ASSUME NEW e \in Ends, NEW c, NEW L, NEW M, NEW g, RecvOK(e, c, L, g),
           LogOK(Peer(e), L), LogOK(Peer(e), M), Extends(L, M),
           e = "initiator" /\ ~Joined(e, c) => M = <<>>
    PROVE  RecvOK(e, c, M, g)
<1> DEFINE p == Peer(e)
           r == Nth(p, c.ackNr)
<1>1. /\ L \in Seq(Entry) /\ M \in Seq(Entry) /\ Len(L) \in Nat /\ Len(M) \in Nat
      /\ Len(L) <= Len(M) /\ (Ended(L) => M = L) /\ (Len(M) = Len(L) => M = L)
      /\ \A i \in 0..Len(L) : Upto(M, i) = Upto(L, i)
      /\ \A i \in 1..Len(L) : Units(M, i) = Units(L, i)
  BY LogExtends, LogFacts, PeerFacts DEF Extends
<1>2. Upto(L, Len(L)) <= Upto(M, Len(M)) /\ Upto(L, Len(L)) \in Nat /\ Upto(M, Len(M)) \in Nat
  <2>1. Upto(M, Len(L)) <= Upto(M, Len(M))
    BY <1>1 DEF LogOK
  <2> QED BY <1>1, <2>1, LogFacts, PeerFacts
<1>3. r \in Nat
  BY NthRange, PeerFacts DEF RecvOK
<1>4. Joined(e, c) /\ Has(p, c, Len(M)) => Len(M) <= Len(L)
  BY <1>1, <1>3 DEF RecvOK, Has
<1>5. Joined(e, c) /\ Ended(M) /\ Has(p, c, Len(M)) => c.peerFin # None
  BY <1>1, <1>4 DEF RecvOK
<1>6. Joined(e, c) =>
        /\ r \in 0..Len(M) /\ (e = "responder" => r >= 1)
        /\ \A q \in c.reorder :
              LET i == Nth(p, q.seq)
              IN  /\ q \in Buffered /\ i \in (r + 2)..Len(M)
                  /\ q.data = IF c.readerGone THEN <<>> ELSE Units(M, i)
        /\ \A q, o \in c.reorder : q.seq = o.seq => q = o
        /\ ~c.readerGone => /\ Len(g) + Len(c.recv) = Upto(M, r)
                            /\ \A k \in 1..Len(c.recv) : c.recv[k] = Len(g) + k
  BY <1>1, <1>3 DEF RecvOK
<1>7. Len(g) <= Upto(M, Len(M)) /\ (e = "responder" /\ c.held => Len(M) >= 2)
  BY <1>1, <1>2 DEF RecvOK
<1> HIDE DEF r
<1> QED BY <1>1, <1>5, <1>6, <1>7 DEF RecvOK, r

(* What has arrived stays arrived.                                         *)
LEMMA AckGrows ==
    ASSUME NEW e \in Ends, NEW c, NEW a, NEW b, AckOK(e, c, a), Grows(Peer(e), a, b),
           c.log \in Seq(Entry)
    PROVE  AckOK(e, c, b)
<1>1. \A i \in 1..Len(c.log) : i \in Nat
  OBVIOUS
<1> QED BY <1>1, PeerFacts DEF AckOK, Grows

(* After the FIN the log of the peer does not grow.                        *)
LEMMA EndGrows ==
    ASSUME NEW e \in Ends, NEW c, NEW L, NEW M, NEW g, NEW t, RecvOK(e, c, L, g),
           Extends(L, M), EndOK(e, c, L, t)
    PROVE  EndOK(e, c, M, t)
BY DEF EndOK, RecvOK, Extends

-----------------------------------------------------------------------------
(* The parts of Good depend on some fields only.                           *)

(* The sending half.                                                       *)
LEMMA SendSame ==
    ASSUME NEW e \in Ends, NEW c, NEW d, NEW w, SendOK(e, c, w), d.log = c.log,
           d.seqNr = c.seqNr, d.sendBuf = c.sendBuf, d.unacked = c.unacked, d.error = c.error
    PROVE  SendOK(e, d, w)
BY DEF SendOK

(* The receiving half.                                                     *)
LEMMA RecvSame ==
    ASSUME NEW e \in Ends, NEW c, NEW d, NEW L, NEW g, RecvOK(e, c, L, g), d.recv = c.recv,
           d.reorder = c.reorder, d.ackNr = c.ackNr, d.peerFin = c.peerFin,
           d.readerGone = c.readerGone, Joined(e, d) = Joined(e, c), d.held => c.held \/ Len(L) >= 2,
           d.eof /\ d.error = "none" => (c.peerFin # None /\ Nth(Peer(e), c.ackNr) = Len(L))
                                         \/ (d.wantFin /\ d.state = "closed")
    PROVE  RecvOK(e, d, L, g)
BY DEF RecvOK, Has

(* The sizes.                                                              *)
LEMMA SizeSame ==
    ASSUME NEW c, NEW d, SizeOK(c), d.recv = c.recv, d.reorder = c.reorder
    PROVE  SizeOK(d)
BY DEF SizeOK, ReorderBytes

(* The acknowledgements.                                                   *)
LEMMA AckSame ==
    ASSUME NEW e \in Ends, NEW c, NEW d, NEW a, AckOK(e, c, a), d.log = c.log,
           d.unacked = c.unacked, d.error = "none" => c.error = "none"
    PROVE  AckOK(e, d, a)
BY DEF AckOK

(* Growth.                                                                 *)
LEMMA GrowsSame ==
    ASSUME NEW e \in Ends, NEW c, NEW d, c.ackNr \in Seqs, Extends(c.log, d.log),
           d.ackNr = c.ackNr, d.reorder = c.reorder, Joined(e, c) => Joined(e, d)
    PROVE  Grows(e, c, d)
<1>1. Nth(Peer(e), c.ackNr) \in Nat
  BY NthRange, PeerFacts
<1> QED BY <1>1 DEF Grows, Has

(* The datagrams to send.                                                  *)
LEMMA OutSame ==
    ASSUME NEW e \in Ends, NEW c, NEW d, OutOK(e, c), Grows(e, c, d), d.out = c.out,
           c.ackNr \in Seqs, d.ackNr \in Seqs, c.log \in Seq(Entry), d.log \in Seq(Entry)
    PROVE  OutOK(e, d)
BY MsgGrows DEF OutOK

(* What most steps need of Good.                                           *)
LEMMA GoodFacts ==
    ASSUME NEW e \in Ends, NEW c, NEW d, NEW w, NEW g, Good(e, c, d, w, g)
    PROVE  c.ackNr \in Seqs /\ c.log \in Seq(Entry) /\ Shape(c)
BY DEF Good, RecvOK, SendOK, LogOK

(* The fields that no part of Good but EarlyOK depends on.                 *)
Minor == {"peerWnd", "lastAck", "dupAcks", "probe", "advertised", "needsAck", "nudge", "offered",
          "pending"}

(* Changing them keeps Good.                                               *)
LEMMA MinorChange ==
    ASSUME NEW e \in Ends, NEW c, NEW b, NEW d, NEW w, NEW g, Good(e, c, d, w, g),
           Shape(b), Same(c, b, Minor), c.state # "none", EarlyOK(e, b)
    PROVE  Good(e, b, d, w, g) /\ Grows(e, c, b)
<1>1. /\ b.state = c.state /\ b.seqNr = c.seqNr /\ b.ackNr = c.ackNr /\ b.sendBuf = c.sendBuf
      /\ b.unacked = c.unacked /\ b.recv = c.recv /\ b.reorder = c.reorder
      /\ b.wantFin = c.wantFin /\ b.peerFin = c.peerFin /\ b.eof = c.eof /\ b.error = c.error
      /\ b.lingers = c.lingers /\ b.readerGone = c.readerGone /\ b.teardown = c.teardown
      /\ b.held = c.held /\ b.out = c.out /\ b.log = c.log
  BY DEF Same, Minor, Fields
<1>2. Grows(e, c, b)
  BY <1>1, GoodFacts, GrowsSame, LogSame DEF Joined
<1>3. StateOK(e, b)
  BY <1>1 DEF Good, StateOK
<1>4. SendOK(e, b, w)
  BY <1>1, SendSame DEF Good
<1>5. RecvOK(e, b, d.log, g)
  <2>1. RecvOK(e, c, d.log, g)
    BY DEF Good
  <2>2. b.eof /\ b.error = "none" => (c.peerFin # None /\ Nth(Peer(e), c.ackNr) = Len(d.log))
                                         \/ (b.wantFin /\ b.state = "closed")
    BY <1>1, <2>1 DEF RecvOK
  <2>3. Joined(e, b) = Joined(e, c)
    BY <1>1 DEF Joined
  <2> QED BY <1>1, <2>1, <2>2, <2>3, RecvSame
<1>6. SizeOK(b)
  BY <1>1, SizeSame DEF Good
<1>7. AckOK(e, b, d)
  BY <1>1, AckSame DEF Good
<1>8. OutOK(e, b)
  BY <1>1, <1>2, GoodFacts, OutSame DEF Good
<1> QED BY <1>2, <1>3, <1>4, <1>5, <1>6, <1>7, <1>8 DEF Good

-----------------------------------------------------------------------------
(* Sending.                                                                *)

(* What an end needs to know of the log of its peer.                       *)
Ctx(e, d) == LogOK(Peer(e), d.log) /\ Len(d.log) < Mod \div 2

(* What a packet carries counts on.                                        *)
LEMMA UnitsOf ==
    ASSUME NEW e \in Ends, NEW L, LogOK(e, L), NEW i \in 1..Len(L)
    PROVE  /\ Units(L, i) \in Seq(Nat) /\ Len(Units(L, i)) = Upto(L, i) - Upto(L, i - 1)
           /\ Len(Units(L, i)) <= PacketSize
           /\ \A k \in 1..Len(Units(L, i)) : Units(L, i)[k] = Upto(L, i - 1) + k
<1>1. /\ Upto(L, i) \in Nat /\ Upto(L, i - 1) \in Nat /\ Upto(L, i - 1) <= Upto(L, i)
      /\ Upto(L, i) - Upto(L, i - 1) <= PacketSize
  <2>1. i \in 0..Len(L) /\ i - 1 \in 0..Len(L) /\ i - 1 <= i
    BY LogFacts
  <2> QED BY <2>1, LogFacts DEF LogOK
<1> DEFINE n == Upto(L, i) - Upto(L, i - 1)
           s == [k \in 1..n |-> Upto(L, i - 1) + k]
<1>2. n \in Nat /\ \A k \in 1..n : Upto(L, i - 1) + k \in Nat
  BY <1>1
<1>3. Units(L, i) = s
  BY DEF Units
<1> HIDE DEF n
<1>4. s \in Seq(Nat) /\ Len(s) = n /\ \A k \in 1..n : s[k] = Upto(L, i - 1) + k
  BY <1>2
<1> QED BY <1>1, <1>3, <1>4 DEF n

(* The pairs behind ReorderBytes are finitely many.                        *)
LEMMA FinitePairs ==
    ASSUME NEW S, IsFiniteSet(S), \A q \in S : q.data \in Seq(Nat)
    PROVE  IsFiniteSet(UNION {{q} \X DOMAIN q.data : q \in S})
<1> DEFINE F == {{q} \X DOMAIN q.data : q \in S}
           f == [q \in S |-> {q} \X DOMAIN q.data]
<1>1. IsFiniteSet(F)
  <2>1. f \in Surjection(S, F)
    BY DEF Surjection
  <2> QED BY <2>1, FS_Surjection
<1>2. \A X \in F : IsFiniteSet(X)
  <2> SUFFICES ASSUME NEW q \in S PROVE IsFiniteSet({q} \X DOMAIN q.data)
    OBVIOUS
  <2>1. IsFiniteSet({q})
    BY FS_Singleton
  <2>2. IsFiniteSet(DOMAIN q.data)
    <3>1. DOMAIN q.data = 1..Len(q.data) /\ Len(q.data) \in Nat
      OBVIOUS
    <3>2. IsFiniteSet(1..Len(q.data))
      BY <3>1, FS_Interval, 1 \in Int, Len(q.data) \in Int
    <3> QED BY <3>1, <3>2
  <2> QED BY <2>1, <2>2, FS_Product
<1> HIDE DEF F
<1>3. IsFiniteSet(UNION F)
  BY <1>1, <1>2, FS_UNION
<1> QED BY <1>3 DEF F

(* ReorderBytes and the advertised window are numbers.                     *)
LEMMA ReorderCount ==
    ASSUME NEW e \in Ends, NEW c, NEW L, NEW g, RecvOK(e, c, L, g)
    PROVE  ReorderBytes(c) \in Nat /\ AdvertisedWindow(c) \in Nat
<1>1. IsFiniteSet(c.reorder) /\ \A q \in c.reorder : q.data \in Seq(Nat)
  BY DEF RecvOK, Buffered
<1>2. ReorderBytes(c) \in Nat
  BY <1>1, FinitePairs, FS_CardinalityType DEF ReorderBytes
<1>3. Len(c.recv) \in Nat /\ RecvMax \in Nat
  BY UtpConstants DEF RecvOK
<1> QED BY <1>2, <1>3 DEF AdvertisedWindow

(* A bit of the selective acknowledgement stands for a packet that is      *)
(* kept.                                                                   *)
LEMMA SackTrue ==
    ASSUME NEW e \in Ends, NEW c, NEW d, NEW g, RecvOK(e, c, d.log, g), Ctx(e, d),
           NEW b \in SelectiveAck(c)
    PROVE  b \in Nat /\ \E q \in c.reorder : Nth(Peer(e), q.seq) = Nth(Peer(e), c.ackNr) + 2 + b
<1> DEFINE p == Peer(e)
           r == Nth(p, c.ackNr)
<1>1. PICK q \in c.reorder : b = Distance(q.seq, Add(c.ackNr, 2))
  BY DEF SelectiveAck
<1>2. Joined(e, c)
  BY <1>1 DEF RecvOK
<1>3. /\ q \in Buffered /\ q.seq \in Seqs /\ Nth(p, q.seq) \in (r + 2)..Len(d.log)
      /\ c.ackNr \in Seqs /\ r \in Nat /\ p \in Ends
  BY <1>2, PeerFacts, NthRange DEF RecvOK, Buffered
<1>4. Len(d.log) \in Nat /\ Len(d.log) < Mod \div 2
  BY <1>3, LogFacts DEF Ctx
<1>5. r + 2 \in Seqs /\ 2 \in Int
  BY <1>3, <1>4, ModFacts DEF Seqs
<1>6. Add(c.ackNr, 2) \in Seqs /\ Nth(p, Add(c.ackNr, 2)) = r + 2
  BY <1>3, <1>5, NthAdd
<1>7. Distance(q.seq, Add(c.ackNr, 2)) = Nth(p, q.seq) - (r + 2)
  BY <1>3, <1>6, NthDistance
<1> QED BY <1>1, <1>3, <1>7

(* A datagram that an end encodes is true.                                 *)
LEMMA Encoded ==
    ASSUME NEW e \in Ends, NEW c, NEW d, NEW b, NEW g, RecvOK(e, c, d.log, g), Ctx(e, d),
           b.ackNr = c.ackNr, b.reorder = c.reorder,
           NEW type \in Kinds \cup {"state", "reset"}, NEW seq \in Seqs, NEW data \in Seq(Nat),
           type \in Kinds => /\ Nth(e, seq) \in 1..Len(b.log) /\ type = b.log[Nth(e, seq)].type
                             /\ data = Units(b.log, Nth(e, seq)),
           type = "state" => Nth(e, seq) \in 1..(Len(b.log) + 1),
           type \in {"data", "fin", "state"} => Joined(e, b)
    PROVE  MsgOK(e, b, Encode(c, type, seq, data))
<1> DEFINE p == Peer(e)
           m == [type |-> type, seq |-> seq, data |-> data, ack |-> c.ackNr,
                 wnd |-> AdvertisedWindow(c), sack |-> SelectiveAck(c)]
<1>1. /\ m.type = type /\ m.seq = seq /\ m.data = data /\ m.ack = c.ackNr
      /\ m.sack = SelectiveAck(c) /\ Encode(c, type, seq, data) = m
  BY DEF Encode
<1>2. /\ c.ackNr \in Seqs /\ AdvertisedWindow(c) \in Nat /\ SelectiveAck(c) \in SUBSET Nat
      /\ Nth(p, c.ackNr) \in Nat
  BY ReorderCount, SackTrue, NthRange, PeerFacts DEF RecvOK
<1>3. m \in Datagram
  BY <1>2 DEF Datagram
<1> HIDE DEF m
<1>4. m.type \in Kinds => Carries(e, b.log, m)
  BY <1>1 DEF Carries
<1>5. \A k \in m.sack : Has(p, b, Nth(p, m.ack) + 2 + k)
  <2> SUFFICES ASSUME NEW k \in SelectiveAck(c) PROVE Has(p, b, Nth(p, c.ackNr) + 2 + k)
    BY <1>1
  <2>1. \E q \in c.reorder : Nth(p, q.seq) = Nth(p, c.ackNr) + 2 + k
    BY SackTrue
  <2> QED BY <2>1 DEF Has
<1> QED BY <1>1, <1>2, <1>3, <1>4, <1>5 DEF MsgOK

(* One datagram more to send.                                              *)
LEMMA OutAppend ==
    ASSUME NEW e \in Ends, NEW c, NEW b, NEW m, OutOK(e, c), Grows(e, c, b), MsgOK(e, b, m),
           b.out = Append(c.out, m),
           c.ackNr \in Seqs, b.ackNr \in Seqs, c.log \in Seq(Entry), b.log \in Seq(Entry)
    PROVE  OutOK(e, b)
<1>1. c.out \in Seq(Datagram) /\ m \in Datagram
  BY DEF OutOK, MsgOK
<1>2. b.out \in Seq(Datagram) /\ Elems(b.out) = Elems(c.out) \cup {m}
  BY <1>1, Appended
<1> QED BY <1>2, MsgGrows DEF OutOK

(* The units of Push, TransmitNew and Retransmit.                          *)
LEMMA PushFields ==
    ASSUME NEW c, Shape(c), NEW type, NEW seq, NEW data
    PROVE  LET b == Push(c, type, seq, data)
           IN  /\ Shape(b) /\ Same(c, b, {"out", "advertised"})
               /\ b.out = Append(c.out, Encode(c, type, seq, data))
BY DEF Push, Shape, Same, Fields

(* The fields after Sent ...                                               *)
LEMMA SentFields ==
    ASSUME NEW c, Shape(c)
    PROVE  /\ Shape(Sent(c)) /\ Same(c, Sent(c), {"probe", "needsAck"})
           /\ Sent(c).probe = IF c.probe = "due" THEN "none" ELSE c.probe
           /\ Sent(c).needsAck = FALSE
BY DEF Sent, Shape, Same, Fields

(* ... after Retransmit ...                                                *)
LEMMA RetransmitFields ==
    ASSUME NEW c, Shape(c), NEW i
    PROVE  LET b == Retransmit(c, i)
               p == c.unacked[i]
           IN  /\ Shape(b) /\ Same(c, b, {"out", "advertised", "probe", "needsAck", "unacked"})
               /\ b.out = Append(c.out, Encode(c, p.type, p.seq, p.data))
               /\ b.unacked = [c.unacked EXCEPT ![i] = [p EXCEPT !.tx = @ + 1, !.resend = FALSE]]
               /\ b.probe = IF c.probe = "due" THEN "none" ELSE c.probe
               /\ b.needsAck = FALSE
<1> DEFINE p == c.unacked[i]
           q == [p EXCEPT !.tx = @ + 1, !.resend = FALSE]
           a == Push(c, p.type, p.seq, p.data)
           u == [a EXCEPT !.unacked = [@ EXCEPT ![i] = q]]
<1>1. /\ Shape(a) /\ Same(c, a, {"out", "advertised"})
      /\ a.out = Append(c.out, Encode(c, p.type, p.seq, p.data))
  BY PushFields
<1> HIDE DEF a, q
<1>2. a.unacked = c.unacked /\ a.probe = c.probe
  BY <1>1 DEF Same, Fields
<1>3. /\ Shape(u) /\ Same(a, u, {"unacked"}) /\ u.unacked = [a.unacked EXCEPT ![i] = q]
  BY <1>1 DEF Shape, Same, Fields
<1> HIDE DEF u
<1>4. u.out = a.out /\ u.probe = a.probe
  BY <1>3 DEF Same, Fields
<1>5. /\ Shape(Sent(u)) /\ Same(u, Sent(u), {"probe", "needsAck"})
      /\ Sent(u).probe = IF u.probe = "due" THEN "none" ELSE u.probe
      /\ Sent(u).needsAck = FALSE
  BY <1>3, SentFields
<1>6. Sent(u).out = u.out /\ Sent(u).unacked = u.unacked
  BY <1>5 DEF Same, Fields
<1>7. Same(c, Sent(u), {"out", "advertised", "probe", "needsAck", "unacked"})
  BY <1>1, <1>3, <1>5 DEF Same
<1>8. Retransmit(c, i) = Sent(u)
  BY DEF Retransmit, u, a, q
<1> QED BY <1>1, <1>2, <1>3, <1>4, <1>5, <1>6, <1>7, <1>8 DEF q

(* ... and after TransmitNew.                                              *)
LEMMA TransmitFields ==
    ASSUME NEW c, Shape(c), NEW type, NEW data
    PROVE  LET b == TransmitNew(c, type, data)
               p == [type |-> type, seq |-> c.seqNr, data |-> data, tx |-> 1, resend |-> FALSE,
                     fast |-> FALSE]
           IN  /\ Shape(b)
               /\ Same(c, b, {"out", "advertised", "probe", "needsAck", "unacked", "seqNr", "log"})
               /\ b.out = Append(c.out, Encode(c, type, c.seqNr, data))
               /\ b.unacked = Append(c.unacked, p) /\ b.seqNr = Add(c.seqNr, 1)
               /\ b.log = Append(c.log, [type |-> type, upto |-> Upto(c.log, Len(c.log)) + Len(data)])
               /\ b.probe = IF c.probe = "due" THEN "none" ELSE c.probe
<1> DEFINE p == [type |-> type, seq |-> c.seqNr, data |-> data, tx |-> 1, resend |-> FALSE,
                 fast |-> FALSE]
           s == [type |-> type, upto |-> Upto(c.log, Len(c.log)) + Len(data)]
           a == Push(c, type, c.seqNr, data)
           u == [a EXCEPT !.seqNr = Add(@, 1), !.unacked = Append(@, p), !.log = Append(@, s)]
<1>1. /\ Shape(a) /\ Same(c, a, {"out", "advertised"})
      /\ a.out = Append(c.out, Encode(c, type, c.seqNr, data))
  BY PushFields
<1> HIDE DEF a, p, s
<1>2. a.unacked = c.unacked /\ a.probe = c.probe /\ a.seqNr = c.seqNr /\ a.log = c.log
  BY <1>1 DEF Same, Fields
<1>3. /\ Shape(u) /\ Same(a, u, {"unacked", "seqNr", "log"})
      /\ u.unacked = Append(a.unacked, p) /\ u.seqNr = Add(a.seqNr, 1) /\ u.log = Append(a.log, s)
  BY <1>1 DEF Shape, Same, Fields
<1> HIDE DEF u
<1>4. u.out = a.out /\ u.probe = a.probe
  BY <1>3 DEF Same, Fields
<1>5. /\ Shape(Sent(u)) /\ Same(u, Sent(u), {"probe", "needsAck"})
      /\ Sent(u).probe = IF u.probe = "due" THEN "none" ELSE u.probe
  BY <1>3, SentFields
<1>6. Sent(u).out = u.out /\ Sent(u).unacked = u.unacked /\ Sent(u).seqNr = u.seqNr
      /\ Sent(u).log = u.log
  BY <1>5 DEF Same, Fields
<1>7. Same(c, Sent(u), {"out", "advertised", "probe", "needsAck", "unacked", "seqNr", "log"})
  BY <1>1, <1>3, <1>5 DEF Same
<1>8. TransmitNew(c, type, data) = Sent(u)
  BY DEF TransmitNew, u, a, p, s
<1> QED BY <1>1, <1>2, <1>3, <1>4, <1>5, <1>6, <1>7, <1>8 DEF p, s

(* Changing only the counters of unacknowledged packets keeps Good.        *)
LEMMA Repacked ==
    ASSUME NEW e \in Ends, NEW c, NEW b, NEW d, NEW w, NEW g, Good(e, c, d, w, g),
           c.state # "none", Shape(b), Same(c, b, Minor \cup {"unacked", "out"}), EarlyOK(e, b),
           b.unacked \in Seq(Packet), Len(b.unacked) = Len(c.unacked),
           \A k \in 1..Len(c.unacked) : /\ b.unacked[k].seq = c.unacked[k].seq
                                        /\ b.unacked[k].type = c.unacked[k].type
                                        /\ b.unacked[k].data = c.unacked[k].data,
           b.out = c.out \/ \E m : b.out = Append(c.out, m) /\ MsgOK(e, b, m)
    PROVE  Good(e, b, d, w, g) /\ Grows(e, c, b)
<1>1. /\ b.state = c.state /\ b.seqNr = c.seqNr /\ b.ackNr = c.ackNr /\ b.sendBuf = c.sendBuf
      /\ b.recv = c.recv /\ b.reorder = c.reorder
      /\ b.wantFin = c.wantFin /\ b.peerFin = c.peerFin /\ b.eof = c.eof /\ b.error = c.error
      /\ b.lingers = c.lingers /\ b.readerGone = c.readerGone /\ b.teardown = c.teardown
      /\ b.held = c.held /\ b.log = c.log
  BY DEF Same, Minor, Fields
<1>2. Grows(e, c, b)
  BY <1>1, GoodFacts, GrowsSame, LogSame DEF Joined
<1>0. c.unacked \in Seq(Packet) /\ (b.unacked = <<>> <=> c.unacked = <<>>)
  <2>1. c.unacked \in Seq(Packet)
    BY DEF Good, SendOK
  <2> QED BY <2>1
<1>3. StateOK(e, b)
  BY <1>0, <1>1 DEF Good, StateOK
<1>4. SendOK(e, b, w)
  <2>1. SendOK(e, c, w)
    BY DEF Good
  <2> QED BY <1>1, <2>1 DEF SendOK, Carries
<1>5. RecvOK(e, b, d.log, g)
  <2>1. RecvOK(e, c, d.log, g)
    BY DEF Good
  <2>2. b.eof /\ b.error = "none" => (c.peerFin # None /\ Nth(Peer(e), c.ackNr) = Len(d.log))
                                         \/ (b.wantFin /\ b.state = "closed")
    BY <1>1, <2>1 DEF RecvOK
  <2>3. Joined(e, b) = Joined(e, c)
    BY <1>1 DEF Joined
  <2> QED BY <1>1, <2>1, <2>2, <2>3, RecvSame
<1>6. SizeOK(b)
  BY <1>1, SizeSame DEF Good
<1>7. AckOK(e, b, d)
  <2>1. AckOK(e, c, d)
    BY DEF Good
  <2> QED BY <1>1, <2>1 DEF AckOK
<1>8. OutOK(e, b)
  <2>1. c.ackNr \in Seqs /\ b.ackNr \in Seqs /\ c.log \in Seq(Entry) /\ b.log \in Seq(Entry)
        /\ OutOK(e, c)
    BY <1>1, GoodFacts DEF Good
  <2>2. CASE b.out = c.out
    BY <1>2, <2>1, <2>2, OutSame
  <2>3. CASE \E m : b.out = Append(c.out, m) /\ MsgOK(e, b, m)
    BY <1>2, <2>1, <2>3, OutAppend
  <2> QED BY <2>2, <2>3
<1> QED BY <1>2, <1>3, <1>4, <1>5, <1>6, <1>7, <1>8 DEF Good

(* The fields that sending changes.                                        *)
Sending == {"out", "advertised", "probe", "needsAck", "unacked", "seqNr", "log", "sendBuf"}

(* A packet that was sent again.                                           *)
LEMMA PacketSent ==
    ASSUME NEW p \in Packet
    PROVE  LET q == [p EXCEPT !.tx = @ + 1, !.resend = FALSE]
           IN  /\ q \in Packet /\ q.seq = p.seq /\ q.type = p.type /\ q.data = p.data
               /\ q.resend = FALSE
<1> DEFINE q == [p EXCEPT !.tx = @ + 1, !.resend = FALSE]
<1>1. /\ p.type \in Kinds /\ p.seq \in Seqs /\ p.data \in Seq(Nat) /\ p.tx \in Nat
      /\ p.fast \in BOOLEAN /\ p.tx + 1 \in Nat
  BY DEF Packet
<1>2. q = [type |-> p.type, seq |-> p.seq, data |-> p.data, tx |-> p.tx + 1,
           resend |-> FALSE, fast |-> p.fast]
  <2>1. p = [type |-> p.type, seq |-> p.seq, data |-> p.data, tx |-> p.tx,
             resend |-> p.resend, fast |-> p.fast]
    BY DEF Packet
  <2>2. DOMAIN p = {"type", "seq", "data", "tx", "resend", "fast"}
    BY <2>1
  <2>3. DOMAIN q = {"type", "seq", "data", "tx", "resend", "fast"}
    BY <2>2
  <2>4. q.type = p.type /\ q.seq = p.seq /\ q.data = p.data /\ q.tx = p.tx + 1
    BY <2>2
  <2>5. q.resend = FALSE /\ q.fast = p.fast
    BY <2>2, Zenon
  <2>6. q = [f \in DOMAIN q |-> q[f]]
    BY Zenon
  <2> HIDE DEF q
  <2> QED BY <2>3, <2>4, <2>5, <2>6, Zenon
<1> HIDE DEF q
<1>3. q \in Packet
  BY <1>1, <1>2, Zenon DEF Packet
<1>4. q.seq = p.seq /\ q.type = p.type /\ q.data = p.data /\ q.resend = FALSE
  BY <1>2
<1> QED BY <1>3, <1>4 DEF q

(* Retransmit keeps Good.                                                  *)
LEMMA RetransmitKeeps ==
    ASSUME NEW e \in Ends, NEW c, NEW d, NEW w, NEW g, Good(e, c, d, w, g), Ctx(e, d),
           c.state # "none", NEW i \in 1..Len(c.unacked)
    PROVE  LET b == Retransmit(c, i)
           IN  /\ Good(e, b, d, w, g) /\ Grows(e, c, b) /\ Same(c, b, Sending)
               /\ Len(b.unacked) = Len(c.unacked) /\ b.probe # "due"
               /\ b.sendBuf = c.sendBuf /\ b.log = c.log
               /\ \A k \in 1..Len(c.unacked) \ {i} : b.unacked[k] = c.unacked[k]
               /\ ~b.unacked[i].resend /\ b.unacked[i].data = c.unacked[i].data
<1> DEFINE b == Retransmit(c, i)
           p == c.unacked[i]
           q == [p EXCEPT !.tx = @ + 1, !.resend = FALSE]
<1>0. c.unacked \in Seq(Packet) /\ p \in Packet /\ Carries(e, c.log, p) /\ Shape(c)
      /\ RecvOK(e, c, d.log, g) /\ StateOK(e, c) /\ LogOK(e, c.log)
  <2>1. SendOK(e, c, w) /\ Shape(c) /\ RecvOK(e, c, d.log, g) /\ StateOK(e, c)
    BY DEF Good
  <2>2. c.unacked \in Seq(Packet) /\ Carries(e, c.log, p) /\ LogOK(e, c.log)
    BY <2>1 DEF SendOK
  <2> QED BY <2>1, <2>2
<1>1. /\ Shape(b) /\ Same(c, b, {"out", "advertised", "probe", "needsAck", "unacked"})
      /\ b.out = Append(c.out, Encode(c, p.type, p.seq, p.data))
      /\ b.unacked = [c.unacked EXCEPT ![i] = q]
      /\ b.probe = IF c.probe = "due" THEN "none" ELSE c.probe
      /\ b.needsAck = FALSE
  BY <1>0, RetransmitFields
<1> HIDE DEF b
<1>2. /\ q \in Packet /\ q.seq = p.seq /\ q.type = p.type /\ q.data = p.data
      /\ q.resend = FALSE
  BY <1>0, PacketSent
<1> HIDE DEF q
<1>3. /\ b.unacked \in Seq(Packet) /\ Len(b.unacked) = Len(c.unacked) /\ b.unacked[i] = q
      /\ \A k \in 1..Len(c.unacked) \ {i} : b.unacked[k] = c.unacked[k]
  BY <1>0, <1>1, <1>2
<1>4. \A k \in 1..Len(c.unacked) : /\ b.unacked[k].seq = c.unacked[k].seq
                                   /\ b.unacked[k].type = c.unacked[k].type
                                   /\ b.unacked[k].data = c.unacked[k].data
  BY <1>2, <1>3
<1>5. /\ b.ackNr = c.ackNr /\ b.reorder = c.reorder /\ b.held = c.held /\ b.state = c.state
      /\ b.log = c.log /\ b.sendBuf = c.sendBuf
  BY <1>1 DEF Same, Fields
<1>6. p.type \in {"data", "fin"} => Joined(e, b)
  <2>1. CASE e = "initiator"
    <3>1. p.type # "syn" => Nth(e, p.seq) # 1 /\ Nth(e, p.seq) \in 1..Len(c.log)
      BY <1>0, <2>1 DEF Carries, LogOK
    <3>2. p.type # "syn" => Len(c.log) > 1
      BY <1>0, <3>1, LogFacts
    <3> QED BY <1>0, <1>5, <2>1, <3>2 DEF Joined, StateOK
  <2>2. CASE e # "initiator"
    BY <1>5, <2>2 DEF Joined
  <2> QED BY <2>1, <2>2
<1>7. MsgOK(e, b, Encode(c, p.type, p.seq, p.data))
  <2>1. p.type \in Kinds /\ p.seq \in Seqs /\ p.data \in Seq(Nat)
    BY <1>0 DEF Packet
  <2>2. /\ Nth(e, p.seq) \in 1..Len(b.log) /\ p.type = b.log[Nth(e, p.seq)].type
        /\ p.data = Units(b.log, Nth(e, p.seq))
    BY <1>0, <1>5 DEF Carries
  <2>3. p.type # "state"
    BY <2>1 DEF Kinds
  <2> QED BY <1>0, <1>5, <1>6, <2>1, <2>2, <2>3, Encoded DEF Ctx
<1>8. Same(c, b, Minor \cup {"unacked", "out"})
  BY <1>1 DEF Same, Minor
<1>11. EarlyOK(e, b)
  <2>1. /\ EarlyOK(e, c) /\ b.needsAck = FALSE /\ b.nudge = c.nudge /\ b.offered = c.offered
        /\ b.peerWnd = c.peerWnd
    BY <1>1 DEF Good, Same, Fields
  <2> QED BY <1>1, <1>5, <2>1 DEF EarlyOK, Probes
<1>9. Good(e, b, d, w, g) /\ Grows(e, c, b)
  BY <1>1, <1>3, <1>4, <1>7, <1>8, <1>11, Repacked
<1>10. Same(c, b, Sending)
  BY <1>1 DEF Same, Sending
<1> QED BY <1>1, <1>2, <1>3, <1>5, <1>9, <1>10 DEF b

(* Several steps of one end.                                               *)
Keeps(e, c, b, d, w, g) ==
    Good(e, b, d, w, g) /\ Grows(e, c, b) /\ Same(c, b, Sending) /\ (b = c \/ b.probe # "due")

(* One after the other.                                                    *)
LEMMA KeptOn ==
    ASSUME NEW e \in Ends, NEW a, NEW b, NEW c, NEW d, NEW w, NEW g, Good(e, a, d, w, g),
           Keeps(e, a, b, d, w, g), Keeps(e, b, c, d, w, g)
    PROVE  Keeps(e, a, c, d, w, g)
<1>1. Grows(e, a, c)
  BY GoodFacts, GrowsOn DEF Keeps
<1>2. Same(a, c, Sending)
  BY DEF Keeps, Same
<1> QED BY <1>1, <1>2 DEF Keeps

(* No step at all.                                                         *)
LEMMA KeptItself ==
    ASSUME NEW e \in Ends, NEW c, NEW d, NEW w, NEW g, Good(e, c, d, w, g)
    PROVE  Keeps(e, c, c, d, w, g)
BY GoodFacts, GrowsItself DEF Keeps, Same

(* One turn of the loop that sends again.                                  *)
LEMMA ResendOneKeeps ==
    ASSUME NEW e \in Ends, NEW c, NEW d, NEW w, NEW g, Good(e, c, d, w, g), Ctx(e, d),
           c.state # "none", NEW cwnd
    PROVE  LET b == ResendOne(c, cwnd)
           IN  /\ Keeps(e, c, b, d, w, g) /\ b.sendBuf = c.sendBuf /\ b.log = c.log
               /\ Len(b.unacked) = Len(c.unacked)
<1> DEFINE due == {i \in DOMAIN c.unacked : c.unacked[i].resend}
           i == CHOOSE k \in due : \A j \in due : k <= j
<1>1. CASE ResendOne(c, cwnd) = c
  BY <1>1, KeptItself
<1>2. CASE due # {} /\ ResendOne(c, cwnd) = Retransmit(c, i)
  <2>1. c.unacked \in Seq(Packet)
    BY DEF Good, SendOK
  <2>2. due \in SUBSET Nat /\ due \subseteq 1..Len(c.unacked)
    BY <2>1
  <2>3. i \in due
    <3> HIDE DEF due
    <3>1. \E k \in due : \A j \in due : k <= j
      BY <1>2, <2>2, LeastElement
    <3> QED BY <3>1
  <2>4. i \in 1..Len(c.unacked)
    BY <2>2, <2>3
  <2> HIDE DEF i
  <2> QED BY <1>2, <2>4, RetransmitKeeps DEF Keeps
<1> QED BY <1>1, <1>2 DEF ResendOne

(* The recursion of Resent is well founded: the function it describes      *)
(* exists.                                                                 *)
LEMMA ResentStep ==
    ASSUME NEW c, NEW cwnd, Len(c.unacked) \in Nat
    PROVE  /\ Resent(c, cwnd)[0] = c
           /\ \A n \in 1..Len(c.unacked) :
                Resent(c, cwnd)[n] = ResendOne(Resent(c, cwnd)[n - 1], cwnd)
<1> DEFINE Body(f, n) == [i \in 0..n |-> IF i = 0 THEN c ELSE ResendOne(f[i - 1], cwnd)]
           G == {n \in Nat : \E f : f = Body(f, n)}
           N == Len(c.unacked)
<1>1. 0 \in G
  <2>1. [i \in 0..0 |-> c] = Body([i \in 0..0 |-> c], 0)
    OBVIOUS
  <2> QED BY <2>1
<1>2. ASSUME NEW n \in 1..N, n - 1 \in G PROVE n \in G
  <2>1. PICK f : f = Body(f, n - 1)
    BY <1>2
  <2> DEFINE h == [i \in 0..n |-> IF i = n THEN ResendOne(f[n - 1], cwnd) ELSE f[i]]
  <2>2. \A i \in 0..n : h[i] = IF i = 0 THEN c ELSE ResendOne(h[i - 1], cwnd)
    <3> SUFFICES ASSUME NEW i \in 0..n
                 PROVE  h[i] = IF i = 0 THEN c ELSE ResendOne(h[i - 1], cwnd)
      OBVIOUS
    <3>1. i # 0 => h[i - 1] = f[i - 1]
      OBVIOUS
    <3>2. CASE i = n
      BY <3>1, <3>2
    <3>3. CASE i # n
      <4>1. h[i] = f[i] /\ i \in 0..(n - 1)
        BY <3>3
      <4>2. f[i] = Body(f, n - 1)[i]
        BY <2>1
      <4> QED BY <3>1, <4>1, <4>2
    <3> QED BY <3>2, <3>3
  <2>3. h = Body(h, n)
    BY <2>2
  <2>4. \E k : k = Body(k, n)
    <3> HIDE DEF h, Body
    <3> QED BY <2>3
  <2> QED BY <2>4
<1>3. N \in G
  <2>1. G \in SUBSET Nat /\ N \in Nat
    OBVIOUS
  <2> HIDE DEF G, N
  <2>2. \A i \in 0..N : i \in G
    BY <1>1, <1>2, <2>1, Induct
  <2> QED BY <2>1, <2>2
<1>4. PICK f : f = Body(f, N)
  BY <1>3
<1>5. Resent(c, cwnd) = Body(Resent(c, cwnd), N)
  BY <1>4 DEF Resent
<1> DEFINE r == Resent(c, cwnd)
<1> HIDE DEF r
<1>6. \A i \in 0..N : r[i] = Body(r, N)[i]
  BY <1>5 DEF r
<1>7. N \in Nat
  OBVIOUS
<1> HIDE DEF N
<1>8. r[0] = c
  BY <1>6, <1>7
<1>9. \A n \in 1..N : r[n] = ResendOne(r[n - 1], cwnd)
  BY <1>6, <1>7
<1> QED BY <1>8, <1>9 DEF r, N

(* So is that of Filled.                                                   *)
LEMMA FilledStep ==
    ASSUME NEW c, NEW cwnd, Len(c.sendBuf) \in Nat
    PROVE  /\ Filled(c, cwnd)[0] = c
           /\ \A n \in 1..Len(c.sendBuf) :
                Filled(c, cwnd)[n] = SendOne(Filled(c, cwnd)[n - 1], cwnd)
<1> DEFINE Body(f, n) == [i \in 0..n |-> IF i = 0 THEN c ELSE SendOne(f[i - 1], cwnd)]
           G == {n \in Nat : \E f : f = Body(f, n)}
           N == Len(c.sendBuf)
<1>1. 0 \in G
  <2>1. [i \in 0..0 |-> c] = Body([i \in 0..0 |-> c], 0)
    OBVIOUS
  <2> QED BY <2>1
<1>2. ASSUME NEW n \in 1..N, n - 1 \in G PROVE n \in G
  <2>1. PICK f : f = Body(f, n - 1)
    BY <1>2
  <2> DEFINE h == [i \in 0..n |-> IF i = n THEN SendOne(f[n - 1], cwnd) ELSE f[i]]
  <2>2. \A i \in 0..n : h[i] = IF i = 0 THEN c ELSE SendOne(h[i - 1], cwnd)
    <3> SUFFICES ASSUME NEW i \in 0..n
                 PROVE  h[i] = IF i = 0 THEN c ELSE SendOne(h[i - 1], cwnd)
      OBVIOUS
    <3>1. i # 0 => h[i - 1] = f[i - 1]
      OBVIOUS
    <3>2. CASE i = n
      BY <3>1, <3>2
    <3>3. CASE i # n
      <4>1. h[i] = f[i] /\ i \in 0..(n - 1)
        BY <3>3
      <4>2. f[i] = Body(f, n - 1)[i]
        BY <2>1
      <4> QED BY <3>1, <4>1, <4>2
    <3> QED BY <3>2, <3>3
  <2>3. h = Body(h, n)
    BY <2>2
  <2>4. \E k : k = Body(k, n)
    <3> HIDE DEF h, Body
    <3> QED BY <2>3
  <2> QED BY <2>4
<1>3. N \in G
  <2>1. G \in SUBSET Nat /\ N \in Nat
    OBVIOUS
  <2> HIDE DEF G, N
  <2>2. \A i \in 0..N : i \in G
    BY <1>1, <1>2, <2>1, Induct
  <2> QED BY <2>1, <2>2
<1>4. PICK f : f = Body(f, N)
  BY <1>3
<1>5. Filled(c, cwnd) = Body(Filled(c, cwnd), N)
  BY <1>4 DEF Filled
<1> DEFINE r == Filled(c, cwnd)
<1> HIDE DEF r
<1>6. \A i \in 0..N : r[i] = Body(r, N)[i]
  BY <1>5 DEF r
<1>7. N \in Nat
  OBVIOUS
<1> HIDE DEF N
<1>8. r[0] = c
  BY <1>6, <1>7
<1>9. \A n \in 1..N : r[n] = SendOne(r[n - 1], cwnd)
  BY <1>6, <1>7
<1> QED BY <1>8, <1>9 DEF r, N

(* The state of an end after a run of steps that cannot be told apart      *)
(* from one step.                                                          *)
LEMMA ResentKeeps ==
    ASSUME NEW e \in Ends, NEW c, NEW d, NEW w, NEW g, Good(e, c, d, w, g), Ctx(e, d),
           c.state # "none", NEW cwnd
    PROVE  LET b == Resent(c, cwnd)[Len(c.unacked)]
           IN  Keeps(e, c, b, d, w, g) /\ b.sendBuf = c.sendBuf /\ b.log = c.log
<1> DEFINE N == Len(c.unacked)
           R(n) == Resent(c, cwnd)[n]
           G == {n \in Nat : n <= N => /\ Keeps(e, c, R(n), d, w, g)
                                       /\ R(n).sendBuf = c.sendBuf /\ R(n).log = c.log}
<1>1. N \in Nat
  BY DEF Good, SendOK
<1>2. R(0) = c /\ \A n \in 1..N : R(n) = ResendOne(R(n - 1), cwnd)
  BY <1>1, ResentStep
<1> HIDE DEF R
<1>3. 0 \in G
  BY <1>2, KeptItself
<1>4. ASSUME NEW n \in 1..N, n - 1 \in G PROVE n \in G
  <2>1. /\ Keeps(e, c, R(n - 1), d, w, g) /\ R(n - 1).sendBuf = c.sendBuf
        /\ R(n - 1).log = c.log
    BY <1>1, <1>4
  <2>2. Good(e, R(n - 1), d, w, g) /\ R(n - 1).state # "none"
    BY <2>1 DEF Keeps, Same, Sending, Fields
  <2>3. /\ Keeps(e, R(n - 1), R(n), d, w, g) /\ R(n).sendBuf = R(n - 1).sendBuf
        /\ R(n).log = R(n - 1).log
    BY <1>2, <2>2, ResendOneKeeps
  <2>4. Keeps(e, c, R(n), d, w, g)
    BY <2>1, <2>3, KeptOn
  <2> QED BY <1>1, <2>1, <2>3, <2>4
<1>5. \A n \in 0..N : n \in G
  <2> HIDE DEF G
  <2>1. G \in SUBSET Nat
    BY DEF G
  <2> QED BY <1>1, <1>3, <1>4, <2>1, Induct
<1>6. N \in G
  BY <1>1, <1>5
<1> QED BY <1>1, <1>6 DEF R

(* The rest of a buffer.                                                   *)
LEMMA Remainder ==
    ASSUME NEW s \in Seq(Nat), NEW n \in 0..Len(s)
    PROVE  LET t == SubSeq(s, n + 1, Len(s))
           IN  /\ t \in Seq(Nat) /\ Len(t) = Len(s) - n
               /\ \A k \in 1..Len(t) : t[k] = s[n + k]
<1> DEFINE a == SubSeq(s, 1, n)
           t == SubSeq(s, n + 1, Len(s))
<1>1. a \in Seq(Nat) /\ t \in Seq(Nat) /\ CutAt(s, n, a, t)
  BY CutInTwo
<1> HIDE DEF a, t
<1>2. s = a \o t /\ Len(a) = n /\ Len(t) = Len(s) - n
  BY <1>1 DEF CutAt
<1>3. \A k \in 1..Len(t) : (a \o t)[Len(a) + k] = t[k]
  BY <1>1, Concatenated
<1>4. \A k \in 1..Len(t) : t[k] = s[n + k]
  BY <1>2, <1>3
<1> QED BY <1>1, <1>2, <1>4 DEF t

(* The next sequence number.                                               *)
LEMMA NextSeq ==
    ASSUME NEW e \in Ends, NEW n \in Nat, n + 1 < Mod
    PROVE  Add(Add(Isn[e], n), 1) = Add(Isn[e], n + 1)
<1>1. Isn[e] \in Seqs
  BY PeerFacts
<1> DEFINE i == Isn[e]
<1> HIDE DEF i
<1>2. i \in Seqs /\ i \in Nat /\ i < Mod
  BY <1>1, ModFacts DEF i, Seqs
<1>3. CASE i + n < Mod
  <2>1. (i + n) % Mod = i + n
    BY <1>2, <1>3, Turns, ModFacts DEF Seqs
  <2> QED BY <1>2, <2>1 DEF Add, i
<1>4. CASE i + n >= Mod
  <2>1. (i + n) % Mod = i + n - Mod
    BY <1>2, <1>4, Turns, ModFacts DEF Seqs
  <2>2. (i + n - Mod + 1) % Mod = i + n - Mod + 1
    BY <1>2, <1>4, Turns, ModFacts DEF Seqs
  <2>3. (i + n + 1) % Mod = i + n + 1 - Mod
    BY <1>2, <1>4, Turns, ModFacts DEF Seqs
  <2>4. i + (n + 1) = i + n + 1 /\ i + n - Mod + 1 = i + n + 1 - Mod
    BY <1>2, ModFacts
  <2> QED BY <2>1, <2>2, <2>3, <2>4 DEF Add, i
<1> QED BY <1>2, <1>3, <1>4, ModFacts

(* A packet that is sent for the first time is the next of the log.        *)
SentFirst(c, b, type, n) ==
    /\ Shape(b) /\ Same(c, b, Sending \cup {"state"})
    /\ b.out = Append(c.out, Encode(c, type, c.seqNr, SubSeq(c.sendBuf, 1, n)))
    /\ b.unacked = Append(c.unacked, [type |-> type, seq |-> c.seqNr,
                                      data |-> SubSeq(c.sendBuf, 1, n), tx |-> 1,
                                      resend |-> FALSE, fast |-> FALSE])
    /\ b.seqNr = Add(c.seqNr, 1)
    /\ b.log = Append(c.log, [type |-> type, upto |-> Upto(c.log, Len(c.log)) + n])
    /\ b.sendBuf = SubSeq(c.sendBuf, n + 1, Len(c.sendBuf))
    /\ b.probe = IF c.probe = "due" THEN "none" ELSE c.probe

(* The send buffer, the log and the retransmission queue go on together.   *)
LEMMA NewPacket ==
    ASSUME NEW e \in Ends, NEW c, NEW b, NEW d, NEW w, NEW g, Good(e, c, d, w, g), Ctx(e, d),
           Short(c), c.state = "connected", NEW type, NEW n \in Nat, n <= PacketSize,
           SentFirst(c, b, type, n),
           \/ type = "data" /\ n > 0 /\ n <= Len(c.sendBuf) /\ b.state = "connected"
           \/ type = "fin" /\ n = 0 /\ b.state = "fin" /\ c.sendBuf = <<>> /\ c.wantFin
    PROVE  Good(e, b, d, w, g) /\ Grows(e, c, b)
<1> DEFINE L == c.log
           M == b.log
           B == c.sendBuf
           U == c.unacked
           V == b.unacked
           S == b.sendBuf
           s == SubSeq(B, 1, n)
           t == Upto(L, Len(L))
           p == [type |-> type, seq |-> c.seqNr, data |-> s, tx |-> 1, resend |-> FALSE,
                 fast |-> FALSE]
<1>0. /\ Shape(b) /\ b.out = Append(c.out, Encode(c, type, c.seqNr, s))
      /\ V = Append(U, p) /\ b.seqNr = Add(c.seqNr, 1)
      /\ M = Append(L, [type |-> type, upto |-> t + n])
      /\ S = SubSeq(B, n + 1, Len(B))
  BY DEF SentFirst
<1>1. /\ b.ackNr = c.ackNr /\ b.recv = c.recv /\ b.reorder = c.reorder
      /\ b.wantFin = c.wantFin /\ b.peerFin = c.peerFin /\ b.eof = c.eof /\ b.error = c.error
      /\ b.lingers = c.lingers /\ b.readerGone = c.readerGone /\ b.teardown = c.teardown
      /\ b.held = c.held /\ b.offered = c.offered /\ b.peerWnd = c.peerWnd
  BY DEF SentFirst, Same, Sending, Fields
<1>2. /\ Shape(c) /\ StateOK(e, c) /\ EarlyOK(e, c) /\ SendOK(e, c, w) /\ RecvOK(e, c, d.log, g) /\ SizeOK(c)
      /\ AckOK(e, c, d) /\ OutOK(e, c)
  BY DEF Good
<1>3. /\ LogOK(e, L) /\ B \in Seq(Nat) /\ Len(B) \in Nat /\ n <= Len(B)
      /\ U \in Seq(Packet) /\ Len(U) \in Nat /\ c.seqNr = Add(Isn[e], Len(L))
      /\ \A k \in 1..Len(B) : B[k] = t + k
      /\ L \in Seq(Entry) /\ Len(L) \in Nat /\ Len(L) < Mod \div 2 /\ t \in Nat
  <2>1. SendOK(e, c, w) /\ Len(L) \in Nat /\ Len(L) < Mod \div 2 /\ t \in Nat
    BY <1>2, LogBound
  <2>2. /\ LogOK(e, L) /\ B \in Seq(Nat) /\ U \in Seq(Packet) /\ c.seqNr = Add(Isn[e], Len(L))
        /\ \A k \in 1..Len(B) : B[k] = t + k
    BY <2>1 DEF SendOK
  <2>3. L \in Seq(Entry) /\ Len(B) \in Nat /\ Len(U) \in Nat /\ n <= Len(B)
    BY <2>2 DEF LogOK
  <2> QED BY <2>1, <2>2, <2>3
<1>4. /\ ~Ended(L) /\ (e = "initiator" => Len(L) >= 1 /\ c.held) /\ c.error = "none" /\ ~c.lingers
      /\ c.held
  <2>1. B # <<>> \/ c.wantFin
    BY <1>3
  <2> QED BY <1>2, <2>1 DEF StateOK
<1> HIDE DEF L, M, B, U, V, S, s, t
<1>5. /\ LogOK(e, M) /\ Extends(L, M) /\ Len(M) = Len(L) + 1
      /\ Upto(M, Len(M)) = t + n /\ M[Len(M)].type = type
      /\ Ended(M) <=> type = "fin"
  <2>1. type \in {"data", "fin"} /\ n \in 0..PacketSize /\ (type = "data" <=> n > 0)
    BY UtpConstants
  <2> QED BY <1>0, <1>3, <1>4, <2>1, LogAppend DEF t
<1>6. M \in Seq(Entry)
  BY <1>5 DEF LogOK
<1>7. Grows(e, c, b)
  <2>1. Joined(e, b)
    BY <1>1, <1>4 DEF Joined
  <2> QED BY <1>1, <1>2, <1>5, <2>1, GrowsSame DEF RecvOK, L, M
<1>8. c.seqNr \in Seqs /\ Nth(e, c.seqNr) = Len(M)
  <2>1. Len(L) + 1 \in Seqs
    BY <1>3, ModFacts DEF Seqs
  <2> QED BY <1>3, <1>5, <2>1, NthIsn
<1>9. s \in Seq(Nat) /\ s = Units(M, Len(M))
  <2> DEFINE u == Units(M, Len(M))
  <2>2. s \in Seq(Nat) /\ Len(s) = n /\ \A k \in 1..n : s[k] = B[k]
    BY <1>3 DEF s
  <2>3. Upto(M, Len(M) - 1) = t /\ Len(M) \in 1..Len(M)
    <3>1. Len(M) - 1 = Len(L) /\ Len(L) \in 0..Len(L) /\ Len(M) \in 1..Len(M)
      BY <1>3, <1>5
    <3>2. Upto(M, Len(L)) = Upto(L, Len(L))
      BY <1>3, <1>5, <1>6, <3>1, LogExtends
    <3> QED BY <3>1, <3>2 DEF t
  <2>4. u \in Seq(Nat) /\ Len(u) = n /\ \A k \in 1..n : u[k] = t + k
    <3>1. /\ u \in Seq(Nat) /\ Len(u) = Upto(M, Len(M)) - Upto(M, Len(M) - 1)
          /\ \A k \in 1..Len(u) : u[k] = Upto(M, Len(M) - 1) + k
      BY <1>5, <2>3, UnitsOf
    <3> HIDE DEF u
    <3> QED BY <1>3, <1>5, <2>3, <3>1
  <2> HIDE DEF u
  <2>5. \A k \in 1..n : s[k] = u[k]
    <3> SUFFICES ASSUME NEW k \in 1..n PROVE s[k] = u[k]
      OBVIOUS
    <3>1. k \in 1..Len(B)
      BY <1>3
    <3> QED BY <1>3, <2>2, <2>4, <3>1
  <2>6. s = u
    BY <2>2, <2>4, <2>5, SeqEqual
  <2> QED BY <2>2, <2>6 DEF u
<1>10. p \in Packet /\ Carries(e, M, p) /\ p.seq = c.seqNr
  <2>1. p \in Packet
    BY <1>8, <1>9 DEF Packet, Kinds
  <2>2. p.seq = c.seqNr /\ p.type = type /\ p.data = s
    OBVIOUS
  <2> HIDE DEF p
  <2> QED BY <1>3, <1>5, <1>8, <1>9, <2>1, <2>2 DEF Carries
<1> HIDE DEF p
<1>11. /\ V \in Seq(Packet) /\ Len(V) = Len(U) + 1 /\ V[Len(U) + 1] = p /\ V # <<>>
       /\ \A k \in 1..Len(U) : V[k] = U[k]
  <2>1. V = Append(U, p) /\ U \in Seq(Packet) /\ p \in Packet
    BY <1>0, <1>3, <1>10
  <2>2. V \in Seq(Packet)
    BY <2>1
  <2>3. Len(V) = Len(U) + 1 /\ V[Len(U) + 1] = p /\ V # <<>>
    BY <2>1
  <2>4. \A k \in 1..Len(U) : V[k] = U[k]
    BY <2>1
  <2> QED BY <2>2, <2>3, <2>4
<1>18. Len(U) \in Nat /\ Len(B) \in Nat /\ Len(V) = Len(U) + 1 /\ n <= Len(B)
  BY <1>3, <1>11
<1>12. StateOK(e, b)
  <2>1. b.log = M /\ b.unacked = V /\ b.sendBuf = S /\ c.log = L /\ c.sendBuf = B
    BY DEF M, V, S, L, B
  <2>2. type = "fin" => S = <<>>
    BY <1>0, <2>1
  <2>3. /\ b.state \in {"connected", "fin"} /\ (b.state = "fin" <=> type = "fin")
        /\ (type = "fin" => c.wantFin) /\ Len(M) >= 1
    BY <1>3, <1>5
  <2>4. c.readerGone => c.teardown
    BY <1>2 DEF StateOK
  <2> QED BY <1>1, <1>4, <1>5, <2>1, <2>2, <2>3, <2>4 DEF StateOK
<1>13. SendOK(e, b, w)
  <2>1. b.seqNr = Add(Isn[e], Len(M))
    BY <1>0, <1>3, <1>5, NextSeq, ModFacts
  <2>2. S \in Seq(Nat) /\ Len(S) = Len(B) - n /\ \A k \in 1..Len(S) : S[k] = t + n + k
    <3>1. /\ S \in Seq(Nat) /\ Len(S) = Len(B) - n
          /\ \A k \in 1..Len(S) : S[k] = B[n + k]
      <4>1. S = SubSeq(B, n + 1, Len(B)) /\ B \in Seq(Nat)
        BY <1>0, <1>3
      <4>2. n \in 0..Len(B)
        BY <1>18
      <4> QED BY <4>1, <4>2, Remainder
    <3>2. ASSUME NEW k \in 1..Len(S) PROVE S[k] = t + n + k
      <4>1. n + k \in 1..Len(B)
        <5>1. Len(S) = Len(B) - n
          BY <3>1
        <5> QED BY <1>18, <5>1
      <4>2. B[n + k] = t + (n + k)
        BY <1>3, <4>1
      <4>3. t \in Int /\ n \in Int /\ k \in Int
        BY <1>3
      <4>4. t + (n + k) = t + n + k
        BY <4>3
      <4>5. S[k] = B[n + k]
        BY <3>1
      <4> QED BY <4>2, <4>4, <4>5
    <3> QED BY <3>1, <3>2
  <2>3. t + n + Len(S) = t + Len(B)
    BY <1>3, <2>2
  <2>4. \A k \in 1..Len(V) : Carries(e, M, V[k])
    <3>1. \A k \in 1..Len(U) : Carries(e, L, U[k])
      BY <1>2 DEF SendOK, U, L
    <3>2. \A k \in 1..Len(U) : Carries(e, M, U[k])
      BY <1>3, <1>5, <1>6, <3>1, LogExtends
    <3>3. ASSUME NEW k \in 1..Len(V) PROVE Carries(e, M, V[k])
      <4>1. k \in 1..Len(U) \/ k = Len(U) + 1
        BY <1>18
      <4> QED BY <1>10, <1>11, <3>2, <4>1
    <3> QED BY <3>3
  <2>5. \A j, k \in 1..Len(V) : j < k => Nth(e, V[j].seq) < Nth(e, V[k].seq)
    <3>1. \A k \in 1..Len(U) : Nth(e, U[k].seq) \in 1..Len(L)
      BY <1>2 DEF SendOK, Carries, U, L
    <3>2. \A j, k \in 1..Len(U) : j < k => Nth(e, U[j].seq) < Nth(e, U[k].seq)
      BY <1>2 DEF SendOK, U
    <3>3. Nth(e, p.seq) = Len(L) + 1
      BY <1>5, <1>8, <1>10
    <3> SUFFICES ASSUME NEW j \in 1..Len(V), NEW k \in 1..Len(V), j < k
                 PROVE  Nth(e, V[j].seq) < Nth(e, V[k].seq)
      OBVIOUS
    <3>4. j \in 1..Len(U) /\ V[j] = U[j]
      <4>1. j \in 1..Len(U)
        BY <1>18
      <4> QED BY <1>11, <4>1
    <3>5. CASE k \in 1..Len(U)
      BY <1>11, <3>2, <3>4, <3>5
    <3>6. CASE k = Len(U) + 1
      <4>1. V[k] = p
        BY <1>11, <3>6
      <4> QED BY <1>3, <3>1, <3>3, <3>4, <4>1
    <3> QED BY <1>18, <3>5, <3>6
  <2>6. w \in 0..Load[e] /\ t + Len(B) <= w /\ t + Len(B) = w
    <3>1. c.error = "none"
      BY <1>2 DEF StateOK
    <3> QED BY <1>2, <3>1 DEF SendOK, t, L, B
  <2>7. b.log = M /\ b.unacked = V /\ b.sendBuf = S /\ Upto(M, Len(M)) = t + n
    BY <1>5 DEF M, V, S
  <2> QED BY <1>1, <1>5, <1>11, <2>1, <2>2, <2>3, <2>4, <2>5, <2>6, <2>7 DEF SendOK
<1>14. RecvOK(e, b, d.log, g)
  <2>1. b.eof /\ b.error = "none" => (c.peerFin # None /\ Nth(Peer(e), c.ackNr) = Len(d.log))
                                         \/ (b.wantFin /\ b.state = "closed")
    BY <1>1, <1>2 DEF RecvOK
  <2>2. Joined(e, b) = Joined(e, c)
    BY <1>1 DEF Joined
  <2> QED BY <1>1, <1>2, <2>1, <2>2, RecvSame
<1>15. SizeOK(b)
  BY <1>1, <1>2, SizeSame
<1>16. AckOK(e, b, d)
  <2> SUFFICES ASSUME NEW i \in 1..Len(M)
               PROVE  \/ \E k \in 1..Len(V) : Nth(e, V[k].seq) = i
                      \/ Joined(Peer(e), d) /\ Has(e, d, i)
    BY DEF AckOK, M, V
  <2>1. CASE i = Len(M)
    <3>1. Len(V) \in 1..Len(V) /\ V[Len(V)] = p
      BY <1>3, <1>11
    <3> QED BY <1>8, <1>10, <2>1, <3>1
  <2>2. CASE i # Len(M)
    <3>1. i \in 1..Len(L)
      BY <1>3, <1>5, <2>2
    <3>2. \/ \E k \in 1..Len(U) : Nth(e, U[k].seq) = i
          \/ Joined(Peer(e), d) /\ Has(e, d, i)
      BY <1>2, <1>4, <3>1 DEF AckOK, L, U
    <3>3. \A k \in 1..Len(U) : k \in 1..Len(V) /\ V[k] = U[k]
      BY <1>3, <1>11
    <3> QED BY <3>2, <3>3
  <2> QED BY <2>1, <2>2
<1>17. OutOK(e, b)
  <2>1. MsgOK(e, b, Encode(c, type, c.seqNr, s))
    <3>1. /\ type \in Kinds \cup {"state", "reset"} /\ type # "state"
          /\ Nth(e, c.seqNr) \in 1..Len(M) /\ type = M[Nth(e, c.seqNr)].type
      BY <1>3, <1>5, <1>8 DEF Kinds
    <3>2. Joined(e, b)
      BY <1>1, <1>4 DEF Joined
    <3>3. s = Units(M, Nth(e, c.seqNr)) /\ M = b.log
      BY <1>8, <1>9 DEF M
    <3> QED BY <1>1, <1>2, <1>8, <1>9, <3>1, <3>2, <3>3, Encoded
  <2> QED BY <1>0, <1>1, <1>2, <1>3, <1>6, <1>7, <2>1, OutAppend DEF RecvOK, L, M
<1>19. EarlyOK(e, b)
  <2>1. b.probe = IF c.probe = "due" THEN "none" ELSE c.probe
    BY DEF SentFirst
  <2> QED BY <1>1, <1>2, <1>4, <2>1 DEF EarlyOK, Probes
<1> QED BY <1>0, <1>7, <1>19, <1>12, <1>13, <1>14, <1>15, <1>16, <1>17 DEF Good

(* One turn of the loop that sends new data.                               *)
LEMMA SendOneKeeps ==
    ASSUME NEW e \in Ends, NEW c, NEW d, NEW w, NEW g, Good(e, c, d, w, g), Ctx(e, d),
           c.state = "connected", NEW cwnd, NEW m \in Nat, Few(c, w, m)
    PROVE  Keeps(e, c, SendOne(c, cwnd), d, w, g) /\ Few(SendOne(c, cwnd), w, m)
<1> DEFINE take == IF Len(c.sendBuf) < PacketSize THEN Len(c.sendBuf) ELSE PacketSize
           data == SubSeq(c.sendBuf, 1, take)
           a == TransmitNew(c, "data", data)
           b == [a EXCEPT !.sendBuf = SubSeq(@, take + 1, Len(@))]
<1>1. CASE SendOne(c, cwnd) = c
  BY <1>1, KeptItself
<1>2. CASE take > 0 /\ SendOne(c, cwnd) = b
  <2>1. c.sendBuf \in Seq(Nat) /\ PacketSize \in Nat /\ Shape(c)
    BY UtpConstants DEF Good, SendOK
  <2>2. take \in Nat /\ take <= Len(c.sendBuf) /\ take <= PacketSize /\ take > 0
    BY <1>2, <2>1
  <2> HIDE DEF take
  <2>3. Len(data) = take
    BY <2>1, <2>2
  <2> HIDE DEF data
  <2>4. /\ Shape(a)
        /\ Same(c, a, {"out", "advertised", "probe", "needsAck", "unacked", "seqNr", "log"})
        /\ a.out = Append(c.out, Encode(c, "data", c.seqNr, data))
        /\ a.unacked = Append(c.unacked, [type |-> "data", seq |-> c.seqNr, data |-> data,
                                          tx |-> 1, resend |-> FALSE, fast |-> FALSE])
        /\ a.seqNr = Add(c.seqNr, 1)
        /\ a.log = Append(c.log, [type |-> "data", upto |-> Upto(c.log, Len(c.log)) + take])
        /\ a.probe = IF c.probe = "due" THEN "none" ELSE c.probe
    BY <2>1, <2>3, TransmitFields, SMTT(30)
  <2> HIDE DEF a
  <2>5. /\ Shape(b) /\ Same(a, b, {"sendBuf"})
        /\ b.sendBuf = SubSeq(a.sendBuf, take + 1, Len(a.sendBuf))
    BY <2>4 DEF Shape, Same, Fields
  <2>6. a.sendBuf = c.sendBuf /\ a.state = c.state
    BY <2>4 DEF Same, Fields
  <2> HIDE DEF b
  <2>7. /\ b.out = a.out /\ b.unacked = a.unacked /\ b.seqNr = a.seqNr /\ b.log = a.log
        /\ b.probe = a.probe /\ b.peerWnd = a.peerWnd /\ b.state = a.state
    BY <2>5 DEF Same, Fields
  <2>8. Same(c, b, Sending)
    BY <2>4, <2>5 DEF Same, Sending
  <2>9. SentFirst(c, b, "data", take)
    <3>1. Same(c, b, Sending \cup {"state"})
      BY <2>8 DEF Same
    <3> QED BY <2>4, <2>5, <2>6, <2>7, <3>1 DEF SentFirst, data
  <2>10. Good(e, b, d, w, g) /\ Grows(e, c, b)
    <3>1. Short(c)
      BY FewShort DEF Good
    <3> QED BY <2>2, <2>6, <2>7, <2>9, <3>1, NewPacket
  <2>11. Few(b, w, m)
    <3> DEFINE t == Upto(c.log, Len(c.log))
               x == [type |-> "data", upto |-> t + take]
    <3>1. SendOK(e, c, w) /\ c.error = "none"
      BY DEF Good, StateOK
    <3>2. c.log \in Seq(Entry) /\ w \in Nat /\ t + Len(c.sendBuf) = w
      BY <3>1, PeerFacts DEF SendOK, LogOK
    <3>3. Len(c.log) \in Nat /\ t \in Nat /\ Len(c.sendBuf) \in Nat
      BY <2>1, <3>1, LogBound
    <3>4. b.log = Append(c.log, x)
      BY <2>4, <2>7
    <3>5. Len(b.log) = Len(c.log) + 1 /\ Upto(b.log, Len(b.log)) = t + take
      BY <3>2, <3>3, <3>4 DEF Upto
    <3> HIDE DEF t, x
    <3>6. PICK k \in Nat : w - t <= k * PacketSize /\ Len(c.log) + k + m < Mod \div 2
      BY DEF Few, t
    <3>7. k # 0
      BY <2>1, <2>2, <3>2, <3>3, <3>6
    <3>8. Mod \div 2 \in Int
      BY ModFacts
    <3>9. CASE take = Len(c.sendBuf)
      <4>1. w - (t + take) <= 0 * PacketSize /\ Len(b.log) + 0 + m < Mod \div 2
        <5>1. w - (t + take) = 0
          BY <2>2, <3>2, <3>3, <3>9
        <5>2. 0 * PacketSize = 0
          BY <2>1
        <5>3. Len(b.log) + 0 + m < Mod \div 2
          BY <3>3, <3>5, <3>6, <3>7, <3>8
        <5> QED BY <5>1, <5>2, <5>3
      <4> QED BY <3>5, <4>1 DEF Few
    <3>10. CASE take = PacketSize
      <4>1. (k - 1) * PacketSize = k * PacketSize - PacketSize /\ k * PacketSize \in Int
        BY <2>1
      <4>2. k - 1 \in Nat /\ Len(b.log) + (k - 1) + m < Mod \div 2
        BY <3>3, <3>5, <3>6, <3>7, <3>8
      <4>3. w - (t + take) <= (k - 1) * PacketSize
        BY <2>1, <3>2, <3>3, <3>6, <3>10, <4>1
      <4> QED BY <3>5, <4>2, <4>3 DEF Few
    <3> QED BY <3>9, <3>10 DEF take
  <2> QED BY <1>2, <2>4, <2>7, <2>8, <2>10, <2>11 DEF Keeps
<1> QED BY <1>1, <1>2 DEF SendOne

(* The whole loop.                                                         *)
LEMMA FilledKeeps ==
    ASSUME NEW e \in Ends, NEW c, NEW d, NEW w, NEW g, Good(e, c, d, w, g), Ctx(e, d),
           c.state = "connected", NEW cwnd, NEW m \in Nat, Few(c, w, m)
    PROVE  LET b == Filled(c, cwnd)[Len(c.sendBuf)] IN Keeps(e, c, b, d, w, g) /\ Few(b, w, m)
<1> DEFINE N == Len(c.sendBuf)
           R(n) == Filled(c, cwnd)[n]
           G == {n \in Nat : n <= N => Keeps(e, c, R(n), d, w, g) /\ Few(R(n), w, m)}
<1>1. N \in Nat
  BY DEF Good, SendOK
<1>2. R(0) = c /\ \A n \in 1..N : R(n) = SendOne(R(n - 1), cwnd)
  BY <1>1, FilledStep
<1> HIDE DEF R
<1>3. 0 \in G
  BY <1>2, KeptItself
<1>4. ASSUME NEW n \in 1..N, n - 1 \in G PROVE n \in G
  <2>1. Keeps(e, c, R(n - 1), d, w, g) /\ Few(R(n - 1), w, m)
    BY <1>1, <1>4
  <2>2. Good(e, R(n - 1), d, w, g) /\ R(n - 1).state = "connected"
    BY <2>1 DEF Keeps, Same, Sending, Fields
  <2>3. Keeps(e, R(n - 1), R(n), d, w, g) /\ Few(R(n), w, m)
    BY <1>2, <2>1, <2>2, SendOneKeeps
  <2>4. Keeps(e, c, R(n), d, w, g)
    BY <2>1, <2>3, KeptOn
  <2> QED BY <1>1, <2>3, <2>4
<1>5. \A n \in 0..N : n \in G
  <2> HIDE DEF G
  <2>1. G \in SUBSET Nat
    BY DEF G
  <2> QED BY <1>1, <1>3, <1>4, <2>1, Induct
<1>6. N \in G
  BY <1>1, <1>5
<1> QED BY <1>1, <1>6 DEF R

(* Arming the probe.                                                       *)
LEMMA ArmProbeKeeps ==
    ASSUME NEW e \in Ends, NEW c, NEW d, NEW w, NEW g, Good(e, c, d, w, g), c.state # "none"
    PROVE  Keeps(e, c, ArmProbe(c), d, w, g) /\ Same(c, ArmProbe(c), {"probe"})
<1> DEFINE b == [c EXCEPT !.probe = "armed"]
<1>1. CASE ArmProbe(c) = c
  BY <1>1, KeptItself DEF Same
<1>2. CASE ArmProbe(c) = b
  <2>1. Shape(b) /\ Same(c, b, {"probe"}) /\ b.probe = "armed"
    BY DEF Good, Shape, Same, Fields
  <2> HIDE DEF b
  <2>2. Same(c, b, Minor) /\ Same(c, b, Sending)
    BY <2>1 DEF Same, Minor, Sending
  <2>3. EarlyOK(e, b)
    <3>1. EarlyOK(e, c) /\ b.needsAck = c.needsAck /\ b.nudge = c.nudge /\ b.held = c.held
          /\ b.offered = c.offered /\ b.peerWnd = c.peerWnd
      BY <2>1 DEF Good, Same, Fields
    <3> QED BY <2>1, <3>1 DEF EarlyOK, Probes
  <2>4. Good(e, b, d, w, g) /\ Grows(e, c, b)
    BY <2>1, <2>2, <2>3, MinorChange
  <2> QED BY <1>2, <2>1, <2>2, <2>4 DEF Keeps
<1> QED BY <1>1, <1>2 DEF ArmProbe

(* fill_send_window keeps Good.                                            *)
LEMMA FillKeeps ==
    ASSUME NEW e \in Ends, NEW c, NEW d, NEW w, NEW g, Good(e, c, d, w, g), Ctx(e, d),
           c.state # "none", NEW cwnd, NEW m \in Nat, Few(c, w, m)
    PROVE  Keeps(e, c, FillSendWindow(c, cwnd), d, w, g) /\ Few(FillSendWindow(c, cwnd), w, m)
<1> DEFINE r == Resent(c, cwnd)[Len(c.unacked)]
           f == IF r.state = "connected" THEN Filled(r, cwnd)[Len(r.sendBuf)] ELSE r
<1>1. CASE c.state \in {"syn", "closed"}
  BY <1>1, KeptItself DEF FillSendWindow
<1>2. CASE c.state \notin {"syn", "closed"}
  <2>1. Keeps(e, c, r, d, w, g) /\ Few(r, w, m)
    BY ResentKeeps, FewSame
  <2> HIDE DEF r
  <2>2. Good(e, r, d, w, g) /\ r.state # "none"
    BY <2>1 DEF Keeps, Same, Sending, Fields
  <2>3. Keeps(e, r, f, d, w, g) /\ Few(f, w, m)
    BY <2>1, <2>2, FilledKeeps, KeptItself
  <2> HIDE DEF f
  <2>4. Good(e, f, d, w, g) /\ f.state # "none"
    BY <2>2, <2>3 DEF Keeps, Same, Sending, Fields
  <2>5. Keeps(e, f, ArmProbe(f), d, w, g) /\ Few(ArmProbe(f), w, m)
    <3>1. Keeps(e, f, ArmProbe(f), d, w, g) /\ Same(f, ArmProbe(f), {"probe"})
      BY <2>4, ArmProbeKeeps
    <3>2. ArmProbe(f).log = f.log
      BY <3>1 DEF Same, Fields
    <3> QED BY <2>3, <3>1, <3>2, FewSame
  <2>6. Keeps(e, c, f, d, w, g)
    BY <2>1, <2>3, KeptOn
  <2>7. Keeps(e, c, ArmProbe(f), d, w, g)
    BY <2>5, <2>6, KeptOn
  <2>8. FillSendWindow(c, cwnd) = ArmProbe(f)
    BY <1>2 DEF FillSendWindow, f, r
  <2> QED BY <2>5, <2>7, <2>8
<1> QED BY <1>1, <1>2

(* maybe_send_fin keeps Good, and sends the FIN if it may.                 *)
LEMMA FinKeeps ==
    ASSUME NEW e \in Ends, NEW c, NEW d, NEW w, NEW g, Good(e, c, d, w, g), Ctx(e, d),
           Few(c, w, 1)
    PROVE  LET b == MaybeSendFin(c)
           IN  /\ Good(e, b, d, w, g) /\ Grows(e, c, b) /\ Same(c, b, Sending \cup {"state"})
               /\ Few(b, w, 0)
               /\ b.state # c.state => b.state = "fin"
               /\ b = c \/ b.probe # "due"
               /\ c.wantFin /\ c.state = "connected" /\ c.sendBuf = <<>> => b.state = "fin"
               /\ ~(c.wantFin /\ c.state = "connected" /\ c.sendBuf = <<>>) => b = c
<1> DEFINE a == TransmitNew(c, "fin", <<>>)
           b == [a EXCEPT !.state = "fin"]
<1>0. Short(c) /\ Few(c, w, 0)
  BY FewShort DEF Good
<1>1. CASE ~(c.wantFin /\ c.state = "connected" /\ c.sendBuf = <<>>)
  BY <1>0, <1>1, KeptItself DEF Keeps, MaybeSendFin, Same
<1>2. CASE c.wantFin /\ c.state = "connected" /\ c.sendBuf = <<>>
  <2>1. c.sendBuf \in Seq(Nat) /\ PacketSize \in Nat /\ Shape(c)
        /\ Upto(c.log, Len(c.log)) \in Nat
    BY UtpConstants, LogBound DEF Good, SendOK
  <2>2. Upto(c.log, Len(c.log)) + Len(<<>>) = Upto(c.log, Len(c.log)) + 0
    BY <2>1
  <2>3. SubSeq(c.sendBuf, 1, 0) = <<>> /\ SubSeq(c.sendBuf, 0 + 1, Len(c.sendBuf)) = c.sendBuf
    BY <1>2
  <2>4. /\ Shape(a)
        /\ Same(c, a, {"out", "advertised", "probe", "needsAck", "unacked", "seqNr", "log"})
        /\ a.out = Append(c.out, Encode(c, "fin", c.seqNr, <<>>))
        /\ a.unacked = Append(c.unacked, [type |-> "fin", seq |-> c.seqNr, data |-> <<>>,
                                          tx |-> 1, resend |-> FALSE, fast |-> FALSE])
        /\ a.seqNr = Add(c.seqNr, 1)
        /\ a.log = Append(c.log, [type |-> "fin", upto |-> Upto(c.log, Len(c.log)) + 0])
        /\ a.probe = IF c.probe = "due" THEN "none" ELSE c.probe
    BY <2>1, <2>2, TransmitFields, SMTT(30)
  <2> HIDE DEF a
  <2>5. Shape(b) /\ Same(a, b, {"state"}) /\ b.state = "fin"
    BY <2>4 DEF Shape, Same, Fields
  <2> HIDE DEF b
  <2>6. a.sendBuf = c.sendBuf
    BY <2>4 DEF Same, Fields
  <2>7. /\ b.out = a.out /\ b.unacked = a.unacked /\ b.seqNr = a.seqNr /\ b.log = a.log
        /\ b.probe = a.probe /\ b.peerWnd = a.peerWnd /\ b.sendBuf = a.sendBuf
    BY <2>5 DEF Same, Fields
  <2>8. Same(c, b, Sending \cup {"state"})
    BY <2>4, <2>5 DEF Same, Sending
  <2>9. SentFirst(c, b, "fin", 0)
    BY <2>3, <2>4, <2>5, <2>6, <2>7, <2>8 DEF SentFirst
  <2>10. Good(e, b, d, w, g) /\ Grows(e, c, b)
    <3>1. 0 \in Nat /\ 0 <= PacketSize
      BY <2>1
    <3> QED BY <1>0, <1>2, <2>5, <2>9, <3>1, NewPacket
  <2>11. MaybeSendFin(c) = b
    BY <1>2 DEF MaybeSendFin, b, a
  <2>12. b.probe # "due"
    BY <2>4, <2>7
  <2>13. Few(b, w, 0)
    <3> DEFINE t == Upto(c.log, Len(c.log))
               x == [type |-> "fin", upto |-> t + 0]
    <3>1. SendOK(e, c, w)
      BY DEF Good
    <3>2. c.log \in Seq(Entry) /\ Len(c.log) \in Nat /\ t \in Nat
      BY <3>1, LogBound DEF SendOK, LogOK
    <3>3. b.log = Append(c.log, x)
      BY <2>4, <2>7
    <3>4. Len(b.log) = Len(c.log) + 1 /\ Upto(b.log, Len(b.log)) = t
      BY <3>2, <3>3 DEF Upto
    <3> HIDE DEF t, x
    <3>5. PICK k \in Nat : w - t <= k * PacketSize /\ Len(c.log) + k + 1 < Mod \div 2
      BY DEF Few, t
    <3>6. Len(b.log) + k + 0 < Mod \div 2
      BY <3>2, <3>4, <3>5, ModFacts
    <3> QED BY <3>4, <3>5, <3>6 DEF Few
  <2> QED BY <1>2, <2>5, <2>8, <2>10, <2>11, <2>12, <2>13
<1> QED BY <1>1, <1>2

-----------------------------------------------------------------------------
(* What the loops leave behind.                                            *)

(* The units in flight.                                                    *)
Flight(U) ==
    UNION {{i} \X DOMAIN U[i].data : i \in {k \in DOMAIN U : ~U[k].resend}}

(* They are finitely many.                                                 *)
LEMMA FlightFinite ==
    ASSUME NEW U \in Seq(Packet)
    PROVE  IsFiniteSet(Flight(U)) /\ Cardinality(Flight(U)) \in Nat
<1> DEFINE S == {k \in DOMAIN U : ~U[k].resend}
           F == {{i} \X DOMAIN U[i].data : i \in S}
           f == [i \in S |-> {i} \X DOMAIN U[i].data]
<1>1. IsFiniteSet(S)
  <2>1. DOMAIN U = 1..Len(U) /\ Len(U) \in Nat
    OBVIOUS
  <2>2. IsFiniteSet(1..Len(U))
    BY <2>1, FS_Interval, 1 \in Int, Len(U) \in Int
  <2> QED BY <2>1, <2>2, FS_Subset
<1>2. \A i \in S : IsFiniteSet({i} \X DOMAIN U[i].data)
  <2> SUFFICES ASSUME NEW i \in S PROVE IsFiniteSet({i} \X DOMAIN U[i].data)
    OBVIOUS
  <2>1. IsFiniteSet({i})
    BY FS_Singleton
  <2>2. IsFiniteSet(DOMAIN U[i].data)
    <3>1. U[i] \in Packet
      OBVIOUS
    <3>2. U[i].data \in Seq(Nat)
      BY <3>1 DEF Packet
    <3>3. DOMAIN U[i].data = 1..Len(U[i].data) /\ Len(U[i].data) \in Nat
      BY <3>2
    <3>4. IsFiniteSet(1..Len(U[i].data))
      BY <3>3, FS_Interval, 1 \in Int, Len(U[i].data) \in Int
    <3> QED BY <3>3, <3>4
  <2> QED BY <2>1, <2>2, FS_Product
<1> HIDE DEF S
<1>3. IsFiniteSet(F)
  <2>1. f \in Surjection(S, F)
    BY DEF Surjection
  <2> HIDE DEF f, F
  <2> QED BY <1>1, <2>1, FS_Surjection
<1>4. \A X \in F : IsFiniteSet(X)
  BY <1>2
<1> HIDE DEF F
<1>5. IsFiniteSet(UNION F)
  BY <1>3, <1>4, FS_UNION
<1>6. Flight(U) = UNION F
  BY DEF Flight, F, S
<1> QED BY <1>5, <1>6, FS_CardinalityType

(* InFlight is a number.                                                   *)
LEMMA InFlightNat ==
    ASSUME NEW c, c.unacked \in Seq(Packet)
    PROVE  InFlight(c) \in Nat /\ InFlight(c) = Cardinality(Flight(c.unacked))
           /\ (c.unacked = <<>> => InFlight(c) = 0)
<1>1. InFlight(c) = Cardinality(Flight(c.unacked))
  BY DEF InFlight, Flight
<1>2. c.unacked = <<>> => Flight(c.unacked) = {}
  BY DEF Flight
<1> QED BY <1>1, <1>2, FlightFinite, FS_EmptySet

(* Sending again only adds to what is in flight.                           *)
LEMMA FlightMore ==
    ASSUME NEW c, NEW b, c.unacked \in Seq(Packet), b.unacked \in Seq(Packet),
           Len(b.unacked) = Len(c.unacked),
           \A k \in 1..Len(c.unacked) : /\ b.unacked[k].data = c.unacked[k].data
                                        /\ b.unacked[k].resend => c.unacked[k].resend
    PROVE  InFlight(c) <= InFlight(b)
<1> DEFINE U == c.unacked
           V == b.unacked
<1>1. DOMAIN U = 1..Len(U) /\ DOMAIN V = DOMAIN U
  OBVIOUS
<1>2. Flight(U) \subseteq Flight(V)
  <2> SUFFICES ASSUME NEW i \in {k \in DOMAIN U : ~U[k].resend}, NEW x \in {i} \X DOMAIN U[i].data
               PROVE  x \in Flight(V)
    BY DEF Flight
  <2>1. i \in {k \in DOMAIN V : ~V[k].resend} /\ V[i].data = U[i].data
    BY <1>1
  <2>2. x \in {i} \X DOMAIN V[i].data
    BY <2>1
  <2> QED BY <2>1, <2>2 DEF Flight
<1>3. IsFiniteSet(Flight(V))
  BY FlightFinite
<1> QED BY <1>2, <1>3, InFlightNat, FS_Subset

(* One turn of the loop.                                                   *)
LEMMA ResendOneMore ==
    ASSUME NEW e \in Ends, NEW c, NEW d, NEW w, NEW g, Good(e, c, d, w, g), Ctx(e, d),
           c.state # "none", NEW cwnd
    PROVE  InFlight(c) <= InFlight(ResendOne(c, cwnd))
<1> DEFINE due == {i \in DOMAIN c.unacked : c.unacked[i].resend}
           i == CHOOSE k \in due : \A j \in due : k <= j
<1>1. c.unacked \in Seq(Packet)
  BY DEF Good, SendOK
<1>2. CASE ResendOne(c, cwnd) = c
  BY <1>1, <1>2, InFlightNat
<1>3. CASE due # {} /\ ResendOne(c, cwnd) = Retransmit(c, i)
  <2> DEFINE b == Retransmit(c, i)
  <2>2. due \in SUBSET Nat /\ due \subseteq 1..Len(c.unacked)
    BY <1>1
  <2>3. i \in due
    <3> HIDE DEF due
    <3>1. \E k \in due : \A j \in due : k <= j
      BY <1>3, <2>2, LeastElement
    <3> QED BY <3>1
  <2>4. i \in 1..Len(c.unacked)
    BY <2>2, <2>3
  <2> HIDE DEF i
  <2>5. /\ Good(e, b, d, w, g) /\ Len(b.unacked) = Len(c.unacked)
        /\ \A k \in 1..Len(c.unacked) \ {i} : b.unacked[k] = c.unacked[k]
        /\ ~b.unacked[i].resend /\ b.unacked[i].data = c.unacked[i].data
    BY <2>4, RetransmitKeeps
  <2> HIDE DEF b
  <2>6. b.unacked \in Seq(Packet)
    BY <2>5 DEF Good, SendOK
  <2>7. InFlight(c) <= InFlight(b)
    BY <1>1, <2>5, <2>6, FlightMore
  <2> QED BY <1>3, <2>7 DEF b
<1> QED BY <1>2, <1>3 DEF ResendOne

(* A probe that is due is used by the first packet that is sent again.     *)
LEMMA ResendOneProbes ==
    ASSUME NEW e \in Ends, NEW c, NEW d, NEW w, NEW g, Good(e, c, d, w, g), Ctx(e, d),
           c.state # "none", NEW cwnd, c.probe = "due", InFlight(c) = 0, ResendOne(c, cwnd) = c
    PROVE  \A i \in DOMAIN c.unacked : ~c.unacked[i].resend
<1> DEFINE due == {i \in DOMAIN c.unacked : c.unacked[i].resend}
           i == CHOOSE k \in due : \A j \in due : k <= j
<1> SUFFICES ASSUME due # {} PROVE FALSE
  OBVIOUS
<1>1. MaySend(c, Len(c.unacked[i].data), cwnd)
  BY DEF MaySend
<1>2. ResendOne(c, cwnd) = Retransmit(c, i)
  BY <1>1 DEF ResendOne
<1>3. Shape(c)
  BY DEF Good
<1> HIDE DEF i
<1>4. Retransmit(c, i).probe # "due"
  BY <1>3, RetransmitFields
<1> QED BY <1>2, <1>4

(* The loop over the packets to send again.                                *)
LEMMA ResentRests ==
    ASSUME NEW e \in Ends, NEW c, NEW d, NEW w, NEW g, Good(e, c, d, w, g), Ctx(e, d),
           c.state # "none", NEW cwnd
    PROVE  LET b == Resent(c, cwnd)[Len(c.unacked)]
           IN  /\ InFlight(c) <= InFlight(b)
               /\ b.probe = "due" => b = c
               /\ b.probe = "due" /\ InFlight(b) = 0 => \A i \in DOMAIN b.unacked : ~b.unacked[i].resend
<1> DEFINE N == Len(c.unacked)
           R(n) == Resent(c, cwnd)[n]
           G == {n \in Nat : n <= N => /\ Keeps(e, c, R(n), d, w, g)
                                       /\ InFlight(c) <= InFlight(R(n))
                                       /\ R(n).probe = "due" => R(n) = c
                                       /\ R(n).probe = "due" /\ n >= 1 => ResendOne(c, cwnd) = c}
<1>1. N \in Nat /\ c.unacked \in Seq(Packet)
  BY DEF Good, SendOK
<1>2. R(0) = c /\ \A n \in 1..N : R(n) = ResendOne(R(n - 1), cwnd)
  BY <1>1, ResentStep
<1>3. InFlight(c) \in Nat
  BY <1>1, InFlightNat
<1> HIDE DEF R
<1>4. 0 \in G
  BY <1>2, <1>3, KeptItself
<1>5. ASSUME NEW n \in 1..N, n - 1 \in G PROVE n \in G
  <2> DEFINE a == R(n - 1)
             b == R(n)
  <2>1. /\ Keeps(e, c, a, d, w, g) /\ InFlight(c) <= InFlight(a)
        /\ a.probe = "due" => a = c
    BY <1>1, <1>5
  <2>2. Good(e, a, d, w, g) /\ a.state # "none"
    BY <2>1 DEF Keeps, Same, Sending, Fields
  <2>3. b = ResendOne(a, cwnd)
    BY <1>2
  <2> HIDE DEF a, b
  <2>4. Keeps(e, a, b, d, w, g) /\ InFlight(a) <= InFlight(b)
    BY <2>2, <2>3, ResendOneKeeps, ResendOneMore
  <2>5. Keeps(e, c, b, d, w, g)
    BY <2>1, <2>4, KeptOn
  <2>6. b.probe = "due" => b = a /\ a = c
    BY <2>1, <2>4 DEF Keeps
  <2>7. b.probe = "due" => b = c /\ ResendOne(c, cwnd) = c
    BY <2>3, <2>6
  <2>8. InFlight(c) <= InFlight(b)
    <3>1. InFlight(a) \in Nat /\ InFlight(b) \in Nat
      BY <2>2, <2>5, InFlightNat DEF Keeps, Good, SendOK
    <3> QED BY <1>3, <2>1, <2>4, <3>1
  <2> QED BY <1>1, <2>5, <2>7, <2>8 DEF b
<1>6. \A n \in 0..N : n \in G
  <2> HIDE DEF G
  <2>1. G \in SUBSET Nat
    BY DEF G
  <2> QED BY <1>1, <1>4, <1>5, <2>1, Induct
<1>7. /\ InFlight(c) <= InFlight(R(N)) /\ (R(N).probe = "due" => R(N) = c)
      /\ R(N).probe = "due" /\ N >= 1 => ResendOne(c, cwnd) = c
  BY <1>1, <1>6
<1>8. ASSUME R(N).probe = "due", InFlight(R(N)) = 0
      PROVE  \A i \in DOMAIN R(N).unacked : ~R(N).unacked[i].resend
  <2>1. R(N) = c /\ c.probe = "due" /\ InFlight(c) = 0
    BY <1>7, <1>8
  <2>2. CASE N = 0
    BY <1>1, <2>1, <2>2
  <2>3. CASE N >= 1
    BY <1>7, <1>8, <2>1, <2>3, ResendOneProbes
  <2> QED BY <1>1, <2>2, <2>3
<1> QED BY <1>7, <1>8 DEF R

(* The condition under which the loop of fill_send_window sends.           *)
Sends(c, cwnd) ==
    LET take == IF Len(c.sendBuf) < PacketSize THEN Len(c.sendBuf) ELSE PacketSize
    IN  /\ take > 0 /\ MaySend(c, take, cwnd)
        /\ ~(take < PacketSize /\ InFlight(c) > 0 /\ ~c.wantFin)

(* It sends, and then the send buffer is shorter, or it leaves all as it   *)
(* is.                                                                     *)
LEMMA SendOneShortens ==
    ASSUME NEW c, NEW cwnd, Shape(c), c.sendBuf \in Seq(Nat)
    PROVE  /\ ~Sends(c, cwnd) => SendOne(c, cwnd) = c
           /\ Sends(c, cwnd) => Len(SendOne(c, cwnd).sendBuf) < Len(c.sendBuf)
<1> DEFINE take == IF Len(c.sendBuf) < PacketSize THEN Len(c.sendBuf) ELSE PacketSize
           data == SubSeq(c.sendBuf, 1, take)
           a == TransmitNew(c, "data", data)
           b == [a EXCEPT !.sendBuf = SubSeq(@, take + 1, Len(@))]
<1>1. ~Sends(c, cwnd) => SendOne(c, cwnd) = c
  BY DEF Sends, SendOne
<1>2. ASSUME Sends(c, cwnd) PROVE Len(SendOne(c, cwnd).sendBuf) < Len(c.sendBuf)
  <2>1. take > 0 /\ SendOne(c, cwnd) = b
    BY <1>2 DEF Sends, SendOne
  <2>2. take \in 1..Len(c.sendBuf)
    BY <2>1, UtpConstants
  <2> HIDE DEF take, data
  <2>3. Shape(a) /\ a.sendBuf = c.sendBuf
    <3>1. /\ Shape(a)
          /\ Same(c, a, {"out", "advertised", "probe", "needsAck", "unacked", "seqNr", "log"})
      BY TransmitFields
    <3> HIDE DEF a
    <3> QED BY <3>1 DEF Same, Fields
  <2> HIDE DEF a
  <2>4. b.sendBuf = SubSeq(c.sendBuf, take + 1, Len(c.sendBuf))
    BY <2>3 DEF Shape, Fields
  <2>5. Len(b.sendBuf) = Len(c.sendBuf) - take
    <3> HIDE DEF b
    <3>1. take \in 0..Len(c.sendBuf)
      BY <2>2
    <3> QED BY <2>4, <3>1, Remainder
  <2> QED BY <2>1, <2>2, <2>5
<1> QED BY <1>1, <1>2

(* The loop goes on until nothing more may be sent.                        *)
LEMMA FilledRests ==
    ASSUME NEW e \in Ends, NEW c, NEW d, NEW w, NEW g, Good(e, c, d, w, g), Ctx(e, d),
           c.state = "connected", NEW cwnd, NEW m \in Nat, Few(c, w, m)
    PROVE  ~Sends(Filled(c, cwnd)[Len(c.sendBuf)], cwnd)
<1> DEFINE N == Len(c.sendBuf)
           R(n) == Filled(c, cwnd)[n]
           G == {n \in Nat : n <= N => /\ Keeps(e, c, R(n), d, w, g) /\ Few(R(n), w, m)
                                       /\ ~Sends(R(n), cwnd) \/ Len(R(n).sendBuf) <= N - n}
<1>1. N \in Nat
  BY DEF Good, SendOK
<1>2. R(0) = c /\ \A n \in 1..N : R(n) = SendOne(R(n - 1), cwnd)
  BY <1>1, FilledStep
<1> HIDE DEF R
<1>3. 0 \in G
  BY <1>1, <1>2, KeptItself
<1>4. ASSUME NEW n \in 1..N, n - 1 \in G PROVE n \in G
  <2> DEFINE a == R(n - 1)
             b == R(n)
  <2>1. /\ Keeps(e, c, a, d, w, g) /\ Few(a, w, m)
        /\ ~Sends(a, cwnd) \/ Len(a.sendBuf) <= N - (n - 1)
    BY <1>1, <1>4
  <2>2. b = SendOne(a, cwnd)
    BY <1>2
  <2> HIDE DEF a, b
  <2>3. Good(e, a, d, w, g) /\ a.state = "connected"
    BY <2>1 DEF Keeps, Same, Sending, Fields
  <2>4. Keeps(e, a, b, d, w, g) /\ Few(b, w, m)
    BY <2>1, <2>2, <2>3, SendOneKeeps
  <2>5. Keeps(e, c, b, d, w, g)
    BY <2>1, <2>4, KeptOn
  <2>6. /\ a.sendBuf \in Seq(Nat) /\ b.sendBuf \in Seq(Nat) /\ Shape(a)
    BY <2>3, <2>5 DEF Keeps, Good, SendOK
  <2>7. Len(a.sendBuf) \in Nat /\ Len(b.sendBuf) \in Nat
    BY <2>6
  <2>8. CASE ~Sends(a, cwnd)
    <3>1. b = a
      BY <2>2, <2>6, <2>8, SendOneShortens
    <3> QED BY <1>1, <2>4, <2>5, <2>8, <3>1 DEF b
  <2>9. CASE Sends(a, cwnd)
    <3>1. Len(b.sendBuf) < Len(a.sendBuf)
      BY <2>2, <2>6, <2>9, SendOneShortens
    <3>2. Len(b.sendBuf) <= N - n
      BY <1>1, <2>1, <2>7, <2>9, <3>1
    <3> QED BY <1>1, <2>4, <2>5, <3>2 DEF b
  <2> QED BY <2>8, <2>9
<1>5. \A n \in 0..N : n \in G
  <2> HIDE DEF G
  <2>1. G \in SUBSET Nat
    BY DEF G
  <2> QED BY <1>1, <1>3, <1>4, <2>1, Induct
<1>6. Keeps(e, c, R(N), d, w, g) /\ (~Sends(R(N), cwnd) \/ Len(R(N).sendBuf) <= 0)
  BY <1>1, <1>5
<1>7. R(N).sendBuf \in Seq(Nat)
  BY <1>6 DEF Keeps, Good, SendOK
<1>8. Len(R(N).sendBuf) <= 0 => ~Sends(R(N), cwnd)
  BY <1>7, UtpConstants DEF Sends
<1> QED BY <1>6, <1>8 DEF R

(* What may not be sent now may not be sent when more is in flight.        *)
LEMMA MaySendLess ==
    ASSUME NEW c, NEW b, NEW n \in Nat, NEW cwnd \in Nat, c.peerWnd \in Nat,
           b.peerWnd = c.peerWnd, InFlight(c) \in Nat, InFlight(b) \in Nat,
           InFlight(c) <= InFlight(b), ~MaySend(c, n, cwnd), InFlight(b) = 0 => b.probe # "due"
    PROVE  ~MaySend(b, n, cwnd)
<1> DEFINE i == InFlight(c)
           j == InFlight(b)
           v == c.peerWnd
<1>1. i = 0 => ~(i + n <= v)
  BY DEF MaySend
<1>2. i # 0 => ~(i + n <= v /\ i + n <= cwnd)
  BY DEF MaySend
<1>3. i \in Nat /\ j \in Nat /\ v \in Nat /\ i <= j
  OBVIOUS
<1>4. MaySend(b, n, cwnd) => j + n <= v /\ (j # 0 => j + n <= cwnd)
  BY DEF MaySend
<1> HIDE DEF i, j, v
<1> QED BY <1>1, <1>2, <1>3, <1>4

(* After fill_send_window an end that is blocked with nothing in flight    *)
(* has its probe armed.                                                    *)
Armed(c) == Blocked(c) /\ InFlight(c) = 0 => c.probe = "armed"

(* In flight and blocked depend on two fields only.                        *)
LEMMA SameFlight ==
    ASSUME NEW c, NEW b, b.unacked = c.unacked, b.sendBuf = c.sendBuf
    PROVE  InFlight(b) = InFlight(c) /\ (Blocked(b) <=> Blocked(c))
BY DEF InFlight, Blocked

(* The probe is armed, and nothing more may be sent.                       *)
LEMMA FillArms ==
    ASSUME NEW e \in Ends, NEW c, NEW d, NEW w, NEW g, Good(e, c, d, w, g), Ctx(e, d),
           c.state \in {"connected", "fin"}, NEW cwnd, NEW m \in Nat, Few(c, w, m)
    PROVE  /\ Armed(FillSendWindow(c, cwnd))
           /\ c.state = "connected" => ~Sends(FillSendWindow(c, cwnd), cwnd)
<1> DEFINE r == Resent(c, cwnd)[Len(c.unacked)]
           f == IF r.state = "connected" THEN Filled(r, cwnd)[Len(r.sendBuf)] ELSE r
           b == ArmProbe(f)
<1>1. FillSendWindow(c, cwnd) = b
  BY DEF FillSendWindow
<1>2. /\ Keeps(e, c, r, d, w, g) /\ (r.probe = "due" => r = c) /\ Few(r, w, m)
      /\ r.probe = "due" /\ InFlight(r) = 0 => \A i \in DOMAIN r.unacked : ~r.unacked[i].resend
  <2>1. c.state # "none"
    OBVIOUS
  <2>2. Keeps(e, c, r, d, w, g) /\ r.log = c.log
    BY <2>1, ResentKeeps
  <2>3. /\ r.probe = "due" => r = c
        /\ r.probe = "due" /\ InFlight(r) = 0 => \A i \in DOMAIN r.unacked : ~r.unacked[i].resend
    BY <2>1, ResentRests
  <2> HIDE DEF r
  <2>4. Few(r, w, m)
    BY <2>2, FewSame
  <2> QED BY <2>2, <2>3, <2>4
<1> HIDE DEF r
<1>3. Good(e, r, d, w, g) /\ r.state = c.state
  BY <1>2 DEF Keeps, Same, Sending, Fields
<1>4. Keeps(e, r, f, d, w, g)
  BY <1>2, <1>3, FilledKeeps, KeptItself
<1>5. c.state = "connected" => ~Sends(f, cwnd)
  BY <1>2, <1>3, FilledRests
<1> HIDE DEF f
<1>6. Good(e, f, d, w, g) /\ f.state = c.state
  BY <1>3, <1>4 DEF Keeps, Same, Sending, Fields
<1>7. Shape(f) /\ f.probe \in Probes /\ StateOK(e, f) /\ f.sendBuf \in Seq(Nat)
  BY <1>6 DEF Good, EarlyOK, SendOK
<1>8. Same(f, b, {"probe"})
  BY <1>6, ArmProbeKeeps
<1>9. /\ b.unacked = f.unacked /\ b.sendBuf = f.sendBuf /\ b.peerWnd = f.peerWnd
      /\ b.wantFin = f.wantFin
  BY <1>8 DEF Same, Fields
<1>10. InFlight(b) = InFlight(f) /\ (Blocked(b) <=> Blocked(f))
  BY <1>9, SameFlight
<1>11. ASSUME f.probe = "due", Blocked(f), InFlight(f) = 0 PROVE FALSE
  <2>1. f = r
    BY <1>4, <1>11 DEF Keeps
  <2>2. f.sendBuf # <<>>
    BY <1>2, <1>11, <2>1 DEF Blocked
  <2>3. c.state = "connected"
    BY <1>6, <1>7, <2>2 DEF StateOK
  <2>4. ~Sends(f, cwnd)
    BY <1>5, <2>3
  <2>5. \A n : MaySend(f, n, cwnd)
    BY <1>11 DEF MaySend
  <2>6. Len(f.sendBuf) > 0
    BY <1>7, <2>2
  <2> QED BY <1>7, <1>11, <2>4, <2>5, <2>6, UtpConstants DEF Sends
<1>12. Blocked(f) /\ InFlight(f) = 0 => b.probe = "armed"
  <2>1. CASE f.probe = "none"
    <3>1. Blocked(f) /\ InFlight(f) = 0 => b = [f EXCEPT !.probe = "armed"]
      BY <2>1 DEF ArmProbe
    <3>2. [f EXCEPT !.probe = "armed"].probe = "armed"
      BY <1>7 DEF Shape, Fields
    <3> QED BY <3>1, <3>2
  <2>2. CASE f.probe = "armed"
    BY <2>2 DEF ArmProbe
  <2> QED BY <1>7, <1>11, <2>1, <2>2 DEF Probes
<1>13. ~Sends(f, cwnd) => ~Sends(b, cwnd)
  <2>1. \A n : MaySend(b, n, cwnd) => MaySend(f, n, cwnd)
    <3>1. b.probe = "due" => f.probe = "due"
      <4>1. b = f \/ b = [f EXCEPT !.probe = "armed"]
        BY DEF ArmProbe
      <4>2. [f EXCEPT !.probe = "armed"].probe = "armed"
        BY <1>7 DEF Shape, Fields
      <4> QED BY <4>1, <4>2
    <3> QED BY <1>9, <1>10, <3>1 DEF MaySend
  <2> HIDE DEF b
  <2> QED BY <1>9, <1>10, <2>1 DEF Sends
<1> HIDE DEF b
<1> QED BY <1>1, <1>5, <1>10, <1>12, <1>13 DEF Armed

(* What the first fill_send_window of a pass leaves, the second leaves.    *)
LEMMA FillAgain ==
    ASSUME NEW e \in Ends, NEW c, NEW d, NEW w, NEW g, Good(e, c, d, w, g), Ctx(e, d),
           c.state = "connected", NEW cwnd \in Nat, c.wantFin,
           ~Sends(c, cwnd), c.sendBuf # <<>>, Armed(c)
    PROVE  FillSendWindow(c, cwnd).sendBuf # <<>>
<1> DEFINE r == Resent(c, cwnd)[Len(c.unacked)]
           N == Len(r.sendBuf)
           R(n) == Filled(r, cwnd)[n]
           G == {n \in Nat : n <= N => R(n) = r}
<1>1. /\ Keeps(e, c, r, d, w, g) /\ r.sendBuf = c.sendBuf /\ InFlight(c) <= InFlight(r)
      /\ r.probe = "due" => r = c
  BY ResentKeeps, ResentRests
<1>0. FillSendWindow(c, cwnd) = ArmProbe(IF r.state = "connected" THEN R(N) ELSE r)
  BY DEF FillSendWindow
<1> HIDE DEF r
<1>2. /\ Good(e, r, d, w, g) /\ r.state = "connected" /\ r.peerWnd = c.peerWnd
      /\ r.wantFin = c.wantFin
  BY <1>1 DEF Keeps, Same, Sending, Fields
<1>3. /\ c.peerWnd \in Nat /\ c.unacked \in Seq(Packet) /\ r.unacked \in Seq(Packet)
      /\ c.sendBuf \in Seq(Nat) /\ Shape(r) /\ r.sendBuf \in Seq(Nat)
  BY <1>1, <1>2 DEF Good, SendOK, EarlyOK
<1>4. InFlight(c) \in Nat /\ InFlight(r) \in Nat
  BY <1>3, InFlightNat
<1>15. InFlight(r) = 0 => r.probe # "due"
  <2>1. InFlight(r) = 0 => InFlight(c) = 0
    BY <1>1, <1>4
  <2>2. Blocked(c)
    BY DEF Blocked
  <2> QED BY <1>1, <2>1, <2>2 DEF Armed
<1>5. ~Sends(r, cwnd)
  <2> DEFINE take == IF Len(c.sendBuf) < PacketSize THEN Len(c.sendBuf) ELSE PacketSize
  <2>1. take > 0 /\ take \in Nat
    <3>1. Len(c.sendBuf) \in Nat /\ Len(c.sendBuf) > 0
      BY <1>3
    <3> QED BY <3>1, UtpConstants
  <2>2. ~MaySend(c, take, cwnd)
    BY <2>1 DEF Sends
  <2> HIDE DEF take
  <2>3. ~MaySend(r, take, cwnd)
    BY <1>1, <1>2, <1>3, <1>4, <1>15, <2>1, <2>2, MaySendLess
  <2> QED BY <1>1, <2>3 DEF Sends, take
<1>6. SendOne(r, cwnd) = r
  BY <1>3, <1>5, SendOneShortens
<1>7. N \in Nat
  BY <1>3
<1>8. R(0) = r /\ \A n \in 1..N : R(n) = SendOne(R(n - 1), cwnd)
  BY <1>7, FilledStep
<1> HIDE DEF R, N
<1>9. 0 \in G
  BY <1>8
<1>10. ASSUME NEW n \in 1..N, n - 1 \in G PROVE n \in G
  BY <1>6, <1>7, <1>8, <1>10
<1>11. \A n \in 0..N : n \in G
  <2> HIDE DEF G
  <2>1. G \in SUBSET Nat
    BY DEF G
  <2> QED BY <1>7, <1>9, <1>10, <2>1, Induct
<1>12. R(N) = r
  BY <1>7, <1>11
<1>13. FillSendWindow(c, cwnd) = ArmProbe(r)
  BY <1>0, <1>12
<1>14. ArmProbe(r).sendBuf = r.sendBuf
  BY <1>2, ArmProbeKeeps DEF Same, Fields
<1> QED BY <1>1, <1>13, <1>14

-----------------------------------------------------------------------------
(* Leaving.                                                                *)

(* The fields that the end of a connection changes.                        *)
Failing == {"error", "state", "eof", "unacked", "sendBuf", "probe", "needsAck", "pending", "teardown"}

(* A connection that has failed.                                           *)
LEMMA Broken ==
    ASSUME NEW e \in Ends, NEW c, NEW b, NEW d, NEW w, NEW g, Good(e, c, d, w, g),
           c.state # "none", Shape(b), Same(c, b, Failing), b.error # "none", b.state = "closed",
           b.unacked = <<>>, b.sendBuf = <<>>, b.needsAck => c.needsAck, b.probe = "none"
    PROVE  Good(e, b, d, w, g) /\ Grows(e, c, b)
<1>1. /\ b.seqNr = c.seqNr /\ b.ackNr = c.ackNr /\ b.recv = c.recv /\ b.reorder = c.reorder
      /\ b.wantFin = c.wantFin /\ b.peerFin = c.peerFin /\ b.nudge = c.nudge
      /\ b.lingers = c.lingers /\ b.readerGone = c.readerGone /\ b.offered = c.offered
      /\ b.held = c.held /\ b.out = c.out /\ b.log = c.log /\ b.peerWnd = c.peerWnd
  BY DEF Same, Failing, Fields
<1>2. /\ StateOK(e, c) /\ EarlyOK(e, c) /\ SendOK(e, c, w) /\ RecvOK(e, c, d.log, g) /\ SizeOK(c)
      /\ AckOK(e, c, d) /\ OutOK(e, c)
  BY DEF Good
<1>3. Joined(e, b) = Joined(e, c)
  BY <1>1 DEF Joined
<1>4. Grows(e, c, b)
  BY <1>1, <1>3, GoodFacts, GrowsSame, LogSame
<1>5. StateOK(e, b) /\ EarlyOK(e, b)
  BY <1>1, <1>2 DEF StateOK, EarlyOK, Probes
<1>6. SendOK(e, b, w)
  <2>1. /\ LogOK(e, c.log) /\ w \in 0..Load[e] /\ c.sendBuf \in Seq(Nat)
        /\ Upto(c.log, Len(c.log)) + Len(c.sendBuf) <= w
        /\ c.seqNr = Add(Isn[e], Len(c.log))
    BY <1>2 DEF SendOK
  <2>2. Upto(c.log, Len(c.log)) \in Nat /\ Len(c.sendBuf) \in Nat /\ Load[e] \in Nat
    BY <2>1, LogFacts, PeerFacts
  <2>3. Upto(c.log, Len(c.log)) + Len(b.sendBuf) <= w
    BY <2>1, <2>2
  <2>4. Ended(c.log) => Upto(c.log, Len(c.log)) + Len(b.sendBuf) = w
    <3>1. Ended(c.log) => c.sendBuf = <<>>
      BY <1>2 DEF StateOK
    <3>2. Ended(c.log) => Upto(c.log, Len(c.log)) + Len(c.sendBuf) = w
      BY <1>2 DEF SendOK
    <3> QED BY <3>1, <3>2
  <2> QED BY <1>1, <2>1, <2>3, <2>4 DEF SendOK
<1>7. RecvOK(e, b, d.log, g)
  BY <1>1, <1>2, <1>3, RecvSame
<1>8. SizeOK(b)
  BY <1>1, <1>2, SizeSame
<1>9. AckOK(e, b, d)
  BY DEF AckOK
<1>10. OutOK(e, b)
  BY <1>1, <1>2, <1>4, GoodFacts, OutSame
<1> QED BY <1>4, <1>5, <1>6, <1>7, <1>8, <1>9, <1>10 DEF Good

(* The fields after Fail.                                                  *)
LEMMA FailFields ==
    ASSUME NEW c, Shape(c), NEW kind, kind # "none"
    PROVE  LET b == Fail(c, kind)
           IN  /\ Shape(b) /\ Same(c, b, {"error", "state", "eof", "unacked", "sendBuf", "probe"})
               /\ b.error # "none" /\ b.state = "closed" /\ b.unacked = <<>> /\ b.sendBuf = <<>>
               /\ b.probe = "none"
BY ZenonT(30) DEF Fail, Shape, Same, Fields

(* Fail keeps Good.                                                        *)
LEMMA FailKeeps ==
    ASSUME NEW e \in Ends, NEW c, NEW d, NEW w, NEW g, Good(e, c, d, w, g), c.state # "none",
           NEW kind, kind # "none"
    PROVE  LET b == Fail(c, kind)
           IN  Good(e, b, d, w, g) /\ Grows(e, c, b) /\ Same(c, b, Failing) /\ b.state = "closed"
<1> DEFINE b == Fail(c, kind)
<1>1. Shape(c)
  BY DEF Good
<1>2. /\ Shape(b) /\ Same(c, b, {"error", "state", "eof", "unacked", "sendBuf", "probe"})
      /\ b.error # "none" /\ b.state = "closed" /\ b.unacked = <<>> /\ b.sendBuf = <<>>
      /\ b.probe = "none"
  BY <1>1, FailFields
<1> HIDE DEF b
<1>3. Same(c, b, Failing) /\ b.needsAck = c.needsAck
  BY <1>2 DEF Same, Failing, Fields
<1>4. Good(e, b, d, w, g) /\ Grows(e, c, b)
  BY <1>2, <1>3, Broken
<1> QED BY <1>2, <1>3, <1>4 DEF b

(* An acknowledgement or a reset keeps Good.                               *)
LEMMA PushKeeps ==
    ASSUME NEW e \in Ends, NEW c, NEW d, NEW w, NEW g, Good(e, c, d, w, g), Ctx(e, d),
           Short(c), c.state # "none", NEW type \in {"state", "reset"},
           type = "state" => Joined(e, c)
    PROVE  LET b == Push(c, type, c.seqNr, <<>>)
           IN  Good(e, b, d, w, g) /\ Grows(e, c, b) /\ Same(c, b, {"out", "advertised"})
<1> DEFINE b == Push(c, type, c.seqNr, <<>>)
<1>1. Shape(c) /\ EarlyOK(e, c) /\ SendOK(e, c, w) /\ RecvOK(e, c, d.log, g)
  BY DEF Good
<1>2. /\ Shape(b) /\ Same(c, b, {"out", "advertised"})
      /\ b.out = Append(c.out, Encode(c, type, c.seqNr, <<>>))
  BY <1>1, PushFields
<1> HIDE DEF b
<1>3. /\ b.ackNr = c.ackNr /\ b.reorder = c.reorder /\ b.held = c.held /\ b.state = c.state
      /\ b.log = c.log /\ b.unacked = c.unacked /\ b.needsAck = c.needsAck /\ b.nudge = c.nudge
      /\ b.offered = c.offered /\ b.probe = c.probe /\ b.peerWnd = c.peerWnd
  BY <1>2 DEF Same, Fields
<1>4. c.seqNr \in Seqs /\ Nth(e, c.seqNr) = Len(c.log) + 1 /\ Len(c.log) \in Nat
  <2>1. Len(c.log) \in Nat /\ Len(c.log) < Mod \div 2
    BY <1>1, LogBound
  <2>2. Len(c.log) + 1 \in Seqs
    BY <2>1, ModFacts DEF Seqs
  <2>3. c.seqNr = Add(Isn[e], Len(c.log))
    BY <1>1 DEF SendOK
  <2> QED BY <2>1, <2>2, <2>3, NthIsn
<1>5. MsgOK(e, b, Encode(c, type, c.seqNr, <<>>))
  <2>1. Joined(e, b) = Joined(e, c)
    BY <1>3 DEF Joined
  <2>2. type \notin Kinds /\ type \notin {"data", "fin"} /\ <<>> \in Seq(Nat)
    BY DEF Kinds
  <2>3. Nth(e, c.seqNr) \in 1..(Len(b.log) + 1)
    BY <1>3, <1>4
  <2> QED BY <1>1, <1>3, <1>4, <2>1, <2>2, <2>3, Encoded
<1>6. EarlyOK(e, b)
  BY <1>1, <1>3 DEF EarlyOK
<1>7. Same(c, b, Minor \cup {"unacked", "out"})
  BY <1>2 DEF Same, Minor
<1>8. Good(e, b, d, w, g) /\ Grows(e, c, b)
  <2>1. b.unacked \in Seq(Packet)
    BY <1>1, <1>3 DEF SendOK
  <2> QED BY <1>2, <1>3, <1>5, <1>6, <1>7, <2>1, Repacked
<1> QED BY <1>2, <1>8 DEF b

(* abort_and_reset keeps Good.                                             *)
LEMMA AbortKeeps ==
    ASSUME NEW e \in Ends, NEW c, NEW d, NEW w, NEW g, Good(e, c, d, w, g), Ctx(e, d),
           Short(c), c.state # "none"
    PROVE  LET b == Abort(c)
           IN  /\ Good(e, b, d, w, g) /\ Grows(e, c, b) /\ b.state = "closed"
               /\ Same(c, b, Failing \cup {"out", "advertised"})
<1> DEFINE p == Push(c, "reset", c.seqNr, <<>>)
           f == Fail(p, "aborted")
           b == [f EXCEPT !.needsAck = FALSE, !.pending = FALSE, !.teardown = FALSE]
<1>1. CASE c.state = "closed"
  BY <1>1, GoodFacts, GrowsItself DEF Abort, Same
<1>2. CASE c.state # "closed"
  <2>1. Good(e, p, d, w, g) /\ Grows(e, c, p) /\ Same(c, p, {"out", "advertised"})
    BY PushKeeps
  <2> HIDE DEF p
  <2>2. Shape(p) /\ p.state # "none"
    BY <2>1 DEF Good, Same, Fields
  <2>3. /\ Shape(f) /\ Same(p, f, {"error", "state", "eof", "unacked", "sendBuf", "probe"})
        /\ f.error # "none" /\ f.state = "closed" /\ f.unacked = <<>> /\ f.sendBuf = <<>>
        /\ f.probe = "none"
    BY <2>2, FailFields
  <2> HIDE DEF f
  <2>4. Shape(b) /\ Same(f, b, {"needsAck", "pending", "teardown"}) /\ b.needsAck = FALSE
    BY <2>3 DEF Shape, Same, Fields
  <2> HIDE DEF b
  <2>5. /\ b.error = f.error /\ b.state = f.state /\ b.unacked = f.unacked
        /\ b.sendBuf = f.sendBuf /\ b.probe = f.probe /\ b.peerWnd = f.peerWnd
    BY <2>4 DEF Same, Fields
  <2>6. Same(p, b, Failing)
    BY <2>3, <2>4 DEF Same, Failing
  <2>7. Good(e, b, d, w, g) /\ Grows(e, p, b)
    BY <2>1, <2>2, <2>3, <2>4, <2>5, <2>6, Broken
  <2>8. Grows(e, c, b)
    BY <2>1, <2>7, GoodFacts, GrowsOn
  <2>9. Same(c, b, Failing \cup {"out", "advertised"})
    BY <2>1, <2>6 DEF Same
  <2>10. Abort(c) = b
    BY <1>2 DEF Abort, b, f, p
  <2> QED BY <2>3, <2>5, <2>7, <2>8, <2>9, <2>10
<1> QED BY <1>1, <1>2

(* A connection ends without an error: its FIN is acknowledged.            *)
LEMMA Closing ==
    ASSUME NEW e \in Ends, NEW c, NEW b, NEW d, NEW w, NEW g, Good(e, c, d, w, g),
           c.state = "fin", c.unacked = <<>>, Shape(b), Same(c, b, {"state", "eof", "lingers"}),
           \/ b.state = "closed" /\ b.eof
           \/ b.state = "fin" /\ b.eof = c.eof
    PROVE  Good(e, b, d, w, g) /\ Grows(e, c, b)
<1>1. /\ b.seqNr = c.seqNr /\ b.ackNr = c.ackNr /\ b.recv = c.recv /\ b.reorder = c.reorder
      /\ b.wantFin = c.wantFin /\ b.peerFin = c.peerFin /\ b.nudge = c.nudge
      /\ b.readerGone = c.readerGone /\ b.offered = c.offered /\ b.sendBuf = c.sendBuf
      /\ b.unacked = c.unacked /\ b.error = c.error /\ b.needsAck = c.needsAck
      /\ b.held = c.held /\ b.out = c.out /\ b.log = c.log /\ b.teardown = c.teardown
      /\ b.probe = c.probe /\ b.peerWnd = c.peerWnd
  BY DEF Same, Fields
<1>2. /\ StateOK(e, c) /\ EarlyOK(e, c) /\ SendOK(e, c, w) /\ RecvOK(e, c, d.log, g) /\ SizeOK(c)
      /\ AckOK(e, c, d) /\ OutOK(e, c)
  BY DEF Good
<1>3. Joined(e, b) = Joined(e, c)
  BY <1>1 DEF Joined
<1>4. Grows(e, c, b)
  BY <1>1, <1>3, GoodFacts, GrowsSame, LogSame
<1>5. StateOK(e, b)
  BY <1>1, <1>2 DEF StateOK
<1>6. EarlyOK(e, b)
  BY <1>1, <1>2 DEF EarlyOK
<1>7. SendOK(e, b, w)
  BY <1>1, <1>2, SendSame
<1>8. RecvOK(e, b, d.log, g)
  <2>1. c.wantFin
    BY <1>2 DEF StateOK
  <2>2. b.eof /\ b.error = "none" => (c.peerFin # None /\ Nth(Peer(e), c.ackNr) = Len(d.log))
                                         \/ (b.wantFin /\ b.state = "closed")
    BY <1>1, <1>2, <2>1 DEF RecvOK
  <2> QED BY <1>1, <1>2, <1>3, <2>2, RecvSame
<1>9. SizeOK(b)
  BY <1>1, <1>2, SizeSame
<1>10. AckOK(e, b, d)
  BY <1>1, <1>2, AckSame
<1>11. OutOK(e, b)
  BY <1>1, <1>2, <1>4, GoodFacts, OutSame
<1> QED BY <1>4, <1>5, <1>6, <1>7, <1>8, <1>9, <1>10, <1>11 DEF Good

(* maybe_finish keeps Good.                                                *)
LEMMA FinishKeeps ==
    ASSUME NEW e \in Ends, NEW c, NEW d, NEW w, NEW g, Good(e, c, d, w, g)
    PROVE  LET b == MaybeFinish(c)
           IN  /\ Good(e, b, d, w, g) /\ Grows(e, c, b) /\ Same(c, b, {"state", "lingers"})
               /\ b.state # c.state => b.state = "closed"
<1> DEFINE x == [c EXCEPT !.state = "closed"]
           y == [c EXCEPT !.lingers = TRUE]
<1>1. CASE MaybeFinish(c) = c
  BY <1>1, GoodFacts, GrowsItself DEF Same
<1>2. CASE c.state = "fin" /\ c.unacked = <<>> /\ c.eof /\ MaybeFinish(c) = x
  <2>1. Shape(x) /\ Same(c, x, {"state"}) /\ x.state = "closed" /\ x.eof = c.eof
    BY DEF Good, Shape, Same, Fields
  <2> HIDE DEF x
  <2>2. Same(c, x, {"state", "eof", "lingers"}) /\ Same(c, x, {"state", "lingers"})
    BY <2>1 DEF Same
  <2>3. Good(e, x, d, w, g) /\ Grows(e, c, x)
    BY <1>2, <2>1, <2>2, Closing
  <2> QED BY <1>2, <2>1, <2>2, <2>3
<1>3. CASE c.state = "fin" /\ c.unacked = <<>> /\ MaybeFinish(c) = y
  <2>1. Shape(y) /\ Same(c, y, {"lingers"}) /\ y.state = c.state /\ y.eof = c.eof
    BY DEF Good, Shape, Same, Fields
  <2> HIDE DEF y
  <2>2. Same(c, y, {"state", "eof", "lingers"}) /\ Same(c, y, {"state", "lingers"})
    BY <2>1 DEF Same
  <2>3. Good(e, y, d, w, g) /\ Grows(e, c, y)
    BY <1>3, <2>1, <2>2, Closing
  <2> QED BY <1>3, <2>1, <2>2, <2>3
<1> QED BY <1>1, <1>2, <1>3 DEF MaybeFinish

(* The acknowledgement at the end of a pass keeps Good.                    *)
LEMMA SendStateKeeps ==
    ASSUME NEW e \in Ends, NEW c, NEW d, NEW w, NEW g, Good(e, c, d, w, g), Ctx(e, d),
           Short(c), c.state # "none"
    PROVE  LET b == SendState(c)
           IN  /\ Good(e, b, d, w, g) /\ Grows(e, c, b)
               /\ Same(c, b, {"out", "advertised", "needsAck"})
<1> DEFINE p == Push(c, "state", c.seqNr, <<>>)
           b == [p EXCEPT !.needsAck = FALSE]
<1>1. CASE SendState(c) = c
  BY <1>1, GoodFacts, GrowsItself DEF Same
<1>2. CASE c.needsAck /\ SendState(c) = b
  <2>1. Joined(e, c)
    BY <1>2 DEF Good, EarlyOK, Joined, Ends
  <2>2. Good(e, p, d, w, g) /\ Grows(e, c, p) /\ Same(c, p, {"out", "advertised"})
    BY <2>1, PushKeeps
  <2> HIDE DEF p
  <2>3. Shape(p) /\ p.state # "none" /\ EarlyOK(e, p)
    BY <2>2 DEF Good, Same, Fields
  <2>4. Shape(b) /\ Same(p, b, {"needsAck"}) /\ b.needsAck = FALSE
    BY <2>3 DEF Shape, Same, Fields
  <2> HIDE DEF b
  <2>5. Same(p, b, Minor) /\ Same(c, b, {"out", "advertised", "needsAck"})
    BY <2>2, <2>4 DEF Same, Minor
  <2>6. b.nudge = p.nudge /\ b.held = p.held /\ b.offered = p.offered /\ b.probe = p.probe /\ b.peerWnd = p.peerWnd
    BY <2>4 DEF Same, Fields
  <2>7. EarlyOK(e, b)
    BY <2>3, <2>4, <2>6 DEF EarlyOK
  <2>8. Good(e, b, d, w, g) /\ Grows(e, p, b)
    BY <2>2, <2>3, <2>4, <2>5, <2>7, MinorChange
  <2>9. Grows(e, c, b)
    BY <2>2, <2>8, GoodFacts, GrowsOn
  <2> QED BY <1>2, <2>5, <2>8, <2>9
<1> QED BY <1>1, <1>2 DEF SendState

(* note_window_update keeps Good.                                          *)
LEMMA NoteKeeps ==
    ASSUME NEW e \in Ends, NEW c, NEW d, NEW w, NEW g, Good(e, c, d, w, g), c.state # "none",
           e = "initiator" => c.held
    PROVE  LET b == NoteWindowUpdate(c)
           IN  Good(e, b, d, w, g) /\ Grows(e, c, b) /\ Same(c, b, {"needsAck"})
<1> DEFINE b == [c EXCEPT !.needsAck = TRUE]
<1>1. CASE NoteWindowUpdate(c) = c
  BY <1>1, GoodFacts, GrowsItself DEF Same
<1>2. CASE NoteWindowUpdate(c) = b
  <2>1. Shape(c) /\ EarlyOK(e, c)
    BY DEF Good
  <2>2. Shape(b) /\ Same(c, b, {"needsAck"})
    BY <2>1 DEF Shape, Same, Fields
  <2> HIDE DEF b
  <2>3. Same(c, b, Minor) /\ b.held = c.held /\ b.offered = c.offered /\ b.probe = c.probe /\ b.peerWnd = c.peerWnd
    BY <2>2 DEF Same, Minor, Fields
  <2>4. EarlyOK(e, b)
    BY <2>1, <2>3 DEF EarlyOK
  <2>5. Good(e, b, d, w, g) /\ Grows(e, c, b)
    BY <2>2, <2>3, <2>4, MinorChange
  <2> QED BY <1>2, <2>2, <2>5
<1> QED BY <1>1, <1>2 DEF NoteWindowUpdate

(* What only the program at an end changes.                                *)
Steady(c, b) == b.wantFin = c.wantFin /\ b.readerGone = c.readerGone

(* Handing the stream to the program keeps Good.                           *)
LEMMA HandOverKeeps ==
    ASSUME NEW e \in Ends, NEW c, NEW d, NEW w, NEW g, Good(e, c, d, w, g), Ctx(e, d),
           Short(c), c.state # "none", NEW room \in BOOLEAN
    PROVE  LET b == HandOver(c, e, room)
           IN  /\ Good(e, b, d, w, g) /\ Grows(e, c, b) /\ Steady(c, b) /\ b.log = c.log
               /\ \/ b = c /\ (e = "initiator" \/ c.offered \/ (c.recv = <<>> /\ ~c.eof))
                  \/ b.state = "closed"
                  \/ /\ Same(c, b, {"offered", "pending", "held"}) /\ b.offered /\ b.held = room
                     /\ ~c.offered
<1> DEFINE x == [c EXCEPT !.offered = TRUE]
           y == [c EXCEPT !.offered = TRUE, !.pending = FALSE, !.held = room]
<1>0. /\ Shape(c) /\ StateOK(e, c) /\ EarlyOK(e, c) /\ SendOK(e, c, w) /\ RecvOK(e, c, d.log, g)
      /\ SizeOK(c) /\ AckOK(e, c, d) /\ OutOK(e, c)
  BY DEF Good
<1>1. CASE e = "initiator" \/ c.offered
  BY <1>1, GoodFacts, GrowsItself DEF HandOver, Steady
<1>2. CASE ~(e = "initiator" \/ c.offered) /\ c.state = "closed"
  <2>1. HandOver(c, e, room) = x
    BY <1>2 DEF HandOver
  <2>2. Shape(x) /\ Same(c, x, {"offered"}) /\ x.offered
    BY <1>0 DEF Shape, Same, Fields
  <2> HIDE DEF x
  <2>3. /\ Same(c, x, Minor) /\ x.state = c.state /\ Steady(c, x) /\ x.probe = c.probe
        /\ x.peerWnd = c.peerWnd /\ x.log = c.log
    BY <2>2 DEF Same, Minor, Fields, Steady
  <2>4. EarlyOK(e, x)
    BY <1>0, <1>2, <2>2, <2>3 DEF EarlyOK
  <2>5. Good(e, x, d, w, g) /\ Grows(e, c, x)
    BY <2>2, <2>3, <2>4, MinorChange
  <2> QED BY <1>2, <2>1, <2>3, <2>5
<1>3. CASE ~(e = "initiator" \/ c.offered) /\ c.state # "closed" /\ c.recv # <<>>
  <2>1. HandOver(c, e, room) = y
    BY <1>3 DEF HandOver
  <2>2. Shape(y) /\ Same(c, y, {"offered", "pending", "held"}) /\ y.offered /\ y.held = room
    BY <1>0 DEF Shape, Same, Fields
  <2> HIDE DEF y
  <2>3. /\ y.state = c.state /\ y.seqNr = c.seqNr /\ y.ackNr = c.ackNr /\ y.sendBuf = c.sendBuf
        /\ y.unacked = c.unacked /\ y.recv = c.recv /\ y.reorder = c.reorder
        /\ y.wantFin = c.wantFin /\ y.peerFin = c.peerFin /\ y.eof = c.eof /\ y.error = c.error
        /\ y.lingers = c.lingers /\ y.readerGone = c.readerGone /\ y.teardown = c.teardown
        /\ y.out = c.out /\ y.log = c.log /\ y.probe = c.probe /\ y.peerWnd = c.peerWnd
    BY <2>2 DEF Same, Fields
  <2>4. e = "responder" /\ ~c.held /\ Joined(e, y) /\ Joined(e, c) /\ Joined(e, y) = Joined(e, c)
    BY <1>0, <1>3, <2>3 DEF EarlyOK, Ends, Joined
  <2>5. Len(d.log) >= 2
    <3> DEFINE L == d.log
               r == Nth(Peer(e), c.ackNr)
    <3>1. /\ c.recv \in Seq(Nat) /\ g \in Seq(Nat) /\ ~c.readerGone /\ r \in 0..Len(L) /\ r >= 1
          /\ Len(g) + Len(c.recv) = Upto(L, r)
      BY <1>0, <1>3, <2>4 DEF RecvOK
    <3>2. Len(g) \in Nat /\ Len(c.recv) \in Nat /\ Len(c.recv) > 0
      BY <1>3, <3>1
    <3>3. LogOK("initiator", L) /\ Len(L) \in Nat
      BY <2>4, LogFacts, PeerFacts DEF Ctx, Peer
    <3> HIDE DEF L, r
    <3>4. Len(L) = 1 => Upto(L, 1) <= Upto(L, 0) /\ Upto(L, 0) = 0
      <4>1. Upto(L, 0) = 0
        BY DEF Upto
      <4>2. Len(L) = 1 => L[1].type = "syn" /\ (L[1].type = "data" <=> Upto(L, 0) < Upto(L, 1))
        BY <3>3 DEF LogOK
      <4>3. Len(L) = 1 => Upto(L, 1) \in Nat
        <5>1. "initiator" \in Ends
          BY DEF Ends
        <5>2. \A i \in 0..Len(L) : Upto(L, i) \in Nat
          BY <3>3, <5>1, LogFacts
        <5> QED BY <5>2
      <4> QED BY <4>1, <4>2, <4>3
    <3>5. Len(L) = 1 => r = 1
      BY <3>1, <3>3
    <3>6. Len(L) = 1 => Len(g) + Len(c.recv) <= 0
      BY <3>1, <3>4, <3>5
    <3>7. Len(L) # 1 /\ Len(L) # 0
      BY <3>1, <3>2, <3>6
    <3>8. Len(L) \in Nat
      BY <3>3
    <3>9. Len(L) >= 2
      <4>1. \A n \in Nat : n # 1 /\ n # 0 => n >= 2
        OBVIOUS
      <4> QED BY <3>7, <3>8, <4>1
    <3> QED BY <3>9 DEF L
  <2>6. Grows(e, c, y)
    BY <2>3, <2>4, GoodFacts, GrowsSame, LogSame
  <2>7. StateOK(e, y)
    BY <1>0, <2>3, <2>4 DEF StateOK
  <2>8. EarlyOK(e, y)
    BY <1>0, <2>2, <2>3, <2>4 DEF EarlyOK
  <2>9. SendOK(e, y, w)
    BY <1>0, <2>3, SendSame
  <2>10. RecvOK(e, y, d.log, g)
    <3>1. y.eof /\ y.error = "none" => (c.peerFin # None /\ Nth(Peer(e), c.ackNr) = Len(d.log))
                                         \/ (y.wantFin /\ y.state = "closed")
      BY <1>0, <2>3 DEF RecvOK
    <3> QED BY <1>0, <2>3, <2>4, <2>5, <3>1, RecvSame
  <2>11. SizeOK(y) /\ AckOK(e, y, d)
    BY <1>0, <2>3, SizeSame, AckSame
  <2>12. OutOK(e, y)
    BY <1>0, <2>3, <2>6, GoodFacts, OutSame
  <2>13. Good(e, y, d, w, g)
    BY <2>2, <2>7, <2>8, <2>9, <2>10, <2>11, <2>12 DEF Good
  <2> QED BY <1>3, <2>1, <2>2, <2>3, <2>6, <2>13 DEF Steady
<1>4. CASE ~(e = "initiator" \/ c.offered) /\ c.state # "closed" /\ c.recv = <<>> /\ c.eof
  BY <1>4, AbortKeeps, ZenonT(30) DEF HandOver, Steady, Same, Failing, Fields
<1>5. CASE ~(e = "initiator" \/ c.offered) /\ c.state # "closed" /\ c.recv = <<>> /\ ~c.eof
  BY <1>5, GoodFacts, GrowsItself DEF HandOver, Steady
<1> QED BY <1>1, <1>2, <1>3, <1>4, <1>5

(* The pass of the driver.                                                 *)
LEMMA PassKeeps ==
    ASSUME NEW e \in Ends, NEW c, NEW d, NEW w, NEW g, Good(e, c, d, w, g), Ctx(e, d),
           Few(c, w, 1), c.state # "none", NEW cwnd, NEW room \in BOOLEAN
    PROVE  LET b == Pass(c, e, cwnd, room)
           IN  Good(e, b, d, w, g) /\ Grows(e, c, b) /\ Steady(c, b)
             /\ b.state # "none"
<1> DEFINE f1 == FillSendWindow(c, cwnd)
           f2 == MaybeSendFin(f1)
           f3 == FillSendWindow(f2, cwnd)
           h == HandOver(f3, e, room)
           s == SendState(h)
           m == MaybeFinish(s)
<1>1. /\ Good(e, f1, d, w, g) /\ Grows(e, c, f1) /\ f1.state # "none" /\ Steady(c, f1)
      /\ Few(f1, w, 1)
  BY FillKeeps DEF Keeps, Same, Sending, Fields, Steady
<1> HIDE DEF f1
<1>2. /\ Good(e, f2, d, w, g) /\ Grows(e, f1, f2) /\ f2.state # "none" /\ Steady(f1, f2)
      /\ Few(f2, w, 0)
  <2>1. /\ Good(e, f2, d, w, g) /\ Grows(e, f1, f2)
        /\ f2.state # f1.state => f2.state = "fin"
        /\ Same(f1, f2, Sending \cup {"state"}) /\ Few(f2, w, 0)
    BY <1>1, FinKeeps
  <2> QED BY <1>1, <2>1 DEF Same, Sending, Fields, Steady
<1> HIDE DEF f2
<1>3. /\ Good(e, f3, d, w, g) /\ Grows(e, f2, f3) /\ f3.state # "none" /\ Steady(f2, f3)
      /\ Few(f3, w, 0)
  <2>1. 0 \in Nat
    OBVIOUS
  <2>2. Keeps(e, f2, f3, d, w, g) /\ Few(f3, w, 0)
    BY <1>2, <2>1, FillKeeps
  <2> QED BY <1>2, <2>2 DEF Keeps, Same, Sending, Fields, Steady
<1> HIDE DEF f3
<1>14. Short(f3)
  BY <1>3, FewShort DEF Good
<1>4. /\ Good(e, h, d, w, g) /\ Grows(e, f3, h) /\ h.state # "none" /\ Steady(f3, h)
      /\ Short(h)
  <2>1. /\ Good(e, h, d, w, g) /\ Grows(e, f3, h) /\ Steady(f3, h) /\ h.log = f3.log
        /\ h = f3 \/ h.state = "closed" \/ Same(f3, h, {"offered", "pending", "held"})
    BY <1>3, <1>14, HandOverKeeps
  <2> QED BY <1>3, <1>14, <2>1 DEF Same, Fields, Short
<1> HIDE DEF h
<1>5. /\ Good(e, s, d, w, g) /\ Grows(e, h, s) /\ s.state # "none" /\ Steady(h, s)
      /\ s.log = h.log
  BY <1>4, SendStateKeeps DEF Same, Fields, Steady
<1> HIDE DEF s
<1>6. /\ Good(e, m, d, w, g) /\ Grows(e, s, m) /\ m.state # "none" /\ Steady(s, m)
      /\ m.log = s.log
  BY <1>5, FinishKeeps DEF Same, Fields, Steady
<1> HIDE DEF m
<1>15. Short(m)
  BY <1>4, <1>5, <1>6 DEF Short
<1>7. Grows(e, c, f3)
  BY <1>1, <1>2, <1>3, GoodFacts, GrowsOn
<1>8. Grows(e, c, s)
  BY <1>3, <1>4, <1>5, <1>7, GoodFacts, GrowsOn
<1>9. Grows(e, c, m)
  BY <1>5, <1>6, <1>8, GoodFacts, GrowsOn
<1>10. /\ Good(e, Abort(m), d, w, g) /\ Grows(e, m, Abort(m)) /\ Steady(m, Abort(m))
       /\ Abort(m).state # "none"
  BY <1>6, <1>15, AbortKeeps DEF Same, Failing, Fields, Steady
<1>11. Grows(e, c, Abort(m))
  BY <1>6, <1>9, <1>10, GoodFacts, GrowsOn
<1>12. Pass(c, e, cwnd, room) = m \/ Pass(c, e, cwnd, room) = Abort(m)
  BY DEF Pass, f1, f2, f3, h, s, m
<1>13. Steady(c, m) /\ Steady(c, Abort(m))
  BY <1>1, <1>2, <1>3, <1>4, <1>5, <1>6, <1>10 DEF Steady
<1> QED BY <1>6, <1>9, <1>10, <1>11, <1>12, <1>13

(* What the waiting of an end depends on.                                  *)
Alike(c, b) ==
    b.state \in Open => /\ c.state \in Open /\ b.peerFin = c.peerFin /\ b.ackNr = c.ackNr
                        /\ b.eof = c.eof /\ b.held = c.held /\ b.pending = c.pending

(* A step that leaves no end of a stream untold.                           *)
Fits(e, c, b, L) == Fit(e, c, L) => Fit(e, b, L)

(* One that changes none of this.                                          *)
LEMMA AlikeFits ==
    ASSUME NEW e, NEW c, NEW b, NEW L, Alike(c, b)
    PROVE  Fits(e, c, b, L)
BY DEF Fits, Fit, Alike

(* A closed end waits for nothing.                                         *)
LEMMA ClosedFits ==
    ASSUME NEW e, NEW c, NEW b, NEW L, b.state \notin Open
    PROVE  Fits(e, c, b, L) /\ RestOK(e, b, L)
BY DEF Fits, Fit, RestOK, Open

(* Nor does a step wait that changes no buffer.                            *)
LEMMA RestSame ==
    ASSUME NEW e, NEW c, NEW b, NEW L, RestOK(e, c, L), Alike(c, b), b.state = c.state,
           b.unacked = c.unacked, b.sendBuf = c.sendBuf, b.wantFin = c.wantFin,
           b.probe = c.probe, c.nudge => b.nudge
    PROVE  RestOK(e, b, L)
<1>1. Fit(e, b, L)
  BY AlikeFits DEF RestOK, Fits
<1>2. InFlight(b) = InFlight(c) /\ (Blocked(b) <=> Blocked(c))
  BY SameFlight
<1> QED BY <1>1, <1>2 DEF RestOK

(* A nudge is enough.                                                      *)
LEMMA NudgedRests ==
    ASSUME NEW e, NEW c, NEW b, NEW L, RestOK(e, c, L), Alike(c, b), b.nudge
    PROVE  RestOK(e, b, L)
BY AlikeFits DEF RestOK, Fits

(* Sending changes none of this.                                           *)
LEMMA FilledAlike ==
    ASSUME NEW c, NEW b, Same(c, b, Sending)
    PROVE  Alike(c, b) /\ b.state = c.state /\ b.offered = c.offered /\ b.wantFin = c.wantFin
BY DEF Same, Sending, Fields, Alike

(* The three steps of a pass that send.                                    *)
Waits(c) ==
    c.state \in Open => /\ Armed(c)
                        /\ c.state = "connected" /\ c.wantFin => c.sendBuf # <<>>

(* fill_send_window, maybe_send_fin and fill_send_window.                  *)
LEMMA SendsRest ==
    ASSUME NEW e \in Ends, NEW c, NEW d, NEW w, NEW g, Good(e, c, d, w, g), Ctx(e, d),
           Few(c, w, 1), c.state # "none", NEW cwnd \in Nat
    PROVE  LET f == FillSendWindow(MaybeSendFin(FillSendWindow(c, cwnd)), cwnd)
           IN  /\ Good(e, f, d, w, g) /\ f.state # "none" /\ Waits(f) /\ Alike(c, f)
               /\ f.offered = c.offered /\ Short(f)
<1> DEFINE f1 == FillSendWindow(c, cwnd)
           f2 == MaybeSendFin(f1)
           f3 == FillSendWindow(f2, cwnd)
<1>1. Good(e, f1, d, w, g) /\ Same(c, f1, Sending) /\ Few(f1, w, 1)
  BY FillKeeps DEF Keeps
<1>2. c.state \in Open => Armed(f1) /\ (c.state = "connected" => ~Sends(f1, cwnd))
  BY FillArms DEF Open
<1> HIDE DEF f1
<1>3. Alike(c, f1) /\ f1.state = c.state /\ f1.offered = c.offered /\ f1.wantFin = c.wantFin
  BY <1>1, FilledAlike
<1>4. /\ Good(e, f2, d, w, g) /\ Same(f1, f2, Sending \cup {"state"}) /\ Few(f2, w, 0)
      /\ f2.state # f1.state => f2.state = "fin"
      /\ f1.wantFin /\ f1.state = "connected" /\ f1.sendBuf = <<>> => f2.state = "fin"
      /\ ~(f1.wantFin /\ f1.state = "connected" /\ f1.sendBuf = <<>>) => f2 = f1
  BY <1>1, FinKeeps
<1> HIDE DEF f2
<1>5. /\ f2.peerFin = f1.peerFin /\ f2.ackNr = f1.ackNr /\ f2.eof = f1.eof /\ f2.held = f1.held
      /\ f2.pending = f1.pending /\ f2.offered = f1.offered /\ f2.wantFin = f1.wantFin
  BY <1>4 DEF Same, Sending, Fields
<1>6. f2.state # "none" /\ (f2.state = f1.state \/ (f2.state = "fin" /\ f1.state = "connected"))
  BY <1>3, <1>4
<1>7. Good(e, f3, d, w, g) /\ Same(f2, f3, Sending) /\ Few(f3, w, 0)
  BY <1>4, <1>6, FillKeeps DEF Keeps
<1>8. f2.state \in Open => Armed(f3)
  BY <1>4, FillArms DEF Open
<1>9. f2.state = "connected" /\ f2.wantFin => f3.sendBuf # <<>>
  <2> SUFFICES ASSUME f2.state = "connected", f2.wantFin PROVE f3.sendBuf # <<>>
    OBVIOUS
  <2>1. f2 = f1 /\ f1.state = "connected" /\ c.state = "connected" /\ f1.sendBuf # <<>>
    BY <1>3, <1>4, <1>5, <1>6
  <2>2. Armed(f1) /\ ~Sends(f1, cwnd)
    BY <1>2, <2>1 DEF Open
  <2> QED BY <1>1, <2>1, <2>2, FillAgain
<1> HIDE DEF f3
<1>13. Short(f3)
  BY <1>7, FewShort DEF Good
<1>10. Alike(f2, f3) /\ f3.state = f2.state /\ f3.offered = f2.offered /\ f3.wantFin = f2.wantFin
  BY <1>7, FilledAlike
<1>11. Alike(c, f3)
  BY <1>3, <1>5, <1>6, <1>10 DEF Alike, Open
<1>12. Waits(f3)
  BY <1>8, <1>9, <1>10 DEF Waits
<1> QED BY <1>3, <1>5, <1>6, <1>7, <1>10, <1>11, <1>12, <1>13 DEF f1, f2, f3

(* After a pass of the driver an end does not wait for ever.               *)
LEMMA PassRests ==
    ASSUME NEW e \in Ends, NEW c, NEW d, NEW w, NEW g, Good(e, c, d, w, g), Ctx(e, d),
           Few(c, w, 1), c.state # "none", NEW cwnd \in Nat, NEW room \in BOOLEAN,
           Fit(e, c, d.log)
    PROVE  RestOK(e, Pass(c, e, cwnd, room), d.log)
<1> DEFINE f == FillSendWindow(MaybeSendFin(FillSendWindow(c, cwnd)), cwnd)
           h == HandOver(f, e, room)
           s == SendState(h)
           m == MaybeFinish(s)
<1>1. /\ Good(e, f, d, w, g) /\ f.state # "none" /\ Waits(f) /\ Alike(c, f)
      /\ f.offered = c.offered /\ Short(f)
  BY SendsRest
<1>0. Pass(c, e, cwnd, room) = IF m.offered /\ ~c.offered /\ ~m.held THEN Abort(m) ELSE m
  BY DEF Pass
<1> HIDE DEF f
<1>2. /\ Good(e, h, d, w, g) /\ h.log = f.log
      /\ \/ h = f
         \/ h.state = "closed"
         \/ Same(f, h, {"offered", "pending", "held"}) /\ h.offered /\ ~f.offered
  BY <1>1, HandOverKeeps
<1> HIDE DEF h
<1>3. h.state # "none" /\ Short(h)
  BY <1>1, <1>2 DEF Same, Fields, Short
<1>4. Good(e, s, d, w, g) /\ Same(h, s, {"out", "advertised", "needsAck"})
  BY <1>2, <1>3, SendStateKeeps
<1> HIDE DEF s
<1>5. /\ Good(e, m, d, w, g) /\ Same(s, m, {"state", "lingers"})
      /\ m.state # s.state => m.state = "closed"
  BY <1>4, FinishKeeps
<1> HIDE DEF m
<1>6. /\ m.peerFin = h.peerFin /\ m.ackNr = h.ackNr /\ m.eof = h.eof /\ m.held = h.held
      /\ m.pending = h.pending /\ m.offered = h.offered /\ m.wantFin = h.wantFin
      /\ m.sendBuf = h.sendBuf /\ m.unacked = h.unacked /\ m.probe = h.probe /\ m.nudge = h.nudge
      /\ m.state # h.state => m.state = "closed"
      /\ m.log = h.log
  BY <1>4, <1>5 DEF Same, Fields
<1>7. CASE m.state \notin Open
  <2>1. m.state # "none" /\ Short(m)
    BY <1>3, <1>6 DEF Short
  <2>2. Abort(m).state = "closed"
    BY <1>5, <2>1, AbortKeeps
  <2>3. Pass(c, e, cwnd, room).state \notin Open
    BY <1>0, <1>7, <2>2 DEF Open
  <2> QED BY <2>3, ClosedFits
<1>8. CASE m.offered /\ ~c.offered /\ ~m.held
  <2>1. m.state # "none" /\ Short(m)
    BY <1>3, <1>6 DEF Short
  <2>2. Abort(m).state = "closed"
    BY <1>5, <2>1, AbortKeeps
  <2>3. Pass(c, e, cwnd, room).state \notin Open
    BY <1>0, <1>8, <2>2 DEF Open
  <2> QED BY <2>3, ClosedFits
<1>9. CASE m.state \in Open /\ ~(m.offered /\ ~c.offered /\ ~m.held)
  <2>1. h.state = m.state /\ h.state # "closed"
    BY <1>6, <1>9 DEF Open
  <2>2. /\ h.state = f.state /\ h.peerFin = f.peerFin /\ h.ackNr = f.ackNr /\ h.eof = f.eof
        /\ h.wantFin = f.wantFin /\ h.sendBuf = f.sendBuf /\ h.unacked = f.unacked
        /\ h.probe = f.probe
    BY <1>2, <2>1 DEF Same, Fields
  <2>3. Fit(e, f, d.log)
    BY <1>1, AlikeFits DEF Fits
  <2>4. e = "responder" => m.held \/ m.pending
    <3>1. CASE h = f
      BY <1>6, <1>9, <2>1, <2>3, <3>1 DEF Fit
    <3>2. CASE h.offered /\ ~f.offered
      BY <1>1, <1>6, <1>9, <3>2
    <3> QED BY <1>2, <2>1, <3>1, <3>2
  <2>5. Fit(e, m, d.log)
    BY <1>6, <1>9, <2>1, <2>2, <2>3, <2>4 DEF Fit
  <2>6. InFlight(m) = InFlight(f) /\ (Blocked(m) <=> Blocked(f))
    BY <1>6, <2>2, SameFlight
  <2>7. Armed(f) /\ (f.state = "connected" /\ f.wantFin => f.sendBuf # <<>>)
    BY <1>1, <1>9, <2>1, <2>2 DEF Waits
  <2>8. RestOK(e, m, d.log)
    BY <1>6, <2>1, <2>2, <2>5, <2>6, <2>7 DEF RestOK, Armed
  <2> QED BY <1>0, <1>9, <2>8
<1> QED BY <1>7, <1>8, <1>9

-----------------------------------------------------------------------------
(* Acknowledgements.                                                       *)

(* Filtering keeps what was in order in order.                             *)
LEMMA FilterOrder ==
    ASSUME NEW X, NEW s \in Seq(X), NEW S, NEW f \in [X -> Nat],
           \A j, k \in 1..Len(s) : j < k => f[s[j]] < f[s[k]]
    PROVE  LET t == Filter(s, S) IN \A j, k \in 1..Len(t) : j < k => f[t[j]] < f[t[k]]
<1> DEFINE K(n) == Kept(s, S)[n]
           N == Len(s)
           G == {n \in Nat : n <= N =>
                   /\ K(n) \in Seq(X)
                   /\ \A j \in 1..Len(K(n)) : \E i \in 1..n : K(n)[j] = s[i]
                   /\ \A j, k \in 1..Len(K(n)) : j < k => f[K(n)[j]] < f[K(n)[k]]}
<1>1. /\ N \in Nat /\ K(0) = <<>>
      /\ \A i \in 1..N : K(i) = IF s[i] \in S THEN Append(K(i - 1), s[i]) ELSE K(i - 1)
  BY KeptStep
<1> HIDE DEF K
<1>2. 0 \in G
  <2>1. K(0) = <<>>
    BY <1>1
  <2>2. <<>> \in Seq(X) /\ \A j \in 1..Len(<<>>) : FALSE
    OBVIOUS
  <2> QED BY <2>1, <2>2
<1>3. ASSUME NEW n \in 1..N, n - 1 \in G PROVE n \in G
  <2> DEFINE A == K(n - 1)
  <2>1. /\ A \in Seq(X) /\ \A j \in 1..Len(A) : \E i \in 1..(n - 1) : A[j] = s[i]
        /\ \A j, k \in 1..Len(A) : j < k => f[A[j]] < f[A[k]]
    BY <1>1, <1>3
  <2>2. n \in Nat /\ n - 1 \in Nat /\ n <= N /\ s[n] \in X
    BY <1>1
  <2>3. CASE s[n] \notin S
    <3>1. K(n) = A
      BY <1>1, <2>3
    <3>2. \A j \in 1..Len(A) : \E i \in 1..n : A[j] = s[i]
      BY <2>1, <2>2
    <3> HIDE DEF A
    <3> QED BY <2>1, <2>2, <3>1, <3>2
  <2>4. CASE s[n] \in S
    <3> DEFINE B == K(n)
    <3>0. B = Append(A, s[n])
      BY <1>1, <2>4
    <3> HIDE DEF A, B
    <3>1. /\ B \in Seq(X) /\ Len(B) = Len(A) + 1 /\ B[Len(A) + 1] = s[n] /\ Len(A) \in Nat
          /\ \A j \in 1..Len(A) : B[j] = A[j]
      BY <2>1, <2>2, <3>0
    <3>2. ASSUME NEW j \in 1..Len(B) PROVE \E i \in 1..n : B[j] = s[i]
      <4>1. CASE j = Len(A) + 1
        BY <2>2, <3>1, <4>1
      <4>2. CASE j \in 1..Len(A)
        <5>1. PICK i \in 1..(n - 1) : A[j] = s[i]
          BY <2>1, <4>2
        <5>2. i \in 1..n
          BY <2>2
        <5> QED BY <3>1, <4>2, <5>1, <5>2
      <4> QED BY <3>1, <4>1, <4>2
    <3>3. ASSUME NEW j \in 1..Len(B), NEW k \in 1..Len(B), j < k PROVE f[B[j]] < f[B[k]]
      <4>1. j \in 1..Len(A) /\ B[j] = A[j]
        BY <3>1, <3>3, SMTT(30)
      <4>2. CASE k \in 1..Len(A)
        BY <2>1, <3>1, <3>3, <4>1, <4>2
      <4>3. CASE k = Len(A) + 1
        <5>1. PICK i \in 1..(n - 1) : A[j] = s[i]
          BY <2>1, <4>1
        <5>2. i \in 1..N /\ n \in 1..N /\ i < n
          BY <1>1, <2>2
        <5>3. f[s[i]] < f[s[n]]
          BY <5>2
        <5> QED BY <3>1, <4>1, <4>3, <5>1, <5>3
      <4> QED BY <3>1, <4>2, <4>3
    <3>4. B = K(n)
      BY DEF B
    <3> QED BY <2>2, <3>1, <3>2, <3>3, <3>4
  <2> QED BY <2>3, <2>4
<1>4. \A n \in 0..N : n \in G
  <2> HIDE DEF G
  <2>1. G \in SUBSET Nat
    BY DEF G
  <2> QED BY <1>1, <1>2, <1>3, <2>1, Induct
<1>5. N \in G
  BY <1>1, <1>4
<1>6. \A j, k \in 1..Len(K(N)) : j < k => f[K(N)[j]] < f[K(N)[k]]
  <2>1. N <= N
    BY <1>1
  <2> HIDE DEF N
  <2> QED BY <1>5, <2>1, Zenon
<1>7. Filter(s, S) = K(N)
  BY DEF Filter, K
<1> HIDE DEF N, G
<1> QED BY <1>6, <1>7

(* Packets that have arrived are forgotten.                                *)
LEMMA Forgotten ==
    ASSUME NEW e \in Ends, NEW c, NEW b, NEW d, NEW w, NEW g, Good(e, c, d, w, g), Short(c),
           c.state \in {"connected", "fin"}, Shape(b), Same(c, b, Minor \cup {"unacked"}),
           EarlyOK(e, b), NEW S, b.unacked = Filter(c.unacked, S),
           \A q \in Elems(c.unacked) \ S : Joined(Peer(e), d) /\ Has(e, d, Nth(e, q.seq))
    PROVE  Good(e, b, d, w, g) /\ Grows(e, c, b)
<1>1. /\ b.state = c.state /\ b.seqNr = c.seqNr /\ b.ackNr = c.ackNr /\ b.sendBuf = c.sendBuf
      /\ b.recv = c.recv /\ b.reorder = c.reorder
      /\ b.wantFin = c.wantFin /\ b.peerFin = c.peerFin /\ b.eof = c.eof /\ b.error = c.error
      /\ b.lingers = c.lingers /\ b.readerGone = c.readerGone /\ b.teardown = c.teardown
      /\ b.held = c.held /\ b.log = c.log /\ b.out = c.out
  BY DEF Same, Minor, Fields
<1>2. /\ StateOK(e, c) /\ SendOK(e, c, w) /\ RecvOK(e, c, d.log, g) /\ SizeOK(c)
      /\ AckOK(e, c, d) /\ OutOK(e, c)
  BY DEF Good
<1>3. Joined(e, b) = Joined(e, c)
  BY <1>1 DEF Joined
<1>4. Grows(e, c, b)
  BY <1>1, <1>3, GoodFacts, GrowsSame, LogSame
<1> DEFINE U == c.unacked
           V == b.unacked
<1>5. /\ U \in Seq(Packet)
      /\ \A k \in 1..Len(U) : Carries(e, c.log, U[k])
      /\ \A j, k \in 1..Len(U) : j < k => Nth(e, U[j].seq) < Nth(e, U[k].seq)
  BY <1>2 DEF SendOK
<1>6. V = Filter(U, S)
  OBVIOUS
<1> HIDE DEF U, V
<1>7. V \in Seq(Packet) /\ Elems(V) = Elems(U) \cap S
  BY <1>5, <1>6, FilterElems
<1>8. c.lingers => V = <<>>
  <2>1. c.lingers => U = <<>>
    BY <1>2 DEF StateOK, U
  <2>2. U = <<>> => Elems(U) = {}
    BY DEF Elems
  <2>3. V # <<>> => V[1] \in Elems(V)
    BY <1>7 DEF Elems
  <2> QED BY <1>7, <2>1, <2>2, <2>3
<1>9. StateOK(e, b)
  <2>1. b.unacked = V
    BY DEF V
  <2> QED BY <1>1, <1>2, <1>8, <2>1 DEF StateOK
<1>10. \A k \in 1..Len(V) : \E j \in 1..Len(U) : V[k] = U[j]
  BY <1>5, <1>7 DEF Elems
<1>11. \A j, k \in 1..Len(V) : j < k => Nth(e, V[j].seq) < Nth(e, V[k].seq)
  <2> DEFINE f == [q \in Packet |-> Nth(e, q.seq)]
  <2>1. f \in [Packet -> Nat]
    <3>1. \A q \in Packet : Nth(e, q.seq) \in Nat
      BY NthRange DEF Packet
    <3> QED BY <3>1
  <2>2. \A q \in Packet : f[q] = Nth(e, q.seq)
    OBVIOUS
  <2> HIDE DEF f
  <2>3. \A j, k \in 1..Len(U) : j < k => f[U[j]] < f[U[k]]
    BY <1>5, <2>2
  <2>4. \A j, k \in 1..Len(V) : j < k => f[V[j]] < f[V[k]]
    BY <1>5, <1>6, <2>1, <2>3, FilterOrder
  <2> QED BY <1>7, <2>2, <2>4
<1>12. SendOK(e, b, w)
  <2>1. \A k \in 1..Len(V) : Carries(e, b.log, V[k])
    BY <1>1, <1>5, <1>10
  <2>2. /\ LogOK(e, c.log) /\ w \in 0..Load[e] /\ c.seqNr = Add(Isn[e], Len(c.log))
        /\ c.sendBuf \in Seq(Nat)
        /\ \A k \in 1..Len(c.sendBuf) : c.sendBuf[k] = Upto(c.log, Len(c.log)) + k
        /\ Upto(c.log, Len(c.log)) + Len(c.sendBuf) <= w
        /\ (c.error = "none" \/ Ended(c.log) => Upto(c.log, Len(c.log)) + Len(c.sendBuf) = w)
    BY <1>2 DEF SendOK
  <2>3. b.unacked = V
    BY DEF V
  <2> QED BY <1>1, <1>7, <1>11, <2>1, <2>2, <2>3 DEF SendOK
<1>13. RecvOK(e, b, d.log, g)
  <2>1. b.eof /\ b.error = "none" => (c.peerFin # None /\ Nth(Peer(e), c.ackNr) = Len(d.log))
                                         \/ (b.wantFin /\ b.state = "closed")
    BY <1>1, <1>2 DEF RecvOK
  <2> QED BY <1>1, <1>2, <1>3, <2>1, RecvSame
<1>14. SizeOK(b)
  BY <1>1, <1>2, SizeSame
<1>15. AckOK(e, b, d)
  <2> SUFFICES ASSUME b.error = "none", NEW i \in 1..Len(b.log)
               PROVE  \/ \E k \in 1..Len(V) : Nth(e, V[k].seq) = i
                      \/ Joined(Peer(e), d) /\ Has(e, d, i)
    BY DEF AckOK, V
  <2>1. \/ \E k \in 1..Len(U) : Nth(e, U[k].seq) = i
        \/ Joined(Peer(e), d) /\ Has(e, d, i)
    BY <1>1, <1>2 DEF AckOK, U
  <2>2. ASSUME NEW k \in 1..Len(U), Nth(e, U[k].seq) = i
        PROVE  \/ \E j \in 1..Len(V) : Nth(e, V[j].seq) = i
               \/ Joined(Peer(e), d) /\ Has(e, d, i)
    <3>1. U[k] \in Elems(U)
      BY DEF Elems
    <3>2. CASE U[k] \in S
      <4>1. U[k] \in Elems(V)
        BY <1>7, <3>1, <3>2
      <4>2. PICK j \in 1..Len(V) : V[j] = U[k]
        BY <4>1 DEF Elems
      <4> QED BY <2>2, <4>2
    <3>3. CASE U[k] \notin S
      <4>1. Joined(Peer(e), d) /\ Has(e, d, Nth(e, U[k].seq))
        BY <3>1, <3>3 DEF U
      <4> QED BY <2>2, <4>1
    <3> QED BY <3>2, <3>3
  <2> QED BY <2>1, <2>2
<1>16. OutOK(e, b)
  BY <1>1, <1>2, <1>4, GoodFacts, OutSame
<1> QED BY <1>4, <1>9, <1>12, <1>13, <1>14, <1>15, <1>16 DEF Good

(* A packet marked as sent again.                                          *)
LEMMA PacketFast ==
    ASSUME NEW p \in Packet, NEW v \in BOOLEAN
    PROVE  LET q == [p EXCEPT !.fast = v]
           IN  /\ q \in Packet /\ q.seq = p.seq /\ q.type = p.type /\ q.data = p.data
               /\ q.resend = p.resend
<1> DEFINE q == [p EXCEPT !.fast = v]
<1>1. /\ p.type \in Kinds /\ p.seq \in Seqs /\ p.data \in Seq(Nat) /\ p.tx \in Nat
      /\ p.resend \in BOOLEAN
  BY DEF Packet
<1>2. q = [type |-> p.type, seq |-> p.seq, data |-> p.data, tx |-> p.tx,
           resend |-> p.resend, fast |-> v]
  <2>1. p = [type |-> p.type, seq |-> p.seq, data |-> p.data, tx |-> p.tx,
             resend |-> p.resend, fast |-> p.fast]
    BY DEF Packet
  <2>2. DOMAIN p = {"type", "seq", "data", "tx", "resend", "fast"}
    BY <2>1
  <2>3. DOMAIN q = {"type", "seq", "data", "tx", "resend", "fast"}
    BY <2>2
  <2>4. q.type = p.type /\ q.seq = p.seq /\ q.data = p.data /\ q.tx = p.tx
    BY <2>2
  <2>5. q.resend = p.resend /\ q.fast = v
    BY <2>2, Zenon
  <2>6. q = [f \in DOMAIN q |-> q[f]]
    BY Zenon
  <2> HIDE DEF q
  <2> QED BY <2>3, <2>4, <2>5, <2>6, Zenon
<1> HIDE DEF q
<1>3. q \in Packet
  BY <1>1, <1>2, Zenon DEF Packet
<1>4. q.seq = p.seq /\ q.type = p.type /\ q.data = p.data
  BY <1>2
<1>5. q.resend = p.resend
  BY <1>2, Zenon
<1> QED BY <1>3, <1>4, <1>5 DEF q

(* A packet is marked as sent again early, or its mark is cleared.         *)
Marked(c, i, v) == [c EXCEPT !.unacked = [@ EXCEPT ![i] = [c.unacked[i] EXCEPT !.fast = v]]]

(* Two queues of packets that carry and count the same.                    *)
Counts(s, t) ==
    \A k \in 1..Len(s) : t[k].data = s[k].data /\ t[k].resend = s[k].resend

(* Marking a packet, or clearing its mark, keeps Good.                     *)
LEMMA MarkKeeps ==
    ASSUME NEW e \in Ends, NEW c, NEW d, NEW w, NEW g, Good(e, c, d, w, g),
           c.state # "none", NEW i \in 1..Len(c.unacked), NEW v \in BOOLEAN
    PROVE  LET a == Marked(c, i, v)
           IN  /\ Good(e, a, d, w, g) /\ Grows(e, c, a) /\ Same(c, a, {"unacked"}) /\ Shape(a)
               /\ a.unacked \in Seq(Packet) /\ Len(a.unacked) = Len(c.unacked)
               /\ Counts(c.unacked, a.unacked)
<1> DEFINE p == c.unacked[i]
           q == [p EXCEPT !.fast = v]
           a == Marked(c, i, v)
<1>0. Shape(c) /\ EarlyOK(e, c) /\ c.unacked \in Seq(Packet) /\ p \in Packet
  <2>1. Shape(c) /\ EarlyOK(e, c) /\ c.unacked \in Seq(Packet)
    BY DEF Good, SendOK
  <2> QED BY <2>1
<1>1. q \in Packet /\ q.seq = p.seq /\ q.type = p.type /\ q.data = p.data /\ q.resend = p.resend
  BY <1>0, PacketFast
<1> HIDE DEF q
<1>2. Shape(a) /\ Same(c, a, {"unacked"}) /\ a.unacked = [c.unacked EXCEPT ![i] = q]
  <2>1. a = [c EXCEPT !.unacked = [@ EXCEPT ![i] = q]]
    BY DEF Marked, q
  <2> HIDE DEF a
  <2> QED BY <1>0, <2>1 DEF Shape, Same, Fields
<1> HIDE DEF a
<1>3. /\ a.unacked \in Seq(Packet) /\ Len(a.unacked) = Len(c.unacked) /\ a.unacked[i] = q
      /\ \A k \in 1..Len(c.unacked) \ {i} : a.unacked[k] = c.unacked[k]
  BY <1>0, <1>1, <1>2
<1>4. \A k \in 1..Len(c.unacked) : /\ a.unacked[k].seq = c.unacked[k].seq
                                   /\ a.unacked[k].type = c.unacked[k].type
                                   /\ a.unacked[k].data = c.unacked[k].data
                                   /\ a.unacked[k].resend = c.unacked[k].resend
  BY <1>1, <1>3
<1>5. /\ a.out = c.out /\ a.held = c.held /\ a.offered = c.offered /\ a.needsAck = c.needsAck
      /\ a.nudge = c.nudge /\ a.state = c.state /\ a.log = c.log /\ a.probe = c.probe /\ a.peerWnd = c.peerWnd
  BY <1>2 DEF Same, Fields
<1>6. EarlyOK(e, a)
  BY <1>0, <1>5 DEF EarlyOK
<1>7. Same(c, a, Minor \cup {"unacked", "out"})
  BY <1>2 DEF Same
<1>8. Good(e, a, d, w, g) /\ Grows(e, c, a)
  BY <1>2, <1>3, <1>4, <1>5, <1>6, <1>7, Repacked
<1>9. Counts(c.unacked, a.unacked)
  BY <1>4 DEF Counts
<1> QED BY <1>2, <1>3, <1>8, <1>9 DEF a

(* The fast retransmission of a packet keeps Good.                         *)
LEMMA FastKeeps ==
    ASSUME NEW e \in Ends, NEW c, NEW d, NEW w, NEW g, Good(e, c, d, w, g), Ctx(e, d),
           c.state # "none", NEW i \in 1..Len(c.unacked)
    PROVE  LET b == FastRetransmit(c, i)
           IN  /\ Good(e, b, d, w, g) /\ Grows(e, c, b) /\ Same(c, b, Sending)
               /\ Len(b.unacked) = Len(c.unacked) /\ b.log = c.log
<1> DEFINE a == Marked(c, i, TRUE)
           b == Retransmit(a, i)
<1>1. /\ Good(e, a, d, w, g) /\ Grows(e, c, a) /\ Same(c, a, {"unacked"}) /\ Shape(a)
      /\ Len(a.unacked) = Len(c.unacked)
  BY MarkKeeps
<1>2. FastRetransmit(c, i) = b
  BY DEF FastRetransmit, Marked
<1> HIDE DEF a
<1>3. a.state = c.state /\ a.log = c.log
  BY <1>1 DEF Same, Fields
<1>4. /\ Good(e, b, d, w, g) /\ Grows(e, a, b) /\ Same(a, b, Sending)
      /\ Len(b.unacked) = Len(a.unacked)
  BY <1>1, <1>3, RetransmitKeeps
<1>5. b.log = a.log
  <2>1. Same(a, b, {"out", "advertised", "probe", "needsAck", "unacked"})
    BY <1>1, RetransmitFields
  <2> QED BY <2>1 DEF Same, Fields
<1> HIDE DEF b
<1>6. Grows(e, c, b)
  BY <1>1, <1>4, GoodFacts, GrowsOn
<1>7. Same(c, b, Sending)
  BY <1>1, <1>4 DEF Same, Sending
<1> QED BY <1>1, <1>2, <1>3, <1>4, <1>5, <1>6, <1>7

(* What a datagram acknowledges has arrived.                               *)
LEMMA AckedHas ==
    ASSUME NEW e \in Ends, NEW c, NEW d, NEW w, NEW h, SendOK(e, c, w), Short(c),
           RecvOK(Peer(e), d, c.log, h), NEW m, MsgOK(Peer(e), d, m),
           m.type \in {"data", "fin", "state"}, NEW q \in Elems(c.unacked)
    PROVE  /\ ~SeqAfter(q.seq, m.ack) => Joined(Peer(e), d) /\ Has(e, d, Nth(e, q.seq))
           /\ SackBit(q, m) \in m.sack => Joined(Peer(e), d) /\ Has(e, d, Nth(e, q.seq))
<1> DEFINE n == Len(c.log)
           a == Nth(e, m.ack)
           r == Nth(e, d.ackNr)
           i == Nth(e, q.seq)
<1>1. Peer(e) \in Ends /\ Peer(Peer(e)) = e
  BY PeerFacts
<1>2. n \in Nat /\ n < Mod \div 2
  BY LogBound
<1>3. q.seq \in Seqs /\ i \in 1..n
  <2>1. c.unacked \in Seq(Packet) /\ \A k \in 1..Len(c.unacked) : Carries(e, c.log, c.unacked[k])
    BY DEF SendOK
  <2>2. q \in Packet /\ Carries(e, c.log, q)
    BY <2>1 DEF Elems
  <2> QED BY <2>2 DEF Packet, Carries
<1>4. Joined(Peer(e), d) /\ a <= r /\ \A b \in m.sack : Has(e, d, a + 2 + b)
  BY <1>1 DEF MsgOK
<1>5. m.ack \in Seqs /\ m.sack \subseteq Nat /\ d.ackNr \in Seqs
  BY DEF MsgOK, Datagram, RecvOK
<1>6. a \in Nat /\ r \in Nat /\ r <= n
  <2>1. r \in 0..n
    BY <1>1, <1>4 DEF RecvOK
  <2> QED BY <1>2, <1>5, <2>1, NthRange
<1>7. /\ a < Mod \div 2 /\ i < Mod \div 2 /\ a \in Nat /\ i \in Nat
  BY <1>2, <1>3, <1>4, <1>6, ModFacts
<1>8. ~SeqAfter(q.seq, m.ack) => i <= a
  <2>1. SeqAfter(q.seq, m.ack) <=> i > a
    BY <1>3, <1>5, <1>7, NthAfter
  <2> QED BY <1>7, <2>1
<1>9. ~SeqAfter(q.seq, m.ack) => Has(e, d, i)
  BY <1>4, <1>6, <1>7, <1>8 DEF Has
<1>10. SackBit(q, m) \in m.sack => Has(e, d, i)
  <2> DEFINE k == SackBit(q, m)
  <2>1. Add(m.ack, 2) \in Seqs /\ Nth(e, Add(m.ack, 2)) = a + 2
    <3>1. a + 2 \in Seqs /\ 2 \in Int
      BY <1>2, <1>4, <1>6, ModFacts DEF Seqs
    <3> QED BY <1>5, <3>1, NthAdd
  <2>2. k = IF i >= a + 2 THEN i - (a + 2) ELSE i - (a + 2) + Mod
    BY <1>3, <2>1, NthDistance DEF SackBit
  <2> HIDE DEF k
  <2>3. CASE i >= a + 2
    <3>1. a + 2 + k = i
      BY <1>7, <2>2, <2>3
    <3> QED BY <1>4, <3>1 DEF k
  <2>4. CASE i < a + 2
    <3>1. a + 2 + k = i + Mod /\ i + Mod > r
      BY <1>2, <1>3, <1>6, <1>7, <2>2, <2>4, ModFacts
    <3>2. \A o \in d.reorder : Nth(e, o.seq) # i + Mod
      <4>1. \A o \in d.reorder : Nth(e, o.seq) \in (r + 2)..n
        BY <1>1, <1>4 DEF RecvOK
      <4>2. i + Mod > n
        BY <1>2, <1>7, ModFacts
      <4> QED BY <1>2, <1>6, <1>7, <4>1, <4>2, ModFacts
    <3>3. ~Has(e, d, i + Mod)
      BY <1>6, <1>7, <3>1, <3>2, ModFacts DEF Has
    <3> QED BY <1>4, <3>1, <3>3 DEF k
  <2> QED BY <1>7, <2>3, <2>4
<1> QED BY <1>4, <1>9, <1>10

(* The fields that an acknowledgement changes.                             *)
Acking == Sending \cup {"dupAcks", "lastAck"}

(* process_ack keeps Good.                                                 *)
LEMMA AckKeeps ==
    ASSUME NEW e \in Ends, NEW c, NEW d, NEW w, NEW g, NEW h, Good(e, c, d, w, g), Ctx(e, d),
           Short(c), c.state \in {"connected", "fin"}, RecvOK(Peer(e), d, c.log, h),
           NEW m, MsgOK(Peer(e), d, m), m.type \in {"data", "fin", "state"}
    PROVE  LET b == ProcessAck(c, m)
           IN  /\ Good(e, b, d, w, g) /\ Grows(e, c, b) /\ Same(c, b, Acking) /\ b.log = c.log
<1> DEFINE S == {q \in Elems(c.unacked) : SeqAfter(q.seq, m.ack)}
           rest == Filter(c.unacked, S)
           x == [c EXCEPT !.unacked = rest, !.dupAcks = 0]
           y == [c EXCEPT !.dupAcks = IF @ > DupAcks THEN @ ELSE @ + 1]
           z == FastRetransmitFront(y, m.ack)
           last(u) == [u EXCEPT !.lastAck = m.ack]
<1>1. Shape(c) /\ EarlyOK(e, c) /\ SendOK(e, c, w) /\ c.unacked \in Seq(Packet)
  BY DEF Good, SendOK
<1>2. Good(e, x, d, w, g) /\ Grows(e, c, x) /\ Same(c, x, Acking) /\ x.log = c.log
  <2>1. Shape(x) /\ Same(c, x, {"unacked", "dupAcks"}) /\ x.unacked = rest
    BY <1>1 DEF Shape, Same, Fields
  <2> HIDE DEF x, rest, S
  <2>2. /\ Same(c, x, Minor \cup {"unacked"}) /\ Same(c, x, Acking) /\ x.log = c.log /\ x.probe = c.probe /\ x.peerWnd = c.peerWnd
        /\ x.held = c.held /\ x.offered = c.offered /\ x.needsAck = c.needsAck /\ x.nudge = c.nudge
    BY <2>1 DEF Same, Minor, Acking, Sending, Fields
  <2>3. EarlyOK(e, x)
    BY <1>1, <2>2 DEF EarlyOK
  <2>4. \A q \in Elems(c.unacked) \ S : Joined(Peer(e), d) /\ Has(e, d, Nth(e, q.seq))
    BY <1>1, AckedHas DEF S
  <2>5. Good(e, x, d, w, g) /\ Grows(e, c, x)
    BY <2>1, <2>2, <2>3, <2>4, Forgotten DEF rest
  <2> QED BY <2>2, <2>5
<1>3. Good(e, y, d, w, g) /\ Grows(e, c, y) /\ Same(c, y, {"dupAcks"})
  <2>1. Shape(y) /\ Same(c, y, {"dupAcks"})
    BY <1>1 DEF Shape, Same, Fields
  <2> HIDE DEF y
  <2>2. /\ Same(c, y, Minor) /\ y.probe = c.probe /\ y.peerWnd = c.peerWnd
        /\ y.held = c.held /\ y.offered = c.offered /\ y.needsAck = c.needsAck /\ y.nudge = c.nudge
    BY <2>1 DEF Same, Minor, Fields
  <2>3. EarlyOK(e, y)
    BY <1>1, <2>2 DEF EarlyOK
  <2> QED BY <2>1, <2>2, <2>3, MinorChange
<1>4. y.unacked = c.unacked /\ y.log = c.log /\ y.state = c.state
  BY <1>3 DEF Same, Fields
<1>5. Same(c, y, Acking)
  BY <1>3 DEF Same, Acking, Minor
<1> HIDE DEF y
<1>6. Good(e, z, d, w, g) /\ Grows(e, c, z) /\ Same(c, z, Acking) /\ z.log = c.log
  <2>1. CASE z = y
    BY <1>3, <1>4, <1>5, <2>1
  <2>2. CASE y.unacked # <<>> /\ z = FastRetransmit(y, 1)
    <3>1. 1 \in 1..Len(y.unacked)
      BY <1>1, <1>4, <2>2
    <3>2. /\ Good(e, z, d, w, g) /\ Grows(e, y, z) /\ Same(y, z, Sending)
          /\ z.log = y.log
      BY <1>3, <1>4, <2>2, <3>1, FastKeeps
    <3> HIDE DEF z
    <3>3. Grows(e, c, z)
      BY <1>3, <3>2, GoodFacts, GrowsOn
    <3>4. Same(c, z, Acking)
      BY <1>5, <3>2 DEF Same, Acking
    <3> QED BY <1>4, <3>2, <3>3, <3>4
  <2> QED BY <2>1, <2>2 DEF FastRetransmitFront
<1> HIDE DEF x, z
<1>7. Good(e, c, d, w, g) /\ Grows(e, c, c) /\ Same(c, c, Acking) /\ c.log = c.log
  BY GoodFacts, GrowsItself DEF Same
<1>8. ASSUME NEW u, Good(e, u, d, w, g) /\ Grows(e, c, u) /\ Same(c, u, Acking) /\ u.log = c.log
      PROVE  /\ Good(e, last(u), d, w, g) /\ Grows(e, c, last(u)) /\ Same(c, last(u), Acking)
             /\ last(u).log = c.log
  <2> DEFINE v == last(u)
  <2>1. Shape(u) /\ EarlyOK(e, u)
    BY <1>8 DEF Good
  <2>2. Shape(v) /\ Same(u, v, {"lastAck"})
    BY <2>1 DEF Shape, Same, Fields
  <2> HIDE DEF v
  <2>3. /\ Same(u, v, Minor) /\ v.log = u.log /\ u.state # "none" /\ v.probe = u.probe /\ v.peerWnd = u.peerWnd
        /\ v.held = u.held /\ v.offered = u.offered /\ v.needsAck = u.needsAck /\ v.nudge = u.nudge
    BY <1>8, <2>2 DEF Same, Minor, Fields, Acking, Sending
  <2>4. EarlyOK(e, v)
    BY <2>1, <2>3 DEF EarlyOK
  <2>5. Good(e, v, d, w, g) /\ Grows(e, u, v)
    BY <1>8, <2>2, <2>3, <2>4, MinorChange
  <2>6. Grows(e, c, v)
    BY <1>8, <2>5, GoodFacts, GrowsOn
  <2>7. Same(c, v, Acking)
    BY <1>8, <2>2 DEF Same, Acking, Minor
  <2> QED BY <1>8, <2>3, <2>5, <2>6, <2>7 DEF v
<1>9. \E u \in {c, x, y, z} : ProcessAck(c, m) = last(u)
  BY DEF ProcessAck, x, y, z
<1> HIDE DEF last
<1> QED BY <1>2, <1>3, <1>4, <1>5, <1>6, <1>7, <1>8, <1>9

(* The recursion of Hastened is well founded.                              *)
LEMMA HastenedStep ==
    ASSUME NEW c, NEW m, Len(c.unacked) \in Nat
    PROVE  /\ Hastened(c, m)[0] = c
           /\ \A n \in 1..Len(c.unacked) :
                Hastened(c, m)[n] = IF Lost(c.unacked[n], m)
                                      THEN FastRetransmit(Hastened(c, m)[n - 1], n)
                                      ELSE Hastened(c, m)[n - 1]
<1> DEFINE Next(x, i) == IF Lost(c.unacked[i], m) THEN FastRetransmit(x, i) ELSE x
           Body(f, n) == [i \in 0..n |-> IF i = 0 THEN c
                                         ELSE IF Lost(c.unacked[i], m) THEN FastRetransmit(f[i - 1], i)
                                         ELSE f[i - 1]]
           G == {n \in Nat : \E f : f = Body(f, n)}
           N == Len(c.unacked)
<1>1. 0 \in G
  <2>1. [i \in 0..0 |-> c] = Body([i \in 0..0 |-> c], 0)
    OBVIOUS
  <2> QED BY <2>1
<1>2. ASSUME NEW n \in 1..N, n - 1 \in G PROVE n \in G
  <2>1. PICK f : f = Body(f, n - 1)
    BY <1>2
  <2> DEFINE h == [i \in 0..n |-> IF i = n THEN Next(f[n - 1], n) ELSE f[i]]
  <2>2. \A i \in 0..n : h[i] = IF i = 0 THEN c ELSE Next(h[i - 1], i)
    <3> SUFFICES ASSUME NEW i \in 0..n
                 PROVE  h[i] = IF i = 0 THEN c ELSE Next(h[i - 1], i)
      OBVIOUS
    <3>1. i # 0 => h[i - 1] = f[i - 1]
      OBVIOUS
    <3>2. CASE i = n
      BY <3>1, <3>2
    <3>3. CASE i # n
      <4>1. h[i] = f[i] /\ i \in 0..(n - 1)
        BY <3>3
      <4>2. f[i] = Body(f, n - 1)[i]
        BY <2>1
      <4> QED BY <3>1, <4>1, <4>2
    <3> QED BY <3>2, <3>3
  <2>3. h = Body(h, n)
    BY <2>2
  <2>4. \E k : k = Body(k, n)
    <3> HIDE DEF h, Body
    <3> QED BY <2>3
  <2> QED BY <2>4
<1>3. N \in G
  <2>1. G \in SUBSET Nat /\ N \in Nat
    OBVIOUS
  <2> HIDE DEF G, N
  <2>2. \A i \in 0..N : i \in G
    BY <1>1, <1>2, <2>1, Induct
  <2> QED BY <2>1, <2>2
<1>4. PICK f : f = Body(f, N)
  BY <1>3
<1>5. Hastened(c, m) = Body(Hastened(c, m), N)
  BY <1>4 DEF Hastened
<1> DEFINE r == Hastened(c, m)
<1> HIDE DEF r
<1>6. \A i \in 0..N : r[i] = Body(r, N)[i]
  BY <1>5 DEF r
<1>7. N \in Nat
  OBVIOUS
<1> HIDE DEF N
<1>8. r[0] = c
  BY <1>6, <1>7
<1>9. \A n \in 1..N : r[n] = Next(r[n - 1], n)
  BY <1>6, <1>7
<1> QED BY <1>8, <1>9 DEF r, N

(* process_selective_ack keeps Good.                                       *)
LEMMA SelectiveAckKeeps ==
    ASSUME NEW e \in Ends, NEW c, NEW d, NEW w, NEW g, NEW h, Good(e, c, d, w, g), Ctx(e, d),
           Short(c), c.state \in {"connected", "fin"}, RecvOK(Peer(e), d, c.log, h),
           NEW m, MsgOK(Peer(e), d, m), m.type \in {"data", "fin", "state"}
    PROVE  LET b == ProcessSelectiveAck(c, m)
           IN  /\ Good(e, b, d, w, g) /\ Grows(e, c, b) /\ Same(c, b, Acking) /\ b.log = c.log
<1> DEFINE S == {q \in Elems(c.unacked) : SackBit(q, m) \notin m.sack}
           rest == Filter(c.unacked, S)
           x == [c EXCEPT !.unacked = rest]
           N == Len(rest)
           R(n) == Hastened(x, m)[n]
           Fine(b) == /\ Good(e, b, d, w, g) /\ Grows(e, c, b) /\ Same(c, b, Acking)
                      /\ b.log = c.log /\ Len(b.unacked) = N
           G == {n \in Nat : n <= N => Fine(R(n))}
<1>1. Shape(c) /\ EarlyOK(e, c) /\ SendOK(e, c, w) /\ c.unacked \in Seq(Packet)
  BY DEF Good, SendOK
<1>2. rest \in Seq(Packet)
  BY <1>1, FilterElems
<1>3. Fine(x) /\ x.unacked = rest
  <2>1. Shape(x) /\ Same(c, x, {"unacked"}) /\ x.unacked = rest
    BY <1>1 DEF Shape, Same, Fields
  <2> HIDE DEF x, rest, S
  <2>2. /\ Same(c, x, Minor \cup {"unacked"}) /\ Same(c, x, Acking) /\ x.log = c.log /\ x.probe = c.probe /\ x.peerWnd = c.peerWnd
        /\ x.held = c.held /\ x.offered = c.offered /\ x.needsAck = c.needsAck /\ x.nudge = c.nudge
    BY <2>1 DEF Same, Minor, Acking, Sending, Fields
  <2>3. EarlyOK(e, x)
    BY <1>1, <2>2 DEF EarlyOK
  <2>4. \A q \in Elems(c.unacked) \ S : Joined(Peer(e), d) /\ Has(e, d, Nth(e, q.seq))
    BY <1>1, AckedHas DEF S
  <2>5. Good(e, x, d, w, g) /\ Grows(e, c, x)
    BY <2>1, <2>2, <2>3, <2>4, Forgotten DEF rest
  <2> QED BY <2>1, <2>2, <2>5
<1> HIDE DEF x, rest
<1>4. N \in Nat
  BY <1>2
<1>5. /\ R(0) = x
      /\ \A n \in 1..N : R(n) = IF Lost(x.unacked[n], m) THEN FastRetransmit(R(n - 1), n)
                                ELSE R(n - 1)
  BY <1>3, <1>4, HastenedStep
<1> HIDE DEF R, N
<1>6. 0 \in G
  BY <1>3, <1>5
<1>7. ASSUME NEW n \in 1..N, n - 1 \in G PROVE n \in G
  <2>1. Fine(R(n - 1))
    BY <1>4, <1>7
  <2>2. R(n - 1).state # "none"
    BY <2>1 DEF Same, Acking, Sending, Minor, Fields
  <2>3. CASE R(n) = R(n - 1)
    BY <1>4, <2>1, <2>3
  <2>4. CASE R(n) = FastRetransmit(R(n - 1), n)
    <3>1. /\ Good(e, R(n), d, w, g) /\ Grows(e, R(n - 1), R(n)) /\ Same(R(n - 1), R(n), Sending)
          /\ R(n).log = R(n - 1).log /\ Len(R(n).unacked) = Len(R(n - 1).unacked)
      BY <2>1, <2>2, <2>4, FastKeeps
    <3>2. Grows(e, c, R(n))
      BY <2>1, <3>1, GoodFacts, GrowsOn
    <3>3. Same(c, R(n), Acking)
      BY <2>1, <3>1 DEF Same, Acking
    <3> QED BY <1>4, <2>1, <3>1, <3>2, <3>3
  <2> QED BY <1>5, <2>3, <2>4
<1>8. \A n \in 0..N : n \in G
  <2> HIDE DEF G
  <2>1. G \in SUBSET Nat
    BY DEF G
  <2> QED BY <1>4, <1>6, <1>7, <2>1, Induct
<1>9. Fine(R(N))
  BY <1>4, <1>8
<1>10. /\ Good(e, c, d, w, g) /\ Grows(e, c, c) /\ Same(c, c, Acking) /\ c.log = c.log
  BY GoodFacts, GrowsItself DEF Same
<1>11. ProcessSelectiveAck(c, m) = c \/ ProcessSelectiveAck(c, m) = R(N)
  BY DEF ProcessSelectiveAck, R, N, x, rest
<1> QED BY <1>9, <1>10, <1>11

-----------------------------------------------------------------------------
(* Data in order.                                                          *)

(* RecvOK while buffered packets are taken over one after the other.       *)
DrainOK(e, c, L, g) ==
    LET p == Peer(e)
        r == Nth(p, c.ackNr)
    IN  /\ c.recv \in Seq(Nat) /\ g \in Seq(Nat) /\ \A k \in 1..Len(g) : g[k] = k
        /\ Len(g) <= Upto(L, Len(L))
        /\ IsFiniteSet(c.reorder) /\ c.ackNr \in Seqs
        /\ c.peerFin # None => c.peerFin \in Seqs /\ Ended(L) /\ Nth(p, c.peerFin) = Len(L)
        /\ c.readerGone => c.recv = <<>>
        /\ r \in 0..Len(L) /\ (e = "responder" => r >= 1)
        /\ \A q \in c.reorder :
              LET i == Nth(p, q.seq)
              IN  /\ q \in Buffered /\ i \in (r + 1)..Len(L)
                  /\ q.data = IF c.readerGone THEN <<>> ELSE Units(L, i)
        /\ \A q, o \in c.reorder : q.seq = o.seq => q = o
        /\ ~c.readerGone => /\ Len(g) + Len(c.recv) = Upto(L, r)
                            /\ \A k \in 1..Len(c.recv) : c.recv[k] = Len(g) + k
        /\ Ended(L) /\ Has(p, c, Len(L)) => c.peerFin # None
        /\ e = "responder" /\ c.held => Len(L) >= 2
        /\ c.eof /\ c.error = "none" => c.peerFin # None /\ r = Len(L)

(* Before the loop ...                                                     *)
LEMMA RecvToDrain ==
    ASSUME NEW e \in Ends, NEW c, NEW L, NEW g, RecvOK(e, c, L, g), Joined(e, c),
           c.state # "closed", LogOK(Peer(e), L)
    PROVE  DrainOK(e, c, L, g)
<1> DEFINE r == Nth(Peer(e), c.ackNr)
<1>1. r \in 0..Len(L) /\ Len(L) \in Nat
  BY LogFacts, PeerFacts DEF RecvOK
<1>2. \A q \in c.reorder : LET i == Nth(Peer(e), q.seq)
                           IN  /\ q \in Buffered /\ i \in (r + 1)..Len(L)
                               /\ q.data = IF c.readerGone THEN <<>> ELSE Units(L, i)
  BY <1>1 DEF RecvOK
<1> HIDE DEF r
<1> QED BY <1>2 DEF RecvOK, DrainOK, r

(* ... and after it, when the next packet is not kept.                     *)
LEMMA DrainToRecv ==
    ASSUME NEW e \in Ends, NEW c, NEW L, NEW g, DrainOK(e, c, L, g), Joined(e, c), LogOK(Peer(e), L),
           \A q \in c.reorder : Nth(Peer(e), q.seq) # Nth(Peer(e), c.ackNr) + 1
    PROVE  RecvOK(e, c, L, g)
<1> DEFINE r == Nth(Peer(e), c.ackNr)
<1>1. r \in 0..Len(L) /\ Len(L) \in Nat
  BY LogFacts, PeerFacts DEF DrainOK
<1>2. \A q \in c.reorder : LET i == Nth(Peer(e), q.seq)
                           IN  /\ q \in Buffered /\ i \in (r + 2)..Len(L)
                               /\ q.data = IF c.readerGone THEN <<>> ELSE Units(L, i)
  BY <1>1 DEF DrainOK
<1> HIDE DEF r
<1> QED BY <1>2 DEF RecvOK, DrainOK, r

(* One packet more of a set of buffered ones.                              *)
LEMMA OneMore ==
    ASSUME NEW S, IsFiniteSet(S), \A q \in S : q.data \in Seq(Nat), NEW x, x \notin S,
           x.data \in Seq(Nat)
    PROVE  Cardinality(UNION {{q} \X DOMAIN q.data : q \in S \cup {x}})
              = Cardinality(UNION {{q} \X DOMAIN q.data : q \in S}) + Len(x.data)
<1> DEFINE A == UNION {{q} \X DOMAIN q.data : q \in S}
           B == {x} \X DOMAIN x.data
           C == UNION {{q} \X DOMAIN q.data : q \in S \cup {x}}
<1>1. C = A \cup B
  OBVIOUS
<1>2. A \cap B = {}
  OBVIOUS
<1>3. IsFiniteSet(A)
  BY FinitePairs
<1>4. /\ DOMAIN x.data = 1..Len(x.data) /\ Len(x.data) \in Nat
  OBVIOUS
<1>5. IsFiniteSet(1..Len(x.data)) /\ Cardinality(1..Len(x.data)) = Len(x.data)
  <2>1. 1 \in Int /\ Len(x.data) \in Int
    BY <1>4
  <2>2. /\ IsFiniteSet(1..Len(x.data))
        /\ Cardinality(1..Len(x.data)) = IF 1 > Len(x.data) THEN 0 ELSE Len(x.data) - 1 + 1
    BY <2>1, FS_Interval
  <2> QED BY <1>4, <2>2
<1>6. IsFiniteSet({x}) /\ Cardinality({x}) = 1
  BY FS_Singleton
<1>7. IsFiniteSet(B) /\ Cardinality(B) = Len(x.data)
  <2>1. IsFiniteSet({x} \X (1..Len(x.data)))
        /\ Cardinality({x} \X (1..Len(x.data))) = Cardinality({x}) * Cardinality(1..Len(x.data))
    BY <1>5, <1>6, FS_Product
  <2>2. 1 * Len(x.data) = Len(x.data)
    BY <1>4
  <2>3. B = {x} \X (1..Len(x.data))
    BY <1>4
  <2> QED BY <1>5, <1>6, <2>1, <2>2, <2>3
<1> HIDE DEF A, B, C
<1>8. A \cap B = {} /\ Cardinality({}) = 0
  BY <1>2, FS_EmptySet
<1>9. Cardinality(A \cup B) = Cardinality(A) + Cardinality(B) - Cardinality(A \cap B)
  BY <1>3, <1>7, FS_Union
<1>10. Cardinality(A) \in Nat
  BY <1>3, FS_CardinalityType
<1>11. Cardinality(C) = Cardinality(A) + Len(x.data)
  <2>1. Cardinality(C) = Cardinality(A) + Len(x.data) - 0
    BY <1>1, <1>7, <1>8, <1>9
  <2>2. \A j, k \in Nat : j + k - 0 = j + k
    OBVIOUS
  <2> QED BY <1>4, <1>10, <2>1, <2>2
<1> QED BY <1>11 DEF A, C

(* Fewer packets hold no more units.                                       *)
LEMMA FewerPairs ==
    ASSUME NEW S, NEW T, T \subseteq S, IsFiniteSet(S), \A q \in S : q.data \in Seq(Nat)
    PROVE  Cardinality(UNION {{q} \X DOMAIN q.data : q \in T})
              <= Cardinality(UNION {{q} \X DOMAIN q.data : q \in S})
<1>1. IsFiniteSet(UNION {{q} \X DOMAIN q.data : q \in S})
  BY FinitePairs
<1>2. UNION {{q} \X DOMAIN q.data : q \in T} \subseteq UNION {{q} \X DOMAIN q.data : q \in S}
  OBVIOUS
<1> QED BY <1>1, <1>2, FS_Subset

(* The state after bytes were taken over.                                  *)
Receiving == {"ackNr", "recv", "reorder", "peerFin"}

(* A change of the receiving half keeps Good.                              *)
LEMMA Received ==
    ASSUME NEW e \in Ends, NEW c, NEW b, NEW d, NEW w, NEW g, Good(e, c, d, w, g),
           c.state # "none", Shape(b), Same(c, b, Receiving), Grows(e, c, b),
           RecvOK(e, b, d.log, g), SizeOK(b)
    PROVE  Good(e, b, d, w, g)
<1>1. /\ b.state = c.state /\ b.seqNr = c.seqNr /\ b.sendBuf = c.sendBuf
      /\ b.unacked = c.unacked /\ b.wantFin = c.wantFin /\ b.eof = c.eof /\ b.error = c.error
      /\ b.lingers = c.lingers /\ b.readerGone = c.readerGone /\ b.teardown = c.teardown
      /\ b.held = c.held /\ b.out = c.out /\ b.log = c.log /\ b.needsAck = c.needsAck
      /\ b.nudge = c.nudge /\ b.offered = c.offered /\ b.probe = c.probe /\ b.peerWnd = c.peerWnd
  BY DEF Same, Receiving, Fields
<1>2. /\ StateOK(e, c) /\ EarlyOK(e, c) /\ SendOK(e, c, w) /\ AckOK(e, c, d) /\ OutOK(e, c)
  BY DEF Good
<1>3. StateOK(e, b) /\ EarlyOK(e, b)
  BY <1>1, <1>2 DEF StateOK, EarlyOK
<1>4. SendOK(e, b, w) /\ AckOK(e, b, d)
  BY <1>1, <1>2, SendSame, AckSame
<1>5. OutOK(e, b)
  <2>1. b.ackNr \in Seqs
    BY DEF RecvOK
  <2> QED BY <1>1, <1>2, <2>1, GoodFacts, OutSame
<1> QED BY <1>3, <1>4, <1>5 DEF Good

(* The fields after Consume.                                               *)
LEMMA ConsumeFields ==
    ASSUME NEW c, Shape(c), NEW type, NEW seq, NEW data
    PROVE  LET b == Consume(c, type, seq, data)
           IN  /\ Shape(b) /\ Same(c, b, {"ackNr", "recv", "peerFin"}) /\ b.ackNr = seq
               /\ b.peerFin = IF type = "fin" THEN seq ELSE c.peerFin
               /\ b.recv = IF type = "fin" \/ c.readerGone THEN c.recv ELSE c.recv \o data
BY ZenonT(30) DEF Consume, Shape, Same, Fields

(* The next packet in order is taken over.                                 *)
LEMMA ConsumeKeeps ==
    ASSUME NEW e \in Ends, NEW c, NEW L, NEW g, DrainOK(e, c, L, g), Shape(c), Joined(e, c),
           LogOK(Peer(e), L), c.error = "none", NEW seq \in Seqs, NEW type, NEW data,
           Nth(Peer(e), seq) = Nth(Peer(e), c.ackNr) + 1, Nth(Peer(e), seq) <= Len(L),
           type = "fin" <=> L[Nth(Peer(e), seq)].type = "fin",
           data = IF c.readerGone THEN <<>> ELSE Units(L, Nth(Peer(e), seq)),
           \A q \in c.reorder : q.seq # seq
    PROVE  LET b == Consume(c, type, seq, data)
           IN  /\ DrainOK(e, b, L, g) /\ Shape(b) /\ Same(c, b, {"ackNr", "recv", "peerFin"})
               /\ Grows(e, c, b) /\ Joined(e, b)
               /\ Len(b.recv) <= Len(c.recv) + Len(data) /\ Len(b.recv) \in Nat
<1> DEFINE p == Peer(e)
           r == Nth(p, c.ackNr)
           i == Nth(p, seq)
           b == Consume(c, type, seq, data)
<1>0. p \in Ends
  BY PeerFacts
<1>1. /\ Shape(b) /\ Same(c, b, {"ackNr", "recv", "peerFin"}) /\ b.ackNr = seq
      /\ b.peerFin = IF type = "fin" THEN seq ELSE c.peerFin
      /\ b.recv = IF type = "fin" \/ c.readerGone THEN c.recv ELSE c.recv \o data
  BY ConsumeFields
<1> HIDE DEF b
<1>2. /\ b.state = c.state /\ b.reorder = c.reorder /\ b.readerGone = c.readerGone /\ b.held = c.held
      /\ b.eof = c.eof /\ b.error = c.error /\ b.log = c.log
  BY <1>1 DEF Same, Fields
<1>3. /\ Len(L) \in Nat /\ r \in Nat /\ i = r + 1 /\ i <= Len(L) /\ i \in 1..Len(L)
      /\ i \in 0..Len(L) /\ r \in 0..Len(L)
  <2>1. Len(L) \in Nat /\ r \in 0..Len(L)
    BY <1>0, LogFacts DEF DrainOK
  <2> QED BY <2>1
<1>4. c.recv \in Seq(Nat) /\ g \in Seq(Nat) /\ c.ackNr \in Seqs
  BY DEF DrainOK
<1>5. /\ Units(L, i) \in Seq(Nat) /\ Len(Units(L, i)) = Upto(L, i) - Upto(L, r)
      /\ \A k \in 1..Len(Units(L, i)) : Units(L, i)[k] = Upto(L, r) + k
      /\ Upto(L, i) \in Nat /\ Upto(L, r) \in Nat
  <2>1. i - 1 = r
    BY <1>3
  <2>2. Upto(L, i) \in Nat /\ Upto(L, r) \in Nat
    BY <1>0, <1>3, LogFacts
  <2>3. /\ Units(L, i) \in Seq(Nat) /\ Len(Units(L, i)) = Upto(L, i) - Upto(L, i - 1)
        /\ \A k \in 1..Len(Units(L, i)) : Units(L, i)[k] = Upto(L, i - 1) + k
    BY <1>0, <1>3, UnitsOf
  <2> QED BY <2>1, <2>2, <2>3
<1>6. type = "fin" => Upto(L, i) = Upto(L, r) /\ i = Len(L) /\ Ended(L)
  <2>1. /\ L[i].type = "data" <=> Upto(L, i - 1) < Upto(L, i)
        /\ L[i].type = "fin" => i = Len(L)
        /\ Upto(L, i - 1) <= Upto(L, i) /\ i - 1 = r
    BY <1>3 DEF LogOK
  <2>2. L # <<>>
    BY <1>3
  <2> QED BY <1>5, <2>1, <2>2 DEF Ended
<1>7. Len(L) = i /\ Ended(L) => type = "fin"
  BY DEF Ended
<1>8. data \in Seq(Nat) /\ Len(data) \in Nat /\ Len(c.recv) \in Nat /\ Len(g) \in Nat
  BY <1>4, <1>5
<1>9. b.recv \in Seq(Nat) /\ Len(b.recv) <= Len(c.recv) + Len(data) /\ Len(b.recv) \in Nat
  <2>1. c.recv \o data \in Seq(Nat) /\ Len(c.recv \o data) = Len(c.recv) + Len(data)
    BY <1>4, <1>8, Concatenated
  <2>2. \A j, k \in Nat : j <= j + k /\ j + k \in Nat /\ j + k <= j + k
    OBVIOUS
  <2>3. CASE b.recv = c.recv
    BY <1>4, <1>8, <2>2, <2>3
  <2>4. CASE b.recv = c.recv \o data
    BY <1>8, <2>1, <2>2, <2>4
  <2> QED BY <1>1, <2>3, <2>4
<1>10. c.readerGone => b.recv = <<>>
  BY <1>1 DEF DrainOK
<1>11. ASSUME ~c.readerGone
       PROVE  /\ Len(g) + Len(b.recv) = Upto(L, i)
              /\ \A k \in 1..Len(b.recv) : b.recv[k] = Len(g) + k
  <2>1. Len(g) + Len(c.recv) = Upto(L, r) /\ \A k \in 1..Len(c.recv) : c.recv[k] = Len(g) + k
    BY <1>11 DEF DrainOK
  <2>2. CASE type = "fin"
    BY <1>1, <1>6, <2>1, <2>2
  <2>3. CASE type # "fin"
    <3> DEFINE s == c.recv
               t == b.recv
    <3>1. data = Units(L, i) /\ t = s \o data
      BY <1>1, <1>11, <2>3
    <3>2. /\ Len(data) = Upto(L, i) - Upto(L, r) /\ \A k \in 1..Len(data) : data[k] = Upto(L, r) + k
      BY <1>5, <3>1
    <3>6. /\ s \in Seq(Nat) /\ Len(s) \in Nat /\ Len(g) + Len(s) = Upto(L, r)
          /\ \A k \in 1..Len(s) : s[k] = Len(g) + k
      BY <1>4, <1>8, <2>1
    <3> HIDE DEF s, t
    <3>3. /\ Len(t) = Len(s) + Len(data) /\ \A k \in 1..Len(s) : t[k] = s[k]
          /\ \A k \in 1..Len(data) : t[Len(s) + k] = data[k]
      <4>1. s \in Seq(Nat) /\ data \in Seq(Nat)
        BY <1>8, <3>6
      <4> QED BY <3>1, <4>1, Concatenated
    <3>4. ASSUME NEW k \in 1..Len(t) PROVE t[k] = Len(g) + k
      <4>1. CASE k <= Len(s)
        <5>1. k \in 1..Len(s)
          BY <3>6, <4>1
        <5> QED BY <3>3, <3>6, <5>1
      <4>2. CASE k > Len(s)
        <5>1. k - Len(s) \in 1..Len(data) /\ k = Len(s) + (k - Len(s)) /\ Len(s) \in Nat
          <6>1. Len(t) = Len(s) + Len(data) /\ Len(s) \in Nat /\ Len(data) \in Nat
            BY <1>8, <3>3, <3>6
          <6> QED BY <4>2, <6>1
        <5>2. t[k] = Upto(L, r) + (k - Len(s))
          BY <3>2, <3>3, <5>1
        <5> QED BY <1>8, <3>6, <5>1, <5>2
      <4> QED BY <3>6, <4>1, <4>2
    <3>5. Len(g) + Len(t) = Upto(L, i)
      BY <1>5, <1>8, <3>2, <3>3, <3>6
    <3> QED BY <3>4, <3>5 DEF t
  <2> QED BY <2>2, <2>3
<1>12. ASSUME NEW q \in c.reorder
       PROVE  /\ q \in Buffered /\ Nth(p, q.seq) \in (i + 1)..Len(L)
              /\ q.data = IF c.readerGone THEN <<>> ELSE Units(L, Nth(p, q.seq))
  <2>1. /\ q \in Buffered /\ Nth(p, q.seq) \in (r + 1)..Len(L) /\ q.seq # seq
        /\ q.data = IF c.readerGone THEN <<>> ELSE Units(L, Nth(p, q.seq))
    BY DEF DrainOK
  <2>2. Nth(p, q.seq) # i
    BY <1>0, <2>1, NthDistance DEF Buffered
  <2>3. Nth(p, q.seq) \in (i + 1)..Len(L)
    BY <1>3, <2>1, <2>2
  <2> QED BY <2>1, <2>3
<1>13. Ended(L) /\ Has(p, b, Len(L)) => b.peerFin # None
  <2>1. seq # None
    BY ModFacts DEF Seqs, None
  <2>2. Has(p, b, Len(L)) => Len(L) = i \/ Has(p, c, Len(L))
    BY <1>1, <1>2, <1>3 DEF Has
  <2>3. Ended(L) /\ Has(p, c, Len(L)) => c.peerFin # None
    BY DEF DrainOK
  <2> QED BY <1>1, <1>7, <2>1, <2>2, <2>3
<1>14. b.peerFin # None => b.peerFin \in Seqs /\ Ended(L) /\ Nth(p, b.peerFin) = Len(L)
  BY <1>1, <1>6 DEF DrainOK
<1>15. ~c.eof
  BY <1>3 DEF DrainOK
<1>16. DrainOK(e, b, L, g)
  <2>1. /\ \A k \in 1..Len(g) : g[k] = k
        /\ Len(g) <= Upto(L, Len(L)) /\ IsFiniteSet(c.reorder)
        /\ \A q, o \in c.reorder : q.seq = o.seq => q = o
        /\ (e = "responder" => r >= 1)
        /\ e = "responder" /\ c.held => Len(L) >= 2
    BY DEF DrainOK
  <2>2. e = "responder" => i >= 1
    BY <1>3
  <2>3. Nth(p, b.ackNr) = i
    BY <1>1
  <2> HIDE DEF i
  <2> QED BY <1>1, <1>2, <1>3, <1>4, <1>9, <1>10, <1>11, <1>12, <1>13, <1>14, <1>15, <2>1, <2>2, <2>3
          DEF DrainOK
<1>17. Joined(e, b)
  BY <1>2 DEF Joined
<1>18. Grows(e, c, b)
  <2>1. \A j \in Nat : Has(p, c, j) => Has(p, b, j)
    BY <1>1, <1>2, <1>3 DEF Has
  <2> QED BY <1>1, <1>2, <1>3, <1>17, <2>1, LogSame DEF Grows
<1> QED BY <1>1, <1>9, <1>16, <1>17, <1>18 DEF b

(* An end in the middle of the loop.                                       *)
Draining(e, c, L, g) ==
    DrainOK(e, c, L, g) /\ Shape(c) /\ Joined(e, c) /\ SizeOK(c) /\ c.error = "none"

(* The next sequence number is that of the next packet.                    *)
LEMMA NextNth ==
    ASSUME NEW e \in Ends, NEW c, NEW L, NEW g, DrainOK(e, c, L, g), LogOK(Peer(e), L),
           Len(L) < Mod \div 2
    PROVE  /\ Add(c.ackNr, 1) \in Seqs
           /\ \A q \in c.reorder : q.seq = Add(c.ackNr, 1)
                 <=> Nth(Peer(e), q.seq) = Nth(Peer(e), c.ackNr) + 1
           /\ Nth(Peer(e), Add(c.ackNr, 1)) = Nth(Peer(e), c.ackNr) + 1
<1> DEFINE p == Peer(e)
           r == Nth(p, c.ackNr)
<1>1. p \in Ends /\ c.ackNr \in Seqs /\ r \in 0..Len(L) /\ Len(L) \in Nat
  BY PeerFacts, LogFacts DEF DrainOK
<1>2. r + 1 \in Seqs /\ 1 \in Int
  BY <1>1, ModFacts DEF Seqs
<1>3. Add(c.ackNr, 1) \in Seqs /\ Nth(p, Add(c.ackNr, 1)) = r + 1
  BY <1>1, <1>2, NthAdd
<1>4. \A q \in c.reorder : q.seq \in Seqs
  BY DEF DrainOK, Buffered
<1> QED BY <1>1, <1>3, <1>4, NthDistance

(* One turn of the loop.                                                   *)
LEMMA DrainOneKeeps ==
    ASSUME NEW e \in Ends, NEW c, NEW L, NEW g, Draining(e, c, L, g), LogOK(Peer(e), L),
           Len(L) < Mod \div 2
    PROVE  LET b == DrainOne(c)
               next == {q \in c.reorder : q.seq = Add(c.ackNr, 1)}
           IN  /\ Draining(e, b, L, g) /\ Same(c, b, Receiving) /\ Grows(e, c, b)
               /\ next = {} => b = c
               /\ next # {} => Cardinality(b.reorder) = Cardinality(c.reorder) - 1
<1> DEFINE next == {q \in c.reorder : q.seq = Add(c.ackNr, 1)}
           P == Peer(e)
           r == Nth(P, c.ackNr)
           p == CHOOSE q \in next : TRUE
           type == IF p.seq = c.peerFin THEN "fin" ELSE "data"
           a == [c EXCEPT !.reorder = @ \ {p}]
           b == Consume(a, type, p.seq, p.data)
<1>0. DrainOK(e, c, L, g) /\ Shape(c) /\ Joined(e, c) /\ SizeOK(c) /\ c.error = "none"
      /\ P \in Ends
  BY PeerFacts DEF Draining
<1>1. CASE next = {}
  <2>1. DrainOne(c) = c
    BY <1>1 DEF DrainOne
  <2>2. Grows(e, c, c) /\ Same(c, c, Receiving)
    BY <1>0, GrowsItself DEF DrainOK, Same
  <2> QED BY <1>1, <2>1, <2>2
<1>2. CASE next # {}
  <2>1. DrainOne(c) = b
    BY <1>2 DEF DrainOne
  <2>2. p \in c.reorder /\ p.seq = Add(c.ackNr, 1)
    BY <1>2
  <2> HIDE DEF p
  <2>3. p.seq \in Seqs /\ Nth(P, p.seq) = r + 1
    BY <1>0, <2>2, NextNth
  <2>4. /\ p \in Buffered /\ Nth(P, p.seq) <= Len(L) /\ Nth(P, p.seq) \in 1..Len(L)
        /\ p.data = IF c.readerGone THEN <<>> ELSE Units(L, Nth(P, p.seq))
        /\ Len(L) \in Nat /\ r \in Nat
    <3>1. /\ p \in Buffered /\ Nth(P, p.seq) \in (r + 1)..Len(L) /\ r \in 0..Len(L)
          /\ p.data = IF c.readerGone THEN <<>> ELSE Units(L, Nth(P, p.seq))
      BY <1>0, <2>2 DEF DrainOK
    <3>2. Len(L) \in Nat
      BY <1>0, LogFacts
    <3> QED BY <2>3, <3>1, <3>2
  <2>5. Shape(a) /\ Same(c, a, {"reorder"}) /\ a.reorder = c.reorder \ {p}
    BY <1>0 DEF Shape, Same, Fields
  <2> HIDE DEF a
  <2>6. /\ a.state = c.state /\ a.readerGone = c.readerGone /\ a.held = c.held /\ a.recv = c.recv
        /\ a.eof = c.eof /\ a.error = c.error /\ a.log = c.log /\ a.ackNr = c.ackNr
        /\ a.peerFin = c.peerFin
    BY <2>5 DEF Same, Fields
  <2>7. IsFiniteSet(c.reorder) /\ IsFiniteSet(a.reorder)
        /\ Cardinality(a.reorder) = Cardinality(c.reorder) - 1
        /\ Cardinality(c.reorder) \in Nat /\ Cardinality(a.reorder) \in Nat
    <3>1. IsFiniteSet(c.reorder)
      BY <1>0 DEF DrainOK
    <3>2. IsFiniteSet(c.reorder \ {p}) /\ Cardinality(c.reorder \ {p}) = Cardinality(c.reorder) - 1
      BY <2>2, <3>1, FS_RemoveElement
    <3> QED BY <2>5, <3>1, <3>2, FS_CardinalityType
  <2>8. DrainOK(e, a, L, g)
    <3>1. \A j : Has(P, a, j) => Has(P, c, j)
      BY <2>5, <2>6 DEF Has
    <3> QED BY <1>0, <2>5, <2>6, <2>7, <3>1 DEF DrainOK
  <2>9. \A q \in a.reorder : q.seq # p.seq
    BY <1>0, <2>2, <2>5 DEF DrainOK
  <2>10. type = "fin" <=> L[Nth(P, p.seq)].type = "fin"
    <3>1. c.peerFin # None => c.peerFin \in Seqs /\ Ended(L) /\ Nth(P, c.peerFin) = Len(L)
      BY <1>0 DEF DrainOK
    <3>2. p.seq # None
      BY <2>3, ModFacts DEF Seqs, None
    <3>3. p.seq = c.peerFin => L[Nth(P, p.seq)].type = "fin"
      BY <3>1, <3>2 DEF Ended
    <3>4. ASSUME L[Nth(P, p.seq)].type = "fin" PROVE p.seq = c.peerFin
      <4>1. Nth(P, p.seq) = Len(L)
        BY <2>4, <3>4 DEF LogOK
      <4>2. Ended(L) /\ Has(P, c, Len(L))
        BY <2>2, <2>4, <3>4, <4>1 DEF Ended, Has
      <4>3. c.peerFin # None
        BY <1>0, <4>2 DEF DrainOK
      <4> QED BY <1>0, <2>3, <3>1, <4>1, <4>3, NthDistance
    <3> QED BY <3>3, <3>4
  <2>11. Joined(e, a)
    BY <1>0, <2>6 DEF Joined
  <2> HIDE DEF type
  <2>12. /\ DrainOK(e, b, L, g) /\ Shape(b) /\ Same(a, b, {"ackNr", "recv", "peerFin"})
         /\ Joined(e, b) /\ Len(b.recv) <= Len(a.recv) + Len(p.data) /\ Len(b.recv) \in Nat
    BY <1>0, <2>3, <2>4, <2>5, <2>6, <2>8, <2>9, <2>10, <2>11, ConsumeKeeps
  <2>13. b.ackNr = p.seq
    BY <2>5, ConsumeFields
  <2> HIDE DEF b
  <2>14. b.reorder = a.reorder /\ b.error = a.error /\ b.log = c.log
    BY <2>6, <2>12 DEF Same, Fields
  <2>15. Same(c, b, Receiving)
    BY <2>5, <2>12 DEF Same, Receiving
  <2>16. Grows(e, c, b)
    <3>1. \A j \in Nat : Has(P, c, j) => Has(P, b, j)
      BY <2>3, <2>4, <2>5, <2>13, <2>14 DEF Has
    <3>2. r <= Nth(P, b.ackNr)
      BY <2>3, <2>4, <2>13
    <3> QED BY <2>12, <2>14, <3>1, <3>2, LogSame DEF Grows
  <2>17. SizeOK(b)
    <3>1. \A q \in c.reorder : q.data \in Seq(Nat)
      BY <1>0 DEF DrainOK, Buffered
    <3>2. ReorderBytes(c) = ReorderBytes(b) + Len(p.data)
      <4>1. /\ \A q \in a.reorder : q.data \in Seq(Nat) /\ p \notin a.reorder /\ p.data \in Seq(Nat)
            /\ c.reorder = a.reorder \cup {p}
        BY <2>2, <2>5, <3>1
      <4>2. Cardinality(UNION {{q} \X DOMAIN q.data : q \in a.reorder \cup {p}})
              = Cardinality(UNION {{q} \X DOMAIN q.data : q \in a.reorder}) + Len(p.data)
        BY <2>5, <2>7, <3>1, <4>1, OneMore
      <4> QED BY <2>14, <4>1, <4>2 DEF ReorderBytes
    <3>3. ReorderBytes(b) \in Nat /\ Len(p.data) \in Nat /\ Len(c.recv) \in Nat
      <4>1. IsFiniteSet(UNION {{q} \X DOMAIN q.data : q \in a.reorder})
        BY <2>5, <2>7, <3>1, FinitePairs
      <4>2. Len(p.data) \in Nat
        BY <2>2, <3>1
      <4>3. Len(c.recv) \in Nat
        BY <1>0 DEF DrainOK
      <4> QED BY <2>14, <4>1, <4>2, <4>3, FS_CardinalityType DEF ReorderBytes
    <3>4. /\ Cardinality(c.reorder) <= Shelf
          /\ Len(c.recv) + ReorderBytes(c) < RecvMax + PacketSize
      BY <1>0 DEF SizeOK
    <3>5. PacketSize \in Nat \ {0} /\ RecvMax \in Nat /\ Shelf \in Int
      BY UtpConstants DEF Shelf
    <3>6. Cardinality(b.reorder) <= Shelf
      BY <2>7, <2>14, <3>4, <3>5
    <3>7. Len(b.recv) + ReorderBytes(b) < RecvMax + PacketSize
      <4>1. Len(b.recv) <= Len(c.recv) + Len(p.data) /\ Len(b.recv) \in Nat
        BY <2>6, <2>12
      <4>2. \A x, y, z, k, n \in Int : x <= y + k /\ y + (z + k) < n => x + z < n
        OBVIOUS
      <4>3. Len(c.recv) + (ReorderBytes(b) + Len(p.data)) < RecvMax + PacketSize
        BY <3>2, <3>4
      <4>4. RecvMax + PacketSize \in Int
        BY <3>5
      <4>5. Len(b.recv) \in Int /\ Len(c.recv) \in Int /\ ReorderBytes(b) \in Int /\ Len(p.data) \in Int
        BY <3>3, <4>1
      <4> QED BY <4>1, <4>2, <4>3, <4>4, <4>5
    <3> QED BY <3>6, <3>7 DEF SizeOK
  <2>18. Draining(e, b, L, g)
    BY <1>0, <2>6, <2>12, <2>14, <2>17 DEF Draining
  <2> QED BY <1>2, <2>1, <2>7, <2>14, <2>15, <2>16, <2>18
<1> QED BY <1>1, <1>2

(* The recursion of Drained is well founded.                               *)
LEMMA DrainedStep ==
    ASSUME NEW c, Cardinality(c.reorder) \in Nat
    PROVE  /\ Drained(c)[0] = c
           /\ \A n \in 1..Cardinality(c.reorder) : Drained(c)[n] = DrainOne(Drained(c)[n - 1])
<1> DEFINE Body(f, n) == [i \in 0..n |-> IF i = 0 THEN c ELSE DrainOne(f[i - 1])]
           G == {n \in Nat : \E f : f = Body(f, n)}
           N == Cardinality(c.reorder)
<1>1. 0 \in G
  <2>1. [i \in 0..0 |-> c] = Body([i \in 0..0 |-> c], 0)
    OBVIOUS
  <2> QED BY <2>1
<1>2. ASSUME NEW n \in 1..N, n - 1 \in G PROVE n \in G
  <2>1. PICK f : f = Body(f, n - 1)
    BY <1>2
  <2> DEFINE h == [i \in 0..n |-> IF i = n THEN DrainOne(f[n - 1]) ELSE f[i]]
  <2>2. \A i \in 0..n : h[i] = IF i = 0 THEN c ELSE DrainOne(h[i - 1])
    <3> SUFFICES ASSUME NEW i \in 0..n
                 PROVE  h[i] = IF i = 0 THEN c ELSE DrainOne(h[i - 1])
      OBVIOUS
    <3>1. i # 0 => h[i - 1] = f[i - 1]
      OBVIOUS
    <3>2. CASE i = n
      BY <3>1, <3>2
    <3>3. CASE i # n
      <4>1. h[i] = f[i] /\ i \in 0..(n - 1)
        BY <3>3
      <4>2. f[i] = Body(f, n - 1)[i]
        BY <2>1
      <4> QED BY <3>1, <4>1, <4>2
    <3> QED BY <3>2, <3>3
  <2>3. h = Body(h, n)
    BY <2>2
  <2>4. \E k : k = Body(k, n)
    <3> HIDE DEF h, Body
    <3> QED BY <2>3
  <2> QED BY <2>4
<1>3. N \in G
  <2>1. G \in SUBSET Nat /\ N \in Nat
    OBVIOUS
  <2> HIDE DEF G, N
  <2>2. \A i \in 0..N : i \in G
    BY <1>1, <1>2, <2>1, Induct
  <2> QED BY <2>1, <2>2
<1>4. PICK f : f = Body(f, N)
  BY <1>3
<1>5. Drained(c) = Body(Drained(c), N)
  BY <1>4 DEF Drained
<1> DEFINE r == Drained(c)
<1> HIDE DEF r
<1>6. \A i \in 0..N : r[i] = Body(r, N)[i]
  BY <1>5 DEF r
<1>7. N \in Nat
  OBVIOUS
<1> HIDE DEF N
<1>8. r[0] = c
  BY <1>6, <1>7
<1>9. \A n \in 1..N : r[n] = DrainOne(r[n - 1])
  BY <1>6, <1>7
<1> QED BY <1>8, <1>9 DEF r, N

(* Draining ends with nothing in the buffer that could be taken over.      *)
LEMMA DrainedKeeps ==
    ASSUME NEW e \in Ends, NEW c, NEW L, NEW g, Draining(e, c, L, g), LogOK(Peer(e), L),
           Len(L) < Mod \div 2, c.log \in Seq(Entry)
    PROVE  LET b == Drained(c)[Cardinality(c.reorder)]
           IN  /\ RecvOK(e, b, L, g) /\ SizeOK(b) /\ Shape(b) /\ Same(c, b, Receiving)
               /\ Grows(e, c, b)
<1> DEFINE N == Cardinality(c.reorder)
           R(n) == Drained(c)[n]
           Rest(x) == {q \in x.reorder : q.seq = Add(x.ackNr, 1)}
           Fine(n) == /\ Draining(e, R(n), L, g) /\ Same(c, R(n), Receiving) /\ Grows(e, c, R(n))
                      /\ Rest(R(n)) = {} \/ Cardinality(R(n).reorder) = N - n
           G == {n \in Nat : n <= N => Fine(n)}
<1>1. N \in Nat /\ IsFiniteSet(c.reorder) /\ c.ackNr \in Seqs
  BY FS_CardinalityType DEF Draining, DrainOK
<1>2. R(0) = c /\ \A n \in 1..N : R(n) = DrainOne(R(n - 1))
  BY <1>1, DrainedStep
<1> HIDE DEF R
<1>3. 0 \in G
  <2>1. Same(c, c, Receiving) /\ Grows(e, c, c)
    BY <1>1, GrowsItself DEF Same
  <2>2. Cardinality(c.reorder) = N - 0
    BY <1>1
  <2> HIDE DEF N
  <2> QED BY <1>1, <1>2, <2>1, <2>2
<1> HIDE DEF N
<1>4. ASSUME NEW n \in 1..N, n - 1 \in G PROVE n \in G
  <2> DEFINE x == R(n - 1)
             y == R(n)
  <2>1. /\ Draining(e, x, L, g) /\ Same(c, x, Receiving) /\ Grows(e, c, x)
        /\ Rest(x) = {} \/ Cardinality(x.reorder) = N - (n - 1)
    BY <1>1, <1>4
  <2>2. y = DrainOne(x)
    BY <1>2
  <2>5. n \in Nat /\ n <= N
    BY <1>1
  <2> HIDE DEF x, y
  <2>3. /\ Draining(e, y, L, g) /\ Same(x, y, Receiving) /\ Grows(e, x, y)
        /\ Rest(x) = {} => y = x
        /\ Rest(x) # {} => Cardinality(y.reorder) = Cardinality(x.reorder) - 1
    BY <2>1, <2>2, DrainOneKeeps
  <2>4. Same(c, y, Receiving)
    BY <2>1, <2>3 DEF Same
  <2>6. Grows(e, c, y)
    <3>1. x.log = c.log /\ y.log = c.log
      BY <2>1, <2>4 DEF Same, Receiving, Fields
    <3>2. x.ackNr \in Seqs /\ y.ackNr \in Seqs
      BY <2>1, <2>3 DEF Draining, DrainOK
    <3> QED BY <1>1, <2>1, <2>3, <3>1, <3>2, GrowsOn
  <2>7. Rest(y) = {} \/ Cardinality(y.reorder) = N - n
    <3>1. N - (n - 1) - 1 = N - n
      BY <1>1, <2>5
    <3> QED BY <2>1, <2>3, <3>1
  <2>8. Fine(n)
    BY <2>3, <2>4, <2>6, <2>7 DEF y
  <2> QED BY <2>5, <2>8
<1>5. \A n \in 0..N : n \in G
  <2> HIDE DEF G
  <2>1. G \in SUBSET Nat
    BY DEF G
  <2> QED BY <1>1, <1>3, <1>4, <2>1, Induct
<1> DEFINE b == R(N)
<1>6. /\ Draining(e, b, L, g) /\ Same(c, b, Receiving) /\ Grows(e, c, b)
      /\ Rest(b) = {} \/ Cardinality(b.reorder) = N - N
  BY <1>1, <1>5
<1> HIDE DEF b
<1>7. Rest(b) = {}
  <2>1. N - N = 0
    BY <1>1
  <2>2. IsFiniteSet(b.reorder)
    BY <1>6 DEF Draining, DrainOK
  <2>3. Cardinality(b.reorder) = 0 => b.reorder = {}
    BY <2>2, FS_EmptySet
  <2> QED BY <1>6, <2>1, <2>3
<1>8. DrainOK(e, b, L, g) /\ Joined(e, b) /\ SizeOK(b) /\ Shape(b)
  BY <1>6 DEF Draining
<1>9. \A q \in b.reorder : Nth(Peer(e), q.seq) # Nth(Peer(e), b.ackNr) + 1
  BY <1>7, <1>8, NextNth
<1>10. RecvOK(e, b, L, g)
  BY <1>8, <1>9, DrainToRecv
<1> QED BY <1>6, <1>8, <1>10 DEF b, R, N

(* The fields after Buffer.                                                *)
LEMMA BufferFields ==
    ASSUME NEW c, Shape(c), NEW m, NEW data
    PROVE  LET b == Buffer(c, m, data)
               x == [seq |-> m.seq, data |-> data]
           IN  /\ Shape(b) /\ Same(c, b, {"reorder", "peerFin"})
               /\ b.peerFin = IF m.type = "fin" THEN m.seq ELSE c.peerFin
               /\ \/ b.reorder = c.reorder
                  \/ /\ Cardinality(c.reorder) < ReorderLimit(c)
                     /\ b.reorder = {q \in c.reorder : q.seq # m.seq} \cup {x}
<1> DEFINE x == [seq |-> m.seq, data |-> data]
           a == IF m.type = "fin" THEN [c EXCEPT !.peerFin = m.seq] ELSE c
           y == {q \in a.reorder : q.seq # m.seq} \cup {x}
           z == [a EXCEPT !.reorder = y]
<1>1. /\ Shape(a) /\ Same(c, a, {"peerFin"})
      /\ a.peerFin = IF m.type = "fin" THEN m.seq ELSE c.peerFin
  BY DEF Shape, Same, Fields
<1> HIDE DEF a
<1>2. a.reorder = c.reorder
  BY <1>1 DEF Same, Fields
<1> HIDE DEF y
<1>3. Shape(z) /\ Same(a, z, {"reorder"}) /\ z.reorder = y /\ z.peerFin = a.peerFin
  BY <1>1 DEF Shape, Same, Fields
<1>4. y = {q \in c.reorder : q.seq # m.seq} \cup {x}
  BY <1>2 DEF y
<1> HIDE DEF x, z
<1>5. Same(c, z, {"reorder", "peerFin"}) /\ Same(c, a, {"reorder", "peerFin"})
  BY <1>1, <1>3 DEF Same
<1>6. CASE Cardinality(c.reorder) < ReorderLimit(c)
  <2>1. Buffer(c, m, data) = z
    BY <1>6 DEF Buffer, z, y, x, a
  <2> QED BY <1>1, <1>3, <1>4, <1>5, <1>6, <2>1 DEF x
<1>7. CASE ~(Cardinality(c.reorder) < ReorderLimit(c))
  <2>1. Buffer(c, m, data) = a
    BY <1>7 DEF Buffer, a
  <2> QED BY <1>1, <1>2, <1>5, <2>1
<1> QED BY <1>6, <1>7

(* A packet that the window admits.                                        *)
LEMMA Window ==
    ASSUME NEW e \in Ends, NEW c, NEW L, NEW g, RecvOK(e, c, L, g), SizeOK(c),
           NEW data \in Seq(Nat), Len(data) <= PacketSize,
           ~(AdvertisedWindow(c) = 0 /\ data # <<>>)
    PROVE  /\ Len(c.recv) \in Nat /\ ReorderBytes(c) \in Nat /\ Len(data) \in Nat
           /\ Len(c.recv) + ReorderBytes(c) + Len(data) < RecvMax + PacketSize
<1>1. Len(c.recv) \in Nat /\ ReorderBytes(c) \in Nat
  <2>1. c.recv \in Seq(Nat)
    BY DEF RecvOK
  <2>2. ReorderBytes(c) \in Nat
    BY ReorderCount
  <2> QED BY <2>1, <2>2
<1>2. PacketSize \in Nat /\ RecvMax \in Nat /\ Len(data) \in Nat /\ (data = <<>> => Len(data) = 0)
  BY UtpConstants
<1>3. Len(c.recv) + ReorderBytes(c) < RecvMax + PacketSize
  BY DEF SizeOK
<1> DEFINE u == Len(c.recv) + ReorderBytes(c)
           n == Len(data)
<1>4. AdvertisedWindow(c) = IF u > RecvMax THEN 0 ELSE RecvMax - u
  BY DEF AdvertisedWindow
<1>5. u \in Nat /\ n \in Nat /\ n <= PacketSize
  BY <1>1, <1>2
<1> HIDE DEF u, n
<1>6. CASE data = <<>>
  <2>1. n = 0 /\ u < RecvMax + PacketSize
    BY <1>2, <1>3, <1>6 DEF n, u
  <2>2. u + n < RecvMax + PacketSize
    BY <1>2, <1>5, <2>1
  <2> QED BY <1>1, <1>2, <2>2 DEF u, n
<1>7. CASE data # <<>>
  <2>1. u < RecvMax
    BY <1>2, <1>4, <1>5, <1>7
  <2>2. u + n < RecvMax + PacketSize
    BY <1>2, <1>5, <2>1
  <2> QED BY <1>1, <1>2, <2>2 DEF u, n
<1> QED BY <1>6, <1>7

(* A packet beyond a gap is kept.                                          *)
LEMMA BufferKeeps ==
    ASSUME NEW e \in Ends, NEW c, NEW L, NEW g, RecvOK(e, c, L, g), SizeOK(c), Shape(c),
           Joined(e, c), c.state # "closed", c.error = "none", LogOK(Peer(e), L),
           NEW m, Carries(Peer(e), L, m), m.seq \in Seqs,
           Nth(Peer(e), m.seq) >= Nth(Peer(e), c.ackNr) + 2,
           NEW data, data = IF c.readerGone THEN <<>> ELSE Units(L, Nth(Peer(e), m.seq)),
           ~(AdvertisedWindow(c) = 0 /\ data # <<>>)
    PROVE  LET b == Buffer(c, m, data)
           IN  /\ RecvOK(e, b, L, g) /\ SizeOK(b) /\ Shape(b) /\ Same(c, b, Receiving)
               /\ Grows(e, c, b)
<1> DEFINE P == Peer(e)
           r == Nth(P, c.ackNr)
           i == Nth(P, m.seq)
           b == Buffer(c, m, data)
           x == [seq |-> m.seq, data |-> data]
           S == {q \in c.reorder : q.seq # m.seq}
<1>0. P \in Ends /\ Len(L) \in Nat /\ r \in 0..Len(L) /\ r \in Nat /\ c.ackNr \in Seqs
  <2>1. P \in Ends /\ Len(L) \in Nat /\ r \in 0..Len(L) /\ c.ackNr \in Seqs
    BY PeerFacts, LogFacts DEF RecvOK
  <2> QED BY <2>1
<1>1. /\ Shape(b) /\ Same(c, b, {"reorder", "peerFin"})
      /\ b.peerFin = IF m.type = "fin" THEN m.seq ELSE c.peerFin
      /\ \/ b.reorder = c.reorder
         \/ /\ Cardinality(c.reorder) < ReorderLimit(c)
            /\ b.reorder = S \cup {x}
  BY BufferFields
<1> HIDE DEF b
<1>2. /\ b.state = c.state /\ b.recv = c.recv /\ b.readerGone = c.readerGone /\ b.held = c.held
      /\ b.eof = c.eof /\ b.error = c.error /\ b.log = c.log /\ b.ackNr = c.ackNr
  BY <1>1 DEF Same, Fields
<1>3. i \in 1..Len(L) /\ i \in (r + 2)..Len(L) /\ m.type = L[i].type
  <2>1. i \in 1..Len(L) /\ m.type = L[i].type
    BY DEF Carries
  <2> QED BY <1>0, <2>1
<1>4. data \in Seq(Nat) /\ Len(data) <= PacketSize
  <2>1. Units(L, i) \in Seq(Nat) /\ Len(Units(L, i)) <= PacketSize
    BY <1>0, <1>3, UnitsOf
  <2>2. <<>> \in Seq(Nat) /\ Len(<<>>) <= PacketSize
    BY UtpConstants
  <2> QED BY <2>1, <2>2
<1>5. x \in Buffered /\ x.seq = m.seq /\ x.data = data /\ x \notin S
  BY <1>4 DEF Buffered
<1> HIDE DEF x
<1>6. /\ IsFiniteSet(c.reorder) /\ IsFiniteSet(S) /\ S \subseteq c.reorder
      /\ \A q \in c.reorder : q.data \in Seq(Nat)
      /\ Cardinality(S) <= Cardinality(c.reorder) /\ Cardinality(S) \in Nat
      /\ Cardinality(c.reorder) \in Nat
  <2>1. IsFiniteSet(c.reorder) /\ S \subseteq c.reorder /\ \A q \in c.reorder : q.data \in Seq(Nat)
    BY DEF RecvOK, Buffered
  <2> HIDE DEF S
  <2> QED BY <2>1, FS_Subset, FS_CardinalityType
<1>7. b.reorder \subseteq c.reorder \cup {x} /\ IsFiniteSet(b.reorder)
  <2>1. IsFiniteSet(S \cup {x})
    BY <1>6, FS_AddElement
  <2> QED BY <1>1, <1>6, <2>1
<1>8. \A j \in Nat : Has(P, c, j) => Has(P, b, j)
  <2> SUFFICES ASSUME NEW q \in c.reorder
               PROVE  \E o \in b.reorder : Nth(P, o.seq) = Nth(P, q.seq)
    BY <1>2 DEF Has
  <2>1. CASE b.reorder = c.reorder
    BY <2>1
  <2>2. CASE b.reorder = S \cup {x}
    BY <1>5, <2>2
  <2> QED BY <1>1, <2>1, <2>2
<1>9. Grows(e, c, b)
  <2>1. Joined(e, b)
    BY <1>2 DEF Joined
  <2> QED BY <1>0, <1>2, <1>8, <2>1, LogSame DEF Grows
<1>10. SizeOK(b)
  <2>1. /\ Len(c.recv) \in Nat /\ ReorderBytes(c) \in Nat /\ Len(data) \in Nat
        /\ Len(c.recv) + ReorderBytes(c) + Len(data) < RecvMax + PacketSize
    BY <1>4, Window
  <2>2. CASE b.reorder = c.reorder
    BY <1>2, <2>2, SizeSame
  <2>3. CASE Cardinality(c.reorder) < ReorderLimit(c) /\ b.reorder = S \cup {x}
    <3>1. Cardinality(b.reorder) = Cardinality(S) + 1
      <4> HIDE DEF S
      <4>1. Cardinality(S \cup {x}) = Cardinality(S) + 1
        BY <1>5, <1>6, FS_AddElement
      <4> QED BY <2>3, <4>1
    <3>2. Shelf \in Int /\ ReorderLimit(c) \in Int /\ ReorderLimit(c) <= Shelf
      BY UtpConstants DEF Shelf, ReorderLimit
    <3>3. Cardinality(b.reorder) <= Shelf
      BY <1>6, <2>3, <3>1, <3>2
    <3>4. ReorderBytes(b) = Cardinality(UNION {{q} \X DOMAIN q.data : q \in S}) + Len(data)
      <4> HIDE DEF S
      <4>1. \A q \in S : q.data \in Seq(Nat)
        BY <1>6
      <4> QED BY <1>4, <1>5, <1>6, <2>3, <4>1, OneMore, ZenonT(30) DEF ReorderBytes
    <3>5. Cardinality(UNION {{q} \X DOMAIN q.data : q \in S}) <= ReorderBytes(c)
      <4> HIDE DEF S
      <4> QED BY <1>6, FewerPairs DEF ReorderBytes
    <3>6. Cardinality(UNION {{q} \X DOMAIN q.data : q \in S}) \in Nat
      <4> HIDE DEF S
      <4>1. \A q \in S : q.data \in Seq(Nat)
        BY <1>6
      <4> QED BY <1>6, <4>1, FinitePairs, FS_CardinalityType
    <3> DEFINE s == Cardinality(UNION {{q} \X DOMAIN q.data : q \in S})
    <3>7. s \in Nat /\ s <= ReorderBytes(c) /\ ReorderBytes(b) = s + Len(data)
      BY <3>4, <3>5, <3>6
    <3> HIDE DEF s
    <3>8. RecvMax + PacketSize \in Int
      BY UtpConstants
    <3>9. Len(c.recv) + (s + Len(data)) < RecvMax + PacketSize
      <4> DEFINE u == Len(c.recv)
                 v == ReorderBytes(c)
                 n == Len(data)
                 m1 == RecvMax + PacketSize
      <4>1. s \in Nat /\ s <= v /\ u \in Nat /\ v \in Nat /\ n \in Nat /\ u + v + n < m1 /\ m1 \in Int
        BY <2>1, <3>7, <3>8
      <4>2. u + (s + n) < m1
        <5> HIDE DEF u, v, n, m1
        <5> QED BY <4>1
      <4> QED BY <4>2
    <3> QED BY <1>2, <3>3, <3>7, <3>9 DEF SizeOK
  <2> QED BY <1>1, <2>2, <2>3
<1>11. RecvOK(e, b, L, g)
  <2>1. ~c.eof
    BY <1>0, <1>3 DEF RecvOK
  <2>2. b.peerFin # None => Joined(e, b) /\ b.peerFin \in Seqs /\ Ended(L) /\ Nth(P, b.peerFin) = Len(L)
    <3>1. m.type = "fin" => i = Len(L) /\ Ended(L)
      <4>1. m.type = "fin" => i = Len(L)
        BY <1>3 DEF LogOK
      <4>2. L # <<>>
        BY <1>3
      <4> QED BY <1>3, <4>1, <4>2 DEF Ended
    <3>2. Joined(e, b)
      BY <1>2 DEF Joined
    <3> QED BY <1>1, <3>1, <3>2 DEF RecvOK
  <2>3. ASSUME NEW q \in b.reorder
        PROVE  /\ q \in Buffered /\ Nth(P, q.seq) \in (r + 2)..Len(L)
               /\ q.data = IF c.readerGone THEN <<>> ELSE Units(L, Nth(P, q.seq))
    <3>1. CASE q = x
      BY <1>3, <1>5, <3>1
    <3>2. CASE q \in c.reorder
      BY <3>2 DEF RecvOK
    <3> QED BY <1>7, <3>1, <3>2
  <2>4. \A q, o \in b.reorder : q.seq = o.seq => q = o
    <3>1. \A q, o \in c.reorder : q.seq = o.seq => q = o
      BY DEF RecvOK
    <3> QED BY <1>1, <1>5, <3>1
  <2>5. Ended(L) /\ Has(P, b, Len(L)) => b.peerFin # None
    <3>1. m.seq # None
      BY ModFacts DEF Seqs, None
    <3>2. Has(P, b, Len(L)) => i = Len(L) \/ Has(P, c, Len(L))
      BY <1>2, <1>5, <1>7 DEF Has
    <3>3. Ended(L) /\ Has(P, c, Len(L)) => c.peerFin # None
      BY DEF RecvOK
    <3>4. Ended(L) /\ i = Len(L) => m.type = "fin"
      BY <1>3 DEF Ended
    <3> QED BY <1>1, <3>1, <3>2, <3>3, <3>4
  <2>6. Joined(e, b) /\ ~b.eof
    BY <1>2, <2>1 DEF Joined
  <2>7. /\ c.recv \in Seq(Nat) /\ g \in Seq(Nat) /\ \A k \in 1..Len(g) : g[k] = k
        /\ Len(g) <= Upto(L, Len(L))
        /\ (e = "responder" => r >= 1) /\ (c.readerGone => c.recv = <<>>)
        /\ ~c.readerGone => /\ Len(g) + Len(c.recv) = Upto(L, r)
                            /\ \A k \in 1..Len(c.recv) : c.recv[k] = Len(g) + k
        /\ e = "responder" /\ c.held => Len(L) >= 2
    BY DEF RecvOK
  <2>8. Nth(P, b.ackNr) = r
    BY <1>2
  <2> HIDE DEF r
  <2> QED BY <1>0, <1>2, <1>7, <2>2, <2>3, <2>4, <2>5, <2>6, <2>7, <2>8 DEF RecvOK
<1>12. Same(c, b, Receiving)
  BY <1>1 DEF Same, Receiving
<1> QED BY <1>1, <1>9, <1>10, <1>11, <1>12 DEF b

(* An open end knows its peer.                                             *)
LEMMA LiveJoined ==
    ASSUME NEW e \in Ends, NEW c, StateOK(e, c), c.state \in {"connected", "fin"}
    PROVE  Joined(e, c) /\ c.error = "none" /\ (e = "initiator" => c.held)
BY DEF StateOK, Joined

(* accept_inorder keeps Good.                                              *)
LEMMA AcceptKeeps ==
    ASSUME NEW e \in Ends, NEW c0, NEW d, NEW w, NEW g, Good(e, c0, d, w, g), Ctx(e, d),
           c0.state \in {"connected", "fin"}, NEW m, MsgOK(Peer(e), d, m),
           m.type \in {"data", "fin"}
    PROVE  LET b == AcceptInorder(c0, m)
           IN  /\ Good(e, b, d, w, g) /\ Grows(e, c0, b)
               /\ Same(c0, b, Receiving \cup {"needsAck"})
<1> DEFINE c == [c0 EXCEPT !.needsAck = TRUE]
           data == IF c.readerGone THEN <<>> ELSE m.data
           dist == Distance(m.seq, c.ackNr)
           P == Peer(e)
           L == d.log
           r == Nth(P, c.ackNr)
           i == Nth(P, m.seq)
           x == Consume(c, m.type, m.seq, data)
           y == Drained(x)[Cardinality(c.reorder)]
           z == Buffer(c, m, data)
<1>1. Shape(c0) /\ EarlyOK(e, c0) /\ StateOK(e, c0)
  BY DEF Good
<1>2. Shape(c) /\ Same(c0, c, {"needsAck"})
  BY <1>1 DEF Shape, Same, Fields
<1> HIDE DEF c
<1>3. /\ c.held = c0.held /\ c.offered = c0.offered /\ c.state = c0.state /\ Same(c0, c, Minor)
      /\ c.probe = c0.probe /\ c.peerWnd = c0.peerWnd
      /\ Same(c0, c, Receiving \cup {"needsAck"})
  BY <1>2 DEF Same, Minor, Fields
<1>4. EarlyOK(e, c)
  BY <1>1, <1>3, LiveJoined DEF EarlyOK
<1>5. Good(e, c, d, w, g) /\ Grows(e, c0, c)
  BY <1>2, <1>3, <1>4, MinorChange
<1>6. /\ RecvOK(e, c, L, g) /\ SizeOK(c) /\ Joined(e, c) /\ c.error = "none" /\ c.log \in Seq(Entry)
      /\ c.ackNr \in Seqs
  BY <1>3, <1>5, LiveJoined, GoodFacts DEF Good
<1>7. LogOK(P, L) /\ Len(L) < Mod \div 2 /\ P \in Ends /\ Len(L) \in Nat
  BY LogFacts, PeerFacts DEF Ctx
<1>8. Carries(P, L, m) /\ m.seq \in Seqs
  BY DEF MsgOK, Datagram, Kinds
<1>9. i \in 1..Len(L) /\ r \in 0..Len(L) /\ m.type = L[i].type /\ m.data = Units(L, i)
  BY <1>6, <1>8 DEF Carries, RecvOK
<1>10. dist \in Nat /\ (dist < Mod \div 2 => i = r + dist)
  BY <1>6, <1>7, <1>8, <1>9, NthAfter, ModFacts
<1>11. CASE AcceptInorder(c0, m) = c
  BY <1>3, <1>5, <1>11
<1>12. CASE /\ dist # 0 /\ ~(dist > MaxReorder) /\ ~(AdvertisedWindow(c) = 0 /\ data # <<>>)
            /\ dist = 1 /\ AcceptInorder(c0, m) = y
  <2>1. i = r + 1 /\ i <= Len(L)
    BY <1>7, <1>9, <1>10, <1>12, ModFacts
  <2>2. DrainOK(e, c, L, g)
    BY <1>3, <1>6, <1>7, RecvToDrain
  <2>3. \A q \in c.reorder : q.seq # m.seq
    <3>1. \A q \in c.reorder : Nth(P, q.seq) \in (r + 2)..Len(L)
      BY <1>6 DEF RecvOK
    <3> QED BY <1>7, <1>9, <2>1, <3>1
  <2>4. /\ DrainOK(e, x, L, g) /\ Shape(x) /\ Same(c, x, {"ackNr", "recv", "peerFin"})
        /\ Grows(e, c, x) /\ Joined(e, x)
        /\ Len(x.recv) <= Len(c.recv) + Len(data) /\ Len(x.recv) \in Nat
    <3>1. data = IF c.readerGone THEN <<>> ELSE Units(L, Nth(P, m.seq))
      BY <1>9
    <3>2. /\ m.type = "fin" <=> L[Nth(P, m.seq)].type = "fin"
          /\ Nth(P, m.seq) = Nth(P, c.ackNr) + 1 /\ Nth(P, m.seq) <= Len(L)
      BY <1>9, <2>1
    <3> HIDE DEF data, L
    <3> QED BY <1>2, <1>6, <1>7, <1>8, <2>2, <2>3, <3>1, <3>2, ConsumeKeeps, ZenonT(30)
  <2>5. data \in Seq(Nat) /\ Len(data) <= PacketSize
    <3>1. Units(L, i) \in Seq(Nat) /\ Len(Units(L, i)) <= PacketSize
      BY <1>7, <1>9, UnitsOf
    <3>2. <<>> \in Seq(Nat) /\ Len(<<>>) <= PacketSize
      BY UtpConstants
    <3> QED BY <1>9, <3>1, <3>2
  <2> HIDE DEF x
  <2>6. x.reorder = c.reorder /\ x.error = c.error /\ x.log = c.log
    BY <2>4 DEF Same, Fields
  <2>7. SizeOK(x)
    <3>1. /\ Len(c.recv) \in Nat /\ ReorderBytes(c) \in Nat /\ Len(data) \in Nat
          /\ Len(c.recv) + ReorderBytes(c) + Len(data) < RecvMax + PacketSize
      BY <1>6, <1>12, <2>5, Window
    <3>2. ReorderBytes(x) = ReorderBytes(c)
      BY <2>6 DEF ReorderBytes
    <3>3. \A u, v, k, j, n \in Int : u <= v + k /\ v + j + k < n => u + j < n
      OBVIOUS
    <3>4. RecvMax + PacketSize \in Int
      BY UtpConstants
    <3>5. Len(x.recv) + ReorderBytes(c) < RecvMax + PacketSize
      <4> HIDE DEF data
      <4> QED BY <2>4, <3>1, <3>3, <3>4
    <3>6. Cardinality(c.reorder) <= Shelf
      BY <1>6 DEF SizeOK
    <3> QED BY <2>6, <3>2, <3>5, <3>6 DEF SizeOK
  <2>8. Draining(e, x, L, g)
    BY <1>6, <2>4, <2>6, <2>7 DEF Draining
  <2>9. /\ RecvOK(e, y, L, g) /\ SizeOK(y) /\ Shape(y) /\ Same(x, y, Receiving)
        /\ Grows(e, x, y)
    BY <1>6, <1>7, <2>6, <2>8, DrainedKeeps
  <2> HIDE DEF y
  <2>10. Same(c, y, Receiving)
    BY <2>4, <2>9 DEF Same, Receiving
  <2>11. y.log = c.log /\ y.ackNr \in Seqs /\ x.ackNr \in Seqs
    BY <2>4, <2>9, <2>10 DEF Same, Receiving, Fields, RecvOK, DrainOK
  <2>12. Grows(e, c, y)
    BY <1>6, <2>4, <2>6, <2>9, <2>11, GrowsOn
  <2>13. Good(e, y, d, w, g)
    BY <1>3, <1>5, <2>9, <2>10, <2>12, Received
  <2>14. Grows(e, c0, y)
    BY <1>5, <2>12, <2>13, GoodFacts, GrowsOn
  <2>15. Same(c0, y, Receiving \cup {"needsAck"})
    BY <1>2, <2>10 DEF Same
  <2> QED BY <1>12, <2>13, <2>14, <2>15
<1>13. CASE /\ dist # 0 /\ ~(dist > MaxReorder) /\ ~(AdvertisedWindow(c) = 0 /\ data # <<>>)
            /\ dist # 1 /\ AcceptInorder(c0, m) = z
  <2>1. i >= r + 2
    BY <1>7, <1>9, <1>10, <1>13, ModFacts
  <2>2. /\ RecvOK(e, z, L, g) /\ SizeOK(z) /\ Shape(z) /\ Same(c, z, Receiving)
        /\ Grows(e, c, z)
    BY <1>2, <1>3, <1>6, <1>7, <1>8, <1>9, <1>13, <2>1, BufferKeeps
  <2> HIDE DEF z
  <2>3. Good(e, z, d, w, g)
    BY <1>3, <1>5, <2>2, Received
  <2>4. Grows(e, c0, z)
    BY <1>5, <2>2, <2>3, GoodFacts, GrowsOn
  <2>5. Same(c0, z, Receiving \cup {"needsAck"})
    BY <1>2, <2>2 DEF Same
  <2> QED BY <1>13, <2>3, <2>4, <2>5
<1> QED BY <1>11, <1>12, <1>13 DEF AcceptInorder, c

(* The end of the stream is reached when all before the FIN has arrived.   *)
LEMMA EofReached ==
    ASSUME NEW e \in Ends, NEW c, NEW d, NEW g, RecvOK(e, c, d.log, g), Ctx(e, d),
           c.peerFin # None
    PROVE  SeqAfter(c.peerFin, c.ackNr) \/ Nth(Peer(e), c.ackNr) = Len(d.log)
<1> DEFINE p == Peer(e)
           n == Len(d.log)
<1>1. /\ Joined(e, c) /\ c.peerFin \in Seqs /\ c.ackNr \in Seqs /\ Nth(p, c.peerFin) = n
      /\ Nth(p, c.ackNr) \in 0..n
  BY DEF RecvOK
<1>2. p \in Ends /\ n \in Nat /\ n < Mod \div 2
  BY PeerFacts, LogFacts DEF Ctx
<1>3. Nth(p, c.ackNr) < Mod \div 2
  BY <1>1, <1>2, ModFacts
<1>4. SeqAfter(c.peerFin, c.ackNr) <=> n > Nth(p, c.ackNr)
  BY <1>1, <1>2, <1>3, NthAfter
<1> QED BY <1>1, <1>2, <1>4

(* check_eof tells the end of the stream as soon as it is reached.         *)
LEMMA CheckEofTells ==
    ASSUME NEW e \in Ends, NEW c, NEW d, NEW g, RecvOK(e, c, d.log, g), Ctx(e, d), Shape(c)
    PROVE  LET b == CheckEof(c)
           IN  b.peerFin # None /\ Nth(Peer(e), b.ackNr) = Len(d.log) => b.eof
<1> DEFINE b == CheckEof(c)
           p == Peer(e)
           n == Len(d.log)
           x == [c EXCEPT !.eof = TRUE]
<1> SUFFICES ASSUME b.peerFin # None, Nth(p, b.ackNr) = n PROVE b.eof
  OBVIOUS
<1>1. x.peerFin = c.peerFin /\ x.ackNr = c.ackNr /\ x.eof
  BY DEF Shape, Fields
<1>2. b = c \/ b = x
  BY DEF CheckEof
<1>3. c.peerFin # None /\ Nth(p, c.ackNr) = n
  BY <1>1, <1>2
<1>4. c.peerFin \in Seqs /\ c.ackNr \in Seqs /\ Nth(p, c.peerFin) = n
  BY <1>3 DEF RecvOK
<1>5. p \in Ends /\ n \in Nat /\ n < Mod \div 2
  BY PeerFacts, LogFacts DEF Ctx
<1>6. ~SeqAfter(c.peerFin, c.ackNr)
  BY <1>3, <1>4, <1>5, NthAfter
<1>7. b = x
  BY <1>3, <1>6 DEF CheckEof
<1> QED BY <1>1, <1>7

(* check_eof keeps Good.                                                   *)
LEMMA CheckEofKeeps ==
    ASSUME NEW e \in Ends, NEW c, NEW d, NEW w, NEW g, Good(e, c, d, w, g), Ctx(e, d),
           c.state \in {"connected", "fin"}
    PROVE  LET b == CheckEof(c)
           IN  Good(e, b, d, w, g) /\ Grows(e, c, b) /\ Same(c, b, {"eof"})
<1> DEFINE b == [c EXCEPT !.eof = TRUE]
<1>1. CASE CheckEof(c) = c
  BY <1>1, GoodFacts, GrowsItself DEF Same
<1>2. CASE c.peerFin # None /\ ~SeqAfter(c.peerFin, c.ackNr) /\ CheckEof(c) = b
  <2>0. /\ Shape(c) /\ StateOK(e, c) /\ EarlyOK(e, c) /\ SendOK(e, c, w) /\ RecvOK(e, c, d.log, g)
        /\ SizeOK(c) /\ AckOK(e, c, d) /\ OutOK(e, c)
    BY DEF Good
  <2>1. Shape(b) /\ Same(c, b, {"eof"})
    BY <2>0 DEF Shape, Same, Fields
  <2> HIDE DEF b
  <2>2. /\ b.seqNr = c.seqNr /\ b.ackNr = c.ackNr /\ b.recv = c.recv /\ b.reorder = c.reorder
        /\ b.wantFin = c.wantFin /\ b.peerFin = c.peerFin /\ b.nudge = c.nudge
        /\ b.readerGone = c.readerGone /\ b.offered = c.offered /\ b.sendBuf = c.sendBuf
        /\ b.unacked = c.unacked /\ b.error = c.error /\ b.needsAck = c.needsAck
        /\ b.held = c.held /\ b.out = c.out /\ b.log = c.log /\ b.teardown = c.teardown
        /\ b.state = c.state /\ b.lingers = c.lingers /\ b.probe = c.probe /\ b.peerWnd = c.peerWnd
    BY <2>1 DEF Same, Fields
  <2>3. Joined(e, b) = Joined(e, c)
    BY <2>2 DEF Joined
  <2>4. Grows(e, c, b)
    BY <2>2, <2>3, GoodFacts, GrowsSame, LogSame
  <2>5. StateOK(e, b) /\ EarlyOK(e, b)
    BY <2>0, <2>2 DEF StateOK, EarlyOK
  <2>6. Nth(Peer(e), c.ackNr) = Len(d.log)
    BY <1>2, <2>0, EofReached
  <2>7. RecvOK(e, b, d.log, g)
    BY <1>2, <2>0, <2>2, <2>3, <2>6, RecvSame
  <2>8. SendOK(e, b, w) /\ SizeOK(b) /\ AckOK(e, b, d)
    BY <2>0, <2>2, SendSame, SizeSame, AckSame
  <2>9. OutOK(e, b)
    BY <2>0, <2>2, <2>4, GoodFacts, OutSame
  <2>10. Good(e, b, d, w, g)
    BY <2>1, <2>5, <2>7, <2>8, <2>9 DEF Good
  <2> QED BY <1>2, <2>1, <2>4, <2>10
<1> QED BY <1>1, <1>2 DEF CheckEof

(* The first datagram of the responder opens the initiator's side.         *)
LEMMA ConnectedKeeps ==
    ASSUME NEW e \in Ends, NEW c, NEW d, NEW w, NEW g, Good(e, c, d, w, g), Ctx(e, d),
           c.state = "syn", NEW m, MsgOK(Peer(e), d, m), m.type = "state"
    PROVE  LET b == Connected(c, m)
           IN  /\ Good(e, b, d, w, g) /\ Grows(e, c, b) /\ Same(c, b, {"state", "ackNr", "held"})
               /\ b.state = "connected"
<1> DEFINE b == Connected(c, m)
<1>0. /\ Shape(c) /\ StateOK(e, c) /\ EarlyOK(e, c) /\ SendOK(e, c, w) /\ RecvOK(e, c, d.log, g)
      /\ SizeOK(c) /\ AckOK(e, c, d) /\ OutOK(e, c)
  BY DEF Good
<1>1. /\ Shape(b) /\ Same(c, b, {"state", "ackNr", "held"}) /\ b.state = "connected"
      /\ b.ackNr = Add(m.seq, -1) /\ b.held
  BY <1>0 DEF Connected, Shape, Same, Fields
<1> HIDE DEF b
<1>2. /\ b.seqNr = c.seqNr /\ b.recv = c.recv /\ b.reorder = c.reorder
      /\ b.wantFin = c.wantFin /\ b.peerFin = c.peerFin /\ b.nudge = c.nudge
      /\ b.readerGone = c.readerGone /\ b.offered = c.offered /\ b.sendBuf = c.sendBuf
      /\ b.unacked = c.unacked /\ b.error = c.error /\ b.needsAck = c.needsAck
      /\ b.out = c.out /\ b.log = c.log /\ b.teardown = c.teardown
      /\ b.lingers = c.lingers /\ b.eof = c.eof /\ b.probe = c.probe /\ b.peerWnd = c.peerWnd
  BY <1>1 DEF Same, Fields
<1>3. /\ e = "initiator" /\ Len(c.log) = 1 /\ ~c.held /\ ~c.readerGone /\ c.error = "none"
      /\ c.sendBuf = <<>> /\ ~c.wantFin /\ ~c.lingers
  BY <1>0 DEF StateOK
<1>4. /\ ~Joined(e, c) /\ c.recv = <<>> /\ c.reorder = {} /\ g = <<>> /\ d.log = <<>>
      /\ c.peerFin = None /\ ~c.eof
  BY <1>0, <1>3 DEF RecvOK, Joined
<1>5. Joined(e, b)
  BY <1>1, <1>3 DEF Joined
<1>6. b.ackNr \in Seqs /\ Nth(Peer(e), b.ackNr) = 0
  <2>1. m.seq \in Seqs /\ Peer(e) \in Ends
    BY PeerFacts DEF MsgOK, Datagram
  <2>2. Len(d.log) = 0
    BY <1>4
  <2>3. Nth(Peer(e), m.seq) \in 1..(Len(d.log) + 1)
    BY DEF MsgOK
  <2>4. Nth(Peer(e), m.seq) = 1
    BY <2>2, <2>3
  <2>5. Nth(Peer(e), m.seq) + (-1) \in Seqs /\ -1 \in Int
    BY <2>4, ModFacts DEF Seqs
  <2>6. Add(m.seq, -1) \in Seqs /\ Nth(Peer(e), Add(m.seq, -1)) = Nth(Peer(e), m.seq) + (-1)
    BY <2>1, <2>5, NthAdd
  <2> QED BY <1>1, <2>4, <2>6
<1>7. Grows(e, c, b)
  BY <1>2, <1>4, LogSame DEF Grows
<1>8. ~Ended(c.log)
  <2>1. c.log[1].type = "syn"
    BY <1>0, <1>3 DEF SendOK, LogOK
  <2> QED BY <1>3, <2>1 DEF Ended
<1>9. StateOK(e, b) /\ EarlyOK(e, b)
  BY <1>0, <1>1, <1>2, <1>3, <1>8 DEF StateOK, EarlyOK
<1>10. RecvOK(e, b, d.log, g)
  <2>1. Upto(d.log, 0) = 0 /\ Len(d.log) = 0 /\ Len(g) = 0 /\ Len(b.recv) = 0 /\ ~Ended(d.log)
    BY <1>2, <1>4 DEF Upto, Ended
  <2>2. Upto(d.log, Len(d.log)) = 0 /\ Upto(d.log, Nth(Peer(e), b.ackNr)) = 0
    BY <1>6, <2>1
  <2>3. /\ b.recv \in Seq(Nat) /\ g \in Seq(Nat) /\ \A k \in 1..Len(g) : g[k] = k
        /\ Len(g) <= Upto(d.log, Len(d.log)) /\ IsFiniteSet(b.reorder)
    BY <1>0, <1>2 DEF RecvOK
  <2>4. /\ Len(g) + Len(b.recv) = Upto(d.log, Nth(Peer(e), b.ackNr))
        /\ \A k \in 1..Len(b.recv) : b.recv[k] = Len(g) + k
    BY <2>1, <2>2
  <2>5. Nth(Peer(e), b.ackNr) \in 0..Len(d.log)
    BY <1>6, <2>1
  <2>6. e # "responder" /\ b.reorder = {} /\ b.peerFin = None /\ ~b.eof /\ ~b.readerGone
    BY <1>2, <1>3, <1>4
  <2> QED BY <1>5, <1>6, <2>1, <2>3, <2>4, <2>5, <2>6 DEF RecvOK
<1>11. SendOK(e, b, w) /\ SizeOK(b) /\ AckOK(e, b, d)
  BY <1>0, <1>2, SendSame, SizeSame, AckSame
<1>12. OutOK(e, b)
  BY <1>0, <1>2, <1>6, <1>7, GoodFacts, OutSame
<1> QED BY <1>1, <1>7, <1>9, <1>10, <1>11, <1>12 DEF Good, b

(* A step of one end that does not go back and sends nothing new.          *)
Moves(e, c, b, d, w, g) ==
    /\ Good(e, b, d, w, g) /\ Grows(e, c, b) /\ Steady(c, b) /\ b.state # "none"
    /\ b.log = c.log
    /\ Fits(e, c, b, d.log)

(* One after the other.                                                    *)
LEMMA MovesOn ==
    ASSUME NEW e \in Ends, NEW a, NEW b, NEW c, NEW d, NEW w, NEW g, Good(e, a, d, w, g),
           Moves(e, a, b, d, w, g), Moves(e, b, c, d, w, g)
    PROVE  Moves(e, a, c, d, w, g)
<1>1. Grows(e, a, c)
  BY GoodFacts, GrowsOn DEF Moves
<1> QED BY <1>1 DEF Moves, Steady, Fits

(* No step at all.                                                         *)
LEMMA MovesItself ==
    ASSUME NEW e \in Ends, NEW c, NEW d, NEW w, NEW g, Good(e, c, d, w, g), c.state # "none"
    PROVE  Moves(e, c, c, d, w, g)
BY GoodFacts, GrowsItself DEF Moves, Steady, Fits

(* A failure.                                                              *)
LEMMA FailMoves ==
    ASSUME NEW e \in Ends, NEW c, NEW d, NEW w, NEW g, Good(e, c, d, w, g), c.state # "none",
           NEW kind, kind # "none"
    PROVE  Moves(e, c, Fail(c, kind), d, w, g)
<1> DEFINE b == Fail(c, kind)
<1>1. Good(e, b, d, w, g) /\ Grows(e, c, b) /\ Same(c, b, Failing) /\ b.state = "closed"
  BY FailKeeps
<1> HIDE DEF b
<1>2. Steady(c, b) /\ b.state \notin Open /\ b.log = c.log
  BY <1>1 DEF Same, Failing, Fields, Steady, Open
<1>3. Moves(e, c, b, d, w, g)
  BY <1>1, <1>2, ClosedFits DEF Moves
<1> QED BY <1>3 DEF b

(* handle_packet keeps Good, whatever datagram arrives.                    *)
LEMMA HandleKeeps ==
    ASSUME NEW e \in Ends, NEW c, NEW d, NEW w, NEW g, NEW h, Good(e, c, d, w, g), Ctx(e, d),
           Short(c), c.state # "none", RecvOK(Peer(e), d, c.log, h),
           NEW m, MsgOK(Peer(e), d, m)
    PROVE  Moves(e, c, HandlePacket(c, m, e = "initiator"), d, w, g)
<1> DEFINE H == HandlePacket(c, m, e = "initiator")
           y == [c EXCEPT !.needsAck = @ \/ ~(e = "initiator")]
           v == [c EXCEPT !.peerWnd = m.wnd,
                          !.probe = IF @ = "armed" /\ m.wnd > c.peerWnd THEN "none" ELSE @]
           s == IF v.state = "syn" THEN Connected(v, m) ELSE v
           p == ProcessAck(s, m)
           a == ProcessSelectiveAck(p, m)
           x == IF m.type = "state" THEN a ELSE AcceptInorder(a, m)
           z == CheckEof(x)
<1>0. /\ Shape(c) /\ StateOK(e, c) /\ EarlyOK(e, c)
  BY DEF Good
<1>1. c.state \in {"syn", "connected", "fin", "closed"}
  BY <1>0 DEF StateOK
<1>2. m \in Datagram /\ m.type \in {"syn", "data", "fin", "state", "reset"}
  BY DEF MsgOK, Datagram, Kinds
<1>3. CASE H = c
  BY <1>3, MovesItself
<1>4. CASE H = Fail(c, "reset")
  BY <1>4, FailMoves
<1>5. CASE H = y
  <2>1. Shape(y) /\ Same(c, y, {"needsAck"}) /\ y.needsAck = (c.needsAck \/ ~(e = "initiator"))
    BY <1>0 DEF Shape, Same, Fields
  <2> HIDE DEF y
  <2>2. /\ Same(c, y, Minor) /\ y.state = c.state /\ Steady(c, y) /\ y.held = c.held
        /\ y.nudge = c.nudge /\ y.offered = c.offered /\ y.probe = c.probe /\ y.peerWnd = c.peerWnd
        /\ Alike(c, y) /\ y.log = c.log
    BY <2>1 DEF Same, Minor, Fields, Steady, Alike
  <2>3. EarlyOK(e, y)
    BY <1>0, <2>1, <2>2 DEF EarlyOK, Ends
  <2>4. Good(e, y, d, w, g) /\ Grows(e, c, y)
    BY <2>1, <2>2, <2>3, MinorChange
  <2> QED BY <1>5, <2>2, <2>4, AlikeFits DEF Moves
<1>6. CASE /\ c.state # "closed" /\ m.type \notin {"reset", "syn"} /\ Expected(c, m)
           /\ H = MaybeFinish(z)
  <2>0. m.type \in {"data", "fin", "state"}
    BY <1>2, <1>6
  <2>1. Moves(e, c, v, d, w, g) /\ v.state = c.state /\ v.log = c.log
    <3>1. Shape(v) /\ Same(c, v, {"peerWnd", "probe"}) /\ v.probe \in {c.probe, "none"}
          /\ v.peerWnd = m.wnd
      BY <1>0 DEF Shape, Same, Fields
    <3> HIDE DEF v
    <3>2. /\ Same(c, v, Minor) /\ v.state = c.state /\ Steady(c, v) /\ v.held = c.held
          /\ v.nudge = c.nudge /\ v.offered = c.offered /\ v.needsAck = c.needsAck /\ v.log = c.log
          /\ Alike(c, v)
      BY <3>1 DEF Same, Minor, Fields, Steady, Alike
    <3>3. EarlyOK(e, v)
      BY <1>0, <1>2, <3>1, <3>2 DEF EarlyOK, Probes, Datagram
    <3>4. Good(e, v, d, w, g) /\ Grows(e, c, v)
      BY <3>1, <3>2, <3>3, MinorChange
    <3> QED BY <3>2, <3>4, AlikeFits DEF Moves
  <2> HIDE DEF v
  <2>2. Moves(e, v, s, d, w, g) /\ s.state \in {"connected", "fin"} /\ s.log = c.log
    <3>1. CASE v.state = "syn"
      <4>1. m.type = "state"
        BY <1>6, <2>1, <3>1 DEF Expected
      <4>2. /\ Good(e, s, d, w, g) /\ Grows(e, v, s) /\ Same(v, s, {"state", "ackNr", "held"})
            /\ s.state = "connected"
        BY <2>1, <3>1, <4>1, ConnectedKeeps DEF Moves
      <4> HIDE DEF s
      <4>3. e = "initiator" /\ v.peerFin = None
        BY <2>1, <3>1 DEF Moves, Good, StateOK, RecvOK, Joined
      <4>4. Fits(e, v, s, d.log)
        BY <4>2, <4>3 DEF Fits, Fit, Same, Fields
      <4> QED BY <2>1, <4>2, <4>4 DEF Moves, Steady, Same, Fields
    <3>2. CASE v.state # "syn"
      <4>1. s = v /\ v.state \in {"connected", "fin"}
        BY <1>1, <1>6, <2>1, <3>2
      <4>2. Moves(e, v, v, d, w, g)
        BY <2>1, MovesItself DEF Moves
      <4> QED BY <2>1, <4>1, <4>2
    <3> QED BY <3>1, <3>2
  <2> HIDE DEF s
  <2>3. Moves(e, s, p, d, w, g) /\ p.state \in {"connected", "fin"} /\ p.log = c.log
    <3>1. Good(e, p, d, w, g) /\ Grows(e, s, p) /\ Same(s, p, Acking) /\ p.log = s.log
      BY <2>0, <2>2, AckKeeps DEF Moves, Short
    <3> HIDE DEF p
    <3>2. Alike(s, p)
      BY <3>1 DEF Same, Acking, Sending, Fields, Alike
    <3> QED BY <2>2, <3>1, <3>2, AlikeFits DEF Moves, Steady, Same, Acking, Sending, Minor, Fields
  <2> HIDE DEF p
  <2>4. Moves(e, p, a, d, w, g) /\ a.state \in {"connected", "fin"}
    <3>1. Good(e, a, d, w, g) /\ Grows(e, p, a) /\ Same(p, a, Acking) /\ a.log = p.log
      BY <2>0, <2>3, SelectiveAckKeeps DEF Moves, Short
    <3> HIDE DEF a
    <3>2. Alike(p, a)
      BY <3>1 DEF Same, Acking, Sending, Fields, Alike
    <3> QED BY <2>3, <3>1, <3>2, AlikeFits DEF Moves, Steady, Same, Acking, Sending, Minor, Fields
  <2> HIDE DEF a
  <2>5. /\ Good(e, x, d, w, g) /\ Grows(e, a, x) /\ Steady(a, x)
        /\ x.state = a.state /\ x.held = a.held /\ x.pending = a.pending /\ x.log = a.log
    <3>1. CASE m.type = "state"
      BY <2>4, <3>1, GoodFacts, GrowsItself DEF Moves, Steady
    <3>2. CASE m.type # "state"
      <4>1. /\ Good(e, x, d, w, g) /\ Grows(e, a, x)
            /\ Same(a, x, Receiving \cup {"needsAck"})
        BY <2>0, <2>4, <3>2, AcceptKeeps DEF Moves
      <4> HIDE DEF x
      <4> QED BY <4>1 DEF Steady, Same, Receiving, Fields
    <3> QED BY <3>1, <3>2
  <2> HIDE DEF x
  <2>6. Moves(e, a, z, d, w, g)
    <3>1. Good(e, z, d, w, g) /\ Grows(e, x, z) /\ Same(x, z, {"eof"})
      BY <2>4, <2>5, CheckEofKeeps
    <3>2. z.peerFin # None /\ Nth(Peer(e), z.ackNr) = Len(d.log) => z.eof
      BY <2>4, <2>5, CheckEofTells DEF Good
    <3> HIDE DEF z
    <3>3. /\ z.state = a.state /\ z.held = a.held /\ z.pending = a.pending /\ Steady(a, z)
          /\ z.log = a.log
      BY <2>5, <3>1 DEF Same, Fields, Steady
    <3>4. Grows(e, a, z)
      BY <2>4, <2>5, <3>1, GoodFacts, GrowsOn DEF Moves
    <3>5. Fits(e, a, z, d.log)
      BY <3>2, <3>3 DEF Fits, Fit
    <3> QED BY <2>4, <3>1, <3>3, <3>4, <3>5 DEF Moves
  <2> HIDE DEF z
  <2>7. Moves(e, z, MaybeFinish(z), d, w, g)
    <3> DEFINE f == MaybeFinish(z)
    <3>1. /\ Good(e, f, d, w, g) /\ Grows(e, z, f) /\ Same(z, f, {"state", "lingers"})
          /\ f.state # z.state => f.state = "closed"
      BY <2>6, FinishKeeps DEF Moves
    <3> HIDE DEF f
    <3>3. Alike(z, f) /\ f.state # "none" /\ Steady(z, f) /\ f.log = z.log
      BY <2>6, <3>1 DEF Alike, Same, Fields, Open, Moves, Steady
    <3>2. Moves(e, z, f, d, w, g)
      BY <3>1, <3>3, AlikeFits DEF Moves
    <3> QED BY <3>2 DEF f
  <2>8. Moves(e, c, s, d, w, g)
    BY <2>1, <2>2, MovesOn
  <2>9. Moves(e, c, p, d, w, g)
    BY <2>3, <2>8, MovesOn
  <2>10. Moves(e, c, a, d, w, g)
    BY <2>4, <2>9, MovesOn
  <2>12. Moves(e, c, z, d, w, g)
    BY <2>6, <2>10, MovesOn
  <2>13. Moves(e, c, MaybeFinish(z), d, w, g)
    BY <2>7, <2>12, MovesOn
  <2> QED BY <1>6, <2>13
<1> HIDE DEF y
<1>7. c.state = "closed" => H = c
  BY DEF HandlePacket
<1>8. c.state # "closed" /\ m.type = "reset" => H \in {c, Fail(c, "reset")}
  BY DEF HandlePacket
<1>9. c.state # "closed" /\ m.type = "syn" => H = y
  BY DEF HandlePacket, y
<1>10. c.state # "closed" /\ m.type \notin {"reset", "syn"} => H = c \/ (Expected(c, m) /\ H = MaybeFinish(z))
  BY DEF HandlePacket
<1> QED BY <1>1, <1>2, <1>3, <1>4, <1>5, <1>6, <1>7, <1>8, <1>9, <1>10

-----------------------------------------------------------------------------
(* Both ends and the network between them.                                 *)

(* One end, what it has on its way and what its program was told.          *)
SideOK(e, c, d, w, g, q, t) ==
    /\ Good(e, c, d, w, g) /\ c.out = <<>>
    /\ \A m \in Elems(q) : MsgOK(e, c, m)
    /\ EndOK(e, c, d.log, t) /\ RestOK(e, c, d.log)

(* The types of the variables.                                             *)
Shapes ==
    /\ conn = [e \in Ends |-> conn[e]]
    /\ net \in [Ends -> Seq(Datagram)]
    /\ written = [e \in Ends |-> written[e]]
    /\ got = [e \in Ends |-> got[e]]
    /\ end = [e \in Ends |-> end[e]]
    /\ faults \in 0..MaxFaults

(* The inductive invariant.                                                *)
UInv ==
    /\ Shapes
    /\ \A e \in Ends :
          SideOK(e, conn[e], conn[Peer(e)], written[e], got[e], net[Peer(e)], end[e])

(* What one end sees of the other.                                         *)
LEMMA BothEnds ==
    ASSUME UInv, FewPackets, NEW e \in Ends
    PROVE  LET c == conn[e]
               d == conn[Peer(e)]
           IN  /\ Good(e, c, d, written[e], got[e]) /\ Ctx(e, d)
               /\ Good(Peer(e), d, c, written[Peer(e)], got[Peer(e)])
               /\ RecvOK(Peer(e), d, c.log, got[Peer(e)])
               /\ \A m \in Elems(net[e]) : MsgOK(Peer(e), d, m)
               /\ \A m \in Elems(net[Peer(e)]) : MsgOK(e, c, m)
               /\ EndOK(e, c, d.log, end[e]) /\ EndOK(Peer(e), d, c.log, end[Peer(e)])
               /\ c.out = <<>> /\ d.out = <<>> /\ Short(c) /\ Short(d)
               /\ RestOK(e, c, d.log) /\ RestOK(Peer(e), d, c.log)
<1> DEFINE p == Peer(e)
           c == conn[e]
           d == conn[p]
<1>1. p \in Ends /\ Peer(p) = e
  BY PeerFacts
<1>2. SideOK(e, c, d, written[e], got[e], net[p], end[e])
  BY DEF UInv
<1>3. SideOK(p, d, c, written[p], got[p], net[e], end[p])
  BY <1>1 DEF UInv
<1>4. SendOK(p, d, written[p])
  BY <1>3 DEF SideOK, Good
<1>7. Short(c) /\ Short(d)
  BY <1>1, <1>2, <1>4, FewShort DEF FewPackets, SideOK, Good
<1>5. Ctx(e, d)
  BY <1>1, <1>4, <1>7, LogBound DEF Ctx, SendOK
<1>6. RecvOK(p, d, c.log, got[p])
  BY <1>3 DEF SideOK, Good
<1> QED BY <1>2, <1>3, <1>5, <1>6, <1>7 DEF SideOK

(* The log of the peer may grow.                                           *)
LEMMA RestGrows ==
    ASSUME NEW e \in Ends, NEW c, NEW L, NEW M, NEW g, RecvOK(e, c, L, g), Extends(L, M),
           RestOK(e, c, L)
    PROVE  RestOK(e, c, M)
<1>1. c.peerFin # None => Len(M) = Len(L)
  BY DEF RecvOK, Extends
<1>2. Fit(e, c, M)
  BY <1>1 DEF RestOK, Fit
<1> QED BY <1>2 DEF RestOK

(* The peer of an end that moves.                                          *)
LEMMA OtherSide ==
    ASSUME NEW e \in Ends, NEW c, NEW b, NEW d, NEW w, NEW g, NEW v, NEW h, NEW t,
           Good(e, c, d, w, g), Grows(e, c, b), NEW w2, NEW g2, Good(e, b, d, w2, g2),
           Good(Peer(e), d, c, v, h), EndOK(Peer(e), d, c.log, t), RestOK(Peer(e), d, c.log)
    PROVE  Good(Peer(e), d, b, v, h) /\ EndOK(Peer(e), d, b.log, t) /\ RestOK(Peer(e), d, b.log)
<1> DEFINE p == Peer(e)
<1>1. p \in Ends /\ Peer(p) = e
  BY PeerFacts
<1>2. /\ Shape(d) /\ StateOK(p, d) /\ EarlyOK(p, d) /\ SendOK(p, d, v) /\ RecvOK(p, d, c.log, h)
      /\ SizeOK(d) /\ AckOK(p, d, c) /\ OutOK(p, d)
  BY DEF Good
<1>3. LogOK(e, c.log) /\ LogOK(e, b.log) /\ Extends(c.log, b.log) /\ d.log \in Seq(Entry)
  BY <1>2 DEF Good, SendOK, Grows, LogOK
<1>4. p = "initiator" /\ ~Joined(p, d) => b.log = <<>>
  <2> SUFFICES ASSUME p = "initiator", ~Joined(p, d), b.log # <<>> PROVE FALSE
    OBVIOUS
  <2>1. e = "responder" /\ ~d.held
    BY DEF Peer, Joined, Ends
  <2>2. Len(b.log) > 0
    BY <1>3, LogFacts
  <2>3. b.held
    BY <2>1, <2>2 DEF Good, StateOK
  <2>4. Len(d.log) >= 2
    BY <2>1, <2>3 DEF Good, RecvOK
  <2>5. Len(d.log) > 1
    BY <1>3, <2>4
  <2> QED BY <1>2, <2>1, <2>5 DEF StateOK
<1>5. RecvOK(p, d, b.log, h)
  BY <1>1, <1>2, <1>3, <1>4, RecvGrows
<1>6. AckOK(p, d, b)
  BY <1>1, <1>2, <1>3, AckGrows
<1>7. EndOK(p, d, b.log, t)
  BY <1>1, <1>2, <1>3, EndGrows
<1>8. RestOK(p, d, b.log)
  BY <1>1, <1>2, <1>3, RestGrows
<1> QED BY <1>2, <1>5, <1>6, <1>7, <1>8 DEF Good

(* A step of one end.                                                      *)
Idle(p) == written'[p] = written[p] /\ got'[p] = got[p] /\ end'[p] = end[p]

(* The invariant after it.                                                 *)
LEMMA Stepped ==
    ASSUME UInv, FewPackets, NEW e \in Ends, NEW a,
           Good(e, a, conn[Peer(e)], written'[e], got'[e]), Grows(e, conn[e], a), a.out = <<>>,
           conn' = [conn EXCEPT ![e] = a], Shapes', Idle(Peer(e)),
           EndOK(e, a, conn[Peer(e)].log, end'[e]), RestOK(e, a, conn[Peer(e)].log),
           \A m \in Elems(net'[Peer(e)]) : MsgOK(e, a, m),
           Elems(net'[e]) \subseteq Elems(net[e])
    PROVE  UInv'
<1> DEFINE p == Peer(e)
           c == conn[e]
           d == conn[p]
<1>1. p \in Ends /\ Peer(p) = e /\ p # e /\ Ends = {e, p}
  BY PeerFacts DEF Ends, Peer
<1>2. conn'[e] = a /\ conn'[p] = d
  BY <1>1 DEF UInv, Shapes
<1>3. /\ Good(e, c, d, written[e], got[e]) /\ Good(p, d, c, written[p], got[p])
      /\ \A m \in Elems(net[e]) : MsgOK(p, d, m)
      /\ EndOK(p, d, c.log, end[p]) /\ d.out = <<>> /\ RestOK(p, d, c.log)
  BY BothEnds
<1>4. Good(p, d, a, written[p], got[p]) /\ EndOK(p, d, a.log, end[p]) /\ RestOK(p, d, a.log)
  <2>1. Good(e, a, d, written'[e], got'[e]) /\ Grows(e, c, a)
    OBVIOUS
  <2> HIDE DEF c, d, p
  <2>2. Peer(e) = p
    BY DEF p
  <2> QED BY <1>3, <2>1, <2>2, OtherSide
<1>5. SideOK(p, d, a, written'[p], got'[p], net'[e], end'[p])
  BY <1>3, <1>4 DEF SideOK, Idle
<1>6. SideOK(e, a, d, written'[e], got'[e], net'[p], end'[e])
  BY DEF SideOK
<1>7. \A f \in Ends :
        SideOK(f, conn'[f], conn'[Peer(f)], written'[f], got'[f], net'[Peer(f)], end'[f])
  <2> SUFFICES ASSUME NEW f \in Ends
               PROVE  SideOK(f, conn'[f], conn'[Peer(f)], written'[f], got'[f], net'[Peer(f)], end'[f])
    OBVIOUS
  <2>1. CASE f = e
    BY <1>2, <1>6, <2>1
  <2>2. CASE f = p
    BY <1>1, <1>2, <1>5, <2>2
  <2> QED BY <1>1, <2>1, <2>2
<1> QED BY <1>7 DEF UInv

(* What a program was told stays true.                                     *)
LEMMA EndMoves ==
    ASSUME NEW e \in Ends, NEW c, NEW b, NEW d, NEW w, NEW g, NEW t, Good(e, c, d, w, g), Ctx(e, d),
           Good(e, b, d, w, g), Grows(e, c, b), Steady(c, b), c.state # "closed", EndOK(e, c, d.log, t)
    PROVE  EndOK(e, b, d.log, t)
<1> SUFFICES ASSUME t # "open"
             PROVE  b.recv = <<>> /\ b.peerFin # None /\ Nth(Peer(e), b.ackNr) = Len(d.log)
  BY DEF EndOK
<1> DEFINE p == Peer(e)
           n == Len(d.log)
<1>1. /\ c.recv = <<>> /\ c.peerFin # None /\ Nth(p, c.ackNr) = n
  BY DEF EndOK
<1>2. RecvOK(e, c, d.log, g) /\ RecvOK(e, b, d.log, g) /\ Grows(e, c, b) /\ Steady(c, b)
  BY DEF Good
<1>3. Joined(e, c) /\ Joined(e, b) /\ n <= Nth(p, b.ackNr) /\ Ended(d.log)
  BY <1>1, <1>2 DEF RecvOK, Grows
<1>4. n \in Nat /\ Nth(p, b.ackNr) \in 0..n
  <2>1. LogOK(p, d.log)
    BY DEF Ctx
  <2> QED BY <1>2, <1>3, <2>1, LogFacts, PeerFacts DEF RecvOK
<1>5. Nth(p, b.ackNr) = n
  BY <1>3, <1>4
<1>6. b.peerFin # None
  <2>1. Has(p, b, n)
    BY <1>4, <1>5 DEF Has
  <2> QED BY <1>2, <1>3, <2>1 DEF RecvOK
<1>7. b.recv = <<>>
  <2>1. CASE b.readerGone
    BY <1>2, <2>1 DEF RecvOK
  <2>2. CASE ~b.readerGone
    <3>1. Len(g) + Len(c.recv) = Upto(d.log, n) /\ Len(g) + Len(b.recv) = Upto(d.log, n)
      BY <1>1, <1>2, <1>3, <1>5, <2>2 DEF RecvOK, Steady
    <3>2. g \in Seq(Nat) /\ b.recv \in Seq(Nat) /\ Len(c.recv) = 0
      BY <1>1, <1>2 DEF RecvOK
    <3>3. Len(b.recv) = 0
      BY <3>1, <3>2
    <3> QED BY <3>2, <3>3
  <2> QED BY <2>1, <2>2
<1> QED BY <1>5, <1>6, <1>7

(* Sending what was encoded changes nothing else.                          *)
LEMMA FlushFields ==
    ASSUME NEW e \in Ends, NEW b, NEW d, NEW w, NEW g, Good(e, b, d, w, g), b.state # "none"
    PROVE  LET a == [b EXCEPT !.out = <<>>]
           IN  Good(e, a, d, w, g) /\ Grows(e, b, a) /\ Same(b, a, {"out"}) /\ a.out = <<>>
<1> DEFINE a == [b EXCEPT !.out = <<>>]
<1>0. /\ Shape(b) /\ StateOK(e, b) /\ EarlyOK(e, b) /\ SendOK(e, b, w) /\ RecvOK(e, b, d.log, g)
      /\ SizeOK(b) /\ AckOK(e, b, d) /\ OutOK(e, b)
  BY DEF Good
<1>1. Shape(a) /\ Same(b, a, {"out"}) /\ a.out = <<>>
  BY <1>0 DEF Shape, Same, Fields
<1> HIDE DEF a
<1>2. /\ a.seqNr = b.seqNr /\ a.ackNr = b.ackNr /\ a.recv = b.recv /\ a.reorder = b.reorder
      /\ a.wantFin = b.wantFin /\ a.peerFin = b.peerFin /\ a.nudge = b.nudge
      /\ a.readerGone = b.readerGone /\ a.offered = b.offered /\ a.sendBuf = b.sendBuf
      /\ a.unacked = b.unacked /\ a.error = b.error /\ a.needsAck = b.needsAck
      /\ a.held = b.held /\ a.log = b.log /\ a.teardown = b.teardown
      /\ a.state = b.state /\ a.lingers = b.lingers /\ a.eof = b.eof /\ a.probe = b.probe /\ a.peerWnd = b.peerWnd
  BY <1>1 DEF Same, Fields
<1>3. Joined(e, a) = Joined(e, b)
  BY <1>2 DEF Joined
<1>4. Grows(e, b, a)
  BY <1>2, <1>3, GoodFacts, GrowsSame, LogSame
<1>5. StateOK(e, a) /\ EarlyOK(e, a)
  BY <1>0, <1>2 DEF StateOK, EarlyOK
<1>6. RecvOK(e, a, d.log, g)
  <2>1. a.eof /\ a.error = "none" => (b.peerFin # None /\ Nth(Peer(e), b.ackNr) = Len(d.log))
                                         \/ (a.wantFin /\ a.state = "closed")
    BY <1>0, <1>2 DEF RecvOK
  <2> QED BY <1>0, <1>2, <1>3, <2>1, RecvSame
<1>7. SendOK(e, a, w) /\ SizeOK(a) /\ AckOK(e, a, d)
  BY <1>0, <1>2, SendSame, SizeSame, AckSame
<1>8. OutOK(e, a)
  <2>1. <<>> \in Seq(Datagram) /\ Elems(<<>>) = {}
    BY DEF Elems
  <2> QED BY <1>1, <2>1 DEF OutOK
<1> QED BY <1>1, <1>4, <1>5, <1>6, <1>7, <1>8 DEF Good, a

(* What an end leaves in the network.                                      *)
Subnet(Q) == Q \in [Ends -> Seq(Datagram)] /\ \A f \in Ends : Elems(Q[f]) \subseteq Elems(net[f])

(* The invariant after a step of one end that sends.                       *)
LEMMA Flushed ==
    ASSUME UInv, FewPackets, NEW e \in Ends, NEW b, NEW Q, Subnet(Q), Flush(e, b, Q),
           UNCHANGED Programs, faults' \in 0..MaxFaults,
           Good(e, b, conn[Peer(e)], written[e], got[e]), Grows(e, conn[e], b), b.state # "none",
           EndOK(e, b, conn[Peer(e)].log, end[e]), RestOK(e, b, conn[Peer(e)].log)
    PROVE  UInv'
<1> DEFINE p == Peer(e)
           c == conn[e]
           d == conn[p]
           a == [b EXCEPT !.out = <<>>]
<1>1. p \in Ends /\ Peer(p) = e /\ p # e
  BY PeerFacts
<1>2. /\ Good(e, a, d, written[e], got[e]) /\ Grows(e, b, a) /\ Same(b, a, {"out"}) /\ a.out = <<>>
  BY FlushFields
<1>3. conn' = [conn EXCEPT ![e] = a] /\ net' = [Q EXCEPT ![p] = @ \o b.out]
  BY DEF Flush
<1> HIDE DEF a
<1>4. /\ Good(e, c, d, written[e], got[e]) /\ \A m \in Elems(net[p]) : MsgOK(e, c, m)
  BY BothEnds
<1>5. Grows(e, c, a)
  BY <1>2, <1>4, GoodFacts, GrowsOn
<1>6. b.out \in Seq(Datagram) /\ \A m \in Elems(b.out) : MsgOK(e, b, m)
  BY DEF Good, OutOK
<1>7. Q \in [Ends -> Seq(Datagram)] /\ Elems(Q[e]) \subseteq Elems(net[e]) /\ Elems(Q[p]) \subseteq Elems(net[p])
  BY <1>1 DEF Subnet
<1>8. Q[p] \o b.out \in Seq(Datagram) /\ Elems(Q[p] \o b.out) = Elems(Q[p]) \cup Elems(b.out)
  <2>1. Q[p] \in Seq(Datagram)
    BY <1>1, <1>7
  <2> QED BY <1>6, <2>1, Concatenated
<1>9. net' \in [Ends -> Seq(Datagram)] /\ net'[p] = Q[p] \o b.out /\ net'[e] = Q[e]
  BY <1>1, <1>3, <1>7, <1>8
<1>10. \A m \in Elems(net'[p]) : MsgOK(e, a, m)
  <2> SUFFICES ASSUME NEW m \in Elems(net'[p]) PROVE MsgOK(e, a, m)
    OBVIOUS
  <2>1. CASE m \in Elems(b.out)
    BY <1>2, <1>6, <2>1, GoodFacts, MsgGrows
  <2>2. CASE m \in Elems(net[p])
    BY <1>2, <1>4, <1>5, <2>2, GoodFacts, MsgGrows
  <2> QED BY <1>7, <1>8, <1>9, <2>1, <2>2
<1>11. EndOK(e, a, d.log, end'[e])
  <2>1. a.recv = b.recv /\ a.state = b.state /\ a.peerFin = b.peerFin /\ a.ackNr = b.ackNr
    BY <1>2 DEF Same, Fields
  <2> QED BY <2>1 DEF EndOK, Programs
<1>14. RestOK(e, a, d.log)
  <2>1. /\ a.unacked = b.unacked /\ a.sendBuf = b.sendBuf
        /\ a.probe = b.probe /\ a.nudge = b.nudge /\ a.state = b.state /\ a.wantFin = b.wantFin
        /\ Alike(b, a)
    BY <1>2 DEF Same, Fields, Alike
  <2> QED BY <2>1, RestSame
<1>12. written' = written /\ got' = got /\ end' = end
  BY DEF Programs
<1>13. Shapes'
  BY <1>3, <1>9, <1>12 DEF Shapes, UInv
<1> QED BY <1>2, <1>3, <1>5, <1>7, <1>9, <1>10, <1>11, <1>12, <1>13, <1>14, Stepped DEF Idle

(* What the network does.                                                  *)
LEMMA Subnets ==
    ASSUME UInv, NEW e \in Ends
    PROVE  /\ Subnet(net)
           /\ net[e] # <<>> => Subnet(Taken(e)) /\ Subnet(Delayed(e)) /\ Head(net[e]) \in Elems(net[e])
<1>1. net \in [Ends -> Seq(Datagram)] /\ net[e] \in Seq(Datagram)
  BY DEF UInv, Shapes
<1>2. Subnet(net)
  BY <1>1 DEF Subnet
<1>3. ASSUME net[e] # <<>>
      PROVE  Subnet(Taken(e)) /\ Subnet(Delayed(e)) /\ Head(net[e]) \in Elems(net[e])
  <2> DEFINE s == net[e]
             t == Tail(s)
             x == Head(s)
  <2>1. s \in Seq(Datagram) /\ s # <<>>
    BY <1>1, <1>3
  <2>2. t \in Seq(Datagram) /\ x \in Datagram /\ x = s[1] /\ Len(s) \in Nat /\ Len(s) > 0
        /\ Len(t) = Len(s) - 1 /\ \A i \in 1..Len(t) : t[i] = s[i + 1]
    BY <2>1
  <2>3. x \in Elems(s)
    BY <2>2 DEF Elems
  <2>4. Elems(t) \subseteq Elems(s)
    <3> HIDE DEF t, s
    <3>1. \A i \in 1..Len(t) : i + 1 \in 1..Len(s)
      BY <2>2
    <3> QED BY <2>2, <3>1 DEF Elems
  <2> HIDE DEF t, x, s
  <2>5. Append(t, x) \in Seq(Datagram) /\ Elems(Append(t, x)) = Elems(t) \cup {x}
    BY <2>2, Appended
  <2>6. Taken(e) = [net EXCEPT ![e] = t] /\ Delayed(e) = [net EXCEPT ![e] = Append(t, x)]
    BY DEF Taken, Delayed, t, x, s
  <2>7. ASSUME NEW u \in Seq(Datagram), Elems(u) \subseteq Elems(s)
        PROVE  Subnet([net EXCEPT ![e] = u])
    BY <1>1, <2>7 DEF Subnet, s
  <2>8. Subnet(Taken(e))
    BY <2>2, <2>4, <2>6, <2>7
  <2>9. Subnet(Delayed(e))
    BY <2>3, <2>4, <2>5, <2>6, <2>7
  <2> QED BY <2>3, <2>8, <2>9 DEF x, s
<1> QED BY <1>2, <1>3

-----------------------------------------------------------------------------
(* The actions.                                                            *)

(* A step that no program takes part in.                                   *)
Silent == UNCHANGED Programs /\ \A f \in Ends : conn'[f].wantFin = conn[f].wantFin

(* Sending is silent.                                                      *)
LEMMA FlushSilent ==
    ASSUME UInv, NEW e \in Ends, NEW b, NEW Q, Flush(e, b, Q), UNCHANGED Programs,
           Shape(b), b.wantFin = conn[e].wantFin
    PROVE  Silent
<1>1. conn = [f \in Ends |-> conn[f]] /\ conn' = [conn EXCEPT ![e] = [b EXCEPT !.out = <<>>]]
  BY DEF UInv, Shapes, Flush
<1>2. [b EXCEPT !.out = <<>>].wantFin = b.wantFin
  BY DEF Shape, Fields
<1> QED BY <1>1, <1>2 DEF Silent

(* The number of faults.                                                   *)
LEMMA FaultType ==
    ASSUME UInv, UNCHANGED faults \/ Fault
    PROVE  faults' \in 0..MaxFaults
<1>1. faults \in 0..MaxFaults /\ MaxFaults \in Nat
  BY UtpConstants DEF UInv, Shapes
<1> QED BY <1>1 DEF Fault

(* A step of one end, the pass of its driver and what it sends.            *)
LEMMA Passed ==
    ASSUME UInv, FewPackets, NEW e \in Ends, NEW x, NEW cwnd \in Nat, NEW room \in BOOLEAN, NEW Q,
           Subnet(Q), Live(e), Moves(e, conn[e], x, conn[Peer(e)], written[e], got[e]),
           Flush(e, Pass(x, e, cwnd, room), Q), UNCHANGED Programs, UNCHANGED faults \/ Fault
    PROVE  UInv' /\ Silent
<1> DEFINE c == conn[e]
           d == conn[Peer(e)]
           b == Pass(x, e, cwnd, room)
<1>1. /\ Good(e, c, d, written[e], got[e]) /\ Ctx(e, d) /\ EndOK(e, c, d.log, end[e])
      /\ RestOK(e, c, d.log)
  BY BothEnds
<1>13. Few(x, written[e], 1)
  BY FewSame DEF FewPackets, Moves
<1>2. c.state # "closed"
  BY DEF Live
<1>10. Fit(e, x, d.log)
  BY <1>1 DEF Moves, Fits, RestOK
<1>3. Good(e, b, d, written[e], got[e]) /\ Grows(e, x, b) /\ Steady(x, b) /\ b.state # "none"
  BY <1>1, <1>13, PassKeeps DEF Moves
<1>11. RestOK(e, b, d.log)
  BY <1>1, <1>10, <1>13, PassRests DEF Moves
<1> HIDE DEF b
<1>4. Grows(e, c, b) /\ Steady(c, b)
  BY <1>1, <1>3, GoodFacts, GrowsOn DEF Moves, Steady
<1>5. EndOK(e, b, d.log, end[e])
  BY <1>1, <1>2, <1>3, <1>4, EndMoves
<1>6. faults' \in 0..MaxFaults
  BY FaultType
<1>7. Flush(e, b, Q)
  BY DEF b
<1>8. UInv'
  BY <1>3, <1>4, <1>5, <1>6, <1>7, <1>11, Flushed
<1>9. Silent
  BY <1>3, <1>4, <1>7, FlushSilent DEF Good, Steady
<1> QED BY <1>8, <1>9

(* A datagram arrives.                                                     *)
LEMMA ReceiveStep ==
    ASSUME UInv, FewPackets, NEW e \in Ends, Receive(e)
    PROVE  UInv' /\ Silent
<1> DEFINE c == conn[e]
           d == conn[Peer(e)]
           h == HandlePacket(c, Head(net[e]), e = "initiator")
<1>1. Live(e) /\ net[e] # <<>> /\ UNCHANGED Programs
  BY DEF Receive
<1>2. PICK room \in BOOLEAN, cwnd \in Windows :
         \/ Flush(e, Pass(h, e, cwnd, room), Taken(e)) /\ UNCHANGED faults
         \/ Flush(e, Pass(h, e, cwnd, room), Delayed(e)) /\ Fault
         \/ Flush(e, Pass(h, e, cwnd, room), Taken(e)) /\ Fault
  BY DEF Receive
<1>3. /\ Good(e, c, d, written[e], got[e]) /\ Ctx(e, d) /\ RecvOK(Peer(e), d, c.log, got[Peer(e)])
      /\ \A m \in Elems(net[e]) : MsgOK(Peer(e), d, m)
      /\ Short(c)
  BY BothEnds
<1>4. Subnet(Taken(e)) /\ Subnet(Delayed(e)) /\ Head(net[e]) \in Elems(net[e])
  BY <1>1, Subnets
<1>5. c.state # "none"
  BY <1>1 DEF Live
<1>6. Moves(e, c, h, d, written[e], got[e])
  BY <1>3, <1>4, <1>5, HandleKeeps
<1> HIDE DEF h
<1>7. cwnd \in Nat
  BY UtpConstants
<1> QED BY <1>1, <1>2, <1>4, <1>6, <1>7, Passed

(* A step and a pass for any window.                                       *)
LEMMA PassesStep ==
    ASSUME UInv, FewPackets, NEW e \in Ends, NEW x, Live(e),
           Moves(e, conn[e], x, conn[Peer(e)], written[e], got[e]), Passes(e, x),
           UNCHANGED Programs, UNCHANGED faults \/ Fault
    PROVE  UInv' /\ Silent
<1>1. PICK cwnd \in Windows : Flush(e, Pass(x, e, cwnd, TRUE), net)
  BY DEF Passes
<1>2. Subnet(net)
  BY Subnets
<1>3. cwnd \in Nat
  BY UtpConstants
<1> QED BY <1>1, <1>2, <1>3, Passed

(* A timer.                                                                *)
LEMMA TimerStep ==
    ASSUME UInv, FewPackets, NEW e \in Ends, NEW x, Timer(e, x),
           Live(e) => Moves(e, conn[e], x, conn[Peer(e)], written[e], got[e])
    PROVE  UInv' /\ Silent
BY PassesStep DEF Timer

(* A nudge.                                                                *)
LEMMA DriveStep ==
    ASSUME UInv, FewPackets, NEW e \in Ends, Drive(e)
    PROVE  UInv' /\ Silent
<1> DEFINE c == conn[e]
           d == conn[Peer(e)]
           y == [c EXCEPT !.nudge = FALSE]
           x == Nudged(e)
<1>1. Live(e) /\ c.nudge /\ c.state # "none" /\ Passes(e, x) /\ UNCHANGED faults /\ UNCHANGED Programs
  BY DEF Drive, Live
<1>2. Good(e, c, d, written[e], got[e])
  BY BothEnds
<1>3. Moves(e, c, y, d, written[e], got[e]) /\ (e = "initiator" => y.held)
  <2>1. Shape(c) /\ EarlyOK(e, c)
    BY <1>2 DEF Good
  <2>2. Shape(y) /\ Same(c, y, {"nudge"}) /\ y.nudge = FALSE
    BY <2>1 DEF Shape, Same, Fields
  <2> HIDE DEF y
  <2>3. /\ Same(c, y, Minor) /\ y.held = c.held /\ y.needsAck = c.needsAck /\ y.offered = c.offered
        /\ y.state = c.state /\ Steady(c, y) /\ y.probe = c.probe /\ y.peerWnd = c.peerWnd
        /\ Alike(c, y) /\ y.log = c.log
    BY <2>2 DEF Same, Minor, Fields, Steady, Alike
  <2>4. EarlyOK(e, y)
    BY <2>1, <2>2, <2>3 DEF EarlyOK
  <2>5. Good(e, y, d, written[e], got[e]) /\ Grows(e, c, y)
    BY <1>1, <1>2, <2>2, <2>3, <2>4, MinorChange
  <2>6. e = "initiator" => y.held
    BY <1>1, <2>1, <2>3 DEF EarlyOK
  <2> QED BY <1>1, <2>3, <2>5, <2>6, AlikeFits DEF Moves
<1>4. Moves(e, y, x, d, written[e], got[e])
  <2>1. x = NoteWindowUpdate(y)
    BY DEF Nudged
  <2> HIDE DEF x, y
  <2>2. Good(e, x, d, written[e], got[e]) /\ Grows(e, y, x) /\ Same(y, x, {"needsAck"})
    BY <1>3, <2>1, NoteKeeps DEF Moves
  <2>3. Alike(y, x) /\ Steady(y, x) /\ x.state = y.state /\ x.log = y.log
    BY <2>2 DEF Alike, Same, Fields, Steady
  <2> QED BY <1>3, <2>2, <2>3, AlikeFits DEF Moves
<1> HIDE DEF x, y
<1>5. Moves(e, c, x, d, written[e], got[e])
  BY <1>2, <1>3, <1>4, MovesOn
<1> QED BY <1>1, <1>5, PassesStep

(* The teardown timer.                                                     *)
LEMMA TeardownStep ==
    ASSUME UInv, FewPackets, NEW e \in Ends, Teardown(e)
    PROVE  UInv' /\ Silent
<1> DEFINE c == conn[e]
           d == conn[Peer(e)]
           x == Abort(c)
<1>1. Timer(e, x)
  BY DEF Teardown
<1>2. Good(e, c, d, written[e], got[e]) /\ Ctx(e, d) /\ Short(c)
  BY BothEnds
<1>3. c.state # "none" => Moves(e, c, x, d, written[e], got[e])
  <2> SUFFICES ASSUME c.state # "none" PROVE Moves(e, c, x, d, written[e], got[e])
    OBVIOUS
  <2>1. /\ Good(e, x, d, written[e], got[e]) /\ Grows(e, c, x) /\ x.state = "closed"
        /\ Same(c, x, Failing \cup {"out", "advertised"})
    BY <1>2, AbortKeeps
  <2> HIDE DEF x
  <2>2. Steady(c, x) /\ x.state \notin Open /\ x.log = c.log
    BY <2>1 DEF Steady, Same, Failing, Fields, Open
  <2> QED BY <2>1, <2>2, ClosedFits DEF Moves
<1> HIDE DEF x
<1>4. Live(e) => Moves(e, c, x, d, written[e], got[e])
  BY <1>3 DEF Live
<1> QED BY <1>1, <1>4, TimerStep

(* The probe timer.                                                        *)
LEMMA ProbeStep ==
    ASSUME UInv, FewPackets, NEW e \in Ends, ProbeTimer(e)
    PROVE  UInv' /\ Silent
<1> DEFINE c == conn[e]
           d == conn[Peer(e)]
           x == [c EXCEPT !.probe = "due"]
<1>1. Timer(e, x)
  BY DEF ProbeTimer
<1>2. Good(e, c, d, written[e], got[e])
  BY BothEnds
<1>3. Shape(c) /\ EarlyOK(e, c)
  BY <1>2 DEF Good
<1>4. Shape(x) /\ Same(c, x, {"probe"}) /\ x.probe = "due"
  BY <1>3 DEF Shape, Same, Fields
<1> HIDE DEF x
<1>5. /\ Same(c, x, Minor) /\ x.held = c.held /\ x.needsAck = c.needsAck /\ x.offered = c.offered
      /\ x.state = c.state /\ Steady(c, x) /\ x.nudge = c.nudge /\ x.peerWnd = c.peerWnd
      /\ Alike(c, x) /\ x.log = c.log
  BY <1>4 DEF Same, Minor, Fields, Steady, Alike
<1>6. EarlyOK(e, x)
  BY <1>3, <1>4, <1>5 DEF EarlyOK, Probes
<1>7. c.state # "none" => Moves(e, c, x, d, written[e], got[e])
  BY <1>2, <1>4, <1>5, <1>6, MinorChange, AlikeFits DEF Moves
<1>8. Live(e) => Moves(e, c, x, d, written[e], got[e])
  BY <1>7 DEF Live
<1> QED BY <1>1, <1>8, TimerStep

(* The linger timer.                                                       *)
LEMMA LingerStep ==
    ASSUME UInv, FewPackets, NEW e \in Ends, Linger(e)
    PROVE  UInv' /\ Silent
<1> DEFINE c == conn[e]
           d == conn[Peer(e)]
           x == [c EXCEPT !.eof = TRUE, !.state = "closed"]
<1>1. Timer(e, x) /\ c.state = "fin" /\ c.lingers
  BY DEF Linger
<1>2. Good(e, c, d, written[e], got[e])
  BY BothEnds
<1>3. Shape(c) /\ c.unacked = <<>>
  BY <1>1, <1>2 DEF Good, StateOK
<1>4. Shape(x) /\ Same(c, x, {"eof", "state"}) /\ x.state = "closed" /\ x.eof
  BY <1>3 DEF Shape, Same, Fields
<1> HIDE DEF x
<1>5. /\ Same(c, x, {"state", "eof", "lingers"}) /\ Steady(c, x) /\ x.state \notin Open
      /\ x.log = c.log
  BY <1>4 DEF Same, Fields, Steady, Open
<1>6. Moves(e, c, x, d, written[e], got[e])
  BY <1>1, <1>2, <1>3, <1>4, <1>5, Closing, ClosedFits DEF Moves
<1> QED BY <1>1, <1>6, TimerStep

(* A packet that is to be sent again.                                      *)
LEMMA PacketDue ==
    ASSUME NEW p \in Packet
    PROVE  LET q == [p EXCEPT !.resend = TRUE, !.fast = FALSE]
           IN  /\ q \in Packet /\ q.seq = p.seq /\ q.type = p.type /\ q.data = p.data
               /\ q.resend = TRUE
<1> DEFINE q == [p EXCEPT !.resend = TRUE, !.fast = FALSE]
<1>1. /\ p.type \in Kinds /\ p.seq \in Seqs /\ p.data \in Seq(Nat) /\ p.tx \in Nat
  BY DEF Packet
<1>2. q = [type |-> p.type, seq |-> p.seq, data |-> p.data, tx |-> p.tx,
           resend |-> TRUE, fast |-> FALSE]
  <2>1. p = [type |-> p.type, seq |-> p.seq, data |-> p.data, tx |-> p.tx,
             resend |-> p.resend, fast |-> p.fast]
    BY DEF Packet
  <2>2. DOMAIN p = {"type", "seq", "data", "tx", "resend", "fast"}
    BY <2>1
  <2>3. DOMAIN q = {"type", "seq", "data", "tx", "resend", "fast"}
    BY <2>2
  <2>4. q.type = p.type /\ q.seq = p.seq /\ q.data = p.data /\ q.tx = p.tx
    BY <2>2
  <2>5. q.resend = TRUE /\ q.fast = FALSE
    BY <2>2, Zenon
  <2>6. q = [f \in DOMAIN q |-> q[f]]
    BY Zenon
  <2> HIDE DEF q
  <2> QED BY <2>3, <2>4, <2>5, <2>6, Zenon
<1> HIDE DEF q
<1>3. q \in Packet
  BY <1>1, <1>2, Zenon DEF Packet
<1>4. q.seq = p.seq /\ q.type = p.type /\ q.data = p.data
  BY <1>2
<1>5. q.resend = TRUE
  BY <1>2, Zenon
<1> QED BY <1>3, <1>4, <1>5 DEF q

(* The retransmission timer.                                               *)
LEMMA TimedOutKeeps ==
    ASSUME NEW e \in Ends, NEW c, NEW d, NEW w, NEW g, Good(e, c, d, w, g), Ctx(e, d),
           c.state # "none", c.unacked # <<>>
    PROVE  Moves(e, c, TimedOut(c), d, w, g)
<1> DEFINE u == [i \in DOMAIN c.unacked |-> [c.unacked[i] EXCEPT !.resend = TRUE, !.fast = FALSE]]
           y == [c EXCEPT !.dupAcks = 0, !.unacked = u]
<1>0. Shape(c) /\ EarlyOK(e, c) /\ c.unacked \in Seq(Packet)
  BY DEF Good, SendOK
<1>1. CASE TimedOut(c) = Fail(c, "timeout")
  BY <1>1, FailMoves
<1>2. CASE TimedOut(c) = Retransmit(y, 1)
  <2>1. /\ u \in Seq(Packet) /\ Len(u) = Len(c.unacked)
        /\ \A k \in 1..Len(c.unacked) : /\ u[k].seq = c.unacked[k].seq
                                        /\ u[k].type = c.unacked[k].type
                                        /\ u[k].data = c.unacked[k].data
    <3>1. DOMAIN c.unacked = 1..Len(c.unacked) /\ Len(c.unacked) \in Nat
          /\ \A k \in 1..Len(c.unacked) : c.unacked[k] \in Packet
      BY <1>0
    <3> DEFINE q(k) == [c.unacked[k] EXCEPT !.resend = TRUE, !.fast = FALSE]
    <3>2. \A k \in 1..Len(c.unacked) : /\ q(k) \in Packet /\ q(k).seq = c.unacked[k].seq
                                       /\ q(k).type = c.unacked[k].type /\ q(k).data = c.unacked[k].data
      BY <3>1, PacketDue
    <3>3. u = [k \in 1..Len(c.unacked) |-> q(k)]
      BY <3>1
    <3> HIDE DEF q, u
    <3> QED BY <3>1, <3>2, <3>3
  <2> HIDE DEF u
  <2>2. Shape(y) /\ Same(c, y, {"dupAcks", "unacked"}) /\ y.unacked = u
    BY <1>0 DEF Shape, Same, Fields
  <2> HIDE DEF y
  <2>3. /\ Same(c, y, Minor \cup {"unacked", "out"}) /\ Steady(c, y) /\ y.state = c.state
        /\ y.held = c.held /\ y.needsAck = c.needsAck /\ y.offered = c.offered /\ y.nudge = c.nudge
        /\ y.out = c.out /\ y.probe = c.probe /\ y.peerWnd = c.peerWnd /\ Alike(c, y)
        /\ y.log = c.log
    BY <2>2 DEF Same, Minor, Fields, Steady, Alike
  <2>4. EarlyOK(e, y)
    BY <1>0, <2>3 DEF EarlyOK
  <2>5. Good(e, y, d, w, g) /\ Grows(e, c, y)
    BY <2>1, <2>2, <2>3, <2>4, Repacked
  <2>6. Moves(e, c, y, d, w, g)
    BY <2>3, <2>5, AlikeFits DEF Moves
  <2>7. 1 \in 1..Len(y.unacked)
    BY <1>0, <2>1, <2>2
  <2> DEFINE z == Retransmit(y, 1)
  <2>8. Good(e, z, d, w, g) /\ Grows(e, y, z) /\ Same(y, z, Sending) /\ z.log = y.log
    BY <2>3, <2>5, <2>7, RetransmitKeeps
  <2> HIDE DEF z
  <2>9. Moves(e, y, z, d, w, g)
    <3>1. Alike(y, z) /\ z.state = y.state /\ Steady(y, z)
      BY <2>8 DEF Alike, Steady, Same, Sending, Fields
    <3> QED BY <2>3, <2>8, <3>1, AlikeFits DEF Moves
  <2>10. Moves(e, c, z, d, w, g)
    BY <2>6, <2>9, MovesOn
  <2> QED BY <1>2, <2>10 DEF z
<1> QED BY <1>1, <1>2 DEF TimedOut

(* The step it takes.                                                      *)
LEMMA RtoStep ==
    ASSUME UInv, FewPackets, NEW e \in Ends, Rto(e)
    PROVE  UInv' /\ Silent
<1> DEFINE c == conn[e]
           d == conn[Peer(e)]
           x == TimedOut(c)
<1>1. Timer(e, x) /\ c.unacked # <<>>
  BY DEF Rto
<1>2. Good(e, c, d, written[e], got[e]) /\ Ctx(e, d)
  BY BothEnds
<1>3. c.state # "none" => Moves(e, c, x, d, written[e], got[e])
  BY <1>1, <1>2, TimedOutKeeps
<1> HIDE DEF x
<1>4. Live(e) => Moves(e, c, x, d, written[e], got[e])
  BY <1>3 DEF Live
<1> QED BY <1>1, <1>4, TimerStep

(* A step of one end that sends nothing.                                   *)
LEMMA Changed ==
    ASSUME UInv, FewPackets, NEW e \in Ends, NEW b,
           conn' = [conn EXCEPT ![e] = b], net' = net, faults' \in 0..MaxFaults,
           Good(e, b, conn[Peer(e)], written'[e], got'[e]), Grows(e, conn[e], b), b.out = <<>>,
           EndOK(e, b, conn[Peer(e)].log, end'[e]), RestOK(e, b, conn[Peer(e)].log), Idle(Peer(e)),
           written' = [f \in Ends |-> written'[f]], got' = [f \in Ends |-> got'[f]],
           end' = [f \in Ends |-> end'[f]]
    PROVE  UInv'
<1> DEFINE p == Peer(e)
           c == conn[e]
<1>1. /\ Good(e, c, conn[p], written[e], got[e]) /\ \A m \in Elems(net[p]) : MsgOK(e, c, m)
  BY BothEnds
<1>2. \A m \in Elems(net[p]) : MsgOK(e, b, m)
  BY <1>1, GoodFacts, MsgGrows
<1>3. Shapes'
  BY DEF UInv, Shapes
<1>4. Elems(net'[e]) \subseteq Elems(net[e]) /\ \A m \in Elems(net'[p]) : MsgOK(e, b, m)
  BY <1>2
<1> QED BY <1>3, <1>4, Stepped

(* The socket fails.                                                       *)
LEMMA SocketGoneStep ==
    ASSUME UInv, FewPackets, NEW e \in Ends, SocketGone(e)
    PROVE  UInv' /\ Silent
<1> DEFINE c == conn[e]
           d == conn[Peer(e)]
           b == Fail(c, "aborted")
<1>1. /\ Live(e) /\ Fault /\ conn' = [conn EXCEPT ![e] = b] /\ net' = net
      /\ written' = written /\ got' = got /\ end' = end
  BY DEF SocketGone, Programs
<1>2. Good(e, c, d, written[e], got[e]) /\ c.out = <<>> /\ EndOK(e, c, d.log, end[e])
  BY BothEnds
<1>3. Good(e, b, d, written[e], got[e]) /\ Grows(e, c, b) /\ Same(c, b, Failing) /\ b.state = "closed"
  BY <1>1, <1>2, FailKeeps DEF Live
<1> HIDE DEF b
<1>4. b.out = c.out /\ b.wantFin = c.wantFin /\ b.recv = c.recv
  BY <1>3 DEF Same, Failing, Fields
<1>5. EndOK(e, b, d.log, end[e])
  BY <1>2, <1>3, <1>4 DEF EndOK
<1>6. faults' \in 0..MaxFaults
  BY <1>1, FaultType
<1>7. conn = [f \in Ends |-> conn[f]] /\ written = [f \in Ends |-> written[f]]
      /\ got = [f \in Ends |-> got[f]] /\ end = [f \in Ends |-> end[f]]
  BY DEF UInv, Shapes
<1>10. RestOK(e, b, d.log)
  BY <1>3, ClosedFits DEF Open
<1>8. UInv'
  BY <1>1, <1>2, <1>3, <1>4, <1>5, <1>6, <1>7, <1>10, Changed DEF Idle
<1>9. Silent
  BY <1>1, <1>4, <1>7 DEF Silent, Programs
<1> QED BY <1>8, <1>9

(* The fields of an end before its connection.                             *)
LEMMA FreshFields ==
    ASSUME NEW e \in Ends
    PROVE  LET c == Fresh(e)
           IN  /\ Shape(c) /\ c.state = "none" /\ c.seqNr = Isn[e] /\ c.ackNr = 0 /\ c.sendBuf = <<>>
               /\ c.unacked = <<>> /\ c.recv = <<>> /\ c.reorder = {} /\ c.probe = "none"
               /\ ~c.needsAck /\ ~c.wantFin /\ c.peerFin = None /\ ~c.eof /\ c.error = "none"
               /\ ~c.lingers /\ ~c.readerGone /\ ~c.offered /\ ~c.held /\ ~c.nudge
               /\ c.out = <<>> /\ c.log = <<>> /\ c.peerWnd = RecvMax
<1>1. Shape(Fresh(e))
  BY DEF Fresh, Shape, Fields
<1> QED BY <1>1 DEF Fresh

(* A packet may be sent again early once more.                             *)
LEMMA AgesStep ==
    ASSUME UInv, FewPackets, NEW e \in Ends, Ages(e)
    PROVE  UInv' /\ Silent
<1> DEFINE c == conn[e]
           d == conn[Peer(e)]
           Q(i) == [c.unacked EXCEPT ![i] = [c.unacked[i] EXCEPT !.fast = FALSE]]
<1>1. PICK i \in DOMAIN c.unacked : conn' = [conn EXCEPT ![e].unacked = Q(i)]
  BY DEF Ages
<1> DEFINE b == Marked(c, i, FALSE)
<1>2. net' = net /\ faults' = faults /\ written' = written /\ got' = got /\ end' = end
  BY DEF Ages, Programs
<1>3. /\ Good(e, c, d, written[e], got[e]) /\ c.out = <<>> /\ EndOK(e, c, d.log, end[e])
      /\ RestOK(e, c, d.log)
  BY BothEnds
<1>4. conn = [f \in Ends |-> conn[f]] /\ written = [f \in Ends |-> written[f]]
      /\ got = [f \in Ends |-> got[f]] /\ end = [f \in Ends |-> end[f]]
  BY DEF UInv, Shapes
<1>5. conn' = [conn EXCEPT ![e] = b]
  <2>1. b = [c EXCEPT !.unacked = Q(i)]
    BY DEF Marked
  <2> HIDE DEF Q, b
  <2> QED BY <1>1, <1>4, <2>1
<1>6. c.unacked \in Seq(Packet) /\ i \in 1..Len(c.unacked) /\ c.state # "none"
  <2>1. c.unacked \in Seq(Packet)
    BY <1>3 DEF Good, SendOK
  <2>2. c.state = "none" => c.unacked = <<>>
    BY <1>3, FreshFields DEF Good, StateOK
  <2>3. c.unacked # <<>>
    BY <1>1
  <2> QED BY <2>1, <2>2, <2>3
<1>7. /\ Good(e, b, d, written[e], got[e]) /\ Grows(e, c, b) /\ Same(c, b, {"unacked"})
      /\ b.unacked \in Seq(Packet) /\ Len(b.unacked) = Len(c.unacked)
      /\ Counts(c.unacked, b.unacked)
  <2>1. Good(e, c, d, written[e], got[e]) /\ c.state # "none" /\ i \in 1..Len(c.unacked)
    BY <1>3, <1>6
  <2> HIDE DEF c, d
  <2> QED BY <2>1, MarkKeeps
<1> HIDE DEF b
<1>8. /\ b.out = c.out /\ b.wantFin = c.wantFin /\ b.recv = c.recv /\ b.state = c.state
      /\ b.peerFin = c.peerFin /\ b.ackNr = c.ackNr /\ b.sendBuf = c.sendBuf
      /\ b.probe = c.probe /\ b.nudge = c.nudge /\ Alike(c, b)
  BY <1>7 DEF Same, Fields, Alike
<1>9. EndOK(e, b, d.log, end[e])
  BY <1>3, <1>8 DEF EndOK
<1>10. InFlight(b) = InFlight(c) /\ (Blocked(b) <=> Blocked(c))
  <2>1. DOMAIN b.unacked = 1..Len(c.unacked) /\ DOMAIN c.unacked = 1..Len(c.unacked)
    BY <1>6, <1>7
  <2>0. \A k \in 1..Len(c.unacked) : /\ b.unacked[k].data = c.unacked[k].data
                                     /\ b.unacked[k].resend = c.unacked[k].resend
    BY <1>7 DEF Counts
  <2>2. {k \in DOMAIN b.unacked : ~b.unacked[k].resend} = {k \in DOMAIN c.unacked : ~c.unacked[k].resend}
    BY <2>0, <2>1
  <2>3. Flight(b.unacked) = Flight(c.unacked)
    BY <2>0, <2>1, <2>2 DEF Flight
  <2>4. InFlight(b) = InFlight(c)
    BY <1>6, <1>7, <2>3, InFlightNat
  <2>5. Blocked(b) <=> Blocked(c)
    BY <1>8, <2>0, <2>1 DEF Blocked
  <2> QED BY <2>4, <2>5
<1>11. RestOK(e, b, d.log)
  <2>1. Fit(e, b, d.log)
    BY <1>3, <1>8, AlikeFits DEF RestOK, Fits
  <2> QED BY <1>3, <1>8, <1>10, <2>1 DEF RestOK
<1>12. faults' \in 0..MaxFaults
  BY <1>2, FaultType
<1>13. UInv'
  BY <1>2, <1>3, <1>4, <1>5, <1>7, <1>8, <1>9, <1>11, <1>12, Changed DEF Idle
<1>14. Silent
  BY <1>2, <1>4, <1>5, <1>8 DEF Silent, Programs
<1> QED BY <1>13, <1>14

(* A step of the network alone.                                            *)
LEMMA NetStep ==
    ASSUME UInv, FewPackets, UNCHANGED <<conn, Programs>>, faults' \in 0..MaxFaults,
           net' \in [Ends -> Seq(Datagram)],
           \A f \in Ends : \A m \in Elems(net'[Peer(f)]) : MsgOK(f, conn[f], m)
    PROVE  UInv' /\ Silent
<1>1. conn' = conn /\ written' = written /\ got' = got /\ end' = end
  BY DEF Programs
<1>2. Shapes'
  BY <1>1 DEF UInv, Shapes
<1>3. \A f \in Ends :
        SideOK(f, conn'[f], conn'[Peer(f)], written'[f], got'[f], net'[Peer(f)], end'[f])
  BY <1>1 DEF UInv, SideOK
<1> QED BY <1>1, <1>2, <1>3 DEF UInv, Silent

(* Datagrams that are left are true.                                       *)
LEMMA SubnetStep ==
    ASSUME UInv, NEW Q, Subnet(Q)
    PROVE  /\ Q \in [Ends -> Seq(Datagram)]
           /\ \A f \in Ends : \A m \in Elems(Q[Peer(f)]) : MsgOK(f, conn[f], m)
<1>1. \A f \in Ends : \A m \in Elems(net[Peer(f)]) : MsgOK(f, conn[f], m)
  BY DEF UInv, SideOK
<1> QED BY <1>1, PeerFacts DEF Subnet

(* A datagram is lost or overtaken.                                        *)
LEMMA DisturbStep ==
    ASSUME UInv, FewPackets, NEW e \in Ends, Disturb(e)
    PROVE  UInv' /\ Silent
<1>1. net[e] # <<>> /\ Fault /\ (net' = Taken(e) \/ net' = Delayed(e)) /\ UNCHANGED <<conn, Programs>>
  BY DEF Disturb
<1>2. Subnet(net')
  BY <1>1, Subnets
<1>3. faults' \in 0..MaxFaults
  BY <1>1, FaultType
<1> QED BY <1>1, <1>2, <1>3, SubnetStep, NetStep

(* A datagram of a closed connection.                                      *)
LEMMA StrayStep ==
    ASSUME UInv, FewPackets, NEW e \in Ends, Stray(e)
    PROVE  UInv' /\ Silent
<1> DEFINE m == Head(net[e])
           p == Peer(e)
           reset == [type |-> "reset", seq |-> 0, data |-> <<>>, ack |-> m.seq, wnd |-> 0, sack |-> {}]
           Q == Taken(e)
           R == [Q EXCEPT ![p] = Append(@, reset)]
<1>1. net[e] # <<>> /\ faults' = faults /\ UNCHANGED <<conn, Programs>> /\ (net' = Q \/ net' = R)
  BY DEF Stray
<1>2. Subnet(Q) /\ m \in Elems(net[e])
  BY <1>1, Subnets
<1>3. faults' \in 0..MaxFaults
  BY <1>1, FaultType
<1>4. /\ Q \in [Ends -> Seq(Datagram)]
      /\ \A f \in Ends : \A x \in Elems(Q[Peer(f)]) : MsgOK(f, conn[f], x)
  BY <1>2, SubnetStep
<1>5. p \in Ends /\ Peer(p) = e /\ p # e
  BY PeerFacts
<1>6. m.seq \in Seqs
  <2>1. MsgOK(p, conn[p], m)
    BY <1>2, BothEnds
  <2> QED BY <2>1 DEF MsgOK, Datagram
<1> HIDE DEF m
<1>7. reset \in Datagram /\ reset.type = "reset"
  BY <1>6, ModFacts DEF Datagram, Seqs
<1> HIDE DEF reset, Q
<1>8. MsgOK(e, conn[e], reset)
  BY <1>7 DEF MsgOK, Kinds
<1>9. Append(Q[p], reset) \in Seq(Datagram) /\ Elems(Append(Q[p], reset)) = Elems(Q[p]) \cup {reset}
  <2>1. Q[p] \in Seq(Datagram)
    BY <1>4, <1>5
  <2> QED BY <1>7, <2>1, Appended
<1>10. /\ R \in [Ends -> Seq(Datagram)]
       /\ \A f \in Ends : \A x \in Elems(R[Peer(f)]) : MsgOK(f, conn[f], x)
  <2>1. R \in [Ends -> Seq(Datagram)] /\ R[p] = Append(Q[p], reset) /\ R[e] = Q[e]
    BY <1>4, <1>5, <1>9
  <2>2. Ends = {e, p}
    BY <1>5 DEF Ends, Peer
  <2> HIDE DEF R
  <2>3. \A x \in Elems(R[Peer(e)]) : MsgOK(e, conn[e], x)
    BY <1>4, <1>8, <1>9, <2>1
  <2>4. \A x \in Elems(R[Peer(p)]) : MsgOK(p, conn[p], x)
    BY <1>4, <1>5, <2>1
  <2> QED BY <2>1, <2>2, <2>3, <2>4
<1> HIDE DEF R
<1> QED BY <1>1, <1>3, <1>4, <1>10, NetStep

(* The responder that a SYN makes.                                         *)
Seeded(e, m) ==
    [Fresh(e) EXCEPT !.state = "connected", !.ackNr = m.seq, !.peerWnd = m.wnd, !.pending = TRUE]

(* It is good.                                                             *)
LEMMA OpenKeeps ==
    ASSUME NEW e \in Ends, NEW c, NEW d, NEW w, NEW g, Good(e, c, d, w, g), Ctx(e, d),
           c.state = "none", NEW m, MsgOK(Peer(e), d, m), m.type = "syn"
    PROVE  LET x == Seeded(e, m)
           IN  Good(e, x, d, w, g) /\ Grows(e, c, x) /\ x.state = "connected" /\ ~x.wantFin
               /\ x.peerFin = None /\ x.sendBuf = <<>> /\ x.unacked = <<>> /\ x.pending
               /\ Short(x)
<1> DEFINE x == Seeded(e, m)
           p == Peer(e)
           L == d.log
<1>0. /\ SendOK(e, c, w) /\ RecvOK(e, c, L, g)
      /\ SizeOK(c) /\ AckOK(e, c, d) /\ OutOK(e, c)
  BY DEF Good
<1>1. c = Fresh(e) /\ e = "responder" /\ p = "initiator" /\ Joined(e, x) = (x.state # "none")
  BY DEF Good, StateOK, Peer, Joined
<1>2. /\ Shape(c) /\ c.seqNr = Isn[e] /\ c.sendBuf = <<>> /\ c.probe = "none"
      /\ c.unacked = <<>> /\ c.recv = <<>> /\ c.reorder = {}
      /\ ~c.needsAck /\ ~c.wantFin /\ c.peerFin = None /\ ~c.eof /\ c.error = "none"
      /\ ~c.lingers /\ ~c.readerGone /\ ~c.offered /\ ~c.held /\ ~c.nudge
      /\ c.out = <<>> /\ c.log = <<>>
  BY <1>1, FreshFields
<1>3. /\ Shape(x) /\ Same(c, x, {"state", "ackNr", "peerWnd", "pending"}) /\ x.state = "connected"
      /\ x.ackNr = m.seq /\ x.peerWnd = m.wnd /\ x.pending
  BY <1>1, <1>2, ZenonT(30) DEF Shape, Same, Fields, Seeded
<1> HIDE DEF x
<1>4. /\ x.seqNr = c.seqNr /\ x.recv = c.recv /\ x.reorder = c.reorder
      /\ x.wantFin = c.wantFin /\ x.peerFin = c.peerFin /\ x.nudge = c.nudge
      /\ x.readerGone = c.readerGone /\ x.offered = c.offered /\ x.sendBuf = c.sendBuf
      /\ x.unacked = c.unacked /\ x.error = c.error /\ x.needsAck = c.needsAck
      /\ x.out = c.out /\ x.log = c.log /\ x.teardown = c.teardown
      /\ x.lingers = c.lingers /\ x.eof = c.eof /\ x.held = c.held /\ x.probe = c.probe
  BY <1>3 DEF Same, Fields
<1>5. ~Joined(e, c) /\ g = <<>>
  BY <1>0, <1>1 DEF RecvOK, Joined
<1>6. Grows(e, c, x)
  BY <1>4, <1>5, LogSame DEF Grows
<1>7. /\ LogOK(p, L) /\ L \in Seq(Entry) /\ Len(L) \in Nat /\ p \in Ends
      /\ \A i \in 0..Len(L) : Upto(L, i) \in Nat
  BY LogFacts, PeerFacts DEF Ctx
<1>8. m.seq \in Seqs /\ Nth(p, m.seq) = 1 /\ Len(L) >= 1 /\ L[1].type = "syn"
  <2>1. m.seq \in Seqs /\ Carries(p, L, m)
    BY DEF MsgOK, Datagram, Kinds
  <2>2. Nth(p, m.seq) \in 1..Len(L) /\ L[Nth(p, m.seq)].type = "syn"
    BY <2>1 DEF Carries
  <2>3. Nth(p, m.seq) = 1
    BY <1>7, <2>2 DEF LogOK
  <2> QED BY <1>7, <2>1, <2>2, <2>3
<1>9. Upto(L, 1) = 0
  <2>1. L[1].type = "data" <=> Upto(L, 0) < Upto(L, 1)
    <3>1. 1 \in 1..Len(L) /\ 1 - 1 = 0
      BY <1>7, <1>8
    <3> QED BY <1>7, <3>1 DEF LogOK
  <2>2. Upto(L, 0) = 0 /\ Upto(L, 1) \in Nat
    BY <1>7, <1>8 DEF Upto
  <2> QED BY <1>8, <2>1, <2>2
<1>10. StateOK(e, x) /\ EarlyOK(e, x)
  <2>1. Len(x.log) = 0 /\ ~Ended(x.log)
    BY <1>2, <1>4 DEF Ended
  <2>2. m.wnd \in Nat
    BY DEF MsgOK, Datagram
  <2> QED BY <1>1, <1>2, <1>3, <1>4, <2>1, <2>2 DEF StateOK, EarlyOK, Probes
<1>11. RecvOK(e, x, L, g)
  <2>1. Len(g) = 0 /\ Len(x.recv) = 0 /\ x.recv \in Seq(Nat) /\ g \in Seq(Nat) /\ IsFiniteSet(x.reorder)
    BY <1>0, <1>2, <1>4, <1>5 DEF RecvOK
  <2>2. Nth(p, x.ackNr) = 1 /\ x.ackNr \in Seqs
    BY <1>3, <1>8
  <2>3. Len(g) + Len(x.recv) = Upto(L, 1) /\ Len(g) <= Upto(L, Len(L))
    BY <1>7, <1>9, <2>1
  <2>4. ~(Ended(L) /\ Has(p, x, Len(L)))
    <3>1. CASE Len(L) = 1
      BY <1>8, <3>1 DEF Ended
    <3>2. CASE Len(L) > 1
      BY <1>2, <1>4, <1>7, <2>2, <3>2 DEF Has
    <3>3. Len(L) = 1 \/ Len(L) > 1
      <4>1. \A n \in Nat : n >= 1 => n = 1 \/ n > 1
        OBVIOUS
      <4> QED BY <1>7, <1>8, <4>1
    <3> QED BY <3>1, <3>2, <3>3
  <2>5. 1 \in 0..Len(L)
    BY <1>7, <1>8
  <2>6. \A k \in 1..Len(g) : g[k] = k
    BY <2>1
  <2>7. \A k \in 1..Len(x.recv) : x.recv[k] = Len(g) + k
    BY <2>1
  <2>8. x.peerFin = None /\ ~x.eof /\ ~x.held /\ ~x.readerGone /\ x.reorder = {} /\ Joined(e, x)
    BY <1>1, <1>2, <1>3, <1>4
  <2>9. 1 >= 1
    OBVIOUS
  <2> QED BY <2>1, <2>2, <2>3, <2>4, <2>5, <2>6, <2>7, <2>8, <2>9 DEF RecvOK
<1>12. SendOK(e, x, w) /\ SizeOK(x) /\ AckOK(e, x, d)
  BY <1>0, <1>4, SendSame, SizeSame, AckSame
<1>13. OutOK(e, x)
  <2>1. <<>> \in Seq(Datagram) /\ Elems(<<>>) = {}
    BY DEF Elems
  <2> QED BY <1>2, <1>4, <2>1 DEF OutOK
<1>14. Short(x)
  <2>1. Len(x.log) = 0
    BY <1>2, <1>4
  <2> QED BY <2>1, ModFacts DEF Short
<1> QED BY <1>2, <1>3, <1>4, <1>6, <1>10, <1>11, <1>12, <1>13, <1>14 DEF Good, x

(* The first SYN.                                                          *)
LEMMA OpenStep ==
    ASSUME UInv, FewPackets, NEW e \in Ends, OpenInbound(e)
    PROVE  UInv' /\ Silent
<1> DEFINE m == Head(net[e])
           d == conn[Peer(e)]
           x == Seeded(e, m)
           b == Push(x, "state", x.seqNr, <<>>)
<1>1. /\ e = "responder" /\ conn[e].state = "none" /\ net[e] # <<>> /\ m.type = "syn"
      /\ Flush(e, b, Taken(e)) /\ UNCHANGED Programs /\ UNCHANGED faults
  BY DEF OpenInbound, Seeded
<1>2. /\ Good(e, conn[e], d, written[e], got[e]) /\ Ctx(e, d)
      /\ \A o \in Elems(net[e]) : MsgOK(Peer(e), d, o)
      /\ EndOK(e, conn[e], d.log, end[e])
  BY BothEnds
<1>3. Subnet(Taken(e)) /\ m \in Elems(net[e])
  BY <1>1, Subnets
<1>4. Good(e, x, d, written[e], got[e]) /\ Grows(e, conn[e], x) /\ x.state = "connected" /\ ~x.wantFin
      /\ x.peerFin = None /\ x.sendBuf = <<>> /\ x.unacked = <<>> /\ x.pending /\ Short(x)
  <2>1. MsgOK(Peer(e), d, m) /\ m.type = "syn"
    BY <1>1, <1>2, <1>3
  <2> HIDE DEF m, d
  <2> QED BY <1>1, <1>2, <2>1, OpenKeeps
<1> HIDE DEF x
<1>5. Joined(e, x)
  BY <1>1, <1>4 DEF Joined
<1>6. Good(e, b, d, written[e], got[e]) /\ Grows(e, x, b) /\ Same(x, b, {"out", "advertised"})
  BY <1>2, <1>4, <1>5, PushKeeps
<1> HIDE DEF b
<1>7. /\ b.state = "connected" /\ b.wantFin = x.wantFin /\ b.peerFin = None /\ b.sendBuf = <<>>
      /\ b.unacked = <<>> /\ b.pending
  BY <1>4, <1>6 DEF Same, Fields
<1>16. RestOK(e, b, d.log)
  <2>1. ~Blocked(b)
    BY <1>7 DEF Blocked
  <2> QED BY <1>4, <1>7, <2>1 DEF RestOK, Fit
<1>8. Grows(e, conn[e], b)
  BY <1>2, <1>4, <1>6, GoodFacts, GrowsOn
<1>9. conn[e] = Fresh(e) /\ conn[e].wantFin = FALSE /\ conn[e].peerFin = None
  BY <1>1, <1>2, FreshFields DEF Good, StateOK, Fresh
<1>10. end[e] = "open"
  BY <1>1, <1>2, <1>9 DEF EndOK
<1>11. EndOK(e, b, d.log, end[e])
  BY <1>10 DEF EndOK
<1>12. faults' \in 0..MaxFaults
  BY <1>1, FaultType
<1>13. UInv'
  BY <1>1, <1>3, <1>6, <1>7, <1>8, <1>11, <1>12, <1>16, Flushed
<1>14. x.wantFin = FALSE
  BY <1>9 DEF x, Fresh, Seeded
<1>15. Silent
  BY <1>1, <1>6, <1>7, <1>9, <1>14, FlushSilent DEF Good
<1> QED BY <1>13, <1>15

(* What the programs do.                                                   *)
LEMMA LeastOfThree ==
    ASSUME NEW a \in Int, NEW b \in Int, NEW c \in Int
    PROVE  LET n == Least({a, b, c}) IN n \in {a, b, c} /\ n <= a /\ n <= b /\ n <= c
<1>1. \E n \in {a, b, c} : \A k \in {a, b, c} : n <= k
  <2>1. CASE a <= b /\ a <= c
    BY <2>1
  <2>2. CASE b <= a /\ b <= c
    BY <2>2
  <2>3. CASE c <= a /\ c <= b
    BY <2>3
  <2> QED BY <2>1, <2>2, <2>3
<1> QED BY <1>1 DEF Least

(* The least of two numbers.                                               *)
LEMMA LeastOfTwo ==
    ASSUME NEW a \in Int, NEW b \in Int
    PROVE  LET n == Least({a, b}) IN n \in {a, b} /\ n <= a /\ n <= b
<1>1. {a, b} = {a, b, b}
  OBVIOUS
<1> QED BY <1>1, LeastOfThree

(* The n units after the first w.                                          *)
From(w, n) == [k \in 1..n |-> w + k]

(* Lists of units, one after the other.                                    *)
LEMMA Counters ==
    ASSUME NEW s \in Seq(Nat), NEW v \in Seq(Nat)
    PROVE  /\ s \o v \in Seq(Nat) /\ Len(s \o v) = Len(s) + Len(v)
           /\ \A i \in 1..Len(s) : (s \o v)[i] = s[i]
           /\ \A i \in 1..Len(v) : (s \o v)[Len(s) + i] = v[i]
BY Concatenated

(* Units that count on from t.                                             *)
CountsFrom(s, t) == \A k \in 1..Len(s) : s[k] = t + k

(* More of them.                                                           *)
LEMMA Counted ==
    ASSUME NEW s \in Seq(Nat), NEW n \in Nat, NEW w \in Nat, NEW t \in Nat,
           CountsFrom(s, t), t + Len(s) = w
    PROVE  LET u == s \o From(w, n)
           IN  u \in Seq(Nat) /\ Len(u) = Len(s) + n /\ CountsFrom(u, t)
<1> DEFINE v == From(w, n)
           u == s \o v
<1>1. v \in Seq(Nat) /\ Len(v) = n /\ \A k \in 1..n : v[k] = w + k
  BY DEF From
<1> HIDE DEF v
<1>2. /\ u \in Seq(Nat) /\ Len(u) = Len(s) + Len(v)
      /\ \A i \in 1..Len(s) : u[i] = s[i]
      /\ \A i \in 1..Len(v) : u[Len(s) + i] = v[i]
  <2>1. s \in Seq(Nat) /\ v \in Seq(Nat)
    BY <1>1
  <2> QED BY <2>1, Counters
<1> HIDE DEF u
<1>3. ASSUME NEW k \in 1..Len(u) PROVE u[k] = t + k
  <2>1. Len(s) \in Nat
    OBVIOUS
  <2>2. CASE k <= Len(s)
    <3>1. k \in 1..Len(s)
      BY <2>1, <2>2
    <3> QED BY <1>2, <3>1 DEF CountsFrom
  <2>3. CASE k > Len(s)
    <3>1. k - Len(s) \in 1..n /\ Len(s) + (k - Len(s)) = k
      BY <1>1, <1>2, <2>1, <2>3
    <3>2. u[k] = v[k - Len(s)]
      BY <1>1, <1>2, <3>1
    <3>3. v[k - Len(s)] = w + (k - Len(s))
      BY <1>1, <3>1
    <3>4. w + (k - Len(s)) = t + k
      BY <2>1, <3>1
    <3> QED BY <3>2, <3>3, <3>4
  <2> QED BY <2>1, <2>2, <2>3
<1>4. CountsFrom(u, t)
  BY <1>3 DEF CountsFrom
<1> QED BY <1>1, <1>2, <1>4 DEF u, v

(* Units written keep Good.                                                *)
LEMMA WriteKeeps ==
    ASSUME NEW e \in Ends, NEW c, NEW d, NEW w, NEW g, Good(e, c, d, w, g), c.held,
           c.state = "connected", NEW n \in Nat, n > 0, w + n <= Load[e]
    PROVE  LET b == [c EXCEPT !.sendBuf = @ \o From(w, n), !.nudge = TRUE]
           IN  Good(e, b, d, w + n, g) /\ Grows(e, c, b) /\ Same(c, b, {"sendBuf", "nudge"}) /\ b.nudge
<1> DEFINE u == c.sendBuf \o From(w, n)
           b == [c EXCEPT !.sendBuf = u, !.nudge = TRUE]
           t == Upto(c.log, Len(c.log))
<1>0. /\ Shape(c) /\ StateOK(e, c) /\ EarlyOK(e, c) /\ SendOK(e, c, w) /\ RecvOK(e, c, d.log, g)
      /\ SizeOK(c) /\ AckOK(e, c, d) /\ OutOK(e, c)
  BY DEF Good
<1>1. c.error = "none" /\ ~Ended(c.log)
  BY <1>0 DEF StateOK
<1>2. /\ c.sendBuf \in Seq(Nat) /\ \A k \in 1..Len(c.sendBuf) : c.sendBuf[k] = t + k
      /\ t + Len(c.sendBuf) = w /\ w \in 0..Load[e] /\ LogOK(e, c.log)
  BY <1>0, <1>1 DEF SendOK
<1>3. t \in Nat /\ w \in Nat /\ Load[e] \in Nat /\ Len(c.sendBuf) \in Nat
  BY <1>2, LogFacts, PeerFacts
<1>4. u \in Seq(Nat) /\ Len(u) = Len(c.sendBuf) + n /\ \A k \in 1..Len(u) : u[k] = t + k
  <2> DEFINE s == c.sendBuf
  <2>1. s \in Seq(Nat) /\ CountsFrom(s, t) /\ t + Len(s) = w /\ u = s \o From(w, n)
    BY <1>2 DEF CountsFrom
  <2> HIDE DEF t, s, u
  <2>2. u \in Seq(Nat) /\ Len(u) = Len(s) + n /\ CountsFrom(u, t)
    BY <1>3, <2>1, Counted
  <2> QED BY <2>2 DEF CountsFrom, s
<1> HIDE DEF u
<1>5. Shape(b) /\ Same(c, b, {"sendBuf", "nudge"}) /\ b.sendBuf = u /\ b.nudge
  BY <1>0 DEF Shape, Same, Fields
<1> HIDE DEF b
<1>6. /\ b.seqNr = c.seqNr /\ b.ackNr = c.ackNr /\ b.recv = c.recv /\ b.reorder = c.reorder
      /\ b.wantFin = c.wantFin /\ b.peerFin = c.peerFin
      /\ b.readerGone = c.readerGone /\ b.offered = c.offered
      /\ b.unacked = c.unacked /\ b.error = c.error /\ b.needsAck = c.needsAck
      /\ b.held = c.held /\ b.out = c.out /\ b.log = c.log /\ b.teardown = c.teardown
      /\ b.state = c.state /\ b.lingers = c.lingers /\ b.eof = c.eof /\ b.probe = c.probe /\ b.peerWnd = c.peerWnd
  BY <1>5 DEF Same, Fields
<1>7. Joined(e, b) = Joined(e, c)
  BY <1>6 DEF Joined
<1>8. Grows(e, c, b)
  BY <1>6, <1>7, GoodFacts, GrowsSame, LogSame
<1>9. StateOK(e, b) /\ EarlyOK(e, b)
  BY <1>0, <1>1, <1>6 DEF StateOK, EarlyOK
<1>10. SendOK(e, b, w + n)
  <2>1. w + n \in 0..Load[e] /\ t + Len(u) = w + n
    <3>1. \A x, y \in Nat : t + x = w /\ y = x + n => t + y = w + n
      BY <1>3
    <3>2. t + Len(c.sendBuf) = w /\ Len(u) = Len(c.sendBuf) + n /\ Len(u) \in Nat
      BY <1>2, <1>4
    <3>3. w + n \in 0..Load[e]
      BY <1>3
    <3> QED BY <1>3, <3>1, <3>2, <3>3
  <2>2. Upto(b.log, Len(b.log)) = t
    BY <1>6
  <2>3. /\ b.sendBuf \in Seq(Nat) /\ \A k \in 1..Len(b.sendBuf) : b.sendBuf[k] = t + k
        /\ t + Len(b.sendBuf) = w + n
    BY <1>4, <1>5, <2>1
  <2>4. /\ LogOK(e, b.log) /\ b.seqNr = Add(Isn[e], Len(b.log)) /\ b.unacked \in Seq(Packet)
        /\ \A k \in 1..Len(b.unacked) : Carries(e, b.log, b.unacked[k])
        /\ \A j, k \in 1..Len(b.unacked) :
              j < k => Nth(e, b.unacked[j].seq) < Nth(e, b.unacked[k].seq)
    BY <1>0, <1>6 DEF SendOK
  <2>5. t + Len(b.sendBuf) <= w + n
    BY <1>3, <2>3
  <2> HIDE DEF t
  <2> QED BY <2>1, <2>2, <2>3, <2>4, <2>5 DEF SendOK
<1>11. RecvOK(e, b, d.log, g)
  <2>1. b.eof /\ b.error = "none" => (c.peerFin # None /\ Nth(Peer(e), c.ackNr) = Len(d.log))
                                         \/ (b.wantFin /\ b.state = "closed")
    BY <1>0, <1>6 DEF RecvOK
  <2> QED BY <1>0, <1>6, <1>7, <2>1, RecvSame
<1>12. SizeOK(b) /\ AckOK(e, b, d)
  BY <1>0, <1>6, SizeSame, AckSame
<1>13. OutOK(e, b)
  BY <1>0, <1>6, <1>8, GoodFacts, OutSame
<1>14. Good(e, b, d, w + n, g)
  BY <1>5, <1>9, <1>10, <1>11, <1>12, <1>13 DEF Good
<1> QED BY <1>5, <1>8, <1>14 DEF b, u

(* poll_write.                                                             *)
LEMMA WriteStep ==
    ASSUME UInv, FewPackets, NEW e \in Ends, PollWrite(e)
    PROVE  /\ UInv'
           /\ \E n \in 1..Load[e] : /\ ~conn[e].wantFin /\ written[e] + n <= Load[e]
                                    /\ written' = [written EXCEPT ![e] = @ + n]
           /\ got' = got /\ end' = end /\ \A f \in Ends : conn'[f].wantFin = conn[f].wantFin
<1> DEFINE c == conn[e]
           d == conn[Peer(e)]
           w == written[e]
           n == Least({Chunk, Load[e] - w, SendMax - Len(c.sendBuf)})
           b == [c EXCEPT !.sendBuf = @ \o From(w, n), !.nudge = TRUE]
<1>1. /\ Holds(e) /\ c.state = "connected" /\ ~c.wantFin /\ n > 0
      /\ written' = [written EXCEPT ![e] = @ + n] /\ net' = net /\ faults' = faults
      /\ got' = got /\ end' = end
  BY DEF PollWrite
<1>2. conn = [f \in Ends |-> conn[f]] /\ written = [f \in Ends |-> written[f]]
      /\ got = [f \in Ends |-> got[f]] /\ end = [f \in Ends |-> end[f]]
  BY DEF UInv, Shapes
<1>3. /\ Good(e, c, d, w, got[e]) /\ c.out = <<>> /\ EndOK(e, c, d.log, end[e])
      /\ RestOK(e, c, d.log)
  BY BothEnds
<1>4. Shape(c) /\ c.sendBuf \in Seq(Nat) /\ w \in 0..Load[e] /\ Load[e] \in Nat
  BY <1>3, PeerFacts DEF Good, SendOK
<1>5. n \in Nat /\ n \in 1..Load[e] /\ w + n <= Load[e]
  <2>1. Chunk \in Int /\ Load[e] - w \in Int /\ SendMax - Len(c.sendBuf) \in Int
    BY <1>4, UtpConstants
  <2>2. n \in {Chunk, Load[e] - w, SendMax - Len(c.sendBuf)} /\ n <= Load[e] - w
    BY <2>1, LeastOfThree
  <2> HIDE DEF n
  <2>3. n \in Int
    BY <2>1, <2>2
  <2> QED BY <1>1, <1>4, <2>2, <2>3
<1>6. conn' = [conn EXCEPT ![e] = b]
  <2>1. conn' = [conn EXCEPT ![e].sendBuf = @ \o From(w, n), ![e].nudge = TRUE]
    BY DEF PollWrite, From
  <2> HIDE DEF n
  <2> QED BY <1>2, <2>1
<1> HIDE DEF n
<1>7. c.held
  BY <1>1 DEF Holds
<1>8. Good(e, b, d, w + n, got[e]) /\ Grows(e, c, b) /\ Same(c, b, {"sendBuf", "nudge"}) /\ b.nudge
  BY <1>1, <1>3, <1>5, <1>7, WriteKeeps
<1> HIDE DEF b
<1>9. b.out = c.out /\ b.wantFin = c.wantFin /\ b.recv = c.recv /\ b.state = c.state
      /\ b.peerFin = c.peerFin /\ b.ackNr = c.ackNr /\ Alike(c, b)
  BY <1>8 DEF Same, Fields, Alike
<1>16. RestOK(e, b, d.log)
  BY <1>3, <1>8, <1>9, NudgedRests
<1>10. EndOK(e, b, d.log, end'[e])
  BY <1>1, <1>3, <1>9 DEF EndOK
<1>11. faults' \in 0..MaxFaults
  BY <1>1, FaultType
<1>12. written'[e] = w + n /\ written' = [f \in Ends |-> written'[f]]
  BY <1>1, <1>2
<1>13. Idle(Peer(e))
  BY <1>1, <1>2, PeerFacts DEF Idle
<1>14. UInv'
  BY <1>1, <1>2, <1>3, <1>6, <1>8, <1>9, <1>10, <1>11, <1>12, <1>13, <1>16, Changed
<1>15. \A f \in Ends : conn'[f].wantFin = conn[f].wantFin
  BY <1>2, <1>6, <1>9
<1> QED BY <1>1, <1>5, <1>14, <1>15

(* The first n units of a buffer.                                          *)
LEMMA Front ==
    ASSUME NEW s \in Seq(Nat), NEW n \in 0..Len(s)
    PROVE  LET a == SubSeq(s, 1, n)
           IN  a \in Seq(Nat) /\ Len(a) = n /\ \A k \in 1..n : a[k] = s[k]
<1> DEFINE a == SubSeq(s, 1, n)
           t == SubSeq(s, n + 1, Len(s))
<1>1. a \in Seq(Nat) /\ t \in Seq(Nat) /\ CutAt(s, n, a, t)
  BY CutInTwo
<1> HIDE DEF a, t
<1>2. s = a \o t /\ Len(a) = n
  BY <1>1 DEF CutAt
<1>3. \A k \in 1..Len(a) : (a \o t)[k] = a[k]
  BY <1>1, Concatenated
<1> QED BY <1>1, <1>2, <1>3 DEF a

(* Reading the first n units of a buffer.                                  *)
LEMMA Consumed ==
    ASSUME NEW g \in Seq(Nat), NEW s \in Seq(Nat), CountsFrom(g, 0), CountsFrom(s, Len(g)),
           NEW n \in 1..Len(s)
    PROVE  LET h == g \o SubSeq(s, 1, n)
               t == SubSeq(s, n + 1, Len(s))
           IN  /\ h \in Seq(Nat) /\ Len(h) = Len(g) + n /\ CountsFrom(h, 0)
               /\ h = [k \in 1..(Len(g) + n) |-> k]
               /\ t \in Seq(Nat) /\ Len(t) = Len(s) - n /\ CountsFrom(t, Len(h))
<1> DEFINE a == SubSeq(s, 1, n)
           h == g \o a
           t == SubSeq(s, n + 1, Len(s))
<1>0. Len(s) \in Nat /\ Len(g) \in Nat /\ n \in 0..Len(s)
  OBVIOUS
<1>1. a \in Seq(Nat) /\ Len(a) = n /\ \A k \in 1..n : a[k] = s[k]
  BY <1>0, Front
<1>2. t \in Seq(Nat) /\ Len(t) = Len(s) - n /\ \A k \in 1..Len(t) : t[k] = s[n + k]
  BY <1>0, Remainder
<1> HIDE DEF a, t
<1>3. /\ h \in Seq(Nat) /\ Len(h) = Len(g) + Len(a)
      /\ \A i \in 1..Len(g) : h[i] = g[i]
      /\ \A i \in 1..Len(a) : h[Len(g) + i] = a[i]
  BY <1>1, Counters
<1> HIDE DEF h
<1>4. ASSUME NEW k \in 1..Len(h) PROVE h[k] = k
  <2>1. CASE k <= Len(g)
    <3>1. k \in 1..Len(g)
      BY <1>0, <2>1
    <3>2. g[k] = 0 + k
      BY <3>1 DEF CountsFrom
    <3> QED BY <1>3, <3>1, <3>2
  <2>2. CASE k > Len(g)
    <3>1. k - Len(g) \in 1..n /\ k - Len(g) \in 1..Len(s) /\ Len(g) + (k - Len(g)) = k
      BY <1>0, <1>1, <1>3, <2>2
    <3>2. h[k] = a[k - Len(g)] /\ a[k - Len(g)] = s[k - Len(g)]
      BY <1>1, <1>3, <3>1
    <3>3. s[k - Len(g)] = Len(g) + (k - Len(g))
      BY <3>1 DEF CountsFrom
    <3> QED BY <3>1, <3>2, <3>3
  <2> QED BY <1>0, <2>1, <2>2
<1>5. CountsFrom(h, 0)
  BY <1>4 DEF CountsFrom
<1>6. h = [k \in 1..(Len(g) + n) |-> k]
  <2>1. h = [k \in 1..Len(h) |-> h[k]]
    BY <1>3
  <2> QED BY <1>1, <1>3, <1>4, <2>1
<1>7. ASSUME NEW k \in 1..Len(t) PROVE t[k] = Len(h) + k
  <2>1. n + k \in 1..Len(s)
    BY <1>0, <1>2
  <2>2. s[n + k] = Len(g) + (n + k)
    BY <2>1 DEF CountsFrom
  <2>3. Len(g) + (n + k) = Len(h) + k
    BY <1>0, <1>1, <1>3
  <2> QED BY <1>2, <2>2, <2>3
<1>8. CountsFrom(t, Len(h))
  BY <1>7 DEF CountsFrom
<1> QED BY <1>1, <1>2, <1>3, <1>5, <1>6, <1>8 DEF h, a, t

(* Units read keep Good.                                                   *)
LEMMA ReadKeeps ==
    ASSUME NEW e \in Ends, NEW c, NEW d, NEW w, NEW g, Good(e, c, d, w, g), Ctx(e, d),
           c.held, ~c.readerGone, NEW n \in 1..Len(c.recv)
    PROVE  LET b == [c EXCEPT !.recv = SubSeq(@, n + 1, Len(@))]
               h == g \o SubSeq(c.recv, 1, n)
           IN  /\ Good(e, b, d, w, h) /\ Grows(e, c, b) /\ Same(c, b, {"recv"})
               /\ h = [k \in 1..(Len(g) + n) |-> k] /\ Len(g) + n <= Upto(d.log, Len(d.log))
               /\ Len(g) \in Nat
<1> DEFINE L == d.log
           t == SubSeq(c.recv, n + 1, Len(c.recv))
           b == [c EXCEPT !.recv = t]
           h == g \o SubSeq(c.recv, 1, n)
           p == Peer(e)
           r == Nth(p, c.ackNr)
<1>0. /\ Shape(c) /\ StateOK(e, c) /\ EarlyOK(e, c) /\ SendOK(e, c, w) /\ RecvOK(e, c, L, g)
      /\ SizeOK(c) /\ AckOK(e, c, d) /\ OutOK(e, c)
  BY DEF Good
<1>1. c.recv \in Seq(Nat) /\ g \in Seq(Nat) /\ CountsFrom(g, 0)
  <2>1. c.recv \in Seq(Nat) /\ g \in Seq(Nat) /\ \A k \in 1..Len(g) : g[k] = k
    BY <1>0 DEF RecvOK
  <2>2. \A k \in 1..Len(g) : g[k] = 0 + k
    BY <2>1
  <2> QED BY <2>1, <2>2 DEF CountsFrom
<1>2. Joined(e, c) /\ Len(c.recv) > 0
  <2>1. Len(c.recv) > 0 /\ c.recv # <<>>
    BY <1>1
  <2> QED BY <1>0, <2>1 DEF RecvOK
<1>3. Len(g) + Len(c.recv) = Upto(L, r) /\ CountsFrom(c.recv, Len(g)) /\ r \in 0..Len(L)
  BY <1>0, <1>2 DEF RecvOK, CountsFrom
<1>4. /\ h \in Seq(Nat) /\ Len(h) = Len(g) + n /\ CountsFrom(h, 0)
      /\ h = [k \in 1..(Len(g) + n) |-> k]
      /\ t \in Seq(Nat) /\ Len(t) = Len(c.recv) - n /\ CountsFrom(t, Len(h))
  BY <1>1, <1>3, Consumed
<1> HIDE DEF h, t
<1>5. Shape(b) /\ Same(c, b, {"recv"}) /\ b.recv = t
  BY <1>0 DEF Shape, Same, Fields
<1> HIDE DEF b
<1>6. /\ b.seqNr = c.seqNr /\ b.ackNr = c.ackNr /\ b.reorder = c.reorder
      /\ b.wantFin = c.wantFin /\ b.peerFin = c.peerFin /\ b.nudge = c.nudge
      /\ b.readerGone = c.readerGone /\ b.offered = c.offered /\ b.sendBuf = c.sendBuf
      /\ b.unacked = c.unacked /\ b.error = c.error /\ b.needsAck = c.needsAck
      /\ b.held = c.held /\ b.out = c.out /\ b.log = c.log /\ b.teardown = c.teardown
      /\ b.state = c.state /\ b.lingers = c.lingers /\ b.eof = c.eof /\ b.probe = c.probe /\ b.peerWnd = c.peerWnd
  BY <1>5 DEF Same, Fields
<1>7. Joined(e, b) = Joined(e, c) /\ c.state # "none"
  <2>1. c.state = "none" => ~c.held
    BY <1>0, FreshFields DEF StateOK
  <2> QED BY <1>6, <2>1 DEF Joined
<1>8. Grows(e, c, b)
  BY <1>6, <1>7, GoodFacts, GrowsSame, LogSame
<1>9. StateOK(e, b) /\ EarlyOK(e, b)
  BY <1>0, <1>6, <1>7 DEF StateOK, EarlyOK
<1>10. Len(L) \in Nat /\ Upto(L, r) <= Upto(L, Len(L)) /\ Upto(L, r) \in Nat /\ Upto(L, Len(L)) \in Nat
  <2>1. LogOK(p, L) /\ p \in Ends
    BY PeerFacts DEF Ctx
  <2>2. Len(L) \in Nat /\ \A i \in 0..Len(L) : Upto(L, i) \in Nat
    BY <2>1, LogFacts
  <2>3. r \in 0..Len(L) /\ Len(L) \in 0..Len(L) /\ r <= Len(L)
    BY <1>3, <2>2
  <2> QED BY <2>1, <2>2, <2>3 DEF LogOK
<1>11. Len(h) + Len(b.recv) = Upto(L, r) /\ Len(h) <= Upto(L, Len(L)) /\ Len(g) \in Nat /\ Len(c.recv) \in Nat
  <2>1. Len(g) \in Nat /\ Len(c.recv) \in Nat /\ Len(b.recv) = Len(c.recv) - n
    BY <1>1, <1>4, <1>5
  <2>2. \A x, y, z, v, u \in Nat : x + y = z /\ v <= y /\ z <= u => (x + v) + (y - v) = z /\ x + v <= u
    OBVIOUS
  <2>3. n \in Nat /\ n <= Len(c.recv)
    BY <2>1
  <2>4. (Len(g) + n) + (Len(c.recv) - n) = Upto(L, r) /\ Len(g) + n <= Upto(L, Len(L))
    <3> DEFINE x == Len(g)
               y == Len(c.recv)
               z == Upto(L, r)
               u == Upto(L, Len(L))
    <3>1. x \in Nat /\ y \in Nat /\ z \in Nat /\ u \in Nat /\ x + y = z /\ n <= y /\ z <= u
      BY <1>3, <1>10, <2>1, <2>3
    <3> HIDE DEF x, y, z, u
    <3>2. (x + n) + (y - n) = z /\ x + n <= u
      BY <2>2, <2>3, <3>1
    <3> QED BY <3>2 DEF x, y, z, u
  <2>5. Len(h) = Len(g) + n
    BY <1>4
  <2> QED BY <2>1, <2>4, <2>5
<1>12. RecvOK(e, b, L, h)
  <2>1. \A k \in 1..Len(h) : h[k] = k
    <3>1. \A k \in 1..Len(h) : h[k] = 0 + k
      BY <1>4 DEF CountsFrom
    <3> QED BY <1>4, <3>1
  <2>2. b.recv \in Seq(Nat) /\ \A k \in 1..Len(b.recv) : b.recv[k] = Len(h) + k
    BY <1>4, <1>5 DEF CountsFrom
  <2>3. /\ IsFiniteSet(c.reorder) /\ c.ackNr \in Seqs
        /\ c.peerFin # None => Joined(e, c) /\ c.peerFin \in Seqs /\ Ended(L) /\ Nth(p, c.peerFin) = Len(L)
        /\ r \in 0..Len(L) /\ (e = "responder" => r >= 1)
        /\ \A q \in c.reorder :
              LET i == Nth(p, q.seq)
              IN  /\ q \in Buffered /\ i \in (r + 2)..Len(L)
                  /\ q.data = IF c.readerGone THEN <<>> ELSE Units(L, i)
        /\ \A q, o \in c.reorder : q.seq = o.seq => q = o
        /\ Ended(L) /\ Has(p, c, Len(L)) => c.peerFin # None
        /\ e = "responder" /\ c.held => Len(L) >= 2
        /\ c.eof /\ c.error = "none" => \/ c.peerFin # None /\ r = Len(L)
                                        \/ c.wantFin /\ c.state = "closed"
    BY <1>0, <1>2 DEF RecvOK
  <2>4. Has(p, b, Len(L)) = Has(p, c, Len(L))
    BY <1>6 DEF Has
  <2> QED BY <1>2, <1>4, <1>6, <1>7, <1>11, <2>1, <2>2, <2>3, <2>4 DEF RecvOK
<1>13. SizeOK(b)
  <2>1. /\ Cardinality(c.reorder) <= Shelf /\ Len(c.recv) + ReorderBytes(c) < RecvMax + PacketSize
        /\ ReorderBytes(b) = ReorderBytes(c)
    BY <1>0, <1>6 DEF SizeOK, ReorderBytes
  <2>2. ReorderBytes(c) \in Nat
    BY <1>0, ReorderCount
  <2>3. Len(b.recv) \in Nat /\ Len(b.recv) <= Len(c.recv) /\ RecvMax + PacketSize \in Nat
    <3>1. RecvMax + PacketSize \in Nat
      BY UtpConstants
    <3> QED BY <1>1, <1>4, <1>5, <3>1
  <2>4. Len(b.recv) + ReorderBytes(c) < RecvMax + PacketSize
    BY <1>11, <2>1, <2>2, <2>3
  <2> QED BY <1>6, <2>1, <2>4 DEF SizeOK
<1>14. SendOK(e, b, w) /\ AckOK(e, b, d)
  BY <1>0, <1>6, SendSame, AckSame
<1>15. OutOK(e, b)
  BY <1>0, <1>6, <1>8, GoodFacts, OutSame
<1>16. Good(e, b, d, w, h)
  BY <1>5, <1>9, <1>12, <1>13, <1>14, <1>15 DEF Good
<1>17. Len(g) + n <= Upto(L, Len(L))
  BY <1>4, <1>11
<1> QED BY <1>4, <1>5, <1>8, <1>11, <1>16, <1>17 DEF b, h, t

(* poll_read.                                                              *)
LEMMA ReadStep ==
    ASSUME UInv, FewPackets, NEW e \in Ends, PollRead(e)
    PROVE  /\ UInv'
           /\ \E n \in 1..Load[Peer(e)] :
                 /\ end[e] = "open" /\ Len(got[e]) + n <= written[Peer(e)]
                 /\ got' = [got EXCEPT ![e] = [k \in 1..(Len(@) + n) |-> k]]
           /\ written' = written /\ end' = end /\ \A f \in Ends : conn'[f].wantFin = conn[f].wantFin
<1> DEFINE c == conn[e]
           p == Peer(e)
           d == conn[p]
           g == got[e]
           w == written[e]
           n == Least({Chunk, Len(c.recv)})
           h == g \o SubSeq(c.recv, 1, n)
           a == [c EXCEPT !.recv = SubSeq(@, n + 1, Len(@))]
           x == NoteWindowUpdate(a)
           b == [x EXCEPT !.nudge = @ \/ (x.needsAck /\ ~c.needsAck)]
<1>1. /\ c.held /\ ~c.readerGone /\ c.recv # <<>> /\ conn' = [conn EXCEPT ![e] = b]
      /\ got' = [got EXCEPT ![e] = h] /\ net' = net /\ faults' = faults /\ written' = written
      /\ end' = end
  BY DEF PollRead, Holds
<1>2. conn = [f \in Ends |-> conn[f]] /\ written = [f \in Ends |-> written[f]]
      /\ got = [f \in Ends |-> got[f]] /\ end = [f \in Ends |-> end[f]]
  BY DEF UInv, Shapes
<1>3. /\ Good(e, c, d, w, g) /\ Ctx(e, d) /\ Good(p, d, c, written[p], got[p]) /\ c.out = <<>>
      /\ EndOK(e, c, d.log, end[e]) /\ p \in Ends /\ p # e /\ RestOK(e, c, d.log)
  BY BothEnds, PeerFacts
<1>4. n \in 1..Len(c.recv)
  <2>1. c.recv \in Seq(Nat)
    BY <1>3 DEF Good, RecvOK
  <2> DEFINE v == c.recv
  <2>4. Chunk \in Nat /\ Chunk > 0
    BY UtpConstants
  <2>5. v \in Seq(Nat) /\ v # <<>>
    BY <1>1, <2>1
  <2> HIDE DEF v
  <2>6. Len(v) \in Nat /\ Len(v) > 0
    BY <2>5
  <2>2. Len(c.recv) \in Nat /\ Len(c.recv) > 0 /\ Chunk \in Nat /\ Chunk > 0
    BY <2>4, <2>6 DEF v
  <2>7. Chunk \in Int /\ Len(c.recv) \in Int
    BY <2>2
  <2>3. n \in {Chunk, Len(c.recv)} /\ n <= Len(c.recv)
    BY <2>7, LeastOfTwo
  <2> HIDE DEF n
  <2> QED BY <2>2, <2>3
<1> HIDE DEF n
<1>5. /\ Good(e, a, d, w, h) /\ Grows(e, c, a) /\ Same(c, a, {"recv"})
      /\ h = [k \in 1..(Len(g) + n) |-> k] /\ Len(g) + n <= Upto(d.log, Len(d.log)) /\ Len(g) \in Nat
  BY <1>1, <1>3, <1>4, ReadKeeps
<1> HIDE DEF a, h
<1>6. a.held = c.held /\ a.state = c.state /\ a.wantFin = c.wantFin /\ a.out = c.out
  BY <1>5 DEF Same, Fields
<1>7. c.state # "none"
  <2>1. c.state = "none" => ~c.held
    BY <1>3, FreshFields DEF Good, StateOK
  <2> QED BY <1>1, <2>1
<1>8. Good(e, x, d, w, h) /\ Grows(e, a, x) /\ Same(a, x, {"needsAck"})
  BY <1>1, <1>5, <1>6, <1>7, NoteKeeps
<1> HIDE DEF x
<1>9. /\ x.held = c.held /\ x.state = c.state /\ x.wantFin = c.wantFin /\ x.out = c.out
      /\ Shape(x) /\ EarlyOK(e, x)
  BY <1>6, <1>8 DEF Same, Fields, Good
<1>10. Shape(b) /\ Same(x, b, {"nudge"}) /\ (x.nudge => b.nudge)
  BY <1>9 DEF Shape, Same, Fields
<1> HIDE DEF b
<1>11. /\ b.held = c.held /\ b.offered = x.offered /\ b.wantFin = c.wantFin /\ b.out = c.out
       /\ Same(x, b, Minor) /\ b.probe = x.probe /\ b.peerWnd = x.peerWnd
  BY <1>9, <1>10 DEF Same, Fields, Minor
<1>23. RestOK(e, b, d.log)
  <2>1. Alike(c, b) /\ b.state = c.state /\ b.unacked = c.unacked /\ b.sendBuf = c.sendBuf
        /\ b.wantFin = c.wantFin /\ b.probe = c.probe /\ (c.nudge => b.nudge)
    BY <1>5, <1>8, <1>10 DEF Same, Fields, Alike
  <2> QED BY <1>3, <2>1, RestSame
<1>12. EarlyOK(e, b)
  BY <1>1, <1>9, <1>11 DEF EarlyOK
<1>13. Good(e, b, d, w, h) /\ Grows(e, x, b)
  BY <1>7, <1>8, <1>9, <1>10, <1>11, <1>12, MinorChange
<1>14. Grows(e, c, b)
  BY <1>5, <1>8, <1>13, <1>3, GoodFacts, GrowsOn
<1>15. end[e] = "open"
  BY <1>1, <1>3 DEF EndOK
<1>16. EndOK(e, b, d.log, end'[e])
  BY <1>1, <1>15 DEF EndOK
<1>17. faults' \in 0..MaxFaults
  BY <1>1, FaultType
<1>18. got'[e] = h /\ got' = [f \in Ends |-> got'[f]] /\ Idle(p)
  BY <1>1, <1>2, <1>3 DEF Idle
<1>19. UInv'
  BY <1>1, <1>2, <1>3, <1>11, <1>13, <1>14, <1>16, <1>17, <1>18, <1>23, Changed
<1>20. \A f \in Ends : conn'[f].wantFin = conn[f].wantFin
  BY <1>1, <1>2, <1>11
<1>21. Len(g) + n <= written[p] /\ n \in 1..Load[p]
  <2> DEFINE u == Upto(d.log, Len(d.log))
             s == Len(d.sendBuf)
             v == written[p]
  <2>1. SendOK(p, d, v) /\ Load[p] \in Nat
    BY <1>3, PeerFacts DEF Good
  <2>2. v \in 0..Load[p] /\ u + s <= v /\ s \in Nat
    BY <2>1 DEF SendOK
  <2>3. u \in Nat
    BY <1>3, <2>1, LogBound
  <2>4. Len(g) + n <= u /\ n \in Nat /\ n > 0 /\ Len(g) \in Nat
    <3>1. n \in Nat /\ n > 0
      BY <1>4
    <3> QED BY <1>5, <3>1
  <2> HIDE DEF u, s, v
  <2>5. Len(g) + n <= v /\ n \in 1..Load[p]
    BY <2>1, <2>2, <2>3, <2>4
  <2> QED BY <2>5 DEF v
<1>22. got' = [got EXCEPT ![e] = [k \in 1..(Len(@) + n) |-> k]]
  BY <1>1, <1>5
<1> QED BY <1>1, <1>15, <1>19, <1>20, <1>21, <1>22

(* poll_read at the end of the stream.                                     *)
LEMMA EndStep ==
    ASSUME UInv, FewPackets, NEW e \in Ends, PollReadEnd(e)
    PROVE  /\ UInv' /\ conn' = conn /\ written' = written /\ got' = got /\ end[e] = "open"
           /\ \/ end' = [end EXCEPT ![e] = "error"]
              \/ /\ end' = [end EXCEPT ![e] = "eof"]
                 /\ \/ conn[Peer(e)].wantFin /\ Len(got[e]) = written[Peer(e)]
                    \/ conn[e].wantFin
<1> DEFINE c == conn[e]
           p == Peer(e)
           d == conn[p]
           g == got[e]
           t == IF c.error # "none" THEN "error" ELSE "eof"
<1>1. /\ Holds(e) /\ c.recv = <<>> /\ end[e] = "open" /\ (c.error # "none" \/ c.eof)
      /\ end' = [end EXCEPT ![e] = t] /\ conn' = conn /\ net' = net /\ faults' = faults
      /\ written' = written /\ got' = got
  BY DEF PollReadEnd
<1>2. conn = [f \in Ends |-> conn[f]] /\ written = [f \in Ends |-> written[f]]
      /\ got = [f \in Ends |-> got[f]] /\ end = [f \in Ends |-> end[f]]
  BY DEF UInv, Shapes
<1>3. /\ Good(e, c, d, written[e], g) /\ Ctx(e, d) /\ Good(p, d, c, written[p], got[p]) /\ c.out = <<>>
      /\ p \in Ends /\ p # e /\ RestOK(e, c, d.log)
  BY BothEnds, PeerFacts
<1>4. c.error # "none" => c.state = "closed"
  BY <1>3 DEF Good, StateOK
<1>5. c.eof /\ c.error = "none" => \/ c.peerFin # None /\ Nth(p, c.ackNr) = Len(d.log)
                                   \/ c.wantFin /\ c.state = "closed"
  BY <1>3 DEF Good, RecvOK
<1>6. EndOK(e, c, d.log, end'[e])
  BY <1>1, <1>4, <1>5 DEF EndOK
<1>7. Grows(e, c, c) /\ conn' = [conn EXCEPT ![e] = c]
  BY <1>1, <1>2, <1>3, GoodFacts, GrowsItself
<1>8. faults' \in 0..MaxFaults
  BY <1>1, FaultType
<1>9. Idle(p) /\ end' = [f \in Ends |-> end'[f]]
  BY <1>1, <1>2, <1>3 DEF Idle
<1>10. UInv'
  BY <1>1, <1>2, <1>3, <1>6, <1>7, <1>8, <1>9, Changed
<1>11. ASSUME c.peerFin # None, Nth(p, c.ackNr) = Len(d.log)
       PROVE  d.wantFin /\ Len(g) = written[p]
  <2>1. Ended(d.log) /\ Joined(e, c)
    BY <1>3, <1>11 DEF Good, RecvOK
  <2>2. d.wantFin /\ d.sendBuf = <<>>
    BY <1>3, <2>1 DEF Good, StateOK
  <2>3. Upto(d.log, Len(d.log)) + Len(d.sendBuf) = written[p]
    BY <1>3, <2>1 DEF Good, SendOK
  <2>4. Len(g) + Len(c.recv) = Upto(d.log, Len(d.log))
    BY <1>1, <1>3, <1>11, <2>1 DEF Good, RecvOK, Holds
  <2>5. SendOK(p, d, written[p]) /\ g \in Seq(Nat)
    BY <1>3 DEF Good, RecvOK
  <2>6. Upto(d.log, Len(d.log)) \in Nat /\ Len(g) \in Nat
    BY <1>3, <2>5, LogBound
  <2>7. Len(d.sendBuf) = 0 /\ Len(c.recv) = 0
    BY <1>1, <2>2
  <2>8. \A x, y, z : x \in Nat /\ y \in Nat /\ y + 0 = z /\ x + 0 = y => x = z
    OBVIOUS
  <2> QED BY <2>2, <2>3, <2>4, <2>6, <2>7, <2>8
<1>12. c.error = "none" => (d.wantFin /\ Len(g) = written[p]) \/ c.wantFin
  BY <1>1, <1>5, <1>11
<1> QED BY <1>1, <1>10, <1>12

(* The wish to end keeps Good.                                             *)
LEMMA ShutdownKeeps ==
    ASSUME NEW e \in Ends, NEW c, NEW d, NEW w, NEW g, Good(e, c, d, w, g), c.held
    PROVE  LET b == [c EXCEPT !.wantFin = TRUE, !.nudge = TRUE]
           IN  /\ Good(e, b, d, w, g) /\ Grows(e, c, b) /\ Same(c, b, {"wantFin", "nudge"})
               /\ b.wantFin = TRUE /\ b.nudge
<1> DEFINE b == [c EXCEPT !.wantFin = TRUE, !.nudge = TRUE]
<1>0. /\ Shape(c) /\ StateOK(e, c) /\ EarlyOK(e, c) /\ SendOK(e, c, w) /\ RecvOK(e, c, d.log, g)
      /\ SizeOK(c) /\ AckOK(e, c, d) /\ OutOK(e, c)
  BY DEF Good
<1>1. Shape(b) /\ Same(c, b, {"wantFin", "nudge"}) /\ b.wantFin /\ b.nudge
  BY <1>0 DEF Shape, Same, Fields
<1>2. b.wantFin = TRUE
  <2>1. "wantFin" \in DOMAIN c
    BY <1>0 DEF Shape, Fields
  <2> QED BY <2>1, Zenon
<1> HIDE DEF b
<1>3. /\ b.seqNr = c.seqNr /\ b.ackNr = c.ackNr /\ b.recv = c.recv /\ b.reorder = c.reorder
      /\ b.peerFin = c.peerFin
      /\ b.readerGone = c.readerGone /\ b.offered = c.offered /\ b.sendBuf = c.sendBuf
      /\ b.unacked = c.unacked /\ b.error = c.error /\ b.needsAck = c.needsAck
      /\ b.held = c.held /\ b.out = c.out /\ b.log = c.log /\ b.teardown = c.teardown
      /\ b.state = c.state /\ b.lingers = c.lingers /\ b.eof = c.eof /\ b.probe = c.probe /\ b.peerWnd = c.peerWnd
  BY <1>1 DEF Same, Fields
<1>4. Joined(e, b) = Joined(e, c) /\ c.state # "none"
  <2>1. c.state = "none" => ~c.held
    BY <1>0, FreshFields DEF StateOK
  <2> QED BY <1>3, <2>1 DEF Joined
<1>5. Grows(e, c, b)
  BY <1>3, <1>4, GoodFacts, GrowsSame, LogSame
<1>6. StateOK(e, b) /\ EarlyOK(e, b)
  BY <1>0, <1>1, <1>3, <1>4 DEF StateOK, EarlyOK
<1>7. RecvOK(e, b, d.log, g)
  <2>1. b.eof /\ b.error = "none" => (c.peerFin # None /\ Nth(Peer(e), c.ackNr) = Len(d.log))
                                         \/ (b.wantFin /\ b.state = "closed")
    BY <1>0, <1>1, <1>3 DEF RecvOK
  <2> QED BY <1>0, <1>3, <1>4, <2>1, RecvSame
<1>8. SendOK(e, b, w) /\ SizeOK(b) /\ AckOK(e, b, d)
  BY <1>0, <1>3, SendSame, SizeSame, AckSame
<1>9. OutOK(e, b)
  BY <1>0, <1>3, <1>5, GoodFacts, OutSame
<1> QED BY <1>1, <1>2, <1>5, <1>6, <1>7, <1>8, <1>9 DEF Good, b

(* The program at an end says that it is done.                             *)
Finishes(e) ==
    /\ conn'[e].wantFin = TRUE /\ conn'[Peer(e)].wantFin = conn[Peer(e)].wantFin
    /\ UNCHANGED Programs

(* poll_shutdown.                                                          *)
LEMMA ShutdownStep ==
    ASSUME UInv, FewPackets, NEW e \in Ends, PollShutdown(e)
    PROVE  UInv' /\ Finishes(e)
<1> DEFINE c == conn[e]
           p == Peer(e)
           d == conn[p]
           b == [c EXCEPT !.wantFin = TRUE, !.nudge = TRUE]
<1>1. /\ c.held /\ net' = net /\ faults' = faults /\ UNCHANGED Programs
      /\ conn' = [conn EXCEPT ![e].wantFin = TRUE, ![e].nudge = TRUE]
  BY DEF PollShutdown, Holds
<1>2. conn = [f \in Ends |-> conn[f]] /\ written = [f \in Ends |-> written[f]]
      /\ got = [f \in Ends |-> got[f]] /\ end = [f \in Ends |-> end[f]]
  BY DEF UInv, Shapes
<1>3. conn' = [conn EXCEPT ![e] = b]
  BY <1>1, <1>2, Zenon
<1>4. Good(e, c, d, written[e], got[e]) /\ c.out = <<>> /\ EndOK(e, c, d.log, end[e])
      /\ p \in Ends /\ p # e /\ RestOK(e, c, d.log)
  BY BothEnds, PeerFacts
<1>5. /\ Good(e, b, d, written[e], got[e]) /\ Grows(e, c, b) /\ Same(c, b, {"wantFin", "nudge"})
      /\ b.wantFin = TRUE /\ b.nudge
  BY <1>1, <1>4, ShutdownKeeps
<1> HIDE DEF b
<1>6. b.out = c.out /\ b.recv = c.recv /\ b.state = c.state /\ b.peerFin = c.peerFin /\ b.ackNr = c.ackNr
      /\ Alike(c, b)
  BY <1>5 DEF Same, Fields, Alike
<1>13. RestOK(e, b, d.log)
  BY <1>4, <1>5, <1>6, NudgedRests
<1>7. written' = written /\ got' = got /\ end' = end
  BY <1>1 DEF Programs
<1>8. EndOK(e, b, d.log, end'[e])
  BY <1>4, <1>6, <1>7 DEF EndOK
<1>9. faults' \in 0..MaxFaults
  BY <1>1, FaultType
<1>10. UInv'
  BY <1>1, <1>2, <1>3, <1>4, <1>5, <1>6, <1>7, <1>8, <1>9, <1>13, Changed DEF Idle
<1>11. conn'[e] = b /\ conn'[p] = conn[p]
  BY <1>2, <1>3, <1>4
<1>12. conn'[e].wantFin = TRUE
  BY <1>5, <1>11, Zenon
<1> QED BY <1>1, <1>10, <1>11, <1>12 DEF Finishes

(* What a reader that is gone leaves of the packets kept for reordering.   *)
Emptied(S) == {[q EXCEPT !.data = <<>>] : q \in S}

(* The packets are still known, their units are not.                       *)
LEMMA EmptiedFacts ==
    ASSUME NEW S, IsFiniteSet(S), S \subseteq Buffered
    PROVE  /\ IsFiniteSet(Emptied(S)) /\ Cardinality(Emptied(S)) <= Cardinality(S)
           /\ \A x \in Emptied(S) : /\ x \in Buffered /\ x.data = <<>>
                                    /\ \E q \in S : x.seq = q.seq
           /\ \A q \in S : \E x \in Emptied(S) : x.seq = q.seq
           /\ \A x, y \in Emptied(S) : x.seq = y.seq => x = y
           /\ Cardinality(UNION {{x} \X DOMAIN x.data : x \in Emptied(S)}) = 0
<1> DEFINE E(q) == [q EXCEPT !.data = <<>>]
           f == [q \in S |-> E(q)]
           T == Emptied(S)
<1>1. \A q \in S : E(q) = [seq |-> q.seq, data |-> <<>>] /\ q.seq \in Seqs
  BY DEF Buffered
<1>2. T = {E(q) : q \in S}
  BY DEF Emptied
<1> HIDE DEF E, T
<1>3. IsFiniteSet(T) /\ Cardinality(T) <= Cardinality(S)
  <2>1. f \in Surjection(S, T)
    BY <1>2 DEF Surjection
  <2> QED BY <2>1, FS_Surjection
<1>4. ASSUME NEW x \in T
      PROVE  /\ x \in Buffered /\ x.data = <<>> /\ x = [seq |-> x.seq, data |-> <<>>]
             /\ \E q \in S : x.seq = q.seq
  <2>1. PICK q \in S : x = E(q)
    BY <1>2
  <2>2. x = [seq |-> q.seq, data |-> <<>>] /\ q.seq \in Seqs
    BY <1>1, <2>1
  <2>3. <<>> \in Seq(Nat)
    OBVIOUS
  <2> QED BY <2>2, <2>3 DEF Buffered
<1>5. \A q \in S : \E x \in T : x.seq = q.seq
  <2> SUFFICES ASSUME NEW q \in S PROVE \E x \in T : x.seq = q.seq
    OBVIOUS
  <2>1. E(q) \in T /\ E(q).seq = q.seq
    BY <1>1, <1>2
  <2> QED BY <2>1
<1>6. \A x, y \in T : x.seq = y.seq => x = y
  BY <1>4
<1>7. UNION {{x} \X DOMAIN x.data : x \in T} = {}
  <2>1. \A x \in T : {x} \X DOMAIN x.data = {}
    <3> SUFFICES ASSUME NEW x \in T PROVE {x} \X DOMAIN x.data = {}
      OBVIOUS
    <3>1. x.data = <<>>
      BY <1>4
    <3>2. DOMAIN x.data = {}
      BY <3>1
    <3> QED BY <3>2
  <2> QED BY <2>1
<1>8. Cardinality(UNION {{x} \X DOMAIN x.data : x \in T}) = 0
  BY <1>7, FS_EmptySet
<1> QED BY <1>3, <1>4, <1>5, <1>6, <1>8 DEF T

(* The program holds the stream.                                           *)
Holding(c) == c.held /\ ~c.readerGone

(* The program is done.                                                    *)
Said(b) == b.wantFin = TRUE

(* What dropping the stream leaves as it is.                               *)
Left(c, b) == b.state = c.state /\ b.recv = <<>> /\ b.peerFin = c.peerFin /\ b.ackNr = c.ackNr
              /\ b.nudge /\ Alike(c, b)

(* The end without its program.                                            *)
Dropped(c) ==
    [c EXCEPT !.wantFin = TRUE, !.readerGone = TRUE, !.recv = <<>>, !.reorder = Emptied(c.reorder),
              !.teardown = (c.state # "closed"), !.nudge = TRUE]

(* It is good.                                                             *)
LEMMA LeaveKeeps ==
    ASSUME NEW e \in Ends, NEW c, NEW d, NEW w, NEW g, Good(e, c, d, w, g), Ctx(e, d),
           Holding(c), NEW b, b = Dropped(c)
    PROVE  Good(e, b, d, w, g) /\ Grows(e, c, b) /\ Said(b) /\ Left(c, b)
<1> DEFINE F == {"wantFin", "readerGone", "recv", "reorder", "teardown", "nudge"}
           L == d.log
           p == Peer(e)
           r == Nth(p, c.ackNr)
<1>0. /\ Shape(c) /\ StateOK(e, c) /\ EarlyOK(e, c) /\ SendOK(e, c, w) /\ RecvOK(e, c, L, g)
      /\ SizeOK(c) /\ AckOK(e, c, d) /\ OutOK(e, c) /\ c.held /\ ~c.readerGone
  BY DEF Good, Holding
<1>1. /\ Shape(b) /\ Same(c, b, F) /\ b.wantFin /\ b.readerGone /\ b.recv = <<>>
      /\ b.reorder = Emptied(c.reorder) /\ (b.teardown <=> c.state # "closed") /\ b.nudge
  BY <1>0, ZenonT(30) DEF Shape, Same, Fields, Dropped
<1>2. Said(b)
  <2>1. "wantFin" \in DOMAIN c
    BY <1>0 DEF Shape, Fields
  <2> QED BY <2>1, Zenon DEF Dropped, Said
<1>3. /\ b.seqNr = c.seqNr /\ b.ackNr = c.ackNr /\ b.peerFin = c.peerFin
      /\ b.offered = c.offered /\ b.sendBuf = c.sendBuf
      /\ b.unacked = c.unacked /\ b.error = c.error /\ b.needsAck = c.needsAck
      /\ b.held = c.held /\ b.out = c.out /\ b.log = c.log
      /\ b.state = c.state /\ b.lingers = c.lingers /\ b.eof = c.eof /\ b.probe = c.probe /\ b.peerWnd = c.peerWnd
      /\ b.pending = c.pending
  BY <1>1 DEF Same, Fields
<1>4. Joined(e, b) = Joined(e, c) /\ c.state # "none" /\ Joined(e, c)
  <2>1. c.state = "none" => ~c.held
    BY <1>0, FreshFields DEF StateOK
  <2> QED BY <1>0, <1>3, <2>1 DEF Joined
<1>5. /\ IsFiniteSet(c.reorder) /\ c.ackNr \in Seqs /\ g \in Seq(Nat) /\ \A k \in 1..Len(g) : g[k] = k
      /\ Len(g) <= Upto(L, Len(L))
      /\ c.peerFin # None => Joined(e, c) /\ c.peerFin \in Seqs /\ Ended(L) /\ Nth(p, c.peerFin) = Len(L)
      /\ r \in 0..Len(L) /\ (e = "responder" => r >= 1)
      /\ \A q \in c.reorder : q \in Buffered /\ Nth(p, q.seq) \in (r + 2)..Len(L)
      /\ Ended(L) /\ Has(p, c, Len(L)) => c.peerFin # None
      /\ e = "responder" /\ c.held => Len(L) >= 2
      /\ c.eof /\ c.error = "none" => \/ c.peerFin # None /\ r = Len(L)
                                      \/ c.wantFin /\ c.state = "closed"
  BY <1>0, <1>4 DEF RecvOK
<1> DEFINE S == c.reorder
           T == b.reorder
<1>6. /\ IsFiniteSet(T) /\ Cardinality(T) <= Cardinality(S)
      /\ \A x \in T : x \in Buffered /\ x.data = <<>> /\ \E q \in S : x.seq = q.seq
      /\ \A q \in S : \E x \in T : x.seq = q.seq
      /\ \A x, y \in T : x.seq = y.seq => x = y
      /\ ReorderBytes(b) = 0
  <2>1. S \subseteq Buffered
    BY <1>5
  <2>2. T = Emptied(S)
    BY <1>1
  <2>3. IsFiniteSet(S)
    BY <1>5
  <2>4. ReorderBytes(b) = Cardinality(UNION {{x} \X DOMAIN x.data : x \in T})
    BY DEF ReorderBytes
  <2> HIDE DEF S, T
  <2> QED BY <2>1, <2>2, <2>3, <2>4, EmptiedFacts
<1>7. \A i : Has(p, b, i) <=> Has(p, c, i)
  <2>1. \A i : (\E x \in T : Nth(p, x.seq) = i) <=> (\E q \in S : Nth(p, q.seq) = i)
    BY <1>6
  <2> QED BY <1>3, <2>1 DEF Has
<1>8. Grows(e, c, b)
  <2>1. r \in Nat /\ Nth(p, b.ackNr) = r
    BY <1>3, <1>5, NthRange, PeerFacts
  <2>2. Extends(c.log, b.log)
    BY <1>3, LogSame
  <2> QED BY <1>4, <1>7, <2>1, <2>2 DEF Grows
<1>9. StateOK(e, b) /\ EarlyOK(e, b)
  BY <1>0, <1>1, <1>3, <1>4 DEF StateOK, EarlyOK
<1>10. RecvOK(e, b, L, g)
  <2>1. b.recv \in Seq(Nat)
    BY <1>1
  <2>2. \A x \in T : /\ x \in Buffered /\ Nth(p, x.seq) \in (r + 2)..Len(L)
                     /\ x.data = IF b.readerGone THEN <<>> ELSE Units(L, Nth(p, x.seq))
    BY <1>1, <1>5, <1>6
  <2>3. b.eof /\ b.error = "none" => \/ b.peerFin # None /\ r = Len(L)
                                     \/ b.wantFin /\ b.state = "closed"
    BY <1>1, <1>3, <1>5
  <2>4. Ended(L) /\ Has(p, b, Len(L)) => b.peerFin # None
    BY <1>3, <1>5, <1>7
  <2> QED BY <1>1, <1>3, <1>4, <1>5, <1>6, <2>1, <2>2, <2>3, <2>4 DEF RecvOK
<1>11. SizeOK(b)
  <2>1. Cardinality(S) <= Shelf
    BY <1>0 DEF SizeOK
  <2>2. Len(b.recv) = 0 /\ 0 + 0 < RecvMax + PacketSize /\ Shelf \in Int
    BY <1>1, UtpConstants DEF Shelf
  <2>3. Cardinality(S) \in Nat /\ Cardinality(T) \in Nat
    BY <1>5, <1>6, FS_CardinalityType
  <2>4. Cardinality(T) <= Shelf
    BY <1>6, <2>1, <2>2, <2>3
  <2> QED BY <1>6, <2>2, <2>4 DEF SizeOK
<1>12. SendOK(e, b, w) /\ AckOK(e, b, d)
  BY <1>0, <1>3, SendSame, AckSame
<1>13. OutOK(e, b)
  <2>1. b.ackNr \in Seqs /\ b.log \in Seq(Entry) /\ c.log \in Seq(Entry)
    BY <1>3, <1>5, GoodFacts
  <2> QED BY <1>0, <1>3, <1>5, <1>8, <2>1, OutSame
<1>14. Good(e, b, d, w, g)
  BY <1>1, <1>9, <1>10, <1>11, <1>12, <1>13 DEF Good
<1>15. Left(c, b)
  BY <1>1, <1>3 DEF Left, Alike
<1> HIDE DEF F, L, p, r, S, T
<1> QED BY <1>2, <1>8, <1>14, <1>15

(* drop.                                                                   *)
LEMMA DropStep ==
    ASSUME UInv, FewPackets, NEW e \in Ends, NEW how, DropStream(e, how)
    PROVE  UInv' /\ Finishes(e)
<1> DEFINE c == conn[e]
           p == Peer(e)
           d == conn[p]
           w == written[e]
           g == got[e]
           a == IF how = "abort" THEN Abort(c) ELSE c
           b == Dropped(a)
<1>1. c.held /\ ~c.readerGone /\ Flush(e, b, net) /\ faults' = faults /\ UNCHANGED Programs
  BY DEF DropStream, Holds, Dropped, Emptied
<1>2. conn = [f \in Ends |-> conn[f]]
  BY DEF UInv, Shapes
<1>3. Good(e, c, d, w, g) /\ Ctx(e, d) /\ EndOK(e, c, d.log, end[e]) /\ p \in Ends /\ p # e
      /\ RestOK(e, c, d.log) /\ Short(c)
  BY BothEnds, PeerFacts
<1>4. c.state # "none"
  <2>1. c.state = "none" => ~c.held
    BY <1>3, FreshFields DEF Good, StateOK
  <2> QED BY <1>1, <2>1
<1>5. /\ Good(e, a, d, w, g) /\ Grows(e, c, a) /\ a.held /\ ~a.readerGone /\ a.state # "none"
      /\ EndOK(e, a, d.log, end[e]) /\ RestOK(e, a, d.log)
  <2>1. CASE a = c
    BY <1>1, <1>3, <1>4, <2>1, GoodFacts, GrowsItself
  <2>2. CASE a = Abort(c)
    <3>1. /\ Good(e, a, d, w, g) /\ Grows(e, c, a) /\ a.state = "closed"
          /\ Same(c, a, Failing \cup {"out", "advertised"})
      BY <1>3, <1>4, <2>2, AbortKeeps
    <3> HIDE DEF a
    <3>2. a.held = c.held /\ a.readerGone = c.readerGone /\ a.recv = c.recv
      BY <3>1 DEF Same, Failing, Fields
    <3> QED BY <1>1, <1>3, <3>1, <3>2, ClosedFits DEF EndOK, Open
  <2> QED BY <2>1, <2>2
<1> HIDE DEF a
<1>6. Good(e, b, d, w, g) /\ Grows(e, a, b) /\ Said(b) /\ Left(a, b)
  BY <1>3, <1>5, LeaveKeeps DEF Holding
<1> HIDE DEF b
<1>7. Grows(e, c, b)
  BY <1>3, <1>5, <1>6, GoodFacts, GrowsOn
<1>8. EndOK(e, b, d.log, end[e])
  BY <1>5, <1>6 DEF EndOK, Left
<1>13. RestOK(e, b, d.log)
  BY <1>5, <1>6, NudgedRests DEF Left
<1>9. faults' \in 0..MaxFaults
  BY <1>1, FaultType
<1>10. Subnet(net)
  BY Subnets
<1>11. UInv'
  <2>1. b.state # "none"
    BY <1>5, <1>6 DEF Left
  <2> QED BY <1>1, <1>6, <1>7, <1>8, <1>9, <1>10, <1>13, <2>1, Flushed
<1>12. conn'[e].wantFin = TRUE /\ conn'[p] = conn[p]
  <2>1. conn' = [conn EXCEPT ![e] = [b EXCEPT !.out = <<>>]] /\ Shape(b)
    BY <1>1, <1>6, GoodFacts DEF Flush
  <2>2. conn'[e] = [b EXCEPT !.out = <<>>] /\ conn'[p] = conn[p]
    BY <1>2, <1>3, <2>1
  <2>3. [b EXCEPT !.out = <<>>].wantFin = b.wantFin
    BY <2>1 DEF Shape, Fields
  <2>4. conn'[e].wantFin = TRUE
    BY <1>6, <2>2, <2>3, Zenon DEF Said
  <2> QED BY <2>2, <2>4
<1> QED BY <1>1, <1>11, <1>12 DEF Finishes

(* The connection begins.                                                  *)
First == [type |-> "syn", upto |-> 0]

(* The log after the SYN.                                                  *)
LEMMA FirstLog ==
    LET L == <<First>>
    IN  /\ LogOK("initiator", L) /\ Len(L) = 1 /\ L[1] = First /\ ~Ended(L) /\ Upto(L, 1) = 0
        /\ Units(L, 1) = <<>>
<1> DEFINE L == <<First>>
<1>1. L \in Seq(Entry) /\ Len(L) = 1 /\ L[1] = First /\ L # <<>>
  BY DEF Entry, First, Kinds
<1>2. First.type = "syn" /\ First.upto = 0
  BY DEF First
<1> HIDE DEF L
<1>3. Upto(L, 0) = 0 /\ Upto(L, 1) = 0 /\ ~Ended(L)
  BY <1>1, <1>2 DEF Upto, Ended
<1>4. Units(L, 1) = <<>>
  BY <1>3 DEF Units
<1>5. \A i, j \in 0..Len(L) : i <= j => Upto(L, i) <= Upto(L, j)
  <2>1. \A i \in 0..Len(L) : Upto(L, i) = 0
    BY <1>1, <1>3
  <2> QED BY <2>1
<1>6. ASSUME NEW i \in 1..Len(L)
      PROVE  /\ Upto(L, i) - Upto(L, i - 1) <= PacketSize
             /\ L[i].type = "data" <=> Upto(L, i - 1) < Upto(L, i)
             /\ L[i].type = "syn" <=> i = 1 /\ "initiator" = "initiator"
             /\ L[i].type = "fin" => i = Len(L)
             /\ i <= Upto(L, i) + (IF L[i].type = "fin" THEN 2 ELSE 1)
  <2>1. i = 1 /\ i - 1 = 0
    BY <1>1
  <2>2. L[i].type = "syn" /\ Upto(L, i) = 0 /\ Upto(L, i - 1) = 0
    BY <1>1, <1>2, <1>3, <2>1
  <2>3. PacketSize \in Nat
    BY UtpConstants
  <2> QED BY <2>1, <2>2, <2>3
<1>7. LogOK("initiator", L)
  BY <1>1, <1>5, <1>6 DEF LogOK
<1> QED BY <1>1, <1>3, <1>4, <1>7 DEF L

(* The log before it.                                                      *)
LEMMA EmptyLog == ASSUME NEW e \in Ends PROVE LogOK(e, <<>>) /\ Upto(<<>>, 0) = 0 /\ Len(<<>>) = 0 /\ ~Ended(<<>>)
<1>1. <<>> \in Seq(Entry) /\ Len(<<>>) = 0 /\ Upto(<<>>, 0) = 0 /\ ~Ended(<<>>)
  BY DEF Upto, Ended
<1> QED BY <1>1 DEF LogOK

(* An end before anything has arrived.                                     *)
LEMMA NothingYet ==
    ASSUME NEW e \in Ends, NEW c, NEW L, LogOK(Peer(e), L), Upto(L, Len(L)) = 0,
           e = "initiator" => L = <<>>, c.recv = <<>>, c.reorder = {}, c.ackNr = 0, c.peerFin = None,
           ~Joined(e, c), ~c.eof, ~c.held
    PROVE  RecvOK(e, c, L, <<>>) /\ SizeOK(c)
<1>1. c.recv \in Seq(Nat) /\ <<>> \in Seq(Nat) /\ Len(c.recv) = 0 /\ 0 \in Seqs
  BY ModFacts DEF Seqs
<1>2. IsFiniteSet(c.reorder) /\ Cardinality(c.reorder) = 0
  BY FS_EmptySet
<1>3. RecvOK(e, c, L, <<>>)
  BY <1>1, <1>2 DEF RecvOK
<1>4. ReorderBytes(c) = 0
  <2>1. UNION {{p} \X DOMAIN p.data : p \in c.reorder} = {}
    OBVIOUS
  <2> QED BY <2>1, FS_EmptySet DEF ReorderBytes
<1>5. Shelf \in Nat /\ 0 + 0 < RecvMax + PacketSize
  BY UtpConstants DEF Shelf
<1>6. SizeOK(c)
  BY <1>1, <1>2, <1>4, <1>5 DEF SizeOK
<1> QED BY <1>3, <1>6

(* Sending acknowledges.                                                   *)
LEMMA NothingOwed ==
    ASSUME NEW c, Shape(c), NEW type, NEW data
    PROVE  ~TransmitNew(c, type, data).needsAck
<1> DEFINE p == [type |-> type, seq |-> c.seqNr, data |-> data, tx |-> 1, resend |-> FALSE,
                 fast |-> FALSE]
           s == [type |-> type, upto |-> Upto(c.log, Len(c.log)) + Len(data)]
           a == Push(c, type, c.seqNr, data)
           u == [a EXCEPT !.seqNr = Add(@, 1), !.unacked = Append(@, p), !.log = Append(@, s)]
<1>1. Shape(a)
  BY PushFields
<1>2. TransmitNew(c, type, data) = Sent(u)
  BY DEF TransmitNew
<1> HIDE DEF a, p, s
<1>3. Shape(u)
  BY <1>1 DEF Shape, Fields
<1> HIDE DEF u
<1> QED BY <1>2, <1>3 DEF Sent, Shape, Fields

(* The initiator that has sent its SYN.                                    *)
LEMMA FirstSent ==
    LET b == TransmitNew([Fresh("initiator") EXCEPT !.state = "syn"], "syn", <<>>)
        a == [b EXCEPT !.out = <<>>]
        i == "initiator"
        d == Fresh("responder")
    IN  /\ Good(i, a, d, 0, <<>>) /\ a.out = <<>> /\ a.log = <<First>> /\ a.state = "syn"
        /\ b.out \in Seq(Datagram) /\ \A m \in Elems(b.out) : MsgOK(i, a, m)
<1> DEFINE i == "initiator"
           c == [Fresh(i) EXCEPT !.state = "syn"]
           b == TransmitNew(c, "syn", <<>>)
           a == [b EXCEPT !.out = <<>>]
           d == Fresh("responder")
           x == [type |-> "syn", seq |-> Isn[i], data |-> <<>>, tx |-> 1, resend |-> FALSE,
                 fast |-> FALSE]
           m == Encode(c, "syn", Isn[i], <<>>)
           L == <<First>>
<1>0. i \in Ends /\ "responder" \in Ends /\ Peer(i) = "responder" /\ Isn[i] \in Seqs /\ Load[i] \in Nat
  BY PeerFacts DEF Ends, Peer
<1>1. /\ Shape(Fresh(i)) /\ Fresh(i).seqNr = Isn[i] /\ Fresh(i).ackNr = 0 /\ Fresh(i).sendBuf = <<>>
      /\ Fresh(i).unacked = <<>> /\ Fresh(i).recv = <<>> /\ Fresh(i).reorder = {}
      /\ ~Fresh(i).wantFin /\ Fresh(i).peerFin = None /\ ~Fresh(i).eof /\ Fresh(i).error = "none"
      /\ ~Fresh(i).lingers /\ ~Fresh(i).readerGone /\ ~Fresh(i).held /\ ~Fresh(i).nudge
      /\ Fresh(i).out = <<>> /\ Fresh(i).log = <<>> /\ Fresh(i).probe = "none"
      /\ Fresh(i).peerWnd = RecvMax
  BY <1>0, FreshFields
<1>2. Shape(c) /\ Same(Fresh(i), c, {"state"}) /\ c.state = "syn"
  BY <1>1 DEF Shape, Same, Fields
<1> HIDE DEF c
<1>3. /\ c.seqNr = Isn[i] /\ c.ackNr = 0 /\ c.sendBuf = <<>> /\ c.unacked = <<>> /\ c.recv = <<>>
      /\ c.reorder = {} /\ ~c.wantFin /\ c.peerFin = None /\ ~c.eof /\ c.error = "none"
      /\ ~c.lingers /\ ~c.readerGone /\ ~c.held /\ ~c.nudge /\ c.out = <<>> /\ c.log = <<>>
      /\ c.probe = "none" /\ c.peerWnd = RecvMax
  BY <1>1, <1>2 DEF Same, Fields
<1>4. Upto(<<>>, Len(<<>>)) + Len(<<>>) = 0 /\ First = [type |-> "syn", upto |-> 0]
  BY EmptyLog, <1>0 DEF First
<1>5. /\ Shape(b)
      /\ Same(c, b, {"out", "advertised", "probe", "needsAck", "unacked", "seqNr", "log"})
      /\ b.out = Append(<<>>, m) /\ b.unacked = Append(<<>>, x) /\ b.seqNr = Add(Isn[i], 1)
      /\ b.log = Append(<<>>, First) /\ b.probe = "none"
  BY <1>2, <1>3, <1>4, TransmitFields
<1>6. ~b.needsAck
  BY <1>2, NothingOwed
<1> HIDE DEF b, m, x
<1>7. /\ Shape(a) /\ Same(b, a, {"out"}) /\ a.out = <<>>
  BY <1>5 DEF Shape, Same, Fields
<1> HIDE DEF a
<1>8. /\ a.ackNr = 0 /\ a.sendBuf = <<>> /\ a.recv = <<>> /\ a.reorder = {} /\ ~a.wantFin
      /\ a.peerFin = None /\ ~a.eof /\ a.error = "none" /\ ~a.lingers /\ ~a.readerGone /\ ~a.held
      /\ ~a.nudge /\ a.state = "syn" /\ a.probe = "none" /\ a.peerWnd = RecvMax
  BY <1>2, <1>3, <1>5, <1>7 DEF Same, Fields
<1>9. a.unacked = <<x>> /\ a.seqNr = Add(Isn[i], 1) /\ a.log = L /\ ~a.needsAck /\ b.out = <<m>>
  <2>1. a.unacked = b.unacked /\ a.seqNr = b.seqNr /\ a.log = b.log /\ a.needsAck = b.needsAck
    BY <1>7 DEF Same, Fields
  <2> QED BY <1>5, <1>6, <2>1
<1>10. /\ LogOK(i, L) /\ Len(L) = 1 /\ L[1] = First /\ ~Ended(L) /\ Upto(L, 1) = 0
       /\ Units(L, 1) = <<>> /\ First.type = "syn"
  BY FirstLog DEF First
<1> HIDE DEF L
<1>11. d.log = <<>> /\ LogOK("responder", <<>>) /\ Upto(<<>>, 0) = 0 /\ Len(<<>>) = 0
  BY <1>0, FreshFields, EmptyLog
<1> HIDE DEF d
<1>12. Nth(i, Isn[i]) = 1 /\ Len(<<>>) < Mod \div 2
  <2>1. 0 \in Nat /\ 0 + 1 \in Seqs /\ 0 < Mod \div 2
    BY ModFacts DEF Seqs
  <2>2. Nth(i, Add(Isn[i], 0)) = 0 + 1
    BY <1>0, <2>1, NthIsn
  <2>3. Add(Isn[i], 0) = Isn[i]
    BY <1>0, ModFacts DEF Add, Seqs
  <2> QED BY <1>11, <2>1, <2>2, <2>3
<1>13. RecvOK(i, a, d.log, <<>>) /\ SizeOK(a) /\ RecvOK(i, c, d.log, <<>>)
  <2>1. ~Joined(i, a) /\ ~Joined(i, c)
    BY <1>3, <1>8 DEF Joined
  <2> QED BY <1>0, <1>3, <1>8, <1>11, <2>1, NothingYet
<1>14. x \in Packet /\ Carries(i, L, x) /\ x.seq = Isn[i]
  <2>1. x.type = "syn" /\ x.seq = Isn[i] /\ x.data = <<>>
    BY DEF x
  <2>2. x \in Packet
    BY <1>0 DEF x, Packet, Kinds
  <2>3. 1 \in 1..Len(L)
    BY <1>10
  <2> QED BY <1>10, <1>12, <2>1, <2>2, <2>3 DEF Carries
<1>15. <<x>> \in Seq(Packet) /\ Len(<<x>>) = 1 /\ <<x>>[1] = x /\ <<x>> # <<>>
  BY <1>14
<1>16. SendOK(i, a, 0)
  <2>1. a.sendBuf \in Seq(Nat) /\ Len(a.sendBuf) = 0
    BY <1>8
  <2>2. \A k \in 1..Len(a.unacked) : Carries(i, L, a.unacked[k])
    BY <1>9, <1>14, <1>15
  <2>3. \A j, k \in 1..Len(a.unacked) : j < k => FALSE
    BY <1>9, <1>15
  <2>4. Upto(L, Len(L)) = 0 /\ 0 \in 0..Load[i] /\ a.unacked \in Seq(Packet)
    BY <1>0, <1>9, <1>10, <1>15
  <2>5. a.seqNr = Add(Isn[i], Len(L))
    BY <1>9, <1>10
  <2> QED BY <1>9, <1>10, <2>1, <2>2, <2>3, <2>4, <2>5 DEF SendOK
<1>17. StateOK(i, a) /\ EarlyOK(i, a)
  BY <1>8, <1>9, <1>10, <1>15, UtpConstants DEF StateOK, EarlyOK, Probes
<1>18. AckOK(i, a, d)
  <2>1. \A k \in 1..Len(a.log) : k = 1
    BY <1>9, <1>10
  <2>2. 1 \in 1..Len(a.unacked) /\ Nth(i, a.unacked[1].seq) = 1
    BY <1>9, <1>12, <1>14, <1>15
  <2> QED BY <2>1, <2>2 DEF AckOK
<1>19. OutOK(i, a)
  BY <1>7 DEF OutOK, Elems
<1>20. Good(i, a, d, 0, <<>>)
  BY <1>7, <1>13, <1>16, <1>17, <1>18, <1>19 DEF Good
<1>21. MsgOK(i, a, m)
  <2>1. Ctx(i, d)
    BY <1>0, <1>11, <1>12 DEF Ctx
  <2>2. a.ackNr = c.ackNr /\ a.reorder = c.reorder
    BY <1>3, <1>8
  <2>3. "syn" \in Kinds \cup {"state", "reset"} /\ <<>> \in Seq(Nat) /\ 1 \in 1..Len(a.log)
    BY <1>9, <1>10 DEF Kinds
  <2>4. /\ Nth(i, Isn[i]) \in 1..Len(a.log) /\ "syn" = a.log[Nth(i, Isn[i])].type
        /\ <<>> = Units(a.log, Nth(i, Isn[i]))
    BY <1>9, <1>10, <1>12, <2>3
  <2> QED BY <1>0, <1>13, <2>1, <2>2, <2>3, <2>4, Encoded DEF m
<1>22. b.out \in Seq(Datagram) /\ \A y \in Elems(b.out) : MsgOK(i, a, y)
  <2>1. m \in Datagram
    BY <1>21 DEF MsgOK
  <2>2. Elems(<<m>>) = {m} /\ <<m>> \in Seq(Datagram)
    BY <2>1 DEF Elems
  <2> QED BY <1>9, <1>21, <2>2
<1> QED BY <1>7, <1>8, <1>9, <1>20, <1>22 DEF a, b, c, d, L

(* The responder that has seen none.                                       *)
LEMMA FreshGood ==
    ASSUME NEW a, a.log = <<First>>
    PROVE  LET r == "responder"
           IN  Good(r, Fresh(r), a, 0, <<>>) /\ Fresh(r).out = <<>>
<1> DEFINE r == "responder"
           d == Fresh(r)
<1>0. r \in Ends /\ Peer(r) = "initiator" /\ Isn[r] \in Seqs /\ Load[r] \in Nat
  BY PeerFacts DEF Ends, Peer
<1>1. /\ Shape(d) /\ d.probe = "none" /\ d.state = "none" /\ d.seqNr = Isn[r] /\ d.ackNr = 0 /\ d.sendBuf = <<>>
      /\ d.unacked = <<>> /\ d.recv = <<>> /\ d.reorder = {}
      /\ ~d.needsAck /\ ~d.wantFin /\ d.peerFin = None /\ ~d.eof /\ d.error = "none"
      /\ ~d.lingers /\ ~d.readerGone /\ ~d.offered /\ ~d.held /\ ~d.nudge
      /\ d.out = <<>> /\ d.log = <<>> /\ d.peerWnd = RecvMax
  BY <1>0, FreshFields
<1>2. LogOK(r, <<>>) /\ Upto(<<>>, 0) = 0 /\ Len(<<>>) = 0 /\ ~Ended(<<>>)
  BY <1>0, EmptyLog
<1>3. LogOK("initiator", a.log) /\ Upto(a.log, Len(a.log)) = 0
  BY FirstLog
<1>4. RecvOK(r, d, a.log, <<>>) /\ SizeOK(d)
  <2>1. ~Joined(r, d)
    BY <1>1 DEF Joined
  <2> HIDE DEF d
  <2> QED BY <1>0, <1>1, <1>3, <2>1, NothingYet
<1>5. StateOK(r, d)
  <2> DEFINE f == d
  <2>1. f = Fresh(r)
    OBVIOUS
  <2> HIDE DEF f
  <2> QED BY <1>1, <1>2, <2>1 DEF StateOK
<1> HIDE DEF d
<1>6. EarlyOK(r, d)
  BY <1>1, UtpConstants DEF EarlyOK, Probes
<1>7. SendOK(r, d, 0)
  <2>1. d.seqNr = Add(Isn[r], Len(d.log))
    <3>1. Add(Isn[r], 0) = Isn[r]
      BY <1>0, ModFacts DEF Add, Seqs
    <3> QED BY <1>1, <1>2, <3>1
  <2>2. d.sendBuf \in Seq(Nat) /\ d.unacked \in Seq(Packet) /\ Len(d.sendBuf) = 0 /\ Len(d.unacked) = 0
    BY <1>1
  <2>3. 0 \in 0..Load[r] /\ 0 + 0 <= 0 /\ 0 + 0 = 0
    BY <1>0
  <2> QED BY <1>1, <1>2, <2>1, <2>2, <2>3 DEF SendOK
<1>8. AckOK(r, d, a)
  BY <1>1, <1>2 DEF AckOK
<1>9. OutOK(r, d)
  BY <1>1 DEF OutOK, Elems
<1> QED BY <1>1, <1>4, <1>5, <1>6, <1>7, <1>8, <1>9 DEF Good, d

(* The invariant holds first ...                                           *)
LEMMA Starts == UtpInit => UInv
<1> SUFFICES ASSUME UtpInit PROVE UInv
  OBVIOUS
<1> DEFINE b == TransmitNew([Fresh("initiator") EXCEPT !.state = "syn"], "syn", <<>>)
           a == [b EXCEPT !.out = <<>>]
           i == "initiator"
           r == "responder"
           d == Fresh(r)
<1>1. /\ conn = [e \in Ends |-> IF e = i THEN a ELSE Fresh(e)]
      /\ net = [e \in Ends |-> IF e = r THEN b.out ELSE <<>>]
      /\ faults = 0 /\ written = [e \in Ends |-> 0] /\ got = [e \in Ends |-> <<>>]
      /\ end = [e \in Ends |-> "open"]
  BY DEF UtpInit
<1>2. /\ Good(i, a, d, 0, <<>>) /\ a.out = <<>> /\ a.log = <<First>> /\ a.state = "syn"
      /\ b.out \in Seq(Datagram) /\ \A m \in Elems(b.out) : MsgOK(i, a, m)
  BY FirstSent
<1> HIDE DEF a, b
<1>3. Good(r, d, a, 0, <<>>) /\ d.out = <<>>
  BY <1>2, FreshGood
<1>4. conn[i] = a /\ conn[r] = d /\ net[i] = <<>> /\ net[r] = b.out
  BY <1>1 DEF Ends
<1>8. d.state = "none"
  BY FreshFields DEF Ends
<1> HIDE DEF d
<1>9. RestOK(i, a, d.log) /\ RestOK(r, d, a.log)
  BY <1>2, <1>8, ClosedFits DEF Open
<1>5. SideOK(i, a, d, 0, <<>>, b.out, "open") /\ SideOK(r, d, a, 0, <<>>, <<>>, "open")
  BY <1>2, <1>3, <1>9 DEF SideOK, EndOK, Elems
<1>6. Shapes
  <2>1. faults \in 0..MaxFaults
    BY <1>1, UtpConstants
  <2>2. net \in [Ends -> Seq(Datagram)]
    BY <1>1, <1>2
  <2> QED BY <1>1, <2>1, <2>2 DEF Shapes
<1>7. ASSUME NEW e \in Ends
      PROVE  SideOK(e, conn[e], conn[Peer(e)], written[e], got[e], net[Peer(e)], end[e])
  <2>1. written[e] = 0 /\ got[e] = <<>> /\ end[e] = "open"
    BY <1>1
  <2>2. CASE e = i
    BY <1>4, <1>5, <2>1, <2>2 DEF Peer
  <2>3. CASE e = r
    BY <1>4, <1>5, <2>1, <2>3 DEF Peer
  <2> QED BY <2>2, <2>3 DEF Ends
<1> QED BY <1>6, <1>7 DEF UInv

(* ... in every stuttering step ...                                        *)
LEMMA Unmoved == ASSUME UInv, UNCHANGED utpVars PROVE UInv'
BY DEF UInv, Shapes, utpVars

(* Every step is one of the program's, or it is silent.                    *)
LEMMA StepKeeps ==
    ASSUME UInv, FewPackets, NEW e \in Ends,
           \/ Receive(e) \/ OpenInbound(e) \/ Stray(e) \/ Drive(e) \/ Teardown(e) \/ ProbeTimer(e)
           \/ Linger(e) \/ Rto(e) \/ Disturb(e) \/ Ages(e) \/ SocketGone(e)
    PROVE  UInv' /\ Silent
<1>1. CASE Receive(e)
  BY <1>1, ReceiveStep
<1>2. CASE OpenInbound(e)
  BY <1>2, OpenStep
<1>3. CASE Stray(e)
  BY <1>3, StrayStep
<1>4. CASE Drive(e)
  BY <1>4, DriveStep
<1>5. CASE Teardown(e)
  BY <1>5, TeardownStep
<1>6. CASE ProbeTimer(e)
  BY <1>6, ProbeStep
<1>7. CASE Linger(e)
  BY <1>7, LingerStep
<1>8. CASE Rto(e)
  BY <1>8, RtoStep
<1>9. CASE Disturb(e)
  BY <1>9, DisturbStep
<1>10. CASE SocketGone(e)
  BY <1>10, SocketGoneStep
<1>11. CASE Ages(e)
  BY <1>11, AgesStep
<1> QED BY <1>1, <1>2, <1>3, <1>4, <1>5, <1>6, <1>7, <1>8, <1>9, <1>10, <1>11

(* ... and in every other step.                                            *)
LEMMA UInvKept == ASSUME UInv, FewPackets, [UtpNext]_utpVars PROVE UInv'
<1>1. CASE UNCHANGED utpVars
  BY <1>1, Unmoved
<1>2. ASSUME NEW e \in Ends, Step(e) PROVE UInv'
  <2>1. CASE PollRead(e)
    BY <2>1, ReadStep
  <2>2. CASE PollReadEnd(e)
    BY <2>2, EndStep
  <2> QED BY <1>2, <2>1, <2>2, StepKeeps DEF Step
<1>3. ASSUME NEW e \in Ends, Disturb(e) \/ Ages(e) \/ SocketGone(e) PROVE UInv'
  BY <1>3, StepKeeps
<1>4. ASSUME NEW e \in Ends, PollWrite(e) PROVE UInv'
  BY <1>4, WriteStep
<1>5. ASSUME NEW e \in Ends, PollShutdown(e) PROVE UInv'
  BY <1>5, ShutdownStep
<1>6. ASSUME NEW e \in Ends, NEW how \in {"drop", "abort"}, DropStream(e, how) PROVE UInv'
  BY <1>6, DropStep
<1> QED BY <1>1, <1>2, <1>3, <1>4, <1>5, <1>6 DEF UtpNext

(* The invariant gives the types, and what was acknowledged has arrived.   *)
LEMMA Typed == ASSUME UInv, FewPackets PROVE UtpTypeOK
<1>1. faults \in 0..MaxFaults
  BY DEF UInv, Shapes
<1>2. ASSUME NEW e \in Ends
      PROVE  LET c == conn[e]
             IN  /\ c.state \in {"none", "syn", "connected", "fin", "closed"}
                 /\ c.seqNr \in 0..(Mod - 1) /\ c.ackNr \in 0..(Mod - 1)
                 /\ Cardinality(c.reorder) <= Shelf
                 /\ Len(c.recv) + ReorderBytes(c) < RecvMax + PacketSize
                 /\ \A i, j \in DOMAIN c.unacked :
                       i < j => SeqAfter(c.unacked[j].seq, c.unacked[i].seq)
                 /\ written[e] \in 0..Load[e]
  <2> DEFINE c == conn[e]
             U == c.unacked
             d == conn[Peer(e)]
  <2>1. Good(e, c, d, written[e], got[e]) /\ Short(c)
    BY BothEnds
  <2>2. StateOK(e, c) /\ SendOK(e, c, written[e]) /\ RecvOK(e, c, d.log, got[e]) /\ SizeOK(c)
    BY <2>1 DEF Good
  <2> HIDE DEF c, d
  <2>3. c.state \in {"none", "syn", "connected", "fin", "closed"}
    BY <2>2 DEF StateOK
  <2>4. c.ackNr \in 0..(Mod - 1)
    BY <2>2 DEF RecvOK, Seqs
  <2>5. Cardinality(c.reorder) <= Shelf /\ Len(c.recv) + ReorderBytes(c) < RecvMax + PacketSize
    BY <2>2 DEF SizeOK
  <2>6. Len(c.log) \in Nat /\ Len(c.log) < Mod \div 2
    BY <2>1, <2>2, LogBound
  <2>7. c.seqNr \in 0..(Mod - 1)
    <3>1. Len(c.log) + 1 \in Seqs
      BY <2>6, ModFacts DEF Seqs
    <3>2. Add(Isn[e], Len(c.log)) \in Seqs
      BY <2>6, <3>1, NthIsn
    <3> QED BY <2>2, <3>2 DEF SendOK, Seqs
  <2>8. /\ U \in Seq(Packet) /\ DOMAIN U = 1..Len(U)
        /\ \A k \in 1..Len(U) : Carries(e, c.log, U[k]) /\ U[k] \in Packet
        /\ \A j, k \in 1..Len(U) : j < k => Nth(e, U[j].seq) < Nth(e, U[k].seq)
    BY <2>2 DEF SendOK
  <2>9. ASSUME NEW i \in DOMAIN U, NEW j \in DOMAIN U, i < j PROVE SeqAfter(U[j].seq, U[i].seq)
    <3>1. /\ U[i].seq \in Seqs /\ U[j].seq \in Seqs
          /\ Nth(e, U[i].seq) \in 1..Len(c.log) /\ Nth(e, U[j].seq) \in 1..Len(c.log)
      BY <2>8 DEF Carries, Packet
    <3>2. Nth(e, U[i].seq) < Mod \div 2 /\ Nth(e, U[j].seq) < Mod \div 2
      BY <2>6, <3>1, ModFacts
    <3>3. Nth(e, U[j].seq) > Nth(e, U[i].seq)
      BY <2>8, <2>9, <3>1
    <3> QED BY <3>1, <3>2, <3>3, NthAfter
  <2>10. written[e] \in 0..Load[e]
    BY <2>2 DEF SendOK
  <2> QED BY <2>3, <2>4, <2>5, <2>7, <2>9, <2>10 DEF c
<1> QED BY <1>1, <1>2 DEF UtpTypeOK, Shelf

(* Every unit that was sent is in one of the packets of the log.           *)
LEMMA Located ==
    ASSUME NEW e \in Ends, NEW L, LogOK(e, L), NEW k \in Nat, k > 0, k <= Upto(L, Len(L))
    PROVE  \E i \in 1..Len(L) : Upto(L, i - 1) < k /\ k <= Upto(L, i) /\ k \in Elems(Units(L, i))
<1> DEFINE n == Len(L)
           G == {i \in Nat : i <= n => Upto(L, i) < k}
<1>1. n \in Nat /\ \A i \in 0..n : Upto(L, i) \in Nat
  BY LogFacts
<1>2. \E i \in 1..n : Upto(L, i - 1) < k /\ k <= Upto(L, i)
  <2> SUFFICES ASSUME ~\E i \in 1..n : Upto(L, i - 1) < k /\ k <= Upto(L, i) PROVE FALSE
    OBVIOUS
  <2>1. 0 \in G
    BY <1>1 DEF Upto
  <2>2. ASSUME NEW i \in 1..n, i - 1 \in G PROVE i \in G
    <3>1. i - 1 \in 0..n /\ i \in 0..n /\ i - 1 <= n /\ i \in Nat
      BY <1>1
    <3>2. Upto(L, i - 1) < k
      BY <2>2, <3>1
    <3>3. ~(k <= Upto(L, i))
      BY <3>2
    <3> QED BY <1>1, <3>1, <3>3
  <2>a. G \in SUBSET Nat
    OBVIOUS
  <2> HIDE DEF G
  <2>b. \A i \in 0..n : i \in G
    BY <1>1, <2>a, <2>1, <2>2, Induct
  <2>3. n \in G
    BY <1>1, <2>b
  <2>4. Upto(L, n) < k
    BY <1>1, <2>3 DEF G
  <2> QED BY <1>1, <2>4
<1>3. PICK i \in 1..n : Upto(L, i - 1) < k /\ k <= Upto(L, i)
  BY <1>2
<1> DEFINE j == k - Upto(L, i - 1)
<1>4. i - 1 \in 0..n /\ i \in 0..n
  BY <1>1
<1>5. /\ Len(Units(L, i)) = Upto(L, i) - Upto(L, i - 1)
      /\ \A x \in 1..Len(Units(L, i)) : Units(L, i)[x] = Upto(L, i - 1) + x
  BY UnitsOf
<1>6. j \in 1..Len(Units(L, i)) /\ Upto(L, i - 1) + j = k
  BY <1>1, <1>3, <1>4, <1>5, SMTT(30)
<1> HIDE DEF j
<1>7. k = Units(L, i)[j]
  BY <1>5, <1>6
<1>8. k \in Elems(Units(L, i))
  BY <1>6, <1>7 DEF Elems
<1> QED BY <1>3, <1>8

(* What is in neither queue has arrived.                                   *)
LEMMA AckedArrived ==
    ASSUME NEW e \in Ends, NEW c, NEW d, NEW w, NEW g, NEW v, NEW h, Good(e, c, d, w, g),
           RecvOK(Peer(e), d, c.log, h), c.state \in {"connected", "fin"}
    PROVE  /\ d.readerGone \/
              (1..w) \ (Elems(c.sendBuf) \union UNION {Elems(c.unacked[i].data) : i \in DOMAIN c.unacked})
                 \subseteq Elems(h) \union Elems(d.recv) \union UNION {Elems(x.data) : x \in d.reorder}
           /\ c.state = "fin" /\ (\A i \in DOMAIN c.unacked : c.unacked[i].type # "fin") => d.peerFin # None
<1> DEFINE L == c.log
           n == Len(L)
           p == Peer(e)
           r == Nth(e, d.ackNr)
           t == Upto(L, n)
           B == c.sendBuf
           U == c.unacked
<1>0. p \in Ends /\ Peer(p) = e
  BY PeerFacts
<1>1. StateOK(e, c) /\ SendOK(e, c, w) /\ AckOK(e, c, d)
  BY DEF Good
<1>2. c.error = "none"
  BY <1>1 DEF StateOK
<1>3. LogOK(e, L) /\ n \in Nat /\ t \in Nat /\ \A i \in 0..n : Upto(L, i) \in Nat
  BY <1>1, LogFacts DEF SendOK
<1>4. /\ B \in Seq(Nat) /\ Len(B) \in Nat /\ \A k \in 1..Len(B) : B[k] = t + k
      /\ t + Len(B) = w /\ U \in Seq(Packet) /\ DOMAIN U = 1..Len(U)
      /\ \A k \in 1..Len(U) : Carries(e, L, U[k])
  BY <1>1, <1>2 DEF SendOK
<1>5. \A i \in 1..n : \/ \E k \in 1..Len(U) : Nth(e, U[k].seq) = i
                      \/ Joined(p, d) /\ Has(e, d, i)
  BY <1>1, <1>2 DEF AckOK
<1>6. /\ Joined(p, d) => r \in 0..n
      /\ d.recv \in Seq(Nat) /\ h \in Seq(Nat) /\ \A k \in 1..Len(h) : h[k] = k
      /\ Joined(p, d) /\ ~d.readerGone =>
            /\ Len(h) + Len(d.recv) = Upto(L, r) /\ \A k \in 1..Len(d.recv) : d.recv[k] = Len(h) + k
            /\ \A x \in d.reorder : x.data = Units(L, Nth(e, x.seq))
      /\ Joined(p, d) /\ Ended(L) /\ Has(e, d, n) => d.peerFin # None
  BY <1>0 DEF RecvOK
<1> HIDE DEF L, n, p, r, t, B, U
<1>7. ASSUME ~d.readerGone, NEW k \in 1..w, k \notin Elems(B),
             k \notin UNION {Elems(U[i].data) : i \in DOMAIN U}
      PROVE  k \in Elems(h) \/ k \in Elems(d.recv) \/ k \in UNION {Elems(x.data) : x \in d.reorder}
  <2>1. k <= t
    <3> SUFFICES ASSUME k > t PROVE FALSE
      BY <1>3, <1>4
    <3>1. k - t \in 1..Len(B) /\ t + (k - t) = k
      BY <1>3, <1>4
    <3>2. B[k - t] = k
      BY <1>4, <3>1
    <3> QED BY <1>7, <3>1, <3>2 DEF Elems
  <2>2. PICK i \in 1..n : Upto(L, i - 1) < k /\ k <= Upto(L, i) /\ k \in Elems(Units(L, i))
    <3>1. k \in Nat /\ k > 0 /\ k <= Upto(L, Len(L))
      BY <1>4, <2>1 DEF t, n
    <3> QED BY <1>3, <3>1, Located DEF n
  <2>3. ASSUME NEW x \in 1..Len(U), Nth(e, U[x].seq) = i PROVE FALSE
    <3>1. U[x].data = Units(L, i)
      BY <1>4, <2>3 DEF Carries
    <3>2. k \in Elems(U[x].data) /\ x \in DOMAIN U
      BY <1>4, <2>2, <3>1
    <3> QED BY <1>7, <3>2
  <2>4. Joined(p, d) /\ Has(e, d, i)
    BY <1>5, <2>3
  <2>5. ASSUME i <= r PROVE k \in Elems(h) \/ k \in Elems(d.recv)
    <3>1. i \in 0..n /\ r \in 0..n
      BY <1>3, <1>6, <2>4
    <3>2. Upto(L, i) <= Upto(L, r)
      BY <1>3, <2>5, <3>1 DEF LogOK, n
    <3>3. Upto(L, i) \in Nat /\ Upto(L, r) \in Nat /\ Len(h) \in Nat /\ Len(d.recv) \in Nat
      BY <1>3, <1>6, <3>1
    <3>4. k <= Len(h) + Len(d.recv) /\ k \in Nat /\ k >= 1
      BY <1>4, <1>6, <1>7, <2>2, <2>4, <3>2, <3>3
    <3>5. CASE k <= Len(h)
      <4>1. k \in 1..Len(h)
        BY <3>3, <3>4, <3>5
      <4> QED BY <1>6, <4>1 DEF Elems
    <3>6. CASE k > Len(h)
      <4>1. k - Len(h) \in 1..Len(d.recv) /\ Len(h) + (k - Len(h)) = k
        BY <3>3, <3>4, <3>6
      <4>2. d.recv[k - Len(h)] = k
        BY <1>6, <1>7, <2>4, <4>1
      <4> QED BY <4>1, <4>2 DEF Elems
    <3> QED BY <3>3, <3>4, <3>5, <3>6
  <2>6. ASSUME NEW x \in d.reorder, Nth(e, x.seq) = i PROVE k \in Elems(x.data)
    BY <1>6, <1>7, <2>2, <2>4, <2>6
  <2>7. i <= r \/ \E x \in d.reorder : Nth(e, x.seq) = i
    BY <2>4 DEF Has, r
  <2> QED BY <2>5, <2>6, <2>7
<1>8. ASSUME c.state = "fin", \A i \in DOMAIN U : U[i].type # "fin" PROVE d.peerFin # None
  <2>1. Ended(L)
    BY <1>1, <1>8 DEF StateOK, L
  <2>2. n \in 1..n /\ L[n].type = "fin"
    <3>1. L \in Seq(Entry) /\ L # <<>>
      BY <1>3, <2>1 DEF LogOK, Ended
    <3>2. Len(L) > 0
      BY <3>1
    <3> QED BY <1>3, <2>1, <3>2 DEF Ended, n
  <2>3. ASSUME NEW x \in 1..Len(U), Nth(e, U[x].seq) = n PROVE FALSE
    <3>1. U[x].type = "fin"
      BY <1>4, <2>2, <2>3 DEF Carries
    <3> QED BY <1>4, <1>8, <3>1
  <2>4. Joined(p, d) /\ Has(e, d, n)
    BY <1>5, <2>2, <2>3
  <2> QED BY <1>6, <2>1, <2>4
<1>9. ~d.readerGone =>
        (1..w) \ (Elems(B) \union UNION {Elems(U[i].data) : i \in DOMAIN U})
           \subseteq Elems(h) \union Elems(d.recv) \union UNION {Elems(x.data) : x \in d.reorder}
  BY <1>7
<1> QED BY <1>8, <1>9 DEF B, U

(* So the property holds.                                                  *)
LEMMA Acked == ASSUME UInv, FewPackets PROVE AckedHasArrived
<1> SUFFICES ASSUME NEW e \in Ends
             PROVE  LET c == conn[e]
                        q == conn[Peer(e)]
                        queued == Elems(c.sendBuf)
                                     \union UNION {Elems(c.unacked[i].data) : i \in DOMAIN c.unacked}
                    IN  c.state \in {"connected", "fin"} =>
                          /\ q.readerGone \/ (1..written[e]) \ queued \subseteq Arrived(Peer(e))
                          /\ c.state = "fin" /\ (\A i \in DOMAIN c.unacked : c.unacked[i].type # "fin") =>
                                q.peerFin # None
  BY Typed DEF AckedHasArrived
<1>1. /\ Good(e, conn[e], conn[Peer(e)], written[e], got[e])
      /\ RecvOK(Peer(e), conn[Peer(e)], conn[e].log, got[Peer(e)])
  BY BothEnds
<1>2. Arrived(Peer(e)) = Elems(got[Peer(e)]) \union Elems(conn[Peer(e)].recv)
                            \union UNION {Elems(x.data) : x \in conn[Peer(e)].reorder}
  BY DEF Arrived
<1> QED BY <1>1, <1>2, AckedArrived

-----------------------------------------------------------------------------
(* The invariant holds always, while each end sends less than half a turn  *)
(* of packets.                                                             *)
THEOREM UtpInvariance == UtpSpec /\ []FewPackets => []UInv
<1>1. UtpInit => UInv
  BY Starts
<1>2. UInv /\ FewPackets /\ [UtpNext]_utpVars => UInv'
  BY UInvKept
<1> QED BY <1>1, <1>2, PTL DEF UtpSpec

(* Sequence numbers keep their width, the packets waiting for an           *)
(* acknowledgement are in order around the wrap, and the receive buffers   *)
(* never hold a full packet more than RECV_BUF_MAX (accept_inorder).       *)
THEOREM UtpTypes == UtpSpec /\ []FewPackets => []UtpTypeOK
<1>1. UInv /\ FewPackets => UtpTypeOK
  BY Typed
<1> QED BY <1>1, UtpInvariance, PTL

(* What process_ack and process_selective_ack drop from the retransmission *)
(* queue has arrived at the peer.                                          *)
THEOREM AckedHasArrivedHolds == UtpSpec /\ []FewPackets => []AckedHasArrived
<1>1. UInv /\ FewPackets => AckedHasArrived
  BY Acked
<1> QED BY <1>1, UtpInvariance, PTL

-----------------------------------------------------------------------------
(* The byte stream: first states are first states.                         *)
Finished == [e \in Ends |-> conn[e].wantFin]

(* First states are first states.                                          *)
LEMMA StreamStarts == ASSUME UtpInit PROVE Stream!StreamInit
<1>1. written = [e \in Ends |-> 0] /\ got = [e \in Ends |-> <<>>] /\ end = [e \in Ends |-> "open"]
  BY DEF UtpInit
<1>2. ASSUME NEW e \in Ends PROVE conn[e].wantFin = FALSE
  <2>1. CASE e = "initiator"
    BY <2>1 DEF UtpInit, TransmitNew, Sent, Push, Fresh
  <2>2. CASE e = "responder"
    BY <2>2 DEF UtpInit, Fresh
  <2> QED BY <2>1, <2>2 DEF Ends
<1>3. [e \in Ends |-> conn[e].wantFin] = [e \in Ends |-> FALSE]
  BY <1>2
<1> QED BY <1>1, <1>3 DEF Stream!StreamInit

(* Programs that are done.                                                 *)
LEMMA SameFinished ==
    ASSUME \A f \in Ends : conn'[f].wantFin = conn[f].wantFin PROVE Finished' = Finished
BY DEF Finished

(* Silent steps are steps of no stream.                                    *)
LEMMA SilentStutters == ASSUME Silent PROVE UNCHANGED Stream!streamVars
<1>1. Finished' = Finished
  BY SameFinished DEF Silent
<1> QED BY <1>1 DEF Silent, Programs, Stream!streamVars, Finished

(* A program that is done says so.                                         *)
LEMMA FinishesSays == ASSUME NEW e \in Ends, Finishes(e) PROVE Stream!SayFinished(e)
<1>1. Finished' = [Finished EXCEPT ![e] = TRUE]
  <2>1. ASSUME NEW f \in Ends, f # e PROVE f = Peer(e)
    BY <2>1 DEF Ends, Peer
  <2>2. ASSUME NEW f \in Ends PROVE Finished'[f] = [Finished EXCEPT ![e] = TRUE][f]
    BY <2>1, Zenon DEF Finished, Finishes
  <2> QED BY <2>2, Zenon DEF Finished
<1> QED BY <1>1 DEF Finishes, Programs, Stream!SayFinished, Finished

(* poll_write puts units into the stream.                                  *)
LEMMA WritePuts ==
    ASSUME UInv, FewPackets, NEW e \in Ends, PollWrite(e)
    PROVE  \E n \in 1..Load[e] : Stream!PutUnits(e, n)
<1>1. PICK n \in 1..Load[e] : /\ ~conn[e].wantFin /\ written[e] + n <= Load[e]
                              /\ written' = [written EXCEPT ![e] = @ + n]
  BY WriteStep
<1>2. got' = got /\ end' = end /\ Finished' = Finished
  BY WriteStep, SameFinished
<1>3. Stream!PutUnits(e, n)
  BY <1>1, <1>2 DEF Stream!PutUnits, Finished
<1> QED BY <1>3

(* poll_read gets the next units from it.                                  *)
LEMMA ReadGets ==
    ASSUME UInv, FewPackets, NEW e \in Ends, PollRead(e)
    PROVE  \E n \in 1..Load[Peer(e)] : Stream!GetUnits(e, n)
<1>1. PICK n \in 1..Load[Peer(e)] :
         /\ end[e] = "open" /\ Len(got[e]) + n <= written[Peer(e)]
         /\ got' = [got EXCEPT ![e] = [k \in 1..(Len(@) + n) |-> k]]
  BY ReadStep
<1>2. written' = written /\ end' = end /\ Finished' = Finished
  BY ReadStep, SameFinished
<1>3. Stream!GetUnits(e, n)
  BY <1>1, <1>2 DEF Stream!GetUnits, Finished
<1> QED BY <1>3

(* poll_read tells the end where it is.                                    *)
LEMMA EndTold ==
    ASSUME UInv, FewPackets, NEW e \in Ends, PollReadEnd(e)
    PROVE  Stream!SeeEof(e) \/ Stream!SeeError(e)
<1>1. conn' = conn /\ written' = written /\ got' = got /\ end[e] = "open"
  BY EndStep
<1>2. Finished' = Finished
  BY <1>1 DEF Finished
<1>3. Peer(e) \in Ends
  BY PeerFacts
<1>4. CASE end' = [end EXCEPT ![e] = "error"]
  BY <1>1, <1>2, <1>4 DEF Stream!SeeError, Finished
<1>5. CASE /\ end' = [end EXCEPT ![e] = "eof"]
           /\ \/ conn[Peer(e)].wantFin /\ Len(got[e]) = written[Peer(e)]
              \/ conn[e].wantFin
  BY <1>1, <1>2, <1>3, <1>5 DEF Stream!SeeEof, Finished
<1> QED BY <1>4, <1>5, EndStep

(* Every step of the connection is a step of the byte stream or none.      *)
LEMMA StreamKept ==
    ASSUME UInv, FewPackets, [UtpNext]_utpVars
    PROVE  [Stream!StreamNext]_(Stream!streamVars)
<1>1. CASE UNCHANGED utpVars
  BY <1>1 DEF utpVars, Stream!streamVars
<1>2. ASSUME NEW e \in Ends, Step(e) PROVE [Stream!StreamNext]_(Stream!streamVars)
  <2>1. CASE PollRead(e)
    BY <2>1, ReadGets DEF Stream!StreamNext
  <2>2. CASE PollReadEnd(e)
    BY <2>2, EndTold DEF Stream!StreamNext
  <2>3. CASE \/ Receive(e) \/ OpenInbound(e) \/ Stray(e) \/ Drive(e) \/ Teardown(e) \/ ProbeTimer(e)
             \/ Linger(e) \/ Rto(e)
    <3>1. Silent
      BY <2>3, StepKeeps
    <3> QED BY <3>1, SilentStutters
  <2> QED BY <1>2, <2>1, <2>2, <2>3 DEF Step
<1>3. ASSUME NEW e \in Ends, Disturb(e) \/ Ages(e) \/ SocketGone(e)
      PROVE  [Stream!StreamNext]_(Stream!streamVars)
  <2>1. Silent
    BY <1>3, StepKeeps
  <2> QED BY <2>1, SilentStutters
<1>4. ASSUME NEW e \in Ends, PollWrite(e) PROVE [Stream!StreamNext]_(Stream!streamVars)
  BY <1>4, WritePuts DEF Stream!StreamNext
<1>5. ASSUME NEW e \in Ends, PollShutdown(e) PROVE [Stream!StreamNext]_(Stream!streamVars)
  BY <1>5, ShutdownStep, FinishesSays DEF Stream!StreamNext
<1>6. ASSUME NEW e \in Ends, NEW how \in {"drop", "abort"}, DropStream(e, how)
      PROVE  [Stream!StreamNext]_(Stream!streamVars)
  BY <1>6, DropStep, FinishesSays DEF Stream!StreamNext
<1> QED BY <1>1, <1>2, <1>3, <1>4, <1>5, <1>6 DEF UtpNext

(* A uTP connection implements the pair of byte streams: whatever the      *)
(* network loses, doubles or reorders, poll_read returns 1, 2, 3... and    *)
(* the end of the stream is told only where it is.                         *)
THEOREM ByteStreamHolds == UtpSpec /\ []FewPackets => ImplementsByteStream
<1>1. UtpInit => Stream!StreamInit
  BY StreamStarts
<1>2. UInv /\ FewPackets /\ [UtpNext]_utpVars => [Stream!StreamNext]_(Stream!streamVars)
  BY StreamKept
<1> QED BY <1>1, <1>2, UtpInvariance, PTL DEF UtpSpec, ImplementsByteStream, Stream!StreamSpec

-----------------------------------------------------------------------------
(* An end that waits for nothing and has not failed has sent all it was    *)
(* given, and its peer has it.                                             *)
LEMMA AtRest ==
    ASSUME UInv, FewPackets, Rests, ~Failed, NEW e \in Ends
    PROVE  LET c == conn[e]
           IN  /\ c.error = "none" /\ c.state # "syn" /\ c.sendBuf = <<>> /\ c.unacked = <<>>
               /\ c.state \in Open => ~c.nudge /\ ~c.pending /\ ~c.teardown
<1> DEFINE c == conn[e]
           d == conn[Peer(e)]
<1>1. c.error = "none"
  BY DEF Failed
<1>2. Good(e, c, d, written[e], got[e]) /\ RestOK(e, c, d.log)
  BY BothEnds
<1>3. StateOK(e, c) /\ SendOK(e, c, written[e])
  BY <1>2 DEF Good
<1>4. ~TimerArmed(e) /\ (c.nudge => ~Live(e))
  BY DEF Rests, Quiet
<1>5. c.state \notin {"none", "closed"} =>
        c.unacked = <<>> /\ ~c.nudge /\ ~c.pending /\ ~c.teardown /\ c.probe # "armed"
  BY <1>4 DEF TimerArmed, Live
<1> HIDE DEF c, d
<1>6. c.state # "syn"
  BY <1>3, <1>5 DEF StateOK
<1>7. CASE c.state = "none"
  <2>1. c.sendBuf = <<>> /\ c.unacked = <<>>
    BY <1>3, <1>7, FreshFields DEF StateOK
  <2> QED BY <1>1, <1>6, <1>7, <2>1 DEF c, Open
<1>8. CASE c.state \in Open
  <2>1. c.unacked = <<>> /\ c.unacked \in Seq(Packet) /\ ~c.nudge /\ c.probe # "armed"
    BY <1>3, <1>5, <1>8 DEF Open, SendOK
  <2>2. InFlight(c) = 0
    BY <2>1, InFlightNat
  <2>3. c.sendBuf = <<>>
    BY <1>2, <1>8, <2>1, <2>2 DEF RestOK, Blocked
  <2> QED BY <1>1, <1>5, <1>6, <1>8, <2>1, <2>3 DEF c, Open
<1>9. CASE c.state = "closed"
  <2>1. c.sendBuf = <<>> /\ c.unacked = <<>>
    BY <1>1, <1>3, <1>9 DEF StateOK
  <2> QED BY <1>1, <1>6, <1>9, <2>1 DEF c, Open
<1>10. c.state \in {"none", "syn", "connected", "fin", "closed"}
  BY <1>3 DEF StateOK
<1> QED BY <1>6, <1>7, <1>8, <1>9, <1>10 DEF Open

(* What is missing first would be neither acknowledged nor kept.           *)
LEMMA NothingMissing ==
    ASSUME NEW e \in Ends, NEW c, NEW d, NEW h, c.log \in Seq(Entry), c.log # <<>>,
           RecvOK(Peer(e), d, c.log, h), AckOK(e, c, d), c.error = "none", c.unacked = <<>>
    PROVE  Joined(Peer(e), d) /\ Nth(e, d.ackNr) = Len(c.log) /\ Has(e, d, Len(c.log))
<1> DEFINE L == c.log
           p == Peer(e)
           r == Nth(e, d.ackNr)
<1>1. Peer(p) = e
  BY PeerFacts
<1>2. Len(L) \in Nat /\ Len(L) >= 1
  BY LogFacts
<1>3. \A i \in 1..Len(L) : Joined(p, d) /\ Has(e, d, i)
  BY DEF AckOK
<1>4. Joined(p, d) /\ Has(e, d, Len(L))
  BY <1>2, <1>3
<1>5. r \in 0..Len(L) /\ \A q \in d.reorder : Nth(e, q.seq) \in (r + 2)..Len(L)
  BY <1>1, <1>4 DEF RecvOK
<1> HIDE DEF r, L
<1>6. r = Len(L)
  <2> SUFFICES ASSUME r # Len(L) PROVE FALSE
    OBVIOUS
  <2>1. r + 1 \in 1..Len(L) /\ r \in Nat
    BY <1>2, <1>5
  <2>2. Has(e, d, r + 1)
    BY <1>3, <2>1
  <2>3. r + 1 <= r \/ \E q \in d.reorder : Nth(e, q.seq) = r + 1
    BY <2>2 DEF Has, r
  <2>4. \A q \in d.reorder : Nth(e, q.seq) # r + 1
    BY <1>5, <2>1
  <2> QED BY <2>1, <2>3, <2>4
<1> QED BY <1>4, <1>6 DEF r, L

(* The three parts of NothingStalls.                                       *)
LEMMA RestsDone ==
    ASSUME UInv, FewPackets, Rests, ~Failed, NEW e \in Ends
    PROVE  LET c == conn[e]
               d == conn[Peer(e)]
           IN  /\ Len(got[Peer(e)]) = written[e] \/ d.readerGone \/ d.wantFin
               /\ c.wantFin => d.eof
               /\ c.readerGone => c.state = "closed"
<1> DEFINE c == conn[e]
           p == Peer(e)
           d == conn[p]
           w == written[e]
           h == got[p]
           L == c.log
           n == Upto(L, Len(L))
<1>1. p \in Ends /\ Peer(p) = e
  BY PeerFacts
<1>2. /\ Good(e, c, d, w, got[e]) /\ Good(p, d, c, written[p], h)
      /\ RestOK(e, c, d.log) /\ RestOK(p, d, L)
  BY BothEnds
<1>3. /\ StateOK(e, c) /\ SendOK(e, c, w) /\ AckOK(e, c, d)
      /\ StateOK(p, d) /\ RecvOK(p, d, L, h)
  BY <1>2 DEF Good
<1>4. /\ c.error = "none" /\ c.state # "syn" /\ c.sendBuf = <<>> /\ c.unacked = <<>>
      /\ c.state \in Open => ~c.nudge /\ ~c.pending /\ ~c.teardown
  BY AtRest
<1>5. /\ d.error = "none" /\ d.state # "syn"
      /\ d.state \in Open => ~d.nudge /\ ~d.pending /\ ~d.teardown
  BY <1>1, AtRest
<1>6. Holds(p) => d.recv = <<>>
  BY <1>1 DEF Rests
<1>7. Holds(p) <=> d.held /\ ~d.readerGone
  BY DEF Holds
<1> HIDE DEF c, d, w, h
<1>8. n = w /\ n \in Nat /\ LogOK(e, L) /\ L \in Seq(Entry)
  <2>1. n + Len(c.sendBuf) = w /\ LogOK(e, L)
    BY <1>3, <1>4 DEF SendOK
  <2>2. L \in Seq(Entry) /\ n \in Nat
    BY <2>1, LogFacts DEF LogOK
  <2>3. Len(c.sendBuf) = 0
    BY <1>4
  <2> HIDE DEF n, L
  <2>4. n + 0 = w
    BY <2>1, <2>3
  <2> QED BY <2>1, <2>2, <2>4
<1>9. L # <<>> => Joined(p, d) /\ Nth(e, d.ackNr) = Len(L) /\ Has(e, d, Len(L))
  BY <1>3, <1>4, <1>8, NothingMissing
<1>10. c.readerGone => c.state = "closed"
  <2> SUFFICES ASSUME c.readerGone PROVE c.state = "closed"
    OBVIOUS
  <2>1. c.held /\ (c.teardown \/ c.state = "closed")
    BY <1>3 DEF StateOK
  <2>2. c.state # "none"
    BY <1>3, <2>1, FreshFields DEF StateOK
  <2>3. c.state \in {"none", "syn", "connected", "fin", "closed"}
    BY <1>3 DEF StateOK
  <2> QED BY <1>4, <2>1, <2>2, <2>3 DEF Open
<1>11. c.wantFin => d.eof
  <2> SUFFICES ASSUME c.wantFin PROVE d.eof
    OBVIOUS
  <2>1. c.held
    BY <1>3 DEF StateOK
  <2>2. c.state # "none"
    BY <1>3, <2>1, FreshFields DEF StateOK
  <2>3. c.state # "connected"
    BY <1>2, <1>4 DEF RestOK, Open
  <2>4. c.state \in {"none", "syn", "connected", "fin", "closed"}
    BY <1>3 DEF StateOK
  <2>5. c.state \in {"fin", "closed"}
    BY <1>4, <2>2, <2>3, <2>4
  <2>6. Ended(L)
    BY <1>3, <1>4, <2>5 DEF StateOK
  <2>7. L # <<>>
    BY <2>6 DEF Ended
  <2>8. Joined(p, d) /\ Nth(e, d.ackNr) = Len(L) /\ d.peerFin # None
    BY <1>1, <1>3, <1>9, <2>6, <2>7 DEF RecvOK
  <2>9. CASE d.state \in Open
    BY <1>1, <1>2, <2>8, <2>9 DEF RestOK, Fit
  <2>10. CASE d.state = "closed"
    BY <1>3, <1>5, <2>10 DEF StateOK
  <2>11. d.state \in {"none", "syn", "connected", "fin", "closed"}
    BY <1>3 DEF StateOK
  <2>12. d.state # "none"
    BY <1>1, <1>3, <2>8, FreshFields DEF StateOK, Joined
  <2> QED BY <1>5, <2>9, <2>10, <2>11, <2>12 DEF Open
<1>12. Len(h) = w \/ d.readerGone \/ d.wantFin
  <2> SUFFICES ASSUME ~d.readerGone, ~d.wantFin PROVE Len(h) = w
    OBVIOUS
  <2>1. h \in Seq(Nat) /\ Len(h) <= n /\ Len(h) \in Nat
    BY <1>3 DEF RecvOK
  <2>2. CASE L = <<>>
    <3>1. n = 0
      BY <2>2, <1>3, EmptyLog
    <3> HIDE DEF n
    <3> QED BY <1>8, <2>1, <3>1
  <2>3. CASE L # <<>>
    <3>1. Joined(p, d) /\ Nth(e, d.ackNr) = Len(L)
      BY <1>9, <2>3
    <3>2. d.state # "closed"
      BY <1>3, <1>5 DEF StateOK
    <3>3. d.state # "none"
      BY <1>1, <1>3, <3>1, FreshFields DEF StateOK, Joined
    <3>4. d.state \in {"none", "syn", "connected", "fin", "closed"}
      BY <1>3 DEF StateOK
    <3>5. d.state \in Open
      BY <1>5, <3>2, <3>3, <3>4 DEF Open
    <3>6. d.held
      <4>1. CASE p = "initiator"
        BY <3>1, <4>1 DEF Joined
      <4>2. CASE p = "responder"
        BY <1>2, <1>5, <3>5, <4>2 DEF RestOK, Fit
      <4> QED BY <1>1, <4>1, <4>2 DEF Ends
    <3>7. d.recv = <<>>
      BY <1>6, <1>7, <3>6
    <3>8. Len(h) + Len(d.recv) = n
      BY <1>1, <1>3, <3>1 DEF RecvOK
    <3>9. Len(d.recv) = 0
      BY <3>7
    <3> HIDE DEF n
    <3>10. Len(h) + 0 = n
      BY <3>8, <3>9
    <3> QED BY <1>8, <2>1, <3>10
  <2> QED BY <2>2, <2>3
<1> QED BY <1>10, <1>11, <1>12 DEF c, d, w, h

(* A connection that has come to rest and has not failed has nothing left  *)
(* to do, whatever was lost, delayed or answered late: no closed window,   *)
(* lost window update or lost FIN leaves fill_send_window, maybe_send_fin  *)
(* or a reader waiting for what will not come.                             *)
THEOREM NothingStallsHolds == UtpSpec /\ []FewPackets => []NothingStalls
<1>1. UInv /\ FewPackets => NothingStalls
  <2> SUFFICES ASSUME UInv, FewPackets PROVE NothingStalls
    OBVIOUS
  <2> QED BY RestsDone DEF NothingStalls
<1> QED BY <1>1, UtpInvariance, PTL
=============================================================================
