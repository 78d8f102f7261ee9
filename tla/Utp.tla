-------------------------------- MODULE Utp ---------------------------------
(***************************************************************************)
(* One uTP connection (risuko-bt/src/utp/stream.rs): an initiator and a    *)
(* responder, each a ConnState that its driver task advances, and between  *)
(* them a network that loses, duplicates and reorders datagrams.           *)
(*                                                                         *)
(* Bytes are units; the k-th unit an end writes is the number k.  LEDBAT   *)
(* is a choice of the congestion window at every pass of the driver; MTU   *)
(* discovery, pacing and round trip times are left out.  A timer may fire  *)
(* whenever it is armed; one that fires while datagrams are still on their *)
(* way counts as one of the MaxFaults, as do a lost, a doubled and a       *)
(* delayed datagram, a failing socket and a full accept queue.             *)
(***************************************************************************)
EXTENDS Integers, Sequences, FiniteSets, Lists

CONSTANTS
    Mod,            \* sequence numbers are modulo Mod (65536)
    Isn,            \* the first sequence number of each end
    PacketSize,     \* units in a full packet
    RecvMax,        \* RECV_BUF_MAX, in units
    SendMax,        \* SEND_BUF_MAX, in units
    MaxReorder,     \* MAX_REORDER_DISTANCE
    PendingReorder, \* PENDING_REORDER_PACKETS
    MaxSack,        \* bits of a selective acknowledgement (MAX_SACK_BYTES * 8)
    DupAcks,        \* DUP_ACK_THRESHOLD
    MaxTransmits,   \* MAX_RETRANSMITS
    Windows,        \* the congestion windows LEDBAT may have come to
    Load,           \* how much the program at each end writes
    Chunk,          \* how much a program reads or writes in one call
    Leaves,         \* how the program at each end may leave: "shutdown", "drop", "abort"
    MaxFaults       \* how often the network or a timer misbehaves

Ends == {"initiator", "responder"}
Peer(e) == IF e = "initiator" THEN "responder" ELSE "initiator"

ASSUME UtpConstants ==
    /\ Mod \in Nat /\ Mod % 2 = 0 /\ MaxReorder \in 1..(Mod \div 2 - 1)
    /\ Isn \in [Ends -> 0..(Mod - 1)]
    /\ PacketSize \in Nat \ {0} /\ SendMax \in Nat \ {0}
    /\ RecvMax \in Nat /\ RecvMax > PacketSize /\ PendingReorder \in 0..(RecvMax \div PacketSize)
    /\ Load \in [Ends -> Nat] /\ Chunk \in Nat \ {0} /\ MaxFaults \in Nat
    /\ MaxSack \in Nat /\ DupAcks \in Nat \ {0} /\ MaxTransmits \in Nat \ {0} /\ Windows \subseteq Nat

VARIABLES
    conn,       \* the ConnState of each end
    net,        \* the datagrams on their way to each end
    faults,     \* what the network and the timers have done wrong so far
    written,    \* how many units the program at an end has written
    got,        \* the units it has read
    end         \* what it was told last: "open", "eof" or "error"

utpVars == <<conn, net, faults, written, got, end>>

-----------------------------------------------------------------------------
(* Sequence numbers, and what a ConnState derives from its fields.         *)

Add(s, k) == (s + k) % Mod
Distance(a, b) == (a - b) % Mod
SeqAfter(a, b) == Distance(a, b) \in 1..(Mod \div 2 - 1)

None == -1      \* no sequence number

(* The units in flight and those kept for reordering, each counted once.   *)
InFlight(c) ==
    Cardinality(UNION {{i} \X DOMAIN c.unacked[i].data :
                         i \in {k \in DOMAIN c.unacked : ~c.unacked[k].resend}})
ReorderBytes(c) == Cardinality(UNION {{p} \X DOMAIN p.data : p \in c.reorder})
AdvertisedWindow(c) ==
    LET used == Len(c.recv) + ReorderBytes(c) IN IF used > RecvMax THEN 0 ELSE RecvMax - used
ReorderLimit(c) == IF c.pending THEN PendingReorder ELSE RecvMax \div PacketSize

(* Counts from the first packet after the acknowledged one.                *)
SelectiveAckFromNext(c) == {Distance(p.seq, Add(c.ackNr, 1)) : p \in c.reorder}

(* build_selective_ack: the buffered packets, counted from the second one  *)
(* after the acknowledged one.                                             *)
SelectiveAck(c) == {Distance(p.seq, Add(c.ackNr, 2)) : p \in c.reorder} \intersect 0..(MaxSack - 1)

-----------------------------------------------------------------------------
(* Sending.  Every datagram carries the state its sender is in.            *)

Encode(c, type, seq, data) ==
    [type |-> type, seq |-> seq, data |-> data, ack |-> c.ackNr,
     wnd |-> AdvertisedWindow(c), sack |-> SelectiveAck(c)]

Push(c, type, seq, data) ==
    [c EXCEPT !.out = Append(@, Encode(c, type, seq, data)), !.advertised = AdvertisedWindow(c)]

Sent(c) == [c EXCEPT !.probe = IF @ = "due" THEN "none" ELSE @, !.needsAck = FALSE]

(* The field log of an end is a history variable that no step reads: what  *)
(* the end has sent for the first time, packet after packet, and how much  *)
(* had been sent with each.                                                *)
Upto(log, i) == IF i = 0 THEN 0 ELSE log[i].upto

TransmitNew(c, type, data) ==
    LET p == [type |-> type, seq |-> c.seqNr, data |-> data, tx |-> 1, resend |-> FALSE,
              fast |-> FALSE]
        sent == [type |-> type, upto |-> Upto(c.log, Len(c.log)) + Len(data)]
    IN  Sent([Push(c, type, c.seqNr, data) EXCEPT !.seqNr = Add(@, 1), !.unacked = Append(@, p),
                                                  !.log = Append(@, sent)])

Retransmit(c, i) ==
    LET p == c.unacked[i]
        q == [p EXCEPT !.tx = @ + 1, !.resend = FALSE]
    IN  Sent([Push(c, p.type, p.seq, p.data) EXCEPT !.unacked = [@ EXCEPT ![i] = q]])

MaySend(c, len, cwnd) ==
    LET fits == InFlight(c) + len <= c.peerWnd
    IN  IF InFlight(c) = 0 THEN fits \/ c.probe = "due"
                           ELSE fits /\ InFlight(c) + len <= cwnd

(* The loops of fill_send_window: packets to send again first.             *)
ResendOne(c, cwnd) ==
    LET due == {i \in DOMAIN c.unacked : c.unacked[i].resend}
        i == CHOOSE k \in due : \A j \in due : k <= j
    IN  IF due # {} /\ MaySend(c, Len(c.unacked[i].data), cwnd) THEN Retransmit(c, i) ELSE c

Resent(c, cwnd) ==
    LET after[n \in 0..Len(c.unacked)] == IF n = 0 THEN c ELSE ResendOne(after[n - 1], cwnd)
    IN  after

SendOne(c, cwnd) ==
    LET take == IF Len(c.sendBuf) < PacketSize THEN Len(c.sendBuf) ELSE PacketSize
        nagle == take < PacketSize /\ InFlight(c) > 0 /\ ~c.wantFin
    IN  IF take > 0 /\ ~nagle /\ MaySend(c, take, cwnd)
          THEN [TransmitNew(c, "data", SubSeq(c.sendBuf, 1, take)) EXCEPT
                   !.sendBuf = SubSeq(@, take + 1, Len(@))]
          ELSE c

Filled(c, cwnd) ==
    LET after[n \in 0..Len(c.sendBuf)] == IF n = 0 THEN c ELSE SendOne(after[n - 1], cwnd)
    IN  after

Blocked(c) == c.sendBuf # <<>> \/ \E i \in DOMAIN c.unacked : c.unacked[i].resend

(* Waits for the window update of the peer.                                *)
ArmProbeNever(c) == c

ArmProbe(c) ==
    IF Blocked(c) /\ InFlight(c) = 0 /\ c.probe = "none" THEN [c EXCEPT !.probe = "armed"] ELSE c

FillSendWindow(c, cwnd) ==
    IF c.state \in {"syn", "closed"} THEN c
    ELSE LET r == Resent(c, cwnd)[Len(c.unacked)]
             f == IF r.state = "connected" THEN Filled(r, cwnd)[Len(r.sendBuf)] ELSE r
         IN  ArmProbe(f)

MaybeSendFin(c) ==
    IF c.wantFin /\ c.state = "connected" /\ c.sendBuf = <<>>
      THEN [TransmitNew(c, "fin", <<>>) EXCEPT !.state = "fin"] ELSE c

MaybeFinish(c) ==
    IF c.state = "fin" /\ c.unacked = <<>>
      THEN IF c.eof THEN [c EXCEPT !.state = "closed"] ELSE [c EXCEPT !.lingers = TRUE]
      ELSE c

NoteWindowUpdate(c) ==
    IF c.advertised < PacketSize /\ AdvertisedWindow(c) >= PacketSize
      THEN [c EXCEPT !.needsAck = TRUE] ELSE c

SendState(c) ==
    IF c.needsAck /\ c.state # "syn"
      THEN [Push(c, "state", c.seqNr, <<>>) EXCEPT !.needsAck = FALSE] ELSE c

Fail(c, kind) ==
    [c EXCEPT !.error = IF @ = "none" THEN kind ELSE @, !.state = "closed", !.eof = TRUE,
              !.unacked = <<>>, !.sendBuf = <<>>, !.probe = "none"]

Abort(c) ==
    IF c.state = "closed" THEN c
    ELSE [Fail(Push(c, "reset", c.seqNr, <<>>), "aborted") EXCEPT
             !.needsAck = FALSE, !.pending = FALSE, !.teardown = FALSE]

-----------------------------------------------------------------------------
(* Receiving.                                                              *)

FastRetransmit(c, i) ==
    LET p == [c.unacked[i] EXCEPT !.fast = TRUE]
    IN  Retransmit([c EXCEPT !.unacked = [@ EXCEPT ![i] = p]], i)

(* process_ack: drop what is acknowledged; the third repetition of an      *)
(* acknowledgement sends the packet after it again.                        *)
FastRetransmitFront(c, ack) ==
    IF c.unacked # <<>> /\ Head(c.unacked).seq = Add(ack, 1) /\ ~Head(c.unacked).fast
      THEN FastRetransmit(c, 1) ELSE c

ProcessAck(c, p) ==
    LET rest == Filter(c.unacked, {q \in Elems(c.unacked) : SeqAfter(q.seq, p.ack)})
        again == p.type = "state" /\ c.lastAck = p.ack /\ c.unacked # <<>>
        d == IF Len(rest) < Len(c.unacked)
               THEN [c EXCEPT !.unacked = rest, !.dupAcks = 0]
             ELSE IF again
               THEN LET b == [c EXCEPT !.dupAcks = IF @ > DupAcks THEN @ ELSE @ + 1]
                    IN  IF b.dupAcks = DupAcks THEN FastRetransmitFront(b, p.ack) ELSE b
             ELSE c
    IN  [d EXCEPT !.lastAck = p.ack]

(* process_selective_ack: drop what the peer has buffered, and send again  *)
(* what it has DupAcks later packets of.                                   *)
SackBit(q, p) == Distance(q.seq, Add(p.ack, 2))

Lost(q, p) ==
    /\ ~q.fast
    /\ Cardinality(IF SackBit(q, p) >= Mod \div 2 THEN p.sack ELSE {b \in p.sack : b > SackBit(q, p)})
          >= DupAcks

Hastened(c, p) ==
    LET after[n \in 0..Len(c.unacked)] ==
            IF n = 0 THEN c
            ELSE IF Lost(c.unacked[n], p) THEN FastRetransmit(after[n - 1], n) ELSE after[n - 1]
    IN  after

ProcessSelectiveAck(c, p) ==
    LET rest == Filter(c.unacked, {q \in Elems(c.unacked) : SackBit(q, p) \notin p.sack})
    IN  IF p.sack = {} THEN c ELSE Hastened([c EXCEPT !.unacked = rest], p)[Len(rest)]

Consume(c, type, seq, data) ==
    [c EXCEPT !.ackNr = seq, !.peerFin = IF type = "fin" THEN seq ELSE @,
              !.recv = IF type = "fin" \/ c.readerGone THEN @ ELSE @ \o data]

DrainOne(c) ==
    LET next == {p \in c.reorder : p.seq = Add(c.ackNr, 1)}
    IN  IF next = {} THEN c
        ELSE LET p == CHOOSE q \in next : TRUE
             IN  Consume([c EXCEPT !.reorder = @ \ {p}],
                         IF p.seq = c.peerFin THEN "fin" ELSE "data", p.seq, p.data)

Drained(c) ==
    LET after[n \in 0..Cardinality(c.reorder)] == IF n = 0 THEN c ELSE DrainOne(after[n - 1])
    IN  after

Buffer(c, p, data) ==
    LET b == IF p.type = "fin" THEN [c EXCEPT !.peerFin = p.seq] ELSE c
    IN  IF Cardinality(c.reorder) < ReorderLimit(c)
          THEN [b EXCEPT !.reorder = {q \in @ : q.seq # p.seq} \union {[seq |-> p.seq, data |-> data]}]
          ELSE b

AcceptInorder(c0, p) ==
    LET c == [c0 EXCEPT !.needsAck = TRUE]
        data == IF c.readerGone THEN <<>> ELSE p.data
        d == Distance(p.seq, c.ackNr)
    IN  IF d = 0 \/ d > MaxReorder \/ (AdvertisedWindow(c) = 0 /\ data # <<>>) THEN c
        ELSE IF d = 1
          THEN Drained(Consume(c, p.type, p.seq, data))[Cardinality(c.reorder)]
          ELSE Buffer(c, p, data)

(* The stream ends when the FIN arrives.                                   *)
CheckEofEarly(c) == IF c.peerFin # None THEN [c EXCEPT !.eof = TRUE] ELSE c

CheckEof(c) ==
    IF c.peerFin # None /\ ~SeqAfter(c.peerFin, c.ackNr) THEN [c EXCEPT !.eof = TRUE] ELSE c

(* A reset is believed when it answers something that was really sent.     *)
AcceptsReset(c, p) ==
    LET floor == Add(IF c.unacked = <<>> THEN c.seqNr ELSE Head(c.unacked).seq, -1)
    IN  Distance(p.ack, floor) <= Distance(c.seqNr, floor)

Expected(c, p) ==
    /\ c.state = "syn" => p.type = "state"
    /\ c.pending => p.ack = Add(c.seqNr, -1)
    /\ ~SeqAfter(p.ack, Add(c.seqNr, -1))

Connected(c, p) ==
    [c EXCEPT !.state = "connected", !.ackNr = Add(p.seq, -1), !.held = TRUE]

HandlePacket(c, p, initiates) ==
    CASE c.state = "closed" -> c
      [] c.state # "closed" /\ p.type = "reset" -> IF AcceptsReset(c, p) THEN Fail(c, "reset") ELSE c
      [] c.state # "closed" /\ p.type = "syn" -> [c EXCEPT !.needsAck = @ \/ ~initiates]
      [] OTHER ->
           IF ~Expected(c, p) THEN c
           ELSE LET w == [c EXCEPT !.peerWnd = p.wnd,
                                   !.probe = IF @ = "armed" /\ p.wnd > c.peerWnd THEN "none" ELSE @]
                    s == IF w.state = "syn" THEN Connected(w, p) ELSE w
                    a == ProcessSelectiveAck(ProcessAck(s, p), p)
                    d == IF p.type = "state" THEN a ELSE AcceptInorder(a, p)
                IN  MaybeFinish(CheckEof(d))

-----------------------------------------------------------------------------
(* The driver.  What it does after each event: fill the window, perhaps    *)
(* the FIN, hand a new connection over, acknowledge.                       *)

HandOver(c, e, room) ==
    IF e = "initiator" \/ c.offered THEN c
    ELSE IF c.state = "closed" THEN [c EXCEPT !.offered = TRUE]
    ELSE IF c.recv # <<>> THEN [c EXCEPT !.offered = TRUE, !.pending = FALSE, !.held = room]
    ELSE IF c.eof THEN Abort(c) ELSE c

Pass(c, e, cwnd, room) ==
    LET f == FillSendWindow(MaybeSendFin(FillSendWindow(c, cwnd)), cwnd)
        m == MaybeFinish(SendState(HandOver(f, e, room)))
    IN  IF m.offered /\ ~c.offered /\ ~m.held THEN Abort(m) ELSE m

Fresh(e) ==
    [state |-> "none", seqNr |-> Isn[e], ackNr |-> 0, sendBuf |-> <<>>, unacked |-> <<>>,
     recv |-> <<>>, reorder |-> {}, peerWnd |-> RecvMax, lastAck |-> None, dupAcks |-> 0,
     probe |-> "none", advertised |-> RecvMax, needsAck |-> FALSE, wantFin |-> FALSE,
     peerFin |-> None, eof |-> FALSE, error |-> "none", lingers |-> FALSE, readerGone |-> FALSE,
     pending |-> FALSE, teardown |-> FALSE, offered |-> FALSE, held |-> FALSE, nudge |-> FALSE,
     out |-> <<>>, log |-> <<>>]

(* The initiator's driver has sent its SYN; the responder is made when the *)
(* SYN arrives.                                                            *)
UtpInit ==
    LET syn == TransmitNew([Fresh("initiator") EXCEPT !.state = "syn"], "syn", <<>>)
    IN  /\ conn = [e \in Ends |-> IF e = "initiator" THEN [syn EXCEPT !.out = <<>>] ELSE Fresh(e)]
        /\ net = [e \in Ends |-> IF e = "responder" THEN syn.out ELSE <<>>]
        /\ faults = 0
        /\ written = [e \in Ends |-> 0]
        /\ got = [e \in Ends |-> <<>>]
        /\ end = [e \in Ends |-> "open"]

Programs == <<written, got, end>>

Fault == faults < MaxFaults /\ faults' = faults + 1

Live(e) == conn[e].state \notin {"none", "closed"}

Flush(e, c, queues) ==
    /\ conn' = [conn EXCEPT ![e] = [c EXCEPT !.out = <<>>]]
    /\ net' = [queues EXCEPT ![Peer(e)] = @ \o c.out]

Passes(e, d) ==
    \E cwnd \in Windows : \E c \in {Pass(d, e, cwnd, TRUE)} : Flush(e, c, net)

Taken(e) == [net EXCEPT ![e] = Tail(@)]
Delayed(e) == [net EXCEPT ![e] = Append(Tail(@), Head(@))]

(* A datagram is handled and the driver makes its pass.  Some datagrams    *)
(* arrive twice, and a new connection may find that nobody accepts it.     *)
Receive(e) ==
    /\ Live(e) /\ net[e] # <<>>
    /\ \E h \in {HandlePacket(conn[e], Head(net[e]), e = "initiator")}, room \in BOOLEAN :
       \E cwnd \in Windows : \E c \in {Pass(h, e, cwnd, room)} :
              \/ room /\ Flush(e, c, Taken(e)) /\ UNCHANGED faults
              \/ room /\ Flush(e, c, Delayed(e)) /\ Fault
              \/ ~room /\ c.offered /\ ~conn[e].offered /\ Flush(e, c, Taken(e)) /\ Fault
    /\ UNCHANGED Programs

(* seed_responder: a SYN for a connection the router does not know.        *)
OpenInbound(e) ==
    /\ e = "responder" /\ conn[e].state = "none" /\ net[e] # <<>>
    /\ LET syn == Head(net[e])
           c == [Fresh(e) EXCEPT !.state = "connected", !.ackNr = syn.seq, !.peerWnd = syn.wnd,
                                 !.pending = TRUE]
       IN  syn.type = "syn" /\ Flush(e, Push(c, "state", c.seqNr, <<>>), Taken(e))
    /\ UNCHANGED <<faults, Programs>>

(* A datagram of a connection that is closed: its driver has not left the  *)
(* router yet and drops it, or the router answers it with a reset.         *)
Stray(e) ==
    /\ conn[e].state = "closed" /\ net[e] # <<>>
    /\ LET p == Head(net[e])
           reset == [type |-> "reset", seq |-> 0, data |-> <<>>, ack |-> p.seq, wnd |-> 0,
                     sack |-> {}]
       IN  \/ net' = Taken(e)
           \/ p.type \notin {"reset", "syn"} /\ net' = [Taken(e) EXCEPT ![Peer(e)] = Append(@, reset)]
    /\ UNCHANGED <<conn, faults, Programs>>

(* The network loses a datagram, or lets the others overtake it.           *)
Disturb(e) ==
    /\ net[e] # <<>> /\ Fault
    /\ net' = Taken(e) \/ (net' = Delayed(e) /\ Len(net[e]) > 1)
    /\ UNCHANGED <<conn, Programs>>

(* The driver is nudged by the program at its end.                         *)
Nudged(e) == NoteWindowUpdate([conn[e] EXCEPT !.nudge = FALSE])

Drive(e) ==
    /\ conn[e].nudge /\ Live(e)
    /\ Passes(e, Nudged(e))
    /\ UNCHANGED <<faults, Programs>>

Quiet == \A e \in Ends : net[e] = <<>> /\ (conn[e].nudge => ~Live(e))

(* A timer that fires and the pass that follows.                           *)
Timer(e, c) ==
    /\ Live(e)
    /\ IF Quiet THEN UNCHANGED faults ELSE Fault
    /\ Passes(e, c)
    /\ UNCHANGED Programs

Teardown(e) == (conn[e].pending \/ conn[e].teardown) /\ Timer(e, Abort(conn[e]))

ProbeTimer(e) == conn[e].probe = "armed" /\ Timer(e, [conn[e] EXCEPT !.probe = "due"])

Linger(e) ==
    /\ conn[e].state = "fin" /\ conn[e].lingers
    /\ Timer(e, [conn[e] EXCEPT !.eof = TRUE, !.state = "closed"])

TimedOut(c) ==
    IF Head(c.unacked).tx >= MaxTransmits THEN Fail(c, "timeout")
    ELSE Retransmit([c EXCEPT !.dupAcks = 0,
                              !.unacked = [i \in DOMAIN @ |->
                                             [@[i] EXCEPT !.resend = TRUE, !.fast = FALSE]]], 1)

Rto(e) == conn[e].unacked # <<>> /\ Timer(e, TimedOut(conn[e]))

(* may_fast_resend: a packet that was sent again early may be so once more *)
(* when the retransmission timeout has passed since.                       *)
Ages(e) ==
    /\ \E i \in DOMAIN conn[e].unacked :
          LET p == conn[e].unacked[i]
          IN  p.fast /\ conn' = [conn EXCEPT ![e].unacked = [@ EXCEPT ![i] = [p EXCEPT !.fast = FALSE]]]
    /\ UNCHANGED <<net, faults, Programs>>

(* The socket is shut down or fails for good, or connect gives up.         *)
SocketGone(e) ==
    /\ Live(e) /\ Fault
    /\ conn' = [conn EXCEPT ![e] = Fail(@, "aborted")]
    /\ UNCHANGED <<net, Programs>>

-----------------------------------------------------------------------------
(* The programs that hold the streams.                                     *)

Least(S) == CHOOSE n \in S : \A k \in S : n <= k

Holds(e) == conn[e].held /\ ~conn[e].readerGone

PollWrite(e) ==
    /\ Holds(e) /\ conn[e].state = "connected" /\ ~conn[e].wantFin
    /\ LET n == Least({Chunk, Load[e] - written[e], SendMax - Len(conn[e].sendBuf)})
       IN /\ n > 0
          /\ conn' = [conn EXCEPT ![e].sendBuf = @ \o [k \in 1..n |-> written[e] + k],
                                  ![e].nudge = TRUE]
          /\ written' = [written EXCEPT ![e] = @ + n]
    /\ UNCHANGED <<net, faults, got, end>>

PollRead(e) ==
    /\ Holds(e)
    /\ conn[e].recv # <<>>
    /\ LET n == Least({Chunk, Len(conn[e].recv)})
           c == NoteWindowUpdate([conn[e] EXCEPT !.recv = SubSeq(@, n + 1, Len(@))])
       IN  /\ conn' = [conn EXCEPT ![e] = [c EXCEPT !.nudge = @ \/ (c.needsAck /\ ~conn[e].needsAck)]]
           /\ got' = [got EXCEPT ![e] = @ \o SubSeq(conn[e].recv, 1, n)]
    /\ UNCHANGED <<net, faults, written, end>>

PollReadEnd(e) ==
    /\ Holds(e) /\ conn[e].recv = <<>> /\ end[e] = "open"
    /\ conn[e].error # "none" \/ conn[e].eof
    /\ end' = [end EXCEPT ![e] = IF conn[e].error # "none" THEN "error" ELSE "eof"]
    /\ UNCHANGED <<conn, net, faults, written, got>>

PollShutdown(e) ==
    /\ "shutdown" \in Leaves[e]
    /\ Holds(e) /\ Live(e) /\ ~conn[e].wantFin
    /\ conn' = [conn EXCEPT ![e].wantFin = TRUE, ![e].nudge = TRUE]
    /\ UNCHANGED <<net, faults, Programs>>

(* The stream is dropped, or aborted instead of closed.                    *)
DropStream(e, how) ==
    /\ how \in Leaves[e] /\ Holds(e)
    /\ LET a == IF how = "abort" THEN Abort(conn[e]) ELSE conn[e]
       IN  Flush(e, [a EXCEPT !.wantFin = TRUE, !.readerGone = TRUE, !.recv = <<>>,
                              !.reorder = {[q EXCEPT !.data = <<>>] : q \in @},
                              !.teardown = a.state # "closed", !.nudge = TRUE], net)
    /\ UNCHANGED <<faults, Programs>>

Step(e) ==
    \/ Receive(e) \/ OpenInbound(e) \/ Stray(e) \/ Drive(e) \/ Teardown(e) \/ ProbeTimer(e) \/ Linger(e) \/ Rto(e)
    \/ PollRead(e) \/ PollReadEnd(e)

UtpNext ==
    \E e \in Ends :
        \/ Step(e)
        \/ Disturb(e) \/ Ages(e) \/ SocketGone(e)
        \/ PollWrite(e) \/ PollShutdown(e) \/ \E how \in {"drop", "abort"} : DropStream(e, how)

UtpSpec == UtpInit /\ [][UtpNext]_utpVars

-----------------------------------------------------------------------------
(* Types and sizes: sequence numbers stay in their width, unacknowledged   *)
(* packets are in order around the wrap, and the receive buffers together  *)
(* never hold a full packet more than RECV_BUF_MAX, whatever arrives in    *)
(* whatever order (accept_inorder).                                        *)
UtpTypeOK ==
    /\ faults \in 0..MaxFaults
    /\ \A e \in Ends :
          LET c == conn[e]
          IN  /\ c.state \in {"none", "syn", "connected", "fin", "closed"}
              /\ c.seqNr \in 0..(Mod - 1) /\ c.ackNr \in 0..(Mod - 1)
              /\ Cardinality(c.reorder) <= RecvMax \div PacketSize
              /\ Len(c.recv) + ReorderBytes(c) < RecvMax + PacketSize
              /\ \A i, j \in DOMAIN c.unacked :
                    i < j => SeqAfter(c.unacked[j].seq, c.unacked[i].seq)
              /\ written[e] \in 0..Load[e]

(* What an end has dropped from its retransmission queue, acknowledged     *)
(* cumulatively or selectively, has arrived: it is read, ready to be read, *)
(* or kept for reordering, and an acknowledged FIN is known to the peer.   *)
(* What is kept stays within the advertised window (UtpTypeOK).            *)
Arrived(e) ==
    Elems(got[e]) \union Elems(conn[e].recv)
        \union UNION {Elems(p.data) : p \in conn[e].reorder}

AckedHasArrived ==
    /\ UtpTypeOK
    /\ \A e \in Ends :
          LET c == conn[e]
              q == conn[Peer(e)]
              queued == Elems(c.sendBuf)
                           \union UNION {Elems(c.unacked[i].data) : i \in DOMAIN c.unacked}
          IN  c.state \in {"connected", "fin"} =>
                /\ q.readerGone \/ (1..written[e]) \ queued \subseteq Arrived(Peer(e))
                /\ c.state = "fin" /\ (\A i \in DOMAIN c.unacked : c.unacked[i].type # "fin") =>
                      q.peerFin # None

(* Nothing is left that could move the connection: no datagram, no nudge,  *)
(* no armed timer, nothing to read.                                        *)
TimerArmed(e) ==
    LET c == conn[e]
    IN  Live(e) /\ (c.pending \/ c.teardown \/ c.probe = "armed" \/ c.lingers \/ c.unacked # <<>>)

Rests == Quiet /\ \A e \in Ends : ~TimerArmed(e) /\ (Holds(e) => conn[e].recv = <<>>)

Failed == \E e \in Ends : conn[e].error # "none"

(* A connection that has come to rest and has not failed has nothing left  *)
(* to do: all that was written was read, or its reader is gone or has      *)
(* itself finished (it may be told of the end before it has read all), a   *)
(* stream that was shut down has told its peer, a dropped one is closed.   *)
(* A lost window update, a lost acknowledgement or a closed window never   *)
(* leaves an end waiting for what will not come (fill_send_window,         *)
(* check_timers).                                                          *)
NothingStalls ==
    Rests /\ ~Failed =>
        \A e \in Ends :
            /\ Len(got[Peer(e)]) = written[e] \/ conn[Peer(e)].readerGone \/ conn[Peer(e)].wantFin
            /\ conn[e].wantFin => conn[Peer(e)].eof
            /\ conn[e].readerGone => conn[e].state = "closed"

Stream == INSTANCE ByteStream WITH finished <- [e \in Ends |-> conn[e].wantFin]

(* The connection is a pair of byte streams: nothing is lost, doubled or   *)
(* out of order, and the end of a stream is told only where it is.         *)
ImplementsByteStream == Stream!StreamSpec
=============================================================================
