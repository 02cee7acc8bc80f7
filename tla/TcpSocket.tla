----------------------------- MODULE TcpSocket -----------------------------
(***************************************************************************)
(* A TCP connection that carries data one way: the sender and the receiver *)
(* of TcpSocketBase (internet/model/tcp-socket-base.cc) in ESTABLISHED,    *)
(* with SACK, over a network that loses, delays and reorders.              *)
(*                                                                         *)
(* The receiving end is TcpReceiver, which acknowledges what it gets.  A   *)
(* handler of the sender maps the record of its socket to the next; what   *)
(* it sends is collected in `out'.  Time is abstracted: a timer that is    *)
(* scheduled may fire at any moment.  The congestion window, which a       *)
(* plug-in computes, is chosen from CWnds at each use; after a timeout it  *)
(* is one segment.                                                         *)
(* Left out: opening and closing, ECN, pacing, the window of the receiver  *)
(* with its persist timer, and data in the other direction.                *)
(***************************************************************************)
EXTENDS TcpTxBuffer, TcpReceiver

CONSTANTS NoDelay,       \* m_noDelay: no Nagle algorithm
          DataRetries,   \* m_dataRetries
          DelAckMax,     \* m_delAckMaxCount: the attribute DelAckCount
          CWnds,         \* the congestion windows
          Writes,        \* the sizes of the application's writes
          MaxInFlight    \* bound: the segments, and the ACKs, in flight

ASSUME SocketAssumption ==
    /\ NoDelay \in BOOLEAN
    /\ DataRetries \in Nat /\ DelAckMax \in Nat
    /\ \A w \in CWnds : w \in Nat /\ w >= SegmentSize
    /\ Writes \subseteq Nat \ {0}
    /\ MaxInFlight \in Nat

VARIABLES snd,        \* the socket that sends
          written,    \* how many bytes the application wrote
          delAcks,    \* m_delAckCount of the socket that receives
          delayed,    \* its m_delAckEvent is scheduled
          segments,   \* the data segments in flight: pairs [first, last)
          acks        \* the ACKs in flight

sender == <<snd, written>>
delAck == <<delAcks, delayed>>
vars == <<sender, receiver, delAck, segments, acks>>

\* The sender starts with the number the receiver expects first: the SYN had
\* number 0.
Init ==
    /\ snd = [tx |-> NewTxBuffer(FirstByte), highTx |-> FirstByte,
              cong |-> "OPEN", dupAcks |-> 0, recover |-> 0, recovering |-> FALSE,
              firstPartial |-> TRUE, timer |-> FALSE, retries |-> DataRetries,
              pending |-> FALSE, dropped |-> FALSE, out |-> {}]
    /\ written = 0
    /\ ReceiverInit
    /\ delAcks = 0 /\ delayed = FALSE
    /\ segments = {} /\ acks = {}

\* The network takes some of the new messages: it may lose any, and it loses
\* what it has no room for.
Carried(flight, new) ==
    {f \in {flight \cup taken : taken \in SUBSET new} :
        Cardinality(f) <= MaxInFlight}

-----------------------------------------------------------------------------
(* The sender *)

\* Mutant of SendDataPacket: only new data starts the timer.
SendDataPacketUntimed(c, s, maxSize) ==
    LET copy == CopyFrom(c.tx, maxSize, s)
    IN  [c EXCEPT !.tx = copy.tx,
                  !.out = @ \cup {<<s, s + copy.size>>},
                  !.highTx = Max({@, s + copy.size}),
                  !.timer = @ \/ s = c.highTx]

\* SendDataPacket(s, maxSize).
SendDataPacket(c, s, maxSize) ==
    LET copy == CopyFrom(c.tx, maxSize, s)
    IN  [c EXCEPT !.tx = copy.tx,
                  !.out = @ \cup {<<s, s + copy.size>>},
                  !.highTx = Max({@, s + copy.size}),
                  !.timer = TRUE]

AvailableWindow(c, cWnd) == Max({0, cWnd - BytesInFlight(c.tx)})

\* Hold a segment back: the silly window, or Nagle's algorithm.
HeldBack(c, window, available) ==
    \/ window < SegmentSize /\ available > window
    \/ ~NoDelay /\ c.highTx > c.tx.first /\ available < SegmentSize

\* A turn of the loop of SendPendingData, with the congestion window cWnd.
SendNext(c, cWnd) ==
    LET window == AvailableWindow(c, cWnd)
        next == NextSeg(c.tx, c.cong = "RECOVERY")
        s == CHOOSE n \in next : TRUE
    IN  IF window = 0 \/ next = {} THEN c
        ELSE IF HeldBack(c, window, SizeFrom(c.tx, s)) THEN c
        ELSE SendDataPacket(c, s, Min({window, SegmentSize}))

\* SendPendingData.  A byte that waits is sent at most twice: as new data, and
\* once more in recovery.
SendPendingData(c, cWnd) ==
    LET turns == 2 * SizeFrom(c.tx, c.tx.first)
        sent[n \in 0..turns] == IF n = 0 THEN c ELSE SendNext(sent[n - 1], cWnd)
    IN  sent[turns]

\* DoRetransmit: the head, when NextSeg() finds nothing.
DoRetransmit(c) ==
    LET next == NextSeg(c.tx, FALSE)
        s == IF next = {} THEN c.tx.first ELSE CHOOSE n \in next : TRUE
    IN  SendDataPacket(c, s, SegmentSize)

EnterRecovery(c) ==
    DoRetransmit([c EXCEPT
        !.tx = IF IsLost(@, @.first) THEN @ ELSE MarkHeadAsLost(@),
        !.recover = c.highTx,
        !.recovering = TRUE,
        !.cong = "RECOVERY"])

\* DupAck.  m_highRxAckMark is the head of the buffer.
DupAck(c) ==
    LET d == [c EXCEPT !.dupAcks = @ + 1, !.cong = "DISORDER"]
        third == /\ d.dupAcks = DupAckThresh
                 /\ d.tx.first >= d.recover \/ ~d.recovering
    IN  IF c.cong \in {"LOSS", "RECOVERY"} THEN c
        ELSE IF third \/ IsLost(d.tx, d.tx.first + SegmentSize)
        THEN EnterRecovery(d) ELSE d

\* NewAck(ack, resetRTO).
NewAck(c, resetRTO) ==
    [c EXCEPT !.retries = DataRetries,
              !.timer = (@ \/ resetRTO) /\ SizeFrom(c.tx, c.tx.first) > 0]

\* Mutant of Settled: any full ACK ends the disorder.
SettledAlways(cong, isDupAck) == "OPEN"

\* The state after a full ACK: a recovery is over, and so is a disorder unless
\* the ACK reports new SACKs.
Settled(cong, isDupAck) ==
    IF cong \in {"RECOVERY", "LOSS"} \/ ~isDupAck THEN "OPEN" ELSE cong

\* The end of ProcessAck for an ACK that advances and is no partial ACK of a
\* recovery in progress.
FullAck(c, ack, isDupAck) ==
    LET d == [c EXCEPT
               !.cong = Settled(@, isDupAck),
               !.firstPartial = @ \/ c.cong \in {"RECOVERY", "LOSS"},
               !.dupAcks = IF c.cong = "RECOVERY" THEN 0 ELSE @,
               !.recovering = @ /\ ack < c.recover]
    IN  IF d.cong = "OPEN" THEN NewAck(d, TRUE) ELSE d

\* ProcessAck, after the head advanced from oldHead to ack.
ProcessAck(c, ack, isDupAck, oldHead) ==
    LET d == IF isDupAck THEN DupAck(c) ELSE c
        e == IF isDupAck THEN d ELSE [d EXCEPT !.dupAcks = 0]
        resent == IF IsRetransmittedDataAcked(e.tx, ack + SegmentSize) THEN e
                  ELSE DoRetransmit(e)
    IN  IF ack = oldHead THEN d
        ELSE IF ack < e.recover /\ e.cong = "RECOVERY"
        THEN [NewAck(resent, e.firstPartial) EXCEPT !.firstPartial = FALSE]
        ELSE IF ack < e.recover /\ e.cong = "LOSS" THEN NewAck(e, TRUE)
        ELSE FullAck(e, ack, isDupAck)

\* ReceivedAck, up to SendPendingData.
ReceivedAck(c, a) ==
    LET marked == Update(c.tx, a.sack)
        left == DiscardUpTo(marked, a.ack)
    IN  ProcessAck([c EXCEPT !.tx = left], a.ack,
                   marked.sackedOut > c.tx.sackedOut, c.tx.first)

\* The state of the sender after a handler that ended in c.
Sent(c) == /\ snd' = [c EXCEPT !.out = {}]
           /\ segments' \in Carried(segments, c.out)

\* ProcessEstablished for a pure ACK: an old one is ignored.
ReceiveAck(a) ==
    /\ ~snd.dropped
    /\ acks' = acks \ {a}
    /\ \/ a.ack < snd.tx.first /\ UNCHANGED <<snd, segments>>
       \/ /\ a.ack >= snd.tx.first
          /\ \E w \in CWnds : Sent(SendPendingData(ReceivedAck(snd, a), w))
    /\ UNCHANGED <<written, receiver, delAck>>

\* ReTxTimeout.
Expired(c) ==
    SendPendingData([c EXCEPT !.retries = @ - 1,
                              !.dupAcks = 0,
                              !.tx = SetSentListLost(@),
                              !.recover = c.highTx,
                              !.recovering = TRUE,
                              !.cong = "LOSS"], SegmentSize)

ReTxTimeout ==
    /\ snd.timer
    /\ LET c == [snd EXCEPT !.timer = FALSE]
       IN  IF SizeFrom(c.tx, c.tx.first) = 0 THEN Sent(c)
           ELSE IF c.retries = 0 THEN Sent([c EXCEPT !.dropped = TRUE])
           ELSE Sent(Expired(c))
    /\ UNCHANGED <<written, receiver, delAck, acks>>

\* Send(packet): the transmission is an event of its own, scheduled when the
\* window has room.
Write(n) ==
    /\ ~snd.dropped
    /\ written + n <= MaxBytes
    /\ written' = written + n
    /\ \E w \in CWnds :
         snd' = [snd EXCEPT !.tx = WriteTo(@, n),
                            !.pending = @ \/ AvailableWindow(snd, w) > 0]
    /\ UNCHANGED <<receiver, delAck, segments, acks>>

\* The event m_sendPendingDataEvent.
SendWritten ==
    /\ snd.pending
    /\ LET c == [snd EXCEPT !.pending = FALSE]
       IN  IF c.dropped THEN Sent(c)
           ELSE \E w \in CWnds : Sent(SendPendingData(c, w))
    /\ UNCHANGED <<written, receiver, delAck, acks>>

-----------------------------------------------------------------------------
(* The receiver *)

\* SendEmptyPacket(ACK), with what the buffer b says.
SendAck(b) ==
    /\ delAcks' = 0 /\ delayed' = FALSE
    /\ acks' \in Carried(acks, {[ack |-> b.next, sack |-> b.sack]})

\* ReceivedData: acknowledge at once what is out of order, old, or fills a
\* gap, and every DelAckMax-th of the others.
ReceivedData(s, last) ==
    /\ Arrive(s, last)
    /\ LET gap == rx'.size > rx'.avail \/ rx'.next > rx.next + (last - s)
       IN  IF rx' = rx \/ gap \/ delAcks + 1 >= DelAckMax THEN SendAck(rx')
           ELSE /\ delAcks' = delAcks + 1 /\ delayed' = TRUE
                /\ UNCHANGED acks

ReceiveSegment(m) ==
    /\ segments' = segments \ {m}
    /\ ReceivedData(m[1], m[2])
    /\ UNCHANGED sender

DelAckTimeout ==
    /\ delayed
    /\ SendAck(rx)
    /\ UNCHANGED <<sender, receiver, segments>>

Read(n) ==
    /\ Recv(n)
    /\ UNCHANGED <<sender, delAck, segments, acks>>

Next ==
    \/ \E n \in Writes : Write(n)
    \/ SendWritten
    \/ \E a \in acks : ReceiveAck(a)
    \/ ReTxTimeout
    \/ \E m \in segments : ReceiveSegment(m)
    \/ DelAckTimeout
    \/ \E n \in Reads : Read(n)

Spec == Init /\ [][Next]_vars

-----------------------------------------------------------------------------
(* Properties *)

\* The bytes the receiver got so far.
Held == FirstByte..rx.next - 1 \cup Stored(rx)

\* What ConsistencyCheck() (disabled in the code) would verify, and the
\* assertion of Update(): the counters that BytesInFlight() is computed from
\* agree with the marks of the items, which are split, merged, cut and removed
\* in between.  The items are what was sent and not acknowledged, piece by
\* piece; none is both lost and sacked, or exceeds a segment.
CountsExact ==
    LET tx == snd.tx
    IN  /\ tx.sackedOut = Amount(tx, Sacked(tx))
        /\ tx.lostOut = Amount(tx, Lost(tx))
        /\ tx.retrans = Amount(tx, Resent(tx))
        /\ Span(tx, Items(tx)) = tx.first..SentEnd(tx) - 1
        /\ \A j, k \in Items(tx) : j < k => End(tx, j) <= k
        /\ Lost(tx) \cap Sacked(tx) = {}
        /\ \A k \in Items(tx) : tx.sent[k].size \in 1..SegmentSize

\* What the sender crosses off, because it was acknowledged or marked by a SACK
\* block that may be long out of date, the receiver has.
SackedHeld ==
    /\ FirstByte..snd.tx.first - 1 \subseteq Held
    /\ Span(snd.tx, Sacked(snd.tx)) \subseteq Held

\* The assertion at the end of Update(), and the case DiscardUpTo() calls not
\* possible: the first unacknowledged item is never marked sacked, however
\* ACKs and SACK blocks are reordered.
HeadUnsacked == snd.tx.first \notin Sacked(snd.tx)

\* While anything is unacknowledged the retransmission timer runs, or the
\* connection was given up: the sender never waits for an ACK that was lost.
TimerArmed == Items(snd.tx) # {} => snd.timer \/ snd.dropped

\* The two assertions of DupAck(): a sender in OPEN has no duplicate ACKs
\* counted, and one in DISORDER no more than the threshold, unless an earlier
\* recovery point is still active.
DupAcksMatchState ==
    /\ snd.cong = "OPEN" => snd.dupAcks = 0
    /\ snd.cong = "DISORDER" => snd.dupAcks <= DupAckThresh \/ snd.recovering

\* The iterator m_highestSack never outlives its item, which stays sacked and
\* keeps the sequence number noted with it, although the list is edited around
\* it; UpdateLostCount() walks the list from there.
HighestPlaced ==
    LET h == snd.tx.highest
    IN  h = NoHighest \/ (h.at \in Sacked(snd.tx) /\ h.seq = h.at)

\* The assertion at the end of ReTxTimeout(): after a timeout no more than a
\* segment is in flight, whatever was in flight, lost or retransmitted before.
OneSegmentAfterTimeout ==
    [][snd'.retries < snd.retries => BytesInFlight(snd'.tx) <= SegmentSize]_vars

\* What a connection is for: over a network that loses and reorders,
\* the peer's application reads the bytes that were written, in their order.
Stream == INSTANCE ByteStream
ReliableStream == Stream!Spec

\* No event waits for ever: a timer that stays scheduled fires (of all handlers
\* only ReTxTimeout uses up a retry), a message that is not lost is delivered,
\* and the application reads what is ready.
Fairness ==
    /\ []<>~snd.pending
    /\ []<>~delayed
    /\ []<>~snd.timer \/ []<><<snd'.retries < snd.retries>>_vars
    /\ []<>(segments = {}) \/ []<><<~(segments \subseteq segments')>>_vars
    /\ []<>(acks = {} \/ snd.dropped) \/ []<><<~(acks \subseteq acks')>>_vars
    /\ []<>(rx.avail = 0) \/ []<><<read' # read>>_vars

FairSpec == Spec /\ Fairness

\* Every byte that is written is read in the end, or the sender has used up its
\* retries and gives the connection up.
Arrives ==
    \A n \in 1..MaxBytes : written >= n ~> Len(read) >= n \/ snd.dropped
=============================================================================
