---------------------------- MODULE TcpReceiver ----------------------------
(***************************************************************************)
(* The receiving end of a TCP connection: the calls of TcpSocketBase's     *)
(* ReceivedData() and Recv() that change the buffer of TcpRxBuffer.  On    *)
(* its own it faces a peer that may cut its stream into segments in any    *)
(* way and send any of them again: the order and the overlaps that         *)
(* TcpSocket's sender produces, and all others.                            *)
(***************************************************************************)
EXTENDS TcpRxBuffer

CONSTANTS Reads,      \* the sizes of the application's reads
          MaxBytes    \* bound: the bytes of the stream

ASSUME ReceiverAssumption == Reads \subseteq Nat \ {0} /\ MaxBytes \in Nat

VARIABLES rx,         \* m_rxBuffer
          read        \* the bytes the application read

receiver == <<rx, read>>

FirstByte == 1

ReceiverInit == rx = NewRxBuffer(FirstByte) /\ read = <<>>

\* The bytes from s up to last arrive in a segment (ReceivedData).
Arrive(s, last) ==
    /\ rx' = Add(rx, s, [i \in 1 .. last - s |-> s + i - 1])
    /\ UNCHANGED read

\* The application reads up to n bytes.
Recv(n) ==
    /\ rx.avail > 0
    /\ LET got == Extract(rx, n)
       IN  rx' = got.rx /\ read' = read \o got.out

ReceiverNext ==
    \/ \E s \in FirstByte .. MaxBytes : \E last \in s + 1 .. MaxBytes + 1 :
          Arrive(s, last)
    \/ \E n \in Reads : Recv(n)

ReceiverSpec == ReceiverInit /\ [][ReceiverNext]_receiver

-----------------------------------------------------------------------------
\* Whatever overlaps whatever: packets are stored where their bytes belong, no
\* byte twice, the counters m_size and m_availBytes say what is stored and what
\* is ready, and the application has read the bytes before, in order.
RxExact ==
    /\ rx.size = Cardinality(Stored(rx))
    /\ \A k \in DOMAIN rx.data : rx.data[k] = [i \in 1 .. Len(rx.data[k]) |-> k + i - 1]
    /\ \A j, k \in DOMAIN rx.data : j # k => Bytes(rx, j) \cap Bytes(rx, k) = {}
    /\ read = [i \in 1 .. rx.next - FirstByte - rx.avail |-> FirstByte + i - 1]

\* A SACK block covers bytes that are stored, and lies beyond the next one
\* expected, so that the sender may cross it off.
SackTruthful ==
    \A i \in 1 .. Len(rx.sack) :
        /\ rx.sack[i][1] > rx.next
        /\ rx.sack[i][1] .. rx.sack[i][2] - 1 \subseteq Stored(rx)

=============================================================================
