------------------------------ MODULE HostLink ------------------------------
(***************************************************************************)
(* The sending side of a host and the link behind it: SendNode() and       *)
(* TransmitCompleteNode() of SharedMemoryPointToPointNetDevice (point-to-  *)
(* point/model/shared-memory-point-to-point-net-device.cc), the channel    *)
(* (shared-memory-point-to-point-channel.cc) and Receive() of its peer.    *)
(*                                                                         *)
(* A packet is its number in the order of sending.  The queues of a host   *)
(* never fill (10^8 packets); every packet is TCP or UDP, any other index  *)
(* (100) is read outside of the vector of queues.                          *)
(***************************************************************************)
EXTENDS QueueScheduler, Sequences, FiniteSets

CONSTANTS PCType,   \* m_pcType: one queue, or by strict priority
          MaxSent   \* bound: the packets the host sends

ASSUME HostAssumption ==
    /\ PCType \in {"PCNONE", "PCPQ"}
    /\ MaxSent \in Nat

VARIABLES queue,    \* the sub-queues of m_queue
          tx,       \* m_txMachineState
          wire,     \* the Receive() events the channel has scheduled
          sent,     \* how many packets the host has sent
          received  \* what the peer has received

vars == <<queue, tx, wire, sent, received>>

Init ==
    /\ queue = [q \in SubQueues |-> <<>>]
    /\ tx = "READY"
    /\ wire = <<>>
    /\ sent = 0
    /\ received = <<>>

\* Mutant of Enqueued: off by one in the check of the index.
EnqueuedPastFirst(Q, q, packet) ==
    IF q \in UsedQueues \ {0} THEN [Q EXCEPT ![q] = Append(@, packet)] ELSE Q

\* MultipleQueue::Enqueue(item, index).
Enqueued(Q, q, packet) ==
    IF q \in UsedQueues THEN [Q EXCEPT ![q] = Append(@, packet)] ELSE Q

\* Mutant of NextQueue: the lowest priority goes first.
NextQueueReversed(Q) ==
    LET B == {q \in UsedQueues : Q[q] # <<>>}
    IN  {q \in B : \A r \in B : r <= q}

\* Dequeue(0) or DequeuePQ(), as a set of at most one queue.
NextQueue(Q) ==
    IF PCType = "PCNONE" THEN {q \in {0} : Q[q] # <<>>}
    ELSE Lowest({q \in UsedQueues : Q[q] # <<>>})

\* Take a packet and TransmitStartNode() it.  The channel never loses it and
\* delivers in order, a fixed delay after the end of each transmission.
Transmit(Q) ==
    \/ /\ NextQueue(Q) = {}
       /\ queue' = Q
       /\ tx' = "READY"
       /\ UNCHANGED wire
    \/ \E q \in NextQueue(Q) :
       /\ queue' = [Q EXCEPT ![q] = Tail(@)]
       /\ tx' = "BUSY"
       /\ wire' = Append(wire, Head(Q[q]))

\* Every packet is enqueued twice: in the sub-queue of its priority (or in
\* queue 0), and again by the condition `if (m_queue->Enqueue (packet))'.
Doubled(q) ==
    LET packet == sent + 1
    IN  Enqueued(Enqueued(queue, IF PCType = "PCPQ" THEN q ELSE 0, packet),
                 0, packet)

\* Mutant of SendNode: an idle device is not started.
SendNodeOnly(q) ==
    /\ sent < MaxSent
    /\ sent' = sent + 1
    /\ queue' = Doubled(q)
    /\ UNCHANGED <<tx, wire, received>>

\* SendNode(packet): q is the sub-queue GetQueueId() gives its flow.
SendNode(q) ==
    /\ sent < MaxSent
    /\ sent' = sent + 1
    /\ UNCHANGED received
    /\ \/ tx = "READY" /\ Transmit(Doubled(q))
       \/ tx = "BUSY" /\ queue' = Doubled(q) /\ UNCHANGED <<tx, wire>>

TransmitCompleteNode ==
    /\ tx = "BUSY"
    /\ Transmit(queue)
    /\ UNCHANGED <<sent, received>>

\* The event at the end of the delay; it may precede TransmitCompleteNode().
Receive ==
    /\ wire # <<>>
    /\ wire' = Tail(wire)
    /\ received' = Append(received, Head(wire))
    /\ UNCHANGED <<queue, tx, sent>>

Next == (\E q \in SubQueues : SendNode(q)) \/ TransmitCompleteNode \/ Receive

\* The simulator runs every scheduled event.
Spec == Init /\ [][Next]_vars /\ WF_vars(TransmitCompleteNode) /\ WF_vars(Receive)

-----------------------------------------------------------------------------
Entries(s) == {s[i] : i \in DOMAIN s}

\* Every packet sent has been received or is still on its way, and the peer
\* receives only what was sent.
NothingLost ==
    Entries(received) \cup Entries(wire) \cup UNION {Entries(queue[q]) : q \in SubQueues}
        = 1 .. sent

\* Although a packet travels in two copies that may be served by priority, a
\* new packet never overtakes an older one: when a packet arrives for the
\* first time, all those sent before it have arrived.
FreshInOrder == \A packet \in Entries(received) : 1 .. packet \subseteq Entries(received)

\* Every packet sent is received in the end.
Delivered == \A packet \in 1 .. MaxSent : sent >= packet ~> packet \in Entries(received)

\* "We should enqueue and dequeue the packet to hit the tracing hooks": a
\* packet sent by an idle device passes through the queue and leaves nothing
\* behind in it (SendNode).
PassesThrough ==
    [][\A q \in SubQueues : SendNode(q) /\ tx = "READY" => queue' = queue]_vars

=============================================================================
