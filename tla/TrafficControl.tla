--------------------------- MODULE TrafficControl ---------------------------
(***************************************************************************)
(* The path of a packet through the traffic-control layer of a switch:     *)
(* TrafficControlLayer::Send, the root queue disc of the port (Enqueue,    *)
(* Run, Restart, DequeuePacket, Transmit of queue-disc.cc; its discipline  *)
(* is GenQueueDisc), the flow control of the device queue (NetDeviceQueue) *)
(* and PointToPointNetDevice (Send, TransmitComplete).                     *)
(*                                                                         *)
(* The devices have one transmission queue and no queue limits, so a       *)
(* packet is never requeued.  Run() takes a step per Restart(), and no     *)
(* other event runs in between (run holds the port and what is left of the *)
(* quota).  NetDeviceQueue::Wake() only schedules the next Run().          *)
(***************************************************************************)
EXTENDS GenQueueDisc, ByteCount

CONSTANTS
    Configs,        \* the configurations of the ports to consider
    Quota,          \* QueueDisc::m_quota
    DevUnit,        \* the unit of MaxSize of each device queue
    DevMax,         \* and its value
    Mtu,            \* the device's MTU, IP header included
    PppHeader       \* what PointToPointNetDevice adds to a packet

ASSUME DeviceAssumption ==
    /\ Configs \subseteq [alg    : [Ports -> Algorithms],
                          static : [Ports -> Nat],
                          sizes  : [Ports -> SUBSET Sizes]]
    /\ Configs # {}
    /\ Quota \in Nat \ {0}
    /\ DevUnit \in [Ports -> {"PACKETS", "BYTES"}]
    /\ DevMax \in [Ports -> Nat \ {0}]
    /\ Mtu \in Nat /\ PppHeader \in Nat
    /\ \A size \in Sizes : ItemSize(size) <= Mtu
    \* an empty device queue takes a packet of any legal size
    /\ \A p \in Ports : DevUnit[p] = "BYTES" => Mtu + PppHeader <= DevMax[p]

VARIABLES
    sm,     \* the SharedMemoryBuffer
    conf,   \* per port: bufferalg, staticBuffer and the sizes of the packets
            \* routed to it; they never change
    disc,   \* per port: the root queue disc and its children
    dev,    \* per port: the device and its queue
    run     \* the QueueDisc::Run() under way

vars == <<sm, conf, disc, dev, run>>

NoRun == [quota |-> 0]
Runs  == [port : Ports, quota : 1 .. Quota]

DeviceType ==
    [queue   : Seq({ItemSize(size) + PppHeader : size \in Sizes}),
     nBytes  : Int,                 \* m_nBytes of the device queue
     tx      : {"READY", "BUSY"},   \* m_txMachineState
     stopped : BOOLEAN,             \* NetDeviceQueue::m_stoppedByDevice
     wake    : BOOLEAN]             \* is a wake callback scheduled?

Init ==
    /\ sm = EmptySharedBuffer
    /\ conf \in Configs
    /\ disc = [p \in Ports |-> EmptyDisc]
    /\ dev = [p \in Ports |->
                [queue |-> <<>>, nBytes |-> 0, tx |-> "READY",
                 stopped |-> FALSE, wake |-> FALSE]]
    /\ run = NoRun

-----------------------------------------------------------------------------
(* The device queue and its flow control, on a record v of DeviceType.     *)


\* WouldOverflow(nPackets, nBytes) of the device queue.
WouldOverflow(p, v, nPackets, nBytes) ==
    IF DevUnit[p] = "PACKETS" THEN Len(v.queue) + nPackets > DevMax[p]
                              ELSE v.nBytes + nBytes > DevMax[p]

\* The device queue takes a packet; PacketEnqueued() stops it unless another
\* of MTU size has room.
TxEnqueued(p, v, wire) ==
    LET n == [v EXCEPT !.queue = Append(@, wire), !.nBytes = @ + wire]
    IN  IF WouldOverflow(p, n, 1, Mtu) THEN [n EXCEPT !.stopped = TRUE] ELSE n

\* Mutant of TxStarted: the queue disc is not woken.
TxStartedQuietly(p, v) ==
    LET n == [v EXCEPT !.queue = Tail(@), !.nBytes = @ - Head(v.queue), !.tx = "BUSY"]
    IN  IF WouldOverflow(p, n, 1, Mtu) THEN n ELSE [n EXCEPT !.stopped = FALSE]

\* The device dequeues a packet and TransmitStart()s it; PacketDequeued() wakes
\* a stopped queue when a packet of MTU size has room.
TxStarted(p, v) ==
    LET n == [v EXCEPT !.queue = Tail(@), !.nBytes = @ - Head(v.queue), !.tx = "BUSY"]
    IN  IF WouldOverflow(p, n, 1, Mtu) THEN n
        ELSE [n EXCEPT !.stopped = FALSE, !.wake = @ \/ v.stopped]

DeviceSent(p, v, wire) ==
    LET n == TxEnqueued(p, v, wire)
    IN  IF v.tx = "READY" THEN TxStarted(p, n) ELSE n

-----------------------------------------------------------------------------
(* TrafficControlLayer::Send: QueueDisc::Enqueue, then Run.                *)

Arrival(p) ==
    /\ run = NoRun
    /\ run' = [port |-> p, quota |-> Quota]
    /\ UNCHANGED <<conf, dev>>

\* A packet within the bytes reserved to the port goes to its child.
SendReserved(p, c, size) ==
    /\ Arrival(p)
    /\ Reserved(conf.static[p], disc[p], size)
    /\ disc' = IF ChildFits(disc[p], c, size)
               THEN [disc EXCEPT ![p] = Enqueued(@, c, size)] ELSE disc
    /\ UNCHANGED sm

\* The end of DoEnqueue() for a packet AcceptPacket() has accepted, with the
\* shared buffer s and the queue disc d it has left.  A child that refuses the
\* packet does not get its charge back.
Admitted(p, c, size, s, d) ==
    \/ /\ Chargeable(s, ItemSize(size))
       /\ sm' = Charged(s, c, ItemSize(size))
       /\ disc' = [disc EXCEPT ![p] =
                     IF ChildFits(d, c, size) THEN Enqueued(d, c, size) ELSE d]
    \/ /\ ~Chargeable(s, ItemSize(size))
       /\ sm' = s
       /\ disc' = [disc EXCEPT ![p] = d]

Decided(accept, p, c, size, s, d) ==
    \/ accept /\ Admitted(p, c, size, s, d)
    \/ ~accept /\ sm' = s /\ disc' = [disc EXCEPT ![p] = d]

Shared(p, size) == Arrival(p) /\ ~Reserved(conf.static[p], disc[p], size)

SendCS(p, c, size) ==
    /\ Shared(p, size) /\ conf.alg[p] = "CS"
    /\ Decided(size <= sm.remaining, p, c, size, sm, disc[p])

SendDT(p, c, size) ==
    /\ Shared(p, size) /\ conf.alg[p] = "DT"
    /\ Decided(Within(sm, disc[p], c, size, Share(sm, AlphaNum[c])),
               p, c, size, sm, disc[p])

\* FAB favours flows that sent little lately.
SendFAB(p, c, size) ==
    /\ Shared(p, size) /\ conf.alg[p] = "FAB"
    /\ \E f \in Flows, stale \in BOOLEAN :
          LET d == Seen(disc[p], f, stale, size)
              alpha == IF d.flow[f] < FlowThreshold THEN AlphaUnsched ELSE AlphaNum[c]
          IN  Decided(Within(sm, d, c, size, Share(sm, alpha)), p, c, size, sm, d)

\* IB sends the first packets of a flow to queue 0, and may drop the others at
\* random (AFD) from a long queue.
SendIB(p, c, size) ==
    /\ Shared(p, size) /\ conf.alg[p] = "IB"
    /\ \E f \in Flows, stale \in BOOLEAN :
          LET d == Seen(disc[p], f, stale, 1)
              short == EnableDPP /\ d.flow[f] < FlowThreshold
              e == IF short THEN 0 ELSE c
              accept == Within(sm, d, e, size, Share(sm, AlphaNum[e]))
          IN  \/ Decided(accept, p, e, size, sm, d)
              \/ ~short /\ d.nBytes[c] > AfdFloor /\ Decided(FALSE, p, e, size, sm, d)

\* ABM refreshes the saturation of the queue; the first packet of a port starts
\* its updates; a tag tells unscheduled packets.
SendABM(p, c, size) ==
    /\ Shared(p, size) /\ conf.alg[p] = "ABM"
    /\ \E alpha \in {AlphaUnsched, AlphaNum[c]} :
          LET s == SetSaturated(sm, p, c, AtMost(disc[p].nBytes[c], Sat))
              d == IF disc[p].started THEN disc[p]
                   ELSE Updated(disc[p], s, [e \in Priorities |-> RateUnit])
          IN  Decided(Within(s, d, c, size, ShareABM(s, d, c, alpha)), p, c, size, s, d)

Send == \E p \in Ports, c \in Priorities : \E size \in conf.sizes[p] :
    \/ SendReserved(p, c, size)
    \/ SendCS(p, c, size)
    \/ SendDT(p, c, size)
    \/ SendFAB(p, c, size)
    \/ SendIB(p, c, size)
    \/ SendABM(p, c, size)

-----------------------------------------------------------------------------
(* QueueDisc::Run: Restart() until it says stop or the quota is used up.   *)

\* Restart() finds the device queue stopped, or nothing to dequeue.
RestartDone(p) ==
    /\ run # NoRun /\ run.port = p
    /\ dev[p].stopped \/ Backlog(disc[p]) = {}
    /\ run' = NoRun
    /\ UNCHANGED <<sm, conf, disc, dev>>

\* DoDequeue() of the child c.
DequeuedDisc(p, c) ==
    [Dequeued(disc[p], c) EXCEPT
        !.index = IF RoundRobin[p] THEN (c + 1) % NPrior ELSE @]

CreditedBuffer(p, c) ==
    LET size == Head(disc[p].queue[c])
    IN  IF FromShared(conf.static[p], Dequeued(disc[p], c), size)
        THEN Credited(sm, c, ItemSize(size)) ELSE sm

\* Transmit() says whether Run() goes on, and Run() whether it may.
Continued(p) ==
    run' = IF disc'[p].bytes > 0 /\ ~dev'[p].stopped /\ run.quota > 1
           THEN [run EXCEPT !.quota = @ - 1] ELSE NoRun

Wire(p, c) == ItemSize(Head(disc[p].queue[c])) + PppHeader

\* Restart() hands the head of child c to the device.
RestartSends(p) ==
    /\ run # NoRun /\ run.port = p /\ ~dev[p].stopped
    /\ \E c \in ClassServed(p, disc[p]) :
          /\ ~WouldOverflow(p, dev[p], 1, Wire(p, c))
          /\ disc' = [disc EXCEPT ![p] = DequeuedDisc(p, c)]
          /\ sm' = CreditedBuffer(p, c)
          /\ dev' = [dev EXCEPT ![p] = DeviceSent(p, @, Wire(p, c))]
    /\ Continued(p)
    /\ UNCHANGED conf

\* Likewise, and the device queue has no room: the packet is lost and
\* PacketDiscarded() stops the queue.
RestartDiscards(p) ==
    /\ run # NoRun /\ run.port = p /\ ~dev[p].stopped
    /\ \E c \in ClassServed(p, disc[p]) :
          /\ WouldOverflow(p, dev[p], 1, Wire(p, c))
          /\ disc' = [disc EXCEPT ![p] = DequeuedDisc(p, c)]
          /\ sm' = CreditedBuffer(p, c)
          /\ dev' = [dev EXCEPT ![p].stopped = TRUE]
    /\ Continued(p)
    /\ UNCHANGED conf

Restart(p) == RestartDone(p) \/ RestartSends(p) \/ RestartDiscards(p)

-----------------------------------------------------------------------------
(* Events.                                                                 *)

\* The wake callback of the device queue: Run() of the root queue disc.
Wake(p) ==
    /\ run = NoRun
    /\ dev[p].wake
    /\ dev' = [dev EXCEPT ![p].wake = FALSE]
    /\ run' = [port |-> p, quota |-> Quota]
    /\ UNCHANGED <<sm, conf, disc>>

\* PointToPointNetDevice::TransmitComplete.  A transmission takes time, so what
\* ScheduleNow() scheduled when it started has run by now.
TransmitComplete(p) ==
    /\ run = NoRun
    /\ dev[p].tx = "BUSY"
    /\ ~dev[p].wake
    /\ dev' = [dev EXCEPT ![p] =
                 IF @.queue = <<>> THEN [@ EXCEPT !.tx = "READY"] ELSE TxStarted(p, @)]
    /\ UNCHANGED <<sm, conf, disc, run>>

\* InvokeUpdates() of a port that has started them.
InvokeUpdates(p) ==
    /\ run = NoRun
    /\ disc[p].started
    /\ \E rate \in [Priorities -> Rates] : disc' = [disc EXCEPT ![p] = Updated(@, sm, rate)]
    /\ UNCHANGED <<sm, conf, dev, run>>

Next ==
    \/ Send
    \/ \E p \in Ports : Restart(p) \/ Wake(p) \/ TransmitComplete(p) \/ InvokeUpdates(p)

Spec == Init /\ [][Next]_vars

\* The simulator runs every scheduled event: a wake-up or the end of a
\* transmission is disabled only while another event is under way, hence SF.
\* Traffic need not arrive.
FairSpec ==
    /\ Spec
    /\ \A p \in Ports :
          WF_vars(Restart(p)) /\ SF_vars(Wake(p)) /\ SF_vars(TransmitComplete(p))

-----------------------------------------------------------------------------
TypeOK ==
    /\ sm \in SharedBufferType
    /\ conf \in Configs
    /\ disc \in [Ports -> DiscType]
    /\ dev \in [Ports -> DeviceType]
    /\ run \in Runs \cup {NoRun}

\* The bytes of priority c in all the ports, and in all the queues.
QueuedOf(c) == BytesOf([p \in Ports |-> disc[p].nBytes[c]], Ports)
Queued      == BytesOf([p \in Ports |-> disc[p].bytes], Ports)

\* No port has bytes of its own.
NoReserve == \A p \in Ports : conf.static[p] = 0

\* DequeueBuffer() leaves the bytes of a packet charged when the buffer drains
\* (it wants OccupiedBuffer > size): without private bytes the shared buffer
\* loses the size of one packet for good, and never more than that, however
\* often it drains.
LeakBounded ==
    /\ sm.occupied + sm.remaining = TotalBuffer
    /\ NoReserve => sm.occupied - Queued \in {0} \cup {ItemSize(size) : size \in Sizes}

\* The per-priority statistics stay exact even so.
PriorityExact == NoReserve => \A c \in Priorities : sm.perPrior[c] = QueuedOf(c) % StatWrap

\* N[c], by which ABM divides the buffer, is the sum of the saturation levels of
\* the queues of priority c, although each is refreshed only when a packet
\* arrives for it.
SaturationCounted ==
    \A c \in Priorities :
        sm.N[c] = BytesOf([p \in Ports |-> sm.saturated[<<p, c>>]], Ports)

\* The largest alpha the port may grant queue c.
TopAlpha(p, c) ==
    IF conf.alg[p] \in {"FAB", "ABM"} /\ AlphaUnsched > AlphaNum[c]
    THEN AlphaUnsched ELSE AlphaNum[c]

\* A queue never holds more than alpha / (1 + alpha) of the buffer, but for one
\* packet, and for the IP header that is charged and not tested.
Isolated ==
    NoReserve => \A p \in Ports, c \in Priorities : conf.alg[p] # "CS" =>
        \E size \in Sizes :
            (AlphaDen + TopAlpha(p, c)) * disc[p].nBytes[c]
              <= TopAlpha(p, c) * (TotalBuffer + size)
                   + (AlphaDen + TopAlpha(p, c)) * IpHeader

\* No packet waits in a queue disc that nobody will run again: the device queue
\* is stopped, and then it is transmitting, or a wake-up is scheduled.
NotStranded ==
    \A p \in Ports : disc[p].bytes > 0 =>
        \/ run # NoRun /\ run.port = p
        \/ dev[p].wake
        \/ dev[p].stopped /\ dev[p].tx = "BUSY"

\* "This should not happen if the device correctly stops the queue": a packet
\* that Restart() hands to a running device queue finds room there.
NeverDiscarded == [][\A p \in Ports : ~RestartDiscards(p)]_vars

\* Every queue of a round-robin port that holds packets keeps sending them.
Drains ==
    \A p \in Ports : RoundRobin[p] =>
        \A c \in Priorities :
            \/ []<>(disc[p].queue[c] = <<>>)
            \/ []<><<Len(disc'[p].queue[c]) < Len(disc[p].queue[c])>>_vars

=============================================================================
