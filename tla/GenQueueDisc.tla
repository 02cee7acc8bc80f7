---------------------------- MODULE GenQueueDisc ----------------------------
(***************************************************************************)
(* The second shared-memory switch of the repository, in the traffic-      *)
(* control layer: a GenQueueDisc per port (traffic-control/model/          *)
(* gen-queue-disc.cc), one FIFO child queue disc per priority, and the     *)
(* SharedMemoryBuffer of the node (shared-memory.cc) they all charge.      *)
(* Operators only: sm is the shared buffer, d the queue disc of one port;  *)
(* TrafficControl holds the state and the event handlers.                  *)
(*                                                                         *)
(* A packet is its size without the IP header, packet->GetSize() while it  *)
(* is queued; the queues and the buffer count ItemSize, header included.   *)
(***************************************************************************)
EXTENDS Integers, Sequences, FiniteSets

CONSTANTS
    NPorts,         \* devices of the node that share the buffer
    NPrior,         \* nPrior: the priorities, one child queue disc each
    Sizes,          \* packet sizes, without IP header
    IpHeader,       \* m_header.GetSerializedSize()
    TotalBuffer,    \* SharedMemoryBuffer::TotalBuffer
    StatWrap,       \* the per-priority statistics are unsigned: 2 ^ 32
    ChildMax,       \* FifoQueueDisc::MaxSize, in bytes
    RoundRobin,     \* RoundRobin of each port; strict priority otherwise
    AlphaNum,       \* alphas[c] is AlphaNum[c] / AlphaDen
    AlphaUnsched,   \* alphaUnsched is AlphaUnsched / AlphaDen
    AlphaDen,
    Sat,            \* sat: the bytes at which a queue is fully saturated
    RateUnit,       \* dequeue rates are counted in 1 / RateUnit of portBW
    Flows,          \* flow ids
    FlowThreshold,  \* FabThreshold (bytes) or DppThreshold (packets)
    EnableDPP,      \* enableDPPQueue
    AfdFloor        \* 150 * 1024: AFD never drops from a shorter queue

Algorithms == {"DT", "FAB", "CS", "IB", "ABM"}
Ports      == 1 .. NPorts
Priorities == 0 .. NPrior - 1

ASSUME DiscAssumption ==
    /\ NPorts \in Nat \ {0} /\ NPrior \in Nat \ {0, 1}
    /\ Sizes \subseteq Nat \ {0} /\ Sizes # {} /\ IpHeader \in Nat
    /\ TotalBuffer \in Nat /\ StatWrap \in Nat \ {0} /\ ChildMax \in Nat
    /\ RoundRobin \in [Ports -> BOOLEAN]
    /\ AlphaNum \in [Priorities -> Nat] /\ AlphaUnsched \in Nat
    /\ AlphaDen \in Nat \ {0} /\ Sat \in Nat \ {0}
    /\ RateUnit \in Nat \ {0}
    /\ FlowThreshold \in Nat /\ EnableDPP \in BOOLEAN /\ AfdFloor \in Nat

ItemSize(size) == size + IpHeader

AtMost(n, limit) == IF n > limit THEN limit ELSE n

-----------------------------------------------------------------------------
(* SharedMemoryBuffer.                                                     *)

SharedBufferType ==
    [occupied  : Nat,                    \* OccupiedBuffer
     remaining : Int,                    \* RemainingBuffer
     perPrior  : [Priorities -> 0 .. StatWrap - 1],  \* OccupiedBufferPriority
     saturated : [Ports \X Priorities -> 0 .. Sat],  \* in 1/Sat
     N         : [Priorities -> Int]]    \* in 1/Sat

EmptySharedBuffer ==
    [occupied |-> 0, remaining |-> TotalBuffer,
     perPrior |-> [c \in Priorities |-> 0],
     saturated |-> [q \in Ports \X Priorities |-> 0],
     N |-> [c \in Priorities |-> 0]]

\* EnqueueBuffer() wants more room than the packet takes.
Chargeable(sm, bytes) == sm.remaining > bytes

\* EnqueueBuffer() and PerPriorityStatEnq().
Charged(sm, c, bytes) ==
    [sm EXCEPT !.remaining = @ - bytes, !.occupied = @ + bytes,
               !.perPrior[c] = (@ + bytes) % StatWrap]

\* Mutants of Credited: the total is never credited, or the priority only when
\* the total is.
CreditedNever(sm, c, bytes) == [sm EXCEPT !.perPrior[c] = (@ - bytes) % StatWrap]
CreditedTogether(sm, c, bytes) ==
    IF sm.occupied > bytes
    THEN [sm EXCEPT !.occupied = @ - bytes, !.remaining = @ + bytes,
                    !.perPrior[c] = (@ - bytes) % StatWrap]
    ELSE sm

\* DequeueBuffer(), which does nothing when the buffer would become empty, and
\* PerPriorityStatDeq(), which always counts.
Credited(sm, c, bytes) ==
    LET n == [sm EXCEPT !.perPrior[c] = (@ - bytes) % StatWrap]
    IN  IF sm.occupied > bytes
        THEN [n EXCEPT !.occupied = @ - bytes, !.remaining = @ + bytes]
        ELSE n

\* Mutant of SetSaturated: forgets the level counted before.
SetSaturatedAgain(sm, p, c, level) ==
    [sm EXCEPT !.saturated[<<p, c>>] = level, !.N[c] = @ + level]

SetSaturated(sm, p, c, level) ==
    [sm EXCEPT !.saturated[<<p, c>>] = level,
               !.N[c] = @ + level - sm.saturated[<<p, c>>]]

\* GetNofP(), in 1/Sat.
NofP(sm, c) == IF sm.N[c] >= Sat THEN sm.N[c] ELSE Sat

-----------------------------------------------------------------------------
(* The queue disc of one port.                                             *)

\* UpdateDequeueRate(): whatever was dequeued in the interval (the code also
\* counts 1472 bytes for every empty queue it passes), a rate below 1 / nPrior
\* or above 1 counts as 1.
Rates == {r \in 1 .. RateUnit : NPrior * r >= RateUnit}

DiscType ==
    [queue   : [Priorities -> Seq(Sizes)],  \* the child queue discs
     nBytes  : [Priorities -> Nat],         \* m_nBytes of each child
     bytes   : Int,                         \* m_nBytes of the root
     index   : Priorities,                  \* dequeueIndex
     flow    : [Flows -> 0 .. FlowThreshold],       \* FlowCount
     started : BOOLEAN,                             \* ~firstTimeUpdate
     rate    : [Priorities -> Rates],               \* DeqRate
     nofP    : [Priorities -> Nat]]                 \* nofP, in 1/Sat

EmptyDisc ==
    [queue |-> [c \in Priorities |-> <<>>],
     nBytes |-> [c \in Priorities |-> 0], bytes |-> 0, index |-> 0,
     flow |-> [f \in Flows |-> 0], started |-> FALSE,
     rate |-> [c \in Priorities |-> RateUnit],
     nofP |-> [c \in Priorities |-> 0]]

Backlog(d) == {c \in Priorities : d.queue[c] # <<>>}

\* The child's Enqueue(); its PacketEnqueued trace updates the root.
ChildFits(d, c, size) == d.nBytes[c] + ItemSize(size) <= ChildMax

Enqueued(d, c, size) ==
    [d EXCEPT !.queue[c] = Append(@, size),
              !.nBytes[c] = @ + ItemSize(size), !.bytes = @ + ItemSize(size)]

\* The child's Dequeue(), and likewise its PacketDequeued trace.
Dequeued(d, c) ==
    LET bytes == ItemSize(Head(d.queue[c]))
    IN  [d EXCEPT !.queue[c] = Tail(@), !.nBytes[c] = @ - bytes, !.bytes = @ - bytes]

\* A packet that fits the bytes reserved to its port.
Reserved(static, d, size) == d.bytes + ItemSize(size) <= static

-----------------------------------------------------------------------------
(* Thresholds: maxSize of DynamicThresholds(), ActiveBufferManagement(),   *)
(* FlowAwareBuffer() and IntelligentBuffer().                              *)

\* Mutant of Share: a share of the whole buffer, not of what is free.
ShareOfTotal(sm, alpha) == (alpha * TotalBuffer) \div AlphaDen

Share(sm, alpha) == (alpha * sm.remaining) \div AlphaDen

ShareABM(sm, d, c, alpha) ==
    (alpha * sm.remaining * Sat * d.rate[c])
        \div (AlphaDen * d.nofP[c] * RateUnit)

\* The queue's bytes include the IP headers, the packet's and the test of what
\* remains do not.
Within(sm, d, c, size, maxSize) ==
    d.nBytes[c] + size <= maxSize /\ size <= sm.remaining

\* UpdateDequeueRate() and UpdateNofP(), with the rates measured.
Updated(d, sm, rate) ==
    [d EXCEPT !.started = TRUE, !.rate = rate,
              !.nofP = [c \in Priorities |-> NofP(sm, c)]]

\* FlowCount[flow] after one more packet; a flow not seen for a whole window
\* starts from zero.  It is kept up to the threshold it is compared with.
Seen(d, flow, stale, amount) ==
    [d EXCEPT !.flow[flow] = AtMost((IF stale THEN 0 ELSE @) + amount, FlowThreshold)]

-----------------------------------------------------------------------------
(* DoDequeue().                                                            *)

\* The scan goes round from dequeueIndex.
Turn(d, c) == (c - d.index) % NPrior

\* The child served, as a set of at most one: round robin from dequeueIndex,
\* or the first child that has a packet.
ClassServed(p, d) ==
    {c \in Backlog(d) : \A e \in Backlog(d) :
        IF RoundRobin[p] THEN Turn(d, c) <= Turn(d, e) ELSE c <= e}

\* The reserve is taken to hold the packet when what is left in the port,
\* together with the packet without its header, is within it.
FromShared(static, d, size) == d.bytes + size > static

=============================================================================
