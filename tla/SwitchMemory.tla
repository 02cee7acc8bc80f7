---------------------------- MODULE SwitchMemory ----------------------------
(***************************************************************************)
(* The shared packet memory of one MMU: the counters of class Switch       *)
(* (network/model/switch.cc) together with the sub-queues of the ports     *)
(* that share it, and the operations by which                              *)
(* SharedMemoryPointToPointNetDevice (point-to-point/model/                *)
(* shared-memory-point-to-point-net-device.cc) moves packets through it.   *)
(* Operators only, on a record m (see Memory); SharedMemoryDevice holds    *)
(* the state and the event handlers.                                       *)
(*                                                                         *)
(* A cell <<p, q>> is sub-queue q of the p-th port of the MMU.  A packet   *)
(* is its size in bytes.                                                   *)
(***************************************************************************)
EXTENDS QueueScheduler, ByteCount, Sequences

CONSTANTS
    NPorts,         \* ports that share the MMU (at most 8 in the code)
    Sizes,          \* the sizes of the packets that arrive
    QToP,           \* qToP: the priority of each sub-queue
    EnqueueMethod,  \* Switch::m_enqueueMethod
    DequeueType,    \* m_dequeueType of the queue of each port
    DropType,       \* m_dropType of each device
    MaxBuffer,      \* Switch::m_maxBuffer, in bytes
    StaticBuffer,   \* staticBuffer: the bytes private to each cell
    AlphaNum,       \* qAlpha[q] is AlphaNum[q] / AlphaDen
    AlphaDen,
    MaxToken,       \* Switch::max_token_num
    Refill,         \* the tokens one TokenAdd() adds
    CeilSize,       \* Switch::ceil_size: the bytes one token pays for
    IntervalBytes,  \* the bytes a link carries in one ABM update interval
    Word            \* 2^32: the modulus of uint32_t

EnqueueMethods == {"NORMAL_ENQUEUE", "DT", "MULTILAYER_DT", "PUSHOUT", "ABM"}
DropTypes      == {"NONE", "RR", "TOKEN", "LONGTOKEN"}

Ports == 1 .. NPorts

\* Values a configuration may have.  m_maxBuffer is an int, and a packet more
\* than a full buffer stays within it.  An ABM device reads its dequeue rates
\* uninitialised if a private static buffer lets a packet bypass
\* AcceptPacket(), so ABM is taken without one, as the experiments use it.
ASSUME MemoryAssumption ==
    /\ NPorts \in Nat \ {0}
    /\ Sizes \subseteq Nat \ {0} /\ Sizes # {}
    /\ QToP \in [SubQueues -> SubQueues]
    /\ EnqueueMethod \in EnqueueMethods
    /\ DequeueType \in [Ports -> DequeueTypes]
    /\ DropType \in [Ports -> DropTypes]
    /\ MaxBuffer \in Nat /\ StaticBuffer \in Nat
    /\ AlphaNum \in [SubQueues -> Nat] /\ AlphaDen \in Nat \ {0}
    /\ MaxToken \in Nat /\ Refill \in Nat
    /\ CeilSize \in Nat \ {0} /\ IntervalBytes \in Nat \ {0}
    /\ Word \in Nat \ {0} /\ StaticBuffer < Word
    /\ \A size \in Sizes : 2 * (MaxBuffer + size) < Word
    /\ EnqueueMethod = "ABM" => StaticBuffer = 0

Cells     == Ports \X SubQueues
UsedCells == Ports \X UsedQueues
Priorities == SubQueues

\* Scan order of the loops over ports and sub-queues: the port is the major key.
Slot(c) == (c[1] - 1) * QCnt + c[2]

-----------------------------------------------------------------------------
\* int(double) and int(uint32_t).
Truncated(a, b) == IF a >= 0 THEN a \div b ELSE -((-a) \div b)
AsInt(w)        == IF 2 * w >= Word THEN w - Word ELSE w

Memory ==
    [queue  : [Cells -> Seq(Sizes)],    \* the packets of each sub-queue
     nBytes : [Cells -> Nat],           \* QueueBase::m_nBytes of each
     static : [Cells -> Nat],           \* usedStaticBuffer of each
     used   : Int,                      \* Switch::m_usedBuffer
     pUsed  : [Priorities -> Int],      \* Switch::pUsedBuffer
     token  : Int,                      \* Switch::token_num
     started : BOOLEAN,                 \* Switch::first_flag
     last   : Cells]                    \* last_head_drop_port and _queue

CellsOf(pr) == {c \in Cells : QToP[c[2]] = pr}

\* The counters are exactly the bytes that sit in the sub-queues.
Accounted(m) ==
    /\ \A c \in Cells : m.nBytes[c] = BytesOf(m.queue[c], DOMAIN m.queue[c])
    /\ m.used = BytesOf(m.nBytes, Cells)
    /\ \A pr \in Priorities : m.pUsed[pr] = BytesOf(m.nBytes, CellsOf(pr))

\* No queue holds more than alpha / (1 + alpha) of the buffer plus a packet;
\* MULTILAYER_DT admits any packet to an empty queue.
Isolates(m) ==
    \A c \in Cells : \E size \in Sizes :
        \/ (AlphaDen + AlphaNum[c[2]]) * m.nBytes[c]
              <= AlphaNum[c[2]] * (MaxBuffer + size)
        \/ EnqueueMethod = "MULTILAYER_DT" /\ m.nBytes[c] <= size

EmptyMemory ==
    [queue |-> [c \in Cells |-> <<>>], nBytes |-> [c \in Cells |-> 0],
     static |-> [c \in Cells |-> 0], used |-> 0,
     pUsed |-> [pr \in Priorities |-> 0], token |-> 0, started |-> FALSE,
     last |-> <<1, 0>>]

-----------------------------------------------------------------------------
(* Packets in and out of a sub-queue, and who is charged for them.         *)

AddUsed(m, c, size) ==
    [m EXCEPT !.used = @ + size, !.pUsed[QToP[c[2]]] = @ + size]

DeleteUsed(m, c, size) ==
    [m EXCEPT !.used = @ - size, !.pUsed[QToP[c[2]]] = @ - size]

\* ceil(size / ceil_size) tokens, in the method that has tokens.
TokenDelete(m, size) ==
    IF EnqueueMethod = "MULTILAYER_DT"
    THEN [m EXCEPT !.token = @ - ((size + CeilSize - 1) \div CeilSize)]
    ELSE m

Pushed(m, c, size) ==
    [m EXCEPT !.queue[c] = Append(@, size), !.nBytes[c] = @ + size]

Popped(m, c) ==
    [m EXCEPT !.queue[c] = Tail(@), !.nBytes[c] = @ - Head(m.queue[c])]

\* An accepted packet: charged to the cell's static buffer or to the MMU.
Arrived(m, c, size, private) ==
    LET n == Pushed(m, c, size)
    IN  IF private THEN [n EXCEPT !.static[c] = (@ + size) % Word]
                   ELSE AddUsed(n, c, size)

\* Mutant of Departed: a packet from the static buffer is credited twice.
DepartedTwice(m, c) ==
    LET size == Head(m.queue[c])
        n    == DeleteUsed(Popped(m, c), c, size)
    IN  IF n.static[c] > n.nBytes[c]
        THEN [n EXCEPT !.static[c] = (@ - size) % Word]
        ELSE TokenDelete(n, size)

\* A packet taken for transmission.  It is credited to the static buffer when
\* that holds more than what is left in the sub-queue.
Departed(m, c) ==
    LET size == Head(m.queue[c])
        n    == Popped(m, c)
    IN  IF n.static[c] > n.nBytes[c]
        THEN [n EXCEPT !.static[c] = (@ - size) % Word]
        ELSE TokenDelete(DeleteUsed(n, c, size), size)

\* A packet pushed out, always credited to the MMU.
PushedOut(m, c) == DeleteUsed(Popped(m, c), c, Head(m.queue[c]))

\* Mutant of HeadDropped: the MMU is not credited.
HeadDroppedUncredited(m, p, c) ==
    LET n == TokenDelete(Popped(m, c), Head(m.queue[c]))
    IN  IF DropType[p] = "TOKEN" THEN [n EXCEPT !.last = c] ELSE n

\* A packet head-dropped by port p; round-robin head drop resumes after its
\* queue.
HeadDropped(m, p, c) ==
    LET n == TokenDelete(PushedOut(m, c), Head(m.queue[c]))
    IN  IF DropType[p] = "TOKEN" THEN [n EXCEPT !.last = c] ELSE n

-----------------------------------------------------------------------------
(* Thresholds.  a is the ABM state of the port that asks (see below).      *)

\* The backlog of cell c less the static bytes of the port p that asks: the
\* code reads its own usedStaticBuffer even when c is another port's.
SharedBytes(m, p, c) == (m.nBytes[c] - m.static[<<p, c[2]>>]) % Word

\* Mutant of SwitchThreshold: a share of the whole buffer, not of what is free.
SwitchThresholdStatic(m, q) == Truncated(AlphaNum[q] * MaxBuffer, AlphaDen)

SwitchThreshold(m, q) == Truncated(AlphaNum[q] * (MaxBuffer - m.used), AlphaDen)

\* ABM: per port and priority, the bytes sent in this interval, the dequeue
\* rate as a numerator over IntervalBytes, and a copy of Switch::N.
ABMState ==
    [started : BOOLEAN, bytes : [Priorities -> Nat],
     rate : [Priorities -> 1 .. IntervalBytes], nofP : [Priorities -> Int]]

\* A rate below 1/8 or above 1 counts as 1.
Rate(sent) ==
    IF 8 * sent < IntervalBytes \/ sent > IntervalBytes
    THEN IntervalBytes ELSE sent

Updated(a, N) ==
    [a EXCEPT !.started = TRUE, !.bytes = [pr \in Priorities |-> 0],
              !.rate = [pr \in Priorities |-> Rate(a.bytes[pr])], !.nofP = N]

NP(a, q) == IF a.nofP[QToP[q]] >= 1 THEN a.nofP[QToP[q]] ELSE 1

QueueThreshold(m, a, q) ==
    IF EnqueueMethod = "ABM"
    THEN Truncated(SwitchThreshold(m, q) * a.rate[QToP[q]],
                   IntervalBytes * NP(a, q))
    ELSE SwitchThreshold(m, q)

\* At 90% of its threshold a queue counts as saturated.
Saturates(m, a, c) ==
    10 * SharedBytes(m, c[1], c) >= 9 * QueueThreshold(m, a, c[2])

\* Switch::saturated and Switch::N.
SaturationState == [saturated : [Cells -> BOOLEAN], N : [Priorities -> Int]]

\* N counts the queues of each priority that are flagged saturated.
Counted(s) ==
    \A pr \in Priorities :
        s.N[pr] = Cardinality({c \in CellsOf(pr) : s.saturated[c]})

\* Mutant of SetSaturated: counts a level it has already counted.
SetSaturatedAlways(s, c, level) ==
    [s EXCEPT !.saturated[c] = level,
              !.N[QToP[c[2]]] = IF level THEN @ + 1
                                ELSE IF s.saturated[c] THEN @ - 1 ELSE @]

\* Switch::N counts the saturated queues of each priority.
SetSaturated(s, c, level) ==
    IF s.saturated[c] = level THEN s
    ELSE [s EXCEPT !.saturated[c] = level,
                   !.N[QToP[c[2]]] = IF level THEN @ + 1 ELSE @ - 1]

-----------------------------------------------------------------------------
(* Admission: AcceptPacket() without its push-out loop.                    *)

Fits(m, size) == m.used + size <= MaxBuffer

WithinThreshold(m, a, c, size) ==
    AsInt((m.nBytes[c] + size - m.static[c]) % Word)
        <= QueueThreshold(m, a, c[2])

Accepts(m, a, c, size) ==
    /\ Fits(m, size)
    /\ EnqueueMethod \in {"DT", "ABM"} => WithinThreshold(m, a, c, size)
    /\ EnqueueMethod = "MULTILAYER_DT" =>
          AsInt(SharedBytes(m, c[1], c)) = 0 \/ WithinThreshold(m, a, c, size)

\* The static buffer of the cell still has room; the sum is a uint32_t.
HasStaticRoom(m, c, size) == (m.static[c] + size) % Word <= StaticBuffer

-----------------------------------------------------------------------------
(* Victims, as sets of at most one cell.                                   *)

\* The longest sub-queue; among equals the last one scanned.
Longest(m, S) ==
    {c \in S : \A d \in S :
        \/ m.nBytes[d] < m.nBytes[c]
        \/ m.nBytes[d] = m.nBytes[c] /\ Slot(d) <= Slot(c)}

\* Mutant of PushOutVictim: the priority rule applies to every discipline.
PushOutVictimStrict(m, p, q) ==
    {c \in Longest(m, Cells) : c[2] >= q /\ m.nBytes[c] > StaticBuffer}

\* PushOutPacket() of port p: under strict priority a packet for queue q may
\* not push out one of a higher-priority queue.
PushOutVictim(m, p, q) ==
    {c \in Longest(m, Cells) :
        /\ DequeueType[p] = "PQ" => c[2] >= q
        /\ m.nBytes[c] > StaticBuffer}

\* double(bytes) / double(threshold) > 1.0, with the port p's own threshold:
\* division by zero exceeds 1 for any bytes, a negative threshold never does.
OverThreshold(m, a, p, c) ==
    LET t == QueueThreshold(m, a, c[2])
    IN  t >= 0 /\ SharedBytes(m, p, c) > t

\* The scan of DropTOKEN() starts after the last victim and ends with it.
Turn(last, c) == ((Slot(c) - Slot(last) - 1) % (NPorts * QCnt)) + 1

RoundRobinVictim(m, a, p) ==
    LET over == {c \in UsedCells : m.queue[c] # <<>> /\ OverThreshold(m, a, p, c)}
    IN  {c \in over : \A d \in over : Turn(m.last, c) <= Turn(m.last, d)}

LongestVictim(m, a, p) ==
    {c \in Longest(m, UsedCells) :
        m.nBytes[c] > StaticBuffer /\ OverThreshold(m, a, p, c)}

HeadDropVictim(m, a, p) ==
    CASE EnqueueMethod # "MULTILAYER_DT" \/ m.token <= 0 -> {}
      [] DropType[p] = "TOKEN"     -> RoundRobinVictim(m, a, p)
      [] DropType[p] = "LONGTOKEN" -> LongestVictim(m, a, p)
      [] OTHER                     -> {}

\* DropCheck(): port p, about to dequeue, may first drop one packet anywhere.
DropChecked(m, a, p) ==
    LET V == HeadDropVictim(m, a, p)
    IN  IF V = {} THEN m ELSE HeadDropped(m, p, CHOOSE c \in V : TRUE)

\* Mutant of TokenAdded: tokens are not capped.
TokenAddedUncapped(m) ==
    [m EXCEPT !.started = TRUE, !.last = IF m.started THEN @ ELSE <<1, 0>>,
              !.token = @ + Refill]

\* TokenAdd(): the first one also starts the round robin at the first queue.
TokenAdded(m) ==
    [m EXCEPT !.started = TRUE,
              !.last = IF m.started THEN @ ELSE <<1, 0>>,
              !.token = IF @ + Refill > MaxToken THEN MaxToken ELSE @ + Refill]

=============================================================================
