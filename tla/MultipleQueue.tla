---------------------------- MODULE MultipleQueue ----------------------------
(***************************************************************************)
(* The output queue of one port: class MultipleQueue<Item>                 *)
(* (network/utils/multiple-queue.h, multiple-queue.cc), a vector of        *)
(* drop-tail sub-queues and a scheduler.  A packet is its size in bytes.   *)
(*                                                                         *)
(* Enqueuers choose the sub-queue (EnqueueTos) or let the object spread    *)
(* packets (EnqueueRR); the transmitter calls Dequeue(); head drop calls   *)
(* Dequeue(index) behind the scheduler's back.                             *)
(***************************************************************************)
EXTENDS QueueScheduler, Sequences, FiniteSets

CONSTANTS DequeueType,  \* m_dequeueType
          Sizes,        \* the packet sizes that arrive
          MaxPackets    \* MaxSize of a sub-queue, in packets

ASSUME QueueAssumption ==
    /\ DequeueType \in DequeueTypes
    /\ Sizes \subseteq Nat \ {0} /\ Sizes # {}
    /\ MaxPackets \in Nat \ {0}

VARIABLES queue,    \* m_queues: the packets of each sub-queue, head first
          sched,    \* m_deindex, drr_index and m_drr_num
          enindex   \* m_enindex

vars == <<queue, sched, enindex>>

Backlogged == {q \in UsedQueues : queue[q] # <<>>}

Init ==
    /\ queue = [q \in SubQueues |-> <<>>]
    /\ sched = InitSched
    /\ enindex = 0

\* Enqueue(item, index): refused beyond the queues in use, and by the
\* drop-tail sub-queue when it is full.
Inserted(q, size) ==
    IF q \in UsedQueues /\ Len(queue[q]) < MaxPackets
    THEN [queue EXCEPT ![q] = Append(@, size)]
    ELSE queue

EnqueueTos(q, size) ==
    /\ queue' = Inserted(q, size)
    /\ UNCHANGED <<sched, enindex>>

\* EnqueueRR(item): the index moves on even when the packet is refused.
EnqueueRR(size) ==
    /\ queue' = Inserted(enindex % UseqCnt, size)
    /\ enindex' = ((enindex % UseqCnt) + 1) % UseqCnt
    /\ UNCHANGED sched

\* Dequeue(): one packet by the scheduling discipline.  With nothing to
\* return it still walks the queues and settles the deficits.
Dequeue ==
    LET C == Choice(DequeueType, sched, Backlogged)
    IN  /\ UNCHANGED enindex
        /\ \/ /\ C = {}
              /\ sched' = Served(DequeueType, sched, Backlogged, C, 0)
              /\ UNCHANGED queue
           \/ \E q \in C :
              /\ sched' = Served(DequeueType, sched, Backlogged, C, Head(queue[q]))
              /\ queue' = [queue EXCEPT ![q] = Tail(@)]

\* Dequeue(index), by which packets are head-dropped; Remove() is the same
\* on queue 0 (it only adds a drop trace).
DequeueTos(q) ==
    /\ queue[q] # <<>>
    /\ queue' = [queue EXCEPT ![q] = Tail(@)]
    /\ UNCHANGED <<sched, enindex>>

Next ==
    \/ \E q \in SubQueues, size \in Sizes : EnqueueTos(q, size)
    \/ \E size \in Sizes : EnqueueRR(size)
    \/ Dequeue
    \/ \E q \in UsedQueues : DequeueTos(q)

Spec == Init /\ [][Next]_vars

-----------------------------------------------------------------------------
TypeOK ==
    /\ queue \in [SubQueues -> Seq(Sizes)]
    /\ sched \in SchedState
    /\ enindex \in UsedQueues

\* While a packet waits in any sub-queue, Dequeue() returns one
\* (Dequeue, multiple-queue.cc:108-129): a NULL with a backlog would stop the
\* port for good, because only a completed transmission asks again.
WorkConserving == Backlogged # {} => Choice(DequeueType, sched, Backlogged) # {}

\* The deficit of DequeueDRR / DequeuePQDRR: a queue that is not being served
\* holds no credit, so idle queues cannot hoard quanta; the queue being served
\* holds less than one quantum; and no queue owes a whole maximal packet.
DeficitBounded ==
    \A q \in UsedQueues :
        /\ q # Current(DequeueType, sched) => sched.drr[q] <= 0
        /\ sched.drr[q] < Weight
        /\ \E size \in Sizes : sched.drr[q] > -size

=============================================================================
