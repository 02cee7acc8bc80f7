------------------------ MODULE MultipleQueueFairness ------------------------
(***************************************************************************)
(* MultipleQueue with a history variable: how many more bytes one queue    *)
(* has been served than another since both became backlogged.  The history *)
(* only observes; it never restricts a step of MultipleQueue.              *)
(***************************************************************************)
EXTENDS MultipleQueue

VARIABLE lead   \* lead[<<q, r>>]: bytes served from q minus bytes from r

Pairs == UsedQueues \X UsedQueues

FairnessInit == Init /\ lead = [p \in Pairs |-> 0]

\* A pair's count starts over when either of its queues is empty.
Record(gain) ==
    lead' = [p \in Pairs |->
                IF queue'[p[1]] = <<>> \/ queue'[p[2]] = <<>> THEN 0
                ELSE lead[p] + gain[p[1]] - gain[p[2]]]

NoGain == [q \in UsedQueues |-> 0]
Gain   == LET C == Choice(DequeueType, sched, Backlogged)
          IN  [q \in UsedQueues |-> IF q \in C THEN Head(queue[q]) ELSE 0]

FairnessNext ==
    \/ Dequeue /\ Record(Gain)
    \/ /\ \/ \E q \in SubQueues, size \in Sizes : EnqueueTos(q, size)
          \/ \E size \in Sizes : EnqueueRR(size)
          \/ \E q \in UsedQueues : DequeueTos(q)
       /\ Record(NoGain)

FairnessSpec == FairnessInit /\ [][FairnessNext]_<<vars, lead>>

\* DequeueDRR shares the port in bytes: whatever the packet sizes, the arrival
\* order and the head drops, of two queues that stay backlogged neither gets
\* ahead of the other by more than one quantum and two maximal packets (so none
\* is starved either).
ByteFair ==
    \E max \in Sizes :
        /\ \A size \in Sizes : size <= max
        /\ \A p \in Pairs : lead[p] <= Weight + 2 * (max - 1)

=============================================================================
