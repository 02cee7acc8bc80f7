------------------------ MODULE MCSharedMemoryDevice ------------------------
(* Small instances of SharedMemoryDevice for TLC: values for the constants   *)
(* that a .cfg cannot write.                                                 *)
EXTENDS SharedMemoryDevice

\* qToP of the experiments: one priority per sub-queue.
OwnPriority == [q \in SubQueues |-> q]

\* Alpha of the queues, over AlphaDen: the same for all; or larger for the
\* higher queue, so that its threshold may exceed the free buffer.
Alike   == [q \in SubQueues |-> 1]
Growing == [q \in SubQueues |-> q + 1]

\* Disciplines: the same on every port, or port 1 different from the others.
EachDRR == [p \in Ports |-> "DRR"]
EachRR  == [p \in Ports |-> "RR"]
PQFirst == [p \in Ports |-> IF p = 1 THEN "PQ" ELSE "DRR"]

\* Head drop: none, or from the longest queue when port 1 dequeues and round
\* robin when another does.
NoHeadDrop == [p \in Ports |-> "NONE"]
BothDrops  == [p \in Ports |-> IF p = 1 THEN "LONGTOKEN" ELSE "TOKEN"]
=============================================================================
