--------------------------- MODULE QueueScheduler ---------------------------
(***************************************************************************)
(* The dequeue disciplines of MultipleQueue<Item>                          *)
(* (network/utils/multiple-queue.cc): which of the sub-queues of one port  *)
(* Dequeue() serves, and what it leaves in the scheduler's own fields.     *)
(*                                                                         *)
(* The code walks the sub-queues in a loop that starts at the queue served *)
(* last and stops at the first packet found.  The walk is stated here by   *)
(* its outcome: the distance at which the loop visits a queue (Position),  *)
(* the queue it stops at (Choice), and the deficits of the queues it       *)
(* passed (Deficits).  Operators only; the state machines that use them    *)
(* are MultipleQueue and SharedMemoryDevice.                               *)
(***************************************************************************)
EXTENDS Integers

CONSTANTS QCnt,         \* qCnt: the number of sub-queues (8 in the code)
          UseqCnt,      \* m_useqCnt: the sub-queues in use
          Weight        \* m_weight: the quantum of a DRR visit, in bytes

\* Every queue has its own m_dequeueType, an argument (type) below.
DequeueTypes == {"RR", "DRR", "WRR", "PQ", "PQDRR"}

\* Attribute UseqCnt is 1..8 and its checker allows 0 too, but a port with no
\* sub-queue divides by zero in every loop; m_weight is a positive literal.
ASSUME SchedulerAssumption ==
    /\ QCnt \in Nat \ {0}
    /\ UseqCnt \in 1 .. QCnt
    /\ Weight \in Nat \ {0}

SubQueues  == 0 .. QCnt - 1
UsedQueues == 0 .. UseqCnt - 1

\* The fields a Dequeue() reads and writes: m_deindex, drr_index, m_drr_num.
SchedState ==
    [deindex : SubQueues, drrIndex : SubQueues \cup {2},
     drr : [SubQueues -> Int]]

\* The constructor runs before attribute UseqCnt is applied, so m_deindex
\* starts at the default count minus one even if fewer queues are used.
InitSched ==
    [deindex |-> QCnt - 1, drrIndex |-> 2, drr |-> [q \in SubQueues |-> 0]]

-----------------------------------------------------------------------------
\* PQDRR serves queues 0 and 1 by strict priority before any other.
Strict(type) == IF type = "PQDRR" THEN {0, 1} ELSE {}

\* Where the walk starts: the queue served last (by DRR, under PQDRR).
Base(type, s)    == IF type = "PQDRR" THEN s.drrIndex ELSE s.deindex
Current(type, s) == Base(type, s) % UseqCnt

\* The iteration, 1 .. UseqCnt, in which the walk first visits q after its
\* start; the queue the walk starts from comes last.
Position(type, s, q) == ((q - Base(type, s) - 1) % UseqCnt) + 1

Nearest(type, s, S) ==
    {q \in S : \A r \in S : Position(type, s, q) <= Position(type, s, r)}
Lowest(S) == {q \in S : \A r \in S : q <= r}

-----------------------------------------------------------------------------
\* B is the set of backlogged (non-empty) sub-queues in use.

\* Mutant of KeepsTurn: the deficit is not looked at.
KeepsTurnAlways(type, s, B) == Current(type, s) \in B \ Strict(type)

\* Iteration 0 grants no quantum: the current queue goes on while it has both
\* a packet and a positive deficit.
KeepsTurn(type, s, B) ==
    /\ Current(type, s) \in B \ Strict(type)
    /\ s.drr[Current(type, s)] > 0

\* The other iterations add the quantum first and skip a queue still in debt.
Solvent(type, s, B) == {q \in B \ Strict(type) : s.drr[q] + Weight > 0}

ChoiceDRR(type, s, B) ==
    IF KeepsTurn(type, s, B) THEN {Current(type, s)}
    ELSE Nearest(type, s, Solvent(type, s, B))

\* The sub-queue the next Dequeue() serves, as a set of at most one element:
\* empty when Dequeue() returns NULL.
Choice(type, s, B) ==
    CASE type = "RR"    -> Nearest(type, s, B)
      [] type = "PQ"    -> Lowest(B)
      [] type = "DRR"   -> ChoiceDRR(type, s, B)
      [] type = "PQDRR" -> IF B \cap Strict(type) # {}
                           THEN Lowest(B \cap Strict(type))
                           ELSE ChoiceDRR(type, s, B)
      [] OTHER          -> {}

\* Mutant of Forfeit: an empty queue keeps what it has.
ForfeitNothing(d) == d

\* An empty queue forfeits what it has; a queue in debt keeps the debt.
Forfeit(d) == IF d > 0 THEN 0 ELSE d

\* m_drr_num after a walk that serves a packet of `size' bytes from the queue
\* in C, or that finds nothing when C is empty.
Deficits(type, s, B, C, size) ==
    IF KeepsTurn(type, s, B)
    THEN [s.drr EXCEPT ![Current(type, s)] = @ - size]
    ELSE [q \in SubQueues |->
            IF q \notin UsedQueues \ Strict(type) THEN s.drr[q]
            ELSE IF q \in C THEN s.drr[q] + Weight - size
            ELSE IF \A r \in C : Position(type, s, q) < Position(type, s, r)
                 THEN Forfeit(s.drr[q] + Weight)
            ELSE IF q = Current(type, s) THEN Forfeit(s.drr[q])
            ELSE s.drr[q]]

\* The scheduler after a Dequeue() that serves the queue in C = Choice(type, s, B),
\* whose head packet has `size' bytes.
Served(type, s, B, C, size) ==
    LET byDRR  == type = "DRR" \/ (type = "PQDRR" /\ B \cap Strict(type) = {})
        last   == IF C = {} THEN s.deindex ELSE CHOOSE q \in C : TRUE
    IN  [deindex  |-> last,
         drrIndex |-> IF type = "PQDRR" /\ byDRR /\ C # {}
                      THEN last ELSE s.drrIndex,
         drr      |-> IF byDRR THEN Deficits(type, s, B, C, size) ELSE s.drr]

=============================================================================
