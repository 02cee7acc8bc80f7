------------------------ MODULE MultipleQueueProofs ------------------------
(***************************************************************************)
(* The output queue of a port: type correctness, the bound on the deficits,*)
(* work conservation, and the fairness of deficit round robin.             *)
(*                                                                         *)
(* DeficitBounded is not inductive: a step also needs that the queues DRR  *)
(* does not serve, all of them under the other disciplines, have no        *)
(* deficit (Settled in QueueSchedulerProofs), and that the sizes the       *)
(* scheduler is told are those of packets that arrived (TypeOK).           *)
(*                                                                         *)
(* ByteFair holds for any number of queues, any packet sizes and any       *)
(* quantum no smaller than a packet.  Its invariant FairInv is about the   *)
(* balance of two backlogged queues, the lead of one over the other        *)
(* corrected by their deficits.  A packet served changes the lead and the  *)
(* deficit alike; only a quantum changes the balance, and while both are   *)
(* backlogged their quanta alternate, so that the balance is one quantum   *)
(* higher only while the other is the next to be visited.                  *)
(***************************************************************************)
EXTENDS MultipleQueueFairness, QueueSchedulerProofs, SequenceTheorems, TLAPS

IInv ==
    /\ TypeOK
    /\ Settled(DequeueType, sched, Sizes)

LEMMA SizesPositive == Sizes \in SUBSET (Nat \ {0}) /\ Sizes # {}
  BY QueueAssumption

LEMMA BackloggedHead ==
    ASSUME TypeOK, NEW q \in SubQueues, queue[q] # <<>>
    PROVE  /\ Head(queue[q]) \in Sizes
           /\ [queue EXCEPT ![q] = Tail(@)] \in [SubQueues -> Seq(Sizes)]
<1>1. queue[q] \in Seq(Sizes)
  BY DEF TypeOK
<1>2. Head(queue[q]) \in Sizes /\ Tail(queue[q]) \in Seq(Sizes)
  BY <1>1, HeadTailProperties
<1> QED BY <1>2 DEF TypeOK

LEMMA InsertedType ==
    ASSUME TypeOK, NEW q, NEW size \in Sizes
    PROVE  Inserted(q, size) \in [SubQueues -> Seq(Sizes)]
<1>1. CASE q \in UsedQueues /\ Len(queue[q]) < MaxPackets
  <2>1. q \in SubQueues
    BY <1>1, UsedQueuesAreSubQueues
  <2>2. Append(queue[q], size) \in Seq(Sizes)
    BY <2>1, AppendProperties DEF TypeOK
  <2> QED BY <1>1, <2>2 DEF Inserted, TypeOK
<1>2. CASE ~(q \in UsedQueues /\ Len(queue[q]) < MaxPackets)
  BY <1>2 DEF Inserted, TypeOK
<1> QED BY <1>1, <1>2

LEMMA InitIInv == Init => IInv
<1> SUFFICES ASSUME Init PROVE IInv
  OBVIOUS
<1>1. queue \in [SubQueues -> Seq(Sizes)]
  BY EmptySeq DEF Init
<1>2. enindex \in UsedQueues
  BY SchedulerAssumption DEF Init, UsedQueues
<1>3. sched = InitSched
  BY DEF Init
<1>4. sched \in SchedState
  BY <1>3, InitSchedType
<1>5. Settled(DequeueType, sched, Sizes)
  BY <1>3, SizesPositive, InitSettled
<1> QED BY <1>1, <1>2, <1>4, <1>5 DEF IInv, TypeOK

LEMMA EnqueueRRKeeps ==
    ASSUME IInv, NEW size \in Sizes, EnqueueRR(size)
    PROVE  IInv'
<1>1. queue' \in [SubQueues -> Seq(Sizes)]
  BY InsertedType DEF EnqueueRR, IInv
<1>2. enindex' \in UsedQueues
  <2>1. UseqCnt \in Nat \ {0} /\ enindex \in Int
    BY SchedulerAssumption DEF IInv, TypeOK, UsedQueues
  <2>2. (enindex % UseqCnt) + 1 \in Int
    BY <2>1, RemainderRange
  <2>3. ((enindex % UseqCnt) + 1) % UseqCnt \in 0 .. UseqCnt - 1
    BY <2>1, <2>2, RemainderRange
  <2> QED BY <2>3 DEF EnqueueRR, UsedQueues
<1>3. sched' = sched
  BY DEF EnqueueRR
<1> QED BY <1>1, <1>2, <1>3 DEF IInv, TypeOK

LEMMA DequeueKeeps ==
    ASSUME IInv, Dequeue
    PROVE  IInv'
<1> DEFINE C == Choice(DequeueType, sched, Backlogged)
<1>1. /\ TypeOK /\ sched \in SchedState /\ queue \in [SubQueues -> Seq(Sizes)]
      /\ Settled(DequeueType, sched, Sizes)
  BY DEF IInv, TypeOK
<1>2. DequeueType \in DequeueTypes
  BY QueueAssumption
<1>3. Backlogged \in SUBSET UsedQueues
  BY DEF Backlogged
<1>4. C \subseteq Backlogged
  BY <1>2, ChoiceBacklogged
<1>5. enindex' = enindex
  BY DEF Dequeue
<1>6. CASE C = {} /\ sched' = Served(DequeueType, sched, Backlogged, C, 0) /\ UNCHANGED queue
  <2>1. sched' \in SchedState
    BY <1>1, <1>3, <1>4, <1>6, ServedType
  <2>2. Settled(DequeueType, Served(DequeueType, sched, Backlogged, C, 0), Sizes)
    BY <1>1, <1>2, <1>3, <1>6, SizesPositive, ServedSettled
  <2>3. Settled(DequeueType, sched', Sizes)
    BY <1>6, <2>2
  <2>4. Settled(DequeueType, sched, Sizes)'
    BY <2>3 DEF Settled, Current, Base
  <2> QED BY <1>1, <1>5, <1>6, <2>1, <2>4 DEF IInv, TypeOK
<1>7. ASSUME NEW q \in C,
             sched' = Served(DequeueType, sched, Backlogged, C, Head(queue[q])),
             queue' = [queue EXCEPT ![q] = Tail(@)]
      PROVE  IInv'
  <2>1. q \in SubQueues /\ queue[q] # <<>>
    BY <1>4, UsedQueuesAreSubQueues DEF Backlogged
  <2> DEFINE size == Head(queue[q])
  <2>2. size \in Sizes /\ queue' \in [SubQueues -> Seq(Sizes)]
    BY <1>1, <1>7, <2>1, BackloggedHead
  <2>3. sched' = Served(DequeueType, sched, Backlogged, C, size)
    BY <1>7
  <2> HIDE DEF size
  <2>4. size \in Nat
    BY <2>2, SizesPositive
  <2>5. sched' \in SchedState
    BY <1>1, <1>3, <1>4, <2>3, <2>4, ServedType
  <2>6. Settled(DequeueType, Served(DequeueType, sched, Backlogged, C, size), Sizes)
    BY <1>1, <1>2, <1>3, <2>2, <2>4, SizesPositive, ServedSettled
  <2>7. Settled(DequeueType, sched', Sizes)
    BY <2>3, <2>6
  <2>8. Settled(DequeueType, sched, Sizes)'
    BY <2>7 DEF Settled, Current, Base
  <2> QED BY <1>1, <1>5, <2>2, <2>5, <2>8 DEF IInv, TypeOK
<1> QED BY <1>6, <1>7 DEF Dequeue

LEMMA NextIInv == IInv /\ [Next]_vars => IInv'
<1> SUFFICES ASSUME IInv, [Next]_vars PROVE IInv'
  OBVIOUS
<1>1. ASSUME NEW q \in SubQueues, NEW size \in Sizes, EnqueueTos(q, size)
      PROVE  IInv'
  BY <1>1, InsertedType DEF EnqueueTos, IInv, TypeOK
<1>2. ASSUME NEW size \in Sizes, EnqueueRR(size)
      PROVE  IInv'
  BY <1>2, EnqueueRRKeeps
<1>3. CASE Dequeue
  BY <1>3, DequeueKeeps
<1>4. ASSUME NEW q \in UsedQueues, DequeueTos(q)
      PROVE  IInv'
  BY <1>4, BackloggedHead, UsedQueuesAreSubQueues DEF DequeueTos, IInv, TypeOK
<1>5. CASE UNCHANGED vars
  BY <1>5 DEF vars, IInv, TypeOK
<1> QED BY <1>1, <1>2, <1>3, <1>4, <1>5 DEF Next

LEMMA IInvCorrect == Spec => []IInv
  BY InitIInv, NextIInv, PTL DEF Spec

-----------------------------------------------------------------------------
\* Type correctness: whatever is enqueued, dequeued and head-dropped, the
\* scheduler's fields stay indices of existing sub-queues
\* (MultipleQueue::Enqueue, Dequeue).
THEOREM TypeCorrect == Spec => []TypeOK
<1>1. IInv => TypeOK
  BY DEF IInv
<1> QED BY IInvCorrect, <1>1, PTL

\* The deficits of DequeueDRR and DequeuePQDRR keep to their bounds: no queue
\* hoards quanta, none owes a whole packet of the largest size.
THEOREM DeficitBoundedCorrect == Spec => []DeficitBounded
<1>1. IInv => DeficitBounded
  BY DEF IInv, Settled, DeficitBounded
<1> QED BY IInvCorrect, <1>1, PTL

\* With a quantum no smaller than the largest packet, Dequeue() finds a packet
\* whenever there is one, under every discipline but WRR, which the code
\* names and does not implement.
THEOREM WorkConservingCorrect ==
    ASSUME DequeueType # "WRR", \A size \in Sizes : size <= Weight
    PROVE  Spec => []WorkConserving
<1>1. IInv => WorkConserving
  <2> SUFFICES ASSUME IInv, Backlogged # {}
               PROVE  Choice(DequeueType, sched, Backlogged) # {}
    BY DEF WorkConserving
  <2>1. DequeueType \in DequeueTypes \ {"WRR"}
    BY QueueAssumption
  <2>2. sched \in SchedState /\ Settled(DequeueType, sched, Sizes)
    BY DEF IInv, TypeOK
  <2>3. Backlogged \in SUBSET UsedQueues
    BY DEF Backlogged
  <2>4. \A q \in UsedQueues : sched.drr[q] + Weight > 0
    BY <2>2, SizesPositive, SettledSolvent
  <2> QED BY <2>1, <2>2, <2>3, <2>4, ChoiceServes
<1> QED BY IInvCorrect, <1>1, PTL

-----------------------------------------------------------------------------
\* The walk visits the queues after the current one, then those before it,
\* then the current one.
LEMMA PositionFrom ==
    ASSUME NEW type, NEW s \in SchedState, NEW q \in UsedQueues
    PROVE  /\ Current(type, s) \in UsedQueues
           /\ Position(type, s, q) = IF q > Current(type, s)
                                     THEN q - Current(type, s)
                                     ELSE q - Current(type, s) + UseqCnt
<1> DEFINE b == Base(type, s)
           c == Current(type, s)
           n == UseqCnt
           k == b \div n
<1>1. n \in Nat \ {0} /\ b \in Int /\ q \in 0 .. n - 1
  BY SchedulerAssumption, BaseInt DEF UsedQueues
<1>2. c = b % n
  BY DEF Current
<1> HIDE DEF b, c, n
<1>3. c \in 0 .. n - 1 /\ k \in Int /\ b = n * k + c
  BY <1>1, <1>2, RemainderRange
<1> HIDE DEF k
<1>4. -k \in Int /\ -k - 1 \in Int /\ n * k \in Int
  BY <1>1, <1>3
<1>5. n * (-k) = -(n * k) /\ n * (-k - 1) = -(n * k) - n
  BY <1>1, <1>3
<1>6. CASE q > c
  <2>1. q - b - 1 = n * (-k) + (q - c - 1) /\ q - c - 1 \in 0 .. n - 1
    BY <1>1, <1>3, <1>4, <1>5, <1>6
  <2>2. (n * (-k) + (q - c - 1)) % n = q - c - 1
    BY <1>1, <1>4, <2>1, RemainderUnique
  <2>3. (q - b - 1) % n = q - c - 1
    BY <2>1, <2>2
  <2> QED BY <1>1, <1>3, <1>6, <2>3 DEF Position, b, c, n, UsedQueues
<1>7. CASE ~(q > c)
  <2>1. q - b - 1 = n * (-k - 1) + (q - c - 1 + n) /\ q - c - 1 + n \in 0 .. n - 1
    BY <1>1, <1>3, <1>4, <1>5, <1>7
  <2>2. (n * (-k - 1) + (q - c - 1 + n)) % n = q - c - 1 + n
    BY <1>1, <1>4, <2>1, RemainderUnique
  <2>3. (q - b - 1) % n = q - c - 1 + n
    BY <2>1, <2>2
  <2> QED BY <1>1, <1>3, <1>7, <2>3 DEF Position, b, c, n, UsedQueues
<1> QED BY <1>6, <1>7

\* The walk reaches q before r when it starts from c.
Before(c, q, r) ==
    \/ q > c /\ (r > c => q < r)
    \/ ~(q > c) /\ ~(r > c) /\ q < r

LEMMA PositionBefore ==
    ASSUME NEW type, NEW s \in SchedState,
           NEW q \in UsedQueues, NEW r \in UsedQueues, q # r
    PROVE  Position(type, s, q) <= Position(type, s, r)
             <=> Before(Current(type, s), q, r)
<1> DEFINE c == Current(type, s)
<1>1. /\ c \in UsedQueues
      /\ Position(type, s, q) = IF q > c THEN q - c ELSE q - c + UseqCnt
      /\ Position(type, s, r) = IF r > c THEN r - c ELSE r - c + UseqCnt
  BY PositionFrom
<1>2. /\ UseqCnt \in Nat /\ q \in 0 .. UseqCnt - 1 /\ r \in 0 .. UseqCnt - 1
      /\ c \in 0 .. UseqCnt - 1
  BY <1>1, SchedulerAssumption DEF UsedQueues
<1> HIDE DEF c
<1> QED BY <1>1, <1>2 DEF Before, c

\* DequeueDRR: the current queue keeps its turn, or the first backlogged queue
\* the walk reaches gets a quantum; of the other backlogged queues no deficit
\* changes.
LEMMA ServedDRR ==
    ASSUME NEW s \in SchedState, NEW S \in SUBSET (Nat \ {0}),
           Settled("DRR", s, S), \A size \in S : size <= Weight,
           NEW B \in SUBSET UsedQueues, NEW c \in Choice("DRR", s, B), NEW size \in Int
    PROVE  LET t == Served("DRR", s, B, Choice("DRR", s, B), size)
           IN  /\ Choice("DRR", s, B) = {c} /\ c \in B
               /\ Current("DRR", t) = c
               /\ \A q \in B \ {c} : t.drr[q] = s.drr[q]
               /\ \/ c = Current("DRR", s) /\ t.drr[c] = s.drr[c] - size
                  \/ /\ t.drr[c] = s.drr[c] + Weight - size
                     /\ \A q \in B \ {c} : Before(Current("DRR", s), c, q)
<1> DEFINE C == Choice("DRR", s, B)
           t == Served("DRR", s, B, C, size)
           cur == Current("DRR", s)
<1>1. C = ChoiceDRR("DRR", s, B)
  BY DEF Choice
<1>2. Strict("DRR") = {} /\ UsedQueues \subseteq SubQueues
  BY UsedQueuesAreSubQueues DEF Strict
<1>3. /\ \A q \in UsedQueues : s.drr[q] \in Int
      /\ s.drr \in [SubQueues -> Int]
  BY <1>2 DEF SchedState
<1>4. c \in B /\ c \in UsedQueues
  BY ChoiceBacklogged DEF DequeueTypes
<1>5. C = {c}
  <2>1. IF KeepsTurn("DRR", s, B) THEN C = {Current("DRR", s)}
        ELSE C = {} \/ \E d \in Solvent("DRR", s, B) : C = {d}
    <3>1. IF KeepsTurn("DRR", s, B) THEN ChoiceDRR("DRR", s, B) = {Current("DRR", s)}
          ELSE \/ ChoiceDRR("DRR", s, B) = {}
               \/ \E d \in Solvent("DRR", s, B) : ChoiceDRR("DRR", s, B) = {d}
      BY ChoiceDRRCases, Zenon
    <3> HIDE DEF C
    <3> QED BY <1>1, <3>1, Zenon
  <2> QED BY <2>1
<1> HIDE DEF C
<1>6. Current("DRR", t) = c
  <2>1. t.deindex = c
    BY <1>5 DEF Served
  <2> HIDE DEF t
  <2> QED BY <1>4, <2>1, UsedRemainder DEF Current, Base
<1>7. t.drr = Deficits("DRR", s, B, C, size)
  BY DEF Served
<1> HIDE DEF t
<1>8. CASE KeepsTurn("DRR", s, B)
  <2>1. c = cur
    BY <1>1, <1>5, <1>8 DEF ChoiceDRR
  <2>2. t.drr = [s.drr EXCEPT ![c] = @ - size]
    BY <1>7, <1>8, <2>1 DEF Deficits
  <2>3. t.drr[c] = s.drr[c] - size /\ \A q \in B \ {c} : t.drr[q] = s.drr[q]
    BY <1>2, <1>3, <1>4, <2>2
  <2> QED BY <1>4, <1>5, <1>6, <2>1, <2>3 DEF C, t
<1>9. CASE ~KeepsTurn("DRR", s, B)
  <2>1. C = Nearest("DRR", s, B)
    <3>1. Solvent("DRR", s, B) = B
      BY <1>2, SettledSolvent DEF Solvent
    <3> QED BY <1>1, <1>9, <3>1 DEF ChoiceDRR
  <2>2. \A q \in B : Position("DRR", s, c) <= Position("DRR", s, q)
    BY <1>5, <2>1 DEF Nearest
  <2>3. \A q \in B \ {c} : Before(cur, c, q)
    BY <1>4, <2>2, PositionBefore
  <2>4. \A q \in UsedQueues : Position("DRR", s, q) \in Int
    BY PositionFrom, SchedulerAssumption DEF UsedQueues
  <2>5. t.drr[c] = s.drr[c] + Weight - size
    BY <1>2, <1>4, <1>5, <1>7, <1>9 DEF Deficits
  <2>6. ASSUME NEW q \in B \ {c} PROVE t.drr[q] = s.drr[q]
    <3>1. t.drr[q] = IF \A r \in C : Position("DRR", s, q) < Position("DRR", s, r)
                     THEN Forfeit(s.drr[q] + Weight)
                     ELSE IF q = cur THEN Forfeit(s.drr[q])
                     ELSE s.drr[q]
      BY <1>2, <1>5, <1>7, <1>9 DEF Deficits
    <3>2. ~(Position("DRR", s, q) < Position("DRR", s, c))
      BY <1>4, <2>2, <2>4
    <3>3. q = cur => s.drr[q] <= 0
      BY <1>2, <1>3, <1>9 DEF KeepsTurn
    <3> QED BY <1>3, <1>5, <3>1, <3>2, <3>3 DEF Forfeit
  <2> QED BY <1>4, <1>5, <1>6, <2>3, <2>5, <2>6 DEF C, t
<1> QED BY <1>8, <1>9

-----------------------------------------------------------------------------
\* The largest packet.
MaxSize == CHOOSE max \in Sizes : \A size \in Sizes : size <= max

LEMMA MaxSizeExists ==
    ASSUME \A size \in Sizes : size <= Weight
    PROVE  /\ MaxSize \in Sizes /\ MaxSize \in Nat \ {0}
           /\ \A size \in Sizes : size <= MaxSize
<1> DEFINE f == [size \in Sizes |-> Weight - size]
<1>1. Sizes \in SUBSET (Nat \ {0}) /\ Sizes # {} /\ Weight \in Nat
  BY SizesPositive, SchedulerAssumption
<1>2. f \in [Sizes -> Nat]
  BY <1>1
<1>3. PICK max \in Sizes : \A size \in Sizes : f[max] <= f[size]
  <2> HIDE DEF f
  <2> QED BY <1>1, <1>2, LeastValue
<1>4. \A size \in Sizes : size <= max
  BY <1>1, <1>3
<1> QED BY <1>1, <1>4 DEF MaxSize

\* What q has been served above r, corrected by the deficits, in bytes: at most
\* a packet, and one quantum more while it is r's turn.
Balanced(q, r) ==
    lead[<<q, r>>] + sched.drr[q] - sched.drr[r]
        <= MaxSize - 1 + (IF Before(Current("DRR", sched), r, q) THEN Weight ELSE 0)

FairInv ==
    /\ IInv
    /\ lead \in [Pairs -> Int]
    /\ \A q, r \in UsedQueues :
         IF q = r \/ queue[q] = <<>> \/ queue[r] = <<>>
         THEN lead[<<q, r>>] = 0 ELSE Balanced(q, r)

\* What Settled says in terms of MaxSize.
LEMMA DeficitRange ==
    ASSUME IInv, \A size \in Sizes : size <= Weight, NEW q \in UsedQueues
    PROVE  /\ sched.drr[q] \in Int /\ sched.drr[q] < Weight /\ sched.drr[q] > -MaxSize
           /\ q # Current(DequeueType, sched) => sched.drr[q] <= 0
<1>1. sched.drr[q] \in Int
  BY UsedQueuesAreSubQueues DEF IInv, TypeOK, SchedState
<1>2. PICK size \in Sizes : sched.drr[q] > -size
  BY DEF IInv, Settled
<1>3. size \in Nat /\ size <= MaxSize /\ MaxSize \in Nat
  BY SizesPositive, MaxSizeExists
<1> QED BY <1>1, <1>2, <1>3 DEF IInv, Settled

\* Two queues whose count has just started are balanced.
LEMMA FreshBalanced ==
    ASSUME DequeueType = "DRR", IInv, \A size \in Sizes : size <= Weight,
           NEW q \in UsedQueues, NEW r \in UsedQueues, q # r, lead[<<q, r>>] = 0
    PROVE  Balanced(q, r)
<1> DEFINE c == Current("DRR", sched)
           d == sched.drr[q]
           e == sched.drr[r]
<1>1. d \in Int /\ e \in Int /\ d < Weight /\ e > -MaxSize /\ (q # c => d <= 0)
  BY DeficitRange
<1>2. MaxSize \in Nat /\ Weight \in Nat /\ q \in Int /\ r \in Int /\ c \in UsedQueues
  BY MaxSizeExists, SchedulerAssumption, PositionFrom DEF IInv, TypeOK, UsedQueues
<1>3. q = c => Before(c, r, q)
  BY <1>2 DEF Before, UsedQueues
<1> HIDE DEF c, d, e
<1>4. d - e <= MaxSize - 1 + (IF Before(c, r, q) THEN Weight ELSE 0)
  BY <1>1, <1>2, <1>3
<1> QED BY <1>1, <1>4 DEF Balanced, c, d, e

LEMMA FairInit == DequeueType = "DRR" /\ FairnessInit => FairInv
<1> SUFFICES ASSUME FairnessInit PROVE FairInv
  OBVIOUS
<1>1. IInv
  BY InitIInv DEF FairnessInit
<1>2. lead = [p \in Pairs |-> 0] /\ \A q \in UsedQueues : queue[q] = <<>>
  BY UsedQueuesAreSubQueues DEF FairnessInit, Init
<1>3. lead \in [Pairs -> Int]
  BY <1>2
<1>4. \A q, r \in UsedQueues : lead[<<q, r>>] = 0
  BY <1>2 DEF Pairs
<1> QED BY <1>1, <1>2, <1>3, <1>4 DEF FairInv

\* A step that serves no packet: enqueues and head drops.
LEMMA QuietKeeps ==
    ASSUME DequeueType = "DRR", \A size \in Sizes : size <= Weight,
           FairInv, IInv', sched' = sched, Record(NoGain)
    PROVE  FairInv'
<1>1. /\ lead' = [p \in Pairs |->
                    IF queue'[p[1]] = <<>> \/ queue'[p[2]] = <<>> THEN 0 ELSE lead[p]]
      /\ lead \in [Pairs -> Int]
  <2>1. lead \in [Pairs -> Int]
    BY DEF FairInv
  <2>2. \A p \in Pairs : lead[p] + NoGain[p[1]] - NoGain[p[2]] = lead[p]
    BY <2>1 DEF NoGain, Pairs
  <2> QED BY <2>1, <2>2 DEF Record
<1>2. lead' \in [Pairs -> Int]
  BY <1>1
<1>3. ASSUME NEW q \in UsedQueues, NEW r \in UsedQueues
      PROVE  IF q = r \/ queue'[q] = <<>> \/ queue'[r] = <<>>
             THEN lead'[<<q, r>>] = 0 ELSE Balanced(q, r)'
  <2>1. lead'[<<q, r>>] = IF queue'[q] = <<>> \/ queue'[r] = <<>> THEN 0
                          ELSE lead[<<q, r>>]
    BY <1>1 DEF Pairs
  <2>2. IF q = r \/ queue[q] = <<>> \/ queue[r] = <<>>
        THEN lead[<<q, r>>] = 0 ELSE Balanced(q, r)
    BY DEF FairInv
  <2>3. CASE queue'[q] = <<>> \/ queue'[r] = <<>>
    BY <2>1, <2>3
  <2>4. CASE q = r /\ queue'[q] # <<>>
    BY <2>1, <2>2, <2>4
  <2>5. CASE q # r /\ queue'[q] # <<>> /\ queue'[r] # <<>>
    <3>1. Balanced(q, r)
      <4>1. CASE lead[<<q, r>>] = 0
        BY <2>5, <4>1, FreshBalanced DEF FairInv
      <4> QED BY <2>2, <2>5, <4>1
    <3>2. lead'[<<q, r>>] = lead[<<q, r>>]
      BY <2>1, <2>5
    <3> QED BY <2>5, <3>1, <3>2 DEF Balanced, Current, Base
  <2> QED BY <2>3, <2>4, <2>5
<1> QED BY <1>2, <1>3 DEF FairInv

\* A packet served changes no balance; a quantum swaps the turns.
LEMMA DequeueBalances ==
    ASSUME DequeueType = "DRR", \A size \in Sizes : size <= Weight,
           FairInv, IInv', Dequeue, Record(Gain)
    PROVE  FairInv'
<1> DEFINE B == Backlogged
           C == Choice("DRR", sched, B)
           cur == Current("DRR", sched)
<1>0. /\ IInv /\ sched \in SchedState /\ Settled("DRR", sched, Sizes)
      /\ B \in SUBSET UsedQueues /\ lead \in [Pairs -> Int] /\ Weight \in Nat
  BY SchedulerAssumption DEF FairInv, IInv, TypeOK, Backlogged
<1>1. CASE C = {}
  <2>1. B = {}
    <3>1. \A q \in UsedQueues : sched.drr[q] + Weight > 0
      BY <1>0, SizesPositive, SettledSolvent
    <3> HIDE DEF B
    <3> QED BY <1>0, <1>1, <3>1, ChoiceServes DEF DequeueTypes
  <2>2. queue' = queue
    BY <1>1 DEF Dequeue
  <2>3. \A q \in UsedQueues : queue'[q] = <<>>
    BY <2>1, <2>2 DEF Backlogged
  <2>4. lead' = [p \in Pairs |-> 0]
    BY <2>3 DEF Record, Pairs
  <2>5. lead' \in [Pairs -> Int] /\ \A q, r \in UsedQueues : lead'[<<q, r>>] = 0
    BY <2>4 DEF Pairs
  <2> QED BY <2>3, <2>5 DEF FairInv
<1>2. ASSUME NEW c \in C,
             sched' = Served(DequeueType, sched, Backlogged, C, Head(queue[c])),
             queue' = [queue EXCEPT ![c] = Tail(@)]
      PROVE  FairInv'
  <2> DEFINE size == Head(queue[c])
  <2>1. c \in B /\ c \in UsedQueues /\ c \in SubQueues /\ queue[c] # <<>>
    BY <1>2, ChoiceBacklogged, UsedQueuesAreSubQueues DEF DequeueTypes, Backlogged
  <2>2. size \in Sizes /\ size \in Int
    <3>1. size \in Sizes
      BY <1>0, <2>1, BackloggedHead DEF IInv
    <3> HIDE DEF size
    <3> QED BY <3>1, SizesPositive
  <2>3. /\ C = {c} /\ Current("DRR", sched') = c
        /\ \A q \in B \ {c} : sched'.drr[q] = sched.drr[q]
        /\ \/ c = cur /\ sched'.drr[c] = sched.drr[c] - size
           \/ /\ sched'.drr[c] = sched.drr[c] + Weight - size
              /\ \A q \in B \ {c} : Before(cur, c, q)
    <3>1. sched' = Served("DRR", sched, B, Choice("DRR", sched, B), size)
      BY <1>2
    <3> HIDE DEF size, B
    <3> QED BY <1>0, <1>2, <2>2, <3>1, SizesPositive, ServedDRR
  <2>4. Gain = [q \in UsedQueues |-> IF q = c THEN size ELSE 0]
    BY <2>3 DEF Gain
  <2>5. ASSUME NEW q \in UsedQueues, NEW r \in UsedQueues
        PROVE  /\ lead'[<<q, r>>] \in Int
               /\ lead'[<<q, r>>] = IF queue'[q] = <<>> \/ queue'[r] = <<>> THEN 0
                    ELSE lead[<<q, r>>] + (IF q = c THEN size ELSE 0)
                                        - (IF r = c THEN size ELSE 0)
    <3>1. <<q, r>> \in Pairs /\ lead[<<q, r>>] \in Int
      BY <1>0 DEF Pairs
    <3>2. lead'[<<q, r>>] = IF queue'[q] = <<>> \/ queue'[r] = <<>> THEN 0
                            ELSE lead[<<q, r>>] + Gain[q] - Gain[r]
      BY <3>1 DEF Record
    <3>3. /\ Gain[q] = IF q = c THEN size ELSE 0
          /\ Gain[r] = IF r = c THEN size ELSE 0
      BY <2>4
    <3> HIDE DEF size
    <3> QED BY <2>2, <3>1, <3>2, <3>3
  <2>6. lead' \in [Pairs -> Int]
    <3>1. lead' = [p \in Pairs |-> lead'[p]]
      BY DEF Record
    <3>2. \A p \in Pairs : lead'[p] \in Int
      BY <2>5 DEF Pairs
    <3> QED BY <3>1, <3>2
  <2>7. ASSUME NEW q \in UsedQueues, NEW r \in UsedQueues
        PROVE  IF q = r \/ queue'[q] = <<>> \/ queue'[r] = <<>>
               THEN lead'[<<q, r>>] = 0 ELSE Balanced(q, r)'
    <3>1. CASE queue'[q] = <<>> \/ queue'[r] = <<>>
      BY <2>5, <3>1
    <3>2. CASE q = r /\ queue'[q] # <<>>
      <4>1. lead[<<q, r>>] = 0
        BY <3>2 DEF FairInv
      <4>2. lead'[<<q, r>>] = lead[<<q, r>>] + (IF q = c THEN size ELSE 0)
                                             - (IF q = c THEN size ELSE 0)
        BY <2>5, <3>2
      <4> HIDE DEF size
      <4> QED BY <2>2, <3>2, <4>1, <4>2
    <3>3. CASE q # r /\ queue'[q] # <<>> /\ queue'[r] # <<>>
      <4>1. q \in B /\ r \in B
        <5>1. queue \in [SubQueues -> Seq(Sizes)]
          BY <1>0 DEF IInv, TypeOK
        <5>2. q \in SubQueues /\ r \in SubQueues
          BY UsedQueuesAreSubQueues
        <5>3. queue[q] # <<>> /\ queue[r] # <<>>
          BY <1>2, <2>1, <3>3, <5>1, <5>2
        <5> QED BY <5>3 DEF Backlogged
      <4>2. Balanced(q, r)
        BY <3>3, <4>1 DEF FairInv, Backlogged
      <4>3. lead'[<<q, r>>] = lead[<<q, r>>] + (IF q = c THEN size ELSE 0)
                                             - (IF r = c THEN size ELSE 0)
        BY <2>5, <3>3
      <4>4. /\ lead[<<q, r>>] \in Int /\ sched.drr[q] \in Int /\ sched.drr[r] \in Int
            /\ MaxSize \in Nat /\ cur \in UsedQueues
        BY <1>0, DeficitRange, MaxSizeExists, PositionFrom DEF Pairs
      <4> DEFINE Bound(b) == MaxSize - 1 + (IF b THEN Weight ELSE 0)
                 old == lead[<<q, r>>] + sched.drr[q] - sched.drr[r]
                 new == lead'[<<q, r>>] + sched'.drr[q] - sched'.drr[r]
      <4>5. old <= Bound(Before(cur, r, q))
        BY <4>2 DEF Balanced
      <4>6. q \in Nat /\ r \in Nat /\ c \in Nat /\ cur \in Nat
        BY <2>1, <4>4 DEF UsedQueues
      <4>7. new <= Bound(Before(c, r, q)) => Balanced(q, r)'
        <5>1. Current("DRR", sched)' = c
          BY <2>3 DEF Current, Base
        <5> QED BY <5>1 DEF Balanced
      <4> HIDE DEF cur, size
      <4> SUFFICES new <= Bound(Before(c, r, q))
        BY <3>3, <4>7
      <4>8. /\ q # c => sched'.drr[q] = sched.drr[q]
            /\ r # c => sched'.drr[r] = sched.drr[r]
        BY <2>3, <4>1
      <4>9. ASSUME q # c, r # c PROVE new = old
        <5>1. lead'[<<q, r>>] = lead[<<q, r>>] + 0 - 0
          BY <4>3, <4>9
        <5>2. lead'[<<q, r>>] = lead[<<q, r>>]
          <6>1. lead[<<q, r>>] \in Int
            BY <4>4
          <6> HIDE DEF old, new
          <6> QED BY <5>1, <6>1
        <5>3. sched'.drr[q] = sched.drr[q] /\ sched'.drr[r] = sched.drr[r]
          BY <4>8, <4>9
        <5> QED BY <5>2, <5>3, Zenon
      <4>10. CASE c = cur /\ sched'.drr[c] = sched.drr[c] - size
        <5>1. new = old
          <6>1. CASE q = c
            BY <2>2, <3>3, <4>3, <4>4, <4>10, <4>8, <6>1, SMTT(30)
          <6>2. CASE r = c
            BY <2>2, <3>3, <4>3, <4>4, <4>10, <4>8, <6>2, SMTT(30)
          <6>3. CASE q # c /\ r # c
            BY <4>9, <6>3
          <6> QED BY <6>1, <6>2, <6>3
        <5> QED BY <4>5, <4>10, <5>1
      <4>11. CASE /\ sched'.drr[c] = sched.drr[c] + Weight - size
                  /\ \A d \in B \ {c} : Before(cur, c, d)
        <5>1. CASE q = c
          <6>1. new = old + Weight
            BY <1>0, <2>2, <3>3, <4>3, <4>4, <4>11, <4>8, <5>1, SMTT(30)
          <6>2. Before(cur, q, r) /\ ~Before(cur, r, q) /\ Before(c, r, q)
            BY <3>3, <4>1, <4>6, <4>11, <5>1 DEF Before
          <6> HIDE DEF old, new
          <6>3. old \in Int
            BY <4>4 DEF old
          <6> QED BY <1>0, <4>4, <4>5, <6>1, <6>2, <6>3
        <5>2. CASE r = c
          <6>1. new = old - Weight
            BY <1>0, <2>2, <3>3, <4>3, <4>4, <4>11, <4>8, <5>2, SMTT(30)
          <6> HIDE DEF old, new
          <6>2. old \in Int
            BY <4>4 DEF old
          <6>3. old <= MaxSize - 1 + Weight
            BY <1>0, <4>4, <4>5, <6>2
          <6>4. new <= MaxSize - 1
            BY <1>0, <4>4, <6>1, <6>2, <6>3
          <6>5. new \in Int
            BY <1>0, <6>1, <6>2
          <6> QED BY <1>0, <4>4, <6>4, <6>5
        <5>3. CASE q # c /\ r # c
          <6>1. new = old
            BY <4>9, <5>3
          <6>2. Before(cur, c, q) /\ Before(cur, c, r)
            BY <4>1, <4>11, <5>3
          <6>3. Before(cur, r, q) => Before(c, r, q)
            BY <3>3, <4>6, <5>3, <6>2 DEF Before
          <6> HIDE DEF old, new
          <6>4. old \in Int
            BY <4>4 DEF old
          <6> QED BY <1>0, <4>4, <4>5, <6>1, <6>3, <6>4
        <5> QED BY <5>1, <5>2, <5>3
      <4> HIDE DEF new, Bound
      <4> QED BY <2>3, <4>10, <4>11 DEF cur
    <3> QED BY <3>1, <3>2, <3>3
  <2> QED BY <2>6, <2>7 DEF FairInv
<1> HIDE DEF C
<1> QED BY <1>1, <1>2 DEF Dequeue, C

LEMMA FairNext ==
    ASSUME DequeueType = "DRR", \A size \in Sizes : size <= Weight,
           FairInv, [FairnessNext]_<<vars, lead>>
    PROVE  FairInv'
<1>1. CASE Dequeue /\ Record(Gain)
  <2>1. IInv'
    BY <1>1, DequeueKeeps DEF FairInv
  <2> QED BY <1>1, <2>1, DequeueBalances
<1>2. CASE /\ \/ \E q \in SubQueues, size \in Sizes : EnqueueTos(q, size)
              \/ \E size \in Sizes : EnqueueRR(size)
              \/ \E q \in UsedQueues : DequeueTos(q)
           /\ Record(NoGain)
  <2>1. Next
    BY <1>2 DEF Next
  <2>2. IInv'
    BY <2>1, NextIInv DEF FairInv
  <2>3. sched' = sched
    BY <1>2 DEF EnqueueTos, EnqueueRR, DequeueTos
  <2> QED BY <1>2, <2>2, <2>3, QuietKeeps
<1>3. CASE UNCHANGED <<vars, lead>>
  <2>1. IInv'
    <3>1. UNCHANGED vars
      BY <1>3
    <3> QED BY <3>1, NextIInv DEF FairInv
  <2> QED BY <1>3, <2>1 DEF vars, FairInv, Balanced, Current, Base
<1> QED BY <1>1, <1>2, <1>3 DEF FairnessNext

LEMMA FairInvImplies ==
    ASSUME DequeueType = "DRR", \A size \in Sizes : size <= Weight, FairInv
    PROVE  ByteFair
<1>1. MaxSize \in Sizes /\ MaxSize \in Nat \ {0} /\ \A size \in Sizes : size <= MaxSize
  BY MaxSizeExists
<1>2. ASSUME NEW p \in Pairs PROVE lead[p] <= Weight + 2 * (MaxSize - 1)
  <2>1. PICK q \in UsedQueues, r \in UsedQueues : p = <<q, r>>
    BY DEF Pairs
  <2>2. /\ lead[<<q, r>>] \in Int /\ Weight \in Nat
        /\ Current("DRR", sched) \in UsedQueues
    BY <2>1, SchedulerAssumption, PositionFrom DEF FairInv, IInv, TypeOK
  <2>3. CASE lead[<<q, r>>] = 0
    BY <1>1, <2>1, <2>2, <2>3
  <2>4. CASE q # r /\ Balanced(q, r)
    <3> DEFINE d == sched.drr[q]
               e == sched.drr[r]
               c == Current("DRR", sched)
    <3>1. /\ d \in Int /\ e \in Int /\ d > -MaxSize /\ e < Weight
          /\ (r # c => e <= 0)
      BY DeficitRange DEF FairInv
    <3>2. lead[<<q, r>>] + d - e
             <= MaxSize - 1 + (IF Before(c, r, q) THEN Weight ELSE 0)
      BY <2>4 DEF Balanced
    <3>3. r = c => ~Before(c, r, q)
      BY <2>2, <2>4 DEF Before, UsedQueues
    <3> HIDE DEF d, e, c
    <3>4. lead[<<q, r>>] <= Weight + 2 * (MaxSize - 1)
      BY <1>1, <2>2, <3>1, <3>2, <3>3
    <3> QED BY <2>1, <3>4
  <2> QED BY <2>3, <2>4 DEF FairInv
<1> QED BY <1>1, <1>2 DEF ByteFair

\* Deficit round robin is fair in bytes for every number of queues, every mix
\* of packet sizes and every quantum of at least a packet: of two queues that
\* stay backlogged neither gets ahead by more than a quantum and two maximal
\* packets, less two bytes (DequeueDRR, multiple-queue.cc).
THEOREM ByteFairCorrect ==
    ASSUME DequeueType = "DRR", \A size \in Sizes : size <= Weight
    PROVE  FairnessSpec => []ByteFair
<1>1. FairnessInit => FairInv
  BY FairInit
<1>2. FairInv /\ [FairnessNext]_<<vars, lead>> => FairInv'
  BY FairNext
<1>3. FairInv => ByteFair
  BY FairInvImplies
<1> QED BY <1>1, <1>2, <1>3, PTL DEF FairnessSpec

=============================================================================
