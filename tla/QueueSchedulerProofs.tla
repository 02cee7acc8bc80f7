------------------------ MODULE QueueSchedulerProofs ------------------------
(***************************************************************************)
(* Facts about the operators of QueueScheduler, for every number of        *)
(* sub-queues, quantum and discipline.                                     *)
(***************************************************************************)
EXTENDS QueueScheduler, ByteCountProofs

LEMMA UsedQueuesAreSubQueues == UsedQueues \subseteq SubQueues
  BY SchedulerAssumption DEF UsedQueues, SubQueues

\* Dequeue() only ever serves a queue that has a packet.
LEMMA ChoiceBacklogged ==
    ASSUME NEW type \in DequeueTypes, NEW s, NEW B
    PROVE  Choice(type, s, B) \subseteq B
<1>1. \A S : Nearest(type, s, S) \subseteq S /\ Lowest(S) \subseteq S
  BY DEF Nearest, Lowest
<1>2. ChoiceDRR(type, s, B) \subseteq B
  BY <1>1 DEF ChoiceDRR, KeepsTurn, Solvent
<1>3. CASE type = "RR"
  BY <1>1, <1>3 DEF Choice
<1>4. CASE type = "PQ"
  BY <1>1, <1>4 DEF Choice
<1>5. CASE type = "DRR"
  BY <1>2, <1>5 DEF Choice
<1>6. CASE type = "PQDRR"
  <2>1. Choice(type, s, B) = IF B \cap Strict(type) # {} THEN Lowest(B \cap Strict(type))
                       ELSE ChoiceDRR(type, s, B)
    BY <1>6 DEF Choice
  <2> QED BY <1>1, <1>2, <2>1
<1>7. CASE type = "WRR"
  BY <1>7 DEF Choice
<1> QED BY <1>3, <1>4, <1>5, <1>6, <1>7 DEF DequeueTypes

LEMMA InitSchedType == InitSched \in SchedState
  BY SchedulerAssumption DEF InitSched, SchedState, SubQueues

LEMMA ServedType ==
    ASSUME NEW type, NEW s \in SchedState, NEW B, NEW C \in SUBSET UsedQueues,
           NEW size \in Nat
    PROVE  Served(type, s, B, C, size) \in SchedState
<1>1. /\ s.deindex \in SubQueues /\ s.drrIndex \in SubQueues \cup {2}
      /\ s.drr \in [SubQueues -> Int] /\ Weight \in Int
  BY SchedulerAssumption DEF SchedState
<1>2. Deficits(type, s, B, C, size) \in [SubQueues -> Int]
  <2>1. CASE KeepsTurn(type, s, B)
    <3>1. ASSUME NEW d \in [SubQueues -> Int], NEW i
          PROVE  [d EXCEPT ![i] = d[i] - size] \in [SubQueues -> Int]
      <4>1. CASE i \in SubQueues
        <5>1. d[i] - size \in Int
          BY <4>1
        <5> QED BY <5>1
      <4>2. CASE i \notin SubQueues
        BY <4>2
      <4> QED BY <4>1, <4>2
    <3>2. Deficits(type, s, B, C, size)
            = [s.drr EXCEPT ![Current(type, s)] = s.drr[Current(type, s)] - size]
      BY <2>1 DEF Deficits
    <3> QED BY <1>1, <3>1, <3>2
  <2>2. CASE ~KeepsTurn(type, s, B)
    <3>1. \A d \in Int : Forfeit(d) \in Int
      BY DEF Forfeit
    <3>2. \A q \in SubQueues : /\ s.drr[q] \in Int
                               /\ s.drr[q] + Weight - size \in Int
                               /\ Forfeit(s.drr[q] + Weight) \in Int
                               /\ Forfeit(s.drr[q]) \in Int
      BY <1>1, <3>1
    <3> QED BY <2>2, <3>2 DEF Deficits
  <2> QED BY <2>1, <2>2
<1> DEFINE last == IF C = {} THEN s.deindex ELSE CHOOSE q \in C : TRUE
<1>3. last \in SubQueues
  <2>1. C # {} => (CHOOSE q \in C : TRUE) \in C
    OBVIOUS
  <2> QED BY <1>1, <2>1, UsedQueuesAreSubQueues
<1> QED BY <1>1, <1>2, <1>3 DEF Served, SchedState

-----------------------------------------------------------------------------
(* A backlogged queue is always served.                                    *)

LEMMA NearestExists ==
    ASSUME NEW type, NEW s, Base(type, s) \in Int,
           NEW S \in SUBSET UsedQueues, S # {}
    PROVE  Nearest(type, s, S) # {}
<1> DEFINE f == [q \in S |-> Position(type, s, q)]
<1>1. \A q \in S : Position(type, s, q) \in Nat
  <2> SUFFICES ASSUME NEW q \in S PROVE Position(type, s, q) \in Nat
    OBVIOUS
  <2>1. q - Base(type, s) - 1 \in Int /\ UseqCnt \in Nat \ {0}
    BY SchedulerAssumption DEF UsedQueues
  <2>2. (q - Base(type, s) - 1) % UseqCnt \in 0 .. UseqCnt - 1
    BY <2>1, RemainderRange
  <2> QED BY <2>2 DEF Position
<1>2. f \in [S -> Nat]
  BY <1>1
<1>3. PICK q \in S : \A r \in S : f[q] <= f[r]
  <2> HIDE DEF f
  <2> QED BY <1>2, LeastValue
<1>4. \A r \in S : Position(type, s, q) <= Position(type, s, r)
  BY <1>3
<1> QED BY <1>4 DEF Nearest

LEMMA LowestExists ==
    ASSUME NEW S \in SUBSET Nat, S # {}
    PROVE  Lowest(S) # {}
<1> DEFINE f == [q \in S |-> q]
<1>1. f \in [S -> Nat]
  OBVIOUS
<1>2. PICK q \in S : \A r \in S : f[q] <= f[r]
  <2> HIDE DEF f
  <2> QED BY <1>1, LeastValue
<1>3. \A r \in S : q <= r
  BY <1>2
<1> QED BY <1>3 DEF Lowest

LEMMA BaseInt == \A type, s : s \in SchedState => Base(type, s) \in Int
  BY SchedulerAssumption DEF SchedState, Base, SubQueues

\* While no queue owes a whole quantum, every discipline but WRR finds a
\* packet if there is one.
LEMMA ChoiceServes ==
    ASSUME NEW type \in DequeueTypes \ {"WRR"}, NEW s \in SchedState,
           NEW B \in SUBSET UsedQueues, B # {},
           \A q \in UsedQueues : s.drr[q] + Weight > 0
    PROVE  Choice(type, s, B) # {}
<1>1. Base(type, s) \in Int /\ UsedQueues \subseteq Nat
  BY BaseInt DEF UsedQueues
<1>2. B \ Strict(type) # {} => ChoiceDRR(type, s, B) # {}
  <2>1. Solvent(type, s, B) = B \ Strict(type)
    BY DEF Solvent
  <2>2. ASSUME B \ Strict(type) # {}
        PROVE  Nearest(type, s, Solvent(type, s, B)) # {}
    BY <1>1, <2>1, <2>2, NearestExists
  <2> QED BY <2>2 DEF ChoiceDRR
<1>3. CASE type = "RR"
  BY <1>1, <1>3, NearestExists DEF Choice
<1>4. CASE type = "PQ"
  BY <1>1, <1>4, LowestExists DEF Choice
<1>5. CASE type = "DRR"
  BY <1>2, <1>5 DEF Choice, Strict
<1>6. CASE type = "PQDRR"
  <2>1. CASE B \cap Strict(type) # {}
    <3>1. Lowest(B \cap Strict(type)) # {}
      BY <1>1, <2>1, LowestExists
    <3> QED BY <1>6, <2>1, <3>1 DEF Choice
  <2>2. CASE B \cap Strict(type) = {}
    BY <1>2, <1>6, <2>2 DEF Choice
  <2> QED BY <2>1, <2>2
<1> QED BY <1>3, <1>4, <1>5, <1>6 DEF DequeueTypes

-----------------------------------------------------------------------------
(* Deficits.                                                               *)

\* The walk reaches one queue at a time.
LEMMA PositionOnce ==
    ASSUME NEW type, NEW s, Base(type, s) \in Int,
           NEW q \in UsedQueues, NEW r \in UsedQueues,
           Position(type, s, q) = Position(type, s, r)
    PROVE  q = r
<1> DEFINE a == q - Base(type, s) - 1
           b == r - Base(type, s) - 1
<1>1. UseqCnt \in Nat \ {0} /\ a \in Int /\ b \in Int
  BY SchedulerAssumption DEF UsedQueues
<1>2. a - b < UseqCnt /\ b - a < UseqCnt
  BY <1>1 DEF UsedQueues
<1>3. a % UseqCnt \in Int /\ b % UseqCnt \in Int
  BY <1>1, RemainderRange
<1>4. a % UseqCnt = b % UseqCnt
  <2>1. (a % UseqCnt) + 1 = (b % UseqCnt) + 1
    BY DEF Position
  <2> HIDE DEF a, b
  <2> QED BY <1>3, <2>1
<1>5. a = b
  <2> HIDE DEF a, b
  <2> QED BY <1>1, <1>2, <1>4, SameRemainder
<1> QED BY <1>5 DEF UsedQueues

\* A walk that serves by deficit serves the current queue, which keeps its
\* turn, or one solvent queue, or none.
LEMMA ChoiceDRRCases ==
    ASSUME NEW type, NEW s \in SchedState, NEW B \in SUBSET UsedQueues
    PROVE  IF KeepsTurn(type, s, B) THEN ChoiceDRR(type, s, B) = {Current(type, s)}
           ELSE \/ ChoiceDRR(type, s, B) = {}
                \/ \E c \in Solvent(type, s, B) : ChoiceDRR(type, s, B) = {c}
<1> SUFFICES ASSUME ~KeepsTurn(type, s, B), ChoiceDRR(type, s, B) # {}
             PROVE  \E c \in Solvent(type, s, B) : ChoiceDRR(type, s, B) = {c}
  BY DEF ChoiceDRR
<1> DEFINE N == Nearest(type, s, Solvent(type, s, B))
<1>1. ChoiceDRR(type, s, B) = N
  BY DEF ChoiceDRR
<1>2. PICK c \in N : TRUE
  BY <1>1
<1>3. N \subseteq Solvent(type, s, B) /\ N \subseteq UsedQueues
  BY DEF Nearest, Solvent
<1>4. ASSUME NEW d \in N PROVE d = c
  <2>1. /\ Position(type, s, c) <= Position(type, s, d)
        /\ Position(type, s, d) <= Position(type, s, c)
    BY <1>2, <1>4 DEF Nearest
  <2>2. Base(type, s) \in Int /\ UseqCnt \in Nat \ {0}
    BY BaseInt, SchedulerAssumption
  <2>3. c - Base(type, s) - 1 \in Int /\ d - Base(type, s) - 1 \in Int
    BY <1>2, <1>3, <1>4, <2>2 DEF UsedQueues
  <2>4. Position(type, s, c) \in Int /\ Position(type, s, d) \in Int
    BY <2>2, <2>3, RemainderRange DEF Position
  <2>5. Position(type, s, c) = Position(type, s, d)
    BY <2>1, <2>4
  <2> QED BY <1>2, <1>3, <1>4, <2>2, <2>5, PositionOnce
<1>5. N = {c}
  BY <1>2, <1>4
<1> QED BY <1>1, <1>2, <1>3, <1>5

\* What the deficits of the queues in use keep to, for packets of sizes S.
Settled(type, s, S) ==
    \A q \in UsedQueues :
        /\ q # Current(type, s) => s.drr[q] <= 0
        /\ s.drr[q] < Weight
        /\ \E size \in S : s.drr[q] > -size
        /\ type \notin {"DRR", "PQDRR"} \/ q \in Strict(type) => s.drr[q] = 0

LEMMA InitSettled ==
    ASSUME NEW type, NEW S \in SUBSET (Nat \ {0}), S # {}
    PROVE  Settled(type, InitSched, S)
<1>1. \A q \in UsedQueues : InitSched.drr[q] = 0
  BY UsedQueuesAreSubQueues DEF InitSched
<1>2. 0 < Weight
  BY SchedulerAssumption
<1>3. PICK size \in S : TRUE
  OBVIOUS
<1>4. size \in Nat \ {0}
  BY <1>3
<1>5. 0 > -size
  BY <1>4
<1>6. \E x \in S : 0 > -x
  BY <1>3, <1>5
<1> QED BY <1>1, <1>2, <1>6 DEF Settled

\* No queue owes a quantum when no packet is larger than one.
LEMMA SettledSolvent ==
    ASSUME NEW type, NEW s \in SchedState, NEW S \in SUBSET (Nat \ {0}),
           Settled(type, s, S), \A size \in S : size <= Weight
    PROVE  \A q \in UsedQueues : s.drr[q] + Weight > 0
<1> SUFFICES ASSUME NEW q \in UsedQueues PROVE s.drr[q] + Weight > 0
  OBVIOUS
<1>1. PICK size \in S : s.drr[q] > -size
  BY DEF Settled
<1>2. s.drr[q] \in Int /\ size \in Int /\ Weight \in Int /\ size <= Weight
  BY SchedulerAssumption, UsedQueuesAreSubQueues DEF SchedState
<1> QED BY <1>1, <1>2

\* A queue in use is its own remainder, so the queue served is current next.
LEMMA UsedRemainder ==
    ASSUME NEW q \in UsedQueues
    PROVE  q % UseqCnt = q
  BY SchedulerAssumption DEF UsedQueues

\* Every Dequeue() leaves the deficits settled.
LEMMA ServedSettled ==
    ASSUME NEW type \in DequeueTypes, NEW s \in SchedState,
           NEW S \in SUBSET (Nat \ {0}), Settled(type, s, S),
           NEW B \in SUBSET UsedQueues, NEW size \in Nat,
           Choice(type, s, B) # {} => size \in S
    PROVE  Settled(type, Served(type, s, B, Choice(type, s, B), size), S)
<1> DEFINE C == Choice(type, s, B)
           t == Served(type, s, B, C, size)
           byDRR == type = "DRR" \/ (type = "PQDRR" /\ B \cap Strict(type) = {})
           last == IF C = {} THEN s.deindex ELSE CHOOSE q \in C : TRUE
<1> HIDE DEF C
<1>1. /\ t.deindex = last
      /\ t.drrIndex = IF type = "PQDRR" /\ byDRR /\ C # {} THEN last ELSE s.drrIndex
      /\ t.drr = IF byDRR THEN Deficits(type, s, B, C, size) ELSE s.drr
  BY DEF Served
<1>2. /\ Weight \in Nat \ {0}
      /\ \A q \in UsedQueues : s.drr[q] \in Int
      /\ \A x \in S : x \in Nat \ {0}
  BY SchedulerAssumption, UsedQueuesAreSubQueues DEF SchedState
<1> HIDE DEF t
<1>3. CASE ~byDRR
  <2>1. t.drr = s.drr
    BY <1>1, <1>3
  <2>2. CASE type = "PQDRR"
    <3>1. Current(type, t) = Current(type, s)
      BY <1>1, <1>3, <2>2 DEF Current, Base
    <3> QED BY <2>1, <3>1 DEF Settled, C, t
  <2>3. CASE type \notin {"DRR", "PQDRR"}
    <3>1. \A q \in UsedQueues : s.drr[q] = 0
      BY <2>3 DEF Settled
    <3>2. \A q \in UsedQueues : t.drr[q] <= 0
      BY <2>1, <3>1
    <3> QED BY <2>1, <3>2 DEF Settled, C, t
  <2> QED BY <1>3, <2>2, <2>3
<1>4. CASE byDRR
  <2>1. t.drr = Deficits(type, s, B, C, size)
    BY <1>1, <1>4
  <2>2. C = ChoiceDRR(type, s, B) /\ type \in {"DRR", "PQDRR"}
    BY <1>4 DEF Choice, C
  <2>3. Current(type, t) = IF C = {} THEN Current(type, s) ELSE last % UseqCnt
    BY <1>1, <1>4, <2>2 DEF Current, Base
  <2> HIDE DEF byDRR
  <2>4. CASE KeepsTurn(type, s, B)
    <3> DEFINE c == Current(type, s)
    <3>1. C = {c} /\ c \in UsedQueues /\ c \in SubQueues /\ s.drr[c] > 0 /\ c \notin Strict(type)
      BY <2>2, <2>4, ChoiceDRRCases, UsedQueuesAreSubQueues DEF KeepsTurn
    <3>2. s.drr \in [SubQueues -> Int]
      BY DEF SchedState
    <3> HIDE DEF c
    <3>3. last = c
      BY <3>1
    <3>4. Current(type, t) = c
      BY <2>3, <3>1, <3>3, UsedRemainder
    <3>5. t.drr = [s.drr EXCEPT ![c] = @ - size]
      BY <2>1, <2>4 DEF Deficits, c
    <3>6. size \in S
      BY <3>1 DEF C
    <3>7. t.drr[c] < Weight /\ t.drr[c] > -size
      <4>1. t.drr[c] = s.drr[c] - size
        BY <3>1, <3>2, <3>5
      <4>2. s.drr[c] < Weight
        BY <3>1 DEF Settled
      <4> QED BY <1>2, <3>1, <4>1, <4>2
    <3>8. \A q \in UsedQueues \ {c} : t.drr[q] = s.drr[q]
      BY <3>2, <3>5, UsedQueuesAreSubQueues
    <3> SUFFICES Settled(type, t, S)
      BY DEF C, t
    <3> HIDE DEF last
    <3>9. \A q \in UsedQueues \ {c} :
            /\ t.drr[q] <= 0 /\ t.drr[q] < Weight /\ \E x \in S : t.drr[q] > -x
            /\ q \in Strict(type) => t.drr[q] = 0
      BY <3>8 DEF Settled, c
    <3> QED BY <2>2, <3>1, <3>4, <3>6, <3>7, <3>9 DEF Settled
  <2>5. CASE ~KeepsTurn(type, s, B)
    <3>1. C = {} \/ \E c \in Solvent(type, s, B) : C = {c}
      <4>1. \/ ChoiceDRR(type, s, B) = {}
            \/ \E c \in Solvent(type, s, B) : ChoiceDRR(type, s, B) = {c}
        BY <2>5, ChoiceDRRCases, Zenon
      <4> QED BY <2>2, <4>1
    <3>2. \A q \in UsedQueues :
            t.drr[q] = IF q \in Strict(type) THEN s.drr[q]
                       ELSE IF q \in C THEN s.drr[q] + Weight - size
                       ELSE IF \A r \in C : Position(type, s, q) < Position(type, s, r)
                            THEN Forfeit(s.drr[q] + Weight)
                       ELSE IF q = Current(type, s) THEN Forfeit(s.drr[q])
                       ELSE s.drr[q]
      BY <2>1, <2>5, UsedQueuesAreSubQueues DEF Deficits
    <3>3. ASSUME NEW q \in UsedQueues, q \notin C
          PROVE  /\ (t.drr[q] <= 0 /\ t.drr[q] >= s.drr[q]) \/ t.drr[q] = 0
                 /\ q \in Strict(type) => t.drr[q] = 0
      <4>1. s.drr[q] \in Int /\ (q # Current(type, s) => s.drr[q] <= 0)
              /\ (q \in Strict(type) => s.drr[q] = 0)
        BY <1>2, <2>2 DEF Settled
      <4>2. CASE q \in Strict(type)
        BY <3>2, <4>1, <4>2
      <4>3. CASE q \notin Strict(type)
        <5>1. \/ t.drr[q] = Forfeit(s.drr[q] + Weight)
              \/ t.drr[q] = Forfeit(s.drr[q])
              \/ q # Current(type, s) /\ t.drr[q] = s.drr[q]
          BY <3>2, <3>3, <4>3
        <5> QED BY <1>2, <4>1, <4>3, <5>1 DEF Forfeit
      <4> QED BY <4>2, <4>3
    <3>4. \A q \in UsedQueues \ C :
            /\ t.drr[q] <= 0 /\ t.drr[q] < Weight /\ \E x \in S : t.drr[q] > -x
            /\ q \in Strict(type) => t.drr[q] = 0
      <4> SUFFICES ASSUME NEW q \in UsedQueues \ C
                   PROVE  /\ t.drr[q] <= 0 /\ t.drr[q] < Weight
                          /\ \E x \in S : t.drr[q] > -x
                          /\ q \in Strict(type) => t.drr[q] = 0
        OBVIOUS
      <4>1. PICK x \in S : s.drr[q] > -x
        BY DEF Settled
      <4>2. x \in Nat \ {0} /\ s.drr[q] \in Int
        BY <1>2, <4>1
      <4>3. (t.drr[q] <= 0 /\ t.drr[q] >= s.drr[q]) \/ t.drr[q] = 0
        BY <3>3
      <4>4. q \in Strict(type) => t.drr[q] = 0
        BY <3>3
      <4>5. t.drr[q] \in Int
        BY <1>2, <3>2 DEF Forfeit
      <4>6. t.drr[q] > -x
        BY <4>1, <4>2, <4>3, <4>5
      <4>7. t.drr[q] <= 0 /\ t.drr[q] < Weight
        BY <1>2, <4>3, <4>5
      <4> QED BY <4>4, <4>6, <4>7
    <3> SUFFICES Settled(type, t, S)
      BY DEF C, t
    <3>5. CASE C = {}
      BY <2>2, <3>4, <3>5 DEF Settled
    <3>6. ASSUME NEW c \in Solvent(type, s, B), C = {c} PROVE Settled(type, t, S)
      <4>1. /\ c \in UsedQueues /\ c \notin Strict(type) /\ c \in B
            /\ s.drr[c] + Weight > 0
        BY DEF Solvent
      <4>2. Current(type, t) = c
        BY <2>3, <3>6, <4>1, UsedRemainder
      <4>3. size \in S /\ size \in Nat \ {0}
        BY <1>2, <3>6 DEF C
      <4>4. t.drr[c] = s.drr[c] + Weight - size
        BY <3>2, <3>6, <4>1
      <4>5. s.drr[c] <= 0 /\ s.drr[c] \in Int
        BY <1>2, <2>5, <4>1 DEF Settled, KeepsTurn
      <4>6. t.drr[c] < Weight /\ t.drr[c] > -size
        BY <1>2, <4>1, <4>3, <4>4, <4>5
      <4> QED BY <2>2, <3>4, <3>6, <4>1, <4>2, <4>3, <4>6 DEF Settled
    <3> QED BY <3>1, <3>5, <3>6
  <2> QED BY <2>4, <2>5
<1> QED BY <1>3, <1>4

\* A Dequeue() that finds every queue empty leaves no deficit behind.
LEMMA IdleForfeits ==
    ASSUME NEW type \in DequeueTypes, NEW s \in SchedState,
           NEW S \in SUBSET (Nat \ {0}), Settled(type, s, S),
           \A size \in S : size <= Weight
    PROVE  \A q \in UsedQueues : Served(type, s, {}, {}, 0).drr[q] = 0
<1> SUFFICES ASSUME NEW q \in UsedQueues
             PROVE  Served(type, s, {}, {}, 0).drr[q] = 0
  OBVIOUS
<1>1. s.drr[q] + Weight > 0 /\ s.drr[q] \in Int /\ Weight \in Nat /\ q \in SubQueues
  BY SettledSolvent, SchedulerAssumption, UsedQueuesAreSubQueues DEF SchedState
<1>2. type \notin {"DRR", "PQDRR"} \/ q \in Strict(type) => s.drr[q] = 0
  BY DEF Settled
<1>3. CASE type \in {"DRR", "PQDRR"}
  <2>1. Served(type, s, {}, {}, 0).drr = Deficits(type, s, {}, {}, 0)
    BY <1>3 DEF Served
  <2>2. ~KeepsTurn(type, s, {})
    BY DEF KeepsTurn
  <2>3. Deficits(type, s, {}, {}, 0)[q]
          = IF q \in Strict(type) THEN s.drr[q] ELSE Forfeit(s.drr[q] + Weight)
    BY <1>1, <2>2 DEF Deficits
  <2>4. Forfeit(s.drr[q] + Weight) = 0
    BY <1>1 DEF Forfeit
  <2> QED BY <1>2, <2>1, <2>3, <2>4
<1>4. CASE type \notin {"DRR", "PQDRR"}
  BY <1>2, <1>4 DEF Served
<1> QED BY <1>3, <1>4

=============================================================================
