--------------------------- MODULE SimulatorProofs ---------------------------
(***************************************************************************)
(* The safety of DefaultSimulatorImpl, for any delays, any number of       *)
(* threads and any number of events: the counter of unscheduled events is  *)
(* exact, an expired identifier is exactly one whose event will not run,   *)
(* the simulator implements EventQueue, and the calendar queue beside the  *)
(* event list always finds the earliest event.                             *)
(*                                                                         *)
(* The invariants rest on each other.  Remove() decrements the counter and *)
(* is sound only because IsExpired() is exact; IsExpired() is exact only   *)
(* because every event of the list lies after the clock (Ahead), which it  *)
(* does because uids grow (Fresh) and nothing is scheduled in the past.    *)
(*                                                                         *)
(* The calendar is Tidy: each event in the bucket of its day, in order,    *)
(* and none before the day the scan has come to.  Of a heap every call     *)
(* keeps what it holds; that it stays ordered is proved of every call but  *)
(* Remove(), of which it is false.                                         *)
(***************************************************************************)
EXTENDS EventLists, ByteCountProofs

-----------------------------------------------------------------------------
(* Loops.                                                                  *)

\* What every turn keeps holds after each of them.
LEMMA Along ==
    ASSUME NEW N \in Nat, NEW X, NEW f, f[0] \in X[0],
           \A n \in 1 .. N : f[n - 1] \in X[n - 1] => f[n] \in X[n]
    PROVE  \A n \in 0 .. N : f[n] \in X[n]
<1> DEFINE S == {n \in 0 .. N : f[n] \notin X[n]}
<1> SUFFICES ASSUME S # {} PROVE FALSE
  OBVIOUS
<1>1. PICK m \in S : \A y \in S : m <= y
  <2>1. S \in SUBSET Nat
    OBVIOUS
  <2> HIDE DEF S
  <2> QED BY <2>1, LeastNat
<1>2. m # 0
  OBVIOUS
<1>3. m \in 1 .. N /\ m - 1 \in 0 .. N /\ m - 1 \notin S
  BY <1>1, <1>2
<1> QED BY <1>3

\* A loop whose turn n makes step[n][u] of what it finds: all its turns.
IsLoop(f, N, U, x, step) ==
    /\ f \in [0 .. N -> U] /\ f[0] = x
    /\ \A n \in 1 .. N : f[n] = step[n][f[n - 1]]

LEMMA Iterates ==
    ASSUME NEW N \in Nat, NEW U, NEW x \in U, NEW step \in [1 .. N -> [U -> U]]
    PROVE  \E f : IsLoop(f, N, U, x, step)
<1> DEFINE Turns(m) == {f \in [0 .. m -> U] :
                          f[0] = x /\ \A n \in 1 .. m : f[n] = step[n][f[n - 1]]}
           S == {m \in 0 .. N : Turns(m) = {}}
<1>0. ASSUME S = {} PROVE \E f : IsLoop(f, N, U, x, step)
  <2>1. PICK f : f \in Turns(N)
    BY <1>0
  <2> QED BY <2>1 DEF IsLoop
<1> SUFFICES ASSUME S # {} PROVE FALSE
  BY <1>0
<1>1. PICK m \in S : \A y \in S : m <= y
  <2>1. S \in SUBSET Nat
    OBVIOUS
  <2> HIDE DEF S
  <2> QED BY <2>1, LeastNat
<1>2. CASE m = 0
  <2> DEFINE f == [n \in 0 .. 0 |-> x]
  <2>1. f \in Turns(0)
    OBVIOUS
  <2> QED BY <1>1, <1>2, <2>1
<1>3. CASE m # 0
  <2>1. m \in 1 .. N /\ m - 1 \in Nat /\ m - 1 \in 0 .. N /\ m - 1 \notin S
    <3> HIDE DEF Turns
    <3> QED BY <1>1, <1>3
  <2>2. PICK f : f \in Turns(m - 1)
    BY <2>1
  <2> DEFINE g == [n \in 0 .. m |-> IF n = m THEN step[m][f[m - 1]] ELSE f[n]]
  <2>3. /\ f \in [0 .. m - 1 -> U] /\ f[0] = x
        /\ \A n \in 1 .. m - 1 : f[n] = step[n][f[n - 1]]
    BY <2>2
  <2>4. step[m][f[m - 1]] \in U
    BY <2>1, <2>3
  <2>5. g \in [0 .. m -> U] /\ g[0] = x
    BY <2>1, <2>3, <2>4
  <2>6. ASSUME NEW n \in 1 .. m PROVE g[n] = step[n][g[n - 1]]
    <3>1. n - 1 \in 0 .. m /\ n - 1 # m /\ g[n - 1] = f[n - 1]
      BY <2>1
    <3>2. CASE n = m
      BY <3>1, <3>2
    <3>3. CASE n # m
      <4>1. n \in 1 .. m - 1 /\ g[n] = f[n]
        BY <2>1, <3>3
      <4> QED BY <2>3, <3>1, <4>1
    <3> QED BY <3>2, <3>3
  <2>7. g \in Turns(m)
    BY <2>5, <2>6
  <2> QED BY <1>1, <2>7
<1> QED BY <1>2, <1>3

\* As many numbers as their last.
LEMMA UpTo ==
    \A n \in Nat : IsFiniteSet(1 .. n) /\ Cardinality(1 .. n) = n
<1> SUFFICES ASSUME NEW n \in Nat PROVE IsFiniteSet(1 .. n) /\ Cardinality(1 .. n) = n
  OBVIOUS
<1> DEFINE k == IF 1 > n THEN 0 ELSE n - 1 + 1
<1>1. 1 \in Int /\ n \in Int
  OBVIOUS
<1>2. k = n
  OBVIOUS
<1>3. IsFiniteSet(1 .. n) /\ Cardinality(1 .. n) = k
  BY <1>1, FS_Interval, Zenon
<1> HIDE DEF k
<1> QED BY <1>2, <1>3

\* Keys order events, and no two alike.
LEMMA BeforeOrder ==
    \A a, b, c \in Event :
        /\ ~Before(a, a)
        /\ Before(a, b) => ~Before(b, a)
        /\ Before(a, b) /\ Before(b, c) => Before(a, c)
        /\ a # b => Before(a, b) \/ Before(b, a)
<1> SUFFICES ASSUME NEW a \in Event, NEW b \in Event, NEW c \in Event
             PROVE  /\ ~Before(a, a)
                    /\ Before(a, b) => ~Before(b, a)
                    /\ Before(a, b) /\ Before(b, c) => Before(a, c)
                    /\ a # b => Before(a, b) \/ Before(b, a)
  OBVIOUS
<1>1. /\ a.ts \in Nat /\ a.uid \in Nat /\ b.ts \in Nat /\ b.uid \in Nat
      /\ c.ts \in Nat /\ c.uid \in Nat
      /\ (a.ts = b.ts /\ a.uid = b.uid => a = b)
  BY DEF Event
<1> QED BY <1>1 DEF Before

\* A set of events that is not empty has an earliest one.
LEMMA EarliestExists ==
    ASSUME NEW T \in SUBSET Event, T # {}
    PROVE  \E e \in T : \A f \in T \ {e} : Before(e, f)
<1>0. \A e \in T : e.ts \in Nat /\ e.uid \in Nat
  BY DEF Event
<1> DEFINE times == {e.ts : e \in T}
<1>1. PICK t \in times : \A y \in times : t <= y
  <2>1. times \in SUBSET Nat /\ times # {}
    BY <1>0
  <2> HIDE DEF times
  <2> QED BY <2>1, LeastNat
<1> DEFINE first == {e \in T : e.ts = t}
           uids == {e.uid : e \in first}
<1>2. PICK u \in uids : \A y \in uids : u <= y
  <2>1. uids \in SUBSET Nat /\ uids # {}
    BY <1>0
  <2> HIDE DEF uids
  <2> QED BY <2>1, LeastNat
<1>3. PICK e \in first : e.uid = u
  OBVIOUS
<1>4. ASSUME NEW f \in T \ {e} PROVE Before(e, f)
  <2>1. e.ts <= f.ts /\ (f.ts = t => e.uid <= f.uid)
    BY <1>1, <1>2, <1>3
  <2>2. Before(e, f) \/ Before(f, e)
    BY <1>3, BeforeOrder
  <2> QED BY <1>0, <1>3, <2>1, <2>2 DEF Before
<1> QED BY <1>3, <1>4

\* A loop in which turn n leads from X[n - 1] to X[n].
Unrolled(f, N, X, x, step) ==
    /\ f = [n \in 0 .. N |-> f[n]] /\ f[0] = x
    /\ \A n \in 0 .. N : f[n] \in X[n]
    /\ \A n \in 1 .. N : f[n] = step[n][f[n - 1]]

LEMMA Unrolls ==
    ASSUME NEW N \in Nat, NEW X, NEW x \in X[0], NEW step,
           \A n \in 1 .. N : \A d \in X[n - 1] : step[n][d] \in X[n]
    PROVE  \E f : Unrolled(f, N, X, x, step)
<1> DEFINE U == UNION {X[n] : n \in 0 .. N}
           g == [n \in 1 .. N |-> [d \in U |-> IF d \in X[n - 1] THEN step[n][d] ELSE x]]
<1>1. x \in U
  OBVIOUS
<1>2. \A n \in 1 .. N : \A d \in X[n - 1] : step[n][d] \in U
  OBVIOUS
<1> HIDE DEF U
<1>3. g \in [1 .. N -> [U -> U]]
  BY <1>1, <1>2
<1>4. PICK f : IsLoop(f, N, U, x, g)
  <2> HIDE DEF g
  <2> QED BY <1>1, <1>3, Iterates
<1>5. ASSUME NEW n \in 1 .. N, f[n - 1] \in X[n - 1]
      PROVE  f[n] = step[n][f[n - 1]] /\ f[n] \in X[n]
  <2>1. n - 1 \in 0 .. N /\ f[n - 1] \in U /\ f[n] = g[n][f[n - 1]]
    BY <1>4 DEF IsLoop
  <2> QED BY <1>5, <2>1
<1>6. \A n \in 0 .. N : f[n] \in X[n]
  <2>1. f[0] \in X[0]
    BY <1>4 DEF IsLoop
  <2> QED BY <1>5, <2>1, Along
<1>7. \A n \in 1 .. N : f[n] = step[n][f[n - 1]]
  <2>1. \A n \in 1 .. N : n - 1 \in 0 .. N
    OBVIOUS
  <2> QED BY <1>5, <1>6, <2>1
<1>8. f = [n \in 0 .. N |-> f[n]] /\ f[0] = x
  BY <1>4 DEF IsLoop
<1> QED BY <1>6, <1>7, <1>8 DEF Unrolled

-----------------------------------------------------------------------------
(* The simulator.                                                          *)

Known == events \cup ids

\* Every uid in use has been handed out, and to one event only.
Fresh ==
    /\ \A e \in Known : e.uid < uid
    /\ cur.uid < uid
    /\ \A u \in cancelled : u < uid
Unique == \A e, f \in Known : e.uid = f.uid => e = f

\* Every event of the list is still to come.
Ahead == \A e \in events : Before(cur, e)

IInv ==
    /\ TypeOK /\ UnscheduledExact
    /\ Fresh /\ Unique /\ Ahead
    /\ ExpiredExact

-----------------------------------------------------------------------------
LEMMA InitIInv == Init => IInv
<1> SUFFICES ASSUME Init PROVE IInv
  OBVIOUS
<1>1. IsFiniteSet(events) /\ Cardinality(events) = 0
  BY FS_EmptySet DEF Init
<1>2. TypeOK
  <2>1. inbox \in Seq(Nat) /\ cur \in Event /\ cancelled \subseteq Nat
    BY DEF Init, Event, INVALID
  <2>2. events \subseteq Event /\ ids \subseteq Event
    BY DEF Init
  <2>3. stop \in BOOLEAN /\ inboxEmpty \in BOOLEAN /\ holder \in Threads \cup {Nobody}
        /\ pc \in Places
    BY DEF Init, Places
  <2>4. uid \in Nat /\ uid >= VALID /\ unscheduled \in Nat
    BY DEF Init, VALID
  <2> QED BY <1>1, <2>1, <2>2, <2>3, <2>4 DEF TypeOK
<1>3. UnscheduledExact
  BY <1>1 DEF Init, UnscheduledExact
<1>4. Fresh /\ Unique /\ Ahead /\ ExpiredExact
  BY DEF Init, Fresh, Unique, Ahead, ExpiredExact, Known, INVALID, VALID
<1> QED BY <1>2, <1>3, <1>4 DEF IInv

\* New events, numbered from uid on, may join the list.
LEMMA AddedKeeps ==
    ASSUME IInv, NEW S, S \subseteq Event, IsFiniteSet(S), NEW n \in Nat,
           Cardinality(S) = n,
           \A e \in S : e.ts >= cur.ts /\ e.uid >= uid /\ e.uid < uid + n,
           \A e, f \in S : e.uid = f.uid => e = f,
           events' = events \cup S,
           ids' = ids \/ ids' = ids \cup S,
           uid' = uid + n, unscheduled' = unscheduled + n,
           UNCHANGED <<cur, cancelled>>,
           pc' \in Places, stop' \in BOOLEAN, inbox' \in Seq(Nat),
           inboxEmpty' \in BOOLEAN, holder' \in Threads \cup {Nobody}
    PROVE  IInv'
<1>1. /\ events \subseteq Event /\ IsFiniteSet(events) /\ ids \subseteq Event
      /\ uid \in Nat /\ uid >= VALID /\ cur \in Event /\ unscheduled \in Nat
      /\ cancelled \subseteq Nat /\ unscheduled = Cardinality(events)
  BY DEF IInv, TypeOK, UnscheduledExact
<1>2. Fresh /\ Unique /\ Ahead /\ ExpiredExact
  BY DEF IInv
<1>3. \A e \in Event : e.ts \in Nat /\ e.uid \in Nat
  BY DEF Event
<1>4. \A e \in S : e \notin Known /\ e.uid \notin cancelled
  BY <1>1, <1>2, <1>3 DEF Fresh
<1>5. TypeOK'
  <2>1. IsFiniteSet(events \cup S)
    BY <1>1, FS_Union
  <2> QED BY <1>1, <2>1 DEF TypeOK, VALID
<1>6. UnscheduledExact'
  <2>1. events \cap S = {}
    BY <1>4 DEF Known
  <2>2. Cardinality(events \cup S) = Cardinality(events) + Cardinality(S)
    <3>1. /\ Cardinality(events \cup S)
               = Cardinality(events) + Cardinality(S) - Cardinality(events \cap S)
          /\ Cardinality(events \cap S) = 0
      BY <1>1, <2>1, FS_Union, FS_EmptySet
    <3> QED BY <1>1, <3>1
  <2> QED BY <1>1, <2>2 DEF UnscheduledExact
<1>7. Fresh'
  BY <1>1, <1>2, <1>3 DEF Fresh, Known
<1>8. Unique'
  <2> SUFFICES ASSUME NEW e \in Known', NEW f \in Known', e.uid = f.uid PROVE e = f
    BY DEF Unique
  <2>1. (e \in Known \/ e \in S) /\ (f \in Known \/ f \in S)
    BY DEF Known
  <2>2. \A g \in Known : g.uid < uid /\ g.uid \in Nat
    BY <1>1, <1>2, <1>3 DEF Fresh, Known
  <2>3. \A g \in S : g.uid >= uid /\ g.uid \in Nat
    BY <1>3
  <2> QED BY <1>1, <1>2, <2>1, <2>2, <2>3 DEF Unique
<1>9. Ahead'
  <2> SUFFICES ASSUME NEW e \in events' PROVE Before(cur, e)
    BY DEF Ahead, Before
  <2>1. CASE e \in events
    BY <1>2, <2>1 DEF Ahead
  <2>2. CASE e \in S
    <3>1. cur.ts \in Nat /\ e.ts \in Nat /\ e.ts >= cur.ts
      BY <1>1, <1>3, <2>2
    <3>2. cur.uid < uid /\ uid <= e.uid /\ cur.uid \in Nat /\ e.uid \in Nat
      BY <1>1, <1>2, <1>3, <2>2 DEF Fresh
    <3> QED BY <1>1, <3>1, <3>2 DEF Before
  <2> QED BY <2>1, <2>2
<1>10. ExpiredExact'
  <2> SUFFICES ASSUME NEW id \in ids'
               PROVE  IsExpired(id)' <=> id \notin events' \/ id.uid \in cancelled'
    BY DEF ExpiredExact
  <2>1. IsExpired(id)' <=> IsExpired(id)
    BY DEF IsExpired
  <2>2. CASE id \in ids
    BY <1>2, <1>4, <2>1, <2>2 DEF ExpiredExact, Known
  <2>3. CASE id \in S
    <3>1. id.uid \notin cancelled
      BY <1>4, <2>3
    <3>2. id.ts \in Nat /\ cur.ts \in Nat /\ id.ts >= cur.ts
      BY <1>1, <1>3, <2>3
    <3>3. cur.uid < uid /\ uid <= id.uid /\ cur.uid \in Nat /\ id.uid \in Nat
      BY <1>1, <1>2, <1>3, <2>3 DEF Fresh
    <3>4. ~IsExpired(id)
      BY <1>1, <3>1, <3>2, <3>3 DEF IsExpired
    <3> QED BY <1>4, <2>1, <2>3, <3>4
  <2> QED BY <2>2, <2>3
<1> QED BY <1>5, <1>6, <1>7, <1>8, <1>9, <1>10 DEF IInv

\* An event leaves the list, and with it from the counter.
LEMMA Shrunk ==
    ASSUME IsFiniteSet(events), unscheduled = Cardinality(events),
           NEW e \in events
    PROVE  /\ IsFiniteSet(events \ {e})
           /\ unscheduled - 1 \in Nat
           /\ unscheduled - 1 = Cardinality(events \ {e})
<1>1. /\ IsFiniteSet(events \ {e})
      /\ Cardinality(events \ {e}) = Cardinality(events) - 1
  BY FS_RemoveElement
<1>2. Cardinality(events \ {e}) \in Nat
  BY <1>1, FS_CardinalityType
<1> QED BY <1>1, <1>2

-----------------------------------------------------------------------------
(* One lemma per action.                                                   *)

LEMMA ScheduleKeeps ==
    ASSUME IInv, NEW delay \in Delays, Schedule(delay)
    PROVE  IInv'
<1> DEFINE e == [ts |-> cur.ts + delay, uid |-> uid]
<1>1. /\ uid \in Nat /\ cur \in Event /\ delay \in Nat
      /\ pc \in Places /\ stop \in BOOLEAN /\ inbox \in Seq(Nat)
      /\ inboxEmpty \in BOOLEAN /\ holder \in Threads \cup {Nobody}
  BY SimulatorAssumption DEF IInv, TypeOK
<1>2. e \in Event /\ e.ts >= cur.ts /\ e.uid = uid
  BY <1>1 DEF Event
<1>3. /\ events' = events \cup {e} /\ ids' = ids \cup {e}
      /\ uid' = uid + 1 /\ unscheduled' = unscheduled + 1
      /\ UNCHANGED <<cur, stop, cancelled, pc, inbox, inboxEmpty, holder>>
  BY DEF Schedule, inter
<1> HIDE DEF e
<1>4. IsFiniteSet({e}) /\ Cardinality({e}) = 1
  BY FS_Singleton, Zenon
<1> QED BY <1>1, <1>2, <1>3, <1>4, AddedKeeps

LEMMA CancelKeeps ==
    ASSUME IInv, NEW id \in ids, Cancel(id)
    PROVE  IInv'
<1>1. id \in Event /\ id.uid \in Nat
  BY DEF IInv, TypeOK, Event
<1>2. TypeOK'
  BY <1>1 DEF Cancel, IInv, TypeOK, inter
<1>3. UnscheduledExact'
  BY DEF Cancel, IInv, UnscheduledExact
<1>4. Fresh' /\ Unique' /\ Ahead'
  BY DEF Cancel, IInv, Fresh, Unique, Ahead, Known, Before
<1>5. ExpiredExact'
  <2> SUFFICES ASSUME NEW j \in ids
               PROVE  IsExpired(j)' <=> j \notin events' \/ j.uid \in cancelled'
    BY DEF ExpiredExact, Cancel
  <2>1. j.uid = id.uid => j = id
    BY DEF IInv, Unique, Known
  <2>2. IsExpired(j) <=> j \notin events \/ j.uid \in cancelled
    BY DEF IInv, ExpiredExact
  <2> QED BY <2>1, <2>2 DEF Cancel, IsExpired
<1> QED BY <1>2, <1>3, <1>4, <1>5 DEF IInv

LEMMA RemoveKeeps ==
    ASSUME IInv, NEW id \in ids, Remove(id)
    PROVE  IInv'
<1>1. id \in Event /\ id.uid \in Nat
  BY DEF IInv, TypeOK, Event
<1>2. id \in events
  BY DEF IInv, ExpiredExact, Remove
<1>3. /\ IsFiniteSet(events \ {id}) /\ unscheduled - 1 \in Nat
      /\ unscheduled - 1 = Cardinality(events \ {id})
  BY <1>2, Shrunk DEF IInv, TypeOK, UnscheduledExact
<1>4. TypeOK' /\ UnscheduledExact'
  BY <1>1, <1>3 DEF Remove, IInv, TypeOK, UnscheduledExact, inter
<1>5. Fresh' /\ Unique' /\ Ahead'
  BY DEF Remove, IInv, Fresh, Unique, Ahead, Known, Before
<1>6. ExpiredExact'
  <2> SUFFICES ASSUME NEW j \in ids
               PROVE  IsExpired(j)' <=> j \notin events' \/ j.uid \in cancelled'
    BY DEF ExpiredExact, Remove
  <2>1. j.uid = id.uid => j = id
    BY DEF IInv, Unique, Known
  <2>2. IsExpired(j) <=> j \notin events \/ j.uid \in cancelled
    BY DEF IInv, ExpiredExact
  <2> QED BY <2>1, <2>2 DEF Remove, IsExpired
<1> QED BY <1>4, <1>5, <1>6 DEF IInv

LEMMA ProcessOneEventKeeps ==
    ASSUME IInv, NEW e \in events, ProcessOneEvent(e)
    PROVE  IInv'
<1>1. /\ events \subseteq Event /\ IsFiniteSet(events) /\ ids \subseteq Event
      /\ cur \in Event /\ unscheduled = Cardinality(events)
  BY DEF IInv, TypeOK, UnscheduledExact
<1>2. /\ events' = events \ {e} /\ unscheduled' = unscheduled - 1 /\ cur' = e
      /\ pc' \in Places
      /\ UNCHANGED <<uid, stop, cancelled, ids, inbox, inboxEmpty, holder>>
      /\ \A f \in events \ {e} : Before(e, f)
  BY DEF ProcessOneEvent, IsEarliest, inter, Places
<1>3. \A f \in Event : f.ts \in Nat /\ f.uid \in Nat
  BY DEF Event
<1>4. /\ IsFiniteSet(events \ {e}) /\ unscheduled - 1 \in Nat
      /\ unscheduled - 1 = Cardinality(events \ {e})
  BY <1>1, Shrunk
<1>5. TypeOK' /\ UnscheduledExact'
  BY <1>1, <1>2, <1>4 DEF IInv, TypeOK, UnscheduledExact
<1>6. Fresh' /\ Unique' /\ Ahead'
  BY <1>2 DEF IInv, Fresh, Unique, Ahead, Known, Before
<1>7. ExpiredExact'
  <2> SUFFICES ASSUME NEW j \in ids
               PROVE  IsExpired(j)' <=> j \notin events' \/ j.uid \in cancelled
    BY <1>2 DEF ExpiredExact
  <2>1. IsExpired(j)' <=> \/ j.ts < e.ts
                          \/ j.ts = e.ts /\ j.uid <= e.uid
                          \/ j.uid \in cancelled
    BY <1>2 DEF IsExpired
  <2>2. IsExpired(j) <=> j \notin events \/ j.uid \in cancelled
    BY DEF IInv, ExpiredExact
  <2>3. j.ts \in Nat /\ j.uid \in Nat /\ e.ts \in Nat /\ e.uid \in Nat
        /\ cur.ts \in Nat /\ cur.uid \in Nat
    BY <1>1, <1>3
  <2>4. CASE j = e
    BY <1>2, <2>1, <2>3, <2>4
  <2>5. CASE j \in events /\ j # e
    <3>1. Before(e, j)
      BY <1>2, <2>5
    <3> QED BY <1>2, <2>1, <2>3, <2>5, <3>1 DEF Before
  <2>6. CASE j \notin events
    <3>1. Before(cur, e)
      BY DEF IInv, Ahead
    <3>2. IsExpired(j)
      BY <2>2, <2>6
    <3> QED BY <1>2, <2>1, <2>3, <2>6, <3>1, <3>2 DEF Before, IsExpired
  <2> QED BY <2>4, <2>5, <2>6
<1> QED BY <1>5, <1>6, <1>7 DEF IInv

\* The events the other threads have handed over get consecutive uids.
LEMMA MovedNumbered ==
    ASSUME TypeOK
    PROVE  /\ Moved \subseteq Event
           /\ IsFiniteSet(Moved) /\ Cardinality(Moved) = Len(inbox)
           /\ Len(inbox) \in Nat
           /\ \A e \in Moved : /\ e.ts >= cur.ts /\ e.uid >= uid
                               /\ e.uid < uid + Len(inbox)
           /\ \A e, f \in Moved : e.uid = f.uid => e = f
<1> DEFINE D == 1 .. Len(inbox)
           g == [i \in D |-> [ts |-> cur.ts + inbox[i], uid |-> uid + i - 1]]
<1>1. /\ inbox \in Seq(Nat) /\ Len(inbox) \in Nat /\ DOMAIN inbox = D
      /\ \A i \in D : inbox[i] \in Nat /\ i \in Nat /\ i >= 1 /\ i <= Len(inbox)
      /\ uid \in Nat /\ cur.ts \in Nat
  BY DEF TypeOK, Event
<1>2. Moved = {[ts |-> cur.ts + inbox[i], uid |-> uid + i - 1] : i \in D}
  BY <1>1 DEF Moved
<1> HIDE DEF D
<1>3. \A e \in Moved : \E i \in D : e = [ts |-> cur.ts + inbox[i], uid |-> uid + i - 1]
  BY <1>2
<1>4. /\ Moved \subseteq Event
      /\ \A e \in Moved : /\ e.ts >= cur.ts /\ e.uid >= uid
                          /\ e.uid < uid + Len(inbox)
  <2> SUFFICES ASSUME NEW e \in Moved
               PROVE  /\ e \in Event /\ e.ts >= cur.ts /\ e.uid >= uid
                      /\ e.uid < uid + Len(inbox)
    OBVIOUS
  <2>1. PICK i \in D : e = [ts |-> cur.ts + inbox[i], uid |-> uid + i - 1]
    BY <1>3
  <2>2. cur.ts + inbox[i] \in Nat /\ cur.ts + inbox[i] >= cur.ts
    BY <1>1, <2>1
  <2>3. uid + i - 1 \in Nat /\ uid + i - 1 >= uid /\ uid + i - 1 < uid + Len(inbox)
    BY <1>1, <2>1
  <2> QED BY <2>1, <2>2, <2>3 DEF Event
<1>5. \A e, f \in Moved : e.uid = f.uid => e = f
  <2> SUFFICES ASSUME NEW e \in Moved, NEW f \in Moved, e.uid = f.uid PROVE e = f
    OBVIOUS
  <2>1. PICK i \in D : e = [ts |-> cur.ts + inbox[i], uid |-> uid + i - 1]
    BY <1>3
  <2>2. PICK j \in D : f = [ts |-> cur.ts + inbox[j], uid |-> uid + j - 1]
    BY <1>3
  <2>3. i = j
    BY <1>1, <2>1, <2>2
  <2> QED BY <2>1, <2>2, <2>3
<1>6. IsFiniteSet(D) /\ Cardinality(D) = Len(inbox)
  BY <1>1, UpTo, Zenon DEF D
<1>7. g \in Bijection(D, Moved)
  <2>1. g \in [D -> Moved]
    <3>1. \A i \in D : [ts |-> cur.ts + inbox[i], uid |-> uid + i - 1] \in Moved
      BY <1>2
    <3> QED BY <3>1
  <2>2. \A i, j \in D : g[i] = g[j] => i = j
    BY <1>1
  <2>3. \A e \in Moved : \E i \in D : g[i] = e
    BY <1>3
  <2> HIDE DEF g
  <2> QED BY <2>1, <2>2, <2>3 DEF Bijection, Injection, IsInjective, Surjection
<1>8. IsFiniteSet(Moved) /\ Cardinality(Moved) = Len(inbox)
  <2> HIDE DEF g
  <2>1. ExistsBijection(D, Moved)
    BY <1>7 DEF ExistsBijection
  <2> QED BY <1>6, <2>1, FS_Bijection
<1> QED BY <1>1, <1>4, <1>5, <1>8

LEMMA ProcessSwapKeeps ==
    ASSUME IInv, ProcessSwap
    PROVE  IInv'
<1>1. TypeOK
  BY DEF IInv
<1>2. /\ events' = events \cup Moved
      /\ uid' = uid + Len(inbox) /\ unscheduled' = unscheduled + Len(inbox)
      /\ UNCHANGED <<cur, cancelled, ids, holder>>
      /\ pc' \in Places /\ stop' \in BOOLEAN
      /\ inbox' \in Seq(Nat) /\ inboxEmpty' \in BOOLEAN
      /\ holder' \in Threads \cup {Nobody}
  BY <1>1 DEF ProcessSwap, TypeOK, Places
<1> QED BY <1>1, <1>2, MovedNumbered, AddedKeeps

\* The steps that touch neither the list nor what identifies its events.
LEMMA OtherKeeps ==
    ASSUME IInv, UNCHANGED <<events, uid, cur, unscheduled, cancelled, ids>>,
           pc' \in Places, stop' \in BOOLEAN, inbox' \in Seq(Nat),
           inboxEmpty' \in BOOLEAN, holder' \in Threads \cup {Nobody}
    PROVE  IInv'
<1>1. TypeOK' /\ UnscheduledExact'
  BY DEF IInv, TypeOK, UnscheduledExact
<1>2. Fresh' /\ Unique' /\ Ahead'
  BY DEF IInv, Fresh, Unique, Ahead, Known, Before
<1>3. ExpiredExact'
  BY DEF IInv, ExpiredExact, IsExpired
<1> QED BY <1>1, <1>2, <1>3 DEF IInv

\* What is left of Next when the actions above are taken out.
Other ==
    \/ Stop \/ RunCalled \/ EventReturns \/ ProcessStart \/ RunReturns
    \/ \E t \in Threads : ForeignDone(t) \/ \E delay \in Delays : ForeignPush(t, delay)

LEMMA OtherUnchanged ==
    ASSUME TypeOK, Other \/ UNCHANGED vars
    PROVE  /\ UNCHANGED <<events, uid, cur, unscheduled, cancelled, ids>>
           /\ pc' \in Places /\ stop' \in BOOLEAN /\ inbox' \in Seq(Nat)
           /\ inboxEmpty' \in BOOLEAN /\ holder' \in Threads \cup {Nobody}
<1>1. /\ pc \in Places /\ stop \in BOOLEAN /\ inbox \in Seq(Nat)
      /\ inboxEmpty \in BOOLEAN /\ holder \in Threads \cup {Nobody}
  BY DEF TypeOK
<1>2. ASSUME NEW t \in Threads, NEW delay \in Delays, ForeignPush(t, delay)
      PROVE  /\ UNCHANGED main /\ UNCHANGED inboxEmpty /\ inbox' \in Seq(Nat)
             /\ holder' = t
  BY <1>1, <1>2, SimulatorAssumption DEF ForeignPush
<1>3. ASSUME NEW t \in Threads, ForeignDone(t)
      PROVE  /\ UNCHANGED main /\ inbox' = inbox /\ inboxEmpty' \in BOOLEAN
             /\ holder' = Nobody
  BY <1>3 DEF ForeignDone
<1>4. CASE Stop \/ RunCalled \/ EventReturns \/ ProcessStart \/ RunReturns
  BY <1>1, <1>4 DEF Stop, RunCalled, EventReturns, ProcessStart, RunReturns,
                    Goto, AfterEvent, inter, Places
<1>5. CASE UNCHANGED vars
  BY <1>1, <1>5 DEF vars, main, inter
<1> QED BY <1>1, <1>2, <1>3, <1>4, <1>5 DEF Other, main

LEMMA NextIInv == IInv /\ [Next]_vars => IInv'
<1> SUFFICES ASSUME IInv, [Next]_vars PROVE IInv'
  OBVIOUS
<1>1. CASE Other \/ UNCHANGED vars
  <2>1. TypeOK
    BY DEF IInv
  <2> QED BY <1>1, <2>1, OtherUnchanged, OtherKeeps
<1> QED BY <1>1, ScheduleKeeps, CancelKeeps, RemoveKeeps, ProcessOneEventKeeps,
           ProcessSwapKeeps DEF Next, Loop, Other

LEMMA Invariance == Spec => []IInv
<1> QED BY InitIInv, NextIInv, PTL DEF Spec

-----------------------------------------------------------------------------
(* The theorems.                                                           *)

\* Every variable keeps its type; the counter never goes below zero.
THEOREM TypeCorrect == Spec => []TypeOK
<1>1. IInv => TypeOK
  BY DEF IInv
<1> QED BY <1>1, Invariance, PTL

\* The counter that Run() asserts to be zero when its list is empty is the
\* number of events in the list, at all times.
THEOREM UnscheduledCorrect == Spec => []UnscheduledExact
<1>1. IInv => UnscheduledExact
  BY DEF IInv
<1> QED BY <1>1, Invariance, PTL

\* IsExpired() is true of exactly the events that will not run any more.
THEOREM ExpiredCorrect == Spec => []ExpiredExact
<1>1. IInv => ExpiredExact
  BY DEF IInv
<1> QED BY <1>1, Invariance, PTL

-----------------------------------------------------------------------------
(* The flag read without the mutex is right because a thread in the mutex  *)
(* has put something into the inbox, and sets the flag before it leaves.   *)

FlagInv ==
    /\ holder \in Threads \cup {Nobody}
    /\ FlagExact
    /\ holder # Nobody => inbox # <<>>

LEMMA NextFlagInv == FlagInv /\ [Next]_vars => FlagInv'
<1> SUFFICES ASSUME FlagInv, [Next]_vars PROVE FlagInv'
  OBVIOUS
<1>1. ASSUME NEW t \in Threads, NEW delay \in Delays, ForeignPush(t, delay)
      PROVE  FlagInv'
  <2>1. Append(inbox, delay) # <<>>
    OBVIOUS
  <2> QED BY <1>1, <2>1, SimulatorAssumption DEF ForeignPush, FlagInv, FlagExact
<1>2. ASSUME NEW t \in Threads, ForeignDone(t)
      PROVE  FlagInv'
  BY <1>2, SimulatorAssumption DEF ForeignDone, FlagInv, FlagExact
<1>3. CASE ProcessSwap
  BY <1>3 DEF ProcessSwap, FlagInv, FlagExact
<1>4. CASE \/ UNCHANGED inter
  BY <1>4 DEF inter, FlagInv, FlagExact
<1>5. Next /\ ~ProcessSwap =>
        \/ UNCHANGED inter
        \/ \E t \in Threads : ForeignDone(t) \/ \E delay \in Delays : ForeignPush(t, delay)
  BY DEF Next, Loop, Schedule, Cancel, Remove, Stop, RunCalled, EventReturns,
         ProcessStart, ProcessOneEvent, RunReturns, Goto
<1>6. CASE UNCHANGED vars
  BY <1>6 DEF vars, inter, FlagInv, FlagExact
<1> QED BY <1>1, <1>2, <1>3, <1>4, <1>5, <1>6

\* Whenever nobody is in the mutex, the flag that Run() reads without it says
\* whether the inbox is empty.
THEOREM FlagCorrect == Spec => []FlagExact
<1>1. Init => FlagInv
  BY DEF Init, FlagInv, FlagExact
<1>2. FlagInv => FlagExact
  BY DEF FlagInv
<1> QED BY <1>1, <1>2, NextFlagInv, PTL DEF Spec

-----------------------------------------------------------------------------
(* The simulator implements EventQueue.                                    *)

\* The events of the list that one uid identifies.
LEMMA Alone ==
    ASSUME IInv, NEW e \in events, NEW f \in events, e.uid = f.uid
    PROVE  e = f
  BY DEF IInv, Unique, Known

LEMMA ForgetStep ==
    ASSUME IInv, NEW id \in ids, Cancel(id) \/ Remove(id)
    PROVE  Promise!Next
<1>1. id \in events /\ id.uid \notin cancelled
  BY DEF IInv, ExpiredExact, Cancel, Remove
<1>2. id \in Live /\ UNCHANGED cur
  BY <1>1 DEF Live, Cancel, Remove
<1>3. \A e \in events : e.uid = id.uid => e = id
  BY <1>1, Alone
<1>4. Live' = Live \ {id}
  BY <1>1, <1>3 DEF Live, Cancel, Remove
<1> QED BY <1>2, <1>4 DEF Promise!Next, Promise!Forget

\* New events, numbered from uid on.
LEMMA AddedStep ==
    ASSUME IInv, NEW S, S \subseteq Event,
           \A e \in S : e.ts >= cur.ts /\ e.uid >= uid,
           events' = events \cup S, UNCHANGED <<cur, cancelled>>
    PROVE  Promise!Next
<1>1. /\ events \subseteq Event /\ uid \in Nat /\ Fresh /\ cancelled \subseteq Nat
      /\ \A e \in Event : e.ts \in Nat /\ e.uid \in Nat
  BY DEF IInv, TypeOK, Event
<1>2. \A e \in S : e.uid \notin cancelled
  BY <1>1 DEF Fresh
<1>3. Live' = Live \cup S /\ Live' \subseteq Event
  BY <1>1, <1>2 DEF Live
<1>4. \A e \in S : \A f \in Live : f.uid < e.uid
  BY <1>1 DEF Fresh, Known, Live
<1>5. Promise!Event = Event
  BY DEF Promise!Event, Event
<1>6. Promise!Schedule
  BY <1>3, <1>4, <1>5 DEF Promise!Schedule
<1> QED BY <1>6 DEF Promise!Next

LEMMA ProcessOneEventStep ==
    ASSUME IInv, NEW e \in events, ProcessOneEvent(e)
    PROVE  Promise!Next
<1>1. /\ events' = events \ {e} /\ cur' = e /\ UNCHANGED cancelled
      /\ \A f \in events \ {e} : Before(e, f)
  BY DEF ProcessOneEvent, IsEarliest
<1>2. \A f \in events \cup {cur} : f.ts \in Nat /\ f.uid \in Nat
  BY DEF IInv, TypeOK, Event
<1>3. CASE e.uid \notin cancelled
  <2>1. e \in Live /\ Live' = Live \ {e} /\ cur'.ts = e.ts
    BY <1>1, <1>3 DEF Live
  <2>2. \A f \in Live \ {e} : Promise!Before(e, f)
    BY <1>1 DEF Live, Before, Promise!Before
  <2> QED BY <2>1, <2>2 DEF Promise!Next, Promise!Run
<1>4. CASE e.uid \in cancelled
  <2>1. Live' = Live
    BY <1>1, <1>4 DEF Live
  <2>2. cur'.ts \in Nat /\ cur'.ts >= cur.ts
    BY <1>1, <1>2 DEF IInv, Ahead, Before
  <2>3. \A f \in Live : cur'.ts <= f.ts
    BY <1>1, <1>2 DEF Live, Before
  <2> QED BY <2>1, <2>2, <2>3 DEF Promise!Next, Promise!Pass
<1> QED BY <1>3, <1>4

LEMMA NextStep == IInv /\ [Next]_vars => [Promise!Next]_<<Live, cur.ts>>
<1> SUFFICES ASSUME IInv, [Next]_vars PROVE [Promise!Next]_<<Live, cur.ts>>
  OBVIOUS
<1>1. CASE Other \/ UNCHANGED vars
  <2>1. TypeOK
    BY DEF IInv
  <2>2. UNCHANGED <<events, cur, cancelled>>
    BY <1>1, <2>1, OtherUnchanged
  <2> QED BY <2>2 DEF Live
<1>2. ASSUME NEW delay \in Delays, Schedule(delay)
      PROVE  Promise!Next
  <2> DEFINE e == [ts |-> cur.ts + delay, uid |-> uid]
  <2>1. uid \in Nat /\ cur.ts \in Nat /\ delay \in Nat
    BY SimulatorAssumption DEF IInv, TypeOK, Event
  <2>2. e \in Event /\ e.ts >= cur.ts /\ e.uid >= uid
    BY <2>1 DEF Event
  <2>3. events' = events \cup {e} /\ UNCHANGED <<cur, cancelled>>
    BY <1>2 DEF Schedule, inter
  <2> DEFINE S == {e}
  <2>4. S \subseteq Event /\ \A f \in S : f.ts >= cur.ts /\ f.uid >= uid
    BY <2>2
  <2>5. events' = events \cup S
    BY <2>3
  <2> HIDE DEF e, S
  <2> QED BY <2>3, <2>4, <2>5, AddedStep
<1>3. CASE ProcessSwap
  <2>1. TypeOK
    BY DEF IInv
  <2>2. events' = events \cup Moved /\ UNCHANGED <<cur, cancelled>>
    BY <1>3 DEF ProcessSwap
  <2>3. Moved \subseteq Event /\ \A e \in Moved : e.ts >= cur.ts /\ e.uid >= uid
    BY <2>1, MovedNumbered
  <2> QED BY <2>2, <2>3, AddedStep
<1> QED BY <1>1, <1>2, <1>3, ForgetStep, ProcessOneEventStep DEF Next, Loop, Other

\* The simulator keeps its promise: events run at their time, in order of time
\* and then of scheduling, and never once cancelled or removed.
THEOREM PromiseKept == Spec => KeepsPromise
<1>1. Init => Promise!Init
  BY DEF Init, Live, Promise!Init
<1>2. IInv /\ [Next]_vars => [Promise!Next]_<<Live, cur.ts>>
  BY NextStep
<1> QED BY <1>1, <1>2, Invariance, PTL DEF Spec, KeepsPromise, Promise!Spec

-----------------------------------------------------------------------------
(* The heap.                                                               *)

\* The heap h holds every event of S, once.
Lists(h, S) ==
    /\ h \in Seq(Event) /\ \A i \in 1 .. Len(h) : h[i] \in S
    /\ \A i, j \in 1 .. Len(h) : h[i] = h[j] => i = j
    /\ \A e \in S : \E i \in 1 .. Len(h) : h[i] = e

LEMMA ListsMeans ==
    ASSUME NEW S, IsFiniteSet(S), NEW h, Lists(h, S)
    PROVE  Range(h) = S /\ Len(h) = Cardinality(S)
<1>1. /\ DOMAIN h = 1 .. Len(h) /\ Len(h) \in Nat
      /\ \A i \in 1 .. Len(h) : h[i] \in S
  BY DEF Lists
<1>2. Range(h) = S
  BY <1>1 DEF Range, Lists
<1>3. h \in Bijection(1 .. Len(h), S)
  <2>1. h \in [1 .. Len(h) -> S]
    BY <1>1 DEF Lists
  <2>2. \A i, j \in 1 .. Len(h) : h[i] = h[j] => i = j
    BY DEF Lists
  <2>3. \A e \in S : \E i \in 1 .. Len(h) : h[i] = e
    BY DEF Lists
  <2> QED BY <2>1, <2>2, <2>3 DEF Bijection, Injection, IsInjective, Surjection
<1>4. IsFiniteSet(1 .. Len(h)) /\ Cardinality(1 .. Len(h)) = Len(h)
  BY <1>1, UpTo
<1>5. ExistsBijection(1 .. Len(h), S)
  BY <1>3 DEF ExistsBijection
<1>6. Cardinality(S) = Cardinality(1 .. Len(h))
  BY <1>4, <1>5, FS_Bijection
<1> QED BY <1>2, <1>4, <1>6

LEMMA MeantLists ==
    ASSUME NEW S, IsFiniteSet(S), NEW h \in Seq(Event), Range(h) = S, Len(h) = Cardinality(S)
    PROVE  Lists(h, S)
<1>1. /\ DOMAIN h = 1 .. Len(h) /\ Len(h) \in Nat
      /\ \A i \in 1 .. Len(h) : h[i] \in S
      /\ \A e \in S : \E i \in 1 .. Len(h) : h[i] = e
  BY DEF Range
<1>2. h \in [1 .. Len(h) -> S]
  BY <1>1
<1>3. IsFiniteSet(1 .. Len(h)) /\ Cardinality(1 .. Len(h)) = Len(h)
  BY <1>1, UpTo
<1>4. h \in Surjection(1 .. Len(h), S)
  BY <1>1, <1>2 DEF Surjection
<1>5. h \in Injection(1 .. Len(h), S)
  BY <1>3, <1>4, FS_SurjSameCardinalityImpliesInj
<1> QED BY <1>1, <1>2, <1>5 DEF Lists, Injection, IsInjective

LEMMA ExchIs ==
    ASSUME NEW h \in Seq(Event), NEW a \in 1 .. Len(h), NEW b \in 1 .. Len(h)
    PROVE  /\ Exch(h, a, b) \in Seq(Event) /\ Len(Exch(h, a, b)) = Len(h)
           /\ Exch(h, a, b)[a] = h[b] /\ Exch(h, a, b)[b] = h[a]
           /\ \A i \in 1 .. Len(h) : i # a /\ i # b => Exch(h, a, b)[i] = h[i]
<1>1. /\ Len(h) \in Nat /\ h[a] \in Event /\ h[b] \in Event /\ DOMAIN h = 1 .. Len(h)
  OBVIOUS
<1>2. Exch(h, a, b) \in Seq(Event) /\ Len(Exch(h, a, b)) = Len(h)
  BY <1>1, ExceptSeq DEF Exch
<1> QED BY <1>1, <1>2 DEF Exch

LEMMA ExchLists ==
    ASSUME NEW S, NEW h, Lists(h, S), NEW a \in 1 .. Len(h), NEW b \in 1 .. Len(h)
    PROVE  Lists(Exch(h, a, b), S)
<1> DEFINE g == Exch(h, a, b)
<1>1. h \in Seq(Event)
  BY DEF Lists
<1>2. /\ g \in Seq(Event) /\ Len(g) = Len(h)
      /\ g[a] = h[b] /\ g[b] = h[a]
      /\ \A i \in 1 .. Len(h) : i # a /\ i # b => g[i] = h[i]
  BY <1>1, ExchIs
<1> HIDE DEF g
<1>4. \A i, j \in 1 .. Len(h) : g[i] = g[j] => i = j
  <2>1. \A i, j \in 1 .. Len(h) : h[i] = h[j] => i = j
    BY DEF Lists
  <2> SUFFICES ASSUME NEW i \in 1 .. Len(h), NEW j \in 1 .. Len(h), g[i] = g[j]
               PROVE  i = j
    OBVIOUS
  <2>2. CASE i = a \/ i = b
    BY <1>2, <2>1, <2>2
  <2>3. CASE i # a /\ i # b
    BY <1>2, <2>1, <2>3
  <2> QED BY <2>2, <2>3
<1>5. ASSUME NEW e \in S PROVE \E i \in 1 .. Len(h) : g[i] = e
  <2>1. PICK i \in 1 .. Len(h) : h[i] = e
    BY DEF Lists
  <2>2. g[i] = e \/ g[a] = e \/ g[b] = e
    BY <1>2, <2>1
  <2> QED BY <2>2
<1>6. \A i \in 1 .. Len(h) : g[i] \in S
  BY <1>2 DEF Lists
<1> QED BY <1>2, <1>4, <1>5, <1>6 DEF Lists, g

LEMMA Halves ==
    \A i \in Nat : /\ i \div 2 \in Nat
                   /\ i >= 2 => i \div 2 >= 1 /\ i \div 2 < i
  OBVIOUS

LEMMA Doubles == \A i, j \in Nat : i \div 2 = j <=> i = 2 * j \/ i = 2 * j + 1
  OBVIOUS

Heaps(S, n) == [heap : {h \in Seq(Event) : Lists(h, S) /\ Len(h) = n}, at : 1 .. n + 1]

\* A heap in order but for the event at s.at, which may have to rise.
Rising(s) ==
    LET h == s.heap
    IN  /\ s.at \in 1 .. Len(h)
        /\ \A i \in 2 .. Len(h) : i # s.at => Before(h[i \div 2], h[i])
        /\ \A i \in 2 .. Len(h) :
             s.at >= 2 /\ i \div 2 = s.at => Before(h[s.at \div 2], h[i])

Risen(s) == s.at >= 2 => Before(s.heap[s.at \div 2], s.heap[s.at])

LEMMA RiseKeeps ==
    ASSUME NEW S, S \subseteq Event, NEW n \in Nat, NEW s \in Heaps(S, n), Rising(s)
    PROVE  /\ Rise(s) \in Heaps(S, n) /\ Rising(Rise(s))
           /\ Rise(s) = s \/ Rise(s).at < s.at
           /\ Risen(s) <=> Rise(s) = s
<1>0. PICK h \in Seq(Event), at \in 1 .. n, p \in Nat :
        h = s.heap /\ at = s.at /\ p = at \div 2
  BY Halves DEF Heaps, Rising
<1> DEFINE g == Exch(h, at, p)
<1>1. /\ Lists(h, S) /\ Len(h) = n
      /\ \A i \in 1 .. n : h[i] \in S /\ h[i] \in Event
  BY <1>0 DEF Heaps, Lists
<1>2. /\ \A i \in 2 .. n : i # at => Before(h[i \div 2], h[i])
      /\ \A i \in 2 .. n :
             at >= 2 /\ i \div 2 = at => Before(h[p], h[i])
  BY <1>0, <1>1 DEF Rising
<1>3. CASE at = 1 \/ ~Before(h[at], h[p])
  <2>1. Rise(s) = s
    BY <1>0, <1>3 DEF Rise
  <2>2. at >= 2 => p \in 1 .. n /\ p # at
    BY <1>0, <1>1, Halves
  <2>3. at >= 2 => h[p] # h[at]
    BY <1>1, <2>2 DEF Lists
  <2>4. Risen(s)
    BY <1>0, <1>1, <1>3, <2>2, <2>3, BeforeOrder DEF Risen
  <2> QED BY <2>1, <2>4
<1>4. CASE at # 1 /\ Before(h[at], h[p])
  <2>1. Rise(s) = [heap |-> g, at |-> p]
    BY <1>0, <1>4 DEF Rise
  <2>2. at \in 2 .. n /\ p \in 1 .. n /\ p < at
    BY <1>0, <1>1, <1>4, Halves
  <2>3. /\ Lists(g, S) /\ Len(g) = n
        /\ g[at] = h[p] /\ g[p] = h[at]
        /\ \A i \in 1 .. n : i # at /\ i # p => g[i] = h[i]
    <3>1. at \in 1 .. Len(h) /\ p \in 1 .. Len(h)
      BY <1>1, <2>2
    <3>2. Lists(h, S)
      BY <1>1
    <3>3. Lists(g, S)
      BY <3>1, <3>2, ExchLists
    <3>4. /\ Len(g) = Len(h)
          /\ g[at] = h[p] /\ g[p] = h[at]
          /\ \A i \in 1 .. Len(h) : i # at /\ i # p => g[i] = h[i]
      BY <3>1, <3>2, ExchIs
    <3> QED BY <1>1, <3>3, <3>4
  <2>4. Rise(s) \in Heaps(S, n)
    <3>1. g \in Seq(Event)
      BY <2>3 DEF Lists
    <3> QED BY <2>1, <2>2, <2>3, <3>1 DEF Heaps
  <2> HIDE DEF g
  <2>5. ASSUME NEW i \in 2 .. n, i # p PROVE Before(g[i \div 2], g[i])
    <3>1. i \in 1 .. n /\ i \div 2 \in 1 .. n /\ i \div 2 < i
      BY Halves
    <3>2. CASE i = at
      <4>1. g[i] = h[p] /\ g[i \div 2] = h[at]
        BY <1>0, <2>2, <2>3, <3>1, <3>2
      <4> QED BY <1>4, <4>1
    <3>3. CASE i # at /\ i \div 2 = at
      <4>1. g[i] = h[i] /\ g[i \div 2] = h[p]
        BY <2>2, <2>3, <2>5, <3>1, <3>3
      <4> QED BY <1>2, <2>2, <3>3, <4>1
    <3>4. CASE i # at /\ i \div 2 = p
      <4>1. g[i] = h[i] /\ g[i \div 2] = h[at]
        BY <2>2, <2>3, <2>5, <3>1, <3>4
      <4>2. Before(h[p], h[i])
        BY <1>2, <3>4
      <4>3. h[at] \in Event /\ h[p] \in Event /\ h[i] \in Event
        BY <1>1, <2>2, <3>1
      <4> QED BY <1>4, <4>1, <4>2, <4>3, BeforeOrder
    <3>5. CASE i # at /\ i \div 2 # at /\ i \div 2 # p
      <4>1. g[i] = h[i] /\ g[i \div 2] = h[i \div 2]
        BY <2>3, <2>5, <3>1, <3>5
      <4> QED BY <1>2, <3>5, <4>1
    <3> QED BY <3>2, <3>3, <3>4, <3>5
  <2>6. ASSUME NEW i \in 2 .. n, p >= 2, i \div 2 = p PROVE Before(g[p \div 2], g[i])
    <3>1. p \div 2 \in 1 .. n /\ p \div 2 < p /\ p \in 2 .. n /\ i # p /\ i \in 1 .. n
      BY <2>2, <2>6, Halves
    <3>2. g[p \div 2] = h[p \div 2] /\ Before(h[p \div 2], h[p])
      BY <1>2, <2>2, <2>3, <3>1
    <3>3. g[i] = h[p] \/ (g[i] = h[i] /\ Before(h[p], h[i]))
      BY <1>2, <2>3, <2>6, <3>1
    <3>4. h[p \div 2] \in Event /\ h[p] \in Event /\ h[i] \in Event
      BY <1>1, <3>1, <2>2
    <3> QED BY <3>2, <3>3, <3>4, BeforeOrder
  <2>7. Rising(Rise(s))
    <3> DEFINE r == [heap |-> g, at |-> p]
    <3>1. r.heap = g /\ r.at = p
      OBVIOUS
    <3> HIDE DEF r
    <3>2. Rising(r)
      BY <1>0, <2>2, <2>3, <2>5, <2>6, <3>1 DEF Rising
    <3> QED BY <2>1, <3>2 DEF r
  <2>8. ~Risen(s)
    BY <1>0, <1>1, <1>4, <2>2, BeforeOrder DEF Risen
  <2> QED BY <1>0, <2>1, <2>2, <2>4, <2>7, <2>8
<1> QED BY <1>3, <1>4
\* A heap in order but for the event at s.at, which may have to sink.
Sinking(s) ==
    LET h == s.heap
    IN  /\ \A i \in 2 .. Len(h) : i \div 2 # s.at => Before(h[i \div 2], h[i])
        /\ \A i \in 2 .. Len(h) :
             s.at >= 2 /\ i \div 2 = s.at => Before(h[s.at \div 2], h[i])

Sunk(s) == \A i \in 2 .. Len(s.heap) : i \div 2 = s.at => Before(s.heap[s.at], s.heap[i])

LEMMA SinkKeeps ==
    ASSUME NEW S, S \subseteq Event, NEW n \in Nat, NEW s \in Heaps(S, n)
    PROVE  /\ Sink(s) \in Heaps(S, n)
           /\ Sink(s) = s \/ Sink(s).at > s.at
           /\ Sunk(s) <=> Sink(s) = s
           /\ Sinking(s) => Sinking(Sink(s))
<1>0. PICK h \in Seq(Event), at \in 1 .. n + 1, left \in Nat :
        h = s.heap /\ at = s.at /\ left = 2 * at
  BY DEF Heaps
<1>1. /\ Lists(h, S) /\ Len(h) = n
      /\ \A i \in 1 .. n : h[i] \in S /\ h[i] \in Event
  BY <1>0 DEF Heaps, Lists
<1>2. PICK child \in Nat :
        child = IF left + 1 > n \/ Before(h[left], h[left + 1]) THEN left ELSE left + 1
  OBVIOUS
<1>3. Sink(s) = IF left > n \/ Before(h[at], h[child]) THEN s
                ELSE [heap |-> Exch(h, at, child), at |-> child]
  BY <1>0, <1>1, <1>2 DEF Sink
<1>4. left <= n => /\ child \in 2 .. n /\ child > at /\ child \div 2 = at
                   /\ at \in 1 .. n
  <2> SUFFICES ASSUME left <= n
               PROVE  /\ child \in 2 .. n /\ child > at /\ child \div 2 = at
                      /\ at \in 1 .. n
    OBVIOUS
  <2>1. left = 2 * at /\ at \in Nat /\ at >= 1
    BY <1>0
  <2>2. child = left \/ (child = left + 1 /\ left + 1 <= n)
    BY <1>2
  <2>3. child \in 2 .. n /\ child > at /\ at \in 1 .. n
    BY <2>1, <2>2
  <2>4. child \div 2 = at
    BY <2>1, <2>2, Doubles
  <2> QED BY <2>3, <2>4
<1>5. \A i \in 2 .. n : i \div 2 = at =>
        left <= n /\ (i = child \/ Before(h[child], h[i]))
  <2> SUFFICES ASSUME NEW i \in 2 .. n, i \div 2 = at
               PROVE  left <= n /\ (i = child \/ Before(h[child], h[i]))
    OBVIOUS
  <2>0. left = 2 * at /\ at \in Nat /\ i \in Nat /\ at >= 1
    BY <1>0
  <2>1. i = left \/ i = left + 1
    BY <2>0, Doubles
  <2>2. left <= n /\ left \in 1 .. n
    BY <2>0, <2>1
  <2>3. CASE child = left /\ i = left + 1
    <3>1. left + 1 \in 1 .. n
      BY <2>3
    <3> QED BY <1>2, <2>2, <2>3, <3>1
  <2>4. CASE child = left + 1 /\ i = left
    <3>1. ~Before(h[left], h[left + 1]) /\ left + 1 \in 1 .. n
      BY <1>2, <2>2, <2>4
    <3>2. h[left] # h[left + 1]
      BY <1>1, <2>2, <3>1 DEF Lists
    <3> QED BY <1>1, <2>2, <2>4, <3>1, <3>2, BeforeOrder
  <2> QED BY <1>2, <2>1, <2>2, <2>3, <2>4
<1>6. CASE left > n \/ Before(h[at], h[child])
  <2>1. Sink(s) = s
    BY <1>3, <1>6
  <2>2. ASSUME NEW i \in 2 .. n, i \div 2 = at PROVE Before(h[at], h[i])
    <3>1. left <= n /\ (i = child \/ Before(h[child], h[i]))
      BY <1>5, <2>2
    <3>2. Before(h[at], h[child]) /\ at \in 1 .. n /\ child \in 1 .. n
      BY <1>4, <1>6, <3>1
    <3> QED BY <1>1, <3>1, <3>2, BeforeOrder
  <2>3. Sunk(s)
    BY <1>0, <1>1, <2>2 DEF Sunk
  <2> QED BY <2>1, <2>3
<1>7. CASE left <= n /\ ~Before(h[at], h[child])
  <2> DEFINE g == Exch(h, at, child)
  <2>1. Sink(s) = [heap |-> g, at |-> child]
    BY <1>3, <1>7
  <2>2. at \in 1 .. n /\ child \in 1 .. n /\ child > at /\ child \in 2 .. n
        /\ child \div 2 = at
    BY <1>4, <1>7
  <2>3. /\ Lists(g, S) /\ Len(g) = n /\ g \in Seq(Event)
        /\ g[at] = h[child] /\ g[child] = h[at]
        /\ \A i \in 1 .. n : i # at /\ i # child => g[i] = h[i]
    <3>1. at \in 1 .. Len(h) /\ child \in 1 .. Len(h)
      BY <1>1, <2>2
    <3>2. Lists(g, S)
      BY <1>1, <3>1, ExchLists
    <3>3. /\ Len(g) = Len(h) /\ g \in Seq(Event)
          /\ g[at] = h[child] /\ g[child] = h[at]
          /\ \A i \in 1 .. Len(h) : i # at /\ i # child => g[i] = h[i]
      BY <3>1, ExchIs
    <3> QED BY <1>1, <3>2, <3>3
  <2>4. Sink(s) \in Heaps(S, n)
    BY <2>1, <2>2, <2>3 DEF Heaps
  <2> HIDE DEF g
  <2>5. ~Sunk(s)
    BY <1>0, <1>1, <1>7, <2>2 DEF Sunk
  <2>6. Before(h[child], h[at])
    <3>1. h[child] # h[at]
      BY <1>1, <2>2 DEF Lists
    <3> QED BY <1>1, <1>7, <2>2, <3>1, BeforeOrder
  <2>7. ASSUME Sinking(s) PROVE Sinking(Sink(s))
    <3>1. /\ \A i \in 2 .. n : i \div 2 # at => Before(h[i \div 2], h[i])
          /\ \A i \in 2 .. n :
               at >= 2 /\ i \div 2 = at => Before(h[at \div 2], h[i])
      BY <1>0, <1>1, <2>7 DEF Sinking
    <3>2. ASSUME NEW i \in 2 .. n, i \div 2 # child PROVE Before(g[i \div 2], g[i])
      <4>1. i \in 1 .. n /\ i \div 2 \in 1 .. n /\ i \div 2 < i
        BY Halves
      <4>2. CASE i = child
        <5>1. g[i] = h[at] /\ g[i \div 2] = h[child]
          BY <2>2, <2>3, <4>2
        <5> QED BY <2>6, <5>1
      <4>3. CASE i # child /\ i \div 2 = at
        <5>1. g[i] = h[i] /\ g[i \div 2] = h[child]
          BY <2>2, <2>3, <4>1, <4>3
        <5> QED BY <1>5, <4>3, <5>1
      <4>4. CASE i = at
        <5>1. g[i] = h[child] /\ g[i \div 2] = h[at \div 2]
          BY <2>2, <2>3, <3>2, <4>1, <4>4
        <5>2. at >= 2
          BY <4>4
        <5> QED BY <2>2, <3>1, <5>1, <5>2
      <4>5. CASE i # child /\ i \div 2 # at /\ i # at
        <5>1. g[i] = h[i] /\ g[i \div 2] = h[i \div 2]
          BY <2>3, <3>2, <4>1, <4>5
        <5> QED BY <3>1, <4>5, <5>1
      <4> QED BY <4>2, <4>3, <4>4, <4>5
    <3>3. ASSUME NEW i \in 2 .. n, i \div 2 = child PROVE Before(g[child \div 2], g[i])
      <4>1. i \in 1 .. n /\ i \div 2 < i
        BY Halves
      <4>2. g[i] = h[i] /\ g[child \div 2] = h[child]
        BY <2>2, <2>3, <3>3, <4>1
      <4>3. i \div 2 # at
        BY <2>2, <3>3
      <4> QED BY <3>1, <3>3, <4>2, <4>3
    <3> DEFINE r == [heap |-> g, at |-> child]
    <3>4. r.heap = g /\ r.at = child
      OBVIOUS
    <3> HIDE DEF r
    <3>5. Sinking(r)
      BY <2>3, <3>2, <3>3, <3>4 DEF Sinking
    <3> QED BY <2>1, <3>5 DEF r
  <2> QED BY <1>0, <2>1, <2>2, <2>4, <2>5, <2>7
<1> QED BY <1>6, <1>7

LEMMA BottomUpOrders ==
    ASSUME NEW S, S \subseteq Event, NEW h, Lists(h, S), Len(h) >= 1,
           \A i \in 2 .. Len(h) - 1 : Before(h[i \div 2], h[i])
    PROVE  /\ Lists(BottomUp(h), S) /\ Len(BottomUp(h)) = Len(h)
           /\ HeapOrdered(BottomUp(h))
<1> DEFINE N == Len(h)
           s0 == [heap |-> h, at |-> N]
           U == {s \in Heaps(S, N) : Rising(s)}
           risen == CHOOSE f : f = [n \in 0 .. N |->
                        IF n = 0 THEN s0 ELSE Rise(f[n - 1])]
           X == [n \in 0 .. N |-> {s \in U : s.at + n <= N \/ Risen(s)}]
<1>1. N \in Nat /\ N >= 1 /\ h \in Seq(Event)
  BY DEF Lists
<1>2. s0 \in U
  <2>1. s0.heap = h /\ s0.at = N /\ s0 \in Heaps(S, N)
    BY <1>1 DEF Heaps
  <2>2. \A i \in 2 .. N : i \div 2 # N /\ i \div 2 < i
    BY <1>1, Halves
  <2>3. Rising(s0)
    <3> HIDE DEF s0
    <3> QED BY <1>1, <2>1, <2>2 DEF Rising
  <2> QED BY <2>1, <2>3
<1>3. ASSUME NEW s \in U PROVE Rise(s) \in U
  <2> HIDE DEF N
  <2> QED BY <1>1, <1>3, RiseKeeps
<1>4. risen = [n \in 0 .. N |-> IF n = 0 THEN s0 ELSE Rise(risen[n - 1])]
  <2> DEFINE step == [n \in 1 .. N |-> [s \in U |-> Rise(s)]]
  <2> HIDE DEF N, s0, U
  <2>1. step \in [1 .. N -> [U -> U]]
    BY <1>3
  <2>2. PICK f : IsLoop(f, N, U, s0, step)
    <3> HIDE DEF step
    <3> QED BY <1>1, <1>2, <2>1, Iterates
  <2>3. ASSUME NEW n \in 1 .. N PROVE f[n] = Rise(f[n - 1])
    <3>1. n - 1 \in 0 .. N /\ f[n - 1] \in U
      BY <1>1, <2>2 DEF IsLoop
    <3>2. step[n][f[n - 1]] = Rise(f[n - 1])
      BY <3>1
    <3> QED BY <2>2, <3>2 DEF IsLoop
  <2>4. f = [n \in 0 .. N |-> IF n = 0 THEN s0 ELSE Rise(f[n - 1])]
    BY <1>1, <2>2, <2>3 DEF IsLoop
  <2> QED BY <2>4
<1>5. BottomUp(h) = risen[N].heap
  BY DEF BottomUp
<1> HIDE DEF risen
<1>6. \A n \in 0 .. N : risen[n] \in X[n]
  <2>1. risen[0] \in X[0]
    BY <1>1, <1>2, <1>4
  <2>2. ASSUME NEW n \in 1 .. N, risen[n - 1] \in X[n - 1] PROVE risen[n] \in X[n]
    <3> DEFINE s == risen[n - 1]
    <3>1. risen[n] = Rise(s) /\ n - 1 \in 0 .. N
      BY <1>1, <1>4
    <3>2. s \in U /\ (s.at + (n - 1) <= N \/ Risen(s)) /\ s.at \in Nat /\ Rise(s).at \in Nat
      BY <1>1, <1>3, <2>2, <3>1 DEF Heaps
    <3> HIDE DEF s
    <3>3. Rise(s) \in U /\ (Rise(s) = s \/ Rise(s).at < s.at) /\ (Risen(s) <=> Rise(s) = s)
      BY <1>1, <3>2, RiseKeeps
    <3>4. Rise(s).at + n <= N \/ Risen(Rise(s))
      BY <1>1, <3>2, <3>3
    <3> QED BY <3>1, <3>3, <3>4
  <2> HIDE DEF X
  <2> QED BY <1>1, <2>1, <2>2, Along
<1>7. PICK r \in U : r = risen[N] /\ Risen(r) /\ r.at \in 1 .. N
  BY <1>1, <1>6 DEF Heaps, Rising
<1>8. /\ Lists(r.heap, S) /\ Len(r.heap) = N
      /\ \A i \in 2 .. N : i # r.at => Before(r.heap[i \div 2], r.heap[i])
      /\ r.at >= 2 => Before(r.heap[r.at \div 2], r.heap[r.at])
  BY <1>1, <1>7 DEF Heaps, Rising, Risen
<1>9. HeapOrdered(r.heap)
  BY <1>1, <1>8 DEF HeapOrdered
<1> QED BY <1>5, <1>7, <1>8, <1>9

LEMMA TopDownIs ==
    ASSUME NEW S, S \subseteq Event, NEW h, Lists(h, S), NEW index \in 1 .. Len(h) + 1
    PROVE  /\ Lists(TopDown(h, index), S) /\ Len(TopDown(h, index)) = Len(h)
           /\ Sinking([heap |-> h, at |-> index]) => HeapOrdered(TopDown(h, index))
<1> DEFINE N == Len(h)
           s0 == [heap |-> h, at |-> index]
           U == Heaps(S, N)
           sunk == CHOOSE f : f = [n \in 0 .. N |->
                        IF n = 0 THEN s0 ELSE Sink(f[n - 1])]
           X == [n \in 0 .. N |->
                  {s \in U : Sinking(s0) => Sinking(s) /\ (s.at >= n + 1 \/ Sunk(s))}]
<1>1. N \in Nat /\ h \in Seq(Event)
  BY DEF Lists
<1>2. s0 \in U
  BY <1>1 DEF Heaps
<1>3. ASSUME NEW s \in U PROVE Sink(s) \in U
  <2> HIDE DEF N
  <2> QED BY <1>1, <1>3, SinkKeeps
<1>4. sunk = [n \in 0 .. N |-> IF n = 0 THEN s0 ELSE Sink(sunk[n - 1])]
  <2> DEFINE step == [n \in 1 .. N |-> [s \in U |-> Sink(s)]]
  <2> HIDE DEF N, s0, U
  <2>1. step \in [1 .. N -> [U -> U]]
    BY <1>3
  <2>2. PICK f : IsLoop(f, N, U, s0, step)
    <3> HIDE DEF step
    <3> QED BY <1>1, <1>2, <2>1, Iterates
  <2>3. ASSUME NEW n \in 1 .. N PROVE f[n] = Sink(f[n - 1])
    <3>1. n - 1 \in 0 .. N /\ f[n - 1] \in U
      BY <1>1, <2>2 DEF IsLoop
    <3>2. step[n][f[n - 1]] = Sink(f[n - 1])
      BY <3>1
    <3> QED BY <2>2, <3>2 DEF IsLoop
  <2>4. f = [n \in 0 .. N |-> IF n = 0 THEN s0 ELSE Sink(f[n - 1])]
    BY <1>1, <2>2, <2>3 DEF IsLoop
  <2> QED BY <2>4
<1>5. TopDown(h, index) = sunk[N].heap
  BY DEF TopDown
<1> HIDE DEF sunk
<1>6. \A n \in 0 .. N : sunk[n] \in X[n]
  <2>1. sunk[0] \in X[0]
    <3>1. sunk[0] = s0 /\ s0.at = index
      BY <1>1, <1>4
    <3> QED BY <1>1, <1>2, <3>1
  <2>2. ASSUME NEW n \in 1 .. N, sunk[n - 1] \in X[n - 1] PROVE sunk[n] \in X[n]
    <3> DEFINE s == sunk[n - 1]
    <3>1. sunk[n] = Sink(s) /\ n - 1 \in 0 .. N
      BY <1>1, <1>4
    <3>2. /\ s \in U /\ s.at \in Nat /\ Sink(s) \in U /\ Sink(s).at \in Nat
          /\ Sinking(s0) => Sinking(s) /\ (s.at >= n \/ Sunk(s))
      BY <1>1, <1>3, <2>2, <3>1 DEF Heaps
    <3> HIDE DEF s
    <3>3. /\ Sink(s) = s \/ Sink(s).at > s.at
          /\ Sunk(s) <=> Sink(s) = s
          /\ Sinking(s) => Sinking(Sink(s))
      BY <1>1, <3>2, SinkKeeps
    <3>4. Sinking(s0) => Sink(s).at >= n + 1 \/ Sunk(Sink(s))
      BY <1>1, <3>2, <3>3
    <3> QED BY <3>1, <3>2, <3>3, <3>4
  <2> HIDE DEF X
  <2> QED BY <1>1, <2>1, <2>2, Along
<1>7. PICK r \in U : r = sunk[N] /\ (Sinking(s0) => Sinking(r) /\ (r.at >= N + 1 \/ Sunk(r)))
  BY <1>1, <1>6
<1>8. Lists(r.heap, S) /\ Len(r.heap) = N /\ r.at \in 1 .. N + 1
  BY <1>7 DEF Heaps
<1>9. ASSUME Sinking(s0) PROVE HeapOrdered(r.heap)
  <2>1. \A i \in 2 .. N : i \div 2 # r.at => Before(r.heap[i \div 2], r.heap[i])
    BY <1>7, <1>8, <1>9 DEF Sinking
  <2>2. \A i \in 2 .. N : i \div 2 = r.at => Before(r.heap[i \div 2], r.heap[i])
    <3> SUFFICES ASSUME NEW i \in 2 .. N, i \div 2 = r.at
                 PROVE  Before(r.heap[i \div 2], r.heap[i])
      OBVIOUS
    <3>1. i \div 2 < i /\ i \div 2 <= N
      BY <1>1, Halves
    <3>2. Sunk(r)
      BY <1>1, <1>7, <1>8, <1>9, <3>1
    <3> QED BY <1>8, <3>2 DEF Sunk
  <2> QED BY <1>8, <2>1, <2>2 DEF HeapOrdered
<1> QED BY <1>5, <1>7, <1>8, <1>9

\* The root of a heap in order is the earliest event.
LEMMA RootEarliest ==
    ASSUME NEW S, S \subseteq Event, NEW h, Lists(h, S), HeapOrdered(h), S # {}
    PROVE  /\ Len(h) >= 1 /\ h[1] \in S
           /\ \A e \in S \ {h[1]} : Before(h[1], e)
<1>1. /\ Len(h) \in Nat /\ h \in Seq(Event)
      /\ \A i \in 1 .. Len(h) : h[i] \in S /\ h[i] \in Event
  BY DEF Lists
<1>2. Len(h) >= 1
  BY <1>1 DEF Lists
<1> DEFINE B == {i \in 2 .. Len(h) : ~Before(h[1], h[i])}
<1>3. B = {}
  <2> SUFFICES ASSUME B # {} PROVE FALSE
    OBVIOUS
  <2>1. PICK i \in B : \A j \in B : i <= j
    <3>1. B \in SUBSET Nat
      BY <1>1
    <3> HIDE DEF B
    <3> QED BY <3>1, LeastNat
  <2>2. i \in 2 .. Len(h) /\ i \div 2 \in 1 .. Len(h) /\ i \div 2 < i
    BY <1>1, Halves
  <2>3. Before(h[i \div 2], h[i])
    BY <2>2 DEF HeapOrdered
  <2>4. i \div 2 = 1 \/ Before(h[1], h[i \div 2])
    BY <2>1, <2>2
  <2>5. h[1] \in Event /\ h[i] \in Event /\ h[i \div 2] \in Event
    BY <1>1, <1>2, <2>2
  <2>6. Before(h[1], h[i])
    BY <2>3, <2>4, <2>5, BeforeOrder
  <2> QED BY <2>6
<1>4. ASSUME NEW e \in S \ {h[1]} PROVE Before(h[1], e)
  <2>1. PICK i \in 1 .. Len(h) : h[i] = e
    BY DEF Lists
  <2>2. i \in 2 .. Len(h)
    BY <1>1, <1>4, <2>1
  <2> QED BY <1>3, <2>1, <2>2
<1> QED BY <1>1, <1>2, <1>4

LEMMA HeapInsertIs ==
    ASSUME NEW S, S \subseteq Event, NEW h, Lists(h, S), HeapOrdered(h),
           NEW e \in Event, e \notin S
    PROVE  Lists(HeapInsert(h, e), S \cup {e}) /\ HeapOrdered(HeapInsert(h, e))
<1> DEFINE g == Append(h, e)
           T == S \cup {e}
<1>1. h \in Seq(Event) /\ Len(h) \in Nat /\ \A i \in 1 .. Len(h) : h[i] \in S
  BY DEF Lists
<1>2. /\ g \in Seq(Event) /\ Len(g) = Len(h) + 1 /\ g[Len(h) + 1] = e
      /\ \A i \in 1 .. Len(h) : g[i] = h[i]
  BY <1>1
<1> HIDE DEF g
<1>3. Lists(g, T)
  <2>1. \A i \in 1 .. Len(g) : i \in 1 .. Len(h) \/ i = Len(h) + 1
    BY <1>1, <1>2
  <2>2. \A i, j \in 1 .. Len(g) : g[i] = g[j] => i = j
    BY <1>1, <1>2, <2>1 DEF Lists
  <2>3. \A f \in T : \E i \in 1 .. Len(g) : g[i] = f
    <3> SUFFICES ASSUME NEW f \in T PROVE \E i \in 1 .. Len(g) : g[i] = f
      OBVIOUS
    <3>1. CASE f = e
      BY <1>1, <1>2, <3>1
    <3>2. CASE f \in S
      <4>1. PICK i \in 1 .. Len(h) : h[i] = f
        BY <3>2 DEF Lists
      <4> QED BY <1>1, <1>2, <4>1
    <3> QED BY <3>1, <3>2
  <2>4. \A i \in 1 .. Len(g) : g[i] \in T
    BY <1>1, <1>2, <2>1
  <2> QED BY <1>2, <2>2, <2>3, <2>4 DEF Lists
<1>4. Len(g) >= 1 /\ T \subseteq Event
  BY <1>1, <1>2
<1>5. ASSUME NEW i \in 2 .. Len(g) - 1 PROVE Before(g[i \div 2], g[i])
  <2>1. i \in 2 .. Len(h) /\ i \in 1 .. Len(h) /\ i \div 2 \in 1 .. Len(h)
    BY <1>1, <1>2, Halves
  <2> QED BY <1>2, <2>1 DEF HeapOrdered
<1> HIDE DEF T
<1>6. Lists(BottomUp(g), T) /\ HeapOrdered(BottomUp(g))
  BY <1>3, <1>4, <1>5, BottomUpOrders
<1> QED BY <1>6 DEF HeapInsert, g, T

\* The event at index leaves; if it was the root of a heap in order, order stays.
LEMMA HeapEraseIs ==
    ASSUME NEW S, S \subseteq Event, NEW h, Lists(h, S), NEW index \in 1 .. Len(h)
    PROVE  /\ Lists(HeapErase(h, index), S \ {h[index]})
           /\ HeapOrdered(h) /\ index = 1 => HeapOrdered(HeapErase(h, index))
<1> DEFINE n == Len(h)
           x == Exch(h, index, n)
           g == SubSeq(x, 1, n - 1)
           T == S \ {h[index]}
<1>1. /\ h \in Seq(Event) /\ n \in Nat /\ n >= 1 /\ n \in 1 .. Len(h)
      /\ \A i \in 1 .. n : h[i] \in S
      /\ \A i, j \in 1 .. n : h[i] = h[j] => i = j
      /\ \A e \in S : \E i \in 1 .. n : h[i] = e
  BY DEF Lists
<1>2. /\ x \in Seq(Event) /\ Len(x) = n /\ x[index] = h[n] /\ x[n] = h[index]
      /\ \A i \in 1 .. n : i # index /\ i # n => x[i] = h[i]
  <2>1. Len(h) \in 1 .. Len(h) /\ h \in Seq(Event)
    BY <1>1
  <2> QED BY <2>1, ExchIs
<1> HIDE DEF x
<1>3. /\ g \in Seq(Event) /\ Len(g) = n - 1 /\ \A i \in 1 .. n - 1 : g[i] = x[i]
  BY <1>1, <1>2
<1> HIDE DEF n, g
<1>4. Lists(g, T)
  <2>0. n = Len(h) /\ index \in 1 .. n
    BY DEF n
  <2>1. \A i \in 1 .. n - 1 : (i = index /\ g[i] = h[n]) \/ (i # index /\ g[i] = h[i])
    BY <1>1, <1>2, <1>3
  <2>2. \A i, j \in 1 .. n - 1 : g[i] = g[j] => i = j
    <3> SUFFICES ASSUME NEW i \in 1 .. n - 1, NEW j \in 1 .. n - 1, g[i] = g[j]
                 PROVE  i = j
      OBVIOUS
    <3>1. i \in 1 .. n /\ j \in 1 .. n /\ i # n /\ j # n
      BY <1>1
    <3> QED BY <1>1, <2>1, <3>1
  <2>3. \A i \in 1 .. n - 1 : g[i] \in T
    <3> SUFFICES ASSUME NEW i \in 1 .. n - 1 PROVE g[i] \in T
      OBVIOUS
    <3>1. i \in 1 .. n /\ i # n
      BY <1>1
    <3> QED BY <1>1, <2>0, <2>1, <3>1
  <2>4. \A e \in T : \E i \in 1 .. n - 1 : g[i] = e
    <3> SUFFICES ASSUME NEW e \in T PROVE \E i \in 1 .. n - 1 : g[i] = e
      OBVIOUS
    <3>1. PICK i \in 1 .. n : h[i] = e
      BY <1>1
    <3>2. i # index
      BY <3>1
    <3>3. CASE i = n
      <4>1. index \in 1 .. n - 1
        BY <1>1, <2>0, <3>2, <3>3
      <4> QED BY <2>1, <3>1, <3>3, <4>1
    <3>4. CASE i # n
      <4>1. i \in 1 .. n - 1
        BY <1>1, <3>4
      <4> QED BY <2>1, <3>1, <3>2, <4>1
    <3> QED BY <3>3, <3>4
  <2> HIDE DEF T
  <2> QED BY <1>3, <2>2, <2>3, <2>4 DEF Lists
<1>5. T \subseteq Event /\ index \in 1 .. Len(g) + 1
  BY <1>1, <1>3 DEF n
<1>6. HeapErase(h, index) = TopDown(g, index)
  BY DEF HeapErase, g, x, n
<1>7. /\ Lists(TopDown(g, index), T)
      /\ Sinking([heap |-> g, at |-> index]) => HeapOrdered(TopDown(g, index))
  <2> HIDE DEF T
  <2> QED BY <1>4, <1>5, TopDownIs
<1>8. ASSUME HeapOrdered(h), index = 1 PROVE Sinking([heap |-> g, at |-> index])
  <2> DEFINE r == [heap |-> g, at |-> index]
  <2>1. r.heap = g /\ r.at = 1
    BY <1>8
  <2>2. ASSUME NEW i \in 2 .. Len(g), i \div 2 # 1 PROVE Before(g[i \div 2], g[i])
    <3>1. i \in 2 .. n /\ i \in 1 .. n - 1 /\ i \div 2 \in 2 .. n - 1 /\ i \div 2 < i
      BY <1>1, <1>3, <2>2, Halves
    <3>2. g[i] = h[i] /\ g[i \div 2] = h[i \div 2]
      BY <1>1, <1>2, <1>3, <1>8, <3>1
    <3>3. Before(h[i \div 2], h[i])
      BY <1>8, <3>1 DEF HeapOrdered, n
    <3> QED BY <3>2, <3>3
  <2> HIDE DEF r
  <2>3. Sinking(r)
    BY <2>1, <2>2 DEF Sinking
  <2> QED BY <2>3 DEF r
<1> QED BY <1>6, <1>7, <1>8

LEMMA HeapRemoveIs ==
    ASSUME NEW S, S \subseteq Event, NEW h, Lists(h, S), NEW e \in S,
           \A f \in S : f.uid = e.uid => f = e
    PROVE  Lists(HeapRemove(h, e), S \ {e})
<1> DEFINE found == {i \in DOMAIN h : h[i].uid = e.uid}
           at == CHOOSE i \in found : TRUE
<1>1. /\ DOMAIN h = 1 .. Len(h) /\ \A i \in 1 .. Len(h) : h[i] \in S
      /\ \E i \in 1 .. Len(h) : h[i] = e
  BY DEF Lists
<1>2. found # {} /\ at \in found
  BY <1>1
<1>3. at \in 1 .. Len(h) /\ h[at] = e
  BY <1>1, <1>2
<1>4. HeapRemove(h, e) = HeapErase(h, at)
  BY <1>2 DEF HeapRemove
<1> HIDE DEF at
<1>5. Lists(HeapErase(h, at), S \ {h[at]})
  BY <1>3, HeapEraseIs
<1> QED BY <1>3, <1>4, <1>5

LEMMA HeapRemoveNextIs ==
    ASSUME NEW S, S \subseteq Event, NEW h, Lists(h, S), HeapOrdered(h),
           NEW e \in S, \A f \in S \ {e} : Before(e, f)
    PROVE  Lists(HeapRemoveNext(h), S \ {e}) /\ HeapOrdered(HeapRemoveNext(h))
<1>1. /\ Len(h) >= 1 /\ h[1] \in S
      /\ \A f \in S \ {h[1]} : Before(h[1], f)
  BY RootEarliest
<1>2. h[1] = e
  <2>1. h[1] \in Event /\ e \in Event
    BY <1>1
  <2> QED BY <1>1, <2>1, BeforeOrder
<1>3. 1 \in 1 .. Len(h)
  BY <1>1 DEF Lists
<1>4. /\ Lists(HeapErase(h, 1), S \ {h[1]})
      /\ HeapOrdered(HeapErase(h, 1))
  BY <1>3, HeapEraseIs
<1> QED BY <1>2, <1>4 DEF HeapRemoveNext

-----------------------------------------------------------------------------
(* The calendar.                                                           *)

\* The sequence s holds the events of T, the earliest first.
Sorts(s, T) ==
    /\ s \in Seq(Event) /\ \A i \in 1 .. Len(s) : s[i] \in T
    /\ \A i, j \in 1 .. Len(s) : i < j => Before(s[i], s[j])
    /\ \A e \in T : \E i \in 1 .. Len(s) : s[i] = e

With(s, p, e) == SubSeq(s, 1, p - 1) \o <<e>> \o SubSeq(s, p, Len(s))
Without(s, p) == SubSeq(s, 1, p - 1) \o SubSeq(s, p + 1, Len(s))

IsWith(r, s, p, e) ==
    /\ r \in Seq(Event) /\ Len(r) = Len(s) + 1
    /\ r[p] = e
    /\ \A i \in 1 .. p - 1 : r[i] = s[i]
    /\ \A i \in p + 1 .. Len(s) + 1 : r[i] = s[i - 1]

LEMMA WithIs ==
    ASSUME NEW s \in Seq(Event), NEW p \in 1 .. Len(s) + 1, NEW e \in Event
    PROVE  IsWith(With(s, p, e), s, p, e)
<1> DEFINE a == SubSeq(s, 1, p - 1)
           b == SubSeq(s, p, Len(s))
           c == a \o <<e>>
<1>1. Len(s) \in Nat
  OBVIOUS
<1>2. a \in Seq(Event) /\ Len(a) = p - 1 /\ \A i \in 1 .. p - 1 : a[i] = s[i]
  OBVIOUS
<1>3. /\ b \in Seq(Event) /\ Len(b) = Len(s) - p + 1
      /\ \A i \in p .. Len(s) : b[i - p + 1] = s[i]
  OBVIOUS
<1> HIDE DEF a, b
<1>4. /\ c \in Seq(Event) /\ Len(c) = p /\ c[p] = e
      /\ \A i \in 1 .. p - 1 : c[i] = s[i]
  BY <1>1, <1>2
<1> HIDE DEF c
<1>5. /\ c \o b \in Seq(Event) /\ Len(c \o b) = Len(s) + 1
      /\ \A i \in 1 .. p : (c \o b)[i] = c[i]
      /\ \A i \in p .. Len(s) : (c \o b)[i + 1] = b[i - p + 1]
  BY <1>1, <1>3, <1>4
<1>6. With(s, p, e) = c \o b
  BY DEF With, a, b, c
<1> HIDE DEF With
<1>7. /\ (c \o b)[p] = e
      /\ \A i \in 1 .. p - 1 : (c \o b)[i] = s[i]
      /\ \A i \in p .. Len(s) : (c \o b)[i + 1] = s[i]
  BY <1>3, <1>4, <1>5
<1>8. ASSUME NEW i \in p + 1 .. Len(s) + 1 PROVE (c \o b)[i] = s[i - 1]
  <2>1. i - 1 \in p .. Len(s) /\ (i - 1) + 1 = i
    BY <1>1
  <2> QED BY <1>7, <2>1
<1> QED BY <1>5, <1>6, <1>7, <1>8 DEF IsWith

LEMMA WithoutIs ==
    ASSUME NEW s \in Seq(Event), NEW p \in 1 .. Len(s)
    PROVE  /\ Without(s, p) \in Seq(Event) /\ Len(Without(s, p)) = Len(s) - 1
           /\ \A i \in 1 .. p - 1 : Without(s, p)[i] = s[i]
           /\ \A i \in p .. Len(s) - 1 : Without(s, p)[i] = s[i + 1]
<1> DEFINE a == SubSeq(s, 1, p - 1)
           b == SubSeq(s, p + 1, Len(s))
<1>1. Len(s) \in Nat
  OBVIOUS
<1>2. a \in Seq(Event) /\ Len(a) = p - 1 /\ \A i \in 1 .. p - 1 : a[i] = s[i]
  OBVIOUS
<1>3. /\ b \in Seq(Event) /\ Len(b) = Len(s) - p
      /\ \A i \in p .. Len(s) - 1 : b[i - p + 1] = s[i + 1]
  OBVIOUS
<1> HIDE DEF a, b
<1>4. /\ a \o b \in Seq(Event) /\ Len(a \o b) = Len(s) - 1
      /\ \A i \in 1 .. p - 1 : (a \o b)[i] = a[i]
      /\ \A i \in p .. Len(s) - 1 : (a \o b)[i] = b[i - p + 1]
  <2>1. /\ a \o b \in Seq(Event) /\ Len(a \o b) = Len(a) + Len(b)
        /\ \A i \in 1 .. Len(a) + Len(b) :
             (a \o b)[i] = IF i <= Len(a) THEN a[i] ELSE b[i - Len(a)]
    BY <1>2, <1>3, ConcatProperties
  <2>2. \A i \in 1 .. p - 1 : (a \o b)[i] = a[i]
    BY <1>1, <1>2, <1>3, <2>1
  <2>3. ASSUME NEW i \in p .. Len(s) - 1 PROVE (a \o b)[i] = b[i - p + 1]
    <3>1. i - Len(a) = i - p + 1 /\ i \in 1 .. Len(a) + Len(b) /\ ~(i <= Len(a))
      BY <1>1, <1>2, <1>3
    <3> QED BY <2>1, <3>1
  <2> QED BY <1>1, <1>2, <1>3, <2>1, <2>2, <2>3
<1>5. Without(s, p) = a \o b
  BY DEF Without, a, b
<1> HIDE DEF Without
<1> QED BY <1>2, <1>3, <1>4, <1>5

\* A sorted list, with an event more before the first that comes later.
LEMMA SortsMore ==
    ASSUME NEW T, T \subseteq Event, NEW s, Sorts(s, T), NEW e \in Event, e \notin T,
           NEW p \in 1 .. Len(s) + 1,
           \A i \in 1 .. p - 1 : ~Before(e, s[i]),
           p <= Len(s) => Before(e, s[p])
    PROVE  Sorts(With(s, p, e), T \cup {e})
<1> DEFINE r == With(s, p, e)
<1>1. /\ s \in Seq(Event) /\ Len(s) \in Nat
      /\ \A i \in 1 .. Len(s) : s[i] \in T /\ s[i] \in Event
      /\ \A i, j \in 1 .. Len(s) : i < j => Before(s[i], s[j])
  BY DEF Sorts
<1>2. /\ r \in Seq(Event) /\ Len(r) = Len(s) + 1 /\ r[p] = e
      /\ \A i \in 1 .. p - 1 : r[i] = s[i]
      /\ \A i \in p + 1 .. Len(s) + 1 : r[i] = s[i - 1]
  <2>1. s \in Seq(Event)
    BY <1>1
  <2>2. IsWith(r, s, p, e)
    BY <2>1, WithIs
  <2> QED BY <2>2 DEF IsWith
<1> HIDE DEF r
<1>4. \A i \in 1 .. p - 1 : Before(s[i], e)
  BY <1>1, BeforeOrder
<1>5. \A i \in p .. Len(s) : Before(e, s[i])
  <2> SUFFICES ASSUME NEW i \in p .. Len(s) PROVE Before(e, s[i])
    OBVIOUS
  <2>1. Before(e, s[p]) /\ p \in 1 .. Len(s) /\ i \in 1 .. Len(s)
    BY <1>1
  <2>2. i = p \/ Before(s[p], s[i])
    BY <1>1, <2>1
  <2> QED BY <1>1, <2>1, <2>2, BeforeOrder
<1>6. ASSUME NEW i \in 1 .. Len(r), NEW j \in 1 .. Len(r), i < j PROVE Before(r[i], r[j])
  <2>1. CASE j < p
    <3>1. i \in 1 .. p - 1 /\ j \in 1 .. p - 1 /\ i \in 1 .. Len(s) /\ j \in 1 .. Len(s)
      BY <1>1, <1>6, <2>1
    <3> QED BY <1>1, <1>2, <1>6, <3>1
  <2>2. CASE j = p
    <3>1. i \in 1 .. p - 1
      BY <1>6, <2>2
    <3> QED BY <1>2, <1>4, <2>2, <3>1
  <2>3. CASE j > p /\ i < p
    <3>1. i \in 1 .. p - 1 /\ j \in p + 1 .. Len(s) + 1
          /\ i \in 1 .. Len(s) /\ j - 1 \in 1 .. Len(s) /\ i < j - 1
      BY <1>1, <1>2, <2>3
    <3> QED BY <1>1, <1>2, <3>1
  <2>4. CASE j > p /\ i = p
    <3>1. j \in p + 1 .. Len(s) + 1 /\ j - 1 \in p .. Len(s)
      BY <1>1, <1>2, <2>4
    <3> QED BY <1>2, <1>5, <2>4, <3>1
  <2>5. CASE j > p /\ i > p
    <3>1. i \in p + 1 .. Len(s) + 1 /\ j \in p + 1 .. Len(s) + 1
          /\ i - 1 \in 1 .. Len(s) /\ j - 1 \in 1 .. Len(s) /\ i - 1 < j - 1
      BY <1>1, <1>2, <1>6, <2>5
    <3> QED BY <1>1, <1>2, <3>1
  <2> QED BY <2>1, <2>2, <2>3, <2>4, <2>5
<1>7. \A i \in 1 .. Len(r) : r[i] \in T \cup {e}
  <2> SUFFICES ASSUME NEW i \in 1 .. Len(r) PROVE r[i] \in T \cup {e}
    OBVIOUS
  <2>1. CASE i < p
    <3>1. i \in 1 .. p - 1 /\ i \in 1 .. Len(s)
      BY <1>1, <2>1
    <3> QED BY <1>1, <1>2, <3>1
  <2>2. CASE i > p
    <3>1. i \in p + 1 .. Len(s) + 1 /\ i - 1 \in 1 .. Len(s)
      BY <1>1, <1>2, <2>2
    <3> QED BY <1>1, <1>2, <3>1
  <2> QED BY <1>2, <2>1, <2>2
<1>8. ASSUME NEW f \in T \cup {e} PROVE \E i \in 1 .. Len(r) : r[i] = f
  <2>1. CASE f = e
    BY <1>1, <1>2, <2>1
  <2>2. CASE f \in T
    <3>1. PICK i \in 1 .. Len(s) : s[i] = f
      BY <2>2 DEF Sorts
    <3>2. CASE i < p
      <4>1. i \in 1 .. p - 1 /\ i \in 1 .. Len(r)
        BY <1>1, <1>2, <3>2
      <4> QED BY <1>2, <3>1, <4>1
    <3>3. CASE i >= p
      <4>1. /\ i + 1 \in p + 1 .. Len(s) + 1 /\ i + 1 \in 1 .. Len(r)
            /\ (i + 1) - 1 = i
        BY <1>1, <1>2, <3>3
      <4> QED BY <1>2, <3>1, <4>1
    <3> QED BY <3>2, <3>3
  <2> QED BY <2>1, <2>2
<1> QED BY <1>2, <1>6, <1>7, <1>8 DEF Sorts, r

\* A sorted list, with an event less.
LEMMA SortsLess ==
    ASSUME NEW T, NEW s, Sorts(s, T), NEW p \in 1 .. Len(s), T \subseteq Event
    PROVE  Sorts(Without(s, p), T \ {s[p]})
<1> DEFINE r == Without(s, p)
<1>1. /\ s \in Seq(Event) /\ Len(s) \in Nat
      /\ \A i \in 1 .. Len(s) : s[i] \in T /\ s[i] \in Event
      /\ \A i, j \in 1 .. Len(s) : i < j => Before(s[i], s[j])
  BY DEF Sorts
<1>2. /\ r \in Seq(Event) /\ Len(r) = Len(s) - 1
      /\ \A i \in 1 .. p - 1 : r[i] = s[i]
      /\ \A i \in p .. Len(s) - 1 : r[i] = s[i + 1]
  BY <1>1, WithoutIs
<1> HIDE DEF r
<1>3. ASSUME NEW i \in 1 .. Len(s), i # p PROVE s[i] # s[p]
  <2>1. i < p \/ p < i
    BY <1>1, <1>3
  <2> QED BY <1>1, <2>1, BeforeOrder
<1>4. \A i \in 1 .. Len(r) : /\ i \in 1 .. Len(s) /\ i + 1 \in 1 .. Len(s)
                             /\ (i < p /\ r[i] = s[i]) \/ (i >= p /\ r[i] = s[i + 1])
  BY <1>1, <1>2
<1>5. \A i \in 1 .. Len(r) : r[i] \in T \ {s[p]}
  BY <1>1, <1>3, <1>4
<1>6. \A i, j \in 1 .. Len(r) : i < j => Before(r[i], r[j])
  <2> SUFFICES ASSUME NEW i \in 1 .. Len(r), NEW j \in 1 .. Len(r), i < j
               PROVE  Before(r[i], r[j])
    OBVIOUS
  <2>1. i + 1 \in 1 .. Len(s) /\ j + 1 \in 1 .. Len(s) /\ i \in 1 .. Len(s) /\ j \in 1 .. Len(s)
        /\ i < j + 1 /\ i + 1 < j + 1
    BY <1>1, <1>4
  <2>2. CASE j < p
    BY <1>1, <1>4, <2>1, <2>2
  <2>3. CASE j >= p
    BY <1>1, <1>4, <2>1, <2>3
  <2> QED BY <1>1, <2>2, <2>3
<1>7. ASSUME NEW f \in T \ {s[p]} PROVE \E i \in 1 .. Len(r) : r[i] = f
  <2>1. PICK i \in 1 .. Len(s) : s[i] = f
    BY DEF Sorts
  <2>2. CASE i < p
    <3>1. i \in 1 .. p - 1 /\ i \in 1 .. Len(r)
      BY <1>1, <1>2, <2>2
    <3> QED BY <1>2, <2>1, <3>1
  <2>3. CASE i > p
    <3>1. i - 1 \in p .. Len(s) - 1 /\ i - 1 \in 1 .. Len(r) /\ (i - 1) + 1 = i
      BY <1>1, <1>2, <2>3
    <3> QED BY <1>2, <2>1, <3>1
  <2> QED BY <1>1, <1>7, <2>1, <2>2, <2>3
<1> QED BY <1>2, <1>5, <1>6, <1>7 DEF Sorts, r

\* The head of a sorted list is its earliest event.
LEMMA SortsHead ==
    ASSUME NEW T, NEW s, Sorts(s, T), T \subseteq Event
    PROVE  /\ s = <<>> <=> T = {}
           /\ s # <<>> => /\ Head(s) \in T
                          /\ \A e \in T \ {Head(s)} : Before(Head(s), e)
                          /\ Sorts(Tail(s), T \ {Head(s)})
<1>1. /\ s \in Seq(Event) /\ Len(s) \in Nat
      /\ \A i \in 1 .. Len(s) : s[i] \in T
      /\ \A i, j \in 1 .. Len(s) : i < j => Before(s[i], s[j])
      /\ \A e \in T : \E i \in 1 .. Len(s) : s[i] = e
  BY DEF Sorts
<1>2. s = <<>> <=> T = {}
  <2>1. s = <<>> => Len(s) = 0
    OBVIOUS
  <2>2. s # <<>> => 1 \in 1 .. Len(s)
    BY <1>1
  <2> QED BY <1>1, <2>1, <2>2
<1>3. ASSUME s # <<>>
      PROVE  /\ Head(s) \in T
             /\ \A e \in T \ {Head(s)} : Before(Head(s), e)
             /\ Sorts(Tail(s), T \ {Head(s)})
  <2>1. 1 \in 1 .. Len(s) /\ Head(s) = s[1]
    BY <1>1, <1>3
  <2>2. ASSUME NEW e \in T \ {s[1]} PROVE Before(s[1], e)
    <3>1. PICK i \in 1 .. Len(s) : s[i] = e
      BY <1>1
    <3>2. 1 < i
      BY <2>2, <3>1
    <3> QED BY <1>1, <2>1, <3>1, <3>2
  <2>3. Without(s, 1) = Tail(s)
    <3>1. SubSeq(s, 1, 0) = <<>> /\ SubSeq(s, 2, Len(s)) = Tail(s)
      BY <1>1, <1>3
    <3>2. Tail(s) \in Seq(Event)
      BY <1>1, <1>3
    <3> QED BY <3>1, <3>2 DEF Without
  <2>4. Sorts(Without(s, 1), T \ {s[1]})
    BY <2>1, SortsLess
  <2> QED BY <1>1, <2>1, <2>2, <2>3, <2>4
<1> QED BY <1>2, <1>3

\* What InOrder() returns.
LEMMA InOrderIs ==
    ASSUME NEW T, T \subseteq Event, IsFiniteSet(T)
    PROVE  Sorts(InOrder(T), T) /\ Len(InOrder(T)) = Cardinality(T)
<1> DEFINE n == Cardinality(T)
           L(e) == {f \in T : Before(f, e)}
           g == [e \in T |-> Cardinality(L(e)) + 1]
           s == InOrder(T)
<1>1. n \in Nat
  BY FS_CardinalityType
<1>2. ASSUME NEW e \in T
      PROVE  IsFiniteSet(L(e)) /\ Cardinality(L(e)) \in Nat /\ Cardinality(L(e)) < n
  <2>1. e \notin L(e)
    BY BeforeOrder
  <2>2. IsFiniteSet(L(e)) /\ Cardinality(L(e)) \in Nat
    <3>1. L(e) \in SUBSET T
      OBVIOUS
    <3> HIDE DEF L
    <3> QED BY <3>1, FS_Subset, FS_CardinalityType
  <2>3. IsFiniteSet(T \ {e}) /\ Cardinality(T \ {e}) = n - 1
    BY FS_RemoveElement
  <2>4. L(e) \in SUBSET (T \ {e})
    BY <2>1
  <2> HIDE DEF L
  <2>5. Cardinality(L(e)) <= n - 1
    BY <2>3, <2>4, FS_Subset
  <2> QED BY <1>1, <2>2, <2>5
<1>3. ASSUME NEW e \in T, NEW f \in T, Before(e, f)
      PROVE  Cardinality(L(e)) < Cardinality(L(f))
  <2>1. L(e) \in SUBSET L(f) /\ L(e) # L(f)
    <3>1. e \in L(f) /\ e \notin L(e)
      BY <1>3, BeforeOrder
    <3>2. \A x \in L(e) : x \in L(f)
      BY <1>3, BeforeOrder
    <3> QED BY <3>1, <3>2
  <2>2. IsFiniteSet(L(f)) /\ Cardinality(L(f)) \in Nat /\ Cardinality(L(e)) \in Nat
    BY <1>2
  <2> HIDE DEF L
  <2> QED BY <2>1, <2>2, FS_Subset
<1> HIDE DEF L
<1>4. g \in [T -> 1 .. n] /\ \A e \in T : g[e] = Cardinality(L(e)) + 1
  BY <1>1, <1>2
<1> HIDE DEF g
<1>5. \A e, f \in T : e # f => g[e] # g[f]
  <2> SUFFICES ASSUME NEW e \in T, NEW f \in T, e # f PROVE g[e] # g[f]
    OBVIOUS
  <2>1. Before(e, f) \/ Before(f, e)
    BY BeforeOrder
  <2>2. Cardinality(L(e)) \in Nat /\ Cardinality(L(f)) \in Nat
    BY <1>2
  <2> QED BY <1>3, <1>4, <2>1, <2>2
<1>6. g \in Surjection(T, 1 .. n)
  <2>1. g \in Injection(T, 1 .. n)
    BY <1>4, <1>5 DEF Injection, IsInjective
  <2>2. IsFiniteSet(1 .. n) /\ Cardinality(1 .. n) = n
    BY <1>1, UpTo
  <2> HIDE DEF n
  <2>3. Cardinality(T) = Cardinality(1 .. n)
    BY <2>2 DEF n
  <2> QED BY <2>1, <2>2, <2>3, FS_Injection
<1>7. s = [i \in 1 .. n |-> CHOOSE e \in T : Cardinality(L(e)) = i - 1]
  BY DEF InOrder, L
<1> HIDE DEF s, n
<1>8. ASSUME NEW i \in 1 .. n PROVE s[i] \in T /\ g[s[i]] = i
  <2>1. PICK e \in T : g[e] = i
    BY <1>6 DEF Surjection
  <2>2. Cardinality(L(e)) = i - 1
    BY <1>2, <1>4, <2>1
  <2>3. s[i] \in T /\ Cardinality(L(s[i])) = i - 1
    BY <1>7, <2>2
  <2> QED BY <1>1, <1>4, <2>3
<1>9. s \in Seq(Event) /\ Len(s) = n
  <2>1. DOMAIN s = 1 .. n /\ s = [i \in 1 .. n |-> s[i]]
    BY <1>7
  <2>2. \A i \in 1 .. n : s[i] \in Event
    BY <1>8
  <2>3. s \in [1 .. n -> Event]
    BY <2>1, <2>2
  <2> QED BY <1>1, <2>3
<1>10. ASSUME NEW i \in 1 .. n, NEW j \in 1 .. n, i < j PROVE Before(s[i], s[j])
  <2>1. /\ s[i] \in T /\ g[s[i]] = i /\ s[j] \in T /\ g[s[j]] = j
        /\ s[i] \in Event /\ s[j] \in Event
    BY <1>8
  <2>2. s[i] # s[j]
    BY <1>10, <2>1
  <2>3. ~Before(s[j], s[i])
    <3> SUFFICES ASSUME Before(s[j], s[i]) PROVE FALSE
      OBVIOUS
    <3>1. Cardinality(L(s[j])) < Cardinality(L(s[i]))
      BY <1>3, <2>1
    <3>2. Cardinality(L(s[j])) \in Nat /\ Cardinality(L(s[i])) \in Nat
      BY <1>2, <2>1
    <3> QED BY <1>4, <1>10, <2>1, <3>1, <3>2
  <2> QED BY <2>1, <2>2, <2>3, BeforeOrder
<1>11. ASSUME NEW e \in T PROVE \E i \in 1 .. n : s[i] = e
  <2>1. g[e] \in 1 .. n
    BY <1>4
  <2>2. s[g[e]] \in T /\ g[s[g[e]]] = g[e]
    BY <1>8, <2>1
  <2>3. s[g[e]] = e
    BY <1>5, <2>2
  <2> QED BY <2>1, <2>3
<1> QED BY <1>8, <1>9, <1>10, <1>11 DEF Sorts, s, n

\* The days of width w: what a division says of a time.
LEMMA DayBounds ==
    \A t \in Nat, w \in Nat \ {0} :
        /\ t \div w \in Nat
        /\ (t \div w) * w <= t /\ t < (t \div w + 1) * w
<1> SUFFICES ASSUME NEW t \in Nat, NEW w \in Nat \ {0}
             PROVE  /\ t \div w \in Nat
                    /\ (t \div w) * w <= t /\ t < (t \div w + 1) * w
  OBVIOUS
<1>1. t = w * (t \div w) + (t % w) /\ t \div w \in Nat /\ t % w \in 0 .. w - 1
  OBVIOUS
<1> DEFINE d == t \div w
<1>2. w * d = d * w /\ (d + 1) * w = d * w + w /\ d * w \in Int
  BY <1>1
<1> QED BY <1>1, <1>2

LEMMA LaterDay ==
    ASSUME NEW w \in Nat \ {0}, NEW t \in Nat, NEW d \in Nat
    PROVE  /\ t < (d + 1) * w => t \div w <= d
           /\ t \div w <= d => t < (d + 1) * w
<1> DEFINE k == t \div w
<1>1. k \in Nat /\ k * w <= t /\ t < (k + 1) * w
  BY DayBounds
<1> HIDE DEF k
<1>2. \A a, b \in Nat : a <= b => a * w <= b * w
  <2> SUFFICES ASSUME NEW a \in Nat, NEW b \in Nat, a <= b PROVE a * w <= b * w
    OBVIOUS
  <2>1. b * w = a * w + (b - a) * w /\ (b - a) * w >= 0 /\ a * w \in Int
    OBVIOUS
  <2> QED BY <2>1
<1>3. (d + 1) * w \in Int /\ (k + 1) * w \in Int /\ k * w \in Int
  BY <1>1
<1>4. t < (d + 1) * w => k <= d
  <2>1. ~(k <= d) => d + 1 <= k /\ (d + 1) * w <= k * w
    BY <1>1, <1>2
  <2> QED BY <1>1, <1>3, <2>1
<1>5. k <= d => t < (d + 1) * w
  <2>1. k <= d => (k + 1) * w <= (d + 1) * w
    BY <1>1, <1>2
  <2> QED BY <1>1, <1>3, <2>1
<1> QED BY <1>4, <1>5 DEF k

LEMMA EarlierDay ==
    ASSUME NEW w \in Nat \ {0}, NEW s \in Nat, NEW t \in Nat
    PROVE  /\ s \div w < t \div w => s < t
           /\ s <= t => s \div w <= t \div w
<1> DEFINE j == s \div w
           k == t \div w
<1>1. j \in Nat /\ k \in Nat /\ t < (k + 1) * w
  BY DayBounds
<1>2. (s < (k + 1) * w => j <= k)
  BY <1>1, LaterDay
<1> HIDE DEF j, k
<1>3. (k + 1) * w \in Int
  BY <1>1
<1>4. s <= t => j <= k
  BY <1>1, <1>2, <1>3
<1>5. j < k => s < t
  <2> SUFFICES ASSUME j < k PROVE s < t
    OBVIOUS
  <2>1. s < (j + 1) * w /\ (t < (j + 1) * w => k <= j)
    BY <1>1, DayBounds, LaterDay DEF j, k
  <2>2. (j + 1) * w \in Int
    BY <1>1
  <2> QED BY <1>1, <2>1, <2>2
<1> QED BY <1>4, <1>5 DEF j, k

LEMMA Division ==
    ASSUME NEW n \in Nat \ {0}, NEW a \in Int
    PROVE  a = n * (a \div n) + (a % n) /\ a \div n \in Int /\ a % n \in 0 .. n - 1
  OBVIOUS

LEMMA SumRemainder ==
    ASSUME NEW n \in Nat \ {0}, NEW a \in Nat, NEW l \in Nat
    PROVE  ((a % n) + l) % n = (a + l) % n
<1> DEFINE q == a \div n
           b == (a % n) + l
           k == b \div n
           r == b % n
<1>1. a = n * q + (a % n) /\ q \in Int /\ (a % n) \in 0 .. n - 1
  OBVIOUS
<1>2. b \in Int
  BY <1>1
<1>3. b = n * k + r /\ k \in Int /\ r \in 0 .. n - 1
  <2> HIDE DEF b
  <2> QED BY <1>2, Division
<1> HIDE DEF q, k, r
<1>4. a + l = n * q + b
  BY <1>1
<1> HIDE DEF b
<1>5. n * (q + k) = n * q + n * k /\ q + k \in Int /\ n * q \in Int /\ n * k \in Int
  BY <1>1, <1>3
<1>6. a + l = n * (q + k) + r
  BY <1>2, <1>3, <1>4, <1>5
<1>7. (n * (q + k) + r) % n = r
  BY <1>3, <1>5, RemainderUnique
<1> QED BY <1>6, <1>7 DEF r, b

\* A bucket holds one day of this year, and later days only of later years.
LEMMA DayInYear ==
    ASSUME NEW n \in Nat \ {0}, NEW d0 \in Nat, NEW d \in Nat, d0 <= d,
           NEW l \in 0 .. n - 1, d % n = ((d0 % n) + l) % n
    PROVE  d = d0 + l \/ d >= d0 + n
<1> SUFFICES ASSUME d < d0 + n PROVE d = d0 + l
  OBVIOUS
<1> DEFINE e == d0 + l
<1>1. d % n = e % n
  <2>1. l \in Nat
    OBVIOUS
  <2>2. ((d0 % n) + l) % n = e % n
    BY <2>1, SumRemainder
  <2> QED BY <2>2
<1>2. d - e < n /\ e - d < n /\ e \in Int /\ d \in Int
  OBVIOUS
<1> HIDE DEF e
<1>3. \A a, b \in Int : (a % n) = (b % n) /\ a - b < n /\ b - a < n => a = b
  BY SameRemainder
<1>4. d = e
  BY <1>1, <1>2, <1>3, Zenon
<1> QED BY <1>4 DEF e

\* From any bucket, the scan comes to every bucket.
LEMMA DayExists ==
    ASSUME NEW n \in Nat \ {0}, NEW a \in 0 .. n - 1, NEW b \in 0 .. n - 1
    PROVE  \E k \in 0 .. n - 1 : (a + k) % n = b
<1>1. CASE a <= b
  <2>1. b - a \in 0 .. n - 1 /\ a + (b - a) = b
    BY <1>1
  <2>2. b % n = b
    OBVIOUS
  <2> QED BY <2>1, <2>2
<1>2. CASE a > b
  <2>1. b - a + n \in 0 .. n - 1 /\ a + (b - a + n) = n * 1 + b
    BY <1>2
  <2>2. (n * 1 + b) % n = b
    BY RemainderUnique
  <2> QED BY <2>1, <2>2
<1> QED BY <1>1, <1>2

Calendar ==
    [nBuckets : Nat \ {0}, width : Nat \ {0}, lastPrio : Nat, lastBucket : Nat,
     bucketTop : Nat, buckets : UNION {[0 .. n - 1 -> Seq(Event)] : n \in Nat},
     qSize : Nat]

\* The events of S that belong into bucket b.
Bucket(c, S, b) == {e \in S : Hash(c, e.ts) = b}

\* The calendar c holds S, every event in the bucket of its day, and none
\* before the day it has come to.
Tidy(c, S) ==
    /\ c \in Calendar
    /\ c.lastBucket = Hash(c, c.lastPrio)
    /\ c.bucketTop = (c.lastPrio \div c.width + 1) * c.width
    /\ DOMAIN c.buckets = 0 .. c.nBuckets - 1
    /\ \A b \in 0 .. c.nBuckets - 1 : Sorts(c.buckets[b], Bucket(c, S, b))
    /\ \A e \in S : e.ts >= c.lastPrio

LEMMA TidyType ==
    ASSUME NEW S, NEW c, Tidy(c, S)
    PROVE  /\ c.nBuckets \in Nat \ {0} /\ c.width \in Nat \ {0} /\ c.lastPrio \in Nat
           /\ c.lastBucket \in 0 .. c.nBuckets - 1 /\ c.qSize \in Nat
           /\ \A t \in Nat : Hash(c, t) \in 0 .. c.nBuckets - 1
           /\ \A k \in Nat : Day(c, k) \in 0 .. c.nBuckets - 1
<1>1. /\ c.nBuckets \in Nat \ {0} /\ c.width \in Nat \ {0} /\ c.lastPrio \in Nat
      /\ c.lastBucket \in Nat /\ c.qSize \in Nat
  BY DEF Tidy, Calendar
<1>2. ASSUME NEW t \in Nat PROVE Hash(c, t) \in 0 .. c.nBuckets - 1
  <2> DEFINE d == t \div c.width
  <2>1. d \in Int
    BY <1>1, DayBounds
  <2> HIDE DEF d
  <2>2. d % c.nBuckets \in 0 .. c.nBuckets - 1
    BY <1>1, <2>1, RemainderRange
  <2> QED BY <2>2 DEF Hash, d
<1>3. ASSUME NEW k \in Nat PROVE Day(c, k) \in 0 .. c.nBuckets - 1
  <2>1. c.lastBucket + k \in Int
    BY <1>1
  <2> QED BY <1>1, <2>1, RemainderRange DEF Day
<1> QED BY <1>1, <1>2, <1>3 DEF Tidy

\* The events a calendar stores.
LEMMA TidyStored ==
    ASSUME NEW S, S \subseteq Event, NEW c, Tidy(c, S)
    PROVE  Stored(c) = S
<1>1. /\ DOMAIN c.buckets = 0 .. c.nBuckets - 1
      /\ \A b \in 0 .. c.nBuckets - 1 : Sorts(c.buckets[b], Bucket(c, S, b))
  BY DEF Tidy
<1>2. \A b \in 0 .. c.nBuckets - 1 : Range(c.buckets[b]) = Bucket(c, S, b)
  <2> SUFFICES ASSUME NEW b \in 0 .. c.nBuckets - 1
               PROVE  Range(c.buckets[b]) = Bucket(c, S, b)
    OBVIOUS
  <2> DEFINE s == c.buckets[b]
             T == Bucket(c, S, b)
  <2>1. Sorts(s, T)
    BY <1>1
  <2> HIDE DEF s, T
  <2>2. DOMAIN s = 1 .. Len(s)
    BY <2>1 DEF Sorts
  <2>3. Range(s) = T
    BY <2>1, <2>2 DEF Sorts, Range
  <2> QED BY <2>3 DEF s, T
<1>3. ASSUME NEW e \in S PROVE e \in Stored(c)
  <2>1. Hash(c, e.ts) \in 0 .. c.nBuckets - 1
    BY TidyType DEF Event
  <2>2. e \in Bucket(c, S, Hash(c, e.ts))
    BY DEF Bucket
  <2> QED BY <1>1, <1>2, <2>1, <2>2 DEF Stored
<1>4. ASSUME NEW e \in Stored(c) PROVE e \in S
  BY <1>1, <1>2 DEF Stored, Bucket
<1> QED BY <1>3, <1>4

\* The first event of a day whose bucket is not empty.
LEMMA FirstIs ==
    ASSUME NEW S, S \subseteq Event, NEW c, Tidy(c, S), NEW k \in Days(c)
    PROVE  /\ k \in 0 .. c.nBuckets - 1 /\ Day(c, k) \in 0 .. c.nBuckets - 1
           /\ First(c, k) \in Bucket(c, S, Day(c, k))
           /\ \A e \in Bucket(c, S, Day(c, k)) \ {First(c, k)} : Before(First(c, k), e)
           /\ Sorts(Tail(c.buckets[Day(c, k)]), Bucket(c, S, Day(c, k)) \ {First(c, k)})
<1> DEFINE b == Day(c, k)
           s == c.buckets[b]
           T == Bucket(c, S, b)
<1>1. k \in 0 .. c.nBuckets - 1 /\ s # <<>>
  BY DEF Days
<1>2. b \in 0 .. c.nBuckets - 1
  BY <1>1, TidyType
<1>3. Sorts(s, T) /\ T \subseteq Event
  BY <1>2 DEF Tidy, Bucket
<1>4. First(c, k) = Head(s)
  BY DEF First
<1> HIDE DEF s, T
<1>5. /\ Head(s) \in T /\ \A e \in T \ {Head(s)} : Before(Head(s), e)
      /\ Sorts(Tail(s), T \ {Head(s)})
  BY <1>1, <1>3, SortsHead
<1> QED BY <1>1, <1>2, <1>4, <1>5 DEF s, T

LEMMA DayOf ==
    ASSUME NEW S, S \subseteq Event, NEW c, Tidy(c, S), NEW e \in S
    PROVE  \E l \in Days(c) :
             /\ Day(c, l) = Hash(c, e.ts)
             /\ First(c, l) = e \/ Before(First(c, l), e)
<1> DEFINE b == Hash(c, e.ts)
<1>1. e.ts \in Nat
  BY DEF Event
<1>2. b \in 0 .. c.nBuckets - 1 /\ c.lastBucket \in 0 .. c.nBuckets - 1
      /\ c.nBuckets \in Nat \ {0}
  BY <1>1, TidyType
<1>3. e \in Bucket(c, S, b)
  BY DEF Bucket
<1> HIDE DEF b
<1>4. PICK l \in 0 .. c.nBuckets - 1 : Day(c, l) = b
  BY <1>2, DayExists DEF Day
<1>5. Sorts(c.buckets[b], Bucket(c, S, b))
  BY <1>2 DEF Tidy
<1>6. c.buckets[b] # <<>>
  <2>1. Bucket(c, S, b) \subseteq Event
    BY DEF Bucket
  <2> QED BY <1>3, <1>5, <2>1, SortsHead
<1>7. l \in Days(c)
  BY <1>4, <1>6 DEF Days
<1>8. \A f \in Bucket(c, S, b) \ {First(c, l)} : Before(First(c, l), f)
  BY <1>4, <1>7, FirstIs
<1> QED BY <1>3, <1>4, <1>7, <1>8 DEF b

\* Where DoRemoveNext() looks, it finds the earliest event of all.
LEMMA NextIs ==
    ASSUME NEW S, S \subseteq Event, NEW c, Tidy(c, S), S # {}
    PROVE  /\ NextDay(c) \in Days(c)
           /\ CalendarNext(c) \in S
           /\ \A e \in S \ {CalendarNext(c)} : Before(CalendarNext(c), e)
           /\ InYear(c) # {} =>
                Top(c, NextDay(c)) = (CalendarNext(c).ts \div c.width + 1) * c.width
<1> DEFINE n == c.nBuckets
           w == c.width
           d0 == c.lastPrio \div w
           day(e) == e.ts \div w
<1>1. /\ n \in Nat \ {0} /\ w \in Nat \ {0} /\ c.lastPrio \in Nat /\ d0 \in Nat
      /\ \A e \in S : e \in Event /\ e.ts \in Nat /\ day(e) \in Nat /\ day(e) >= d0
  <2>1. n \in Nat \ {0} /\ w \in Nat \ {0} /\ c.lastPrio \in Nat
    BY TidyType
  <2>2. d0 \in Nat
    BY <2>1, DayBounds
  <2>3. ASSUME NEW e \in S
        PROVE  e \in Event /\ e.ts \in Nat /\ day(e) \in Nat /\ day(e) >= d0
    <3>1. e \in Event /\ e.ts \in Nat /\ c.lastPrio <= e.ts
      BY DEF Event, Tidy
    <3> QED BY <2>1, <3>1, DayBounds, EarlierDay
  <2> QED BY <2>1, <2>2, <2>3
<1>2. \A k \in Days(c) : /\ k \in 0 .. n - 1 /\ First(c, k) \in S
                         /\ Hash(c, First(c, k).ts) = Day(c, k)
                         /\ \A e \in S : Hash(c, e.ts) = Day(c, k) /\ e # First(c, k)
                                           => Before(First(c, k), e)
  BY FirstIs DEF Bucket
<1>3. ASSUME NEW k \in Days(c), NEW e \in S, Hash(c, e.ts) = Day(c, k)
      PROVE  day(e) = d0 + k \/ day(e) >= d0 + n
  <2>1. day(e) % n = ((d0 % n) + k) % n
    BY <1>3 DEF Hash, Day, Tidy
  <2>2. k \in 0 .. n - 1 /\ d0 <= day(e) /\ day(e) \in Nat
    BY <1>1, <1>2
  <2> HIDE DEF n, d0, day
  <2> QED BY <1>1, <2>1, <2>2, DayInYear
<1>4. ASSUME NEW k \in Nat
      PROVE  Top(c, k) = ((d0 + k) + 1) * w
  <2>1. c.bucketTop = (d0 + 1) * w
    BY DEF Tidy
  <2> HIDE DEF d0, w
  <2>2. (d0 + 1) * w + k * w = ((d0 + k) + 1) * w
    BY <1>1
  <2> QED BY <2>1, <2>2 DEF Top, w
<1>5. Days(c) # {}
  BY DayOf
<1>6. CASE InYear(c) # {}
  <2> DEFINE k == NextDay(c)
             e == First(c, k)
  <2>1. k \in InYear(c) /\ \A l \in InYear(c) : k <= l
    <3>1. k = Min(InYear(c))
      BY <1>6 DEF NextDay
    <3>2. InYear(c) \in SUBSET Nat
      BY <1>2 DEF InYear
    <3> QED BY <1>6, <3>1, <3>2, MinIs
  <2>2. k \in Days(c) /\ k \in 0 .. n - 1 /\ e \in S /\ e.ts < Top(c, k)
        /\ CalendarNext(c) = e
    BY <1>2, <2>1 DEF InYear, CalendarNext
  <2> HIDE DEF k, n, d0, w, day
  <2>3. day(e) = d0 + k
    <3>1. day(e) <= d0 + k
      <4>1. e.ts < ((d0 + k) + 1) * w /\ d0 + k \in Nat
        BY <1>1, <1>4, <2>2
      <4> QED BY <1>1, <2>2, <4>1, LaterDay DEF day, w
    <3>2. day(e) = d0 + k \/ day(e) >= d0 + n
      BY <1>2, <1>3, <2>2
    <3> QED BY <1>1, <2>2, <3>1, <3>2
  <2>4. ASSUME NEW f \in S, f # e PROVE Before(e, f)
    <3>1. PICK l \in Days(c) : /\ Day(c, l) = Hash(c, f.ts)
                               /\ First(c, l) = f \/ Before(First(c, l), f)
      BY DayOf
    <3>2. l \in 0 .. n - 1 /\ First(c, l) \in S /\ (day(f) = d0 + l \/ day(f) >= d0 + n)
      BY <1>2, <1>3, <3>1
    <3>3. CASE day(f) > d0 + k
      <4>1. day(e) < day(f)
        BY <1>1, <2>2, <2>3, <3>3
      <4>2. e.ts < f.ts
        BY <1>1, <2>2, <4>1, EarlierDay DEF day
      <4> QED BY <4>2 DEF Before
    <3>4. CASE ~(day(f) > d0 + k)
      <4>1. day(f) = d0 + l /\ l <= k
        BY <1>1, <2>2, <3>2, <3>4
      <4>2. f.ts < Top(c, l)
        <5>1. f.ts < ((d0 + l) + 1) * w
          BY <1>1, <3>2, <4>1, LaterDay DEF day
        <5>2. l \in Nat
          BY <1>1, <3>2
        <5> QED BY <1>4, <5>1, <5>2
      <4>3. First(c, l).ts < Top(c, l)
        <5>1. First(c, l).ts <= f.ts /\ First(c, l).ts \in Nat /\ f.ts \in Nat
          BY <1>1, <3>1, <3>2 DEF Before
        <5>2. Top(c, l) \in Int
          <6>1. l \in Nat
            BY <1>1, <3>2
          <6>2. ((d0 + l) + 1) * w \in Int
            BY <1>1, <6>1
          <6> QED BY <1>4, <6>1, <6>2
        <5> QED BY <4>2, <5>1, <5>2
      <4>4. l = k
        <5>1. l \in InYear(c)
          BY <3>1, <4>3 DEF InYear
        <5> QED BY <1>1, <2>1, <2>2, <3>2, <4>1, <5>1
      <4> QED BY <1>2, <2>2, <2>4, <3>1, <4>4
    <3> QED BY <3>3, <3>4
  <2>5. Top(c, k) = (day(e) + 1) * w
    <3>1. k \in Nat
      BY <1>1, <2>2
    <3> QED BY <1>4, <2>3, <3>1
  <2> QED BY <2>2, <2>4, <2>5 DEF k, day, w
<1>7. CASE InYear(c) = {}
  <2> DEFINE F == {First(c, l) : l \in Days(c)}
             Good(k) == k \in Days(c)
                        /\ \A l \in Days(c) \ {k} : Before(First(c, k), First(c, l))
  <2>1. PICK x \in F : \A f \in F \ {x} : Before(x, f)
    <3>1. F \subseteq Event /\ F # {}
      BY <1>1, <1>2, <1>5
    <3> HIDE DEF F
    <3> QED BY <3>1, EarliestExists
  <2>2. PICK k \in Days(c) : First(c, k) = x
    OBVIOUS
  <2>3. \A l \in Days(c) \ {k} : First(c, l) # First(c, k)
    <3> SUFFICES ASSUME NEW l \in Days(c), First(c, l) = First(c, k) PROVE l = k
      OBVIOUS
    <3>1. Day(c, l) = Day(c, k)
      BY <1>2
    <3>2. /\ (c.lastBucket + l) % n = (c.lastBucket + k) % n
          /\ c.lastBucket \in Nat /\ l \in 0 .. n - 1 /\ k \in 0 .. n - 1
      <4>1. c.lastBucket \in Nat
        BY TidyType
      <4> QED BY <1>2, <3>1, <4>1 DEF Day
    <3> DEFINE a == c.lastBucket + l
               b == c.lastBucket + k
    <3>3. a \in Int /\ b \in Int /\ a - b < n /\ b - a < n /\ a % n = b % n
      BY <1>1, <3>2
    <3> HIDE DEF a, b, n
    <3>4. a = b
      BY <1>1, <3>3, SameRemainder
    <3> QED BY <1>1, <3>2, <3>4 DEF a, b
  <2>4. Good(k)
    BY <2>1, <2>2, <2>3
  <2>5. NextDay(c) = CHOOSE l \in Days(c) :
                       \A m \in Days(c) \ {l} : Before(First(c, l), First(c, m))
    BY <1>7 DEF NextDay
  <2>6. Good(NextDay(c))
    BY <2>4, <2>5
  <2> DEFINE e == First(c, NextDay(c))
  <2>7. CalendarNext(c) = e /\ e \in S
    BY <1>2, <2>6 DEF CalendarNext
  <2>8. ASSUME NEW f \in S, f # e PROVE Before(e, f)
    <3>1. PICK l \in Days(c) : First(c, l) = f \/ Before(First(c, l), f)
      BY DayOf
    <3>2. First(c, l) = e \/ Before(e, First(c, l))
      BY <2>6
    <3>3. e \in Event /\ f \in Event /\ First(c, l) \in Event
      BY <1>1, <1>2, <2>7
    <3> HIDE DEF e
    <3> QED BY <2>8, <3>1, <3>2, <3>3, BeforeOrder
  <2> QED BY <1>7, <2>6, <2>7, <2>8
<1> QED BY <1>6, <1>7

\* A calendar whose bucket b has changed, and which has come to time p.
Turned(c, b, s, p) ==
    [c EXCEPT !.buckets = [c.buckets EXCEPT ![b] = s], !.lastPrio = p,
              !.lastBucket = Hash(c, p), !.bucketTop = (p \div c.width + 1) * c.width]

\* The event list S becomes T in the bucket b, which becomes s, at time p.
Turns(c, S, b, s, T, p) ==
    /\ S \subseteq Event /\ Tidy(c, S) /\ T \subseteq Event
    /\ b \in 0 .. c.nBuckets - 1 /\ Sorts(s, Bucket(c, T, b))
    /\ \A e \in Event : Hash(c, e.ts) # b => (e \in S <=> e \in T)
    /\ p \in Nat /\ \A e \in T : e.ts >= p

LEMMA TurnedTidy ==
    ASSUME NEW c, NEW S, NEW b, NEW s, NEW T, NEW p, Turns(c, S, b, s, T, p)
    PROVE  /\ Tidy(Turned(c, b, s, p), T)
           /\ Turned(c, b, s, p).lastPrio = p /\ Turned(c, b, s, p).qSize = c.qSize
           /\ Turned(c, b, s, p).nBuckets = c.nBuckets
<1> DEFINE d == Turned(c, b, s, p)
           g == [c.buckets EXCEPT ![b] = s]
<1>0. /\ S \subseteq Event /\ Tidy(c, S) /\ T \subseteq Event
      /\ b \in 0 .. c.nBuckets - 1 /\ Sorts(s, Bucket(c, T, b))
      /\ \A e \in Event : Hash(c, e.ts) # b => (e \in S <=> e \in T)
      /\ p \in Nat /\ \A e \in T : e.ts >= p
  BY DEF Turns
<1> USE <1>0
<1>1. /\ c \in Calendar /\ c.nBuckets \in Nat /\ c.width \in Nat \ {0}
      /\ DOMAIN c.buckets = 0 .. c.nBuckets - 1
      /\ \A a \in 0 .. c.nBuckets - 1 : Sorts(c.buckets[a], Bucket(c, S, a))
  BY TidyType DEF Tidy
<1>2. c.buckets \in [0 .. c.nBuckets - 1 -> Seq(Event)]
  <2>1. PICK n \in Nat : c.buckets \in [0 .. n - 1 -> Seq(Event)]
    BY <1>1 DEF Calendar
  <2> QED BY <1>1, <2>1
<1>3. g \in [0 .. c.nBuckets - 1 -> Seq(Event)]
      /\ \A a \in 0 .. c.nBuckets - 1 : g[a] = IF a = b THEN s ELSE c.buckets[a]
  BY <1>2 DEF Sorts
<1>4. g \in UNION {[0 .. n - 1 -> Seq(Event)] : n \in Nat}
  <2> HIDE DEF g
  <2> QED BY <1>1, <1>3
<1>5. Hash(c, p) \in Nat /\ (p \div c.width + 1) * c.width \in Nat
  <2>1. Hash(c, p) \in 0 .. c.nBuckets - 1
    BY TidyType
  <2> DEFINE k == p \div c.width
  <2>2. k \in Nat
    BY <1>1, DayBounds
  <2> HIDE DEF k
  <2>3. (k + 1) * c.width \in Nat
    BY <1>1, <2>2
  <2> QED BY <1>1, <2>1, <2>3 DEF k
<1>6. /\ d \in Calendar
      /\ d.nBuckets = c.nBuckets /\ d.width = c.width /\ d.qSize = c.qSize
      /\ d.lastPrio = p /\ d.lastBucket = Hash(c, p)
      /\ d.bucketTop = (p \div c.width + 1) * c.width /\ d.buckets = g
  <2> HIDE DEF g
  <2>1. d = [c EXCEPT !.buckets = g, !.lastPrio = p, !.lastBucket = Hash(c, p),
                      !.bucketTop = (p \div c.width + 1) * c.width]
    BY DEF Turned, g
  <2> HIDE DEF d
  <2> QED BY <1>1, <1>4, <1>5, <2>1 DEF Calendar
<1> HIDE DEF d, g
<1>7. \A t : Hash(d, t) = Hash(c, t)
  BY <1>6 DEF Hash
<1>8. ASSUME NEW a \in 0 .. c.nBuckets - 1
      PROVE  Sorts(g[a], Bucket(d, T, a))
  <2>1. Bucket(d, T, a) = Bucket(c, T, a)
    BY <1>7 DEF Bucket
  <2>2. CASE a = b
    BY <1>3, <2>1, <2>2
  <2>3. CASE a # b
    <3>1. Bucket(c, T, a) = Bucket(c, S, a)
      BY <2>3 DEF Bucket
    <3> QED BY <1>1, <1>3, <2>1, <2>3, <3>1
  <2> QED BY <2>2, <2>3
<1>9. Tidy(d, T)
  BY <1>3, <1>6, <1>7, <1>8 DEF Tidy
<1> QED BY <1>6, <1>9 DEF d

\* Turned to the time it has come to, only the bucket changes.
LEMMA BucketTurned ==
    ASSUME NEW S, NEW c, Tidy(c, S), NEW b, NEW s
    PROVE  [c EXCEPT !.buckets = [c.buckets EXCEPT ![b] = s]] = Turned(c, b, s, c.lastPrio)
<1>1. /\ c \in Calendar /\ c.lastBucket = Hash(c, c.lastPrio)
      /\ c.bucketTop = (c.lastPrio \div c.width + 1) * c.width
  BY DEF Tidy
<1> DEFINE g == [c.buckets EXCEPT ![b] = s]
           h == Hash(c, c.lastPrio)
           t == (c.lastPrio \div c.width + 1) * c.width
<1>2. Turned(c, b, s, c.lastPrio)
        = [c EXCEPT !.buckets = g, !.lastPrio = c.lastPrio, !.lastBucket = h, !.bucketTop = t]
  BY DEF Turned
<1> HIDE DEF g, h, t
<1>3. c.lastBucket = h /\ c.bucketTop = t
  BY <1>1 DEF h, t
<1>4. [c EXCEPT !.buckets = g]
        = [c EXCEPT !.buckets = g, !.lastPrio = c.lastPrio, !.lastBucket = h, !.bucketTop = t]
  BY <1>1, <1>3 DEF Calendar
<1> QED BY <1>2, <1>4 DEF g

LEMMA DoInsertIs ==
    ASSUME NEW S, S \subseteq Event, NEW c, Tidy(c, S),
           NEW e \in Event, e \notin S, e.ts >= c.lastPrio
    PROVE  /\ Tidy(DoInsert(c, e), S \cup {e})
           /\ DoInsert(c, e).lastPrio = c.lastPrio /\ DoInsert(c, e).qSize = c.qSize
           /\ DoInsert(c, e).nBuckets = c.nBuckets
<1> DEFINE b == Hash(c, e.ts)
           s == c.buckets[b]
           later == {i \in DOMAIN s : Before(e, s[i])}
           place == Min(later \cup {Len(s) + 1})
           T == S \cup {e}
<1>1. b \in 0 .. c.nBuckets - 1 /\ c.lastPrio \in Nat
  BY TidyType DEF Event
<1>2. Sorts(s, Bucket(c, S, b))
  BY <1>1 DEF Tidy
<1>3. DoInsert(c, e) = [c EXCEPT !.buckets = [c.buckets EXCEPT ![b] = With(s, place, e)]]
  <2>1. c \in Calendar
    BY DEF Tidy
  <2> QED BY <2>1 DEF DoInsert, With
<1> HIDE DEF b, s
<1>4. /\ DOMAIN s = 1 .. Len(s) /\ Len(s) \in Nat
      /\ \A i \in 1 .. Len(s) : s[i] \in Event
  BY <1>2 DEF Sorts
<1>5. /\ place \in later \cup {Len(s) + 1}
      /\ \A i \in later \cup {Len(s) + 1} : place <= i
  <2>1. later \cup {Len(s) + 1} \in SUBSET Nat
    BY <1>4
  <2> HIDE DEF later
  <2> QED BY <2>1, MinIs
<1> HIDE DEF place
<1>6. place \in 1 .. Len(s) + 1 /\ (place <= Len(s) => Before(e, s[place]))
  BY <1>4, <1>5
<1>7. \A i \in 1 .. place - 1 : ~Before(e, s[i])
  BY <1>4, <1>5, <1>6
<1>8. Bucket(c, S, b) \subseteq Event /\ e \notin Bucket(c, S, b)
      /\ Bucket(c, T, b) = Bucket(c, S, b) \cup {e}
  BY DEF Bucket, b
<1>9. Sorts(With(s, place, e), Bucket(c, T, b))
  <2> HIDE DEF T, later
  <2> QED BY <1>2, <1>6, <1>7, <1>8, SortsMore
<1>10. DoInsert(c, e) = Turned(c, b, With(s, place, e), c.lastPrio)
  BY <1>3, BucketTurned
<1>11. \A f \in Event : Hash(c, f.ts) # b => (f \in S <=> f \in T)
  BY DEF b
<1>12. T \subseteq Event /\ \A f \in T : f.ts >= c.lastPrio
  BY DEF Tidy
<1>13. Turns(c, S, b, With(s, place, e), T, c.lastPrio)
  <2> HIDE DEF T
  <2> QED BY <1>1, <1>9, <1>11, <1>12 DEF Turns
<1> HIDE DEF T
<1>14. Tidy(Turned(c, b, With(s, place, e), c.lastPrio), T)
       /\ Turned(c, b, With(s, place, e), c.lastPrio).lastPrio = c.lastPrio
       /\ Turned(c, b, With(s, place, e), c.lastPrio).qSize = c.qSize
       /\ Turned(c, b, With(s, place, e), c.lastPrio).nBuckets = c.nBuckets
  BY <1>13, TurnedTidy
<1> QED BY <1>10, <1>14 DEF T

\* The calendar d is the calendar c with the events T, at time p.
Becomes(d, c, T, p) ==
    /\ Tidy(d, T) /\ d.lastPrio = p /\ d.qSize = c.qSize /\ d.nBuckets = c.nBuckets

LEMMA TurnedBecomes ==
    ASSUME NEW c, NEW S, NEW b, NEW s, NEW T, NEW p, Turns(c, S, b, s, T, p)
    PROVE  Becomes(Turned(c, b, s, p), c, T, p)
BY TurnedTidy DEF Becomes

\* The earliest event leaves, and the calendar comes to its time.
LEMMA DoRemoveNextIs ==
    ASSUME NEW S, S \subseteq Event, NEW c, Tidy(c, S), S # {}
    PROVE  Becomes(DoRemoveNext(c), c, S \ {CalendarNext(c)}, CalendarNext(c).ts)
<1> DEFINE e == CalendarNext(c)
           k == NextDay(c)
           b == Day(c, k)
           s == Tail(c.buckets[b])
           T == S \ {e}
<1>1. /\ k \in Days(c) /\ e \in S /\ e = First(c, k)
      /\ \A f \in T : Before(e, f)
      /\ InYear(c) # {} => Top(c, k) = (e.ts \div c.width + 1) * c.width
  BY NextIs DEF CalendarNext
<1>2. /\ b \in 0 .. c.nBuckets - 1 /\ Hash(c, e.ts) = b
      /\ Sorts(s, Bucket(c, S, b) \ {e})
  <2> HIDE DEF k
  <2>1. /\ Day(c, k) \in 0 .. c.nBuckets - 1
        /\ First(c, k) \in Bucket(c, S, Day(c, k))
        /\ Sorts(Tail(c.buckets[Day(c, k)]), Bucket(c, S, Day(c, k)) \ {First(c, k)})
    BY <1>1, FirstIs
  <2>2. First(c, k) = e
    BY <1>1
  <2> QED BY <2>1, <2>2 DEF Bucket
<1>3. DoRemoveNext(c) = Turned(c, b, s, e.ts)
  <2>1. c \in Calendar
    BY DEF Tidy
  <2>2. (IF InYear(c) # {} THEN Top(c, k) ELSE (e.ts \div c.width + 1) * c.width)
          = (e.ts \div c.width + 1) * c.width
    BY <1>1
  <2>3. DoRemoveNext(c)
          = [c EXCEPT !.buckets = [c.buckets EXCEPT ![b] = s],
                      !.lastPrio = e.ts,
                      !.lastBucket = IF InYear(c) # {} THEN b ELSE Hash(c, e.ts),
                      !.bucketTop = IF InYear(c) # {} THEN Top(c, k)
                                    ELSE (e.ts \div c.width + 1) * c.width]
    BY <2>1 DEF DoRemoveNext
  <2> HIDE DEF b, s, e, k
  <2> QED BY <1>2, <2>2, <2>3 DEF Turned
<1>4. Turns(c, S, b, s, T, e.ts)
  <2>1. Bucket(c, T, b) = Bucket(c, S, b) \ {e}
    BY DEF Bucket
  <2>2. \A f \in Event : Hash(c, f.ts) # b => (f \in S <=> f \in T)
    BY <1>2
  <2>3. e.ts \in Nat /\ e \in Event
    BY <1>1 DEF Event
  <2>4. ASSUME NEW f \in T PROVE f.ts >= e.ts
    <3>1. f.ts \in Nat /\ Before(e, f)
      BY <1>1, <2>4 DEF Event
    <3> HIDE DEF e
    <3> QED BY <2>3, <3>1 DEF Before
  <2>5. T \subseteq Event
    OBVIOUS
  <2> HIDE DEF b, s, e, k, T
  <2> QED BY <1>2, <2>1, <2>2, <2>3, <2>4, <2>5 DEF Turns
<1>5. Becomes(Turned(c, b, s, e.ts), c, T, e.ts)
  BY <1>4, TurnedBecomes
<1> QED BY <1>3, <1>5

\* The events have an identifier each.
Distinct(S) == \A e, f \in S : e.uid = f.uid => e = f

\* Remove() finds the event e in its bucket, and the rest stays.
Freed(c, S, e) ==
    LET bucket == c.buckets[Hash(c, e.ts)]
        found == {i \in DOMAIN bucket : bucket[i].uid = e.uid}
        rest == Without(bucket, Min(found))
    IN  /\ found # {}
        /\ Becomes([c EXCEPT !.buckets = [c.buckets EXCEPT ![Hash(c, e.ts)] = rest]],
                   c, S \ {e}, c.lastPrio)

LEMMA BucketWithout ==
    ASSUME NEW S, S \subseteq Event, Distinct(S), NEW c, Tidy(c, S), NEW e \in S
    PROVE  Freed(c, S, e)
<1> DEFINE b == Hash(c, e.ts)
           s == c.buckets[b]
           found == {i \in DOMAIN s : s[i].uid = e.uid}
           place == Min(found)
           T == S \ {e}
           r == Without(s, place)
<1>1. b \in 0 .. c.nBuckets - 1 /\ c.lastPrio \in Nat
  BY TidyType DEF Event
<1>2. Sorts(s, Bucket(c, S, b)) /\ e \in Bucket(c, S, b)
      /\ Bucket(c, S, b) \subseteq Event /\ Bucket(c, S, b) \subseteq S
  BY <1>1 DEF Tidy, Bucket
<1> HIDE DEF b, s
<1>3. /\ DOMAIN s = 1 .. Len(s) /\ Len(s) \in Nat
      /\ \A i \in 1 .. Len(s) : s[i] \in S
      /\ \E i \in 1 .. Len(s) : s[i] = e
  BY <1>2 DEF Sorts
<1>4. found # {}
  BY <1>3
<1>5. place \in found
  <2>1. found \in SUBSET Nat
    BY <1>3
  <2> HIDE DEF found
  <2> QED BY <1>4, <2>1, MinIs
<1> HIDE DEF place
<1>6. place \in 1 .. Len(s) /\ s[place] = e
  <2>1. place \in 1 .. Len(s) /\ s[place].uid = e.uid /\ s[place] \in S
    BY <1>3, <1>5
  <2> QED BY <2>1 DEF Distinct
<1>7. Sorts(r, Bucket(c, S, b) \ {e})
  <2>1. Sorts(r, Bucket(c, S, b) \ {s[place]})
    BY <1>2, <1>6, SortsLess
  <2> QED BY <1>6, <2>1
<1>8. Turns(c, S, b, r, T, c.lastPrio)
  <2>1. Bucket(c, T, b) = Bucket(c, S, b) \ {e}
    BY DEF Bucket
  <2>2. \A f \in Event : Hash(c, f.ts) # b => (f \in S <=> f \in T)
    BY DEF b
  <2>3. \A f \in T : f.ts >= c.lastPrio
    BY DEF Tidy
  <2>4. T \subseteq Event
    OBVIOUS
  <2> HIDE DEF r, T
  <2> QED BY <1>1, <1>7, <2>1, <2>2, <2>3, <2>4 DEF Turns
<1> HIDE DEF r, T
<1>9. Becomes(Turned(c, b, r, c.lastPrio), c, T, c.lastPrio)
  BY <1>8, TurnedBecomes
<1>10. [c EXCEPT !.buckets = [c.buckets EXCEPT ![b] = r]] = Turned(c, b, r, c.lastPrio)
  BY BucketTurned
<1>11. Becomes([c EXCEPT !.buckets = [c.buckets EXCEPT ![b] = r]], c, T, c.lastPrio)
  BY <1>9, <1>10
<1> QED BY <1>4, <1>11 DEF Freed, r, T, place, b, s

\* Calendars differ in nothing when the number of events is set anew.
LEMMA Recounted ==
    ASSUME NEW S, NEW c, Tidy(c, S), NEW q \in Nat
    PROVE  Becomes([c EXCEPT !.qSize = q], [c EXCEPT !.qSize = q], S, c.lastPrio)
           /\ [c EXCEPT !.qSize = q].qSize = q
<1> DEFINE d == [c EXCEPT !.qSize = q]
<1>1. c \in Calendar
  BY DEF Tidy
<1>2. /\ d \in Calendar /\ d.nBuckets = c.nBuckets /\ d.width = c.width
      /\ d.lastPrio = c.lastPrio /\ d.lastBucket = c.lastBucket
      /\ d.bucketTop = c.bucketTop /\ d.buckets = c.buckets /\ d.qSize = q
  BY <1>1 DEF Calendar
<1> HIDE DEF d
<1>3. \A t : Hash(d, t) = Hash(c, t)
  BY <1>2 DEF Hash
<1>4. \A b : Bucket(d, S, b) = Bucket(c, S, b)
  BY <1>3 DEF Bucket
<1>5. Tidy(d, S)
  BY <1>2, <1>3, <1>4 DEF Tidy
<1>6. Becomes(d, d, S, c.lastPrio) /\ d.qSize = q
  BY <1>2, <1>5 DEF Becomes
<1> QED BY <1>6 DEF d

\* A calendar set up with the events of S.
LEMMA CalendarInitIs ==
    ASSUME NEW S, S \subseteq Event, IsFiniteSet(S), NEW n \in Nat \ {0}, NEW w \in Nat \ {0},
           NEW p \in Nat, \A e \in S : e.ts >= p, NEW q \in Nat
    PROVE  /\ Tidy(CalendarInit(n, w, p, S, q), S)
           /\ CalendarInit(n, w, p, S, q).lastPrio = p
           /\ CalendarInit(n, w, p, S, q).qSize = q
<1> DEFINE c == CalendarInit(n, w, p, S, q)
           day == p \div w
           B(b) == {e \in S : (e.ts \div w) % n = b}
           g == [b \in 0 .. n - 1 |-> InOrder(B(b))]
<1>1. day \in Nat
  BY DayBounds
<1>2. ASSUME NEW b \in 0 .. n - 1 PROVE Sorts(InOrder(B(b)), B(b)) /\ InOrder(B(b)) \in Seq(Event)
  <2>1. B(b) \subseteq S /\ B(b) \subseteq Event
    OBVIOUS
  <2> HIDE DEF B
  <2>2. IsFiniteSet(B(b))
    BY <2>1, FS_Subset
  <2>3. Sorts(InOrder(B(b)), B(b))
    BY <2>1, <2>2, InOrderIs
  <2> QED BY <2>3 DEF Sorts
<1>3. /\ c = [nBuckets |-> n, width |-> w, lastPrio |-> p, lastBucket |-> day % n,
              bucketTop |-> (day + 1) * w, buckets |-> g, qSize |-> q]
  BY DEF CalendarInit
<1>4. g \in [0 .. n - 1 -> Seq(Event)] /\ \A b \in 0 .. n - 1 : Sorts(g[b], B(b))
  <2> HIDE DEF B
  <2> QED BY <1>2
<1>5. day % n \in Nat /\ (day + 1) * w \in Nat
  <2> HIDE DEF day
  <2>1. day % n \in 0 .. n - 1
    BY <1>1, RemainderRange
  <2> QED BY <1>1, <2>1
<1> HIDE DEF c, g, day
<1>6. g \in UNION {[0 .. k - 1 -> Seq(Event)] : k \in Nat}
  BY <1>4
<1>7. c \in Calendar
  BY <1>3, <1>5, <1>6 DEF Calendar
<1>8. /\ c.nBuckets = n /\ c.width = w /\ c.lastPrio = p /\ c.buckets = g /\ c.qSize = q
      /\ c.lastBucket = day % n /\ c.bucketTop = (day + 1) * w
  BY <1>3
<1>9. \A b : Bucket(c, S, b) = B(b)
  BY <1>8 DEF Bucket, Hash
<1>10. Hash(c, p) = day % n
  BY <1>8 DEF Hash, day
<1> HIDE DEF B
<1>11. /\ c.bucketTop = (c.lastPrio \div c.width + 1) * c.width
       /\ c.lastBucket = Hash(c, c.lastPrio)
  BY <1>8, <1>10 DEF day
<1>12. DOMAIN c.buckets = 0 .. c.nBuckets - 1
       /\ \A b \in 0 .. c.nBuckets - 1 : Sorts(c.buckets[b], Bucket(c, S, b))
  BY <1>4, <1>8, <1>9
<1>13. Tidy(c, S)
  BY <1>7, <1>8, <1>11, <1>12 DEF Tidy
<1> QED BY <1>8, <1>13 DEF c

-----------------------------------------------------------------------------
\* The width of a resized calendar is a positive number.
LEMMA PositiveMax == \A x \in Int : Max({1, x}) \in Nat \ {0}
<1> SUFFICES ASSUME NEW x \in Int PROVE Max({1, x}) \in Nat \ {0}
  OBVIOUS
<1>1. \E m \in {1, x} : \A y \in {1, x} : m >= y
  <2>1. CASE x >= 1
    BY <2>1
  <2>2. CASE x < 1
    BY <2>2
  <2> QED BY <2>1, <2>2
<1>2. Max({1, x}) \in {1, x} /\ \A y \in {1, x} : Max({1, x}) >= y
  BY <1>1 DEF Max
<1> QED BY <1>2

LEMMA TotalIs ==
    ASSUME NEW s \in Seq(Int)
    PROVE  Total(s) \in Int
<1> DEFINE N == Len(s)
           sum == CHOOSE f : f = [n \in 0 .. N |-> IF n = 0 THEN 0 ELSE f[n - 1] + s[n]]
           step == [n \in 1 .. N |-> [x \in Int |-> x + s[n]]]
           X == [n \in 0 .. N |-> Int]
<1>1. N \in Nat /\ \A n \in 1 .. N : s[n] \in Int
  OBVIOUS
<1>2. sum = [n \in 0 .. N |-> IF n = 0 THEN 0 ELSE sum[n - 1] + s[n]]
  <2> HIDE DEF N
  <2>1. step \in [1 .. N -> [Int -> Int]]
    BY <1>1
  <2>2. PICK f : IsLoop(f, N, Int, 0, step)
    <3> DEFINE U == Int
    <3>1. N \in Nat /\ 0 \in U /\ step \in [1 .. N -> [U -> U]]
      BY <1>1, <2>1
    <3> HIDE DEF step, U
    <3>2. \E f : IsLoop(f, N, U, 0, step)
      BY <3>1, Iterates
    <3> QED BY <3>2 DEF U
  <2>3. ASSUME NEW n \in 1 .. N PROVE f[n] = f[n - 1] + s[n]
    <3>1. n - 1 \in 0 .. N /\ f[n - 1] \in Int
      BY <1>1, <2>2 DEF IsLoop
    <3>2. step[n][f[n - 1]] = f[n - 1] + s[n]
      BY <3>1
    <3> QED BY <2>2, <3>2 DEF IsLoop
  <2>4. f = [n \in 0 .. N |-> IF n = 0 THEN 0 ELSE f[n - 1] + s[n]]
    BY <1>1, <2>2, <2>3 DEF IsLoop
  <2> QED BY <2>4
<1>3. Total(s) = sum[N]
  BY DEF Total
<1> HIDE DEF sum
<1>4. \A n \in 0 .. N : sum[n] \in X[n]
  <2>1. sum[0] \in X[0]
    BY <1>1, <1>2
  <2>2. ASSUME NEW n \in 1 .. N, sum[n - 1] \in X[n - 1] PROVE sum[n] \in X[n]
    <3>1. n - 1 \in 0 .. N /\ sum[n] = sum[n - 1] + s[n]
      <4>1. n \in 0 .. N /\ n # 0 /\ n - 1 \in 0 .. N
        BY <1>1
      <4> HIDE DEF N
      <4> QED BY <1>2, <4>1
    <3> QED BY <1>1, <2>2, <3>1
  <2> HIDE DEF X
  <2> QED BY <1>1, <2>1, <2>2, Along
<1> QED BY <1>1, <1>3, <1>4

LEMMA NSamplesIs ==
    ASSUME NEW c, c.qSize \in Nat, c.qSize >= 2
    PROVE  NSamples(c) \in 2 .. c.qSize
<1> DEFINE q == c.qSize
           k == q \div 10
           m == IF q <= 5 THEN q ELSE 5 + k
<1>1. k \in Int /\ 10 * k <= q /\ 0 <= k
  <2> HIDE DEF q
  <2>1. q \in Nat /\ 10 \in Nat \ {0}
    BY DEF q
  <2>2. k \in Nat /\ k * 10 <= q
    BY <2>1, DayBounds
  <2> QED BY <2>1, <2>2
<1> HIDE DEF k
<1>2. m \in Nat /\ 2 <= m /\ m <= q
  BY <1>1
<1>3. NSamples(c) = Min({25, m})
  BY DEF NSamples, k
<1> HIDE DEF m
<1>4. Min({25, m}) = IF 25 <= m THEN 25 ELSE m
  BY <1>2, MinOfTwo
<1> QED BY <1>2, <1>3, <1>4

LEMMA SamplesAre ==
    ASSUME NEW S, S \subseteq Event, IsFiniteSet(S), NEW c, Tidy(c, S),
           c.qSize = Cardinality(S), c.qSize >= 2
    PROVE  Samples(c) \in Seq(Nat) /\ Len(Samples(c)) = NSamples(c) /\ NSamples(c) \in 2 .. c.qSize
<1> DEFINE N == NSamples(c)
           X == [n \in 0 .. N |-> {d \in Calendar : \E T \in SUBSET Event :
                    IsFiniteSet(T) /\ Cardinality(T) = c.qSize - n /\ Tidy(d, T)}]
           U == UNION {X[n] : n \in 0 .. N}
           rest == CHOOSE f : f = [n \in 0 .. N |->
                                     IF n = 0 THEN c ELSE DoRemoveNext(f[n - 1])]
           step == [n \in 1 .. N |-> [d \in U |->
                      IF d \in X[n - 1] THEN DoRemoveNext(d) ELSE c]]
<1>1. N \in 2 .. c.qSize /\ c.qSize \in Nat /\ N \in Nat
  BY NSamplesIs, TidyType
<1>2. c \in X[0]
  <2>1. 0 \in 0 .. N /\ c.qSize - 0 = c.qSize /\ c \in Calendar
    BY <1>1 DEF Tidy
  <2> HIDE DEF N
  <2> QED BY <2>1
<1>3. ASSUME NEW n \in 1 .. N, NEW d \in X[n - 1]
      PROVE  DoRemoveNext(d) \in X[n] /\ CalendarNext(d).ts \in Nat
  <2> HIDE DEF N
  <2>1. n - 1 \in 0 .. N /\ n \in 0 .. N /\ n <= c.qSize /\ n \in Nat
    BY <1>1
  <2>2. PICK T \in SUBSET Event :
           IsFiniteSet(T) /\ Cardinality(T) = c.qSize - (n - 1) /\ Tidy(d, T)
    BY <1>3, <2>1
  <2>3. T # {}
    BY <1>1, <2>1, <2>2, FS_EmptySet
  <2>4. T \subseteq Event
    OBVIOUS
  <2> DEFINE e == CalendarNext(d)
             d2 == DoRemoveNext(d)
  <2>5. e \in T /\ Becomes(d2, d, T \ {e}, e.ts)
    BY <2>2, <2>3, <2>4, DoRemoveNextIs, NextIs
  <2> HIDE DEF d2
  <2>6. IsFiniteSet(T \ {e}) /\ Cardinality(T \ {e}) = c.qSize - n
    <3> HIDE DEF e
    <3> QED BY <1>1, <2>1, <2>2, <2>5, FS_RemoveElement
  <2>7. Tidy(d2, T \ {e}) /\ d2 \in Calendar /\ T \ {e} \in SUBSET Event
    BY <2>4, <2>5 DEF Becomes, Tidy
  <2>8. d2 \in X[n]
    <3> HIDE DEF e
    <3> QED BY <2>1, <2>6, <2>7
  <2>9. e.ts \in Nat
    BY <2>4, <2>5 DEF Event
  <2> QED BY <2>8, <2>9 DEF d2
<1> HIDE DEF X, N
<1>4. rest = [n \in 0 .. N |-> IF n = 0 THEN c ELSE DoRemoveNext(rest[n - 1])]
  <2>1. c \in U
    BY <1>1, <1>2
  <2>2. \A n \in 1 .. N : \A d \in X[n - 1] : DoRemoveNext(d) \in U
    BY <1>1, <1>3
  <2> HIDE DEF U
  <2>3. step \in [1 .. N -> [U -> U]]
    BY <2>1, <2>2
  <2>4. PICK f : IsLoop(f, N, U, c, step)
    <3> HIDE DEF step
    <3> QED BY <1>1, <2>1, <2>3, Iterates
  <2>5. ASSUME NEW n \in 1 .. N, f[n - 1] \in X[n - 1]
        PROVE  f[n] = DoRemoveNext(f[n - 1])
    <3>1. n - 1 \in 0 .. N /\ f[n - 1] \in U /\ f[n] = step[n][f[n - 1]]
      BY <1>1, <2>4 DEF IsLoop
    <3> QED BY <2>5, <3>1
  <2>6. \A n \in 0 .. N : f[n] \in X[n]
    <3>1. f[0] \in X[0]
      BY <1>2, <2>4 DEF IsLoop
    <3>2. \A n \in 1 .. N : f[n - 1] \in X[n - 1] => f[n] \in X[n]
      BY <1>3, <2>5
    <3> QED BY <1>1, <3>1, <3>2, Along
  <2>7. f = [n \in 0 .. N |-> IF n = 0 THEN c ELSE DoRemoveNext(f[n - 1])]
    <3>1. \A n \in 1 .. N : f[n] = DoRemoveNext(f[n - 1])
      <4>1. \A n \in 1 .. N : n - 1 \in 0 .. N
        BY <1>1
      <4> QED BY <2>5, <2>6, <4>1
    <3> QED BY <1>1, <2>4, <3>1 DEF IsLoop
  <2> QED BY <2>7
<1>5. Samples(c) = [i \in 1 .. N |-> CalendarNext(rest[i - 1]).ts]
  BY DEF Samples, N
<1> HIDE DEF rest
<1>6. \A n \in 0 .. N : rest[n] \in X[n]
  <2>1. rest[0] \in X[0]
    BY <1>1, <1>2, <1>4
  <2>2. \A n \in 1 .. N : rest[n - 1] \in X[n - 1] => rest[n] \in X[n]
    <3> SUFFICES ASSUME NEW n \in 1 .. N, rest[n - 1] \in X[n - 1] PROVE rest[n] \in X[n]
      OBVIOUS
    <3>1. rest[n] = DoRemoveNext(rest[n - 1])
      BY <1>1, <1>4
    <3> QED BY <1>3, <3>1
  <2> QED BY <1>1, <2>1, <2>2, Along
<1>7. \A i \in 1 .. N : CalendarNext(rest[i - 1]).ts \in Nat
  <2>1. \A i \in 1 .. N : i - 1 \in 0 .. N
    BY <1>1
  <2> QED BY <1>3, <1>6, <2>1
<1>8. Samples(c) \in [1 .. N -> Nat]
  BY <1>5, <1>7
<1> HIDE DEF N
<1>9. Samples(c) \in Seq(Nat) /\ Len(Samples(c)) = N
  BY <1>1, <1>8
<1> QED BY <1>1, <1>9 DEF N

LEMMA NewWidthIs ==
    ASSUME NEW S, S \subseteq Event, IsFiniteSet(S), NEW c, Tidy(c, S),
           c.qSize = Cardinality(S)
    PROVE  NewWidth(c) \in Nat \ {0}
<1>1. CASE c.qSize < 2
  BY <1>1 DEF NewWidth
<1>2. CASE ~(c.qSize < 2)
  <2> DEFINE ts == Samples(c)
             N == Len(ts)
             diff == [i \in 1 .. N - 1 |-> ts[i + 1] - ts[i]]
             t == (Total(diff) \div (N - 1)) * 2
             near == [i \in DOMAIN diff |-> IF diff[i] <= t THEN diff[i] ELSE 0]
  <2>0. c.qSize \in Nat
    BY TidyType
  <2>1. ts \in Seq(Nat) /\ N \in Nat /\ N >= 2
    BY <1>2, <2>0, SamplesAre
  <2> HIDE DEF ts, N
  <2>2. \A i \in 1 .. N - 1 : ts[i + 1] - ts[i] \in Int
    <3>1. \A i \in 1 .. N : ts[i] \in Nat
      BY <2>1 DEF N
    <3>2. \A i \in 1 .. N - 1 : i \in 1 .. N /\ i + 1 \in 1 .. N
      BY <2>1
    <3> QED BY <3>1, <3>2
  <2>3. diff \in [1 .. N - 1 -> Int] /\ diff \in Seq(Int) /\ N - 1 \in Nat
    BY <2>1, <2>2
  <2> HIDE DEF diff
  <2>4. near \in [1 .. N - 1 -> Int]
    <3> HIDE DEF t
    <3> QED BY <2>3
  <2> HIDE DEF near
  <2>5. near \in Seq(Int)
    BY <2>3, <2>4
  <2>6. 3 * Total(near) \in Int
    <3>1. Total(near) \in Int
      BY <2>5, TotalIs
    <3> QED BY <3>1
  <2>7. NewWidth(c) = Max({1, 3 * Total(near)})
    BY <1>2 DEF NewWidth, near, diff, N, ts
  <2> QED BY <2>6, <2>7, PositiveMax
<1> QED BY <1>1, <1>2

\* The calendar c holds and counts the events of S, and has come to time p.
Keeps(c, S, p) ==
    /\ S \subseteq Event /\ IsFiniteSet(S)
    /\ Tidy(c, S) /\ c.qSize = Cardinality(S) /\ c.lastPrio = p

LEMMA EmptyKeeps == Keeps(EmptyCalendar, {}, 0)
<1>1. {} \subseteq Event /\ IsFiniteSet({}) /\ Cardinality({}) = 0
  BY FS_EmptySet
<1>2. EmptyCalendar = CalendarInit(2, 1, 0, {}, 0)
  BY DEF EmptyCalendar
<1>3. Tidy(CalendarInit(2, 1, 0, {}, 0), {}) /\ CalendarInit(2, 1, 0, {}, 0).lastPrio = 0
      /\ CalendarInit(2, 1, 0, {}, 0).qSize = 0
  <2> DEFINE S == {}
  <2>1. S \subseteq Event /\ IsFiniteSet(S) /\ \A e \in S : e.ts >= 0
    BY <1>1
  <2>2. 2 \in Nat \ {0} /\ 1 \in Nat \ {0} /\ 0 \in Nat
    OBVIOUS
  <2> HIDE DEF S
  <2> QED BY <2>1, <2>2, CalendarInitIs DEF S
<1> QED BY <1>1, <1>2, <1>3 DEF Keeps

\* A resize changes nothing of this.
LEMMA ResizeKeeps ==
    ASSUME NEW c, NEW S, NEW p, Keeps(c, S, p), NEW n \in Nat \ {0}
    PROVE  Keeps(Resize(c, n), S, p)
<1>1. /\ S \subseteq Event /\ IsFiniteSet(S) /\ Tidy(c, S) /\ c.qSize = Cardinality(S)
      /\ c.lastPrio = p
  BY DEF Keeps
<1>2. NewWidth(c) \in Nat \ {0}
  BY <1>1, NewWidthIs
<1>3. c.lastPrio \in Nat /\ c.qSize \in Nat /\ Stored(c) = S
      /\ \A e \in S : e.ts >= c.lastPrio
  BY <1>1, TidyType, TidyStored DEF Tidy
<1> DEFINE w == NewWidth(c)
           d == CalendarInit(n, w, c.lastPrio, S, c.qSize)
<1>4. Resize(c, n) = d
  BY <1>3 DEF Resize
<1> HIDE DEF w
<1>5. Tidy(d, S) /\ d.lastPrio = c.lastPrio /\ d.qSize = c.qSize
  BY <1>1, <1>2, <1>3, CalendarInitIs DEF w
<1> HIDE DEF d
<1> QED BY <1>1, <1>4, <1>5 DEF Keeps

LEMMA ResizesKeep ==
    ASSUME NEW c, NEW S, NEW p, Keeps(c, S, p)
    PROVE  Keeps(ResizeUp(c), S, p) /\ Keeps(ResizeDown(c), S, p)
<1>1. c.nBuckets \in Nat \ {0} /\ c.qSize \in Nat
  BY TidyType DEF Keeps
<1>2. Keeps(ResizeUp(c), S, p)
  <2>1. 2 * c.nBuckets \in Nat \ {0}
    BY <1>1
  <2>2. Keeps(Resize(c, 2 * c.nBuckets), S, p)
    BY <2>1, ResizeKeeps
  <2> QED BY <2>2 DEF ResizeUp
<1>3. Keeps(ResizeDown(c), S, p)
  <2>1. c.nBuckets \div 2 \in Nat
    BY <1>1, DayBounds
  <2>2. CASE c.qSize < c.nBuckets \div 2
    <3>1. c.nBuckets \div 2 \in Nat \ {0}
      BY <1>1, <2>1, <2>2
    <3>2. Keeps(Resize(c, c.nBuckets \div 2), S, p)
      BY <3>1, ResizeKeeps
    <3> QED BY <2>2, <3>2 DEF ResizeDown
  <2>3. CASE ~(c.qSize < c.nBuckets \div 2)
    BY <2>3 DEF ResizeDown
  <2> QED BY <2>2, <2>3
<1> QED BY <1>2, <1>3

\* The number of events is set.
LEMMA RecountedKeeps ==
    ASSUME NEW c, NEW S, S \subseteq Event, IsFiniteSet(S), Tidy(c, S), NEW q, q = Cardinality(S)
    PROVE  Keeps([c EXCEPT !.qSize = q], S, c.lastPrio)
<1>1. q \in Nat
  BY FS_CardinalityType
<1> DEFINE d == [c EXCEPT !.qSize = q]
<1>2. Becomes(d, d, S, c.lastPrio) /\ d.qSize = q
  BY <1>1, Recounted
<1> HIDE DEF d
<1>3. Keeps(d, S, c.lastPrio)
  BY <1>2 DEF Becomes, Keeps
<1> QED BY <1>3 DEF d

LEMMA CalendarInsertIs ==
    ASSUME NEW c, NEW S, NEW p, Keeps(c, S, p),
           NEW e \in Event, e \notin S, e.ts >= p
    PROVE  Keeps(CalendarInsert(c, e), S \cup {e}, p)
<1> DEFINE d == DoInsert(c, e)
           T == S \cup {e}
           q == d.qSize + 1
<1>1. /\ S \subseteq Event /\ IsFiniteSet(S) /\ Tidy(c, S) /\ c.qSize = Cardinality(S)
      /\ c.lastPrio = p
  BY DEF Keeps
<1>2. Tidy(d, T) /\ d.lastPrio = p /\ d.qSize = c.qSize
  BY <1>1, DoInsertIs
<1>3. T \subseteq Event /\ IsFiniteSet(T) /\ Cardinality(T) = Cardinality(S) + 1
  BY <1>1, FS_AddElement
<1>4. d \in Calendar
  BY <1>2 DEF Tidy
<1>5. CalendarInsert(c, e) = ResizeUp([d EXCEPT !.qSize = q])
  BY <1>4 DEF CalendarInsert
<1>6. q = Cardinality(T)
  BY <1>1, <1>2, <1>3
<1> HIDE DEF d, T, q
<1>7. Keeps([d EXCEPT !.qSize = q], T, p)
  BY <1>2, <1>3, <1>6, RecountedKeeps
<1>8. Keeps(ResizeUp([d EXCEPT !.qSize = q]), T, p)
  BY <1>7, ResizesKeep
<1> QED BY <1>5, <1>8 DEF T

LEMMA CalendarRemoveNextIs ==
    ASSUME NEW c, NEW S, NEW p, Keeps(c, S, p), S # {}
    PROVE  /\ CalendarNext(c) \in S
           /\ \A e \in S \ {CalendarNext(c)} : Before(CalendarNext(c), e)
           /\ Keeps(CalendarRemoveNext(c), S \ {CalendarNext(c)}, CalendarNext(c).ts)
<1> DEFINE e == CalendarNext(c)
           d == DoRemoveNext(c)
           T == S \ {e}
           q == d.qSize - 1
<1>1. /\ S \subseteq Event /\ IsFiniteSet(S) /\ Tidy(c, S) /\ c.qSize = Cardinality(S)
  BY DEF Keeps
<1>2. e \in S /\ \A f \in T : Before(e, f)
  BY <1>1, NextIs
<1>3. Becomes(d, c, T, e.ts)
  BY <1>1, DoRemoveNextIs
<1> HIDE DEF e, d
<1>4. T \subseteq Event /\ IsFiniteSet(T) /\ Cardinality(T) = Cardinality(S) - 1
  BY <1>1, <1>2, FS_RemoveElement
<1>5. d \in Calendar /\ Tidy(d, T) /\ d.lastPrio = e.ts /\ d.qSize = c.qSize
  BY <1>3 DEF Becomes, Tidy
<1>6. CalendarRemoveNext(c) = ResizeDown([d EXCEPT !.qSize = q])
  BY <1>5 DEF CalendarRemoveNext, d
<1>7. q = Cardinality(T)
  BY <1>1, <1>4, <1>5
<1> HIDE DEF T, q
<1>8. Keeps([d EXCEPT !.qSize = q], T, e.ts)
  BY <1>4, <1>5, <1>7, RecountedKeeps
<1>9. Keeps(ResizeDown([d EXCEPT !.qSize = q]), T, e.ts)
  BY <1>8, ResizesKeep
<1> QED BY <1>2, <1>6, <1>9 DEF T, e

LEMMA CalendarRemoveIs ==
    ASSUME NEW c, NEW S, NEW p, Keeps(c, S, p), Distinct(S), NEW e \in S
    PROVE  Keeps(CalendarRemove(c, e), S \ {e}, p)
<1> DEFINE b == Hash(c, e.ts)
           s == c.buckets[b]
           found == {i \in DOMAIN s : s[i].uid = e.uid}
           place == Min(found)
           r == Without(s, place)
           d == [c EXCEPT !.buckets = [c.buckets EXCEPT ![b] = r]]
           T == S \ {e}
           q == c.qSize - 1
<1>1. /\ S \subseteq Event /\ IsFiniteSet(S) /\ Tidy(c, S) /\ c.qSize = Cardinality(S)
      /\ c.lastPrio = p /\ c \in Calendar
  BY DEF Keeps, Tidy
<1>2. found # {} /\ Becomes(d, c, T, p)
  <2>1. Freed(c, S, e)
    BY <1>1, BucketWithout
  <2> QED BY <1>1, <2>1 DEF Freed
<1>3. CalendarRemove(c, e)
        = ResizeDown([c EXCEPT !.buckets = [c.buckets EXCEPT ![b] = r], !.qSize = q])
  BY <1>1, <1>2 DEF CalendarRemove, Without
<1> HIDE DEF r, b
<1>4. [c EXCEPT !.buckets = [c.buckets EXCEPT ![b] = r], !.qSize = q]
        = [d EXCEPT !.qSize = q]
  BY <1>1 DEF Calendar
<1> HIDE DEF d
<1>5. T \subseteq Event /\ IsFiniteSet(T) /\ Cardinality(T) = Cardinality(S) - 1
  BY <1>1, FS_RemoveElement
<1>6. d.lastPrio = p /\ Tidy(d, T) /\ q = Cardinality(T)
  BY <1>1, <1>2, <1>5 DEF Becomes
<1> HIDE DEF T, q
<1>7. Keeps([d EXCEPT !.qSize = q], T, p)
  BY <1>5, <1>6, RecountedKeeps
<1>8. Keeps(ResizeDown([d EXCEPT !.qSize = q]), T, p)
  BY <1>7, ResizesKeep
<1> QED BY <1>3, <1>4, <1>8 DEF T

\* Events that S lacks, one after the other, none before time p.
Joining(seq, S, p) ==
    /\ seq \in Seq(Event)
    /\ \A i, j \in 1 .. Len(seq) : seq[i] = seq[j] => i = j
    /\ \A i \in 1 .. Len(seq) : seq[i] \notin S /\ seq[i].ts >= p

FirstOf(seq, n) == {seq[i] : i \in 1 .. n}

\* Its n-th event joins S and those before it.
JoinsNext(seq, S, p, n) ==
    /\ n \in 0 .. Len(seq) /\ n - 1 \in 0 .. Len(seq)
    /\ seq[n] \in Event /\ seq[n].ts >= p
    /\ seq[n] \notin S \cup FirstOf(seq, n - 1)
    /\ (S \cup FirstOf(seq, n - 1)) \cup {seq[n]} = S \cup FirstOf(seq, n)
    /\ S \cup FirstOf(seq, n - 1) \subseteq Event

LEMMA NextJoins ==
    ASSUME NEW S, S \subseteq Event, NEW p, NEW seq, Joining(seq, S, p), NEW n \in 1 .. Len(seq)
    PROVE  JoinsNext(seq, S, p, n)
<1>1. /\ seq \in Seq(Event) /\ Len(seq) \in Nat
      /\ \A i \in 1 .. Len(seq) : seq[i] \in Event /\ seq[i] \notin S /\ seq[i].ts >= p
      /\ \A i, j \in 1 .. Len(seq) : seq[i] = seq[j] => i = j
  BY DEF Joining
<1>2. n - 1 \in 0 .. Len(seq) /\ \A i \in 1 .. n - 1 : i \in 1 .. Len(seq) /\ i # n
  BY <1>1
<1>3. seq[n] \notin FirstOf(seq, n - 1)
  BY <1>1, <1>2 DEF FirstOf
<1>4. FirstOf(seq, n - 1) \cup {seq[n]} = FirstOf(seq, n)
  <2>1. 1 .. n = (1 .. n - 1) \cup {n}
    BY <1>1
  <2> QED BY <2>1 DEF FirstOf
<1>5. FirstOf(seq, n - 1) \subseteq Event
  BY <1>1, <1>2 DEF FirstOf
<1> QED BY <1>1, <1>2, <1>3, <1>4, <1>5 DEF JoinsNext

LEMMA CalendarAllInserted ==
    ASSUME NEW c, NEW S, NEW p, Keeps(c, S, p), NEW seq, Joining(seq, S, p)
    PROVE  Keeps(AllInserted(CalendarInsert, c, seq), S \cup FirstOf(seq, Len(seq)), p)
<1> DEFINE N == Len(seq)
           X == [n \in 0 .. N |-> {d \in Calendar : Keeps(d, S \cup FirstOf(seq, n), p)}]
           step == [n \in 1 .. N |-> [d \in Calendar |-> CalendarInsert(d, seq[n])]]
           after == CHOOSE f : f = [n \in 0 .. N |->
                       IF n = 0 THEN c ELSE CalendarInsert(f[n - 1], seq[n])]
<1>1. N \in Nat /\ S \subseteq Event /\ c \in Calendar
  BY DEF Joining, Keeps, Tidy
<1>2. c \in X[0]
  <2>1. S \cup FirstOf(seq, 0) = S
    BY DEF FirstOf
  <2> HIDE DEF N
  <2> QED BY <1>1, <2>1
<1>3. ASSUME NEW n \in 1 .. N, NEW d \in X[n - 1]
      PROVE  CalendarInsert(d, seq[n]) \in X[n] /\ d \in Calendar
  <2> DEFINE T == S \cup FirstOf(seq, n - 1)
  <2>1. /\ n - 1 \in 0 .. N /\ n \in 0 .. N /\ seq[n] \in Event /\ seq[n].ts >= p
        /\ seq[n] \notin T /\ T \cup {seq[n]} = S \cup FirstOf(seq, n)
    <3>1. JoinsNext(seq, S, p, n)
      BY <1>1, NextJoins
    <3> HIDE DEF X
    <3> QED BY <3>1 DEF JoinsNext
  <2>2. Keeps(d, T, p) /\ d \in Calendar
    BY <1>3, <2>1
  <2> HIDE DEF T, N
  <2>3. Keeps(CalendarInsert(d, seq[n]), S \cup FirstOf(seq, n), p)
    <3>1. Keeps(CalendarInsert(d, seq[n]), T \cup {seq[n]}, p)
      BY <2>1, <2>2, CalendarInsertIs
    <3> QED BY <2>1, <3>1
  <2>4. CalendarInsert(d, seq[n]) \in Calendar
    BY <2>3 DEF Keeps, Tidy
  <2> QED BY <2>1, <2>2, <2>3, <2>4
<1>4. AllInserted(CalendarInsert, c, seq) = after[N]
  BY DEF AllInserted
<1> HIDE DEF N
<1>5. after = [n \in 0 .. N |-> IF n = 0 THEN c ELSE CalendarInsert(after[n - 1], seq[n])]
  <2>1. \A n \in 1 .. N : \A d \in X[n - 1] : step[n][d] = CalendarInsert(d, seq[n])
    <3> HIDE DEF X
    <3> QED BY <1>3
  <2> HIDE DEF step, X
  <2>2. PICK f : Unrolled(f, N, X, c, step)
    BY <1>1, <1>2, <1>3, <2>1, Unrolls
  <2>3. \A n \in 1 .. N : f[n] = CalendarInsert(f[n - 1], seq[n])
    <3>1. \A n \in 1 .. N : n - 1 \in 0 .. N
      BY <1>1
    <3> QED BY <2>1, <2>2, <3>1 DEF Unrolled
  <2>4. f = [n \in 0 .. N |-> IF n = 0 THEN c ELSE CalendarInsert(f[n - 1], seq[n])]
    <3>1. \A n \in 0 .. N : f[n] = IF n = 0 THEN c ELSE CalendarInsert(f[n - 1], seq[n])
      <4>1. f[0] = c
        BY <2>2 DEF Unrolled
      <4> QED BY <1>1, <2>3, <4>1
    <3>2. f = [n \in 0 .. N |-> f[n]]
      BY <2>2 DEF Unrolled
    <3> QED BY <3>1, <3>2
  <2> QED BY <2>4
<1> HIDE DEF after, X
<1>6. \A n \in 0 .. N : after[n] \in X[n]
  <2>1. after[0] \in X[0]
    BY <1>1, <1>2, <1>5
  <2>2. \A n \in 1 .. N : after[n - 1] \in X[n - 1] => after[n] \in X[n]
    <3> SUFFICES ASSUME NEW n \in 1 .. N, after[n - 1] \in X[n - 1] PROVE after[n] \in X[n]
      OBVIOUS
    <3>1. after[n] = CalendarInsert(after[n - 1], seq[n])
      BY <1>1, <1>5
    <3> QED BY <1>3, <3>1
  <2> QED BY <1>1, <2>1, <2>2, Along
<1>7. Keeps(after[N], S \cup FirstOf(seq, N), p)
  <2>1. after[N] \in X[N] /\ N \in 0 .. N
    BY <1>1, <1>6
  <2> QED BY <2>1 DEF X
<1> QED BY <1>4, <1>7 DEF N

\* The heap h is one of the events of S.
Heaped(h, S) == S \subseteq Event /\ Lists(h, S) /\ HeapOrdered(h)

LEMMA HeapAllInserted ==
    ASSUME NEW h, NEW S, Heaped(h, S), NEW seq, NEW p, Joining(seq, S, p)
    PROVE  Heaped(AllInserted(HeapInsert, h, seq), S \cup FirstOf(seq, Len(seq)))
<1> DEFINE N == Len(seq)
           X == [n \in 0 .. N |-> {g \in Seq(Event) : Heaped(g, S \cup FirstOf(seq, n))}]
           step == [n \in 1 .. N |-> [g \in Seq(Event) |-> HeapInsert(g, seq[n])]]
           after == CHOOSE f : f = [n \in 0 .. N |->
                       IF n = 0 THEN h ELSE HeapInsert(f[n - 1], seq[n])]
<1>1. N \in Nat /\ S \subseteq Event /\ h \in Seq(Event)
  BY DEF Joining, Heaped, Lists
<1>2. h \in X[0]
  <2>1. S \cup FirstOf(seq, 0) = S
    BY DEF FirstOf
  <2>2. h \in {g \in Seq(Event) : Heaped(g, S \cup FirstOf(seq, 0))}
    BY <1>1, <2>1
  <2>3. 0 \in 0 .. N
    BY <1>1
  <2> HIDE DEF N
  <2> QED BY <2>2, <2>3
<1>3. ASSUME NEW n \in 1 .. N, NEW g \in X[n - 1]
      PROVE  HeapInsert(g, seq[n]) \in X[n] /\ g \in Seq(Event)
  <2> DEFINE T == S \cup FirstOf(seq, n - 1)
             e == seq[n]
             r == HeapInsert(g, e)
  <2>1. /\ n - 1 \in 0 .. N /\ n \in 0 .. N /\ e \in Event
        /\ e \notin T /\ T \cup {e} = S \cup FirstOf(seq, n) /\ T \subseteq Event
    <3>1. JoinsNext(seq, S, p, n)
      BY <1>1, NextJoins
    <3> HIDE DEF X
    <3> QED BY <3>1 DEF JoinsNext
  <2>2. Heaped(g, T) /\ g \in Seq(Event)
    BY <1>3, <2>1
  <2> HIDE DEF T, N, e
  <2>3. Lists(r, T \cup {e}) /\ HeapOrdered(r)
    BY <2>1, <2>2, HeapInsertIs DEF Heaped
  <2> HIDE DEF r
  <2>4. Heaped(r, S \cup FirstOf(seq, n)) /\ r \in Seq(Event)
    BY <2>1, <2>3 DEF Heaped, Lists
  <2> QED BY <2>1, <2>2, <2>4 DEF r, e
<1>4. AllInserted(HeapInsert, h, seq) = after[N]
  BY DEF AllInserted
<1> HIDE DEF N
<1>5. after = [n \in 0 .. N |-> IF n = 0 THEN h ELSE HeapInsert(after[n - 1], seq[n])]
  <2>1. \A n \in 1 .. N : \A g \in X[n - 1] : step[n][g] = HeapInsert(g, seq[n])
    <3> HIDE DEF X
    <3> QED BY <1>3
  <2> HIDE DEF step, X
  <2>2. PICK f : Unrolled(f, N, X, h, step)
    BY <1>1, <1>2, <1>3, <2>1, Unrolls
  <2>3. \A n \in 1 .. N : f[n] = HeapInsert(f[n - 1], seq[n])
    <3>1. \A n \in 1 .. N : n - 1 \in 0 .. N
      BY <1>1
    <3> QED BY <2>1, <2>2, <3>1 DEF Unrolled
  <2>4. f = [n \in 0 .. N |-> IF n = 0 THEN h ELSE HeapInsert(f[n - 1], seq[n])]
    <3>1. \A n \in 0 .. N : f[n] = IF n = 0 THEN h ELSE HeapInsert(f[n - 1], seq[n])
      <4>1. f[0] = h
        BY <2>2 DEF Unrolled
      <4> QED BY <1>1, <2>3, <4>1
    <3>2. f = [n \in 0 .. N |-> f[n]]
      BY <2>2 DEF Unrolled
    <3> QED BY <3>1, <3>2
  <2> QED BY <2>4
<1> HIDE DEF after, X
<1>6. \A n \in 0 .. N : after[n] \in X[n]
  <2>1. after[0] \in X[0]
    BY <1>1, <1>2, <1>5
  <2>2. \A n \in 1 .. N : after[n - 1] \in X[n - 1] => after[n] \in X[n]
    <3> SUFFICES ASSUME NEW n \in 1 .. N, after[n - 1] \in X[n - 1] PROVE after[n] \in X[n]
      OBVIOUS
    <3>1. after[n] = HeapInsert(after[n - 1], seq[n])
      BY <1>1, <1>5
    <3> QED BY <1>3, <3>1
  <2> QED BY <1>1, <2>1, <2>2, Along
<1>7. Heaped(after[N], S \cup FirstOf(seq, N))
  <2>1. after[N] \in X[N] /\ N \in 0 .. N
    BY <1>1, <1>6
  <2> QED BY <2>1 DEF X
<1> QED BY <1>4, <1>7 DEF N

\* Whatever a heap holds, BottomUp() and TopDown() leave it a heap of events.
LEMMA BottomUpType ==
    ASSUME NEW h \in Seq(Event), Len(h) >= 1
    PROVE  BottomUp(h) \in Seq(Event)
<1> DEFINE N == Len(h)
           s0 == [heap |-> h, at |-> Len(h)]
           U == {s \in [heap : Seq(Event), at : Nat] : Len(s.heap) = N /\ s.at \in 1 .. N}
           X == [n \in 0 .. N |-> U]
           step == [n \in 1 .. N |-> [s \in U |-> Rise(s)]]
           turn == CHOOSE f : f = [n \in 0 .. N |-> IF n = 0 THEN s0 ELSE Rise(f[n - 1])]
<1>1. N \in Nat /\ s0 \in U
  OBVIOUS
<1>2. ASSUME NEW s \in U PROVE Rise(s) \in U
  <2> HIDE DEF N
  <2>1. s.heap \in Seq(Event) /\ Len(s.heap) = N /\ s.at \in 1 .. N
    OBVIOUS
  <2>2. CASE Rise(s) = s
    BY <2>2
  <2>3. CASE Rise(s) # s
    <3>1. s.at # 1 /\ Rise(s) = [heap |-> Exch(s.heap, s.at, s.at \div 2), at |-> s.at \div 2]
      BY <2>3 DEF Rise
    <3>2. s.at \div 2 \in 1 .. N
      <4>1. s.at \in 2 .. N
        BY <1>1, <2>1, <3>1
      <4> QED BY <1>1, <4>1, Halves
    <3> DEFINE p == s.at \div 2
    <3> HIDE DEF p
    <3>3. Exch(s.heap, s.at, p) \in Seq(Event) /\ Len(Exch(s.heap, s.at, p)) = N
      BY <2>1, <3>2, ExchIs DEF p
    <3>4. [heap |-> Exch(s.heap, s.at, p), at |-> p] \in U
      BY <1>1, <3>2, <3>3 DEF p
    <3> QED BY <3>1, <3>4 DEF p
  <2> QED BY <2>2, <2>3
<1>3. BottomUp(h) = turn[N].heap
  BY DEF BottomUp
<1> HIDE DEF N, U, s0
<1>4. turn = [n \in 0 .. N |-> IF n = 0 THEN s0 ELSE Rise(turn[n - 1])]
  <2>1. \A n \in 1 .. N : \A s \in X[n - 1] : step[n][s] = Rise(s) /\ step[n][s] \in X[n]
    BY <1>1, <1>2
  <2>2. s0 \in X[0]
    BY <1>1
  <2>3. \A n \in 1 .. N : n - 1 \in 0 .. N
    BY <1>1
  <2> HIDE DEF X, step
  <2>4. PICK f : Unrolled(f, N, X, s0, step)
    BY <1>1, <2>1, <2>2, Unrolls
  <2>5. \A n \in 1 .. N : f[n] = Rise(f[n - 1])
    BY <2>1, <2>3, <2>4 DEF Unrolled
  <2>6. \A n \in 0 .. N : f[n] = IF n = 0 THEN s0 ELSE Rise(f[n - 1])
    <3>1. f[0] = s0
      BY <2>4 DEF Unrolled
    <3> QED BY <1>1, <2>5, <3>1
  <2>7. f = [n \in 0 .. N |-> f[n]]
    BY <2>4 DEF Unrolled
  <2>8. f = [n \in 0 .. N |-> IF n = 0 THEN s0 ELSE Rise(f[n - 1])]
    BY <2>6, <2>7
  <2> QED BY <2>8
<1> HIDE DEF turn
<1>5. \A n \in 0 .. N : turn[n] \in X[n]
  <2>1. turn[0] \in X[0]
    BY <1>1, <1>4
  <2>2. \A n \in 1 .. N : turn[n - 1] \in X[n - 1] => turn[n] \in X[n]
    <3> SUFFICES ASSUME NEW n \in 1 .. N, turn[n - 1] \in X[n - 1] PROVE turn[n] \in X[n]
      OBVIOUS
    <3>1. turn[n] = Rise(turn[n - 1]) /\ turn[n - 1] \in U
      BY <1>1, <1>4
    <3>2. Rise(turn[n - 1]) \in U
      BY <1>2, <3>1
    <3> QED BY <1>1, <3>1, <3>2
  <2> HIDE DEF X
  <2> QED BY <1>1, <2>1, <2>2, Along
<1>6. turn[N] \in U
  BY <1>1, <1>5
<1> QED BY <1>3, <1>6 DEF U

LEMMA TopDownType ==
    ASSUME NEW h \in Seq(Event), NEW index \in Nat \ {0}
    PROVE  TopDown(h, index) \in Seq(Event)
<1> DEFINE N == Len(h)
           s0 == [heap |-> h, at |-> index]
           U == {s \in [heap : Seq(Event), at : Nat \ {0}] : Len(s.heap) = N}
           X == [n \in 0 .. N |-> U]
           step == [n \in 1 .. N |-> [s \in U |-> Sink(s)]]
           turn == CHOOSE f : f = [n \in 0 .. N |-> IF n = 0 THEN s0 ELSE Sink(f[n - 1])]
<1>1. N \in Nat /\ s0 \in U
  OBVIOUS
<1>2. ASSUME NEW s \in U PROVE Sink(s) \in U
  <2> HIDE DEF N
  <2> DEFINE left == 2 * s.at
             child == IF left + 1 > Len(s.heap) \/ Before(s.heap[left], s.heap[left + 1])
                      THEN left ELSE left + 1
  <2>1. s.heap \in Seq(Event) /\ Len(s.heap) = N /\ s.at \in Nat \ {0}
    OBVIOUS
  <2>2. CASE Sink(s) = s
    BY <2>2
  <2>3. CASE Sink(s) # s
    <3>1. ~(left > N) /\ Sink(s) = [heap |-> Exch(s.heap, s.at, child), at |-> child]
      BY <2>1, <2>3 DEF Sink
    <3>2. s.at \in 1 .. N /\ child \in 1 .. N
      <4>1. left \in 1 .. N /\ s.at \in 1 .. N /\ (left + 1 > N \/ left + 1 \in 1 .. N)
        BY <1>1, <2>1, <3>1
      <4> HIDE DEF left
      <4> QED BY <2>1, <4>1
    <3> HIDE DEF child
    <3>3. Exch(s.heap, s.at, child) \in Seq(Event) /\ Len(Exch(s.heap, s.at, child)) = N
      BY <2>1, <3>2, ExchIs
    <3>4. child \in Nat \ {0}
      BY <1>1, <3>2
    <3>5. [heap |-> Exch(s.heap, s.at, child), at |-> child] \in U
      BY <3>3, <3>4
    <3> QED BY <3>1, <3>5
  <2> QED BY <2>2, <2>3
<1>3. TopDown(h, index) = turn[N].heap
  BY DEF TopDown
<1> HIDE DEF N, U, s0
<1>4. turn = [n \in 0 .. N |-> IF n = 0 THEN s0 ELSE Sink(turn[n - 1])]
  <2>1. \A n \in 1 .. N : \A s \in X[n - 1] : step[n][s] = Sink(s) /\ step[n][s] \in X[n]
    BY <1>1, <1>2
  <2>2. s0 \in X[0]
    BY <1>1
  <2>3. \A n \in 1 .. N : n - 1 \in 0 .. N
    BY <1>1
  <2> HIDE DEF X, step
  <2>4. PICK f : Unrolled(f, N, X, s0, step)
    BY <1>1, <2>1, <2>2, Unrolls
  <2>5. \A n \in 1 .. N : f[n] = Sink(f[n - 1])
    BY <2>1, <2>3, <2>4 DEF Unrolled
  <2>6. \A n \in 0 .. N : f[n] = IF n = 0 THEN s0 ELSE Sink(f[n - 1])
    <3>1. f[0] = s0
      BY <2>4 DEF Unrolled
    <3> QED BY <1>1, <2>5, <3>1
  <2>7. f = [n \in 0 .. N |-> f[n]]
    BY <2>4 DEF Unrolled
  <2>8. f = [n \in 0 .. N |-> IF n = 0 THEN s0 ELSE Sink(f[n - 1])]
    BY <2>6, <2>7
  <2> QED BY <2>8
<1> HIDE DEF turn
<1>5. \A n \in 0 .. N : turn[n] \in X[n]
  <2>1. turn[0] \in X[0]
    BY <1>1, <1>4
  <2>2. \A n \in 1 .. N : turn[n - 1] \in X[n - 1] => turn[n] \in X[n]
    <3> SUFFICES ASSUME NEW n \in 1 .. N, turn[n - 1] \in X[n - 1] PROVE turn[n] \in X[n]
      OBVIOUS
    <3>1. turn[n] = Sink(turn[n - 1]) /\ turn[n - 1] \in U
      BY <1>1, <1>4
    <3>2. Sink(turn[n - 1]) \in U
      BY <1>2, <3>1
    <3> QED BY <1>1, <3>1, <3>2
  <2> HIDE DEF X
  <2> QED BY <1>1, <2>1, <2>2, Along
<1>6. turn[N] \in U
  BY <1>1, <1>5
<1> QED BY <1>3, <1>6 DEF U

LEMMA HeapTypes ==
    ASSUME NEW h \in Seq(Event), NEW e \in Event
    PROVE  /\ HeapInsert(h, e) \in Seq(Event)
           /\ \A i \in DOMAIN h : HeapErase(h, i) \in Seq(Event)
           /\ HeapRemoveNext(h) \in Seq(Event)
           /\ HeapRemove(h, e) \in Seq(Event)
<1>1. HeapInsert(h, e) \in Seq(Event)
  <2>1. Append(h, e) \in Seq(Event) /\ Len(Append(h, e)) >= 1
    OBVIOUS
  <2> QED BY <2>1, BottomUpType DEF HeapInsert
<1>2. ASSUME NEW i \in DOMAIN h PROVE HeapErase(h, i) \in Seq(Event)
  <2>1. Len(h) \in Nat /\ i \in 1 .. Len(h) /\ Len(h) \in 1 .. Len(h)
    OBVIOUS
  <2> DEFINE x == Exch(h, i, Len(h))
  <2>2. x \in Seq(Event) /\ Len(x) = Len(h)
    BY <2>1, ExchIs
  <2> HIDE DEF x
  <2>3. SubSeq(x, 1, Len(h) - 1) \in Seq(Event)
    BY <2>1, <2>2
  <2>4. i \in Nat \ {0}
    BY <2>1
  <2> QED BY <2>3, <2>4, TopDownType DEF HeapErase, x
<1>3. HeapRemoveNext(h) \in Seq(Event)
  <2>1. CASE h # <<>>
    <3>1. 1 \in DOMAIN h
      BY <2>1
    <3> QED BY <1>2, <3>1 DEF HeapRemoveNext
  <2>2. CASE h = <<>>
    <3> DEFINE x == Exch(h, 1, Len(h))
    <3>1. x = <<>>
      BY <2>2 DEF Exch
    <3>2. SubSeq(x, 1, Len(h) - 1) \in Seq(Event)
      <4>1. SubSeq(<<>>, 1, -1) = <<>>
        OBVIOUS
      <4>2. Len(h) - 1 = -1
        BY <2>2
      <4> QED BY <3>1, <4>1, <4>2
    <3> DEFINE y == SubSeq(x, 1, Len(h) - 1)
    <3>3. HeapRemoveNext(h) = TopDown(y, 1)
      BY DEF HeapRemoveNext, HeapErase
    <3>4. y \in Seq(Event) /\ 1 \in Nat \ {0}
      BY <3>2
    <3> HIDE DEF y
    <3> QED BY <3>3, <3>4, TopDownType
  <2> QED BY <2>1, <2>2
<1>4. HeapRemove(h, e) \in Seq(Event)
  <2> DEFINE found == {i \in DOMAIN h : h[i].uid = e.uid}
             at == CHOOSE i \in found : TRUE
  <2>1. found # {} => at \in DOMAIN h
    OBVIOUS
  <2>2. HeapRemove(h, e) = IF found = {} THEN h ELSE HeapErase(h, at)
    BY DEF HeapRemove
  <2> HIDE DEF found, at
  <2> QED BY <1>2, <2>1, <2>2
<1> QED BY <1>1, <1>2, <1>3, <1>4

LEMMA HeapAllInsertedType ==
    ASSUME NEW h \in Seq(Event), NEW seq \in Seq(Event)
    PROVE  AllInserted(HeapInsert, h, seq) \in Seq(Event)
<1> DEFINE N == Len(seq)
           U == Seq(Event)
           X == [n \in 0 .. N |-> U]
           step == [n \in 1 .. N |-> [g \in U |-> HeapInsert(g, seq[n])]]
           after == CHOOSE f : f = [n \in 0 .. N |->
                       IF n = 0 THEN h ELSE HeapInsert(f[n - 1], seq[n])]
<1>1. N \in Nat /\ h \in U
  OBVIOUS
<1>2. ASSUME NEW n \in 1 .. N, NEW g \in U PROVE HeapInsert(g, seq[n]) \in U
  <2>1. seq[n] \in Event
    OBVIOUS
  <2> QED BY <2>1, HeapTypes
<1>3. AllInserted(HeapInsert, h, seq) = after[N]
  BY DEF AllInserted
<1> HIDE DEF N, U
<1>4. after = [n \in 0 .. N |-> IF n = 0 THEN h ELSE HeapInsert(after[n - 1], seq[n])]
  <2>1. \A n \in 1 .. N : \A g \in X[n - 1] :
           step[n][g] = HeapInsert(g, seq[n]) /\ step[n][g] \in X[n]
    BY <1>1, <1>2
  <2>2. h \in X[0]
    BY <1>1
  <2>3. \A n \in 1 .. N : n - 1 \in 0 .. N
    BY <1>1
  <2> HIDE DEF X, step
  <2>4. PICK f : Unrolled(f, N, X, h, step)
    BY <1>1, <2>1, <2>2, Unrolls
  <2>5. \A n \in 1 .. N : f[n] = HeapInsert(f[n - 1], seq[n])
    BY <2>1, <2>3, <2>4 DEF Unrolled
  <2>6. \A n \in 0 .. N : f[n] = IF n = 0 THEN h ELSE HeapInsert(f[n - 1], seq[n])
    <3>1. f[0] = h
      BY <2>4 DEF Unrolled
    <3> QED BY <1>1, <2>5, <3>1
  <2>7. f = [n \in 0 .. N |-> f[n]]
    BY <2>4 DEF Unrolled
  <2>8. f = [n \in 0 .. N |-> IF n = 0 THEN h ELSE HeapInsert(f[n - 1], seq[n])]
    BY <2>6, <2>7
  <2> QED BY <2>8
<1> HIDE DEF after
<1>5. \A n \in 0 .. N : after[n] \in X[n]
  <2>1. after[0] \in X[0]
    BY <1>1, <1>4
  <2>2. \A n \in 1 .. N : after[n - 1] \in X[n - 1] => after[n] \in X[n]
    <3> SUFFICES ASSUME NEW n \in 1 .. N, after[n - 1] \in X[n - 1] PROVE after[n] \in X[n]
      OBVIOUS
    <3>1. after[n] = HeapInsert(after[n - 1], seq[n]) /\ after[n - 1] \in U
      BY <1>1, <1>4
    <3>2. HeapInsert(after[n - 1], seq[n]) \in U
      BY <1>2, <3>1
    <3> QED BY <1>1, <3>1, <3>2
  <2> HIDE DEF X
  <2> QED BY <1>1, <2>1, <2>2, Along
<1> QED BY <1>1, <1>3, <1>5 DEF U

-----------------------------------------------------------------------------
(* The simulator with its other schedulers.                                *)

\* Both lists are lists of events; the calendar holds what the event list
\* holds, and has not come further than the clock.
LInv ==
    /\ IInv
    /\ heap \in Seq(Event)
    /\ Keeps(calendar, events, calendar.lastPrio) /\ calendar.lastPrio <= cur.ts

LEMMA ListsSteps == ListsNext => [Next]_vars
<1> SUFFICES ASSUME ListsNext PROVE [Next]_vars
  OBVIOUS
<1>1. CASE Insertion
  BY <1>1 DEF Insertion, Next, Loop
<1>2. CASE Elsewhere
  BY <1>2 DEF Elsewhere, Next, Loop
<1>3. CASE SetScheduler
  BY <1>3 DEF SetScheduler
<1>4. ASSUME NEW id \in ids, Removal(id) PROVE Next
  BY <1>4 DEF Removal, Next
<1>5. ASSUME NEW e \in events, Extraction(e) PROVE Next
  BY <1>5 DEF Extraction, Next, Loop
<1> QED BY <1>1, <1>2, <1>3, <1>4, <1>5 DEF ListsNext

\* The sequence g of new events, numbered from uid on, is what is Scheduled.
Numbered(g) ==
    /\ g \in Seq(Event)
    /\ \A i \in 1 .. Len(g) : g[i].uid = uid + i - 1 /\ g[i].ts >= cur.ts
    /\ events' = events \cup FirstOf(g, Len(g))
    /\ uid' = uid + Len(g)

LEMMA ScheduledIs ==
    ASSUME IInv, NEW g, Numbered(g)
    PROVE  Scheduled = g /\ \A p \in Nat : p <= cur.ts => Joining(g, events, p)
<1>0. /\ g \in Seq(Event) /\ Len(g) \in Nat /\ uid' = uid + Len(g)
      /\ \A i \in 1 .. Len(g) : /\ g[i] \in Event /\ g[i].uid = uid + i - 1
                                /\ g[i].ts >= cur.ts
  BY DEF Numbered
<1>1. /\ uid \in Nat /\ cur.ts \in Nat
      /\ \A e \in events : e.uid \in Nat /\ e.uid < uid
      /\ \A e \in Event : e.ts \in Nat
  BY DEF IInv, TypeOK, Event, Fresh, Known
<1> USE <1>0
<1>2. ASSUME NEW i \in 1 .. Len(g)
      PROVE  (CHOOSE e \in events' : e.uid = uid + i - 1) = g[i]
  <2>1. g[i] \in events'
    BY DEF Numbered, FirstOf
  <2>2. ASSUME NEW e \in events', e.uid = uid + i - 1 PROVE e = g[i]
    <3>1. e \notin events
      BY <1>1, <2>2
    <3>2. PICK j \in 1 .. Len(g) : e = g[j]
      BY <3>1 DEF Numbered, FirstOf
    <3>3. i = j
      BY <1>1, <2>2, <3>2
    <3> QED BY <3>2, <3>3
  <2>3. g[i].uid = uid + i - 1
    BY <1>1
  <2> QED BY <2>1, <2>2, <2>3
<1>3. Scheduled = g
  <2>1. uid' - uid = Len(g)
    BY <1>1
  <2>2. Scheduled = [i \in 1 .. Len(g) |-> g[i]]
    BY <1>2, <2>1 DEF Scheduled
  <2>3. g = [i \in 1 .. Len(g) |-> g[i]]
    BY <1>1
  <2> QED BY <2>2, <2>3
<1>4. ASSUME NEW p \in Nat, p <= cur.ts PROVE Joining(g, events, p)
  <2>1. \A i, j \in 1 .. Len(g) : g[i] = g[j] => i = j
    <3> SUFFICES ASSUME NEW i \in 1 .. Len(g), NEW j \in 1 .. Len(g), g[i] = g[j] PROVE i = j
      OBVIOUS
    <3>1. uid + i - 1 = uid + j - 1
      BY <1>1
    <3> QED BY <1>1, <3>1
  <2>2. \A i \in 1 .. Len(g) : g[i] \notin events
    <3> SUFFICES ASSUME NEW i \in 1 .. Len(g) PROVE g[i] \notin events
      OBVIOUS
    <3>1. g[i].uid >= uid
      BY <1>1
    <3> QED BY <1>1, <3>1
  <2>3. \A i \in 1 .. Len(g) : g[i].ts >= p
    BY <1>1, <1>4
  <2> QED BY <1>1, <2>1, <2>2, <2>3 DEF Joining
<1> QED BY <1>3, <1>4

LEMMA InsertionNumbers ==
    ASSUME IInv, ProcessSwap \/ \E delay \in Delays : Schedule(delay)
    PROVE  cur' = cur /\ \E g : Numbered(g)
<1>1. uid \in Nat /\ cur.ts \in Nat /\ inbox \in Seq(Nat)
  BY DEF IInv, TypeOK, Event
<1>2. CASE ProcessSwap
  <2> DEFINE n == Len(inbox)
             g == [i \in 1 .. n |-> [ts |-> cur.ts + inbox[i], uid |-> uid + i - 1]]
  <2>1. n \in Nat /\ DOMAIN inbox = 1 .. n /\ \A i \in 1 .. n : inbox[i] \in Nat
    BY <1>1
  <2>2. /\ events' = events \cup Moved /\ uid' = uid + n /\ cur' = cur
    BY <1>2 DEF ProcessSwap
  <2> HIDE DEF n
  <2>3. \A i \in 1 .. n : /\ g[i] \in Event /\ g[i].uid = uid + i - 1 /\ g[i].ts >= cur.ts
                          /\ g[i] = [ts |-> cur.ts + inbox[i], uid |-> uid + i - 1]
    <3> SUFFICES ASSUME NEW i \in 1 .. n
                 PROVE  /\ g[i] \in Event /\ g[i].uid = uid + i - 1 /\ g[i].ts >= cur.ts
                        /\ g[i] = [ts |-> cur.ts + inbox[i], uid |-> uid + i - 1]
      OBVIOUS
    <3>1. uid + i - 1 \in Nat /\ cur.ts + inbox[i] \in Nat /\ cur.ts + inbox[i] >= cur.ts
      BY <1>1, <2>1
    <3> QED BY <3>1 DEF Event
  <2>4. g \in Seq(Event) /\ Len(g) = n
    <3>1. g \in [1 .. n -> Event]
      BY <2>3
    <3> HIDE DEF g
    <3> QED BY <2>1, <3>1
  <2> HIDE DEF g
  <2>5. Moved = FirstOf(g, n)
    BY <2>1, <2>3 DEF Moved, FirstOf
  <2>6. Numbered(g)
    BY <2>2, <2>3, <2>4, <2>5 DEF Numbered
  <2> QED BY <2>2, <2>6
<1>3. ASSUME NEW delay \in Delays, Schedule(delay)
      PROVE  cur' = cur /\ \E g : Numbered(g)
  <2> DEFINE e == [ts |-> cur.ts + delay, uid |-> uid]
             g == <<e>>
  <2>1. e \in Event /\ e.uid = uid /\ e.ts >= cur.ts
    BY <1>1, SimulatorAssumption DEF Event
  <2>2. events' = events \cup {e} /\ uid' = uid + 1 /\ cur' = cur
    BY <1>3 DEF Schedule
  <2> HIDE DEF e
  <2>3. g \in Seq(Event) /\ Len(g) = 1 /\ g[1] = e
    BY <2>1
  <2>4. FirstOf(g, 1) = {e}
    BY <2>3 DEF FirstOf
  <2>5. Numbered(g)
    <3> HIDE DEF g
    <3>1. \A i \in 1 .. 1 : g[i].uid = uid + i - 1 /\ g[i].ts >= cur.ts
      BY <1>1, <2>1, <2>3
    <3> QED BY <2>2, <2>3, <2>4, <3>1 DEF Numbered
  <2> QED BY <2>2, <2>5
<1> QED BY <1>2, <1>3

\* What the insertions of a step add to a list.
LEMMA InsertionJoins ==
    ASSUME IInv, Insertion
    PROVE  /\ cur' = cur
           /\ events' = events \cup FirstOf(Scheduled, Len(Scheduled))
           /\ Scheduled \in Seq(Event)
           /\ \A p \in Nat : p <= cur.ts => Joining(Scheduled, events, p)
<1>1. PICK g : Numbered(g) /\ cur' = cur
  BY InsertionNumbers DEF Insertion
<1>2. Scheduled = g /\ \A p \in Nat : p <= cur.ts => Joining(g, events, p)
  BY <1>1, ScheduledIs
<1>3. g \in Seq(Event) /\ events' = events \cup FirstOf(g, Len(g))
  BY <1>1 DEF Numbered
<1> QED BY <1>1, <1>2, <1>3

\* What SetScheduler() hands to the new list.
LEMMA OrderedJoins ==
    ASSUME IInv
    PROVE  /\ Joining(InOrder(events), {}, 0)
           /\ FirstOf(InOrder(events), Len(InOrder(events))) = events
<1> DEFINE s == InOrder(events)
<1>1. Sorts(s, events)
  BY InOrderIs DEF IInv, TypeOK
<1> HIDE DEF s
<1>2. /\ s \in Seq(Event) /\ Len(s) \in Nat
      /\ \A i \in 1 .. Len(s) : s[i] \in events /\ s[i] \in Event /\ s[i].ts >= 0
      /\ \A i, j \in 1 .. Len(s) : i < j => Before(s[i], s[j])
      /\ \A e \in events : \E i \in 1 .. Len(s) : s[i] = e
  <2>1. \A e \in Event : e.ts >= 0
    BY DEF Event
  <2> QED BY <1>1, <2>1 DEF Sorts
<1>3. \A i, j \in 1 .. Len(s) : s[i] = s[j] => i = j
  <2> SUFFICES ASSUME NEW i \in 1 .. Len(s), NEW j \in 1 .. Len(s), i < j
               PROVE  s[i] # s[j]
    BY <1>2
  <2>1. Before(s[i], s[j]) /\ s[i] \in Event
    BY <1>2
  <2> QED BY <2>1, BeforeOrder
<1>4. FirstOf(s, Len(s)) = events
  BY <1>2 DEF FirstOf
<1>5. Joining(s, {}, 0)
  BY <1>2, <1>3 DEF Joining
<1> QED BY <1>4, <1>5 DEF s

LEMMA EventsDistinct ==
    ASSUME IInv
    PROVE  Distinct(events) /\ events \subseteq Event /\ IsFiniteSet(events) /\ cur.ts \in Nat
BY DEF IInv, Unique, Known, Distinct, TypeOK, Event

LEMMA RemovedPending ==
    ASSUME IInv, NEW id \in ids, Remove(id)
    PROVE  id \in events /\ events' = events \ {id} /\ cur' = cur
BY DEF IInv, ExpiredExact, Remove

LEMMA OthersKeepEvents ==
    ASSUME IInv, Elsewhere \/ SetScheduler \/ UNCHANGED allVars
    PROVE  events' = events /\ cur' = cur
<1>1. TypeOK
  BY DEF IInv
<1>2. CASE UNCHANGED vars
  BY <1>2 DEF vars, main
<1>3. CASE Other
  BY <1>1, <1>3, OtherUnchanged
<1>4. ASSUME NEW id \in ids, Cancel(id) PROVE events' = events /\ cur' = cur
  BY <1>4 DEF Cancel
<1> QED BY <1>2, <1>3, <1>4 DEF Elsewhere, SetScheduler, Other, allVars

-----------------------------------------------------------------------------
(* The calendar, action by action.                                         *)

CInv == Keeps(calendar, events, calendar.lastPrio) /\ calendar.lastPrio <= cur.ts

LEMMA LastPrioIs == ASSUME CInv PROVE calendar.lastPrio \in Nat
BY TidyType DEF CInv, Keeps

LEMMA CalendarInsertion ==
    ASSUME IInv, CInv, Insertion
    PROVE  CInv'
<1> DEFINE p == calendar.lastPrio
           d == AllInserted(CalendarInsert, calendar, Scheduled)
<1>1. p \in Nat /\ p <= cur.ts /\ Keeps(calendar, events, p)
  BY LastPrioIs DEF CInv
<1>2. /\ cur' = cur /\ events' = events \cup FirstOf(Scheduled, Len(Scheduled))
      /\ Joining(Scheduled, events, p)
  BY <1>1, InsertionJoins
<1>3. calendar' = d
  BY DEF Insertion
<1> HIDE DEF p
<1>4. Keeps(d, events', p)
  BY <1>1, <1>2, CalendarAllInserted
<1>5. calendar'.lastPrio = p
  BY <1>3, <1>4 DEF Keeps
<1> HIDE DEF d
<1> QED BY <1>1, <1>2, <1>3, <1>4, <1>5 DEF CInv

LEMMA CalendarRemoval ==
    ASSUME IInv, CInv, NEW id \in ids, Removal(id)
    PROVE  CInv'
<1> DEFINE p == calendar.lastPrio
           d == CalendarRemove(calendar, id)
<1>1. p <= cur.ts /\ Keeps(calendar, events, p)
  BY DEF CInv
<1>2. id \in events /\ events' = events \ {id} /\ cur' = cur /\ calendar' = d
  BY RemovedPending DEF Removal
<1> HIDE DEF p
<1>3. Keeps(d, events', p)
  BY <1>1, <1>2, CalendarRemoveIs, EventsDistinct
<1>4. calendar'.lastPrio = p
  BY <1>2, <1>3 DEF Keeps
<1> HIDE DEF d
<1> QED BY <1>1, <1>2, <1>3, <1>4 DEF CInv

LEMMA CalendarExtraction ==
    ASSUME IInv, CInv, NEW e \in events, Extraction(e)
    PROVE  CInv'
<1> DEFINE f == CalendarNext(calendar)
           d == CalendarRemoveNext(calendar)
<1>1. /\ events' = events \ {e} /\ cur' = e /\ calendar' = d
      /\ \A g \in events \ {e} : Before(e, g)
  BY DEF Extraction, ProcessOneEvent, IsEarliest
<1>2. /\ f \in events /\ \A g \in events \ {f} : Before(f, g)
      /\ Keeps(d, events \ {f}, f.ts)
  BY CalendarRemoveNextIs DEF CInv
<1> HIDE DEF f, d
<1>3. f = e
  <2>1. e \in Event /\ f \in Event
    BY <1>2, EventsDistinct
  <2> QED BY <1>1, <1>2, <2>1, BeforeOrder
<1>4. Keeps(calendar', events', e.ts) /\ e.ts \in Nat
  BY <1>1, <1>2, <1>3, EventsDistinct DEF Event
<1>5. calendar'.lastPrio = e.ts
  BY <1>4 DEF Keeps
<1> QED BY <1>1, <1>4, <1>5 DEF CInv

LEMMA CalendarSet ==
    ASSUME IInv, SetScheduler
    PROVE  CInv'
<1> DEFINE s == InOrder(events)
           d == AllInserted(CalendarInsert, EmptyCalendar, s)
<1>1. Joining(s, {}, 0) /\ FirstOf(s, Len(s)) = events
  BY OrderedJoins
<1>2. calendar' = d
  BY DEF SetScheduler
<1>3. events' = events /\ cur' = cur /\ cur.ts \in Nat
  BY OthersKeepEvents, EventsDistinct
<1> HIDE DEF s
<1>4. Keeps(d, {} \cup FirstOf(s, Len(s)), 0)
  BY <1>1, EmptyKeeps, CalendarAllInserted
<1> HIDE DEF d
<1>5. Keeps(calendar', events', 0)
  BY <1>1, <1>2, <1>3, <1>4
<1>6. calendar'.lastPrio = 0
  BY <1>5 DEF Keeps
<1> QED BY <1>3, <1>5, <1>6 DEF CInv

LEMMA CalendarStep == IInv /\ CInv /\ [ListsNext]_allVars => CInv'
<1> SUFFICES ASSUME IInv, CInv, [ListsNext]_allVars PROVE CInv'
  OBVIOUS
<1>1. CASE Elsewhere \/ UNCHANGED allVars
  <2>1. events' = events /\ cur' = cur
    BY <1>1, OthersKeepEvents
  <2>2. calendar' = calendar
    BY <1>1 DEF Elsewhere, allVars, stores
  <2> QED BY <2>1, <2>2 DEF CInv
<1> QED BY <1>1, CalendarInsertion, CalendarRemoval, CalendarExtraction, CalendarSet
        DEF ListsNext

-----------------------------------------------------------------------------
(* The heap, action by action.                                             *)

\* The heap is the event list.
HInv == Heaped(heap, events)

LEMMA EmptyHeaped == Heaped(<<>>, {})
<1>1. <<>> \in Seq(Event) /\ Len(<<>>) = 0
  OBVIOUS
<1> QED BY <1>1 DEF Heaped, Lists, HeapOrdered

LEMMA HeapInsertion ==
    ASSUME IInv, HInv, Insertion
    PROVE  HInv'
<1> DEFINE h == AllInserted(HeapInsert, heap, Scheduled)
<1>1. /\ events' = events \cup FirstOf(Scheduled, Len(Scheduled))
      /\ Joining(Scheduled, events, 0)
  BY InsertionJoins, EventsDistinct
<1>2. heap' = h
  BY DEF Insertion
<1>3. Heaped(h, events')
  BY <1>1, HeapAllInserted DEF HInv
<1> HIDE DEF h
<1> QED BY <1>2, <1>3 DEF HInv

LEMMA HeapRemoval ==
    ASSUME IInv, HInv, NEW id \in ids, Removal(id)
    PROVE  Lists(heap', events')
<1>1. id \in events /\ events' = events \ {id} /\ heap' = HeapRemove(heap, id)
  BY RemovedPending DEF Removal
<1>2. \A f \in events : f.uid = id.uid => f = id
  BY <1>1, EventsDistinct DEF Distinct
<1>3. Lists(HeapRemove(heap, id), events \ {id})
  BY <1>1, <1>2, HeapRemoveIs DEF HInv, Heaped
<1> QED BY <1>1, <1>3

LEMMA HeapExtraction ==
    ASSUME IInv, HInv, NEW e \in events, Extraction(e)
    PROVE  HInv'
<1>1. /\ events' = events \ {e} /\ heap' = HeapRemoveNext(heap)
      /\ \A f \in events \ {e} : Before(e, f)
  BY DEF Extraction, ProcessOneEvent, IsEarliest
<1>2. Lists(heap', events') /\ HeapOrdered(heap')
  BY <1>1, HeapRemoveNextIs DEF HInv, Heaped
<1> QED BY <1>1, <1>2 DEF HInv, Heaped

LEMMA HeapSet ==
    ASSUME IInv, SetScheduler
    PROVE  HInv'
<1> DEFINE s == InOrder(events)
           h == AllInserted(HeapInsert, <<>>, s)
<1>1. Joining(s, {}, 0) /\ FirstOf(s, Len(s)) = events
  BY OrderedJoins
<1>2. heap' = h /\ events' = events
  BY OthersKeepEvents DEF SetScheduler
<1> HIDE DEF s
<1>3. Heaped(h, {} \cup FirstOf(s, Len(s)))
  BY <1>1, EmptyHeaped, HeapAllInserted
<1> HIDE DEF h
<1>4. Heaped(heap', events')
  BY <1>1, <1>2, <1>3
<1> QED BY <1>4 DEF HInv

LEMMA HeapStep ==
    ASSUME IInv, HInv, [ListsNext]_allVars
    PROVE  Lists(heap', events') /\ ((\E id \in ids : Remove(id)) \/ HeapOrdered(heap'))
<1>1. CASE Elsewhere \/ UNCHANGED allVars
  <2>1. events' = events
    BY <1>1, OthersKeepEvents
  <2>2. heap' = heap
    BY <1>1 DEF Elsewhere, allVars, stores
  <2> QED BY <2>1, <2>2 DEF HInv, Heaped, HeapOrdered
<1>2. HInv' => Lists(heap', events') /\ HeapOrdered(heap')
  BY DEF HInv, Heaped
<1>3. ASSUME NEW id \in ids, Removal(id)
      PROVE  Lists(heap', events') /\ \E j \in ids : Remove(j)
  BY <1>3, HeapRemoval DEF Removal
<1> QED BY <1>1, <1>2, <1>3, HeapInsertion, HeapExtraction, HeapSet DEF ListsNext

-----------------------------------------------------------------------------
LEMMA HeapTypeStep ==
    ASSUME IInv, heap \in Seq(Event), [ListsNext]_allVars
    PROVE  heap' \in Seq(Event)
<1>1. ASSUME Insertion PROVE heap' \in Seq(Event)
  <2>1. Scheduled \in Seq(Event)
    BY <1>1, InsertionJoins
  <2> QED BY <1>1, <2>1, HeapAllInsertedType DEF Insertion
<1>2. ASSUME SetScheduler PROVE heap' \in Seq(Event)
  <2>1. InOrder(events) \in Seq(Event)
    BY OrderedJoins DEF Joining
  <2>2. <<>> \in Seq(Event)
    OBVIOUS
  <2> QED BY <1>2, <2>1, <2>2, HeapAllInsertedType DEF SetScheduler
<1>3. ASSUME NEW id \in ids, Removal(id) PROVE heap' \in Seq(Event)
  <2>1. id \in Event
    BY DEF IInv, TypeOK
  <2> QED BY <1>3, <2>1, HeapTypes DEF Removal
<1>4. ASSUME NEW e \in events, Extraction(e) PROVE heap' \in Seq(Event)
  <2>1. e \in Event
    BY DEF IInv, TypeOK
  <2> QED BY <1>4, <2>1, HeapTypes DEF Extraction
<1>5. ASSUME Elsewhere \/ UNCHANGED allVars PROVE heap' = heap
  BY <1>5 DEF Elsewhere, allVars, stores
<1> QED BY <1>1, <1>2, <1>3, <1>4, <1>5 DEF ListsNext

LEMMA ListsInvariance == ListsSpec => []LInv
<1>1. ListsInit => LInv
  <2> SUFFICES ASSUME ListsInit PROVE LInv
    OBVIOUS
  <2>1. Init /\ heap = <<>> /\ calendar = EmptyCalendar
    BY DEF ListsInit
  <2>2. IInv /\ events = {} /\ cur.ts = 0
    BY <2>1, InitIInv DEF Init
  <2>3. Keeps(calendar, events, 0)
    BY <2>1, <2>2, EmptyKeeps
  <2>4. calendar.lastPrio = 0
    BY <2>3 DEF Keeps
  <2>5. heap \in Seq(Event)
    BY <2>1
  <2> QED BY <2>2, <2>3, <2>4, <2>5 DEF LInv
<1>2. LInv /\ [ListsNext]_allVars => LInv'
  <2> SUFFICES ASSUME LInv, [ListsNext]_allVars PROVE LInv'
    OBVIOUS
  <2>1. IInv /\ CInv /\ heap \in Seq(Event)
    BY DEF LInv, CInv
  <2>2. [Next]_vars
    BY ListsSteps DEF allVars
  <2>3. IInv'
    BY <2>1, <2>2, NextIInv
  <2>4. CInv' /\ heap' \in Seq(Event)
    BY <2>1, CalendarStep, HeapTypeStep
  <2> QED BY <2>3, <2>4 DEF LInv, CInv
<1> QED BY <1>1, <1>2, PTL DEF ListsSpec

\* The other schedulers only look on: with them the simulator does what it does
\* without, so that what is proved of it above holds beside them.
THEOREM ListsObserve == ListsSpec => Spec
<1>1. ListsInit => Init
  BY DEF ListsInit
<1>2. [ListsNext]_allVars => [Next]_vars
  BY ListsSteps DEF allVars
<1> QED BY <1>1, <1>2, PTL DEF ListsSpec, Spec

\* The calendar queue finds the earliest event of all, in whatever year, however
\* often it has been resized or rebuilt, and whatever delays have been scheduled.
THEOREM CalendarEarliestCorrect == ListsSpec => []CalendarEarliest
<1>1. LInv => CalendarEarliest
  <2> SUFFICES ASSUME LInv PROVE CalendarEarliest
    OBVIOUS
  <2>1. /\ events \subseteq Event /\ Tidy(calendar, events)
        /\ calendar.qSize = Cardinality(events)
    BY DEF LInv, Keeps
  <2>2. Stored(calendar) = events
    BY <2>1, TidyStored
  <2>3. events # {} => IsEarliest(CalendarNext(calendar))
    BY <2>1, NextIs DEF IsEarliest
  <2> QED BY <2>1, <2>2, <2>3 DEF CalendarEarliest
<1> QED BY <1>1, ListsInvariance, PTL

\* From a heap that is ordered, every call leaves the heap with what the event
\* list is left, and only Remove() may leave it out of order.
THEOREM HeapKeptCorrect == ListsSpec => HeapKept
<1> DEFINE Kept ==
        /\ Range(heap) = events /\ Len(heap) = Cardinality(events)
        /\ HeapOrdered(heap)
        => /\ Range(heap') = events' /\ Len(heap') = Cardinality(events')
           /\ (\E id \in ids : Remove(id)) \/ HeapOrdered(heap')
<1>1. LInv /\ LInv' /\ [ListsNext]_allVars => Kept
  <2> SUFFICES ASSUME LInv, LInv', [ListsNext]_allVars,
                      Range(heap) = events, Len(heap) = Cardinality(events),
                      HeapOrdered(heap)
               PROVE  /\ Range(heap') = events' /\ Len(heap') = Cardinality(events')
                      /\ (\E id \in ids : Remove(id)) \/ HeapOrdered(heap')
    OBVIOUS
  <2>1. /\ IInv /\ heap \in Seq(Event) /\ events \subseteq Event
        /\ IsFiniteSet(events) /\ IsFiniteSet(events')
    BY DEF LInv, IInv, TypeOK
  <2>2. HInv
    BY <2>1, MeantLists DEF HInv, Heaped
  <2>3. Lists(heap', events') /\ ((\E id \in ids : Remove(id)) \/ HeapOrdered(heap'))
    BY <2>1, <2>2, HeapStep
  <2> QED BY <2>1, <2>3, ListsMeans
<1> QED BY <1>1, ListsInvariance, PTL DEF ListsSpec, HeapKept

=============================================================================
