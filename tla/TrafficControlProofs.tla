------------------------ MODULE TrafficControlProofs ------------------------
(***************************************************************************)
(* The safety of the traffic-control switch, for any number of ports and   *)
(* priorities, any buffer and every admission algorithm.  In layers:       *)
(* BaseInv (types, what the counters of the queue discs and the saturation *)
(* mean, and that what is queued is charged); on it the bound on each      *)
(* queue; the bound on what leaks; and, from an invariant of the devices   *)
(* and of the run under way, that no packet is stranded.                   *)
(***************************************************************************)
EXTENDS TrafficControl, ByteCountProofs

\* The item sizes of a queue.
Items(s) == [i \in DOMAIN s |-> ItemSize(s[i])]

\* The counters of a queue disc are the bytes in its queues, and its copy of N
\* is at least one once it has one.
Exact(d) ==
    /\ d \in DiscType
    /\ \A c \in Priorities : d.nBytes[c] = BytesOf(Items(d.queue[c]), DOMAIN d.queue[c])
    /\ d.bytes = BytesOf(d.nBytes, Priorities)
    /\ d.started => \A c \in Priorities : d.nofP[c] >= Sat

\* N counts the saturation of a shared buffer s.
Counts(s) ==
    \A c \in Priorities : s.N[c] = BytesOf([p \in Ports |-> s.saturated[<<p, c>>]], Ports)

Solid(s) ==
    /\ s \in SharedBufferType
    /\ s.remaining >= 0
    /\ s.occupied + s.remaining = TotalBuffer
    /\ Counts(s)

-----------------------------------------------------------------------------
(* Data.                                                                   *)

LEMMA SizesNat ==
    /\ Sizes \subseteq Nat \ {0} /\ IpHeader \in Nat
    /\ \A size \in Sizes : ItemSize(size) \in Nat \ {0}
<1>1. Sizes \subseteq Nat \ {0} /\ IpHeader \in Nat
  BY DiscAssumption
<1> QED BY <1>1 DEF ItemSize

LEMMA FiniteIndices ==
    /\ IsFiniteSet(Ports) /\ IsFiniteSet(Priorities)
    /\ Ports # {} /\ 0 \in Priorities
<1>1. 1 \in Int /\ NPorts \in Int /\ 0 \in Int /\ NPrior - 1 \in Int
  BY DiscAssumption
<1>2. IsFiniteSet(1 .. NPorts) /\ IsFiniteSet(0 .. NPrior - 1)
  BY <1>1, FS_Interval, Zenon
<1>3. 1 \in 1 .. NPorts /\ 0 \in 0 .. NPrior - 1
  BY DiscAssumption
<1> QED BY <1>2, <1>3 DEF Ports, Priorities

LEMMA ItemsType ==
    ASSUME NEW s \in Seq(Sizes)
    PROVE  Items(s) \in Seq(Nat) /\ DOMAIN Items(s) = DOMAIN s /\ Len(Items(s)) = Len(s)
<1>1. Len(s) \in Nat /\ DOMAIN s = 1 .. Len(s) /\ \A i \in 1 .. Len(s) : s[i] \in Sizes
  BY LenProperties, ElementOfSeq
<1>2. \A i \in 1 .. Len(s) : ItemSize(s[i]) \in Nat
  BY <1>1, SizesNat
<1>3. Items(s) \in [1 .. Len(s) -> Nat]
  BY <1>1, <1>2 DEF Items
<1>4. Items(s) \in Seq(Nat)
  BY <1>1, <1>3
<1> QED BY <1>1, <1>3, <1>4

LEMMA ItemsAppend ==
    ASSUME NEW s \in Seq(Sizes), NEW size \in Sizes
    PROVE  Items(Append(s, size)) = Append(Items(s), ItemSize(size))
<1> DEFINE t == Append(s, size)
           u == Append(Items(s), ItemSize(size))
           n == Len(s)
<1>1. /\ t \in Seq(Sizes) /\ n \in Nat /\ Len(t) = n + 1
      /\ \A i \in 1 .. n : t[i] = s[i]
      /\ t[n + 1] = size
  BY AppendProperties
<1>2. Items(s) \in Seq(Nat) /\ Len(Items(s)) = n /\ DOMAIN s = 1 .. n
  BY ItemsType
<1>3. ItemSize(size) \in Nat
  BY SizesNat
<1>4. /\ u \in Seq(Nat) /\ Len(u) = n + 1
      /\ \A i \in 1 .. n : u[i] = Items(s)[i]
      /\ u[n + 1] = ItemSize(size)
  BY <1>2, <1>3, AppendProperties
<1> HIDE DEF t, u, n
<1>5. Items(t) \in Seq(Nat) /\ Len(Items(t)) = n + 1 /\ DOMAIN t = 1 .. n + 1
  <2>1. DOMAIN t = 1 .. Len(t)
    BY <1>1, LenProperties
  <2> QED BY <1>1, <2>1, ItemsType
<1>6. \A i \in 1 .. n + 1 : Items(t)[i] = u[i]
  <2> SUFFICES ASSUME NEW i \in 1 .. n + 1 PROVE Items(t)[i] = u[i]
    OBVIOUS
  <2>1. Items(t)[i] = ItemSize(t[i])
    BY <1>5 DEF Items
  <2>2. CASE i = n + 1
    BY <1>1, <1>4, <2>1, <2>2
  <2>3. CASE i \in 1 .. n
    <3>1. Items(s)[i] = ItemSize(s[i])
      BY <1>2, <2>3 DEF Items
    <3> QED BY <1>1, <1>4, <2>1, <2>3, <3>1
  <2>4. i = n + 1 \/ i \in 1 .. n
    BY <1>1
  <2> QED BY <2>2, <2>3, <2>4
<1>7. Len(Items(t)) = Len(u)
  BY <1>4, <1>5
<1>8. Items(t) = u
  BY <1>4, <1>5, <1>6, <1>7, SeqEqual
<1> QED BY <1>8 DEF t, u

LEMMA ItemsTail ==
    ASSUME NEW s \in Seq(Sizes), s # <<>>
    PROVE  /\ Items(Tail(s)) = Tail(Items(s)) /\ Items(s) # <<>>
           /\ Head(Items(s)) = ItemSize(Head(s)) /\ Head(s) \in Sizes
<1> DEFINE t == Tail(s)
           u == Tail(Items(s))
           n == Len(s)
<1>1. /\ t \in Seq(Sizes) /\ n \in Nat \ {0} /\ Len(t) = n - 1
      /\ \A i \in 1 .. n - 1 : t[i] = s[i + 1]
      /\ Head(s) \in Sizes /\ Head(s) = s[1]
  BY HeadTailProperties, EmptySeq, LenProperties
<1>2. Items(s) \in Seq(Nat) /\ Len(Items(s)) = n /\ DOMAIN s = 1 .. n
  BY ItemsType, LenProperties
<1>3. Items(s) # <<>>
  BY <1>1, <1>2, EmptySeq
<1>4. /\ u \in Seq(Nat) /\ Len(u) = n - 1
      /\ \A i \in 1 .. n - 1 : u[i] = Items(s)[i + 1]
      /\ Head(Items(s)) = Items(s)[1]
  BY <1>2, <1>3, HeadTailProperties
<1>5. Items(t) \in Seq(Nat) /\ Len(Items(t)) = n - 1 /\ DOMAIN t = 1 .. n - 1
  BY <1>1, ItemsType, LenProperties
<1>6. \A i \in 1 .. n : Items(s)[i] = ItemSize(s[i])
  BY <1>2 DEF Items
<1> HIDE DEF t, u, n
<1>7. \A i \in 1 .. n - 1 : Items(t)[i] = u[i]
  <2> SUFFICES ASSUME NEW i \in 1 .. n - 1 PROVE Items(t)[i] = u[i]
    OBVIOUS
  <2>1. Items(t)[i] = ItemSize(t[i])
    BY <1>5 DEF Items
  <2>2. i + 1 \in 1 .. n
    BY <1>1
  <2> QED BY <1>1, <1>4, <1>6, <2>1, <2>2
<1>8. Items(t) = u
  BY <1>4, <1>5, <1>7, SeqEqual
<1>9. 1 \in 1 .. n
  BY <1>1
<1> QED BY <1>1, <1>3, <1>4, <1>6, <1>8, <1>9 DEF t, u

\* Totals over the priorities and over the ports when one value changes.
LEMMA TotalUpdated ==
    ASSUME NEW S, IsFiniteSet(S), NEW f \in [S -> Nat], NEW y \in S, NEW v \in Nat
    PROVE  BytesOf([f EXCEPT ![y] = v], S) = BytesOf(f, S) + v - f[y]
<1> DEFINE g == [f EXCEPT ![y] = v]
           R == S \ {y}
<1>1. g \in [S -> Nat] /\ g[y] = v /\ \A x \in R : g[x] = f[x]
  OBVIOUS
<1>2. IsFiniteSet(R) /\ R \subseteq S
  BY FS_Difference
<1> HIDE DEF g
<1>3. BytesOf(f, S) = BytesOf(f, R) + f[y]
  BY BytesOfSplit
<1>4. BytesOf(g, S) = BytesOf(g, R) + v
  <2>1. \A x \in S : g[x] \in Nat
    BY <1>1
  <2>2. BytesOf(g, S) = BytesOf(g, R) + g[y]
    BY <2>1, BytesOfSplit
  <2> QED BY <1>1, <2>2
<1> HIDE DEF R
<1>5. BytesOf(g, R) = BytesOf(f, R)
  BY <1>1, BytesOfSame
<1>6. BytesOf(f, R) \in Nat
  BY <1>2, BytesOfType
<1> QED BY <1>3, <1>4, <1>5, <1>6 DEF g

LEMMA PrioritiesUpdated ==
    ASSUME NEW f \in [Priorities -> Nat], NEW c \in Priorities, NEW v \in Nat
    PROVE  BytesOf([f EXCEPT ![c] = v], Priorities) = BytesOf(f, Priorities) + v - f[c]
  BY FiniteIndices, TotalUpdated

LEMMA PortsUpdated ==
    ASSUME NEW f \in [Ports -> Nat], NEW p \in Ports, NEW v \in Nat
    PROVE  BytesOf([f EXCEPT ![p] = v], Ports) = BytesOf(f, Ports) + v - f[p]
  BY FiniteIndices, TotalUpdated

LEMMA NoItems == BytesOf(Items(<<>>), DOMAIN <<>>) = 0
<1>1. DOMAIN <<>> = {}
  OBVIOUS
<1> QED BY <1>1, BytesOfZero

-----------------------------------------------------------------------------
(* A queue disc.                                                           *)

LEMMA FullRate == RateUnit \in Rates
<1>1. NPrior \in Nat \ {0} /\ RateUnit \in Nat \ {0}
  BY DiscAssumption
<1>2. NPrior * RateUnit >= RateUnit
  BY <1>1
<1> QED BY <1>1, <1>2 DEF Rates

LEMMA EmptyExact == Exact(EmptyDisc)
<1>1. RateUnit \in Rates
  BY FullRate
<1>2. [c \in Priorities |-> <<>>] \in [Priorities -> Seq(Sizes)]
  BY EmptySeq
<1>3. 0 \in Priorities /\ 0 \in 0 .. FlowThreshold
  BY FiniteIndices, DiscAssumption
<1>4. EmptyDisc \in DiscType
  BY <1>1, <1>2, <1>3 DEF EmptyDisc, DiscType
<1>6. BytesOf(Items(<<>>), DOMAIN <<>>) = 0
  BY NoItems
<1>7. \A c \in Priorities : EmptyDisc.nBytes[c] = BytesOf(Items(EmptyDisc.queue[c]), DOMAIN EmptyDisc.queue[c])
  BY <1>6 DEF EmptyDisc
<1>8. EmptyDisc.bytes = BytesOf(EmptyDisc.nBytes, Priorities)
  BY BytesOfZero DEF EmptyDisc
<1> QED BY <1>4, <1>7, <1>8 DEF Exact, EmptyDisc

\* What the counters of an exact queue disc are worth.
LEMMA ExactBytes ==
    ASSUME NEW d, Exact(d)
    PROVE  /\ d.bytes \in Nat
           /\ \A c \in Priorities : d.nBytes[c] \in Nat /\ d.nBytes[c] <= d.bytes
<1>1. d.nBytes \in [Priorities -> Nat] /\ d.bytes = BytesOf(d.nBytes, Priorities)
  BY DEF Exact, DiscType
<1>2. IsFiniteSet(Priorities)
  BY FiniteIndices
<1>3. d.bytes \in Nat
  BY <1>1, <1>2, BytesOfType
<1>4. ASSUME NEW c \in Priorities PROVE d.nBytes[c] <= d.bytes
  <2>1. d.bytes = BytesOf(d.nBytes, Priorities \ {c}) + d.nBytes[c]
    BY <1>1, <1>2, BytesOfSplit
  <2>2. BytesOf(d.nBytes, Priorities \ {c}) \in Nat
    <3>1. IsFiniteSet(Priorities \ {c})
      BY <1>2, FS_Difference
    <3> QED BY <1>1, <3>1, BytesOfType
  <2> QED BY <1>1, <2>1, <2>2
<1> QED BY <1>1, <1>3, <1>4

LEMMA DiscWith ==
    ASSUME NEW d \in DiscType, NEW Q \in [Priorities -> Seq(Sizes)],
           NEW M \in [Priorities -> Nat], NEW B \in Int
    PROVE  [d EXCEPT !.queue = Q, !.nBytes = M, !.bytes = B] \in DiscType
  BY DEF DiscType

LEMMA EnqueuedExact ==
    ASSUME NEW d, Exact(d), NEW c \in Priorities, NEW size \in Sizes
    PROVE  LET e == Enqueued(d, c, size)
           IN  /\ Exact(e)
               /\ e.queue = [d.queue EXCEPT ![c] = Append(@, size)]
               /\ e.nBytes = [d.nBytes EXCEPT ![c] = @ + ItemSize(size)]
               /\ e.bytes = d.bytes + ItemSize(size)
<1> DEFINE e == Enqueued(d, c, size)
           b == ItemSize(size)
<1>1. /\ d \in DiscType /\ d.queue \in [Priorities -> Seq(Sizes)]
      /\ d.nBytes \in [Priorities -> Nat] /\ d.bytes \in Nat
  BY ExactBytes DEF Exact, DiscType
<1>2. b \in Nat
  BY SizesNat
<1>3. /\ e = [d EXCEPT !.queue[c] = Append(@, size), !.nBytes[c] = @ + b, !.bytes = @ + b]
  BY DEF Enqueued
<1> HIDE DEF b
<1>4. /\ e.queue = [d.queue EXCEPT ![c] = Append(@, size)]
      /\ e.nBytes = [d.nBytes EXCEPT ![c] = @ + b]
      /\ e.bytes = d.bytes + b
      /\ e.started = d.started /\ e.nofP = d.nofP /\ e.index = d.index
      /\ e.flow = d.flow /\ e.rate = d.rate
      /\ DOMAIN e = DOMAIN d
  BY <1>1, <1>3 DEF DiscType
<1>5. Append(d.queue[c], size) \in Seq(Sizes)
  BY <1>1, AppendProperties
<1>6. e \in DiscType
  <2>1. d.nBytes[c] + b \in Nat /\ d.bytes + b \in Int
    BY <1>1, <1>2
  <2>2. [d.queue EXCEPT ![c] = Append(d.queue[c], size)] \in [Priorities -> Seq(Sizes)]
    BY <1>1, <1>5
  <2>3. [d.nBytes EXCEPT ![c] = d.nBytes[c] + b] \in [Priorities -> Nat]
    BY <1>1, <2>1
  <2> DEFINE Q == [d.queue EXCEPT ![c] = Append(d.queue[c], size)]
             M == [d.nBytes EXCEPT ![c] = d.nBytes[c] + b]
             B == d.bytes + b
  <2>4. e = [d EXCEPT !.queue = Q, !.nBytes = M, !.bytes = B]
    BY <1>1, <1>3 DEF DiscType
  <2>5. Q \in [Priorities -> Seq(Sizes)] /\ M \in [Priorities -> Nat] /\ B \in Int
    BY <2>1, <2>2, <2>3
  <2> HIDE DEF Q, M, B, e
  <2> QED BY <1>1, <2>4, <2>5, DiscWith
<1> HIDE DEF e
<1>7. ASSUME NEW f \in Priorities
      PROVE  e.nBytes[f] = BytesOf(Items(e.queue[f]), DOMAIN e.queue[f])
  <2>1. CASE f # c
    BY <1>1, <1>4, <2>1 DEF Exact
  <2>2. CASE f = c
    <3> DEFINE s == d.queue[c]
    <3>1. s \in Seq(Sizes) /\ e.queue[f] = Append(s, size) /\ e.nBytes[f] = d.nBytes[c] + b
      BY <1>1, <1>4, <2>2
    <3>2. d.nBytes[c] = BytesOf(Items(s), DOMAIN s)
      BY DEF Exact
    <3> HIDE DEF s
    <3>3. /\ Items(Append(s, size)) = Append(Items(s), b)
          /\ Items(s) \in Seq(Nat) /\ DOMAIN Items(s) = DOMAIN s
          /\ DOMAIN Items(Append(s, size)) = DOMAIN Append(s, size)
      BY <3>1, ItemsAppend, ItemsType, AppendProperties DEF b
    <3>4. BytesOf(Append(Items(s), b), DOMAIN Append(Items(s), b))
            = BytesOf(Items(s), DOMAIN Items(s)) + b
      BY <1>2, <3>3, BytesOfAppend
    <3> QED BY <3>1, <3>2, <3>3, <3>4
  <2> QED BY <2>1, <2>2
<1>8. e.bytes = BytesOf(e.nBytes, Priorities)
  <2> DEFINE v == d.nBytes[c] + b
  <2>1. v \in Nat /\ e.nBytes = [d.nBytes EXCEPT ![c] = v] /\ d.nBytes[c] \in Nat
    BY <1>1, <1>2, <1>4
  <2>2. v = d.nBytes[c] + b
    OBVIOUS
  <2> HIDE DEF v
  <2>3. BytesOf([d.nBytes EXCEPT ![c] = v], Priorities)
          = BytesOf(d.nBytes, Priorities) + v - d.nBytes[c]
    BY <1>1, <2>1, PrioritiesUpdated
  <2>4. d.bytes = BytesOf(d.nBytes, Priorities)
    BY DEF Exact
  <2> QED BY <1>1, <1>2, <1>4, <2>1, <2>2, <2>3, <2>4
<1>9. e.started => \A f \in Priorities : e.nofP[f] >= Sat
  BY <1>4 DEF Exact
<1>10. Exact(e)
  BY <1>6, <1>7, <1>8, <1>9 DEF Exact
<1> QED BY <1>4, <1>10 DEF e, b

LEMMA EnqueuedBytes ==
    ASSUME NEW d, Exact(d), NEW c \in Priorities, NEW size \in Sizes
    PROVE  /\ Exact(Enqueued(d, c, size))
           /\ Enqueued(d, c, size).bytes = d.bytes + ItemSize(size)
<1> DEFINE e == Enqueued(d, c, size)
<1>1. /\ Exact(e)
      /\ e.queue = [d.queue EXCEPT ![c] = Append(@, size)]
      /\ e.nBytes = [d.nBytes EXCEPT ![c] = @ + ItemSize(size)]
      /\ e.bytes = d.bytes + ItemSize(size)
  <2> HIDE DEF e
  <2> QED BY EnqueuedExact DEF e
<1> QED BY <1>1

LEMMA EnqueuedQueues ==
    ASSUME NEW d, Exact(d), NEW c \in Priorities, NEW size \in Sizes
    PROVE  /\ \A f \in Priorities : f # c =>
                 /\ Enqueued(d, c, size).queue[f] = d.queue[f]
                 /\ Enqueued(d, c, size).nBytes[f] = d.nBytes[f]
           /\ Enqueued(d, c, size).queue[c] = Append(d.queue[c], size)
           /\ Enqueued(d, c, size).nBytes[c] = d.nBytes[c] + ItemSize(size)
<1> DEFINE e == Enqueued(d, c, size)
<1>1. /\ e.queue = [d.queue EXCEPT ![c] = Append(@, size)]
      /\ e.nBytes = [d.nBytes EXCEPT ![c] = @ + ItemSize(size)]
  <2> HIDE DEF e
  <2> QED BY EnqueuedExact DEF e
<1>2. d.queue \in [Priorities -> Seq(Sizes)] /\ d.nBytes \in [Priorities -> Nat]
  BY DEF Exact, DiscType
<1> HIDE DEF e
<1>3. /\ \A f \in Priorities : f # c => e.queue[f] = d.queue[f] /\ e.nBytes[f] = d.nBytes[f]
      /\ e.queue[c] = Append(d.queue[c], size)
      /\ e.nBytes[c] = d.nBytes[c] + ItemSize(size)
  BY <1>1, <1>2
<1> QED BY <1>3 DEF e

LEMMA DequeuedExact ==
    ASSUME NEW d, Exact(d), NEW c \in Backlog(d)
    PROVE  LET e == Dequeued(d, c)
               b == ItemSize(Head(d.queue[c]))
           IN  /\ Exact(e) /\ Head(d.queue[c]) \in Sizes
               /\ e.queue = [d.queue EXCEPT ![c] = Tail(@)]
               /\ e.nBytes = [d.nBytes EXCEPT ![c] = @ - b]
               /\ e.bytes = d.bytes - b
               /\ d.nBytes[c] >= b
<1> DEFINE e == Dequeued(d, c)
           b == ItemSize(Head(d.queue[c]))
           s == d.queue[c]
<1>1. /\ d \in DiscType /\ d.queue \in [Priorities -> Seq(Sizes)]
      /\ d.nBytes \in [Priorities -> Nat] /\ d.bytes \in Nat /\ c \in Priorities
  BY ExactBytes DEF Exact, DiscType, Backlog
<1>2. s \in Seq(Sizes) /\ s # <<>>
  BY <1>1 DEF Backlog
<1>3. /\ Items(Tail(s)) = Tail(Items(s)) /\ Items(s) # <<>>
      /\ Head(Items(s)) = b /\ Head(s) \in Sizes
      /\ Items(s) \in Seq(Nat) /\ DOMAIN Items(s) = DOMAIN s
      /\ Tail(s) \in Seq(Sizes)
      /\ DOMAIN Items(Tail(s)) = DOMAIN Tail(s)
  <2> HIDE DEF s
  <2>1. b = ItemSize(Head(s))
    BY DEF s
  <2> HIDE DEF b
  <2>2. Tail(s) \in Seq(Sizes)
    BY <1>2, HeadTailProperties
  <2> QED BY <1>2, <2>1, <2>2, ItemsTail, ItemsType
<1>4. b \in Nat
  BY <1>3, SizesNat
<1>5. e = [d EXCEPT !.queue[c] = Tail(@), !.nBytes[c] = @ - b, !.bytes = @ - b]
  BY DEF Dequeued
<1>6. /\ BytesOf(Tail(Items(s)), DOMAIN Tail(Items(s))) = BytesOf(Items(s), DOMAIN Items(s)) - b
      /\ BytesOf(Items(s), DOMAIN Items(s)) >= b
  BY <1>3, BytesOfTail
<1>7. d.nBytes[c] = BytesOf(Items(s), DOMAIN s)
  BY <1>1 DEF Exact
<1> HIDE DEF b, s
<1>8. d.nBytes[c] >= b /\ d.nBytes[c] - b \in Nat
  BY <1>1, <1>3, <1>4, <1>6, <1>7
<1>9. /\ e.queue = [d.queue EXCEPT ![c] = Tail(@)]
      /\ e.nBytes = [d.nBytes EXCEPT ![c] = @ - b]
      /\ e.bytes = d.bytes - b
      /\ e.started = d.started /\ e.nofP = d.nofP
  BY <1>1, <1>5 DEF DiscType
<1>10. e \in DiscType
  <2>1. d.bytes - b \in Int
    BY <1>1, <1>4
  <2>2. Tail(d.queue[c]) \in Seq(Sizes)
    BY <1>3 DEF s
  <2> DEFINE Q == [d.queue EXCEPT ![c] = Tail(d.queue[c])]
             M == [d.nBytes EXCEPT ![c] = d.nBytes[c] - b]
             B == d.bytes - b
  <2>3. Q \in [Priorities -> Seq(Sizes)] /\ M \in [Priorities -> Nat] /\ B \in Int
    BY <1>1, <1>8, <2>1, <2>2
  <2>4. e = [d EXCEPT !.queue = Q, !.nBytes = M, !.bytes = B]
    BY <1>1, <1>5 DEF DiscType
  <2> HIDE DEF Q, M, B, e
  <2> QED BY <1>1, <2>3, <2>4, DiscWith
<1> HIDE DEF e
<1>11. ASSUME NEW f \in Priorities
       PROVE  e.nBytes[f] = BytesOf(Items(e.queue[f]), DOMAIN e.queue[f])
  <2>1. CASE f # c
    BY <1>1, <1>9, <2>1 DEF Exact
  <2>2. CASE f = c
    <3>1. e.queue[f] = Tail(s) /\ e.nBytes[f] = d.nBytes[c] - b
      BY <1>1, <1>9, <2>2 DEF s
    <3> QED BY <1>3, <1>6, <1>7, <3>1
  <2> QED BY <2>1, <2>2
<1>12. e.bytes = BytesOf(e.nBytes, Priorities)
  <2> DEFINE v == d.nBytes[c] - b
  <2>1. v \in Nat /\ e.nBytes = [d.nBytes EXCEPT ![c] = v] /\ d.nBytes[c] \in Nat
    BY <1>1, <1>8, <1>9
  <2>2. v = d.nBytes[c] - b
    OBVIOUS
  <2> HIDE DEF v
  <2>3. BytesOf([d.nBytes EXCEPT ![c] = v], Priorities)
          = BytesOf(d.nBytes, Priorities) + v - d.nBytes[c]
    BY <1>1, <2>1, PrioritiesUpdated
  <2>4. d.bytes = BytesOf(d.nBytes, Priorities)
    BY DEF Exact
  <2> QED BY <1>1, <1>4, <1>9, <2>1, <2>2, <2>3, <2>4
<1>13. Exact(e)
  BY <1>9, <1>10, <1>11, <1>12 DEF Exact
<1> QED BY <1>3, <1>8, <1>9, <1>13 DEF e, b, s

\* A queue disc without bytes has no packet.
LEMMA NoBytesNoBacklog ==
    ASSUME NEW d, Exact(d)
    PROVE  d.bytes > 0 <=> Backlog(d) # {}
<1>1. ASSUME NEW c \in Backlog(d) PROVE d.bytes > 0
  <2> DEFINE b == ItemSize(Head(d.queue[c]))
  <2>1. d.nBytes[c] >= b /\ Head(d.queue[c]) \in Sizes /\ c \in Priorities
    BY DequeuedExact DEF Backlog
  <2>2. b \in Nat \ {0}
    BY <2>1, SizesNat
  <2> HIDE DEF b
  <2> QED BY <2>1, <2>2, ExactBytes
<1>2. ASSUME Backlog(d) = {} PROVE d.bytes = 0
  <2>1. \A c \in Priorities : d.queue[c] = <<>>
    BY <1>2 DEF Backlog
  <2>2. \A c \in Priorities : d.nBytes[c] = 0
    BY <2>1, NoItems DEF Exact
  <2> QED BY <2>2, BytesOfZero DEF Exact
<1> QED BY <1>1, <1>2

\* Queue discs with the same packets.
SameQueues(d, e) ==
    d.queue = e.queue /\ d.nBytes = e.nBytes /\ d.bytes = e.bytes /\ d.index = e.index

LEMMA SameQueuesExact ==
    ASSUME NEW d, NEW e, Exact(d), SameQueues(e, d), e \in DiscType,
           e.started => \A c \in Priorities : e.nofP[c] >= Sat
    PROVE  Exact(e)
  BY DEF Exact, SameQueues

LEMMA SeenExact ==
    ASSUME NEW d, Exact(d), NEW f \in Flows, NEW stale \in BOOLEAN, NEW n \in Nat
    PROVE  LET e == Seen(d, f, stale, n) IN Exact(e) /\ SameQueues(e, d)
<1> DEFINE k == AtMost((IF stale THEN 0 ELSE d.flow[f]) + n, FlowThreshold)
           F == [d.flow EXCEPT ![f] = k]
           e == Seen(d, f, stale, n)
<1>1. d \in DiscType /\ d.flow \in [Flows -> 0 .. FlowThreshold]
  BY DEF Exact, DiscType
<1>2. k \in 0 .. FlowThreshold
  <2>1. d.flow[f] \in 0 .. FlowThreshold /\ FlowThreshold \in Nat
    BY <1>1, DiscAssumption
  <2> QED BY <2>1 DEF AtMost
<1>3. e = [d EXCEPT !.flow = F]
  BY <1>1 DEF Seen, DiscType
<1>4. F \in [Flows -> 0 .. FlowThreshold]
  BY <1>1, <1>2
<1> HIDE DEF F, e, k
<1>5. e \in DiscType /\ SameQueues(e, d) /\ e.started = d.started /\ e.nofP = d.nofP
  BY <1>1, <1>3, <1>4 DEF DiscType, SameQueues
<1> QED BY <1>5, SameQueuesExact DEF e, Exact

LEMMA UpdatedExact ==
    ASSUME NEW d, Exact(d), NEW s \in SharedBufferType, NEW rate \in [Priorities -> Rates]
    PROVE  LET e == Updated(d, s, rate) IN Exact(e) /\ SameQueues(e, d)
<1> DEFINE P == [c \in Priorities |-> NofP(s, c)]
           e == Updated(d, s, rate)
<1>1. \A c \in Priorities : NofP(s, c) \in Nat /\ NofP(s, c) >= Sat
  BY DiscAssumption DEF NofP, SharedBufferType
<1>2. P \in [Priorities -> Nat] /\ \A c \in Priorities : P[c] >= Sat
  BY <1>1
<1>3. d \in DiscType
  BY DEF Exact
<1>4. e = [d EXCEPT !.started = TRUE, !.rate = rate, !.nofP = P]
  BY DEF Updated
<1> HIDE DEF P, e
<1>5. e \in DiscType /\ SameQueues(e, d) /\ e.nofP = P
  BY <1>2, <1>3, <1>4 DEF DiscType, SameQueues
<1> QED BY <1>2, <1>5, SameQueuesExact DEF e

-----------------------------------------------------------------------------
(* The shared buffer.                                                      *)

\* Shared buffers with the same bytes.
SameBytes(s, t) ==
    s.occupied = t.occupied /\ s.remaining = t.remaining /\ s.perPrior = t.perPrior

LEMMA EmptySolid == Solid(EmptySharedBuffer)
<1>1. EmptySharedBuffer \in SharedBufferType
  <2>1. 0 \in 0 .. StatWrap - 1 /\ 0 \in 0 .. Sat /\ TotalBuffer \in Int
    BY DiscAssumption
  <2> QED BY <2>1 DEF EmptySharedBuffer, SharedBufferType
<1>2. Counts(EmptySharedBuffer)
  <2> SUFFICES ASSUME NEW c \in Priorities
               PROVE  EmptySharedBuffer.N[c] =
                        BytesOf([p \in Ports |-> EmptySharedBuffer.saturated[<<p, c>>]], Ports)
    BY DEF Counts
  <2>1. \A p \in Ports : [r \in Ports |-> EmptySharedBuffer.saturated[<<r, c>>]][p] = 0
    BY DEF EmptySharedBuffer
  <2>2. EmptySharedBuffer.N[c] = 0
    BY DEF EmptySharedBuffer
  <2> QED BY <2>1, <2>2, BytesOfZero
<1> QED BY <1>1, <1>2, DiscAssumption DEF Solid, EmptySharedBuffer

LEMMA ChargedSolid ==
    ASSUME NEW s, Solid(s), NEW c \in Priorities, NEW b \in Nat, Chargeable(s, b)
    PROVE  LET t == Charged(s, c, b)
           IN  /\ Solid(t) /\ t.occupied = s.occupied + b
               /\ t.perPrior = [s.perPrior EXCEPT ![c] = (s.perPrior[c] + b) % StatWrap]
<1> DEFINE P == [s.perPrior EXCEPT ![c] = (s.perPrior[c] + b) % StatWrap]
           t == Charged(s, c, b)
<1>1. /\ s \in SharedBufferType /\ s.occupied \in Nat /\ s.remaining \in Int
      /\ s.perPrior \in [Priorities -> 0 .. StatWrap - 1] /\ s.remaining > b
      /\ s.occupied + s.remaining = TotalBuffer
  BY DEF Solid, SharedBufferType, Chargeable
<1>2. P \in [Priorities -> 0 .. StatWrap - 1]
  <2>1. s.perPrior[c] + b \in Int /\ StatWrap \in Nat \ {0}
    BY <1>1, DiscAssumption
  <2>2. (s.perPrior[c] + b) % StatWrap \in 0 .. StatWrap - 1
    BY <2>1, RemainderRange
  <2> QED BY <1>1, <2>2
<1>3. t = [s EXCEPT !.remaining = s.remaining - b, !.occupied = s.occupied + b, !.perPrior = P]
  BY <1>1 DEF Charged, SharedBufferType
<1> HIDE DEF P, t
<1>4. /\ s.remaining - b \in Int /\ s.occupied + b \in Nat /\ s.remaining - b >= 0
      /\ (s.occupied + b) + (s.remaining - b) = TotalBuffer
  BY <1>1
<1>5. /\ t \in SharedBufferType /\ t.remaining = s.remaining - b
      /\ t.occupied = s.occupied + b /\ t.perPrior = P
      /\ t.N = s.N /\ t.saturated = s.saturated
  BY <1>1, <1>2, <1>3, <1>4 DEF SharedBufferType
<1>6. Solid(t)
  BY <1>4, <1>5 DEF Solid, Counts
<1> QED BY <1>5, <1>6 DEF P, t

LEMMA CreditedSolid ==
    ASSUME NEW s, Solid(s), NEW c \in Priorities, NEW b \in Nat
    PROVE  LET t == Credited(s, c, b)
           IN  /\ Solid(t)
               /\ t.occupied = IF s.occupied > b THEN s.occupied - b ELSE s.occupied
               /\ t.perPrior = [s.perPrior EXCEPT ![c] = (s.perPrior[c] - b) % StatWrap]
<1> DEFINE P == [s.perPrior EXCEPT ![c] = (s.perPrior[c] - b) % StatWrap]
           t == Credited(s, c, b)
<1>1. /\ s \in SharedBufferType /\ s.occupied \in Nat /\ s.remaining \in Int
      /\ s.perPrior \in [Priorities -> 0 .. StatWrap - 1] /\ s.remaining >= 0
      /\ s.occupied + s.remaining = TotalBuffer
  BY DEF Solid, SharedBufferType
<1>2. P \in [Priorities -> 0 .. StatWrap - 1]
  <2>1. s.perPrior[c] - b \in Int /\ StatWrap \in Nat \ {0}
    BY <1>1, DiscAssumption
  <2>2. (s.perPrior[c] - b) % StatWrap \in 0 .. StatWrap - 1
    BY <2>1, RemainderRange
  <2> QED BY <1>1, <2>2
<1>3. t = IF s.occupied > b
          THEN [s EXCEPT !.remaining = s.remaining + b, !.occupied = s.occupied - b, !.perPrior = P]
          ELSE [s EXCEPT !.perPrior = P]
  BY <1>1 DEF Credited, SharedBufferType
<1> HIDE DEF P, t
<1>4. CASE s.occupied > b
  <2>1. /\ s.remaining + b \in Int /\ s.occupied - b \in Nat /\ s.remaining + b >= 0
        /\ (s.occupied - b) + (s.remaining + b) = TotalBuffer
    BY <1>1, <1>4
  <2>2. /\ t \in SharedBufferType /\ t.remaining = s.remaining + b
        /\ t.occupied = s.occupied - b /\ t.perPrior = P
        /\ t.N = s.N /\ t.saturated = s.saturated
    BY <1>1, <1>2, <1>3, <1>4, <2>1 DEF SharedBufferType
  <2>3. Solid(t)
    BY <2>1, <2>2 DEF Solid, Counts
  <2> QED BY <1>4, <2>2, <2>3 DEF P, t
<1>5. CASE ~(s.occupied > b)
  <2>1. /\ t \in SharedBufferType /\ t.remaining = s.remaining
        /\ t.occupied = s.occupied /\ t.perPrior = P
        /\ t.N = s.N /\ t.saturated = s.saturated
    BY <1>1, <1>2, <1>3, <1>5 DEF SharedBufferType
  <2>2. Solid(t)
    BY <1>1, <2>1 DEF Solid, Counts
  <2> QED BY <1>5, <2>1, <2>2 DEF P, t
<1> QED BY <1>4, <1>5

LEMMA SetSaturatedSolid ==
    ASSUME NEW s, Solid(s), NEW p \in Ports, NEW c \in Priorities, NEW level \in 0 .. Sat
    PROVE  LET t == SetSaturated(s, p, c, level) IN Solid(t) /\ SameBytes(t, s)
<1> DEFINE S == [s.saturated EXCEPT ![<<p, c>>] = level]
           M == [s.N EXCEPT ![c] = s.N[c] + level - s.saturated[<<p, c>>]]
           t == SetSaturated(s, p, c, level)
<1>1. /\ s \in SharedBufferType /\ s.saturated \in [Ports \X Priorities -> 0 .. Sat]
      /\ s.N \in [Priorities -> Int] /\ Counts(s)
      /\ <<p, c>> \in Ports \X Priorities /\ Sat \in Nat
  BY DiscAssumption DEF Solid, SharedBufferType
<1>2. S \in [Ports \X Priorities -> 0 .. Sat] /\ M \in [Priorities -> Int]
  <2>1. s.N[c] \in Int /\ s.saturated[<<p, c>>] \in 0 .. Sat
    BY <1>1
  <2>2. s.N[c] + level - s.saturated[<<p, c>>] \in Int
    BY <1>1, <2>1
  <2> QED BY <1>1, <2>2
<1>3. t = [s EXCEPT !.saturated = S, !.N = M]
  BY <1>1 DEF SetSaturated, SharedBufferType
<1>4. ASSUME NEW e \in Priorities
      PROVE  M[e] = BytesOf([r \in Ports |-> S[<<r, e>>]], Ports)
  <2> DEFINE f == [r \in Ports |-> s.saturated[<<r, e>>]]
             g == [r \in Ports |-> S[<<r, e>>]]
  <2>1. s.N[e] = BytesOf(f, Ports)
    BY <1>1 DEF Counts
  <2>2. CASE e # c
    <3>1. \A r \in Ports : <<r, e>> # <<p, c>> /\ <<r, e>> \in Ports \X Priorities
      BY <2>2
    <3>2. \A r \in Ports : S[<<r, e>>] = s.saturated[<<r, e>>]
      BY <1>1, <3>1
    <3>3. \A r \in Ports : g[r] = f[r]
      BY <3>2
    <3>4. BytesOf(g, Ports) = BytesOf(f, Ports)
      <4> HIDE DEF f, g
      <4> QED BY <3>3, BytesOfSame
    <3> QED BY <1>1, <2>1, <2>2, <3>4
  <2>3. CASE e = c
    <3>1. \A r \in Ports : S[<<r, e>>] = IF r = p THEN level ELSE s.saturated[<<r, e>>]
      BY <1>1, <2>3
    <3>2. g = [f EXCEPT ![p] = level]
      BY <3>1
    <3>3. f \in [Ports -> Nat] /\ f[p] = s.saturated[<<p, c>>] /\ level \in Nat
      BY <1>1, <2>3
    <3> HIDE DEF f, g, S
    <3>4. BytesOf(g, Ports) = BytesOf(f, Ports) + level - f[p]
      BY <3>2, <3>3, PortsUpdated
    <3>5. M[e] = s.N[e] + level - f[p]
      BY <1>1, <2>3, <3>3
    <3> HIDE DEF M
    <3> QED BY <2>1, <3>4, <3>5 DEF g
  <2> QED BY <2>2, <2>3
<1> HIDE DEF S, M, t
<1>5. /\ t \in SharedBufferType /\ t.saturated = S /\ t.N = M
      /\ t.occupied = s.occupied /\ t.remaining = s.remaining /\ t.perPrior = s.perPrior
  BY <1>1, <1>2, <1>3 DEF SharedBufferType
<1>6. Counts(t)
  BY <1>4, <1>5 DEF Counts
<1> QED BY <1>5, <1>6 DEF Solid, SameBytes, t

-----------------------------------------------------------------------------
(* Thresholds.                                                             *)

LEMMA TimesMonotone ==
    ASSUME NEW a \in Int, NEW b \in Int, NEW c \in Nat, a <= b
    PROVE  c * a <= c * b
<1> DEFINE k == b - a
<1>1. k \in Nat /\ b = a + k
  OBVIOUS
<1> HIDE DEF k
<1>2. c * b = c * a + c * k /\ c * k >= 0
  BY <1>1
<1>3. c * a \in Int /\ c * k \in Int
  BY <1>1
<1> QED BY <1>2, <1>3

LEMMA TimesCancel ==
    ASSUME NEW a \in Int, NEW b \in Int, NEW c \in Nat \ {0}, c * a <= c * b
    PROVE  a <= b
<1> SUFFICES ASSUME b + 1 <= a PROVE FALSE
  OBVIOUS
<1>1. c * (b + 1) <= c * a
  BY TimesMonotone
<1>2. c * (b + 1) = c * b + c /\ c * b \in Int /\ c * a \in Int
  OBVIOUS
<1> QED BY <1>1, <1>2

LEMMA QuotientBound ==
    ASSUME NEW a \in Nat, NEW b \in Nat \ {0}, NEW x \in Int, x <= a \div b
    PROVE  b * x <= a
<1>1. (a \div b) \in Int /\ a = b * (a \div b) + (a % b) /\ (a % b) >= 0
  BY RemainderRange
<1>2. b * x <= b * (a \div b)
  BY <1>1, TimesMonotone
<1>3. b * x \in Int /\ b * (a \div b) \in Int /\ (a % b) \in Int
  BY <1>1, RemainderRange
<1> QED BY <1>1, <1>2, <1>3

LEMMA ShareBound ==
    ASSUME NEW s, Solid(s), NEW alpha \in Nat, NEW x \in Int, x <= Share(s, alpha)
    PROVE  AlphaDen * x <= alpha * s.remaining
<1>1. s.remaining \in Nat /\ AlphaDen \in Nat \ {0}
  BY DiscAssumption DEF Solid, SharedBufferType
<1>2. alpha * s.remaining \in Nat
  BY <1>1
<1> QED BY <1>1, <1>2, QuotientBound DEF Share

LEMMA ShareABMBound ==
    ASSUME NEW s, Solid(s), NEW d, Exact(d), d.started, NEW c \in Priorities,
           NEW alpha \in Nat, NEW x \in Int, x <= ShareABM(s, d, c, alpha)
    PROVE  AlphaDen * x <= alpha * s.remaining
<1> DEFINE a == alpha * s.remaining
           r == d.rate[c]
           n == d.nofP[c]
           k == n * RateUnit
           D == AlphaDen
           S == Sat
           U == RateUnit
<1>1. /\ s.remaining \in Nat /\ D \in Nat \ {0} /\ S \in Nat \ {0} /\ U \in Nat \ {0}
      /\ r \in 1 .. U /\ n \in Nat /\ n >= S
  BY DiscAssumption DEF Solid, SharedBufferType, Exact, DiscType, Rates
<1>2. x <= (a * S * r) \div (D * n * U)
  BY DEF ShareABM
<1>3. a \in Nat
  BY <1>1
<1>4. k = n * U
  OBVIOUS
<1> HIDE DEF a, r, n, D, S, U, k
<1>5. n \in Nat \ {0} /\ r \in Nat /\ r <= U
  BY <1>1
<1>6. k \in Nat \ {0}
  BY <1>1, <1>4, <1>5
<1>7. S * r <= k
  <2>1. S * r <= S * U
    BY <1>1, <1>5, TimesMonotone
  <2>2. U * S <= U * n
    BY <1>1, TimesMonotone
  <2>3. S * U = U * S /\ k = U * n
    BY <1>1, <1>4
  <2>4. S * r \in Int /\ U * S \in Int
    BY <1>1, <1>5
  <2> QED BY <1>6, <2>1, <2>2, <2>3, <2>4
<1>8. D * n * U = D * k /\ a * S * r = a * (S * r)
  BY <1>1, <1>3, <1>4, <1>5
<1>9. a * (S * r) <= a * k
  <2>1. S * r \in Int
    BY <1>1, <1>5
  <2> QED BY <1>3, <1>6, <1>7, <2>1, TimesMonotone
<1>10. (D * k) * x <= a * (S * r)
  <2>1. a * (S * r) \in Nat /\ D * k \in Nat \ {0}
    BY <1>1, <1>3, <1>5, <1>6
  <2> QED BY <1>2, <1>8, <2>1, QuotientBound
<1>11. (D * k) * x = k * (D * x) /\ a * k = k * a
  BY <1>1, <1>3, <1>6
<1>12. k * (D * x) <= k * a
  <2>1. (D * k) * x \in Int /\ a * (S * r) \in Int /\ a * k \in Int
    BY <1>1, <1>3, <1>5, <1>6
  <2> QED BY <1>9, <1>10, <1>11, <2>1
<1>13. D * x <= a
  <2>1. D * x \in Int
    BY <1>1
  <2> QED BY <1>3, <1>6, <1>12, <2>1, TimesCancel
<1> QED BY <1>13 DEF a, D

-----------------------------------------------------------------------------
(* The device and its queue.                                               *)

Wires == {ItemSize(size) + PppHeader : size \in Sizes}

MinWire == CHOOSE wire \in Wires : \A w \in Wires : wire <= w

MaxWire == Mtu + PppHeader

LEMMA WiresNat ==
    /\ Wires \subseteq Nat /\ MaxWire \in Nat /\ Mtu \in Nat /\ Mtu <= MaxWire
    /\ \A wire \in Wires : wire <= MaxWire
<1>1. Mtu \in Nat /\ PppHeader \in Nat /\ \A size \in Sizes : ItemSize(size) <= Mtu
  BY DeviceAssumption
<1> QED BY <1>1, SizesNat DEF Wires, MaxWire

LEMMA MinWireExists == MinWire \in Wires /\ MinWire \in Nat /\ \A w \in Wires : MinWire <= w
<1> DEFINE f == [wire \in Wires |-> wire]
<1>1. Wires # {}
  <2>1. PICK size \in Sizes : TRUE
    BY DiscAssumption
  <2>2. ItemSize(size) + PppHeader \in Wires
    BY DEF Wires
  <2> QED BY <2>2
<1>2. f \in [Wires -> Nat]
  BY WiresNat
<1>3. PICK wire \in Wires : \A w \in Wires : f[wire] <= f[w]
  <2> HIDE DEF f
  <2> QED BY <1>1, <1>2, LeastValue
<1>4. \A w \in Wires : wire <= w
  BY <1>3
<1> QED BY <1>4, WiresNat DEF MinWire

\* The room in device queue v is less than one packet.
Tight(p, v) ==
    IF DevUnit[p] = "PACKETS" THEN Len(v.queue) + 1 > DevMax[p]
                              ELSE v.nBytes + MaxWire > DevMax[p]

\* The room is less than two packets, and k packets less than that.
Near(p, v, k) ==
    IF DevUnit[p] = "PACKETS" THEN Len(v.queue) + 2 > DevMax[p] + k
    ELSE v.nBytes + 2 * MaxWire > DevMax[p] + k * MinWire

LEMMA NearZero ==
    ASSUME NEW p, NEW v
    PROVE  Near(p, v, 0) <=>
             IF DevUnit[p] = "PACKETS" THEN Len(v.queue) + 2 > DevMax[p] + 0
             ELSE v.nBytes + 2 * MaxWire > DevMax[p] + 0
<1>1. 0 * MinWire = 0
  BY MinWireExists
<1> QED BY <1>1 DEF Near

\* A stopped queue has no room and holds a packet, which is on its way; a wake
\* callback is scheduled when one of them has just left.
DevInv(p, v) ==
    /\ v \in DeviceType
    /\ v.nBytes = BytesOf(v.queue, DOMAIN v.queue)
    /\ v.tx = "READY" => v.queue = <<>>
    /\ v.queue = <<>> => ~v.stopped
    /\ v.stopped => Tight(p, v)
    /\ v.wake => v.tx = "BUSY" /\ Near(p, v, 0)
    /\ DevUnit[p] = "PACKETS" /\ ~v.stopped => Len(v.queue) < DevMax[p]

LEMMA DevTypes ==
    ASSUME NEW p \in Ports, NEW v, DevInv(p, v)
    PROVE  /\ v.queue \in Seq(Wires) /\ v.queue \in Seq(Nat) /\ Len(v.queue) \in Nat
           /\ v.nBytes \in Nat /\ v.tx \in {"READY", "BUSY"}
           /\ v.stopped \in BOOLEAN /\ v.wake \in BOOLEAN
           /\ DevMax[p] \in Nat \ {0} /\ DevUnit[p] \in {"PACKETS", "BYTES"}
           /\ v.queue = <<>> => v.nBytes = 0 /\ Len(v.queue) = 0
<1>1. v.queue \in Seq(Wires) /\ v.tx \in {"READY", "BUSY"}
  BY DEF DevInv, DeviceType, Wires
<1>2. v.stopped \in BOOLEAN /\ v.wake \in BOOLEAN
  BY DEF DevInv, DeviceType
<1>3. Len(v.queue) \in Nat /\ DOMAIN v.queue = 1 .. Len(v.queue)
      /\ \A i \in 1 .. Len(v.queue) : v.queue[i] \in Wires
  BY <1>1, LenProperties, ElementOfSeq
<1>4. v.queue \in Seq(Nat)
  <2>1. v.queue \in [1 .. Len(v.queue) -> Wires]
    BY <1>1
  <2>2. v.queue \in [1 .. Len(v.queue) -> Nat]
    BY <2>1, WiresNat
  <2> QED BY <1>3, <2>2
<1>5. v.nBytes \in Nat
  <2>1. 1 \in Int /\ Len(v.queue) \in Int
    BY <1>3
  <2>2. IsFiniteSet(1 .. Len(v.queue))
    BY <2>1, FS_Interval, Zenon
  <2>3. \A i \in DOMAIN v.queue : v.queue[i] \in Nat
    BY <1>3, WiresNat
  <2> QED BY <1>3, <2>2, <2>3, BytesOfType DEF DevInv
<1>6. v.queue = <<>> => v.nBytes = 0 /\ Len(v.queue) = 0
  <2>1. BytesOf(<<>>, DOMAIN <<>>) = 0
    <3>1. DOMAIN <<>> = {}
      OBVIOUS
    <3> QED BY <3>1, BytesOfZero
  <2>2. Len(<<>>) = 0
    OBVIOUS
  <2> QED BY <2>1, <2>2 DEF DevInv
<1> QED BY <1>1, <1>2, <1>3, <1>4, <1>5, <1>6, DeviceAssumption

\* v with other packets.
Holding(v, q, n) == [v EXCEPT !.queue = q, !.nBytes = n]

LEMMA HoldingType ==
    ASSUME NEW v \in DeviceType, NEW q \in Seq(Wires), NEW n \in Int
    PROVE  /\ Holding(v, q, n) \in DeviceType
           /\ Holding(v, q, n).queue = q /\ Holding(v, q, n).nBytes = n
           /\ Holding(v, q, n).tx = v.tx
           /\ Holding(v, q, n).stopped = v.stopped /\ Holding(v, q, n).wake = v.wake
  BY DEF DeviceType, Wires, Holding

\* An empty device queue has room for any packet.
LEMMA EmptyHasRoom ==
    ASSUME NEW p \in Ports, NEW v, Len(v.queue) = 0, v.nBytes = 0,
           NEW bytes \in Nat, bytes <= MaxWire
    PROVE  ~WouldOverflow(p, v, 1, bytes)
<1>1. DevMax[p] \in Nat \ {0} /\ DevUnit[p] \in {"PACKETS", "BYTES"}
      /\ (DevUnit[p] = "BYTES" => MaxWire <= DevMax[p])
  BY DeviceAssumption DEF MaxWire
<1> QED BY <1>1, WiresNat DEF WouldOverflow

\* What the device queue holds after it has taken a packet, before
\* PacketEnqueued() may stop it.
LEMMA TakenBytes ==
    ASSUME NEW p \in Ports, NEW v, DevInv(p, v), NEW wire \in Wires
    PROVE  /\ Append(v.queue, wire) \in Seq(Wires) /\ Append(v.queue, wire) # <<>>
           /\ Len(Append(v.queue, wire)) = Len(v.queue) + 1
           /\ v.nBytes + wire = BytesOf(Append(v.queue, wire), DOMAIN Append(v.queue, wire))
<1>1. v.queue \in Seq(Wires) /\ v.queue \in Seq(Nat) /\ Len(v.queue) \in Nat
  BY DevTypes
<1>2. wire \in Nat
  BY WiresNat
<1>3. /\ Append(v.queue, wire) \in Seq(Wires) /\ Append(v.queue, wire) # <<>>
      /\ Len(Append(v.queue, wire)) = Len(v.queue) + 1
  BY <1>1, AppendProperties
<1>4. BytesOf(Append(v.queue, wire), DOMAIN Append(v.queue, wire))
        = BytesOf(v.queue, DOMAIN v.queue) + wire
  BY <1>1, <1>2, BytesOfAppend
<1> QED BY <1>3, <1>4 DEF DevInv

LEMMA SentWhileBusy ==
    ASSUME NEW p \in Ports, NEW v, DevInv(p, v), v.tx = "BUSY", ~v.stopped,
           NEW wire \in Wires
    PROVE  LET u == DeviceSent(p, v, wire)
           IN  /\ DevInv(p, u) /\ u.tx = "BUSY" /\ u.wake = v.wake
               /\ \A k \in Nat : Near(p, v, k) => Near(p, u, k + 1)
               /\ ~u.stopped => ~WouldOverflow(p, u, 1, Mtu)
<1> DEFINE q == Append(v.queue, wire)
           b == v.nBytes + wire
           n == Holding(v, q, b)
           u == DeviceSent(p, v, wire)
<1>1. /\ v \in DeviceType /\ Len(v.queue) \in Nat /\ v.nBytes \in Nat
      /\ v.stopped \in BOOLEAN /\ v.wake \in BOOLEAN
      /\ DevMax[p] \in Nat \ {0} /\ DevUnit[p] \in {"PACKETS", "BYTES"}
  BY DevTypes DEF DevInv
<1>2. wire \in Nat /\ wire <= MaxWire /\ MaxWire \in Nat /\ Mtu \in Nat /\ Mtu <= MaxWire
  BY WiresNat
<1>3. /\ q \in Seq(Wires) /\ q # <<>> /\ Len(q) = Len(v.queue) + 1
      /\ b = BytesOf(q, DOMAIN q) /\ b \in Nat
  BY <1>1, <1>2, TakenBytes
<1>4. u = IF WouldOverflow(p, n, 1, Mtu) THEN [n EXCEPT !.stopped = TRUE] ELSE n
  BY <1>1 DEF DeviceSent, TxEnqueued, DeviceType, Holding
<1>5. b = v.nBytes + wire
  OBVIOUS
<1> HIDE DEF q, b
<1>6. /\ n \in DeviceType /\ n.queue = q /\ n.nBytes = b /\ n.tx = "BUSY"
      /\ ~n.stopped /\ n.wake = v.wake
  <2>1. b \in Int
    BY <1>3
  <2>2. /\ Holding(v, q, b) \in DeviceType
        /\ Holding(v, q, b).queue = q /\ Holding(v, q, b).nBytes = b
        /\ Holding(v, q, b).tx = v.tx
        /\ Holding(v, q, b).stopped = v.stopped /\ Holding(v, q, b).wake = v.wake
    <3> HIDE DEF n, u
    <3>1. v \in DeviceType /\ q \in Seq(Wires)
      BY <1>1, <1>3
    <3> QED BY <2>1, <3>1, HoldingType
  <2> QED BY <2>2, Zenon
<1> HIDE DEF n, u
<1>7. /\ u \in DeviceType /\ u.queue = q /\ u.nBytes = b /\ u.tx = "BUSY"
      /\ u.wake = v.wake /\ (u.stopped <=> WouldOverflow(p, n, 1, Mtu))
  BY <1>4, <1>6 DEF DeviceType
<1>8. WouldOverflow(p, u, 1, Mtu) <=> WouldOverflow(p, n, 1, Mtu)
  BY <1>6, <1>7 DEF WouldOverflow
<1>9. u.stopped => Tight(p, u)
  BY <1>1, <1>2, <1>3, <1>7, <1>8 DEF WouldOverflow, Tight
<1>10. ASSUME NEW k \in Nat, Near(p, v, k) PROVE Near(p, u, k + 1)
  <2>1. CASE DevUnit[p] = "PACKETS"
    BY <1>1, <1>3, <1>7, <1>10, <2>1 DEF Near
  <2>2. CASE DevUnit[p] # "PACKETS"
    <3>1. MinWire \in Nat /\ MinWire <= wire
      BY MinWireExists
    <3>2. (k + 1) * MinWire = k * MinWire + MinWire /\ k * MinWire \in Nat
      BY <3>1
    <3>3. v.nBytes + 2 * MaxWire > DevMax[p] + k * MinWire
      BY <1>10, <2>2 DEF Near
    <3> DEFINE K == k * MinWire
               L == (k + 1) * MinWire
    <3>4. /\ K \in Nat /\ L = K + MinWire
          /\ v.nBytes + 2 * MaxWire > DevMax[p] + K
      BY <3>2, <3>3
    <3> HIDE DEF K, L
    <3>5. b + 2 * MaxWire > DevMax[p] + L
      BY <1>1, <1>2, <1>5, <3>1, <3>4
    <3> QED BY <1>7, <2>2, <3>5 DEF Near, L
  <2> QED BY <2>1, <2>2
<1>11. v.wake => Near(p, u, 0)
  <2>1. Len(q) + 2 > Len(v.queue) + 2 /\ b + 2 * MaxWire >= v.nBytes + 2 * MaxWire
    BY <1>1, <1>2, <1>3, <1>5
  <2>2. u.queue = q /\ u.nBytes = b
    BY <1>7
  <2>3. /\ Len(q) + 2 \in Int /\ Len(v.queue) + 2 \in Int /\ DevMax[p] + 0 \in Int
        /\ b + 2 * MaxWire \in Int /\ v.nBytes + 2 * MaxWire \in Int
    BY <1>1, <1>2, <1>3
  <2>4. Near(p, v, 0) => Near(p, u, 0)
    BY <2>1, <2>2, <2>3, NearZero
  <2> QED BY <2>4 DEF DevInv
<1>12. DevUnit[p] = "PACKETS" /\ ~u.stopped => Len(u.queue) < DevMax[p]
  BY <1>1, <1>3, <1>7, <1>8 DEF WouldOverflow
<1>13. DevInv(p, u)
  BY <1>3, <1>7, <1>9, <1>11, <1>12 DEF DevInv
<1> QED BY <1>7, <1>8, <1>10, <1>13 DEF u

\* The device starts to transmit the head of its queue.
LEMMA StartedInv ==
    ASSUME NEW p \in Ports, NEW v \in DeviceType, v.queue # <<>>,
           v.nBytes = BytesOf(v.queue, DOMAIN v.queue),
           v.stopped => Tight(p, v), ~v.wake,
           DevUnit[p] = "PACKETS" /\ ~v.stopped => Len(v.queue) < DevMax[p] + 1
    PROVE  LET u == TxStarted(p, v)
           IN  /\ DevInv(p, u) /\ u.tx = "BUSY"
               /\ v.stopped => u.stopped \/ u.wake
<1> DEFINE q == Tail(v.queue)
           b == v.nBytes - Head(v.queue)
           wire == Head(v.queue)
           n == [Holding(v, q, b) EXCEPT !.tx = "BUSY"]
           u == TxStarted(p, v)
<1>1. /\ v.queue \in Seq(Wires) /\ v.queue \in Seq(Nat)
      /\ v.stopped \in BOOLEAN /\ v.wake \in BOOLEAN
  <2>1. v.queue \in Seq(Wires)
    BY DEF DeviceType, Wires
  <2>2. v.queue \in [1 .. Len(v.queue) -> Wires] /\ Len(v.queue) \in Nat
    BY <2>1
  <2>3. v.queue \in Seq(Nat)
    <3>1. v.queue \in [1 .. Len(v.queue) -> Nat]
      BY <2>2, WiresNat
    <3> QED BY <2>2, <3>1
  <2> QED BY <2>1, <2>3 DEF DeviceType
<1>2. /\ q \in Seq(Wires) /\ Len(q) = Len(v.queue) - 1 /\ Len(v.queue) \in Nat \ {0}
      /\ wire \in Wires /\ Len(q) \in Nat /\ (q = <<>> => Len(q) = 0)
  BY <1>1, HeadTailProperties, EmptySeq, LenProperties
<1>3. b = BytesOf(q, DOMAIN q) /\ b \in Nat /\ v.nBytes \in Nat /\ b = v.nBytes - wire
  <2>1. /\ BytesOf(q, DOMAIN q) = BytesOf(v.queue, DOMAIN v.queue) - wire
        /\ BytesOf(v.queue, DOMAIN v.queue) >= wire
        /\ BytesOf(v.queue, DOMAIN v.queue) \in Nat
    BY <1>1, BytesOfTail
  <2>2. wire \in Nat
    BY <1>2, WiresNat
  <2> QED BY <2>1, <2>2
<1>4. wire \in Nat /\ wire <= MaxWire /\ MaxWire \in Nat /\ Mtu \in Nat /\ Mtu <= MaxWire
  BY <1>2, WiresNat
<1>5. DevMax[p] \in Nat \ {0} /\ DevUnit[p] \in {"PACKETS", "BYTES"}
  BY DeviceAssumption
<1>6. u = IF WouldOverflow(p, n, 1, Mtu) THEN n
          ELSE [n EXCEPT !.stopped = FALSE, !.wake = v.stopped]
  BY <1>1 DEF TxStarted, DeviceType, Holding
<1> HIDE DEF q, b, wire
<1>7. /\ n \in DeviceType /\ n.queue = q /\ n.nBytes = b /\ n.tx = "BUSY"
      /\ n.stopped = v.stopped /\ n.wake = v.wake
  <2> DEFINE h == Holding(v, q, b)
  <2>1. b \in Int
    BY <1>3
  <2> HIDE DEF h
  <2>2. /\ h \in DeviceType /\ h.queue = q /\ h.nBytes = b
        /\ h.stopped = v.stopped /\ h.wake = v.wake
    BY <1>2, <2>1, HoldingType DEF h
  <2>3. n = [h EXCEPT !.tx = "BUSY"]
    BY DEF h
  <2> HIDE DEF n
  <2> QED BY <2>2, <2>3 DEF DeviceType
<1> DEFINE full == WouldOverflow(p, n, 1, Mtu)
<1> HIDE DEF n, u, full
<1>9. /\ u \in DeviceType /\ u.queue = q /\ u.nBytes = b /\ u.tx = "BUSY"
      /\ u.stopped <=> (full /\ v.stopped)
      /\ u.wake <=> (~full /\ v.stopped)
  <2>1. CASE full
    BY <1>1, <1>6, <1>7, <2>1 DEF full
  <2>2. CASE ~full
    BY <1>1, <1>6, <1>7, <2>2 DEF full, DeviceType
  <2> QED BY <2>1, <2>2
<1>10. full <=> IF DevUnit[p] = "PACKETS" THEN Len(q) + 1 > DevMax[p] ELSE b + Mtu > DevMax[p]
  BY <1>7 DEF full, WouldOverflow
<1>11. u.stopped => Tight(p, u)
  <2>1. full => Tight(p, u)
    <3>1. full => IF DevUnit[p] = "PACKETS" THEN Len(q) + 1 > DevMax[p]
                  ELSE b + MaxWire > DevMax[p]
      BY <1>3, <1>4, <1>5, <1>10
    <3>2. u.queue = q /\ u.nBytes = b
      BY <1>9
    <3> QED BY <3>1, <3>2 DEF Tight
  <2> QED BY <1>9, <2>1
<1>12. u.wake => Near(p, u, 0)
  <2>1. Tight(p, v) => IF DevUnit[p] = "PACKETS" THEN Len(q) + 2 > DevMax[p] + 0
                       ELSE b + 2 * MaxWire > DevMax[p] + 0
    BY <1>2, <1>3, <1>4, <1>5 DEF Tight
  <2>2. u.queue = q /\ u.nBytes = b
    BY <1>9
  <2>3. Tight(p, v) => Near(p, u, 0)
    BY <2>1, <2>2, NearZero
  <2> QED BY <1>9, <2>3
<1>13. u.queue = <<>> => ~u.stopped
  <2> SUFFICES ASSUME q = <<>> PROVE ~full
    BY <1>9
  <2>1. Len(q) = 0 /\ b = 0
    <3>1. DOMAIN <<>> = {}
      OBVIOUS
    <3>2. BytesOf(<<>>, DOMAIN <<>>) = 0
      BY <3>1, BytesOfZero
    <3> QED BY <1>2, <1>3, <3>2
  <2>2. DevUnit[p] = "BYTES" => MaxWire <= DevMax[p]
    BY DeviceAssumption DEF MaxWire
  <2> QED BY <1>4, <1>5, <1>10, <2>1, <2>2
<1>14. DevUnit[p] = "PACKETS" /\ ~u.stopped => Len(u.queue) < DevMax[p]
  <2>1. u.queue = q
    BY <1>9
  <2>2. DevUnit[p] = "PACKETS" /\ ~full => Len(q) < DevMax[p]
    BY <1>2, <1>5, <1>10
  <2>3. DevUnit[p] = "PACKETS" /\ ~v.stopped => Len(q) < DevMax[p]
    BY <1>2, <1>5
  <2> QED BY <1>9, <2>1, <2>2, <2>3
<1>15. DevInv(p, u)
  BY <1>3, <1>9, <1>11, <1>12, <1>13, <1>14 DEF DevInv
<1>16. v.stopped => u.stopped \/ u.wake
  BY <1>9
<1> QED BY <1>9, <1>15, <1>16 DEF u

LEMMA SentWhileReady ==
    ASSUME NEW p \in Ports, NEW v, DevInv(p, v), v.tx = "READY", NEW wire \in Wires
    PROVE  LET u == DeviceSent(p, v, wire) IN DevInv(p, u) /\ u.tx = "BUSY"
<1> DEFINE q == Append(v.queue, wire)
           b == v.nBytes + wire
           m == Holding(v, q, b)
           n == TxEnqueued(p, v, wire)
<1>1. /\ v \in DeviceType /\ v.queue = <<>> /\ ~v.stopped /\ ~v.wake
      /\ Len(v.queue) = 0 /\ v.nBytes = 0
      /\ DevMax[p] \in Nat \ {0} /\ DevUnit[p] \in {"PACKETS", "BYTES"}
  BY DevTypes DEF DevInv
<1>2. wire \in Nat /\ wire <= MaxWire /\ MaxWire \in Nat /\ Mtu \in Nat /\ Mtu <= MaxWire
  BY WiresNat
<1>3. /\ q \in Seq(Wires) /\ q # <<>> /\ Len(q) = 1
      /\ b = BytesOf(q, DOMAIN q) /\ b = wire
  <2>1. /\ q \in Seq(Wires) /\ q # <<>> /\ Len(q) = Len(v.queue) + 1
        /\ b = BytesOf(q, DOMAIN q)
    BY TakenBytes
  <2>2. b = wire
    BY <1>1, <1>2
  <2> HIDE DEF q, b
  <2> QED BY <1>1, <2>1, <2>2
<1>4. n = IF WouldOverflow(p, m, 1, Mtu) THEN [m EXCEPT !.stopped = TRUE] ELSE m
  BY <1>1 DEF TxEnqueued, DeviceType, Holding
<1>5. DeviceSent(p, v, wire) = TxStarted(p, n)
  BY DEF DeviceSent
<1> HIDE DEF q, b
<1>6. /\ m \in DeviceType /\ m.queue = q /\ m.nBytes = b /\ ~m.stopped /\ ~m.wake
  <2>1. b \in Int
    BY <1>2, <1>3
  <2> HIDE DEF m
  <2> QED BY <1>1, <1>3, <2>1, HoldingType DEF m
<1> HIDE DEF m, n
<1>7. /\ n \in DeviceType /\ n.queue = q /\ n.nBytes = b /\ ~n.wake
      /\ (n.stopped <=> WouldOverflow(p, m, 1, Mtu))
  BY <1>4, <1>6 DEF DeviceType
<1>8. n.stopped => Tight(p, n)
  BY <1>1, <1>2, <1>3, <1>6, <1>7 DEF Tight, WouldOverflow
<1>9. DevUnit[p] = "PACKETS" /\ ~n.stopped => Len(n.queue) < DevMax[p] + 1
  <2>1. Len(n.queue) = 1
    BY <1>3, <1>7
  <2> QED BY <1>1, <2>1
<1>10. DevInv(p, TxStarted(p, n)) /\ TxStarted(p, n).tx = "BUSY"
  BY <1>3, <1>7, <1>8, <1>9, StartedInv
<1> QED BY <1>5, <1>10

\* A packet that a running device queue refuses stops it.
LEMMA DiscardedInv ==
    ASSUME NEW p \in Ports, NEW v, DevInv(p, v), NEW wire \in Wires,
           WouldOverflow(p, v, 1, wire)
    PROVE  DevInv(p, [v EXCEPT !.stopped = TRUE])
<1> DEFINE u == [v EXCEPT !.stopped = TRUE]
<1>1. /\ v \in DeviceType /\ Len(v.queue) \in Nat /\ v.nBytes \in Nat
      /\ DevMax[p] \in Nat \ {0} /\ DevUnit[p] \in {"PACKETS", "BYTES"}
  BY DevTypes DEF DevInv
<1>2. /\ u \in DeviceType /\ u.queue = v.queue /\ u.nBytes = v.nBytes /\ u.tx = v.tx
      /\ u.stopped = TRUE /\ u.wake = v.wake
  BY <1>1 DEF DeviceType
<1>3. wire \in Nat /\ wire <= MaxWire /\ MaxWire \in Nat /\ Mtu \in Nat /\ Mtu <= MaxWire
  BY WiresNat
<1> HIDE DEF u
<1>4. v.queue # <<>>
  BY <1>3, DevTypes, EmptyHasRoom
<1>5. Tight(p, u)
  BY <1>1, <1>2, <1>3 DEF WouldOverflow, Tight
<1>6. Near(p, v, 0) => Near(p, u, 0)
  BY <1>2 DEF Near
<1> QED BY <1>2, <1>4, <1>5, <1>6 DEF DevInv, u

-----------------------------------------------------------------------------
(* The invariant.                                                          *)

BaseInv ==
    /\ TypeOK
    /\ Solid(sm)
    /\ \A p \in Ports : Exact(disc[p]) /\ DevInv(p, dev[p])
    /\ NoReserve => Queued <= sm.occupied

-----------------------------------------------------------------------------
(* TrafficControlLayer::Send: whatever the algorithm, the packet joins one *)
(* queue or none, and is charged or not.  (s, d) is what the algorithm has *)
(* left of the shared buffer and the queue disc.                           *)

LEMMA ConfType ==
    ASSUME BaseInv, NEW p \in Ports
    PROVE  /\ conf.alg[p] \in Algorithms /\ conf.static[p] \in Nat
           /\ conf.sizes[p] \subseteq Sizes
  BY DeviceAssumption DEF BaseInv, TypeOK

\* The threshold that admits a packet of an algorithm other than CS.
Granted(p, c, size) ==
    conf.alg[p] # "CS" =>
        AlphaDen * (disc[p].nBytes[c] + size) <= TopAlpha(p, c) * sm.remaining

Refused(p, s, d) == sm' = s /\ disc' = [disc EXCEPT ![p] = d]

Paid(p, c, size, s, d) ==
    /\ Chargeable(s, ItemSize(size))
    /\ Granted(p, c, size)
    /\ sm' = Charged(s, c, ItemSize(size))
    /\ disc' = [disc EXCEPT ![p] = IF ChildFits(d, c, size) THEN Enqueued(d, c, size) ELSE d]

Free(p, c, size, s, d) ==
    /\ conf.static[p] # 0
    /\ sm' = s
    /\ disc' = [disc EXCEPT ![p] = Enqueued(d, c, size)]

Outcome(p, c, size) ==
    /\ Arrival(p)
    /\ \E e, s, d :
          /\ e \in Priorities
          /\ Solid(s) /\ SameBytes(s, sm)
          /\ Exact(d) /\ SameQueues(d, disc[p])
          /\ Refused(p, s, d) \/ Paid(p, e, size, s, d) \/ Free(p, e, size, s, d)

LEMMA DecidedOutcome ==
    ASSUME BaseInv, NEW p \in Ports, NEW c \in Priorities, NEW e \in Priorities,
           NEW size \in Sizes, NEW s, NEW d, NEW accept,
           Arrival(p), Decided(accept, p, e, size, s, d),
           accept => Granted(p, e, size),
           Solid(s), SameBytes(s, sm), Exact(d), SameQueues(d, disc[p])
    PROVE  Outcome(p, c, size)
<1>1. Refused(p, s, d) \/ Paid(p, e, size, s, d)
  BY DEF Decided, Admitted, Refused, Paid
<1> QED BY <1>1 DEF Outcome

LEMMA AlphaTypes ==
    ASSUME NEW p \in Ports, NEW c \in Priorities
    PROVE  /\ AlphaNum[c] \in Nat /\ AlphaUnsched \in Nat /\ TopAlpha(p, c) \in Nat
           /\ AlphaNum[c] <= TopAlpha(p, c)
           /\ conf.alg[p] \in {"FAB", "ABM"} => AlphaUnsched <= TopAlpha(p, c)
<1>1. AlphaNum[c] \in Nat /\ AlphaUnsched \in Nat
  BY DiscAssumption
<1> QED BY <1>1 DEF TopAlpha

LEMMA WithinGranted ==
    ASSUME BaseInv, NEW p \in Ports, NEW c \in Priorities, NEW size \in Sizes,
           NEW s, NEW d, Solid(s), SameBytes(s, sm), Exact(d), SameQueues(d, disc[p]),
           NEW alpha \in Nat, alpha <= TopAlpha(p, c),
           NEW max, Within(s, d, c, size, max),
           max = Share(s, alpha) \/ (d.started /\ max = ShareABM(s, d, c, alpha))
    PROVE  Granted(p, c, size)
<1> DEFINE x == d.nBytes[c] + size
<1>1. x \in Nat /\ x = disc[p].nBytes[c] + size
  <2>1. d.nBytes[c] \in Nat /\ size \in Nat /\ d.nBytes = disc[p].nBytes
    BY ExactBytes, SizesNat DEF SameQueues
  <2> QED BY <2>1
<1>2. x <= max
  BY DEF Within
<1> HIDE DEF x
<1>3. AlphaDen * x <= alpha * s.remaining
  BY <1>1, <1>2, ShareBound, ShareABMBound
<1>4. s.remaining \in Nat /\ s.remaining = sm.remaining
  BY DEF Solid, SharedBufferType, SameBytes
<1>5. s.remaining * alpha <= s.remaining * TopAlpha(p, c)
  BY <1>4, AlphaTypes, TimesMonotone
<1>6. TopAlpha(p, c) \in Nat /\ AlphaDen \in Nat
  BY AlphaTypes, DiscAssumption
<1>7. AlphaDen * x <= TopAlpha(p, c) * sm.remaining
  <2> DEFINE top == TopAlpha(p, c)
  <2>1. top \in Nat
    BY <1>6
  <2>2. s.remaining * alpha <= s.remaining * top
    BY <1>5
  <2> HIDE DEF top
  <2>3. /\ s.remaining * alpha = alpha * s.remaining
        /\ s.remaining * top = top * s.remaining
        /\ AlphaDen * x \in Int /\ alpha * s.remaining \in Int /\ top * s.remaining \in Int
    BY <1>1, <1>4, <1>6, <2>1
  <2>4. AlphaDen * x <= top * s.remaining
    BY <1>3, <2>2, <2>3
  <2> QED BY <1>4, <2>4 DEF top
<1> QED BY <1>1, <1>7 DEF Granted

LEMMA Unchanged ==
    ASSUME BaseInv, NEW p \in Ports
    PROVE  Solid(sm) /\ SameBytes(sm, sm) /\ Exact(disc[p]) /\ SameQueues(disc[p], disc[p])
  BY DEF BaseInv, SameBytes, SameQueues

LEMMA SendReservedOutcome ==
    ASSUME BaseInv, NEW p \in Ports, NEW c \in Priorities, NEW size \in Sizes,
           SendReserved(p, c, size)
    PROVE  Outcome(p, c, size)
<1>1. conf.static[p] # 0
  <2>1. disc[p].bytes + ItemSize(size) <= conf.static[p]
    BY DEF SendReserved, Reserved
  <2>2. disc[p].bytes \in Nat /\ ItemSize(size) \in Nat \ {0}
    BY ExactBytes, SizesNat DEF BaseInv
  <2> QED BY <2>1, <2>2
<1>2. disc = [disc EXCEPT ![p] = disc[p]]
  BY DEF BaseInv, TypeOK
<1>3. Arrival(p)
  BY DEF SendReserved
<1>4. CASE ChildFits(disc[p], c, size)
  <2>1. Free(p, c, size, sm, disc[p])
    BY <1>1, <1>4 DEF Free, SendReserved
  <2> QED BY <1>3, <2>1, Unchanged DEF Outcome
<1>5. CASE ~ChildFits(disc[p], c, size)
  <2>1. Refused(p, sm, disc[p])
    BY <1>2, <1>5 DEF Refused, SendReserved
  <2> QED BY <1>3, <2>1, Unchanged DEF Outcome
<1> QED BY <1>4, <1>5

LEMMA SendCSOutcome ==
    ASSUME BaseInv, NEW p \in Ports, NEW c \in Priorities, NEW size \in Sizes,
           SendCS(p, c, size)
    PROVE  Outcome(p, c, size)
<1>1. Granted(p, c, size)
  BY DEF SendCS, Granted
<1> QED BY <1>1, Unchanged, DecidedOutcome DEF SendCS, Shared

LEMMA SendDTOutcome ==
    ASSUME BaseInv, NEW p \in Ports, NEW c \in Priorities, NEW size \in Sizes,
           SendDT(p, c, size)
    PROVE  Outcome(p, c, size)
<1> DEFINE accept == Within(sm, disc[p], c, size, Share(sm, AlphaNum[c]))
<1>1. ASSUME accept PROVE Granted(p, c, size)
  BY <1>1, Unchanged, AlphaTypes, WithinGranted
<1>2. Arrival(p) /\ Decided(accept, p, c, size, sm, disc[p])
  BY DEF SendDT, Shared
<1> HIDE DEF accept
<1> QED BY <1>1, <1>2, Unchanged, DecidedOutcome

LEMMA SendFABOutcome ==
    ASSUME BaseInv, NEW p \in Ports, NEW c \in Priorities, NEW size \in Sizes,
           SendFAB(p, c, size)
    PROVE  Outcome(p, c, size)
<1>1. PICK f \in Flows, stale \in BOOLEAN :
          LET d == Seen(disc[p], f, stale, size)
              alpha == IF d.flow[f] < FlowThreshold THEN AlphaUnsched ELSE AlphaNum[c]
          IN  Decided(Within(sm, d, c, size, Share(sm, alpha)), p, c, size, sm, d)
  BY DEF SendFAB
<1> DEFINE d == Seen(disc[p], f, stale, size)
           alpha == IF d.flow[f] < FlowThreshold THEN AlphaUnsched ELSE AlphaNum[c]
           accept == Within(sm, d, c, size, Share(sm, alpha))
<1>2. Arrival(p) /\ Decided(accept, p, c, size, sm, d) /\ conf.alg[p] = "FAB"
  BY <1>1 DEF SendFAB, Shared
<1>3. Exact(d) /\ SameQueues(d, disc[p])
  BY SizesNat, Unchanged, SeenExact
<1>4. alpha \in Nat /\ alpha <= TopAlpha(p, c)
  BY <1>2, AlphaTypes
<1> HIDE DEF alpha, d
<1>5. ASSUME accept PROVE Granted(p, c, size)
  BY <1>3, <1>4, <1>5, Unchanged, WithinGranted
<1> HIDE DEF accept
<1> QED BY <1>2, <1>3, <1>5, Unchanged, DecidedOutcome

LEMMA SendIBOutcome ==
    ASSUME BaseInv, NEW p \in Ports, NEW c \in Priorities, NEW size \in Sizes,
           SendIB(p, c, size)
    PROVE  Outcome(p, c, size)
<1>1. PICK f \in Flows, stale \in BOOLEAN :
          LET d == Seen(disc[p], f, stale, 1)
              short == EnableDPP /\ d.flow[f] < FlowThreshold
              e == IF short THEN 0 ELSE c
              accept == Within(sm, d, e, size, Share(sm, AlphaNum[e]))
          IN  \/ Decided(accept, p, e, size, sm, d)
              \/ ~short /\ d.nBytes[c] > AfdFloor /\ Decided(FALSE, p, e, size, sm, d)
  BY DEF SendIB
<1> DEFINE d == Seen(disc[p], f, stale, 1)
           short == EnableDPP /\ d.flow[f] < FlowThreshold
           e == IF short THEN 0 ELSE c
           accept == Within(sm, d, e, size, Share(sm, AlphaNum[e]))
<1>2. Arrival(p) /\ (Decided(accept, p, e, size, sm, d) \/ Decided(FALSE, p, e, size, sm, d))
  BY <1>1 DEF SendIB, Shared
<1>3. Exact(d) /\ SameQueues(d, disc[p])
  BY Unchanged, SeenExact
<1>4. e \in Priorities
  BY FiniteIndices
<1> HIDE DEF e, d
<1>5. ASSUME accept PROVE Granted(p, e, size)
  BY <1>3, <1>4, <1>5, Unchanged, AlphaTypes, WithinGranted
<1> HIDE DEF accept
<1>6. CASE Decided(accept, p, e, size, sm, d)
  BY <1>2, <1>3, <1>4, <1>5, <1>6, Unchanged, DecidedOutcome
<1>7. CASE Decided(FALSE, p, e, size, sm, d)
  BY <1>2, <1>3, <1>4, <1>7, Unchanged, DecidedOutcome
<1> QED BY <1>2, <1>6, <1>7

LEMMA SendABMOutcome ==
    ASSUME BaseInv, NEW p \in Ports, NEW c \in Priorities, NEW size \in Sizes,
           SendABM(p, c, size)
    PROVE  Outcome(p, c, size)
<1>1. PICK alpha \in {AlphaUnsched, AlphaNum[c]} :
          LET s == SetSaturated(sm, p, c, AtMost(disc[p].nBytes[c], Sat))
              d == IF disc[p].started THEN disc[p]
                   ELSE Updated(disc[p], s, [e \in Priorities |-> RateUnit])
          IN  Decided(Within(s, d, c, size, ShareABM(s, d, c, alpha)), p, c, size, s, d)
  BY DEF SendABM
<1> DEFINE level == AtMost(disc[p].nBytes[c], Sat)
           s == SetSaturated(sm, p, c, level)
           rate == [e \in Priorities |-> RateUnit]
           d == IF disc[p].started THEN disc[p] ELSE Updated(disc[p], s, rate)
           accept == Within(s, d, c, size, ShareABM(s, d, c, alpha))
<1>2. Arrival(p) /\ Decided(accept, p, c, size, s, d) /\ conf.alg[p] = "ABM"
  BY <1>1 DEF SendABM, Shared
<1>3. Solid(s) /\ SameBytes(s, sm)
  <2>1. disc[p].nBytes[c] \in Nat /\ Sat \in Nat
    BY Unchanged, ExactBytes, DiscAssumption
  <2>2. level \in 0 .. Sat
    BY <2>1 DEF AtMost
  <2> HIDE DEF level
  <2> QED BY <2>2, Unchanged, SetSaturatedSolid
<1>4. rate \in [Priorities -> Rates]
  BY FullRate
<1> HIDE DEF s, rate
<1>5. Exact(d) /\ SameQueues(d, disc[p]) /\ d.started
  <2>1. CASE disc[p].started
    BY <2>1, Unchanged
  <2>2. CASE ~disc[p].started
    <3>1. s \in SharedBufferType
      BY <1>3 DEF Solid
    <3>2. Exact(Updated(disc[p], s, rate)) /\ SameQueues(Updated(disc[p], s, rate), disc[p])
      BY <1>4, <3>1, Unchanged, UpdatedExact
    <3>3. disc[p] \in DiscType
      BY Unchanged DEF Exact
    <3>4. Updated(disc[p], s, rate).started
      BY <3>3 DEF Updated, DiscType
    <3> QED BY <2>2, <3>2, <3>4
  <2> QED BY <2>1, <2>2
<1>6. alpha \in Nat /\ alpha <= TopAlpha(p, c)
  BY <1>2, AlphaTypes
<1> HIDE DEF d
<1>7. ASSUME accept PROVE Granted(p, c, size)
  BY <1>3, <1>5, <1>6, <1>7, WithinGranted
<1> HIDE DEF accept
<1> QED BY <1>2, <1>3, <1>5, <1>7, DecidedOutcome

LEMMA SendOutcome ==
    ASSUME BaseInv, Send
    PROVE  \E p \in Ports, c \in Priorities, size \in Sizes : Outcome(p, c, size)
<1>1. PICK p \in Ports, c \in Priorities : \E size \in conf.sizes[p] :
          \/ SendReserved(p, c, size) \/ SendCS(p, c, size) \/ SendDT(p, c, size)
          \/ SendFAB(p, c, size) \/ SendIB(p, c, size) \/ SendABM(p, c, size)
  BY DEF Send
<1>2. PICK size \in Sizes :
          \/ SendReserved(p, c, size) \/ SendCS(p, c, size) \/ SendDT(p, c, size)
          \/ SendFAB(p, c, size) \/ SendIB(p, c, size) \/ SendABM(p, c, size)
  BY <1>1, ConfType
<1> QED BY <1>2, SendReservedOutcome, SendCSOutcome, SendDTOutcome,
           SendFABOutcome, SendIBOutcome, SendABMOutcome

-----------------------------------------------------------------------------
(* What a step of one port does to the totals.                             *)

\* QueuedOf(c) in the queue discs D.
QueuedIn(D, c) == BytesOf([p \in Ports |-> D[p].nBytes[c]], Ports)

LEMMA QueuedType ==
    ASSUME BaseInv
    PROVE  /\ Queued \in Nat
           /\ \A p \in Ports : disc[p].bytes \in Nat /\ disc[p].bytes <= Queued
           /\ \A c \in Priorities : QueuedIn(disc, c) \in Nat
<1> DEFINE f == [p \in Ports |-> disc[p].bytes]
<1>1. \A p \in Ports : f[p] \in Nat /\ f[p] = disc[p].bytes
  BY ExactBytes DEF BaseInv
<1>2. Queued = BytesOf(f, Ports)
  BY DEF Queued
<1> HIDE DEF f
<1>3. BytesOf(f, Ports) \in Nat
  BY <1>1, FiniteIndices, BytesOfType
<1>4. ASSUME NEW p \in Ports PROVE f[p] <= BytesOf(f, Ports)
  <2>1. BytesOf(f, Ports) = BytesOf(f, Ports \ {p}) + f[p]
    BY <1>1, FiniteIndices, BytesOfSplit
  <2>2. IsFiniteSet(Ports \ {p})
    BY FiniteIndices, FS_Difference
  <2>3. BytesOf(f, Ports \ {p}) \in Nat
    BY <1>1, <2>2, BytesOfType
  <2> QED BY <1>1, <2>1, <2>3
<1>5. ASSUME NEW c \in Priorities PROVE QueuedIn(disc, c) \in Nat
  <2> DEFINE g == [p \in Ports |-> disc[p].nBytes[c]]
  <2>1. \A p \in Ports : g[p] \in Nat
    BY ExactBytes DEF BaseInv
  <2>2. QueuedIn(disc, c) = BytesOf(g, Ports)
    BY DEF QueuedIn
  <2> HIDE DEF g
  <2> QED BY <2>1, <2>2, FiniteIndices, BytesOfType
<1> QED BY <1>1, <1>2, <1>3, <1>4, <1>5

\* Each priority gains what port p gains by having the queue disc d.
Moved(p, d) ==
    \A c \in Priorities :
        QueuedIn(disc', c) = QueuedIn(disc, c) + d.nBytes[c] - disc[p].nBytes[c]

LEMMA DiscChanged ==
    ASSUME BaseInv, NEW p \in Ports, NEW d, Exact(d), disc' = [disc EXCEPT ![p] = d]
    PROVE  /\ disc' \in [Ports -> DiscType]
           /\ \A r \in Ports : Exact(disc'[r]) /\ (r # p => disc'[r] = disc[r])
           /\ disc'[p] = d
           /\ Queued' = Queued + d.bytes - disc[p].bytes
           /\ Moved(p, d)
<1>1. disc \in [Ports -> DiscType] /\ d \in DiscType
  BY DEF BaseInv, TypeOK, Exact
<1>2. /\ disc' \in [Ports -> DiscType] /\ disc'[p] = d
      /\ \A r \in Ports : r # p => disc'[r] = disc[r]
  BY <1>1
<1>3. Queued' = Queued + d.bytes - disc[p].bytes
  <2> DEFINE f == [r \in Ports |-> disc[r].bytes]
             g == [r \in Ports |-> disc'[r].bytes]
             v == d.bytes
  <2>1. f \in [Ports -> Nat] /\ v \in Nat /\ f[p] = disc[p].bytes
    BY ExactBytes DEF BaseInv
  <2>2. g = [f EXCEPT ![p] = v]
    BY <1>2
  <2>3. Queued = BytesOf(f, Ports) /\ Queued' = BytesOf(g, Ports)
    BY DEF Queued
  <2> HIDE DEF f, g, v
  <2>4. BytesOf(g, Ports) = BytesOf(f, Ports) + v - f[p]
    BY <2>1, <2>2, PortsUpdated
  <2>5. Queued' = Queued + v - f[p]
    BY <2>3, <2>4
  <2> QED BY <2>1, <2>5 DEF v
<1>4. ASSUME NEW c \in Priorities
      PROVE  QueuedIn(disc', c) = QueuedIn(disc, c) + d.nBytes[c] - disc[p].nBytes[c]
  <2> DEFINE f == [r \in Ports |-> disc[r].nBytes[c]]
             g == [r \in Ports |-> disc'[r].nBytes[c]]
             v == d.nBytes[c]
  <2>1. f \in [Ports -> Nat] /\ v \in Nat /\ f[p] = disc[p].nBytes[c]
    BY ExactBytes DEF BaseInv
  <2>2. g = [f EXCEPT ![p] = v]
    BY <1>2
  <2>3. QueuedIn(disc, c) = BytesOf(f, Ports) /\ QueuedIn(disc', c) = BytesOf(g, Ports)
    BY DEF QueuedIn
  <2> HIDE DEF f, g, v
  <2>4. BytesOf(g, Ports) = BytesOf(f, Ports) + v - f[p]
    BY <2>1, <2>2, PortsUpdated
  <2>5. QueuedIn(disc', c) = QueuedIn(disc, c) + v - f[p]
    BY <2>3, <2>4
  <2> QED BY <2>1, <2>5 DEF v
<1>5. \A r \in Ports : Exact(disc'[r])
  BY <1>2 DEF BaseInv
<1>6. Moved(p, d)
  BY <1>4 DEF Moved
<1> QED BY <1>2, <1>3, <1>5, <1>6

\* A packet leaves the queue disc of port p.
LEMMA Leaving ==
    ASSUME BaseInv, NEW p \in Ports, NEW c \in ClassServed(p, disc[p])
    PROVE  LET d == DequeuedDisc(p, c)
               s == CreditedBuffer(p, c)
               b == ItemSize(Head(disc[p].queue[c]))
           IN  /\ c \in Priorities /\ c \in Backlog(disc[p])
               /\ Head(disc[p].queue[c]) \in Sizes /\ b \in Nat \ {0} /\ Wire(p, c) \in Wires
               /\ Exact(d) /\ d.bytes = disc[p].bytes - b
               /\ d.queue = [disc[p].queue EXCEPT ![c] = Tail(@)]
               /\ d.nBytes = [disc[p].nBytes EXCEPT ![c] = @ - b]
               /\ disc[p].nBytes[c] >= b
               /\ Solid(s)
               /\ NoReserve => s = Credited(sm, c, b)
<1> DEFINE e == Dequeued(disc[p], c)
           d == DequeuedDisc(p, c)
           s == CreditedBuffer(p, c)
           size == Head(disc[p].queue[c])
           b == ItemSize(size)
<1>1. c \in Backlog(disc[p]) /\ c \in Priorities /\ Exact(disc[p])
  BY DEF ClassServed, Backlog, BaseInv
<1>2. /\ Exact(e) /\ size \in Sizes /\ e.bytes = disc[p].bytes - b
      /\ e.queue = [disc[p].queue EXCEPT ![c] = Tail(@)]
      /\ e.nBytes = [disc[p].nBytes EXCEPT ![c] = @ - b] /\ disc[p].nBytes[c] >= b
  BY <1>1, DequeuedExact
<1>3. b \in Nat \ {0} /\ size \in Nat \ {0}
  BY <1>2, SizesNat
<1>4. Wire(p, c) \in Wires
  BY <1>2 DEF Wire, Wires
<1>5. /\ Exact(d) /\ d.bytes = e.bytes /\ d.queue = e.queue /\ d.nBytes = e.nBytes
  <2> DEFINE i == IF RoundRobin[p] THEN (c + 1) % NPrior ELSE e.index
  <2>1. d = [e EXCEPT !.index = i]
    BY DEF DequeuedDisc
  <2>2. e \in DiscType
    BY <1>2 DEF Exact
  <2>3. i \in Priorities
    <3>1. c + 1 \in Int /\ NPrior \in Nat \ {0}
      BY <1>1, DiscAssumption DEF Priorities
    <3>2. (c + 1) % NPrior \in 0 .. NPrior - 1
      BY <3>1, RemainderRange
    <3>3. e.index \in Priorities
      BY <2>2 DEF DiscType
    <3> QED BY <3>2, <3>3 DEF Priorities
  <2> HIDE DEF d, e, i
  <2>4. /\ d \in DiscType /\ d.bytes = e.bytes /\ d.queue = e.queue /\ d.nBytes = e.nBytes
        /\ d.started = e.started /\ d.nofP = e.nofP
    BY <2>1, <2>2, <2>3 DEF DiscType
  <2> QED BY <1>2, <2>4 DEF Exact
<1>6. Solid(s) /\ (NoReserve => s = Credited(sm, c, b))
  <2>1. Solid(sm) /\ Solid(Credited(sm, c, b))
    BY <1>1, <1>3, CreditedSolid DEF BaseInv
  <2>2. s = IF FromShared(conf.static[p], e, size) THEN Credited(sm, c, b) ELSE sm
    BY DEF CreditedBuffer
  <2>3. NoReserve => FromShared(conf.static[p], e, size)
    <3>1. e.bytes \in Nat
      BY <1>2, ExactBytes
    <3>2. e.bytes + size > 0
      BY <1>3, <3>1
    <3> QED BY <3>2 DEF NoReserve, FromShared
  <2> HIDE DEF s
  <2> QED BY <2>1, <2>2, <2>3
<1> QED BY <1>1, <1>2, <1>3, <1>4, <1>5, <1>6

-----------------------------------------------------------------------------
(* BaseInv holds in every step.                                            *)

LEMMA EmptyDevInv ==
    ASSUME NEW p \in Ports
    PROVE  DevInv(p, [queue |-> <<>>, nBytes |-> 0, tx |-> "READY",
                      stopped |-> FALSE, wake |-> FALSE])
<1>1. BytesOf(<<>>, DOMAIN <<>>) = 0
  <2>1. DOMAIN <<>> = {}
    OBVIOUS
  <2> QED BY <2>1, BytesOfZero
<1>2. <<>> \in Seq({ItemSize(size) + PppHeader : size \in Sizes}) /\ Len(<<>>) = 0
  OBVIOUS
<1>3. DevMax[p] \in Nat \ {0}
  BY DeviceAssumption
<1> QED BY <1>1, <1>2, <1>3 DEF DevInv, DeviceType

LEMMA InitBase == Init => BaseInv
<1> SUFFICES ASSUME Init PROVE BaseInv
  OBVIOUS
<1>1. sm = EmptySharedBuffer /\ Solid(sm)
  BY EmptySolid DEF Init
<1>2. \A p \in Ports : disc[p] = EmptyDisc /\ Exact(disc[p]) /\ DevInv(p, dev[p])
  BY EmptyExact, EmptyDevInv DEF Init
<1>3. TypeOK
  <2>1. disc \in [Ports -> DiscType] /\ dev \in [Ports -> DeviceType]
    <3>1. \A p \in Ports : disc[p] \in DiscType /\ dev[p] \in DeviceType
      BY <1>2 DEF Exact, DevInv
    <3> QED BY <3>1 DEF Init
  <2> QED BY <1>1, <2>1 DEF TypeOK, Init, Solid
<1>4. Queued = 0 /\ sm.occupied = 0
  <2>1. \A p \in Ports : [r \in Ports |-> disc[r].bytes][p] = 0
    BY <1>2 DEF EmptyDisc
  <2> QED BY <1>1, <2>1, BytesOfZero DEF Queued, EmptySharedBuffer
<1> QED BY <1>1, <1>2, <1>3, <1>4 DEF BaseInv

LEMMA FreshRun ==
    ASSUME NEW p \in Ports
    PROVE  [port |-> p, quota |-> Quota] \in Runs /\ [port |-> p, quota |-> Quota] # NoRun
<1>1. Quota \in Nat \ {0}
  BY DeviceAssumption
<1>2. [port |-> p, quota |-> Quota].quota = Quota /\ NoRun.quota = 0
  BY DEF NoRun
<1> QED BY <1>1, <1>2 DEF Runs

\* What an arrival leaves of the totals.
LEMMA OutcomeTotals ==
    ASSUME BaseInv, NEW p \in Ports, NEW c \in Priorities, NEW size \in Sizes,
           Outcome(p, c, size)
    PROVE  /\ Solid(sm')
           /\ \A r \in Ports : Exact(disc'[r])
           /\ disc' \in [Ports -> DiscType]
           /\ NoReserve => Queued' <= sm'.occupied
<1>1. PICK e, s, d :
          /\ e \in Priorities
          /\ Solid(s) /\ SameBytes(s, sm)
          /\ Exact(d) /\ SameQueues(d, disc[p])
          /\ Refused(p, s, d) \/ Paid(p, e, size, s, d) \/ Free(p, e, size, s, d)
  BY DEF Outcome
<1> DEFINE b == ItemSize(size)
<1>2. b \in Nat /\ Queued \in Nat /\ disc[p].bytes \in Nat
  BY SizesNat, QueuedType
<1>3. d.bytes = disc[p].bytes /\ s.occupied = sm.occupied /\ sm.occupied \in Nat
  BY <1>1 DEF SameBytes, SameQueues, BaseInv, Solid, SharedBufferType
<1>4. Exact(Enqueued(d, e, size)) /\ Enqueued(d, e, size).bytes = d.bytes + b
  BY <1>1, EnqueuedBytes
<1> HIDE DEF b
<1>5. CASE Refused(p, s, d)
  <2>1. Queued' = Queued + d.bytes - disc[p].bytes
    BY <1>1, <1>5, DiscChanged DEF Refused
  <2>2. Queued' = Queued /\ sm' = s
    BY <1>2, <1>3, <1>5, <2>1 DEF Refused
  <2> QED BY <1>1, <1>3, <1>5, <2>2, DiscChanged DEF Refused, BaseInv
<1>6. CASE Paid(p, e, size, s, d)
  <2> DEFINE g == IF ChildFits(d, e, size) THEN Enqueued(d, e, size) ELSE d
  <2>1. Exact(g) /\ g.bytes <= d.bytes + b /\ g.bytes \in Nat /\ disc' = [disc EXCEPT ![p] = g]
    <3>1. d.bytes + b \in Nat /\ d.bytes <= d.bytes + b
      BY <1>2, <1>3
    <3>2. disc' = [disc EXCEPT ![p] = g]
      BY <1>6 DEF Paid
    <3>3. CASE ChildFits(d, e, size)
      BY <1>4, <3>1, <3>2, <3>3
    <3>4. CASE ~ChildFits(d, e, size)
      BY <1>1, <1>2, <1>3, <3>1, <3>2, <3>4
    <3> QED BY <3>3, <3>4
  <2> HIDE DEF g
  <2>2. Queued' = Queued + g.bytes - disc[p].bytes
    BY <2>1, DiscChanged
  <2>3. Queued' <= Queued + b
    BY <1>2, <1>3, <2>1, <2>2
  <2>4. Solid(sm') /\ sm'.occupied = s.occupied + b
    <3>1. Chargeable(s, b) /\ sm' = Charged(s, e, b)
      BY <1>6 DEF Paid, b
    <3>2. Solid(Charged(s, e, b)) /\ Charged(s, e, b).occupied = s.occupied + b
      BY <1>1, <1>2, <3>1, ChargedSolid
    <3> QED BY <3>1, <3>2
  <2>5. NoReserve => Queued + b <= sm'.occupied
    BY <1>2, <1>3, <2>4 DEF BaseInv
  <2>6. Queued' \in Int /\ sm'.occupied \in Nat
    BY <1>2, <1>3, <2>1, <2>2, <2>4
  <2>7. NoReserve => Queued' <= sm'.occupied
    BY <1>2, <2>3, <2>5, <2>6
  <2> QED BY <2>1, <2>4, <2>7, DiscChanged
<1>7. CASE Free(p, e, size, s, d)
  <2>1. ~NoReserve
    BY <1>7 DEF Free, NoReserve
  <2> QED BY <1>1, <1>4, <1>7, <2>1, DiscChanged DEF Free
<1> QED BY <1>1, <1>5, <1>6, <1>7

LEMMA SendBase ==
    ASSUME BaseInv, NEW p \in Ports, NEW c \in Priorities, NEW size \in Sizes,
           Outcome(p, c, size)
    PROVE  BaseInv'
<1>1. run' = [port |-> p, quota |-> Quota] /\ conf' = conf /\ dev' = dev
  BY DEF Outcome, Arrival
<1>2. TypeOK'
  BY <1>1, FreshRun, OutcomeTotals DEF TypeOK, BaseInv, Solid
<1>3. NoReserve' <=> NoReserve
  BY <1>1 DEF NoReserve
<1> QED BY <1>1, <1>2, <1>3, OutcomeTotals DEF BaseInv

\* Restart() has dequeued a packet and done something with it.
LEMMA LeavingTotals ==
    ASSUME BaseInv, NEW p \in Ports, NEW c \in ClassServed(p, disc[p]),
           disc' = [disc EXCEPT ![p] = DequeuedDisc(p, c)],
           sm' = CreditedBuffer(p, c)
    PROVE  /\ Solid(sm')
           /\ \A r \in Ports : Exact(disc'[r])
           /\ disc' \in [Ports -> DiscType]
           /\ NoReserve => Queued' <= sm'.occupied
<1> DEFINE b == ItemSize(Head(disc[p].queue[c]))
           d == DequeuedDisc(p, c)
<1>1. /\ b \in Nat \ {0} /\ Exact(d) /\ d.bytes = disc[p].bytes - b
      /\ c \in Priorities /\ Solid(sm')
      /\ NoReserve => sm' = Credited(sm, c, b)
  BY Leaving
<1>2. Queued \in Nat /\ disc[p].bytes \in Nat /\ disc[p].bytes <= Queued
  BY QueuedType
<1> HIDE DEF b, d
<1>3. /\ Queued' = Queued + d.bytes - disc[p].bytes
      /\ disc' \in [Ports -> DiscType]
      /\ \A r \in Ports : Exact(disc'[r])
  BY <1>1, DiscChanged DEF d
<1>4. Queued' = Queued - b /\ d.bytes \in Nat
  BY <1>1, <1>2, <1>3, ExactBytes
<1>5. ASSUME NoReserve PROVE Queued' <= sm'.occupied
  <2>1. sm'.occupied = IF sm.occupied > b THEN sm.occupied - b ELSE sm.occupied
    <3>1. sm' = Credited(sm, c, b) /\ Solid(sm) /\ b \in Nat
      BY <1>1, <1>5 DEF BaseInv
    <3>2. Credited(sm, c, b).occupied = IF sm.occupied > b THEN sm.occupied - b ELSE sm.occupied
      BY <1>1, <3>1, CreditedSolid
    <3> QED BY <3>1, <3>2
  <2>2. Queued <= sm.occupied /\ sm.occupied \in Nat
    BY <1>5 DEF BaseInv, Solid, SharedBufferType
  <2> QED BY <1>1, <1>2, <1>4, <2>1, <2>2
<1> QED BY <1>1, <1>3, <1>5

LEMMA LeavingBase ==
    ASSUME BaseInv, NEW p \in Ports, NEW c \in ClassServed(p, disc[p]),
           run # NoRun,
           disc' = [disc EXCEPT ![p] = DequeuedDisc(p, c)],
           sm' = CreditedBuffer(p, c),
           NEW v, DevInv(p, v), dev' = [dev EXCEPT ![p] = v],
           Continued(p), UNCHANGED conf
    PROVE  BaseInv'
<1>1. dev \in [Ports -> DeviceType] /\ v \in DeviceType
  BY DEF BaseInv, TypeOK, DevInv
<1>2. dev' \in [Ports -> DeviceType] /\ \A r \in Ports : DevInv(r, dev'[r])
  BY <1>1 DEF BaseInv
<1>3. run' \in Runs \cup {NoRun}
  <2>1. run \in Runs /\ Quota \in Nat
    BY DeviceAssumption DEF BaseInv, TypeOK
  <2>2. run.quota > 1 => [run EXCEPT !.quota = @ - 1] \in Runs
    BY <2>1 DEF Runs
  <2> QED BY <2>2 DEF Continued
<1>4. TypeOK'
  BY <1>2, <1>3, LeavingTotals DEF TypeOK, BaseInv, Solid
<1>5. NoReserve' <=> NoReserve
  BY DEF NoReserve
<1> QED BY <1>2, <1>4, <1>5, LeavingTotals DEF BaseInv

\* One packet has left the queue disc of port p.
Left(p, c) ==
    /\ run # NoRun /\ run.port = p /\ ~dev[p].stopped
    /\ c \in ClassServed(p, disc[p])
    /\ disc' = [disc EXCEPT ![p] = DequeuedDisc(p, c)]
    /\ sm' = CreditedBuffer(p, c)
    /\ Continued(p)
    /\ UNCHANGED conf

Sent(p, c) ==
    /\ ~WouldOverflow(p, dev[p], 1, Wire(p, c))
    /\ dev' = [dev EXCEPT ![p] = DeviceSent(p, dev[p], Wire(p, c))]

Lost(p, c) ==
    /\ WouldOverflow(p, dev[p], 1, Wire(p, c))
    /\ dev' = [dev EXCEPT ![p] = [dev[p] EXCEPT !.stopped = TRUE]]

LEMMA RestartLeaves ==
    ASSUME TypeOK, NEW p \in Ports, RestartSends(p) \/ RestartDiscards(p)
    PROVE  \E c \in Priorities : Left(p, c) /\ (Sent(p, c) \/ Lost(p, c))
<1>1. PICK c \in ClassServed(p, disc[p]) : Left(p, c) /\ (Sent(p, c) \/ Lost(p, c))
  BY DEF RestartSends, RestartDiscards, Left, Sent, Lost
<1>2. c \in Priorities
  BY DEF ClassServed, Backlog
<1> QED BY <1>1, <1>2

\* What the device does with the packet.
LEMMA LeftDevice ==
    ASSUME BaseInv, NEW p \in Ports, NEW c \in Priorities,
           Left(p, c), Sent(p, c) \/ Lost(p, c)
    PROVE  \E v : DevInv(p, v) /\ dev' = [dev EXCEPT ![p] = v]
<1>1. /\ DevInv(p, dev[p]) /\ ~dev[p].stopped /\ Wire(p, c) \in Wires
      /\ dev[p].tx \in {"READY", "BUSY"}
  BY Leaving, DevTypes DEF BaseInv, Left
<1>2. CASE Sent(p, c)
  <2> DEFINE u == DeviceSent(p, dev[p], Wire(p, c))
  <2>1. CASE dev[p].tx = "BUSY"
    <3>1. DevInv(p, u)
      BY <1>1, <2>1, SentWhileBusy
    <3> QED BY <1>2, <3>1 DEF Sent
  <2>2. CASE dev[p].tx = "READY"
    <3>1. DevInv(p, u)
      BY <1>1, <2>2, SentWhileReady
    <3> QED BY <1>2, <3>1 DEF Sent
  <2> QED BY <1>1, <2>1, <2>2
<1>3. CASE Lost(p, c)
  <2>1. DevInv(p, [dev[p] EXCEPT !.stopped = TRUE])
    BY <1>1, <1>3, DiscardedInv DEF Lost
  <2> QED BY <1>3, <2>1 DEF Lost
<1> QED BY <1>2, <1>3

LEMMA LeftBase ==
    ASSUME BaseInv, NEW p \in Ports, NEW c \in Priorities,
           Left(p, c), Sent(p, c) \/ Lost(p, c)
    PROVE  BaseInv'
<1>1. PICK v : DevInv(p, v) /\ dev' = [dev EXCEPT ![p] = v]
  BY LeftDevice
<1> QED BY <1>1, LeavingBase DEF Left

LEMMA TransmittedInv ==
    ASSUME NEW p \in Ports, NEW v, DevInv(p, v), v.tx = "BUSY", ~v.wake
    PROVE  LET u == IF v.queue = <<>> THEN [v EXCEPT !.tx = "READY"] ELSE TxStarted(p, v)
           IN  /\ DevInv(p, u)
               /\ v.stopped => u.tx = "BUSY" /\ (u.stopped \/ u.wake)
<1>1. CASE v.queue = <<>>
  <2> DEFINE u == [v EXCEPT !.tx = "READY"]
  <2>1. /\ u \in DeviceType /\ u.queue = v.queue /\ u.nBytes = v.nBytes /\ u.tx = "READY"
        /\ u.stopped = v.stopped /\ u.wake = v.wake
    BY DEF DevInv, DeviceType
  <2> HIDE DEF u
  <2>2. DevInv(p, u) /\ ~v.stopped
    BY <1>1, <2>1 DEF DevInv
  <2> QED BY <1>1, <2>2 DEF u
<1>2. CASE v.queue # <<>>
  <2> DEFINE u == TxStarted(p, v)
  <2>1. v \in DeviceType /\ v.nBytes = BytesOf(v.queue, DOMAIN v.queue)
        /\ (v.stopped => Tight(p, v))
    BY DEF DevInv
  <2>2. DevUnit[p] = "PACKETS" /\ ~v.stopped => Len(v.queue) < DevMax[p] + 1
    <3>1. Len(v.queue) \in Nat /\ DevMax[p] \in Nat
      BY DevTypes
    <3> QED BY <3>1 DEF DevInv
  <2> HIDE DEF u
  <2>3. DevInv(p, u) /\ u.tx = "BUSY" /\ (v.stopped => u.stopped \/ u.wake)
    BY <1>2, <2>1, <2>2, StartedInv DEF u
  <2> QED BY <1>2, <2>3 DEF u
<1> QED BY <1>1, <1>2

\* Steps that leave the packets of the queue discs and the shared buffer alone.
LEMMA QuietBase ==
    ASSUME BaseInv, UNCHANGED <<sm, conf>>, run' \in Runs \cup {NoRun},
           dev' \in [Ports -> DeviceType], disc' \in [Ports -> DiscType],
           \A p \in Ports : DevInv(p, dev'[p]) /\ Exact(disc'[p]),
           Queued' = Queued
    PROVE  BaseInv'
<1>1. TypeOK' /\ Solid(sm')
  BY DEF BaseInv, TypeOK
<1>2. NoReserve' <=> NoReserve
  BY DEF NoReserve
<1> QED BY <1>1, <1>2 DEF BaseInv

LEMMA WakeBase ==
    ASSUME BaseInv, NEW p \in Ports, Wake(p)
    PROVE  BaseInv'
<1> DEFINE u == [dev[p] EXCEPT !.wake = FALSE]
<1>1. dev' = [dev EXCEPT ![p] = u] /\ run' = [port |-> p, quota |-> Quota]
      /\ UNCHANGED <<sm, conf, disc>>
  BY DEF Wake
<1>2. DevInv(p, u)
  <2>1. DevInv(p, dev[p]) /\ dev[p] \in DeviceType
    BY DEF BaseInv, DevInv
  <2>2. /\ u \in DeviceType /\ u.queue = dev[p].queue /\ u.nBytes = dev[p].nBytes
        /\ u.tx = dev[p].tx /\ u.stopped = dev[p].stopped /\ u.wake = FALSE
    BY <2>1 DEF DeviceType
  <2> HIDE DEF u
  <2>3. Tight(p, dev[p]) => Tight(p, u)
    BY <2>2 DEF Tight
  <2> QED BY <2>1, <2>2, <2>3 DEF DevInv
<1>3. run' \in Runs
  BY <1>1, FreshRun
<1> HIDE DEF u
<1>4. dev' \in [Ports -> DeviceType] /\ \A r \in Ports : DevInv(r, dev'[r])
  BY <1>1, <1>2 DEF BaseInv, TypeOK, DevInv
<1>5. disc' \in [Ports -> DiscType] /\ (\A r \in Ports : Exact(disc'[r])) /\ Queued' = Queued
  BY <1>1 DEF BaseInv, TypeOK, Queued
<1> QED BY <1>1, <1>3, <1>4, <1>5, QuietBase

LEMMA TransmitBase ==
    ASSUME BaseInv, NEW p \in Ports, TransmitComplete(p)
    PROVE  BaseInv'
<1> DEFINE v == dev[p]
           u == IF v.queue = <<>> THEN [v EXCEPT !.tx = "READY"] ELSE TxStarted(p, v)
<1>1. dev' = [dev EXCEPT ![p] = u] /\ UNCHANGED <<sm, conf, disc, run>>
      /\ v.tx = "BUSY" /\ ~v.wake
  BY DEF TransmitComplete
<1>2. DevInv(p, u)
  <2>1. DevInv(p, v)
    BY DEF BaseInv
  <2> HIDE DEF v
  <2> QED BY <1>1, <2>1, TransmittedInv
<1> HIDE DEF u
<1>3. dev' \in [Ports -> DeviceType] /\ \A r \in Ports : DevInv(r, dev'[r])
  BY <1>1, <1>2 DEF BaseInv, TypeOK, DevInv
<1>4. disc' \in [Ports -> DiscType] /\ (\A r \in Ports : Exact(disc'[r])) /\ Queued' = Queued
  BY <1>1 DEF BaseInv, TypeOK, Queued
<1>5. run' \in Runs \cup {NoRun}
  BY <1>1 DEF BaseInv, TypeOK
<1> QED BY <1>1, <1>3, <1>4, <1>5, QuietBase

\* InvokeUpdates() changes no packet.
LEMMA UpdatesQuiet ==
    ASSUME BaseInv, NEW p \in Ports, InvokeUpdates(p)
    PROVE  \E d : /\ Exact(d) /\ SameQueues(d, disc[p])
                  /\ disc' = [disc EXCEPT ![p] = d]
<1>1. PICK rate \in [Priorities -> Rates] : disc' = [disc EXCEPT ![p] = Updated(disc[p], sm, rate)]
  BY DEF InvokeUpdates
<1>2. Exact(disc[p]) /\ sm \in SharedBufferType
  BY DEF BaseInv, TypeOK
<1> DEFINE d == Updated(disc[p], sm, rate)
<1>3. Exact(d) /\ SameQueues(d, disc[p])
  BY <1>2, UpdatedExact
<1> QED BY <1>1, <1>3

LEMMA UpdatesBase ==
    ASSUME BaseInv, NEW p \in Ports, InvokeUpdates(p)
    PROVE  BaseInv'
<1>1. PICK d : Exact(d) /\ SameQueues(d, disc[p]) /\ disc' = [disc EXCEPT ![p] = d]
  BY UpdatesQuiet
<1>2. UNCHANGED <<sm, conf, dev, run>>
  BY DEF InvokeUpdates
<1>3. /\ disc' \in [Ports -> DiscType] /\ (\A r \in Ports : Exact(disc'[r]))
      /\ Queued' = Queued + d.bytes - disc[p].bytes
  BY <1>1, DiscChanged
<1>4. Queued' = Queued
  BY <1>1, <1>3, QueuedType DEF SameQueues
<1>5. /\ dev' \in [Ports -> DeviceType] /\ (\A r \in Ports : DevInv(r, dev'[r]))
      /\ run' \in Runs \cup {NoRun}
  BY <1>2 DEF BaseInv, TypeOK
<1> QED BY <1>2, <1>3, <1>4, <1>5, QuietBase

LEMMA RestartDoneBase ==
    ASSUME BaseInv, NEW p \in Ports, RestartDone(p)
    PROVE  BaseInv'
<1>1. UNCHANGED <<sm, conf, disc, dev>> /\ run' = NoRun
  BY DEF RestartDone
<1>2. /\ disc' \in [Ports -> DiscType] /\ dev' \in [Ports -> DeviceType]
      /\ (\A r \in Ports : DevInv(r, dev'[r]) /\ Exact(disc'[r])) /\ Queued' = Queued
  BY <1>1 DEF BaseInv, TypeOK, Queued
<1> QED BY <1>1, <1>2, QuietBase

LEMMA NextBase ==
    ASSUME BaseInv, [Next]_vars
    PROVE  BaseInv'
<1>1. CASE Send
  BY <1>1, SendOutcome, SendBase
<1>2. ASSUME NEW p \in Ports, Restart(p) PROVE BaseInv'
  <2>1. CASE RestartDone(p)
    BY <2>1, RestartDoneBase
  <2>2. CASE RestartSends(p) \/ RestartDiscards(p)
    BY <2>2, RestartLeaves, LeftBase DEF BaseInv
  <2> QED BY <1>2, <2>1, <2>2 DEF Restart
<1>3. ASSUME NEW p \in Ports, Wake(p) PROVE BaseInv'
  BY <1>3, WakeBase
<1>4. ASSUME NEW p \in Ports, TransmitComplete(p) PROVE BaseInv'
  BY <1>4, TransmitBase
<1>5. ASSUME NEW p \in Ports, InvokeUpdates(p) PROVE BaseInv'
  BY <1>5, UpdatesBase
<1>6. CASE UNCHANGED vars
  <2>1. UNCHANGED sm /\ UNCHANGED conf /\ UNCHANGED disc /\ UNCHANGED dev /\ UNCHANGED run
    BY <1>6 DEF vars
  <2>2. /\ disc' \in [Ports -> DiscType] /\ dev' \in [Ports -> DeviceType]
        /\ (\A r \in Ports : DevInv(r, dev'[r]) /\ Exact(disc'[r])) /\ Queued' = Queued
        /\ run' \in Runs \cup {NoRun}
    BY <2>1 DEF BaseInv, TypeOK, Queued
  <2> QED BY <2>1, <2>2, QuietBase
<1> QED BY <1>1, <1>2, <1>3, <1>4, <1>5, <1>6 DEF Next

LEMMA BaseCorrect == Spec => []BaseInv
<1>1. BaseInv /\ [Next]_vars => BaseInv'
  BY NextBase
<1> QED BY InitBase, <1>1, PTL DEF Spec

\* The types of the state: in particular m_nBytes of a device queue is that of
\* the packets in it, and the run under way is within the quota.
THEOREM TypeCorrect == Spec => []TypeOK
<1>1. BaseInv => TypeOK
  BY DEF BaseInv
<1> QED BY BaseCorrect, <1>1, PTL

\* N[c], by which ABM shares the buffer out, is the sum of the saturation levels
\* of the queues of priority c (SetSaturated of shared-memory.cc).
THEOREM SaturationCountedCorrect == Spec => []SaturationCounted
<1>1. BaseInv => SaturationCounted
  BY DEF BaseInv, Solid, Counts, SaturationCounted
<1> QED BY BaseCorrect, <1>1, PTL

-----------------------------------------------------------------------------
(* No packet is stranded.                                                  *)

\* A queue disc with at most one packet.
Single(d) == \A c \in Backlog(d) : d.bytes = ItemSize(Head(d.queue[c]))

\* While Run() is under way and the device queue runs, either there is at most
\* one packet, or the room was less than two packets when Run() began.
RunInv ==
    run # NoRun /\ ~dev[run.port].stopped =>
        \/ Single(disc[run.port])
        \/ /\ dev[run.port].tx = "BUSY"
           /\ Near(run.port, dev[run.port], Quota - run.quota)

\* Packet queues do not outlast the quota: it is worth a packet of MTU size.
QuotaSuffices == \A wire \in Wires : Mtu + 2 * PppHeader <= Quota * wire

StrandInv == BaseInv /\ NotStranded /\ RunInv

LEMMA StoppedIsBusy ==
    ASSUME NEW p \in Ports, NEW v, DevInv(p, v), v.stopped
    PROVE  v.tx = "BUSY"
  BY DevTypes DEF DevInv

\* A queue that has room for a packet of MTU size is not near by Quota packets.
LEMMA QuotaStops ==
    ASSUME QuotaSuffices, NEW p \in Ports, NEW v, DevInv(p, v), ~v.stopped,
           ~WouldOverflow(p, v, 1, Mtu)
    PROVE  ~Near(p, v, Quota)
<1>1. /\ Len(v.queue) \in Nat /\ v.nBytes \in Nat
      /\ DevMax[p] \in Nat \ {0} /\ DevUnit[p] \in {"PACKETS", "BYTES"}
  BY DevTypes
<1>2. Quota \in Nat \ {0} /\ Mtu \in Nat /\ PppHeader \in Nat
  BY DeviceAssumption
<1>3. CASE DevUnit[p] = "PACKETS"
  BY <1>1, <1>2, <1>3 DEF Near, DevInv
<1>4. CASE DevUnit[p] # "PACKETS"
  <2> DEFINE K == Quota * MinWire
  <2>1. K \in Nat /\ Mtu + 2 * PppHeader <= K
    BY <1>2, MinWireExists DEF QuotaSuffices
  <2>2. v.nBytes + Mtu <= DevMax[p]
    BY <1>1, <1>2, <1>4 DEF WouldOverflow
  <2> HIDE DEF K
  <2>3. ~(v.nBytes + 2 * MaxWire > DevMax[p] + K)
    BY <1>1, <1>2, <2>1, <2>2 DEF MaxWire
  <2> QED BY <1>4, <2>3 DEF Near, K
<1> QED BY <1>3, <1>4

\* The last packet leaves.
LEMMA SingleLeaves ==
    ASSUME BaseInv, NEW p \in Ports, NEW c \in Priorities, Left(p, c), Single(disc[p])
    PROVE  disc'[p].bytes = 0 /\ run' = NoRun
<1> DEFINE d == DequeuedDisc(p, c)
           b == ItemSize(Head(disc[p].queue[c]))
<1>1. Exact(d) /\ d.bytes = disc[p].bytes - b /\ c \in Backlog(disc[p])
  BY Leaving DEF Left
<1>2. disc[p].bytes = b /\ b \in Nat
  <2>1. disc[p].bytes = b
    BY <1>1 DEF Single
  <2> QED BY <2>1, QueuedType
<1> HIDE DEF d, b
<1>3. disc'[p] = d
  BY <1>1, DiscChanged DEF Left, d
<1>4. disc'[p].bytes = 0
  BY <1>1, <1>2, <1>3
<1> QED BY <1>4 DEF Left, Continued

\* One arrival in an empty queue disc.
LEMMA ArrivesSingle ==
    ASSUME BaseInv, NEW p \in Ports, NEW c \in Priorities, NEW size \in Sizes,
           Outcome(p, c, size), disc[p].bytes = 0
    PROVE  Single(disc'[p])
<1>1. PICK e, s, d :
          /\ e \in Priorities
          /\ Exact(d) /\ SameQueues(d, disc[p])
          /\ Refused(p, s, d) \/ Paid(p, e, size, s, d) \/ Free(p, e, size, s, d)
  BY DEF Outcome
<1>2. Backlog(disc[p]) = {} /\ disc \in [Ports -> DiscType]
  BY NoBytesNoBacklog DEF BaseInv, TypeOK
<1>3. d.bytes = 0 /\ d.queue = disc[p].queue /\ d.queue \in [Priorities -> Seq(Sizes)]
  BY <1>1 DEF SameQueues, Exact, DiscType
<1>4. \A f \in Priorities : d.queue[f] = <<>>
  BY <1>2, <1>3 DEF Backlog
<1>5. Single(d)
  BY <1>4 DEF Single, Backlog
<1>6. Single(Enqueued(d, e, size))
  <2> DEFINE n == Enqueued(d, e, size)
  <2>1. /\ n.bytes = d.bytes + ItemSize(size) /\ n.queue[e] = Append(d.queue[e], size)
        /\ \A f \in Priorities : f # e => n.queue[f] = d.queue[f]
    BY <1>1, EnqueuedBytes, EnqueuedQueues
  <2> HIDE DEF n
  <2>2. n.bytes = ItemSize(size)
    BY <1>3, <2>1, SizesNat
  <2>3. n.queue[e] = <<size>> /\ \A f \in Priorities : f # e => n.queue[f] = <<>>
    <3>1. Append(<<>>, size) = <<size>>
      OBVIOUS
    <3> QED BY <1>1, <1>4, <2>1, <3>1
  <2>4. \A f \in Backlog(n) : f = e /\ Head(n.queue[f]) = size
    BY <2>3 DEF Backlog
  <2> QED BY <2>2, <2>4 DEF Single, n
<1>7. disc'[p] = d \/ disc'[p] = Enqueued(d, e, size)
  BY <1>1, <1>2 DEF Refused, Paid, Free
<1> QED BY <1>5, <1>6, <1>7

LEMMA SendStrand ==
    ASSUME StrandInv, NEW p \in Ports, NEW c \in Priorities, NEW size \in Sizes,
           Outcome(p, c, size)
    PROVE  NotStranded' /\ RunInv'
<1>1. /\ run = NoRun /\ run' = [port |-> p, quota |-> Quota] /\ dev' = dev
      /\ run' # NoRun /\ run'.port = p /\ run'.quota = Quota
  BY FreshRun DEF Outcome, Arrival
<1>2. \A r \in Ports : r # p => disc'[r] = disc[r]
  BY DEF Outcome, Refused, Paid, Free, StrandInv, BaseInv, TypeOK
<1>3. NotStranded'
  BY <1>1, <1>2 DEF NotStranded, StrandInv
<1>4. ASSUME ~dev[p].stopped
      PROVE  Single(disc'[p]) \/ (dev[p].tx = "BUSY" /\ Near(p, dev[p], Quota - Quota))
  <2>1. CASE disc[p].bytes > 0
    <3>1. dev[p].wake /\ DevInv(p, dev[p])
      BY <1>1, <1>4, <2>1 DEF StrandInv, NotStranded, BaseInv
    <3>2. Quota - Quota = 0
      BY DeviceAssumption
    <3> QED BY <3>1, <3>2 DEF DevInv
  <2>2. CASE disc[p].bytes = 0
    BY <2>2, ArrivesSingle DEF StrandInv
  <2> QED BY <2>1, <2>2, QueuedType DEF StrandInv
<1>5. RunInv'
  BY <1>1, <1>4 DEF RunInv
<1> QED BY <1>3, <1>5

LEMMA SentStrand ==
    ASSUME QuotaSuffices, StrandInv, NEW p \in Ports, NEW c \in Priorities,
           Left(p, c), Sent(p, c)
    PROVE  /\ disc'[p].bytes > 0 /\ run' = NoRun => dev'[p].stopped /\ dev'[p].tx = "BUSY"
           /\ run' # NoRun /\ ~dev'[p].stopped =>
                 dev'[p].tx = "BUSY" /\ Near(p, dev'[p], Quota - run'.quota)
<1>1. CASE Single(disc[p])
  BY <1>1, SingleLeaves DEF StrandInv
<1>2. CASE ~Single(disc[p])
  <2> DEFINE v == dev[p]
             u == DeviceSent(p, v, Wire(p, c))
             k == Quota - run.quota
  <2>1. /\ run \in Runs /\ run # NoRun /\ run.port = p /\ ~v.stopped /\ DevInv(p, v)
        /\ v.tx = "BUSY" /\ Near(p, v, k) /\ Wire(p, c) \in Wires
    <3>1. Wire(p, c) \in Wires
      BY Leaving DEF Left, StrandInv
    <3> QED BY <1>2, <3>1 DEF StrandInv, RunInv, Left, BaseInv, TypeOK
  <2>2. /\ Quota \in Nat \ {0} /\ run.quota \in 1 .. Quota /\ run.port \in Ports
        /\ run = [port |-> p, quota |-> run.quota]
    BY <2>1, DeviceAssumption DEF Runs
  <2>3. k \in Nat /\ k + 1 = Quota - (run.quota - 1)
    BY <2>2
  <2>4. dev'[p] = u
    BY DEF Sent, StrandInv, BaseInv, TypeOK
  <2> HIDE DEF v, u, k
  <2>5. /\ DevInv(p, u) /\ u.tx = "BUSY" /\ Near(p, u, k + 1)
        /\ ~u.stopped => ~WouldOverflow(p, u, 1, Mtu)
    BY <2>1, <2>3, SentWhileBusy DEF u
  <2>6. CASE disc'[p].bytes > 0 /\ ~u.stopped /\ run.quota > 1
    <3>1. run' = [run EXCEPT !.quota = run.quota - 1]
      BY <2>4, <2>6 DEF Left, Continued
    <3>2. run'.quota = run.quota - 1
      BY <2>2, <3>1
    <3>3. run' # NoRun
      <4>1. run' \in Runs
        BY <2>1, <2>2, <2>6, <3>1 DEF Runs
      <4> QED BY <2>2, <2>6, <3>2 DEF NoRun
    <3>4. k + 1 = Quota - run'.quota
      BY <2>3, <3>2
    <3> QED BY <2>4, <2>5, <3>3, <3>4
  <2>7. CASE ~(disc'[p].bytes > 0 /\ ~u.stopped /\ run.quota > 1)
    <3>1. run' = NoRun
      BY <2>4, <2>7 DEF Left, Continued
    <3>2. ASSUME disc'[p].bytes > 0, ~u.stopped PROVE FALSE
      <4>1. run.quota = 1
        BY <2>2, <2>7, <3>2
      <4>2. k + 1 = Quota
        BY <2>2, <2>3, <4>1
      <4>3. Near(p, u, Quota)
        BY <2>5, <4>2
      <4> QED BY <2>5, <3>2, <4>3, QuotaStops
    <3> QED BY <2>4, <2>5, <3>1, <3>2
  <2> QED BY <2>6, <2>7
<1> QED BY <1>1, <1>2

LEMMA LeftStrand ==
    ASSUME QuotaSuffices, StrandInv, NEW p \in Ports, NEW c \in Priorities,
           Left(p, c), Sent(p, c) \/ Lost(p, c)
    PROVE  NotStranded' /\ RunInv'
<1>1. PICK v : DevInv(p, v) /\ dev' = [dev EXCEPT ![p] = v]
  BY LeftDevice DEF StrandInv
<1>2. /\ dev'[p] = v /\ \A r \in Ports : r # p => dev'[r] = dev[r] /\ disc'[r] = disc[r]
  BY <1>1 DEF Left, StrandInv, BaseInv, TypeOK
<1>3. /\ run # NoRun /\ run.port = p /\ (run' = NoRun \/ (run' # NoRun /\ run'.port = p))
  <2>1. run \in Runs /\ run # NoRun /\ run.port = p
    BY DEF Left, StrandInv, BaseInv, TypeOK
  <2>2. [run EXCEPT !.quota = @ - 1].port = p
    BY <2>1 DEF Runs
  <2> QED BY <2>1, <2>2 DEF Left, Continued
<1>4. /\ disc'[p].bytes > 0 /\ run' = NoRun => dev'[p].stopped /\ dev'[p].tx = "BUSY"
      /\ run' # NoRun /\ ~dev'[p].stopped =>
            dev'[p].tx = "BUSY" /\ Near(p, dev'[p], Quota - run'.quota)
  <2>1. CASE Sent(p, c)
    BY <2>1, SentStrand
  <2>2. CASE Lost(p, c)
    <3>1. dev'[p].stopped
      BY <2>2 DEF Lost, StrandInv, BaseInv, TypeOK, DeviceType
    <3> QED BY <1>1, <1>2, <3>1, StoppedIsBusy
  <2> QED BY <2>1, <2>2
<1>5. RunInv'
  BY <1>3, <1>4 DEF RunInv
<1>6. NotStranded'
  <2> SUFFICES ASSUME NEW r \in Ports, disc'[r].bytes > 0
               PROVE  \/ run' # NoRun /\ run'.port = r
                      \/ dev'[r].wake
                      \/ dev'[r].stopped /\ dev'[r].tx = "BUSY"
    BY DEF NotStranded
  <2>1. CASE r = p
    BY <1>3, <1>4, <2>1
  <2>2. CASE r # p
    BY <1>2, <1>3, <2>2 DEF StrandInv, NotStranded
  <2> QED BY <2>1, <2>2
<1> QED BY <1>5, <1>6

LEMMA TransmitStrand ==
    ASSUME StrandInv, NEW p \in Ports, TransmitComplete(p)
    PROVE  NotStranded' /\ RunInv'
<1> DEFINE v == dev[p]
           u == IF v.queue = <<>> THEN [v EXCEPT !.tx = "READY"] ELSE TxStarted(p, v)
<1>1. /\ dev' = [dev EXCEPT ![p] = u] /\ UNCHANGED <<sm, conf, disc, run>>
      /\ v.tx = "BUSY" /\ ~v.wake /\ run = NoRun
  BY DEF TransmitComplete
<1>2. v.stopped => u.tx = "BUSY" /\ (u.stopped \/ u.wake)
  <2>1. DevInv(p, v)
    BY DEF StrandInv, BaseInv
  <2> HIDE DEF v
  <2> QED BY <1>1, <2>1, TransmittedInv
<1> HIDE DEF u
<1>3. dev'[p] = u /\ \A r \in Ports : r # p => dev'[r] = dev[r]
  BY <1>1 DEF StrandInv, BaseInv, TypeOK
<1>4. NotStranded'
  <2> SUFFICES ASSUME NEW r \in Ports, disc[r].bytes > 0
               PROVE  dev'[r].wake \/ (dev'[r].stopped /\ dev'[r].tx = "BUSY")
    BY <1>1 DEF NotStranded
  <2>1. dev[r].wake \/ (dev[r].stopped /\ dev[r].tx = "BUSY")
    BY <1>1 DEF StrandInv, NotStranded
  <2> QED BY <1>1, <1>2, <1>3, <2>1
<1>5. RunInv'
  BY <1>1 DEF RunInv
<1> QED BY <1>4, <1>5

LEMMA NextStrand ==
    ASSUME QuotaSuffices, StrandInv, [Next]_vars
    PROVE  StrandInv'
<1>1. BaseInv'
  BY NextBase DEF StrandInv
<1>2. CASE Send
  BY <1>1, <1>2, SendOutcome, SendStrand DEF StrandInv
<1>3. ASSUME NEW p \in Ports, Restart(p) PROVE NotStranded' /\ RunInv'
  <2>1. CASE RestartDone(p)
    <3>1. /\ UNCHANGED <<disc, dev>> /\ run' = NoRun /\ run # NoRun /\ run.port = p
          /\ dev[p].stopped \/ Backlog(disc[p]) = {}
      BY <2>1 DEF RestartDone
    <3>2. disc[p].bytes > 0 => dev[p].stopped /\ dev[p].tx = "BUSY"
      BY <3>1, NoBytesNoBacklog, StoppedIsBusy DEF StrandInv, BaseInv
    <3>3. \A r \in Ports : disc[r].bytes > 0 => \/ dev[r].wake
                                                \/ dev[r].stopped /\ dev[r].tx = "BUSY"
      BY <3>1, <3>2 DEF StrandInv, NotStranded
    <3> QED BY <3>1, <3>3 DEF NotStranded, RunInv
  <2>2. CASE RestartSends(p) \/ RestartDiscards(p)
    BY <2>2, RestartLeaves, LeftStrand DEF StrandInv, BaseInv
  <2> QED BY <1>3, <2>1, <2>2 DEF Restart
<1>4. ASSUME NEW p \in Ports, Wake(p) PROVE NotStranded' /\ RunInv'
  <2>1. /\ run = NoRun /\ dev[p].wake /\ run' = [port |-> p, quota |-> Quota]
        /\ dev' = [dev EXCEPT ![p] = [dev[p] EXCEPT !.wake = FALSE]] /\ disc' = disc
        /\ run' # NoRun /\ run'.port = p /\ run'.quota = Quota
    BY <1>4, FreshRun DEF Wake
  <2>2. /\ DevInv(p, dev[p]) /\ dev[p] \in DeviceType /\ dev \in [Ports -> DeviceType]
    BY DEF StrandInv, BaseInv, TypeOK
  <2>3. /\ \A r \in Ports : r # p => dev'[r] = dev[r]
        /\ dev'[p].tx = dev[p].tx /\ dev'[p].queue = dev[p].queue
        /\ dev'[p].nBytes = dev[p].nBytes
    BY <2>1, <2>2 DEF DeviceType
  <2>4. NotStranded'
    BY <2>1, <2>3 DEF NotStranded, StrandInv
  <2>5. dev'[p].tx = "BUSY" /\ Near(p, dev'[p], 0)
    BY <2>1, <2>2, <2>3 DEF DevInv, Near
  <2>6. Quota - Quota = 0
    BY DeviceAssumption
  <2> QED BY <2>1, <2>4, <2>5, <2>6 DEF RunInv
<1>5. ASSUME NEW p \in Ports, TransmitComplete(p) PROVE NotStranded' /\ RunInv'
  BY <1>5, TransmitStrand
<1>6. ASSUME NEW p \in Ports, InvokeUpdates(p) PROVE NotStranded' /\ RunInv'
  <2>1. PICK d : SameQueues(d, disc[p]) /\ disc' = [disc EXCEPT ![p] = d]
    BY <1>6, UpdatesQuiet DEF StrandInv
  <2>2. UNCHANGED <<dev, run>> /\ run = NoRun
    BY <1>6 DEF InvokeUpdates
  <2>3. \A r \in Ports : disc'[r].bytes = disc[r].bytes
    BY <2>1 DEF SameQueues, StrandInv, BaseInv, TypeOK
  <2> QED BY <2>2, <2>3 DEF StrandInv, NotStranded, RunInv
<1>7. CASE UNCHANGED vars
  <2>1. UNCHANGED <<disc, dev, run>>
    BY <1>7 DEF vars
  <2>2. NotStranded' /\ (RunInv' <=> RunInv)
    BY <2>1 DEF StrandInv, NotStranded, RunInv
  <2> QED BY <1>1, <2>2 DEF StrandInv
<1>8. CASE \E p \in Ports : Restart(p) \/ Wake(p) \/ TransmitComplete(p) \/ InvokeUpdates(p)
  BY <1>1, <1>3, <1>4, <1>5, <1>6, <1>8 DEF StrandInv
<1> QED BY <1>2, <1>7, <1>8 DEF Next

LEMMA InitStrand == Init => StrandInv
<1> SUFFICES ASSUME Init PROVE StrandInv
  OBVIOUS
<1>1. run = NoRun /\ \A p \in Ports : disc[p].bytes = 0
  BY DEF Init, EmptyDisc
<1> QED BY <1>1, InitBase DEF StrandInv, NotStranded, RunInv

\* No packet waits for a Run() that nothing will call (NetDeviceQueue::Wake, Stop,
\* QueueDisc::Run), as long as the quota is worth a packet of MTU size: Run()
\* gives up a running device queue only when nothing is left to send.
THEOREM NotStrandedCorrect ==
    ASSUME QuotaSuffices
    PROVE  Spec => []NotStranded
<1>1. StrandInv /\ [Next]_vars => StrandInv'
  BY NextStrand
<1>2. StrandInv => NotStranded
  BY DEF StrandInv
<1> QED BY InitStrand, <1>1, <1>2, PTL DEF Spec

\* What the comment of PointToPointNetDevice::Send says ("This should not happen")
\* is true of device queues whose size is a number of packets.
THEOREM NeverDiscardedInPackets ==
    ASSUME \A p \in Ports : DevUnit[p] = "PACKETS"
    PROVE  Spec => NeverDiscarded
<1>1. BaseInv => \A p \in Ports : ~RestartDiscards(p)
  <2> SUFFICES ASSUME BaseInv, NEW p \in Ports, RestartDiscards(p) PROVE FALSE
    OBVIOUS
  <2>1. DevInv(p, dev[p]) /\ ~dev[p].stopped /\ Len(dev[p].queue) + 1 > DevMax[p]
    BY DEF BaseInv, RestartDiscards, WouldOverflow
  <2>2. Len(dev[p].queue) \in Nat /\ DevMax[p] \in Nat
    BY <2>1, DevTypes
  <2> QED BY <2>1, <2>2 DEF DevInv
<1> QED BY BaseCorrect, <1>1, PTL DEF NeverDiscarded

-----------------------------------------------------------------------------
(* No queue holds more than its share.                                     *)

\* What Isolated says of n bytes in queue c of port p.
Low(p, c, n) ==
    \E size \in Sizes :
        (AlphaDen + TopAlpha(p, c)) * n
          <= TopAlpha(p, c) * (TotalBuffer + size) + (AlphaDen + TopAlpha(p, c)) * IpHeader

LEMMA IsolatedLow ==
    Isolated <=> (NoReserve => \A p \in Ports, c \in Priorities :
                                  conf.alg[p] # "CS" => Low(p, c, disc[p].nBytes[c]))
  BY DEF Isolated, Low

LEMMA LowerIsLow ==
    ASSUME NEW p \in Ports, NEW c \in Priorities, NEW n \in Nat, NEW m \in Nat,
           m <= n, Low(p, c, n)
    PROVE  Low(p, c, m)
<1> DEFINE k == AlphaDen + TopAlpha(p, c)
<1>1. k \in Nat
  BY AlphaTypes, DiscAssumption
<1>2. PICK size \in Sizes : k * n <= TopAlpha(p, c) * (TotalBuffer + size) + k * IpHeader
  BY DEF Low
<1> DEFINE limit == TopAlpha(p, c) * (TotalBuffer + size) + k * IpHeader
<1>3. limit \in Int
  BY <1>1, AlphaTypes, SizesNat, DiscAssumption
<1> HIDE DEF k, limit
<1>4. k * m <= k * n /\ k * m \in Int /\ k * n \in Int
  BY <1>1, TimesMonotone
<1>5. k * m <= limit
  BY <1>2, <1>3, <1>4 DEF limit
<1> QED BY <1>5 DEF Low, k, limit

LEMMA EmptyIsLow ==
    ASSUME NEW p \in Ports, NEW c \in Priorities
    PROVE  Low(p, c, 0)
<1> DEFINE k == AlphaDen + TopAlpha(p, c)
           a == TopAlpha(p, c)
<1>1. k \in Nat /\ a \in Nat /\ IpHeader \in Nat /\ TotalBuffer \in Nat
  BY AlphaTypes, DiscAssumption
<1>2. PICK size \in Sizes : size \in Nat
  BY DiscAssumption, SizesNat
<1> HIDE DEF k, a
<1>3. a * (TotalBuffer + size) \in Nat /\ k * IpHeader \in Nat /\ k * 0 = 0
  BY <1>1, <1>2
<1>4. k * 0 <= a * (TotalBuffer + size) + k * IpHeader
  BY <1>3
<1> QED BY <1>4 DEF Low, k, a

\* A threshold that is a share of what is free keeps the queue low.
LEMMA GrantedIsLow ==
    ASSUME BaseInv, NoReserve, NEW p \in Ports, NEW c \in Priorities, NEW size \in Sizes,
           conf.alg[p] # "CS", Granted(p, c, size)
    PROVE  Low(p, c, disc[p].nBytes[c] + ItemSize(size))
<1> DEFINE n == disc[p].nBytes[c]
           a == TopAlpha(p, c)
           D == AlphaDen
           T == TotalBuffer
           R == sm.remaining
           H == IpHeader
<1>1. /\ n \in Nat /\ a \in Nat /\ D \in Nat /\ T \in Nat /\ R \in Nat
      /\ H \in Nat /\ size \in Nat
  BY AlphaTypes, DiscAssumption, SizesNat, ExactBytes
     DEF BaseInv, Solid, SharedBufferType
<1>2. R <= T - n
  <2>1. n <= disc[p].bytes /\ disc[p].bytes <= Queued /\ Queued <= sm.occupied
    BY ExactBytes, QueuedType DEF BaseInv
  <2>2. /\ disc[p].bytes \in Nat /\ Queued \in Nat /\ sm.occupied \in Nat
        /\ sm.occupied + R = T
    BY QueuedType DEF BaseInv, Solid, SharedBufferType
  <2> HIDE DEF n, R, T
  <2> QED BY <1>1, <2>1, <2>2
<1>3. D * (n + size) <= a * R
  BY DEF Granted
<1>4. disc[p].nBytes[c] + ItemSize(size) = (n + size) + H
  BY <1>1 DEF ItemSize
<1> HIDE DEF n, a, D, T, R, H
<1>5. a * R <= a * (T - n)
  BY <1>1, <1>2, TimesMonotone
<1>6. a * (T - n) = a * T - a * n /\ a * T \in Int /\ a * n \in Int /\ a * R \in Int
  BY <1>1
<1>7. /\ (D + a) * ((n + size) + H) = D * (n + size) + a * n + a * size + (D + a) * H
      /\ a * (T + size) = a * T + a * size
      /\ D * (n + size) \in Int /\ a * size \in Int /\ (D + a) * H \in Int
  <2>1. (D + a) * ((n + size) + H) = (D + a) * (n + size) + (D + a) * H
    BY <1>1
  <2>2. (D + a) * (n + size) = D * (n + size) + a * (n + size)
    BY <1>1
  <2>3. a * (n + size) = a * n + a * size
    BY <1>1
  <2>4. /\ D * (n + size) \in Int /\ a * size \in Int /\ (D + a) * H \in Int
        /\ a * (T + size) = a * T + a * size
    BY <1>1
  <2> QED BY <1>6, <2>1, <2>2, <2>3, <2>4
<1>8. D * (n + size) + a * n <= a * T
  BY <1>3, <1>5, <1>6, <1>7
<1>9. (D + a) * ((n + size) + H) <= a * (T + size) + (D + a) * H
  BY <1>6, <1>7, <1>8
<1> QED BY <1>4, <1>9 DEF Low, a, D, T, H

\* A step that changes no algorithm keeps the queues low if each is lower than
\* before or low.
LEMMA StaysIsolated ==
    ASSUME Isolated, BaseInv, BaseInv', UNCHANGED conf,
           NoReserve => \A p \in Ports, c \in Priorities :
              \/ disc'[p].nBytes[c] <= disc[p].nBytes[c]
              \/ conf.alg[p] # "CS" => Low(p, c, disc'[p].nBytes[c])
    PROVE  Isolated'
<1>1. NoReserve' <=> NoReserve
  BY DEF NoReserve
<1>2. ASSUME NoReserve, NEW p \in Ports, NEW c \in Priorities, conf.alg[p] # "CS"
      PROVE  Low(p, c, disc'[p].nBytes[c])
  <2>1. Low(p, c, disc[p].nBytes[c])
    BY <1>2, IsolatedLow
  <2>2. disc[p].nBytes[c] \in Nat /\ disc'[p].nBytes[c] \in Nat
    BY DEF BaseInv, Exact, DiscType
  <2> QED BY <1>2, <2>1, <2>2, LowerIsLow
<1>3. \A p, c : TopAlpha(p, c)' = TopAlpha(p, c)
  BY DEF TopAlpha
<1>4. ASSUME NoReserve', NEW p \in Ports, NEW c \in Priorities, conf'.alg[p] # "CS"
      PROVE  Low(p, c, disc[p].nBytes[c])'
  BY <1>1, <1>2, <1>3, <1>4 DEF Low
<1> QED BY <1>4 DEF Isolated, Low

LEMMA SendIsolated ==
    ASSUME Isolated, BaseInv, BaseInv',
           NEW p \in Ports, NEW c \in Priorities, NEW size \in Sizes, Outcome(p, c, size)
    PROVE  Isolated'
<1>1. PICK e, s, d :
          /\ e \in Priorities
          /\ Exact(d) /\ SameQueues(d, disc[p])
          /\ Refused(p, s, d) \/ Paid(p, e, size, s, d) \/ Free(p, e, size, s, d)
  BY DEF Outcome
<1>2. UNCHANGED conf /\ disc \in [Ports -> DiscType]
  BY DEF Outcome, Arrival, BaseInv, TypeOK
<1>3. ASSUME NoReserve, NEW r \in Ports, NEW f \in Priorities
      PROVE  \/ disc'[r].nBytes[f] <= disc[r].nBytes[f]
             \/ conf.alg[r] # "CS" => Low(r, f, disc'[r].nBytes[f])
  <2>1. disc[r].nBytes[f] \in Nat /\ d.nBytes = disc[p].nBytes
    BY <1>1, <1>2 DEF DiscType, SameQueues
  <2>2. CASE disc'[r].nBytes[f] = disc[r].nBytes[f]
    BY <2>1, <2>2
  <2>3. CASE disc'[r].nBytes[f] # disc[r].nBytes[f]
    <3>1. r = p /\ Paid(p, e, size, s, d) /\ ChildFits(d, e, size)
          /\ disc'[p] = Enqueued(d, e, size)
      BY <1>1, <1>2, <1>3, <2>1, <2>3 DEF Refused, Paid, Free, NoReserve
    <3>2. f = e /\ disc'[p].nBytes[e] = disc[p].nBytes[e] + ItemSize(size)
      BY <1>1, <2>1, <2>3, <3>1, EnqueuedQueues
    <3>3. Granted(p, e, size)
      BY <3>1 DEF Paid
    <3> QED BY <1>3, <3>1, <3>2, <3>3, GrantedIsLow
  <2> QED BY <2>2, <2>3
<1> QED BY <1>2, <1>3, StaysIsolated

LEMMA LeftIsolated ==
    ASSUME Isolated, BaseInv, BaseInv', NEW p \in Ports, NEW c \in Priorities, Left(p, c)
    PROVE  Isolated'
<1> DEFINE b == ItemSize(Head(disc[p].queue[c]))
           d == DequeuedDisc(p, c)
<1>1. b \in Nat /\ d.nBytes = [disc[p].nBytes EXCEPT ![c] = disc[p].nBytes[c] - b]
  BY Leaving DEF Left
<1>2. disc' = [disc EXCEPT ![p] = d] /\ UNCHANGED conf /\ disc \in [Ports -> DiscType]
  BY DEF Left, BaseInv, TypeOK
<1>3. \A r \in Ports : disc[r].nBytes \in [Priorities -> Nat]
  BY <1>2 DEF DiscType
<1> HIDE DEF b, d
<1>4. \A r \in Ports, f \in Priorities : disc'[r].nBytes[f] <= disc[r].nBytes[f]
  <2> SUFFICES ASSUME NEW r \in Ports, NEW f \in Priorities
               PROVE  disc'[r].nBytes[f] <= disc[r].nBytes[f]
    OBVIOUS
  <2>1. disc[r].nBytes[f] \in Nat
    BY <1>3
  <2>2. CASE r = p
    <3>1. disc'[r] = d
      BY <1>2, <2>2
    <3>2. d.nBytes[f] = IF f = c THEN disc[p].nBytes[c] - b ELSE disc[p].nBytes[f]
      BY <1>1, <1>3
    <3>3. disc[p].nBytes[c] \in Nat /\ disc[p].nBytes[f] \in Nat
      BY <1>3
    <3>4. d.nBytes[f] <= disc[p].nBytes[f]
      BY <1>1, <3>2, <3>3
    <3> QED BY <2>2, <3>1, <3>4
  <2>3. CASE r # p
    BY <1>2, <2>1, <2>3
  <2> QED BY <2>2, <2>3
<1> QED BY <1>2, <1>4, StaysIsolated

LEMMA NextIsolated ==
    ASSUME BaseInv, Isolated, [Next]_vars
    PROVE  Isolated'
<1>1. BaseInv'
  BY NextBase
<1>2. ASSUME UNCHANGED conf, \A p \in Ports : disc'[p].nBytes = disc[p].nBytes PROVE Isolated'
  <2>1. \A p \in Ports, c \in Priorities : disc[p].nBytes[c] \in Nat
    BY DEF BaseInv, TypeOK, DiscType
  <2>2. \A p \in Ports, c \in Priorities : disc'[p].nBytes[c] <= disc[p].nBytes[c]
    BY <1>2, <2>1
  <2> QED BY <1>1, <1>2, <2>2, StaysIsolated
<1>3. CASE Send
  BY <1>1, <1>3, SendOutcome, SendIsolated
<1>4. ASSUME NEW p \in Ports, Restart(p) PROVE Isolated'
  <2>1. CASE RestartDone(p)
    BY <1>2, <2>1 DEF RestartDone
  <2>2. CASE RestartSends(p) \/ RestartDiscards(p)
    BY <1>1, <2>2, RestartLeaves, LeftIsolated DEF BaseInv
  <2> QED BY <1>4, <2>1, <2>2 DEF Restart
<1>5. ASSUME NEW p \in Ports, Wake(p) \/ TransmitComplete(p) PROVE Isolated'
  BY <1>2, <1>5 DEF Wake, TransmitComplete
<1>6. ASSUME NEW p \in Ports, InvokeUpdates(p) PROVE Isolated'
  <2>1. PICK d : SameQueues(d, disc[p]) /\ disc' = [disc EXCEPT ![p] = d]
    BY <1>6, UpdatesQuiet
  <2>2. \A r \in Ports : disc'[r].nBytes = disc[r].nBytes
    BY <2>1 DEF SameQueues, BaseInv, TypeOK
  <2> QED BY <1>2, <1>6, <2>2 DEF InvokeUpdates
<1>7. CASE UNCHANGED vars
  BY <1>2, <1>7 DEF vars
<1>8. CASE \E p \in Ports : Restart(p) \/ Wake(p) \/ TransmitComplete(p) \/ InvokeUpdates(p)
  BY <1>4, <1>5, <1>6, <1>8
<1> QED BY <1>3, <1>7, <1>8 DEF Next

\* Dynamic thresholds, FAB, ABM and IB keep every queue within alpha / (1 + alpha)
\* of the buffer (DynamicThresholds, FlowAwareBuffer, ActiveBufferManagement and
\* IntelligentBuffer of gen-queue-disc.cc), whatever the other ports and the
\* buffer's own leak do.
THEOREM IsolatedCorrect == Spec => []Isolated
<1>1. Init => Isolated
  <2> SUFFICES ASSUME Init, NEW p \in Ports, NEW c \in Priorities
               PROVE  Low(p, c, disc[p].nBytes[c])
    BY IsolatedLow
  <2>1. disc[p].nBytes[c] = 0
    BY DEF Init, EmptyDisc
  <2> QED BY <2>1, EmptyIsLow
<1>2. BaseInv /\ Isolated /\ [Next]_vars => Isolated'
  BY NextIsolated
<1> QED BY BaseCorrect, <1>1, <1>2, PTL DEF Spec

-----------------------------------------------------------------------------
(* What the shared buffer loses, and what its statistics say.              *)

\* A child takes whatever the buffer has room for.
ChildrenFit == TotalBuffer <= ChildMax

LEMMA Division ==
    ASSUME NEW n \in Nat \ {0}, NEW a \in Int
    PROVE  a = n * (a \div n) + (a % n) /\ a \div n \in Int /\ a % n \in 0 .. n - 1
  BY RemainderRange

LEMMA RemainderAdd ==
    ASSUME NEW n \in Nat \ {0}, NEW a \in Int, NEW b \in Int
    PROVE  ((a % n) + b) % n = (a + b) % n
<1> DEFINE r == a % n
           q == a \div n
           t == r + b
           s == t % n
           k == t \div n
<1>1. a = n * q + r /\ q \in Int /\ r \in 0 .. n - 1
  BY RemainderRange
<1>2. t = r + b /\ t \in Int
  BY <1>1
<1> HIDE DEF r, q, t
<1>3. t = n * k + s /\ k \in Int /\ s \in 0 .. n - 1
  BY <1>2, Division
<1> HIDE DEF s, k
<1>4. a + b = n * (q + k) + s
  <2>1. n * (q + k) = n * q + n * k /\ n * q \in Int /\ n * k \in Int
    BY <1>1, <1>3
  <2> QED BY <1>1, <1>2, <1>3, <2>1
<1>5. (n * (q + k) + s) % n = s
  <2>1. q + k \in Int
    BY <1>1, <1>3
  <2> QED BY <1>3, <2>1, RemainderUnique
<1> QED BY <1>4, <1>5 DEF s, t, r

LEMMA PriorityIn ==
    /\ PriorityExact <=>
         (NoReserve => \A c \in Priorities : sm.perPrior[c] = QueuedIn(disc, c) % StatWrap)
    /\ PriorityExact' <=>
         (NoReserve' => \A c \in Priorities : sm'.perPrior[c] = QueuedIn(disc', c) % StatWrap)
  BY DEF PriorityExact, QueuedOf, QueuedIn

LeakInv == BaseInv /\ LeakBounded /\ PriorityExact

\* A step that changes the priority c by n bytes.
Recounted(c, n) ==
    /\ sm'.perPrior = [sm.perPrior EXCEPT ![c] = (sm.perPrior[c] + n) % StatWrap]
    /\ QueuedIn(disc', c) = QueuedIn(disc, c) + n
    /\ \A f \in Priorities : f # c => QueuedIn(disc', f) = QueuedIn(disc, f)

LEMMA RecountedExact ==
    ASSUME BaseInv, PriorityExact, NEW c \in Priorities, NEW n \in Int,
           NoReserve, Recounted(c, n)
    PROVE  \A f \in Priorities : sm'.perPrior[f] = QueuedIn(disc', f) % StatWrap
<1> SUFFICES ASSUME NEW f \in Priorities PROVE sm'.perPrior[f] = QueuedIn(disc', f) % StatWrap
  OBVIOUS
<1>1. sm.perPrior \in [Priorities -> 0 .. StatWrap - 1] /\ StatWrap \in Nat \ {0}
  BY DiscAssumption DEF BaseInv, Solid, SharedBufferType
<1>2. sm.perPrior[f] = QueuedIn(disc, f) % StatWrap /\ QueuedIn(disc, f) \in Nat
  BY QueuedType, PriorityIn
<1>3. CASE f = c
  <2>1. sm'.perPrior[f] = (sm.perPrior[c] + n) % StatWrap
    BY <1>1, <1>3 DEF Recounted
  <2>2. QueuedIn(disc', f) = QueuedIn(disc, f) + n
    BY <1>3 DEF Recounted
  <2> DEFINE a == QueuedIn(disc, f)
             W == StatWrap
  <2>3. ((a % W) + n) % W = (a + n) % W
    <3>1. a \in Int /\ W \in Nat \ {0}
      BY <1>1, <1>2
    <3> HIDE DEF a, W
    <3> QED BY <3>1, RemainderAdd
  <2> QED BY <1>2, <1>3, <2>1, <2>2, <2>3
<1>4. CASE f # c
  BY <1>1, <1>2, <1>4 DEF Recounted
<1> QED BY <1>3, <1>4

\* Steps that move no packet.
LEMMA StillLeaks ==
    ASSUME LeakInv, BaseInv', UNCHANGED conf, SameBytes(sm', sm),
           Queued' = Queued, \A c \in Priorities : QueuedIn(disc', c) = QueuedIn(disc, c)
    PROVE  LeakInv'
<1>1. NoReserve' <=> NoReserve
  BY DEF NoReserve
<1>2. LeakBounded'
  BY <1>1 DEF LeakInv, LeakBounded, SameBytes
<1>3. PriorityExact'
  BY <1>1, PriorityIn DEF LeakInv, SameBytes
<1> QED BY <1>2, <1>3 DEF LeakInv

LEMMA PaidLeaks ==
    ASSUME ChildrenFit, LeakInv, BaseInv', UNCHANGED conf, NoReserve,
           NEW p \in Ports, NEW e \in Priorities, NEW size \in Sizes, NEW s, NEW d,
           Solid(s), SameBytes(s, sm), Exact(d), SameQueues(d, disc[p]),
           Paid(p, e, size, s, d)
    PROVE  LeakInv'
<1> DEFINE b == ItemSize(size)
           g == Enqueued(d, e, size)
<1>1. b \in Nat
  BY SizesNat
<1>2. /\ Queued \in Nat /\ disc[p].bytes \in Nat /\ disc[p].bytes <= Queued
      /\ disc[p].nBytes[e] \in Nat /\ disc[p].nBytes[e] <= disc[p].bytes
      /\ QueuedIn(disc, e) \in Nat
  BY QueuedType, ExactBytes DEF LeakInv, BaseInv
<1>3. /\ d.bytes = disc[p].bytes /\ d.nBytes = disc[p].nBytes /\ s.occupied = sm.occupied
      /\ s.remaining = sm.remaining /\ s.perPrior = sm.perPrior
      /\ sm.occupied \in Nat /\ sm.remaining \in Nat
      /\ sm.occupied + sm.remaining = TotalBuffer /\ Queued <= sm.occupied
  BY DEF SameBytes, SameQueues, LeakInv, BaseInv, Solid, SharedBufferType
<1>4. /\ Exact(g) /\ g.bytes = d.bytes + b /\ g.nBytes[e] = d.nBytes[e] + b
      /\ \A f \in Priorities : f # e => g.nBytes[f] = d.nBytes[f]
  BY EnqueuedBytes, EnqueuedQueues
<1> HIDE DEF b, g
<1>5. ChildFits(d, e, size)
  <2>1. s.remaining > b /\ TotalBuffer <= ChildMax /\ ChildMax \in Nat
    BY DiscAssumption DEF Paid, Chargeable, ChildrenFit, b
  <2>2. d.nBytes[e] + b <= ChildMax
    BY <1>1, <1>2, <1>3, <2>1
  <2> QED BY <2>2 DEF ChildFits, b
<1>6. disc' = [disc EXCEPT ![p] = g]
  BY <1>5 DEF Paid, g
<1>7. /\ Queued' = Queued + g.bytes - disc[p].bytes
      /\ Moved(p, g)
  BY <1>4, <1>6, DiscChanged DEF LeakInv
<1>8. Queued' = Queued + b
  BY <1>1, <1>2, <1>3, <1>4, <1>7
<1>9. /\ sm'.occupied = s.occupied + b
      /\ sm'.perPrior = [s.perPrior EXCEPT ![e] = (s.perPrior[e] + b) % StatWrap]
  <2>1. Chargeable(s, b) /\ sm' = Charged(s, e, b)
    BY DEF Paid, b
  <2> QED BY <1>1, <2>1, ChargedSolid
<1>10. NoReserve' <=> NoReserve
  BY DEF NoReserve
<1>11. LeakBounded'
  <2>1. sm'.occupied - Queued' = sm.occupied - Queued
    BY <1>1, <1>2, <1>3, <1>8, <1>9
  <2>2. sm'.occupied + sm'.remaining = TotalBuffer
    BY DEF BaseInv, Solid
  <2> QED BY <2>1, <2>2 DEF LeakBounded, LeakInv
<1>12. Recounted(e, b)
  <2>1. QueuedIn(disc', e) = QueuedIn(disc, e) + b
    <3>1. QueuedIn(disc', e) = QueuedIn(disc, e) + (disc[p].nBytes[e] + b) - disc[p].nBytes[e]
      BY <1>3, <1>4, <1>7 DEF Moved
    <3> QED BY <1>1, <1>2, <3>1
  <2>2. ASSUME NEW f \in Priorities, f # e PROVE QueuedIn(disc', f) = QueuedIn(disc, f)
    <3>1. QueuedIn(disc, f) \in Nat /\ disc[p].nBytes[f] \in Nat
      BY QueuedType, ExactBytes DEF LeakInv, BaseInv
    <3>2. QueuedIn(disc', f) = QueuedIn(disc, f) + disc[p].nBytes[f] - disc[p].nBytes[f]
      BY <1>3, <1>4, <1>7, <2>2 DEF Moved
    <3> QED BY <3>1, <3>2
  <2> QED BY <1>3, <1>9, <2>1, <2>2 DEF Recounted
<1>13. PriorityExact'
  BY <1>1, <1>10, <1>12, RecountedExact, PriorityIn DEF LeakInv
<1> QED BY <1>11, <1>13 DEF LeakInv

\* Without private bytes; with them both properties say little.
LEMMA SendLeaks ==
    ASSUME ChildrenFit, LeakInv, BaseInv',
           NEW p \in Ports, NEW c \in Priorities, NEW size \in Sizes, Outcome(p, c, size)
    PROVE  LeakInv'
<1>1. PICK e, s, d :
          /\ e \in Priorities
          /\ Solid(s) /\ SameBytes(s, sm)
          /\ Exact(d) /\ SameQueues(d, disc[p])
          /\ Refused(p, s, d) \/ Paid(p, e, size, s, d) \/ Free(p, e, size, s, d)
  BY DEF Outcome
<1>2. UNCHANGED conf /\ (NoReserve' <=> NoReserve)
  BY DEF Outcome, Arrival, NoReserve
<1>3. CASE ~NoReserve
  BY <1>2, <1>3 DEF LeakInv, LeakBounded, PriorityExact, BaseInv, Solid
<1>4. CASE NoReserve
  <2>1. CASE Refused(p, s, d)
    <3>1. sm' = s /\ SameBytes(sm', sm)
      BY <1>1, <2>1 DEF Refused
    <3>2. /\ Queued' = Queued + d.bytes - disc[p].bytes
          /\ Moved(p, d)
      BY <1>1, <2>1, DiscChanged DEF Refused, LeakInv
    <3>3. /\ Queued \in Nat /\ disc[p].bytes \in Nat /\ d.bytes = disc[p].bytes
          /\ d.nBytes = disc[p].nBytes
          /\ \A f \in Priorities : QueuedIn(disc, f) \in Nat /\ disc[p].nBytes[f] \in Nat
      BY <1>1, QueuedType, ExactBytes DEF LeakInv, BaseInv, SameQueues
    <3>4. Queued' = Queued /\ \A f \in Priorities : QueuedIn(disc', f) = QueuedIn(disc, f)
      BY <3>2, <3>3 DEF Moved
    <3> QED BY <1>2, <3>1, <3>4, StillLeaks
  <2>2. CASE Paid(p, e, size, s, d)
    BY <1>1, <1>2, <1>4, <2>2, PaidLeaks
  <2>3. CASE Free(p, e, size, s, d)
    BY <1>4, <2>3 DEF Free, NoReserve
  <2> QED BY <1>1, <2>1, <2>2, <2>3
<1> QED BY <1>3, <1>4

LEMMA LeftLeaks ==
    ASSUME LeakInv, BaseInv', NEW p \in Ports, NEW c \in Priorities, Left(p, c)
    PROVE  LeakInv'
<1>1. UNCHANGED conf /\ (NoReserve' <=> NoReserve)
  BY DEF Left, NoReserve
<1>2. CASE ~NoReserve
  BY <1>1, <1>2 DEF LeakInv, LeakBounded, PriorityExact, BaseInv, Solid
<1>3. CASE NoReserve
  <2> DEFINE size == Head(disc[p].queue[c])
             b == ItemSize(size)
             d == DequeuedDisc(p, c)
  <2>1. /\ size \in Sizes /\ b \in Nat \ {0} /\ Exact(d) /\ d.bytes = disc[p].bytes - b
        /\ d.nBytes = [disc[p].nBytes EXCEPT ![c] = disc[p].nBytes[c] - b]
        /\ sm' = Credited(sm, c, b)
    BY <1>3, Leaving DEF Left, LeakInv
  <2>2. /\ Queued \in Nat /\ disc[p].bytes \in Nat /\ disc[p].bytes <= Queued
        /\ Queued <= sm.occupied /\ sm.occupied \in Nat
        /\ disc[p].nBytes \in [Priorities -> Nat]
        /\ \A f \in Priorities : QueuedIn(disc, f) \in Nat
    BY <1>3, QueuedType DEF LeakInv, BaseInv, Solid, SharedBufferType, Exact, DiscType
  <2>3. b \in {ItemSize(z) : z \in Sizes}
    BY <2>1
  <2> HIDE DEF b, d, size
  <2>4. /\ Queued' = Queued + d.bytes - disc[p].bytes
        /\ Moved(p, d)
    BY <2>1, DiscChanged DEF Left, LeakInv, d
  <2>5. Queued' = Queued - b /\ d.bytes \in Nat
    BY <2>1, <2>2, <2>4, ExactBytes
  <2>6. /\ sm'.occupied = IF sm.occupied > b THEN sm.occupied - b ELSE sm.occupied
        /\ sm'.perPrior = [sm.perPrior EXCEPT ![c] = (sm.perPrior[c] - b) % StatWrap]
    <3>1. Solid(sm) /\ b \in Nat
      BY <2>1 DEF LeakInv, BaseInv
    <3> QED BY <2>1, <3>1, CreditedSolid
  <2>7. LeakBounded'
    <3>1. sm'.occupied - Queued' \in {0} \cup {ItemSize(z) : z \in Sizes}
      <4>1. CASE sm.occupied > b
        <5>1. sm'.occupied - Queued' = sm.occupied - Queued
          BY <2>1, <2>2, <2>5, <2>6, <4>1
        <5> QED BY <1>3, <5>1 DEF LeakInv, LeakBounded
      <4>2. CASE ~(sm.occupied > b)
        <5>1. sm'.occupied - Queued' = b
          BY <2>1, <2>2, <2>5, <2>6, <4>2
        <5> QED BY <2>3, <5>1
      <4> QED BY <4>1, <4>2
    <3>2. sm'.occupied + sm'.remaining = TotalBuffer
      BY DEF BaseInv, Solid
    <3> QED BY <3>1, <3>2 DEF LeakBounded
  <2>8. Recounted(c, 0 - b)
    <3>1. QueuedIn(disc', c) = QueuedIn(disc, c) + (0 - b)
      <4>1. QueuedIn(disc', c) = QueuedIn(disc, c) + (disc[p].nBytes[c] - b) - disc[p].nBytes[c]
        BY <2>1, <2>2, <2>4 DEF Moved
      <4>2. QueuedIn(disc, c) \in Nat /\ disc[p].nBytes[c] \in Nat
        BY <2>2
      <4> QED BY <2>1, <4>1, <4>2
    <3>2. ASSUME NEW f \in Priorities, f # c PROVE QueuedIn(disc', f) = QueuedIn(disc, f)
      <4>1. QueuedIn(disc', f) = QueuedIn(disc, f) + disc[p].nBytes[f] - disc[p].nBytes[f]
        BY <2>1, <2>2, <2>4, <3>2 DEF Moved
      <4>2. QueuedIn(disc, f) \in Nat /\ disc[p].nBytes[f] \in Nat
        BY <2>2
      <4> QED BY <4>1, <4>2
    <3>3. sm.perPrior[c] - b = sm.perPrior[c] + (0 - b)
      <4>1. sm.perPrior[c] \in 0 .. StatWrap - 1 /\ StatWrap \in Nat
        BY DiscAssumption DEF LeakInv, BaseInv, Solid, SharedBufferType
      <4> QED BY <2>1, <4>1
    <3> QED BY <2>6, <3>1, <3>2, <3>3 DEF Recounted
  <2>9. PriorityExact'
    <3>1. 0 - b \in Int
      BY <2>1
    <3> QED BY <1>1, <1>3, <2>8, <3>1, RecountedExact, PriorityIn DEF LeakInv
  <2> QED BY <2>7, <2>9 DEF LeakInv
<1> QED BY <1>2, <1>3

LEMMA NextLeaks ==
    ASSUME ChildrenFit, LeakInv, [Next]_vars
    PROVE  LeakInv'
<1>1. BaseInv'
  BY NextBase DEF LeakInv
<1>2. ASSUME UNCHANGED <<sm, conf, disc>> PROVE LeakInv'
  <2>1. Queued' = Queued /\ \A c \in Priorities : QueuedIn(disc', c) = QueuedIn(disc, c)
    BY <1>2 DEF Queued, QueuedIn
  <2>2. SameBytes(sm', sm)
    BY <1>2 DEF SameBytes
  <2> QED BY <1>1, <1>2, <2>1, <2>2, StillLeaks
<1>3. CASE Send
  BY <1>1, <1>3, SendOutcome, SendLeaks DEF LeakInv
<1>4. ASSUME NEW p \in Ports, Restart(p) PROVE LeakInv'
  <2>1. CASE RestartDone(p)
    BY <1>2, <2>1 DEF RestartDone
  <2>2. CASE RestartSends(p) \/ RestartDiscards(p)
    BY <1>1, <2>2, RestartLeaves, LeftLeaks DEF LeakInv, BaseInv
  <2> QED BY <1>4, <2>1, <2>2 DEF Restart
<1>5. ASSUME NEW p \in Ports, Wake(p) \/ TransmitComplete(p) PROVE LeakInv'
  BY <1>2, <1>5 DEF Wake, TransmitComplete
<1>6. ASSUME NEW p \in Ports, InvokeUpdates(p) PROVE LeakInv'
  <2>1. PICK d : Exact(d) /\ SameQueues(d, disc[p]) /\ disc' = [disc EXCEPT ![p] = d]
    BY <1>6, UpdatesQuiet DEF LeakInv
  <2>2. /\ Queued' = Queued + d.bytes - disc[p].bytes
        /\ Moved(p, d)
    BY <2>1, DiscChanged DEF LeakInv
  <2>3. /\ Queued \in Nat /\ disc[p].bytes \in Nat /\ d.bytes = disc[p].bytes
        /\ d.nBytes = disc[p].nBytes
        /\ \A f \in Priorities : QueuedIn(disc, f) \in Nat /\ disc[p].nBytes[f] \in Nat
    BY <2>1, QueuedType, ExactBytes DEF LeakInv, BaseInv, SameQueues
  <2>4. Queued' = Queued /\ \A f \in Priorities : QueuedIn(disc', f) = QueuedIn(disc, f)
    BY <2>2, <2>3 DEF Moved
  <2>5. UNCHANGED conf /\ SameBytes(sm', sm)
    BY <1>6 DEF InvokeUpdates, SameBytes
  <2> QED BY <1>1, <2>4, <2>5, StillLeaks
<1>7. CASE UNCHANGED vars
  BY <1>2, <1>7 DEF vars
<1>8. CASE \E p \in Ports : Restart(p) \/ Wake(p) \/ TransmitComplete(p) \/ InvokeUpdates(p)
  BY <1>4, <1>5, <1>6, <1>8
<1> QED BY <1>3, <1>7, <1>8 DEF Next

LEMMA InitLeaks == Init => LeakInv
<1> SUFFICES ASSUME Init PROVE LeakInv
  OBVIOUS
<1>1. BaseInv
  BY InitBase
<1>2. /\ sm.occupied = 0 /\ sm.perPrior = [c \in Priorities |-> 0]
      /\ sm.occupied + sm.remaining = TotalBuffer
  BY <1>1 DEF Init, EmptySharedBuffer, BaseInv, Solid
<1>3. Queued = 0
  <2>1. \A p \in Ports : [r \in Ports |-> disc[r].bytes][p] = 0
    BY DEF Init, EmptyDisc
  <2> QED BY <2>1, BytesOfZero DEF Queued
<1>4. ASSUME NEW c \in Priorities PROVE QueuedIn(disc, c) = 0
  <2>1. \A p \in Ports : [r \in Ports |-> disc[r].nBytes[c]][p] = 0
    BY DEF Init, EmptyDisc
  <2> QED BY <2>1, BytesOfZero DEF QueuedIn
<1>5. 0 % StatWrap = 0
  <2>1. StatWrap \in Nat \ {0}
    BY DiscAssumption
  <2>2. 0 \in 0 .. StatWrap - 1 /\ StatWrap * 0 + 0 = 0
    BY <2>1
  <2>3. (StatWrap * 0 + 0) % StatWrap = 0
    BY <2>1, <2>2, RemainderUnique
  <2> QED BY <2>2, <2>3
<1> QED BY <1>1, <1>2, <1>3, <1>4, <1>5, PriorityIn DEF LeakInv, LeakBounded

LEMMA LeakCorrect == ChildrenFit => (Spec => []LeakInv)
<1> SUFFICES ASSUME ChildrenFit PROVE Spec => []LeakInv
  OBVIOUS
<1>1. LeakInv /\ [Next]_vars => LeakInv'
  BY NextLeaks
<1> QED BY InitLeaks, <1>1, PTL DEF Spec

\* However often the buffer drains, DequeueBuffer() (shared-memory.cc) leaves the
\* bytes of at most one packet charged, if no child refuses what the buffer takes.
THEOREM LeakBoundedCorrect ==
    ASSUME ChildrenFit
    PROVE  Spec => []LeakBounded
<1>1. LeakInv => LeakBounded
  BY DEF LeakInv
<1> QED BY LeakCorrect, <1>1, PTL

\* PerPriorityStatEnq() and PerPriorityStatDeq() count the bytes of each priority
\* exactly, modulo their width, even when the total leaks.
THEOREM PriorityExactCorrect ==
    ASSUME ChildrenFit
    PROVE  Spec => []PriorityExact
<1>1. LeakInv => PriorityExact
  BY DEF LeakInv
<1> QED BY LeakCorrect, <1>1, PTL

=============================================================================
