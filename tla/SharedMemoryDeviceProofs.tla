---------------------- MODULE SharedMemoryDeviceProofs ----------------------
(***************************************************************************)
(* Type correctness and the safety invariants of SharedMemoryDevice.  They *)
(* are not inductive by themselves.  StaticInv holds for every             *)
(* StaticBuffer: the counters of the MMU and of the static buffers add up, *)
(* modulo Word, to the bytes in the sub-queues.  IInv, for StaticBuffer =  *)
(* 0, the value the program has unless it is told otherwise, has the exact *)
(* counters (with private buffers Accounting is false), and that, while a  *)
(* packet pushes others out, the bytes counted as freed are indeed free    *)
(* (PushCredited), without which Capacity would be lost when that packet   *)
(* is admitted.                                                            *)
(***************************************************************************)
EXTENDS SharedMemoryDevice, QueueSchedulerProofs, TLAPS

-----------------------------------------------------------------------------
(* What a memory without static buffers keeps.                             *)

Sound(m) ==
    /\ m \in Memory
    /\ m.token <= MaxToken
    /\ m.static = [c \in Cells |-> 0]
    /\ Accounted(m)

LEMMA CellsFinite ==
    /\ IsFiniteSet(Cells)
    /\ \A pr \in Priorities : CellsOf(pr) \in SUBSET Cells
<1>1. IsFiniteSet(Ports) /\ IsFiniteSet(SubQueues)
  <2>1. NPorts \in Int /\ QCnt - 1 \in Int
    BY MemoryAssumption, SchedulerAssumption
  <2> QED BY <2>1, FS_Interval DEF Ports, SubQueues
<1>2. IsFiniteSet(Cells)
  BY <1>1, FS_Product DEF Cells
<1> QED BY <1>2 DEF CellsOf

LEMMA SizesNat ==
    /\ Sizes \subseteq Nat
    /\ \A size \in Sizes : size > 0
    /\ \A s : s \in Seq(Sizes) => s \in Seq(Nat)
<1>1. Sizes \subseteq Nat /\ (\A size \in Sizes : size > 0)
  BY MemoryAssumption
<1>2. ASSUME NEW s \in Seq(Sizes) PROVE s \in Seq(Nat)
  BY <1>1, <1>2, SeqMonotonic
<1> QED BY <1>1, <1>2

LEMMA CellParts ==
    ASSUME NEW c \in Cells
    PROVE  c = <<c[1], c[2]>> /\ c[1] \in Ports /\ c[2] \in SubQueues /\ QToP[c[2]] \in Priorities
  BY MemoryAssumption DEF Cells, Priorities

LEMMA EmptySound == Sound(EmptyMemory)
<1>1. EmptyMemory \in Memory /\ EmptyMemory.token <= MaxToken
  BY MemoryAssumption, SchedulerAssumption, SMTT(30) DEF EmptyMemory, Memory, Cells, Ports, SubQueues
<1>2. \A f, S : (\A x \in S : f[x] = 0) => BytesOf(f, S) = 0
  <2> SUFFICES ASSUME NEW f, NEW S, \A x \in S : f[x] = 0
               PROVE  BytesOf(f, S) = 0
    OBVIOUS
  <2>1. UNION {{x} \X (1 .. f[x]) : x \in S} = {}
    OBVIOUS
  <2> QED BY <2>1, FS_EmptySet DEF BytesOf
<1>3. \A x \in {} : (<<>>)[x] = 0
  OBVIOUS
<1>4. DOMAIN <<>> = {}
  OBVIOUS
<1>5. BytesOf(<<>>, DOMAIN <<>>) = 0
  BY <1>2, <1>3, <1>4
<1>6. \A S \in SUBSET Cells : BytesOf(EmptyMemory.nBytes, S) = 0
  BY <1>2 DEF EmptyMemory
<1>7. Accounted(EmptyMemory)
  BY <1>5, <1>6, CellsFinite DEF Accounted, EmptyMemory
<1> QED BY <1>1, <1>7 DEF Sound, EmptyMemory

LEMMA ArrivedSound ==
    ASSUME NEW m, Sound(m), NEW c \in Cells, NEW size \in Sizes
    PROVE  /\ Sound(Arrived(m, c, size, FALSE))
           /\ Arrived(m, c, size, FALSE).used = m.used + size
<1> DEFINE n == Arrived(m, c, size, FALSE)
           pr == QToP[c[2]]
<1>0. m \in Memory /\ m.token <= MaxToken /\ m.static = [d \in Cells |-> 0] /\ Accounted(m)
  BY DEF Sound
<1>1. size \in Nat /\ pr \in Priorities
  BY SizesNat, CellParts
<1>2. /\ n.queue = [m.queue EXCEPT ![c] = Append(@, size)]
      /\ n.nBytes = [m.nBytes EXCEPT ![c] = @ + size]
      /\ n.used = m.used + size
      /\ n.pUsed = [m.pUsed EXCEPT ![pr] = @ + size]
      /\ n.static = m.static /\ n.token = m.token
  <2> DEFINE o == Pushed(m, c, size)
  <2>1. /\ o.queue = [m.queue EXCEPT ![c] = Append(@, size)]
        /\ o.nBytes = [m.nBytes EXCEPT ![c] = @ + size]
        /\ o.used = m.used /\ o.pUsed = m.pUsed
        /\ o.static = m.static /\ o.token = m.token
        /\ DOMAIN o = DOMAIN m
    BY <1>0 DEF Pushed, Memory
  <2>2. n = AddUsed(o, c, size)
    BY DEF Arrived
  <2> HIDE DEF o, n
  <2>3. "used" \in DOMAIN o /\ "pUsed" \in DOMAIN o
    BY <1>0, <2>1 DEF Memory
  <2> QED BY <2>1, <2>2, <2>3 DEF AddUsed
<1>3. n \in Memory
  <2>1. Pushed(m, c, size) \in Memory
    <3>1. Append(m.queue[c], size) \in Seq(Sizes) /\ m.nBytes[c] + size \in Nat
      BY <1>0, <1>1 DEF Memory
    <3> QED BY <1>0, <3>1 DEF Pushed, Memory
  <2>2. ASSUME NEW o \in Memory PROVE AddUsed(o, c, size) \in Memory
    <3>1. o.used + size \in Int /\ o.pUsed[pr] + size \in Int
      BY <1>1, <2>2 DEF Memory
    <3> QED BY <1>1, <2>2, <3>1 DEF AddUsed, Memory
  <2> QED BY <2>1, <2>2 DEF Arrived
<1> HIDE DEF n
<1>4. \A d \in Cells : n.nBytes[d] = BytesOf(n.queue[d], DOMAIN n.queue[d])
  <2> SUFFICES ASSUME NEW d \in Cells
               PROVE  n.nBytes[d] = BytesOf(n.queue[d], DOMAIN n.queue[d])
    OBVIOUS
  <2>1. m.nBytes[d] = BytesOf(m.queue[d], DOMAIN m.queue[d])
    BY <1>0 DEF Accounted
  <2>2. m.queue[d] \in Seq(Nat)
    BY <1>0, SizesNat DEF Memory
  <2>3. CASE d = c
    <3>1. n.queue[c] = Append(m.queue[c], size) /\ n.nBytes[c] = m.nBytes[c] + size
      BY <1>0, <1>2 DEF Memory
    <3> QED BY <1>1, <2>1, <2>2, <2>3, <3>1, BytesOfAppend
  <2>4. CASE d # c
    <3>1. n.queue[d] = m.queue[d] /\ n.nBytes[d] = m.nBytes[d]
      BY <1>0, <1>2, <2>4 DEF Memory
    <3> QED BY <2>1, <3>1
  <2> QED BY <2>3, <2>4
<1>5. m.nBytes \in [Cells -> Nat] /\ m.nBytes[c] + size \in Nat /\ m.used \in Int /\ m.pUsed \in [Priorities -> Int]
  BY <1>0, <1>1 DEF Memory
<1>6. \A T \in SUBSET Cells : BytesOf(n.nBytes, T) = IF c \in T THEN BytesOf(m.nBytes, T) + size
                                                                ELSE BytesOf(m.nBytes, T)
  <2> SUFFICES ASSUME NEW T \in SUBSET Cells
               PROVE  BytesOf(n.nBytes, T) = IF c \in T THEN BytesOf(m.nBytes, T) + size
                                                                ELSE BytesOf(m.nBytes, T)
    OBVIOUS
  <2>1. BytesOf(n.nBytes, T) = IF c \in T THEN BytesOf(m.nBytes, T) + (m.nBytes[c] + size) - m.nBytes[c]
                                                                ELSE BytesOf(m.nBytes, T)
    <3>1. BytesOf([m.nBytes EXCEPT ![c] = m.nBytes[c] + size], T)
            = IF c \in T THEN BytesOf(m.nBytes, T) + (m.nBytes[c] + size) - m.nBytes[c]
              ELSE BytesOf(m.nBytes, T)
      <4> DEFINE v == m.nBytes[c] + size
      <4>1. IsFiniteSet(Cells) /\ v \in Nat /\ m.nBytes \in [Cells -> Nat]
        BY <1>5, CellsFinite
      <4> HIDE DEF v
      <4>2. BytesOf([m.nBytes EXCEPT ![c] = v], T)
              = IF c \in T THEN BytesOf(m.nBytes, T) + v - m.nBytes[c]
                ELSE BytesOf(m.nBytes, T)
        BY <4>1, BytesOfUpdate
      <4> QED BY <4>2 DEF v
    <3> QED BY <1>2, <3>1
  <2>2. BytesOf(m.nBytes, T) \in Nat
    <3>1. IsFiniteSet(T) BY CellsFinite, FS_Subset
    <3> QED BY <1>5, <3>1, BytesOfType
  <2> QED BY <1>1, <1>5, <2>1, <2>2
<1>7. n.used = BytesOf(n.nBytes, Cells)
  BY <1>0, <1>2, <1>6 DEF Accounted
<1>8. \A q \in Priorities : n.pUsed[q] = BytesOf(n.nBytes, CellsOf(q))
  <2> SUFFICES ASSUME NEW q \in Priorities PROVE n.pUsed[q] = BytesOf(n.nBytes, CellsOf(q))
    OBVIOUS
  <2>1. c \in CellsOf(q) <=> pr = q
    BY DEF CellsOf
  <2>2. n.pUsed[q] = IF pr = q THEN m.pUsed[q] + size ELSE m.pUsed[q]
    BY <1>1, <1>2, <1>5
  <2>3. m.pUsed[q] = BytesOf(m.nBytes, CellsOf(q))
    BY <1>0 DEF Accounted
  <2> QED BY <1>6, <2>1, <2>2, <2>3, CellsFinite
<1>9. Sound(n) /\ n.used = m.used + size
  BY <1>0, <1>2, <1>3, <1>4, <1>7, <1>8 DEF Sound, Accounted
<1> QED BY <1>9 DEF n

LEMMA ArrivedBytes ==
    ASSUME NEW m, Sound(m), NEW c \in Cells, NEW size \in Sizes, NEW d \in Cells
    PROVE  Arrived(m, c, size, FALSE).nBytes[d]
              = IF d = c THEN m.nBytes[c] + size ELSE m.nBytes[d]
<1>1. m \in Memory
  BY DEF Sound
<1>2. Pushed(m, c, size).nBytes[d] = IF d = c THEN m.nBytes[c] + size ELSE m.nBytes[d]
  BY <1>1 DEF Pushed, Memory
<1>3. "nBytes" \in DOMAIN Pushed(m, c, size)
  BY <1>1 DEF Pushed, Memory
<1>4. Arrived(m, c, size, FALSE).nBytes = Pushed(m, c, size).nBytes
  BY <1>3 DEF Arrived, AddUsed
<1> QED BY <1>2, <1>4

LEMMA EmptyQueueHoldsNothing ==
    ASSUME NEW m, Sound(m), NEW c \in Cells, m.nBytes[c] > 0
    PROVE  m.queue[c] # <<>>
<1> SUFFICES ASSUME m.queue[c] = <<>> PROVE FALSE
  OBVIOUS
<1>1. DOMAIN <<>> = {} /\ UNION {{x} \X (1 .. (<<>>)[x]) : x \in {}} = {}
  OBVIOUS
<1>2. BytesOf(<<>>, DOMAIN <<>>) = 0
  BY <1>1, FS_EmptySet DEF BytesOf
<1> QED BY <1>2 DEF Sound, Accounted

LEMMA PushedOutSound ==
    ASSUME NEW m, Sound(m), NEW c \in Cells, m.queue[c] # <<>>
    PROVE  LET n == PushedOut(m, c)
               size == Head(m.queue[c])
           IN  /\ Sound(n)
               /\ size \in Sizes
               /\ m.nBytes[c] >= size
               /\ n.used = m.used - size
               /\ n.nBytes = [m.nBytes EXCEPT ![c] = @ - size]
               /\ n.queue = [m.queue EXCEPT ![c] = Tail(@)]
<1> DEFINE n == PushedOut(m, c)
           size == Head(m.queue[c])
           pr == QToP[c[2]]
<1>0. m \in Memory /\ m.token <= MaxToken /\ m.static = [d \in Cells |-> 0] /\ Accounted(m)
  BY DEF Sound
<1>1. size \in Sizes /\ size \in Nat /\ pr \in Priorities /\ Tail(m.queue[c]) \in Seq(Sizes)
  <2>1. m.queue[c] \in Seq(Sizes)
    BY <1>0 DEF Memory
  <2> QED BY <2>1, SizesNat, CellParts, HeadTailProperties
<1>2. /\ n.queue = [m.queue EXCEPT ![c] = Tail(@)]
      /\ n.nBytes = [m.nBytes EXCEPT ![c] = @ - size]
      /\ n.used = m.used - size
      /\ n.pUsed = [m.pUsed EXCEPT ![pr] = @ - size]
      /\ n.static = m.static /\ n.token = m.token
  <2> DEFINE o == Popped(m, c)
  <2>1. /\ o.queue = [m.queue EXCEPT ![c] = Tail(@)]
        /\ o.nBytes = [m.nBytes EXCEPT ![c] = @ - size]
        /\ o.used = m.used /\ o.pUsed = m.pUsed
        /\ o.static = m.static /\ o.token = m.token
        /\ DOMAIN o = DOMAIN m
    BY <1>0 DEF Popped, Memory
  <2>2. n = DeleteUsed(o, c, size)
    BY DEF PushedOut
  <2> HIDE DEF o, n
  <2>3. "used" \in DOMAIN o /\ "pUsed" \in DOMAIN o
    BY <1>0, <2>1 DEF Memory
  <2> QED BY <2>1, <2>2, <2>3 DEF DeleteUsed
<1>3. \A d \in Cells : m.queue[d] \in Seq(Nat)
  BY <1>0, SizesNat DEF Memory
<1>4. /\ m.nBytes[c] = BytesOf(m.queue[c], DOMAIN m.queue[c])
      /\ BytesOf(Tail(m.queue[c]), DOMAIN Tail(m.queue[c])) = m.nBytes[c] - size
      /\ m.nBytes[c] >= size
  BY <1>0, <1>3, BytesOfTail DEF Accounted
<1>5. m.nBytes \in [Cells -> Nat] /\ m.nBytes[c] - size \in Nat /\ m.used \in Int /\ m.pUsed \in [Priorities -> Int]
  BY <1>0, <1>1, <1>4, SMTT(30) DEF Memory
<1>6. n \in Memory
  <2>1. Popped(m, c) \in Memory
    BY <1>0, <1>1, <1>5 DEF Popped, Memory
  <2>2. ASSUME NEW o \in Memory PROVE DeleteUsed(o, c, size) \in Memory
    <3>1. o.used - size \in Int /\ o.pUsed[pr] - size \in Int
      <4>1. o.used \in Int /\ o.pUsed[pr] \in Int
        BY <1>1, <2>2 DEF Memory
      <4> HIDE DEF size, pr
      <4> QED BY <1>1, <4>1
    <3> QED BY <1>1, <2>2, <3>1 DEF DeleteUsed, Memory
  <2> QED BY <2>1, <2>2 DEF PushedOut
<1> HIDE DEF n
<1>7. \A d \in Cells : n.nBytes[d] = BytesOf(n.queue[d], DOMAIN n.queue[d])
  <2> SUFFICES ASSUME NEW d \in Cells
               PROVE  n.nBytes[d] = BytesOf(n.queue[d], DOMAIN n.queue[d])
    OBVIOUS
  <2>1. CASE d = c
    <3>1. n.queue[c] = Tail(m.queue[c]) /\ n.nBytes[c] = m.nBytes[c] - size
      BY <1>0, <1>2 DEF Memory
    <3> QED BY <1>4, <2>1, <3>1
  <2>2. CASE d # c
    <3>1. n.queue[d] = m.queue[d] /\ n.nBytes[d] = m.nBytes[d]
      BY <1>0, <1>2, <2>2 DEF Memory
    <3> QED BY <1>0, <3>1 DEF Accounted
  <2> QED BY <2>1, <2>2
<1>8. ASSUME NEW T \in SUBSET Cells
      PROVE  BytesOf(n.nBytes, T) = IF c \in T THEN BytesOf(m.nBytes, T) - size
                                    ELSE BytesOf(m.nBytes, T)
  <2> DEFINE v == m.nBytes[c] - size
  <2>1. IsFiniteSet(Cells) /\ v \in Nat /\ m.nBytes \in [Cells -> Nat]
    BY <1>5, CellsFinite
  <2>2. n.nBytes = [m.nBytes EXCEPT ![c] = v]
    BY <1>2
  <2> HIDE DEF v
  <2>3. BytesOf(n.nBytes, T)
          = IF c \in T THEN BytesOf(m.nBytes, T) + v - m.nBytes[c]
            ELSE BytesOf(m.nBytes, T)
    <3>1. BytesOf([m.nBytes EXCEPT ![c] = v], T)
            = IF c \in T THEN BytesOf(m.nBytes, T) + v - m.nBytes[c]
              ELSE BytesOf(m.nBytes, T)
      <4>1. \A U \in SUBSET Cells : \A f \in [Cells -> Nat] :
              \A y \in Cells : \A w \in Nat :
                BytesOf([f EXCEPT ![y] = w], U)
                  = IF y \in U THEN BytesOf(f, U) + w - f[y] ELSE BytesOf(f, U)
        BY CellsFinite, BytesOfUpdate
      <4>2. \A f \in [Cells -> Nat] : \A w \in Nat :
                BytesOf([f EXCEPT ![c] = w], T)
                  = IF c \in T THEN BytesOf(f, T) + w - f[c] ELSE BytesOf(f, T)
        BY <4>1
      <4> QED BY <2>1, <4>2
    <3> QED BY <2>2, <3>1
  <2>4. BytesOf(m.nBytes, T) \in Nat
    <3>1. IsFiniteSet(T) BY CellsFinite, FS_Subset
    <3> QED BY <1>5, <3>1, BytesOfType
  <2> QED BY <1>1, <1>5, <2>3, <2>4 DEF v
<1>9. n.used = BytesOf(n.nBytes, Cells)
  BY <1>0, <1>2, <1>8 DEF Accounted
<1>10. ASSUME NEW q \in Priorities PROVE n.pUsed[q] = BytesOf(n.nBytes, CellsOf(q))
  <2>1. c \in CellsOf(q) <=> pr = q
    BY DEF CellsOf
  <2>2. n.pUsed[q] = IF pr = q THEN m.pUsed[q] - size ELSE m.pUsed[q]
    BY <1>1, <1>2, <1>5
  <2>3. m.pUsed[q] = BytesOf(m.nBytes, CellsOf(q))
    BY <1>0 DEF Accounted
  <2> QED BY <1>8, <2>1, <2>2, <2>3, CellsFinite
<1>11. Sound(n)
  BY <1>0, <1>2, <1>6, <1>7, <1>9, <1>10 DEF Sound, Accounted
<1> QED BY <1>1, <1>2, <1>4, <1>11 DEF n

\* Tokens are only ever taken off here, so their cap is safe.
LEMMA TokenDeleteSound ==
    ASSUME NEW m, Sound(m), NEW size \in Nat
    PROVE  LET n == TokenDelete(m, size)
           IN  /\ Sound(n)
               /\ n.used = m.used /\ n.nBytes = m.nBytes /\ n.queue = m.queue
<1> DEFINE n == TokenDelete(m, size)
           k == (size + CeilSize - 1) \div CeilSize
<1>0. m \in Memory /\ m.token \in Int /\ MaxToken \in Int
  BY MemoryAssumption DEF Sound, Memory
<1>1. k \in Nat
  <2>1. size + CeilSize - 1 \in Nat /\ CeilSize \in Nat \ {0}
    BY MemoryAssumption
  <2>2. \A a \in Nat, b \in Nat \ {0} : a \div b \in Nat
    OBVIOUS
  <2> QED BY <2>1, <2>2
<1> HIDE DEF k
<1>2. CASE EnqueueMethod = "MULTILAYER_DT"
  <2>1. n = [m EXCEPT !.token = @ - k]
    BY <1>2 DEF TokenDelete, k
  <2>2. n \in Memory /\ n.token = m.token - k
    <3>1. m.token - k \in Int
      BY <1>0, <1>1
    <3>2. n = [m EXCEPT !.token = m.token - k]
      BY <2>1
    <3> HIDE DEF n
    <3> QED BY <1>0, <3>1, <3>2 DEF Memory
  <2>3. /\ n.used = m.used /\ n.nBytes = m.nBytes /\ n.queue = m.queue
        /\ n.static = m.static /\ n.pUsed = m.pUsed
    BY <1>0, <2>1 DEF Memory
  <2> HIDE DEF n
  <2>4. n.token <= MaxToken
    BY <1>0, <1>1, <2>2 DEF Sound
  <2>5. Sound(n)
    BY <2>2, <2>3, <2>4 DEF Sound, Accounted
  <2> QED BY <2>3, <2>5 DEF n
<1>3. CASE EnqueueMethod # "MULTILAYER_DT"
  BY <1>3 DEF TokenDelete
<1> QED BY <1>2, <1>3

LEMMA HeadDroppedSound ==
    ASSUME NEW m, Sound(m), NEW p, NEW c \in Cells, m.queue[c] # <<>>
    PROVE  /\ Sound(HeadDropped(m, p, c))
           /\ HeadDropped(m, p, c).used <= m.used
           /\ \A d \in Cells : HeadDropped(m, p, c).nBytes[d] <= m.nBytes[d]
<1> DEFINE size == Head(m.queue[c])
           o == PushedOut(m, c)
           n == TokenDelete(o, size)
<1>1. /\ Sound(o) /\ size \in Nat /\ o.used = m.used - size
      /\ o.nBytes = [m.nBytes EXCEPT ![c] = @ - size]
  BY PushedOutSound, SizesNat
<1>2. m.used \in Int /\ m.nBytes \in [Cells -> Nat]
  BY DEF Sound, Memory
<1> HIDE DEF o, size
<1>3. Sound(n) /\ n.used = o.used /\ n.nBytes = o.nBytes
  BY <1>1, TokenDeleteSound
<1> HIDE DEF n
<1>4. n.used <= m.used /\ \A d \in Cells : n.nBytes[d] <= m.nBytes[d]
  BY <1>1, <1>2, <1>3
<1>5. HeadDropped(m, p, c) = IF DropType[p] = "TOKEN" THEN [n EXCEPT !.last = c] ELSE n
  BY DEF HeadDropped, n, o, size
<1>6. Sound([n EXCEPT !.last = c])
  BY <1>3 DEF Sound, Memory, Accounted
<1>7. [n EXCEPT !.last = c].used = n.used /\ [n EXCEPT !.last = c].nBytes = n.nBytes
  BY <1>3 DEF Sound, Memory
<1> QED BY <1>3, <1>4, <1>5, <1>6, <1>7

\* Without a static buffer a departure is always credited to the MMU.
LEMMA DepartedSound ==
    ASSUME NEW m, Sound(m), NEW c \in Cells, m.queue[c] # <<>>
    PROVE  /\ Sound(Departed(m, c))
           /\ Departed(m, c).used <= m.used
           /\ \A d \in Cells : Departed(m, c).nBytes[d] <= m.nBytes[d]
           /\ Departed(m, c).queue = [m.queue EXCEPT ![c] = Tail(@)]
<1> DEFINE size == Head(m.queue[c])
           o == PushedOut(m, c)
           n == TokenDelete(o, size)
<1>1. /\ Sound(o) /\ size \in Nat /\ o.used = m.used - size
      /\ o.nBytes = [m.nBytes EXCEPT ![c] = @ - size]
      /\ o.queue = [m.queue EXCEPT ![c] = Tail(@)]
      /\ m.nBytes[c] >= size
  BY PushedOutSound, SizesNat
<1>2. m.used \in Int /\ m.nBytes \in [Cells -> Nat]
  BY DEF Sound, Memory
<1>3. Departed(m, c) = n
  <2>1. Popped(m, c).static[c] = 0
    BY DEF Popped, Sound, Memory
  <2>2. Popped(m, c).nBytes[c] = m.nBytes[c] - size
    BY DEF Popped, Sound, Memory
  <2>3. m.nBytes[c] - size \in Nat
    <3> HIDE DEF size
    <3> QED BY <1>1, <1>2
  <2>4. ~(Popped(m, c).static[c] > Popped(m, c).nBytes[c])
    BY <2>1, <2>2, <2>3
  <2> QED BY <2>4 DEF Departed, PushedOut
<1> HIDE DEF o, size
<1>4. Sound(n) /\ n.used = o.used /\ n.nBytes = o.nBytes /\ n.queue = o.queue
  BY <1>1, TokenDeleteSound
<1> HIDE DEF n
<1>5. n.used <= m.used /\ \A d \in Cells : n.nBytes[d] <= m.nBytes[d]
  BY <1>1, <1>2, <1>4
<1> QED BY <1>1, <1>3, <1>4, <1>5

\* What DropCheck() picks has a packet to drop.
LEMMA VictimsHold ==
    ASSUME NEW m, Sound(m), NEW a, NEW p
    PROVE  \A c \in HeadDropVictim(m, a, p) : c \in Cells /\ m.queue[c] # <<>>
<1>0. m.used \in Int /\ m.nBytes \in [Cells -> Nat]
  BY DEF Sound, Memory
<1>1. \A c \in UsedCells : c \in Cells
  BY SchedulerAssumption DEF UsedCells, Cells, UsedQueues, SubQueues
<1>2. \A c \in RoundRobinVictim(m, a, p) : c \in Cells /\ m.queue[c] # <<>>
  BY <1>1 DEF RoundRobinVictim
<1>3. ASSUME NEW c \in LongestVictim(m, a, p) PROVE c \in Cells /\ m.queue[c] # <<>>
  <2>1. c \in Cells /\ m.nBytes[c] > StaticBuffer
    BY <1>1, <1>3 DEF LongestVictim, Longest
  <2>2. m.nBytes[c] > 0
    BY <1>0, <2>1, MemoryAssumption
  <2> QED BY <2>1, <2>2, EmptyQueueHoldsNothing
<1>4. \/ HeadDropVictim(m, a, p) = {}
      \/ HeadDropVictim(m, a, p) = RoundRobinVictim(m, a, p)
      \/ HeadDropVictim(m, a, p) = LongestVictim(m, a, p)
  BY MemoryAssumption DEF HeadDropVictim, DropTypes
<1> QED BY <1>2, <1>3, <1>4

LEMMA DropCheckedSound ==
    ASSUME NEW m, Sound(m), NEW a, NEW p
    PROVE  /\ Sound(DropChecked(m, a, p))
           /\ DropChecked(m, a, p).used <= m.used
           /\ \A d \in Cells : DropChecked(m, a, p).nBytes[d] <= m.nBytes[d]
<1> DEFINE V == HeadDropVictim(m, a, p)
<1>1. m.used \in Int /\ m.nBytes \in [Cells -> Nat]
  BY DEF Sound, Memory
<1>2. \A c \in V : c \in Cells /\ m.queue[c] # <<>>
  BY VictimsHold
<1> HIDE DEF V
<1>3. CASE V = {}
  BY <1>1, <1>3 DEF DropChecked, V
<1>4. CASE V # {}
  <2> DEFINE c == CHOOSE c \in V : TRUE
  <2>1. c \in V
    BY <1>4
  <2>2. DropChecked(m, a, p) = HeadDropped(m, p, c)
    BY <1>4 DEF DropChecked, V
  <2> HIDE DEF c
  <2> QED BY <1>2, <2>1, <2>2, HeadDroppedSound
<1> QED BY <1>3, <1>4

LEMMA TokenAddedSound ==
    ASSUME NEW m, Sound(m)
    PROVE  LET n == TokenAdded(m)
           IN  /\ Sound(n)
               /\ n.used = m.used /\ n.nBytes = m.nBytes /\ n.queue = m.queue
<1> DEFINE n == TokenAdded(m)
<1>0. m \in Memory /\ <<1, 0>> \in Cells /\ m.token \in Int
  <2>1. 1 \in Ports
    BY MemoryAssumption DEF Ports
  <2>2. 0 \in SubQueues
    BY SchedulerAssumption DEF SubQueues
  <2> QED BY <2>1, <2>2 DEF Sound, Memory, Cells
<1>1. Refill \in Int /\ MaxToken \in Int
  BY MemoryAssumption
<1>2. /\ n.used = m.used /\ n.nBytes = m.nBytes /\ n.queue = m.queue
      /\ n.static = m.static /\ n.pUsed = m.pUsed
      /\ n.token = IF m.token + Refill > MaxToken THEN MaxToken ELSE m.token + Refill
  BY <1>0 DEF TokenAdded, Memory
<1>3. n \in Memory
  <2> DEFINE k == IF m.token + Refill > MaxToken THEN MaxToken ELSE m.token + Refill
             l == IF m.started THEN m.last ELSE <<1, 0>>
  <2>1. k \in Int /\ l \in Cells
    BY <1>0, <1>1 DEF Memory
  <2>2. n = [m EXCEPT !.started = TRUE, !.last = l, !.token = k]
    BY <1>0 DEF TokenAdded, Memory
  <2> HIDE DEF k, l, n
  <2> QED BY <1>0, <2>1, <2>2 DEF Memory
<1> HIDE DEF n
<1>4. n.token <= MaxToken
  BY <1>0, <1>1, <1>2
<1>5. Sound(n)
  BY <1>2, <1>3, <1>4 DEF Sound, Accounted
<1> QED BY <1>2, <1>5 DEF n

-----------------------------------------------------------------------------
(* Saturation.                                                             *)

LEMMA SetSaturatedCounts ==
    ASSUME NEW s \in SaturationState, Counted(s),
           NEW c \in Cells, NEW level \in BOOLEAN
    PROVE  LET t == SetSaturated(s, c, level)
           IN  t \in SaturationState /\ Counted(t)
<1> DEFINE t == SetSaturated(s, c, level)
           pr == QToP[c[2]]
           Flagged(r, q) == {d \in CellsOf(q) : r.saturated[d]}
<1>0. pr \in Priorities /\ s.saturated \in [Cells -> BOOLEAN] /\ s.N \in [Priorities -> Int]
  BY CellParts DEF SaturationState
<1>1. CASE s.saturated[c] = level
  BY <1>1 DEF SetSaturated
<1>2. CASE s.saturated[c] # level
  <2> DEFINE k == IF level THEN s.N[pr] + 1 ELSE s.N[pr] - 1
  <2>1. k \in Int
    BY <1>0
  <2>2. t = [s EXCEPT !.saturated[c] = level, !.N[pr] = k]
    BY <1>2 DEF SetSaturated
  <2> HIDE DEF k, t
  <2>3. /\ t \in SaturationState
        /\ t.saturated = [s.saturated EXCEPT ![c] = level]
        /\ t.N = [s.N EXCEPT ![pr] = k]
    BY <1>0, <2>1, <2>2 DEF SaturationState
  <2>4. ASSUME NEW q \in Priorities
        PROVE  t.N[q] = Cardinality(Flagged(t, q))
    <3>1. s.N[q] = Cardinality(Flagged(s, q))
      BY DEF Counted
    <3>2. IsFiniteSet(Flagged(s, q))
      <4>1. Flagged(s, q) \in SUBSET Cells
        BY DEF CellsOf
      <4> QED BY <4>1, CellsFinite, FS_Subset
    <3>3. CASE q # pr
      <4>1. Flagged(t, q) = Flagged(s, q)
        BY <1>0, <2>3, <3>3 DEF CellsOf
      <4>2. t.N[q] = s.N[q]
        BY <1>0, <2>3, <3>3
      <4> QED BY <3>1, <4>1, <4>2
    <3>4. CASE q = pr /\ level
      <4>1. c \notin Flagged(s, q) /\ Flagged(t, q) = Flagged(s, q) \cup {c}
        BY <1>0, <1>2, <2>3, <3>4 DEF CellsOf
      <4>2. t.N[q] = s.N[q] + 1
        BY <1>0, <2>3, <3>4 DEF k
      <4>3. Cardinality(Flagged(t, q)) = Cardinality(Flagged(s, q)) + 1
        <5> HIDE DEF Flagged
        <5> QED BY <3>2, <4>1, FS_AddElement
      <4> QED BY <3>1, <4>2, <4>3
    <3>5. CASE q = pr /\ ~level
      <4>1. c \in Flagged(s, q) /\ Flagged(t, q) = Flagged(s, q) \ {c}
        BY <1>0, <1>2, <2>3, <3>5 DEF CellsOf
      <4>2. t.N[q] = s.N[q] - 1
        BY <1>0, <2>3, <3>5 DEF k
      <4>3. Cardinality(Flagged(t, q)) = Cardinality(Flagged(s, q)) - 1
        <5> HIDE DEF Flagged
        <5> QED BY <3>2, <4>1, FS_RemoveElement
      <4> QED BY <3>1, <4>2, <4>3
    <3> QED BY <3>3, <3>4, <3>5
  <2> QED BY <2>3, <2>4 DEF Counted, t
<1> QED BY <1>1, <1>2

-----------------------------------------------------------------------------
(* Thresholds.                                                             *)

LEMMA Division ==
    ASSUME NEW a \in Nat, NEW b \in Nat \ {0}
    PROVE  a \div b \in Nat /\ (a \div b) * b <= a
  OBVIOUS

LEMMA Remainder ==
    ASSUME NEW a \in Nat, NEW b \in Nat \ {0}, a < b
    PROVE  a % b = a
  OBVIOUS

LEMMA QueueBelowUsed ==
    ASSUME NEW m, Sound(m), NEW c \in Cells
    PROVE  m.nBytes[c] \in Nat /\ m.nBytes[c] <= m.used
<1>1. m.nBytes \in [Cells -> Nat] /\ m.used = BytesOf(m.nBytes, Cells)
  BY DEF Sound, Memory, Accounted
<1>2. BytesOf(m.nBytes, Cells) = BytesOf(m.nBytes, Cells \ {c}) + m.nBytes[c]
  BY <1>1, CellsFinite, BytesOfSplit
<1>3. BytesOf(m.nBytes, Cells \ {c}) \in Nat
  <2>1. IsFiniteSet(Cells \ {c})
    BY CellsFinite, FS_RemoveElement
  <2> QED BY <1>1, <2>1, BytesOfType
<1> QED BY <1>1, <1>2, <1>3

\* ABM's drain rate and its count of saturated queues only lower a threshold.
LEMMA ThresholdBound ==
    ASSUME NEW m, m.used \in Int, m.used <= MaxBuffer,
           NEW a \in ABMState, NEW q \in SubQueues
    PROVE  /\ QueueThreshold(m, a, q) \in Nat
           /\ QueueThreshold(m, a, q) * AlphaDen
                  <= AlphaNum[q] * (MaxBuffer - m.used)
<1> DEFINE free == MaxBuffer - m.used
           T == SwitchThreshold(m, q)
           r == a.rate[QToP[q]]
           N == NP(a, q)
           Q == QueueThreshold(m, a, q)
<1>1. /\ free \in Nat /\ AlphaNum[q] \in Nat /\ AlphaDen \in Nat \ {0}
      /\ IntervalBytes \in Nat \ {0} /\ QToP[q] \in Priorities
  BY MemoryAssumption DEF Priorities
<1>2. AlphaNum[q] * free \in Nat
  BY <1>1
<1>3. T = (AlphaNum[q] * free) \div AlphaDen
  BY <1>2 DEF SwitchThreshold, Truncated
<1>4. T \in Nat /\ T * AlphaDen <= AlphaNum[q] * free
  <2> HIDE DEF T, free
  <2> QED BY <1>1, <1>2, <1>3, Division
<1>5. r \in Nat /\ r <= IntervalBytes
  BY <1>1 DEF ABMState
<1>6. N \in Nat \ {0}
  BY <1>1 DEF NP, ABMState
<1>7. Q \in Nat /\ Q <= T
  <2>1. CASE EnqueueMethod = "ABM"
    <3>1. Q = Truncated(T * r, IntervalBytes * N)
      BY <2>1 DEF QueueThreshold
    <3> HIDE DEF T, r, N, Q
    <3>2. T * r \in Nat /\ IntervalBytes * N \in Nat \ {0}
      BY <1>1, <1>4, <1>5, <1>6
    <3>3. Q = (T * r) \div (IntervalBytes * N)
      BY <3>1, <3>2 DEF Truncated
    <3>4. Q \in Nat /\ Q * (IntervalBytes * N) <= T * r
      BY <3>2, <3>3, Division
    <3>5. T * r <= T * IntervalBytes
      BY <1>1, <1>4, <1>5
    <3>6. Q * IntervalBytes <= Q * (IntervalBytes * N)
      BY <1>1, <1>6, <3>4
    <3>7. Q * IntervalBytes <= T * IntervalBytes
      BY <3>2, <3>4, <3>5, <3>6, <1>1, <1>4
    <3> QED BY <1>1, <1>4, <3>4, <3>7
  <2>2. CASE EnqueueMethod # "ABM"
    BY <1>4, <2>2 DEF QueueThreshold
  <2> QED BY <2>1, <2>2
<1>8. Q * AlphaDen <= T * AlphaDen
  <2> HIDE DEF Q, T
  <2> QED BY <1>1, <1>4, <1>7
<1> HIDE DEF Q, T, free
<1>9. Q * AlphaDen <= AlphaNum[q] * free
  BY <1>1, <1>2, <1>4, <1>7, <1>8
<1> QED BY <1>7, <1>9 DEF Q, free

LEMMA AcceptedWithinShare ==
    ASSUME NEW m, Sound(m), m.used <= MaxBuffer, NEW a \in ABMState,
           NEW c \in Cells, NEW size \in Sizes,
           EnqueueMethod \in {"DT", "MULTILAYER_DT", "ABM"},
           Accepts(m, a, c, size)
    PROVE  \/ (AlphaDen + AlphaNum[c[2]]) * (m.nBytes[c] + size)
                <= AlphaNum[c[2]] * (MaxBuffer + size)
           \/ EnqueueMethod = "MULTILAYER_DT" /\ m.nBytes[c] = 0
<1> DEFINE n == m.nBytes[c]
           u == m.used
           A == AlphaNum[c[2]]
           D == AlphaDen
           Q == QueueThreshold(m, a, c[2])
<1>1. /\ size \in Nat /\ MaxBuffer \in Nat
      /\ Word \in Nat \ {0} /\ 2 * (MaxBuffer + size) < Word
      /\ A \in Nat /\ D \in Nat \ {0} /\ c[2] \in SubQueues /\ c = <<c[1], c[2]>>
  BY MemoryAssumption, CellParts
<1>2. n \in Nat /\ n <= u /\ u \in Int
  BY QueueBelowUsed DEF Sound, Memory
<1>3. u + size <= MaxBuffer
  BY DEF Accepts, Fits
<1>4. m.static[c] = 0
  BY DEF Sound
<1>5. Q \in Nat /\ Q * D <= A * (MaxBuffer - u)
  BY <1>1, <1>2, ThresholdBound
<1>6. WithinThreshold(m, a, c, size) => n + size <= Q
  <2>1. n + size \in Nat /\ n + size < Word /\ 2 * (n + size) < Word
    <3> HIDE DEF n, u
    <3> QED BY <1>1, <1>2, <1>3
  <2>2. n + size - m.static[c] = n + size
    BY <1>1, <1>2, <1>4
  <2>3. (n + size) % Word = n + size
    <3> HIDE DEF n
    <3> QED BY <1>1, <2>1, Remainder
  <2>4. AsInt((n + size - m.static[c]) % Word) = n + size
    <3> DEFINE w == n + size
    <3>1. AsInt(w) = w
      <4>1. w \in Nat /\ 2 * w < Word
        BY <2>1
      <4> HIDE DEF w
      <4> QED BY <1>1, <4>1 DEF AsInt
    <3> QED BY <2>2, <2>3, <3>1
  <2> QED BY <2>4 DEF WithinThreshold
<1>7. AsInt(SharedBytes(m, c[1], c)) = n
  <2>1. n < Word /\ 2 * n < Word
    <3> HIDE DEF n, u
    <3> QED BY <1>1, <1>2, <1>3
  <2>2. SharedBytes(m, c[1], c) = (n - 0) % Word
    BY <1>1, <1>4 DEF SharedBytes
  <2> HIDE DEF n
  <2>3. n - 0 = n /\ n % Word = n
    BY <1>1, <1>2, <2>1, Remainder
  <2>4. AsInt(n) = n
    BY <1>1, <1>2, <2>1 DEF AsInt
  <2> QED BY <2>2, <2>3, <2>4
<1>8. n + size <= Q \/ (EnqueueMethod = "MULTILAYER_DT" /\ n = 0)
  <2>1. CASE EnqueueMethod \in {"DT", "ABM"}
    BY <1>6, <2>1, Zenon DEF Accepts
  <2>2. CASE EnqueueMethod = "MULTILAYER_DT"
    BY <1>6, <1>7, <2>2, Zenon DEF Accepts
  <2> QED BY <2>1, <2>2
<1>9. CASE n + size <= Q
  <2> HIDE DEF n, u, A, D, Q
  <2>1. (n + size) * D <= Q * D
    BY <1>1, <1>2, <1>5, <1>9
  <2>2. (n + size) * D <= A * (MaxBuffer - u)
    BY <1>1, <1>2, <1>5, <2>1
  <2>3. A * (MaxBuffer - u) + A * (n + size) <= A * (MaxBuffer + size)
    <3>1. A * (MaxBuffer - u) + A * (n + size) = A * ((MaxBuffer - u) + (n + size))
      BY <1>1, <1>2
    <3>2. (MaxBuffer - u) + (n + size) <= MaxBuffer + size
      BY <1>1, <1>2
    <3> QED BY <1>1, <1>2, <3>1, <3>2
  <2>4. (D + A) * (n + size) = (n + size) * D + A * (n + size)
    BY <1>1, <1>2
  <2>5. (D + A) * (n + size) <= A * (MaxBuffer + size)
    BY <1>1, <1>2, <2>2, <2>3, <2>4
  <2> QED BY <2>5 DEF n, A, D
<1> QED BY <1>8, <1>9

LEMMA IsolatesMonotone ==
    ASSUME NEW m, Sound(m), NEW n, Sound(n), Isolates(m),
           \A c \in Cells : n.nBytes[c] <= m.nBytes[c]
    PROVE  Isolates(n)
<1> SUFFICES ASSUME NEW c \in Cells
             PROVE  \E size \in Sizes :
                        \/ (AlphaDen + AlphaNum[c[2]]) * n.nBytes[c]
                              <= AlphaNum[c[2]] * (MaxBuffer + size)
                        \/ EnqueueMethod = "MULTILAYER_DT" /\ n.nBytes[c] <= size
  BY DEF Isolates
<1>1. PICK size \in Sizes :
          \/ (AlphaDen + AlphaNum[c[2]]) * m.nBytes[c]
                <= AlphaNum[c[2]] * (MaxBuffer + size)
          \/ EnqueueMethod = "MULTILAYER_DT" /\ m.nBytes[c] <= size
  BY DEF Isolates
<1> DEFINE k == AlphaDen + AlphaNum[c[2]]
           x == n.nBytes[c]
           y == m.nBytes[c]
           b == AlphaNum[c[2]] * (MaxBuffer + size)
<1>2. k \in Nat /\ x \in Nat /\ y \in Nat /\ x <= y /\ size \in Nat
  <2>1. AlphaNum[c[2]] \in Nat /\ AlphaDen \in Nat
    BY MemoryAssumption, CellParts
  <2>2. x \in Nat /\ y \in Nat /\ x <= y /\ size \in Nat
    BY SizesNat DEF Sound, Memory
  <2> QED BY <2>1, <2>2
<1>3. b \in Nat
  <2>1. AlphaNum[c[2]] \in Nat /\ MaxBuffer + size \in Nat
    BY <1>2, MemoryAssumption, CellParts
  <2> QED BY <2>1
<1> HIDE DEF k, x, y, b
<1>4. k * x <= k * y
  BY <1>2
<1>5. k * y <= b \/ (EnqueueMethod = "MULTILAYER_DT" /\ y <= size)
  BY <1>1 DEF k, y, b
<1>6. k * x <= b \/ (EnqueueMethod = "MULTILAYER_DT" /\ x <= size)
  BY <1>2, <1>3, <1>4, <1>5
<1> QED BY <1>6 DEF k, x, b

\* An accepted packet keeps its own queue within its share.
LEMMA ArrivedIsolates ==
    ASSUME NEW m, Sound(m), m.used <= MaxBuffer, Isolates(m), NEW a \in ABMState,
           NEW c \in Cells, NEW size \in Sizes,
           EnqueueMethod \in {"DT", "MULTILAYER_DT", "ABM"},
           Accepts(m, a, c, size)
    PROVE  Isolates(Arrived(m, c, size, FALSE))
<1> DEFINE n == Arrived(m, c, size, FALSE)
<1>1. \A d \in Cells : n.nBytes[d] = IF d = c THEN m.nBytes[c] + size ELSE m.nBytes[d]
  BY ArrivedBytes
<1>2. size \in Nat
  BY SizesNat
<1> HIDE DEF n
<1>3. SUFFICES ASSUME NEW d \in Cells
               PROVE  \E s \in Sizes :
                        \/ (AlphaDen + AlphaNum[d[2]]) * n.nBytes[d]
                              <= AlphaNum[d[2]] * (MaxBuffer + s)
                        \/ EnqueueMethod = "MULTILAYER_DT" /\ n.nBytes[d] <= s
  BY DEF Isolates, n
<1>4. CASE d = c
  <2>1. n.nBytes[c] = m.nBytes[c] + size
    BY <1>1
  <2>2. \/ (AlphaDen + AlphaNum[c[2]]) * n.nBytes[c]
              <= AlphaNum[c[2]] * (MaxBuffer + size)
        \/ EnqueueMethod = "MULTILAYER_DT" /\ m.nBytes[c] = 0
    BY <2>1, AcceptedWithinShare
  <2>3. m.nBytes[c] = 0 => n.nBytes[c] <= size
    BY <1>2, <2>1
  <2> QED BY <1>4, <2>2, <2>3
<1>5. CASE d # c
  <2>1. n.nBytes[d] = m.nBytes[d]
    BY <1>1, <1>5
  <2> QED BY <2>1 DEF Isolates
<1> QED BY <1>4, <1>5

-----------------------------------------------------------------------------
(* The handlers, without static buffers.                                   *)

\* What TypeOK says of everything but the memory.
Typed ==
    /\ sched \in [Ports -> SchedState]
    /\ tx \in [Ports -> {"READY", "BUSY"}]
    /\ sat \in SaturationState
    /\ abm \in [Ports -> ABMState]
    /\ timer \in BOOLEAN
    /\ push \in Pushes \cup {NoPush}

\* While the loop of AcceptPacket() frees bytes, they are free in the memory.
PushCredited ==
    push # NoPush =>
        EnqueueMethod = "PUSHOUT" /\ mem.used + push.freed <= MaxBuffer

\* The methods that compare a queue with a threshold.
ByThreshold == EnqueueMethod \in {"DT", "MULTILAYER_DT", "ABM"}

IInv ==
    /\ Typed
    /\ Sound(mem)
    /\ Capacity
    /\ PushCredited
    /\ Counted(sat)
    /\ ByThreshold => Isolates(mem)

-----------------------------------------------------------------------------
LEMMA TransmitNextSound ==
    ASSUME sched \in [Ports -> SchedState], tx \in [Ports -> {"READY", "BUSY"}],
           abm \in [Ports -> ABMState],
           NEW p \in Ports, NEW m, Sound(m), NEW a \in ABMState,
           TransmitNext(p, m, a)
    PROVE  /\ Sound(mem')
           /\ mem'.used <= m.used
           /\ \A d \in Cells : mem'.nBytes[d] <= m.nBytes[d]
           /\ sched' \in [Ports -> SchedState]
           /\ tx' \in [Ports -> {"READY", "BUSY"}]
           /\ abm' \in [Ports -> ABMState]
<1> DEFINE n == DropChecked(m, a, p)
           B == Backlog(n, p)
           C == Choice(DequeueType[p], sched[p], B)
           Idle == /\ C = {}
                   /\ mem' = n
                   /\ sched' = [sched EXCEPT ![p] = Served(DequeueType[p], @, B, C, 0)]
                   /\ tx' = [tx EXCEPT ![p] = "READY"]
                   /\ abm' = [abm EXCEPT ![p] = a]
           Busy == \E q \in C : \E size \in {Head(n.queue[<<p, q>>])} :
                   /\ mem' = Departed(n, <<p, q>>)
                   /\ sched' = [sched EXCEPT ![p] = Served(DequeueType[p], @, B, C, size)]
                   /\ tx' = [tx EXCEPT ![p] = "BUSY"]
                   /\ abm' = [abm EXCEPT ![p] = SentBytes(a, q, size)]
<1>1. /\ Sound(n) /\ n.used <= m.used
      /\ \A d \in Cells : n.nBytes[d] <= m.nBytes[d]
  BY DropCheckedSound
<1>2. m.used \in Int /\ n.used \in Int /\ m.nBytes \in [Cells -> Nat] /\ n.nBytes \in [Cells -> Nat]
  BY <1>1 DEF Sound, Memory
<1>3. C \in SUBSET UsedQueues /\ C \subseteq B
  BY ChoiceBacklogged, MemoryAssumption DEF Backlog
<1>4. CASE Idle
  <2>1. Served(DequeueType[p], sched[p], B, C, 0) \in SchedState
    BY <1>3, ServedType
  <2> HIDE DEF n, B, C
  <2> QED BY <1>1, <1>4, <2>1
<1>5. ASSUME NEW q \in C, NEW size \in {Head(n.queue[<<p, q>>])},
             /\ mem' = Departed(n, <<p, q>>)
             /\ sched' = [sched EXCEPT ![p] = Served(DequeueType[p], @, B, C, size)]
             /\ tx' = [tx EXCEPT ![p] = "BUSY"]
             /\ abm' = [abm EXCEPT ![p] = SentBytes(a, q, size)]
      PROVE  /\ Sound(mem') /\ mem'.used <= n.used
             /\ \A d \in Cells : mem'.nBytes[d] <= n.nBytes[d]
             /\ sched' \in [Ports -> SchedState]
             /\ tx' \in [Ports -> {"READY", "BUSY"}]
             /\ abm' \in [Ports -> ABMState]
  <2>1. q \in SubQueues /\ <<p, q>> \in Cells /\ n.queue[<<p, q>>] # <<>>
    BY <1>3, UsedQueuesAreSubQueues DEF Backlog, Cells
  <2>2. size \in Nat /\ size \in Sizes
    <3> HIDE DEF n
    <3>1. Head(n.queue[<<p, q>>]) \in Sizes
      BY <1>1, <2>1, PushedOutSound
    <3> QED BY <3>1, SizesNat
  <2>3. Served(DequeueType[p], sched[p], B, C, size) \in SchedState
    BY <1>3, <2>2, ServedType
  <2>4. SentBytes(a, q, size) \in ABMState
    <3>1. QToP[q] \in Priorities /\ a.bytes \in [Priorities -> Nat]
      BY <2>1, MemoryAssumption DEF Priorities, ABMState
    <3>2. a.bytes[QToP[q]] + size \in Nat
      BY <2>2, <3>1
    <3> QED BY <3>1, <3>2 DEF SentBytes, ABMState
  <2>5. /\ Sound(Departed(n, <<p, q>>)) /\ Departed(n, <<p, q>>).used <= n.used
        /\ \A d \in Cells : Departed(n, <<p, q>>).nBytes[d] <= n.nBytes[d]
    BY <1>1, <2>1, DepartedSound
  <2> HIDE DEF n, B, C
  <2> QED BY <1>5, <2>3, <2>4, <2>5
<1>6. CASE Busy
  <2>1. /\ Sound(mem') /\ mem'.used <= n.used
        /\ \A d \in Cells : mem'.nBytes[d] <= n.nBytes[d]
        /\ sched' \in [Ports -> SchedState]
        /\ tx' \in [Ports -> {"READY", "BUSY"}]
        /\ abm' \in [Ports -> ABMState]
    BY <1>5, <1>6
  <2>2. mem'.used \in Int /\ mem'.nBytes \in [Cells -> Nat]
    BY <2>1 DEF Sound, Memory
  <2> HIDE DEF n
  <2> QED BY <1>1, <1>2, <2>1, <2>2
<1>7. Idle \/ Busy
  <2> HIDE DEF n, C
  <2>1. Serve(p, n, C, a)
    BY DEF TransmitNext, n, C
  <2> QED BY <2>1 DEF Serve
<1> HIDE DEF Idle, Busy
<1> QED BY <1>4, <1>6, <1>7

\* SendSwitch() after AcceptPacket(), for a packet that is charged to the MMU.
LEMMA AdmitSound ==
    ASSUME sched \in [Ports -> SchedState], tx \in [Ports -> {"READY", "BUSY"}],
           abm \in [Ports -> ABMState],
           NEW m, Sound(m), NEW a \in ABMState, NEW c \in Cells, NEW size \in Sizes,
           Admit(m, a, c, size, FALSE)
    PROVE  /\ Sound(mem')
           /\ mem'.used <= m.used + size
           /\ \/ mem' = m
              \/ \A d \in Cells : mem'.nBytes[d] <= Arrived(m, c, size, FALSE).nBytes[d]
           /\ sched' \in [Ports -> SchedState]
           /\ tx' \in [Ports -> {"READY", "BUSY"}]
           /\ abm' \in [Ports -> ABMState]
<1> DEFINE n == Arrived(m, c, size, FALSE)
<1>1. /\ Sound(n) /\ n.used = m.used + size
      /\ c[1] \in Ports /\ size \in Nat /\ m.used \in Int
  <2>1. Sound(n) /\ n.used = m.used + size
    BY ArrivedSound
  <2>2. c[1] \in Ports /\ size \in Nat
    BY CellParts, SizesNat
  <2>3. m.used \in Int
    BY DEF Sound, Memory
  <2> QED BY <2>1, <2>2, <2>3
<1>2. n.nBytes \in [Cells -> Nat]
  BY <1>1 DEF Sound, Memory
<1> HIDE DEF n
<1>3. CASE c[2] \notin UsedQueues
  <2>1. mem' = m /\ abm' = [abm EXCEPT ![c[1]] = a] /\ UNCHANGED <<sched, tx>>
    BY <1>3 DEF Admit
  <2> QED BY <1>1, <2>1
<1>4. CASE c[2] \in UsedQueues /\ tx[c[1]] = "BUSY"
  <2>1. mem' = n /\ abm' = [abm EXCEPT ![c[1]] = a] /\ UNCHANGED <<sched, tx>>
    BY <1>4 DEF Admit, n
  <2>2. \A d \in Cells : mem'.nBytes[d] <= n.nBytes[d]
    BY <1>2, <2>1
  <2>3. Sound(mem') /\ mem'.used <= m.used + size
    BY <1>1, <2>1
  <2>4. /\ sched' \in [Ports -> SchedState] /\ tx' \in [Ports -> {"READY", "BUSY"}]
        /\ abm' \in [Ports -> ABMState]
    BY <2>1
  <2> QED BY <2>2, <2>3, <2>4 DEF n
<1>5. CASE c[2] \in UsedQueues /\ tx[c[1]] = "READY"
  <2>1. TransmitNext(c[1], n, a)
    BY <1>5 DEF Admit, n
  <2> QED BY <1>1, <2>1, TransmitNextSound DEF n
<1> QED BY <1>3, <1>4, <1>5, <1>1

LEMMA UpdatedType ==
    ASSUME NEW a \in ABMState, sat \in SaturationState
    PROVE  Updated(a, sat.N) \in ABMState
<1>1. \A sent \in Nat : Rate(sent) \in 1 .. IntervalBytes
  BY MemoryAssumption DEF Rate
<1>2. sat.N \in [Priorities -> Int] /\ a.bytes \in [Priorities -> Nat]
  BY DEF SaturationState, ABMState
<1>3. [pr \in Priorities |-> Rate(a.bytes[pr])] \in [Priorities -> 1 .. IntervalBytes]
  BY <1>1, <1>2
<1> QED BY <1>2, <1>3 DEF Updated, ABMState

\* With no static buffer no packet finds room in it.
LEMMA NoStaticRoom ==
    ASSUME StaticBuffer = 0, Sound(mem), NEW c \in Cells, NEW size \in Sizes
    PROVE  ~HasStaticRoom(mem, c, size)
<1>1. size \in Nat /\ size > 0 /\ Word \in Nat \ {0} /\ size < Word
  BY SizesNat, MemoryAssumption
<1>2. mem.static[c] + size = size
  BY <1>1 DEF Sound
<1>3. size % Word = size
  BY <1>1, Remainder
<1> QED BY <1>1, <1>2, <1>3 DEF HasStaticRoom

LEMMA InitIInv == Init => IInv
<1> SUFFICES ASSUME Init PROVE IInv
  OBVIOUS
<1>1. Sound(mem)
  BY EmptySound DEF Init
<1>2. mem.used = 0 /\ mem.nBytes = [c \in Cells |-> 0]
  BY DEF Init, EmptyMemory
<1>3. Typed
  <2>1. sched \in [Ports -> SchedState] /\ tx \in [Ports -> {"READY", "BUSY"}]
    BY InitSchedType DEF Init
  <2>2. sat \in SaturationState
    <3>1. [pr \in Priorities |-> 0] \in [Priorities -> Int]
      OBVIOUS
    <3>2. [c \in Cells |-> FALSE] \in [Cells -> BOOLEAN]
      OBVIOUS
    <3>3. sat = [saturated |-> [c \in Cells |-> FALSE], N |-> [pr \in Priorities |-> 0]]
      BY DEF Init
    <3> QED BY <3>1, <3>2, <3>3 DEF SaturationState
  <2>4. timer \in BOOLEAN /\ push \in Pushes \cup {NoPush}
    BY DEF Init
  <2>3. abm \in [Ports -> ABMState]
    <3>1. \A g \in Garbage : g \in Nat
      BY MemoryAssumption DEF Garbage
    <3>2. IntervalBytes \in 1 .. IntervalBytes
      BY MemoryAssumption
    <3> QED BY <3>1, <3>2 DEF Init, ABMState
  <2> QED BY <2>1, <2>2, <2>3, <2>4 DEF Typed
<1>4. Capacity /\ PushCredited
  BY <1>2, MemoryAssumption DEF Init, Capacity, PushCredited
<1>5. Counted(sat)
  <2> SUFFICES ASSUME NEW pr \in Priorities
               PROVE  sat.N[pr] = Cardinality({c \in CellsOf(pr) : sat.saturated[c]})
    BY DEF Counted
  <2>1. {c \in CellsOf(pr) : sat.saturated[c]} = {}
    BY DEF Init, CellsOf
  <2>2. sat.N[pr] = 0
    BY DEF Init
  <2> QED BY <2>1, <2>2, FS_EmptySet
<1>6. Isolates(mem)
  <2> SUFFICES ASSUME NEW c \in Cells
               PROVE  \E size \in Sizes :
                        (AlphaDen + AlphaNum[c[2]]) * mem.nBytes[c]
                           <= AlphaNum[c[2]] * (MaxBuffer + size)
    BY DEF Isolates
  <2>1. PICK size \in Sizes : TRUE
    BY MemoryAssumption
  <2>2. AlphaNum[c[2]] \in Nat /\ AlphaDen \in Nat /\ MaxBuffer + size \in Nat
    BY MemoryAssumption, CellParts, SizesNat, SMTT(30)
  <2>3. AlphaNum[c[2]] * (MaxBuffer + size) \in Nat
    BY <2>2
  <2>4. (AlphaDen + AlphaNum[c[2]]) * mem.nBytes[c] = 0
    BY <1>2, <2>2
  <2> QED BY <2>3, <2>4
<1> QED BY <1>1, <1>3, <1>4, <1>5, <1>6 DEF IInv

-----------------------------------------------------------------------------
(* One lemma per action: the step keeps IInv.                              *)

LEMMA SendSharedKeeps ==
    ASSUME IInv, NEW c \in Cells, NEW size \in Sizes, SendShared(c, size)
    PROVE  IInv'
<1> DEFINE m == TokensStarted
           a == UpdatesStarted(c[1])
<1>1. /\ Sound(mem) /\ Capacity /\ Counted(sat) /\ (ByThreshold => Isolates(mem))
      /\ sched \in [Ports -> SchedState] /\ tx \in [Ports -> {"READY", "BUSY"}]
      /\ sat \in SaturationState /\ abm \in [Ports -> ABMState] /\ timer \in BOOLEAN
  BY DEF IInv, Typed
<1>2. c[1] \in Ports /\ size \in Nat /\ mem.used \in Int /\ MaxBuffer \in Nat
  <2>1. c[1] \in Ports /\ size \in Nat /\ MaxBuffer \in Nat
    BY CellParts, SizesNat, MemoryAssumption
  <2> QED BY <1>1, <2>1 DEF Sound, Memory
<1>3. Sound(m) /\ m.used = mem.used /\ m.nBytes = mem.nBytes
  BY <1>1, TokenAddedSound DEF TokensStarted
<1>4. a \in ABMState
  BY <1>1, <1>2, UpdatedType DEF UpdatesStarted
<1>5. push = NoPush /\ push' = NoPush
  BY DEF SendShared, Arrival
<1>6. sat' \in SaturationState /\ Counted(sat')
  <2>1. Saturates(mem, a, c) \in BOOLEAN
    BY DEF Saturates
  <2>2. sat' = SaturationChecked(a, c)
    BY DEF SendShared
  <2> HIDE DEF a
  <2> QED BY <1>1, <2>1, <2>2, SetSaturatedCounts DEF SaturationChecked
<1>7. timer' \in BOOLEAN
  BY <1>1 DEF SendShared, TimerStarted
<1>8. CASE Accepts(m, a, c, size) /\ Admit(m, a, c, size, FALSE)
  <2> HIDE DEF m, a
  <2>1. /\ Sound(mem') /\ mem'.used <= m.used + size
        /\ \/ mem' = m
           \/ \A d \in Cells : mem'.nBytes[d] <= Arrived(m, c, size, FALSE).nBytes[d]
        /\ sched' \in [Ports -> SchedState] /\ tx' \in [Ports -> {"READY", "BUSY"}]
        /\ abm' \in [Ports -> ABMState]
    BY <1>1, <1>3, <1>4, <1>8, AdmitSound
  <2>2. mem'.used <= MaxBuffer
    <3>1. m.used + size <= MaxBuffer
      BY <1>8 DEF Accepts, Fits
    <3>2. mem'.used \in Int
      BY <2>1 DEF Sound, Memory
    <3> QED BY <1>2, <1>3, <2>1, <3>1, <3>2
  <2>3. ASSUME ByThreshold PROVE Isolates(mem')
    <3>1. Isolates(m)
      BY <1>1, <1>3, <2>3 DEF Isolates
    <3>2. m.used <= MaxBuffer
      BY <1>1, <1>3 DEF Capacity
    <3>3. Isolates(Arrived(m, c, size, FALSE))
      BY <1>3, <1>4, <1>8, <2>3, <3>1, <3>2, ArrivedIsolates DEF ByThreshold
    <3>4. Sound(Arrived(m, c, size, FALSE))
      BY <1>3, ArrivedSound
    <3> QED BY <2>1, <3>1, <3>3, <3>4, IsolatesMonotone
  <2> QED BY <1>5, <1>6, <1>7, <2>1, <2>2, <2>3 DEF IInv, Typed, Capacity, PushCredited
<1>9. CASE /\ mem' = m /\ abm' = [abm EXCEPT ![c[1]] = a]
           /\ UNCHANGED <<sched, tx>>
  <2> HIDE DEF m, a
  <2>1. Sound(mem') /\ mem'.used <= MaxBuffer /\ (ByThreshold => Isolates(mem'))
    BY <1>1, <1>3, <1>9 DEF Isolates, Capacity
  <2>2. abm' \in [Ports -> ABMState] /\ sched' \in [Ports -> SchedState]
        /\ tx' \in [Ports -> {"READY", "BUSY"}]
    BY <1>1, <1>4, <1>9
  <2> QED BY <1>5, <1>6, <1>7, <2>1, <2>2 DEF IInv, Typed, Capacity, PushCredited
<1> QED BY <1>8, <1>9 DEF SendShared

LEMMA SendPushingKeeps ==
    ASSUME IInv, NEW c \in Cells, NEW size \in Sizes, SendPushing(c, size)
    PROVE  IInv'
<1>1. /\ UNCHANGED <<mem, sched, tx, sat, abm, timer>> /\ EnqueueMethod = "PUSHOUT"
      /\ push' = [cell |-> c, size |-> size, freed |-> 0]
  BY DEF SendPushing
<1>2. push' \in Pushes
  BY <1>1 DEF Pushes
<1>3. mem.used + 0 <= MaxBuffer
  BY DEF IInv, Capacity, Sound, Memory
<1> QED BY <1>1, <1>2, <1>3 DEF IInv, Typed, Capacity, PushCredited

LEMMA PushOutPacketKeeps ==
    ASSUME IInv, PushOutPacket
    PROVE  IInv'
<1>1. /\ push # NoPush /\ push \in Pushes /\ EnqueueMethod = "PUSHOUT"
      /\ mem.used + push.freed <= MaxBuffer /\ Sound(mem)
  BY DEF IInv, Typed, PushCredited, PushOutPacket
<1>2. PICK c \in PushOutVictim(mem, push.cell[1], push.cell[2]) :
         /\ mem' = PushedOut(mem, c)
         /\ push' = [push EXCEPT !.freed = @ + Head(mem.queue[c])]
  BY DEF PushOutPacket
<1>3. c \in Cells /\ mem.nBytes[c] > StaticBuffer
  BY <1>2 DEF PushOutVictim, Longest
<1>4. mem.queue[c] # <<>>
  <2>1. mem.nBytes[c] \in Nat /\ StaticBuffer \in Nat
    BY <1>1, <1>3, MemoryAssumption DEF Sound, Memory
  <2> QED BY <1>1, <1>3, <2>1, EmptyQueueHoldsNothing
<1> DEFINE size == Head(mem.queue[c])
<1>5. Sound(mem') /\ mem'.used = mem.used - size /\ size \in Sizes
  BY <1>1, <1>2, <1>3, <1>4, PushedOutSound
<1>6. size \in Nat /\ push.freed \in Nat /\ mem.used \in Int /\ MaxBuffer \in Int
  <2>1. size \in Nat /\ MaxBuffer \in Int
    <3> HIDE DEF size
    <3>1. size \in Sizes
      BY <1>5
    <3> QED BY <3>1, SizesNat, MemoryAssumption
  <2>2. push.freed \in Nat
    BY <1>1 DEF Pushes
  <2>3. mem.used \in Int
    BY <1>1 DEF Sound, Memory
  <2> QED BY <2>1, <2>2, <2>3
<1>7. push' = [push EXCEPT !.freed = push.freed + size]
  BY <1>2
<1> HIDE DEF size
<1>8. push' \in Pushes /\ push'.freed = push.freed + size
  BY <1>1, <1>6, <1>7 DEF Pushes
<1>9. mem'.used + push'.freed <= MaxBuffer /\ mem'.used <= MaxBuffer
  BY <1>1, <1>5, <1>6, <1>8
<1>10. UNCHANGED <<sched, tx, sat, abm, timer>>
  BY DEF PushOutPacket
<1>11. ~ByThreshold
  BY <1>1 DEF ByThreshold
<1> QED BY <1>1, <1>5, <1>8, <1>9, <1>10, <1>11 DEF IInv, Typed, Capacity, PushCredited

LEMMA PushOutFailedKeeps ==
    ASSUME IInv, PushOutFailed
    PROVE  IInv'
<1>1. UNCHANGED <<mem, sched, tx, sat, abm, timer>> /\ push' = NoPush
  BY DEF PushOutFailed
<1> QED BY <1>1 DEF IInv, Typed, Capacity, PushCredited

LEMMA PushOutDoneKeeps ==
    ASSUME IInv, PushOutDone
    PROVE  IInv'
<1> DEFINE c == push.cell
           size == push.size
<1>1. /\ push \in Pushes /\ EnqueueMethod = "PUSHOUT" /\ Sound(mem)
      /\ mem.used + push.freed <= MaxBuffer /\ push.freed >= size
  BY DEF IInv, Typed, PushCredited, PushOutDone
<1>2. /\ c \in Cells /\ size \in Sizes /\ size \in Nat /\ c[1] \in Ports
      /\ push.freed \in Nat
  <2>1. c \in Cells /\ size \in Sizes /\ push.freed \in Nat
    BY <1>1 DEF Pushes
  <2> HIDE DEF c, size
  <2> QED BY <2>1, CellParts, SizesNat
<1>3. /\ sched \in [Ports -> SchedState] /\ tx \in [Ports -> {"READY", "BUSY"}]
      /\ abm \in [Ports -> ABMState] /\ abm[c[1]] \in ABMState
  BY <1>2 DEF IInv, Typed
<1>4. Admit(mem, abm[c[1]], c, size, FALSE) /\ push' = NoPush /\ UNCHANGED <<sat, timer>>
  BY DEF PushOutDone
<1> HIDE DEF c, size
<1>5. /\ Sound(mem') /\ mem'.used <= mem.used + size
      /\ sched' \in [Ports -> SchedState] /\ tx' \in [Ports -> {"READY", "BUSY"}]
      /\ abm' \in [Ports -> ABMState]
  BY <1>1, <1>2, <1>3, <1>4, AdmitSound
<1>6. mem'.used <= MaxBuffer
  <2>1. mem.used \in Int /\ mem'.used \in Int /\ MaxBuffer \in Int
    BY <1>1, <1>5, MemoryAssumption DEF Sound, Memory
  <2> QED BY <1>1, <1>2, <1>5, <2>1
<1>7. ~ByThreshold
  BY <1>1 DEF ByThreshold
<1> QED BY <1>4, <1>5, <1>6, <1>7 DEF IInv, Typed, Capacity, PushCredited

LEMMA TransmitCompleteKeeps ==
    ASSUME IInv, NEW p \in Ports, TransmitComplete(p)
    PROVE  IInv'
<1>1. /\ Sound(mem) /\ Capacity /\ Counted(sat) /\ (ByThreshold => Isolates(mem))
      /\ sched \in [Ports -> SchedState] /\ tx \in [Ports -> {"READY", "BUSY"}]
      /\ sat \in SaturationState /\ abm \in [Ports -> ABMState] /\ timer \in BOOLEAN
      /\ abm[p] \in ABMState
  BY DEF IInv, Typed
<1>2. /\ TransmitNext(p, mem, abm[p]) /\ push = NoPush
      /\ UNCHANGED <<timer, push>>
  BY DEF TransmitComplete
<1>3. /\ Sound(mem') /\ mem'.used <= mem.used
      /\ \A d \in Cells : mem'.nBytes[d] <= mem.nBytes[d]
      /\ sched' \in [Ports -> SchedState] /\ tx' \in [Ports -> {"READY", "BUSY"}]
      /\ abm' \in [Ports -> ABMState]
  BY <1>1, <1>2, TransmitNextSound
<1>4. mem'.used <= MaxBuffer
  <2>1. mem.used \in Int /\ mem'.used \in Int /\ MaxBuffer \in Int
    BY <1>1, <1>3, MemoryAssumption DEF Sound, Memory
  <2> QED BY <1>1, <1>3, <2>1 DEF Capacity
<1>5. ByThreshold => Isolates(mem')
  BY <1>1, <1>3, IsolatesMonotone
<1>6. sat' \in SaturationState /\ Counted(sat')
  <2> DEFINE c == <<p, sched'[p].deindex>>
  <2>1. sat' = IF tx'[p] = "BUSY"
               THEN SetSaturated(sat, c, Saturates(mem', abm[p], c)) ELSE sat
    BY DEF TransmitComplete
  <2>2. c \in Cells
    BY <1>3 DEF Cells, SchedState
  <2>3. Saturates(mem', abm[p], c) \in BOOLEAN
    BY DEF Saturates
  <2> HIDE DEF c
  <2> QED BY <1>1, <2>1, <2>2, <2>3, SetSaturatedCounts
<1> QED BY <1>1, <1>2, <1>3, <1>4, <1>5, <1>6 DEF IInv, Typed, Capacity, PushCredited

LEMMA TokenAddKeeps ==
    ASSUME IInv, TokenAdd
    PROVE  IInv'
<1>1. /\ mem' = TokenAdded(mem) /\ timer' \in BOOLEAN /\ push = NoPush
      /\ UNCHANGED <<sched, tx, sat, abm, push>>
  BY DEF TokenAdd
<1>2. Sound(mem') /\ mem'.used = mem.used /\ mem'.nBytes = mem.nBytes
  BY <1>1, TokenAddedSound DEF IInv
<1>3. Isolates(mem) => Isolates(mem')
  BY <1>2 DEF Isolates
<1> QED BY <1>1, <1>2, <1>3 DEF IInv, Typed, Capacity, PushCredited

LEMMA InvokeUpdatesKeeps ==
    ASSUME IInv, NEW p \in Ports, InvokeUpdates(p)
    PROVE  IInv'
<1>1. /\ abm' = [abm EXCEPT ![p] = Updated(abm[p], sat.N)]
      /\ UNCHANGED <<mem, sched, tx, sat, timer, push>>
  BY DEF InvokeUpdates
<1>2. abm \in [Ports -> ABMState] /\ sat \in SaturationState
  BY DEF IInv, Typed
<1>3. Updated(abm[p], sat.N) \in ABMState
  BY <1>2, UpdatedType
<1>4. abm' \in [Ports -> ABMState]
  BY <1>1, <1>2, <1>3
<1> QED BY <1>1, <1>4 DEF IInv, Typed, Capacity, PushCredited

LEMMA NextIInv ==
    ASSUME StaticBuffer = 0, IInv, [Next]_vars
    PROVE  IInv'
<1>1. ASSUME NEW c \in Cells, NEW size \in Sizes, SendStatic(c, size)
      PROVE  IInv'
  <2>1. Sound(mem) /\ HasStaticRoom(mem, c, size)
    BY <1>1 DEF IInv, SendStatic
  <2> QED BY <2>1, NoStaticRoom
<1>2. CASE UNCHANGED vars
  BY <1>2 DEF vars, IInv, Typed, Capacity, PushCredited
<1> QED BY <1>1, <1>2, SendSharedKeeps, SendPushingKeeps, PushOutPacketKeeps,
           PushOutFailedKeeps, PushOutDoneKeeps, TransmitCompleteKeeps,
           TokenAddKeeps, InvokeUpdatesKeeps DEF Next, Send, PushOut

-----------------------------------------------------------------------------
(* The theorems.  A switch without private static buffers, for any number  *)
(* of ports, sub-queues and priorities, any buffer, thresholds and tokens, *)
(* every admission method and every dequeue discipline.                    *)

LEMMA Invariance == ASSUME StaticBuffer = 0 PROVE Spec => []IInv
<1>1. Init => IInv
  BY InitIInv
<1>2. IInv /\ [Next]_vars => IInv'
  BY NextIInv
<1> QED BY <1>1, <1>2, PTL DEF Spec

LEMMA Consequences ==
    ASSUME IInv
    PROVE  TypeOK /\ Accounting /\ Capacity /\ SaturatedCounted
             /\ (ByThreshold => Isolated)
  BY DEF IInv, Typed, Sound, TypeOK, Accounting, SaturatedCounted, Isolated

\* m_usedBuffer and pUsedBuffer always equal the bytes in the sub-queues:
\* no path through AddUsed() and DeleteUsed() loses or invents one.
THEOREM AccountingCorrect == ASSUME StaticBuffer = 0 PROVE Spec => []Accounting
<1>1. IInv => Accounting
  BY Consequences
<1> QED BY <1>1, Invariance, PTL

\* The shared buffer is never overcommitted, whatever AcceptPacket() admits
\* and however many packets its push-out loop evicts.
THEOREM CapacityCorrect == ASSUME StaticBuffer = 0 PROVE Spec => []Capacity
<1>1. IInv => Capacity
  BY Consequences
<1> QED BY <1>1, Invariance, PTL

\* With a threshold method no queue ever takes more than its share
\* alpha / (1 + alpha) of the buffer plus a packet, for every alpha.
THEOREM IsolatedCorrect ==
    ASSUME StaticBuffer = 0, ByThreshold PROVE Spec => []Isolated
<1>1. ByThreshold /\ IInv => Isolated
  BY Consequences
<1> QED BY <1>1, Invariance, PTL

-----------------------------------------------------------------------------
(* Cells with a private static buffer, of any size.  A departure may be    *)
(* credited to another counter than the arrival was charged to, and one of *)
(* them wraps around: what is kept is the sum of all the counters, modulo  *)
(* Word (Balanced), and that every sub-queue knows its own bytes.          *)

Owed(m) == m.used + BytesOf(m.static, Cells) - BytesOf(m.nBytes, Cells)

Balanced(m) == \E k \in Int : Owed(m) = Word * k

Kept(m) ==
    /\ m \in Memory
    /\ m.token <= MaxToken
    /\ \A c \in Cells : m.nBytes[c] = BytesOf(m.queue[c], DOMAIN m.queue[c])
    /\ Balanced(m)

StaticInv == Typed /\ Kept(mem) /\ Counted(sat)

LEMMA TotalsNat ==
    ASSUME NEW m \in Memory
    PROVE  /\ BytesOf(m.static, Cells) \in Nat
           /\ BytesOf(m.nBytes, Cells) \in Nat
           /\ m.used \in Int
<1>1. m.static \in [Cells -> Nat] /\ m.nBytes \in [Cells -> Nat] /\ m.used \in Int
  BY DEF Memory
<1> QED BY <1>1, CellsFinite, BytesOfType

\* How a change of one entry changes the total over all cells.
LEMMA TotalUpdate ==
    ASSUME NEW f \in [Cells -> Nat], NEW c \in Cells, NEW v \in Nat
    PROVE  BytesOf([f EXCEPT ![c] = v], Cells) = BytesOf(f, Cells) + v - f[c]
  BY CellsFinite, BytesOfUpdate

\* What a balance may be changed by: the same on both sides, or Word.
LEMMA BalanceMoves ==
    ASSUME NEW m, Balanced(m), NEW n, NEW j \in Int, m \in Memory,
           Owed(n) = Owed(m) + Word * j
    PROVE  Balanced(n)
<1>1. PICK k \in Int : Owed(m) = Word * k
  BY DEF Balanced
<1>2. Word \in Nat /\ k + j \in Int
  BY MemoryAssumption
<1>3. Owed(n) = Word * (k + j)
  <2>1. Word * (k + j) = Word * k + Word * j
    BY <1>2
  <2> QED BY <1>1, <2>1
<1> QED BY <1>2, <1>3 DEF Balanced

LEMMA BalanceStays ==
    ASSUME NEW m, Balanced(m), NEW n, Owed(n) = Owed(m)
    PROVE  Balanced(n)
  BY DEF Balanced

LEMMA WordDivides ==
    ASSUME NEW a \in Int
    PROVE  /\ a % Word \in Nat
           /\ \E j \in Int : a % Word = a + Word * j
<1> DEFINE d == a \div Word
           r == a % Word
<1>1. Word \in Nat \ {0}
  BY MemoryAssumption
<1>2. d \in Int /\ r \in 0 .. Word - 1 /\ a = Word * d + r
  BY <1>1, RemainderRange
<1> HIDE DEF d, r
<1>3. r = a + Word * (-d) /\ -d \in Int
  <2>1. Word * (-d) = -(Word * d) /\ Word * d \in Int
    BY <1>1, <1>2
  <2> QED BY <1>1, <1>2, <2>1
<1>4. \E j \in Int : r = a + Word * j
  BY <1>3
<1>5. r \in Nat
  BY <1>1, <1>2
<1> QED BY <1>4, <1>5 DEF r

LEMMA PushedKept ==
    ASSUME NEW m, Kept(m), NEW c \in Cells, NEW size \in Sizes
    PROVE  LET n == Pushed(m, c, size)
           IN  /\ n \in Memory /\ n.token <= MaxToken
               /\ \A d \in Cells : n.nBytes[d] = BytesOf(n.queue[d], DOMAIN n.queue[d])
               /\ n.used = m.used /\ n.static = m.static
               /\ Owed(n) = Owed(m) - size
<1> DEFINE n == Pushed(m, c, size)
           v == m.nBytes[c] + size
<1>1. m \in Memory /\ size \in Nat /\ m.token <= MaxToken
  BY SizesNat DEF Kept
<1>2. m.nBytes \in [Cells -> Nat] /\ v \in Nat /\ m.queue[c] \in Seq(Sizes) /\ m.used \in Int
  BY <1>1 DEF Memory
<1>3. Append(m.queue[c], size) \in Seq(Sizes)
  BY <1>2
<1>4. /\ n.queue = [m.queue EXCEPT ![c] = Append(m.queue[c], size)]
      /\ n.nBytes = [m.nBytes EXCEPT ![c] = v]
      /\ n.used = m.used /\ n.static = m.static /\ n.token = m.token
      /\ n \in Memory
  BY <1>1, <1>2, <1>3 DEF Pushed, Memory
<1> HIDE DEF n, v
<1>5. ASSUME NEW d \in Cells PROVE n.nBytes[d] = BytesOf(n.queue[d], DOMAIN n.queue[d])
  <2>1. m.nBytes[d] = BytesOf(m.queue[d], DOMAIN m.queue[d]) /\ m.queue[d] \in Seq(Nat)
    BY <1>1, SizesNat DEF Kept, Memory
  <2>2. CASE d = c
    <3>1. n.queue[d] = Append(m.queue[d], size) /\ n.nBytes[d] = m.nBytes[d] + size
      BY <1>1, <1>4, <2>2 DEF Memory, v
    <3> QED BY <1>1, <2>1, <3>1, BytesOfAppend
  <2>3. CASE d # c
    BY <1>1, <1>4, <2>1, <2>3 DEF Memory
  <2> QED BY <2>2, <2>3
<1>6. BytesOf(n.nBytes, Cells) = BytesOf(m.nBytes, Cells) + v - m.nBytes[c]
  BY <1>2, <1>4, TotalUpdate
<1>7. Owed(n) = Owed(m) - size
  <2>1. m.nBytes[c] \in Nat /\ v = m.nBytes[c] + size
    BY <1>2 DEF v
  <2>2. /\ BytesOf(m.static, Cells) \in Nat /\ BytesOf(m.nBytes, Cells) \in Nat
        /\ m.used \in Int
    BY <1>1, TotalsNat
  <2>3. BytesOf(n.static, Cells) = BytesOf(m.static, Cells) /\ n.used = m.used
    BY <1>4
  <2> QED BY <1>1, <1>6, <2>1, <2>2, <2>3 DEF Owed
<1> QED BY <1>1, <1>4, <1>5, <1>7 DEF n

LEMMA PoppedKept ==
    ASSUME NEW m, Kept(m), NEW c \in Cells, m.queue[c] # <<>>
    PROVE  LET n == Popped(m, c)
               size == Head(m.queue[c])
           IN  /\ n \in Memory /\ n.token <= MaxToken /\ size \in Sizes
               /\ \A d \in Cells : n.nBytes[d] = BytesOf(n.queue[d], DOMAIN n.queue[d])
               /\ n.used = m.used /\ n.static = m.static
               /\ Owed(n) = Owed(m) + size
<1> DEFINE n == Popped(m, c)
           size == Head(m.queue[c])
           v == m.nBytes[c] - size
<1>1. m \in Memory /\ m.token <= MaxToken
  BY DEF Kept
<1>2. m.nBytes \in [Cells -> Nat] /\ m.queue[c] \in Seq(Sizes) /\ m.used \in Int
  BY <1>1 DEF Memory
<1>3. size \in Sizes /\ size \in Nat /\ Tail(m.queue[c]) \in Seq(Sizes)
  BY <1>2, SizesNat, HeadTailProperties
<1>4. /\ m.nBytes[c] = BytesOf(m.queue[c], DOMAIN m.queue[c])
      /\ BytesOf(Tail(m.queue[c]), DOMAIN Tail(m.queue[c])) = v
      /\ m.nBytes[c] >= size
  <2>1. m.queue[c] \in Seq(Nat) /\ m.nBytes[c] = BytesOf(m.queue[c], DOMAIN m.queue[c])
    BY <1>2, SizesNat DEF Kept
  <2> QED BY <2>1, BytesOfTail
<1>5. v \in Nat
  <2>1. m.nBytes[c] \in Nat
    BY <1>2
  <2> HIDE DEF size
  <2> QED BY <1>3, <1>4, <2>1
<1>6. /\ n.queue = [m.queue EXCEPT ![c] = Tail(m.queue[c])]
      /\ n.nBytes = [m.nBytes EXCEPT ![c] = v]
      /\ n.used = m.used /\ n.static = m.static /\ n.token = m.token
      /\ n \in Memory
  BY <1>1, <1>2, <1>3, <1>5 DEF Popped, Memory
<1> HIDE DEF n, v, size
<1>7. ASSUME NEW d \in Cells PROVE n.nBytes[d] = BytesOf(n.queue[d], DOMAIN n.queue[d])
  <2>1. m.nBytes[d] = BytesOf(m.queue[d], DOMAIN m.queue[d])
    BY DEF Kept
  <2>2. CASE d = c
    <3>1. n.queue[d] = Tail(m.queue[d]) /\ n.nBytes[d] = v
      BY <1>1, <1>6, <2>2 DEF Memory
    <3> QED BY <1>4, <2>2, <3>1
  <2>3. CASE d # c
    BY <1>1, <1>6, <2>1, <2>3 DEF Memory
  <2> QED BY <2>2, <2>3
<1>8. BytesOf(n.nBytes, Cells) = BytesOf(m.nBytes, Cells) + v - m.nBytes[c]
  BY <1>2, <1>5, <1>6, TotalUpdate
<1>9. Owed(n) = Owed(m) + size
  <2>1. m.nBytes[c] \in Nat
    BY <1>2
  <2> QED BY <1>1, <1>3, <1>6, <1>8, <2>1, TotalsNat DEF Owed, v
<1> QED BY <1>1, <1>3, <1>6, <1>7, <1>9 DEF n, size

WithUsed(m, c, amount) ==
    [m EXCEPT !.used = @ + amount, !.pUsed[QToP[c[2]]] = @ + amount]
WithStatic(m, c, amount) == [m EXCEPT !.static[c] = (m.static[c] + amount) % Word]

\* A charge (or a credit, when amount is negative) to the MMU.
LEMMA UsedMoves ==
    ASSUME NEW m \in Memory, m.token <= MaxToken, NEW c \in Cells, NEW amount \in Int
    PROVE  LET n == WithUsed(m, c, amount)
           IN  /\ n \in Memory /\ n.token <= MaxToken
               /\ n.queue = m.queue /\ n.nBytes = m.nBytes
               /\ Owed(n) = Owed(m) + amount
<1> DEFINE n == WithUsed(m, c, amount)
<1>1. QToP[c[2]] \in Priorities
  BY CellParts
<1>2. m.used + amount \in Int /\ m.pUsed[QToP[c[2]]] + amount \in Int /\ m.used \in Int
  BY <1>1 DEF Memory
<1>3. /\ n \in Memory /\ n.token = m.token /\ n.queue = m.queue /\ n.nBytes = m.nBytes
      /\ n.static = m.static /\ n.used = m.used + amount
  BY <1>1, <1>2 DEF Memory, WithUsed
<1> HIDE DEF n
<1>4. Owed(n) = Owed(m) + amount
  BY <1>2, <1>3, TotalsNat DEF Owed
<1> QED BY <1>3, <1>4 DEF n

\* A charge or a credit to the static buffer of a cell, modulo Word.
LEMMA StaticMoves ==
    ASSUME NEW m \in Memory, m.token <= MaxToken, NEW c \in Cells, NEW amount \in Int
    PROVE  LET n == WithStatic(m, c, amount)
           IN  /\ n \in Memory /\ n.token <= MaxToken
               /\ n.queue = m.queue /\ n.nBytes = m.nBytes
               /\ \E j \in Int : Owed(n) = Owed(m) + amount + Word * j
<1> DEFINE n == WithStatic(m, c, amount)
<1>1. m.static \in [Cells -> Nat] /\ m.used \in Int
  BY DEF Memory
<1> DEFINE a == m.static[c] + amount
           v == a % Word
<1>2. a \in Int /\ m.static[c] \in Int
  BY <1>1
<1>3. v \in Nat /\ \E j \in Int : v = a + Word * j
  <2> HIDE DEF a
  <2> QED BY <1>2, WordDivides
<1>4. n = [m EXCEPT !.static[c] = v]
  BY DEF WithStatic
<1> HIDE DEF v, n
<1>5. /\ n \in Memory /\ n.token = m.token /\ n.queue = m.queue /\ n.nBytes = m.nBytes
      /\ n.static = [m.static EXCEPT ![c] = v] /\ n.used = m.used
  <2>1. [m.static EXCEPT ![c] = v] \in [Cells -> Nat]
    BY <1>1, <1>3
  <2>2. n = [m EXCEPT !.static = [m.static EXCEPT ![c] = v]]
    BY <1>4
  <2> QED BY <2>1, <2>2 DEF Memory
<1>6. BytesOf(n.static, Cells) = BytesOf(m.static, Cells) + v - m.static[c]
  BY <1>1, <1>3, <1>5, TotalUpdate
<1>7. PICK j \in Int : v = a + Word * j
  BY <1>3
<1>8. Word * j \in Int
  BY MemoryAssumption
<1>9. Owed(n) = Owed(m) + amount + Word * j
  BY <1>1, <1>2, <1>5, <1>6, <1>7, <1>8, TotalsNat DEF Owed
<1> QED BY <1>5, <1>9 DEF n

LEMMA TokenDeleteKept ==
    ASSUME NEW m \in Memory, m.token <= MaxToken, NEW size \in Nat
    PROVE  LET n == TokenDelete(m, size)
           IN  /\ n \in Memory /\ n.token <= MaxToken
               /\ n.used = m.used /\ n.nBytes = m.nBytes /\ n.queue = m.queue
               /\ n.static = m.static
<1> DEFINE n == TokenDelete(m, size)
           k == (size + CeilSize - 1) \div CeilSize
<1>0. m.token \in Int /\ MaxToken \in Int
  BY MemoryAssumption DEF Memory
<1>1. k \in Nat
  <2>1. size + CeilSize - 1 \in Nat /\ CeilSize \in Nat \ {0}
    BY MemoryAssumption
  <2>2. \A a \in Nat, b \in Nat \ {0} : a \div b \in Nat
    OBVIOUS
  <2> QED BY <2>1, <2>2
<1> HIDE DEF k
<1>2. CASE EnqueueMethod = "MULTILAYER_DT"
  <2>1. n = [m EXCEPT !.token = m.token - k] /\ m.token - k \in Int /\ m.token - k <= MaxToken
    BY <1>0, <1>1, <1>2 DEF TokenDelete, k
  <2> HIDE DEF n
  <2> QED BY <2>1 DEF Memory, n
<1>3. CASE EnqueueMethod # "MULTILAYER_DT"
  BY <1>3 DEF TokenDelete
<1> QED BY <1>2, <1>3

-----------------------------------------------------------------------------
LEMMA EmptyKept == Kept(EmptyMemory)
<1>1. EmptyMemory \in Memory /\ EmptyMemory.token <= MaxToken /\ Accounted(EmptyMemory)
  BY EmptySound DEF Sound
<1>2. BytesOf(EmptyMemory.static, Cells) = 0 /\ BytesOf(EmptyMemory.nBytes, Cells) = 0
  BY BytesOfZero DEF EmptyMemory
<1>3. EmptyMemory.used = 0
  BY DEF EmptyMemory
<1>4. Owed(EmptyMemory) = Word * 0
  BY <1>2, <1>3, MemoryAssumption DEF Owed
<1> QED BY <1>1, <1>4 DEF Kept, Accounted, Balanced

LEMMA ArrivedKept ==
    ASSUME NEW m, Kept(m), NEW c \in Cells, NEW size \in Sizes, NEW private \in BOOLEAN
    PROVE  Kept(Arrived(m, c, size, private))
<1> DEFINE o == Pushed(m, c, size)
           n == Arrived(m, c, size, private)
<1>1. /\ o \in Memory /\ o.token <= MaxToken
      /\ \A d \in Cells : o.nBytes[d] = BytesOf(o.queue[d], DOMAIN o.queue[d])
      /\ Owed(o) = Owed(m) - size
  BY PushedKept
<1>2. size \in Int /\ Owed(m) \in Int /\ m \in Memory /\ Balanced(m) /\ Word \in Nat
  BY SizesNat, TotalsNat, MemoryAssumption DEF Kept, Owed
<1>3. n = IF private THEN WithStatic(o, c, size) ELSE WithUsed(o, c, size)
  BY DEF Arrived, AddUsed, WithStatic, WithUsed
<1> HIDE DEF o, n
<1>4. CASE private
  <2>1. /\ n \in Memory /\ n.token <= MaxToken /\ n.queue = o.queue /\ n.nBytes = o.nBytes
        /\ \E j \in Int : Owed(n) = Owed(o) + size + Word * j
    BY <1>1, <1>2, <1>3, <1>4, StaticMoves
  <2>2. PICK j \in Int : Owed(n) = Owed(o) + size + Word * j
    BY <2>1
  <2>3. Owed(n) = Owed(m) + Word * j
    <3>1. Word * j \in Int
      BY <1>2
    <3> QED BY <1>1, <1>2, <2>2, <3>1
  <2>4. Balanced(n)
    BY <1>2, <2>3, BalanceMoves
  <2> QED BY <1>1, <2>1, <2>4 DEF Kept, n
<1>5. CASE ~private
  <2>1. /\ n \in Memory /\ n.token <= MaxToken /\ n.queue = o.queue /\ n.nBytes = o.nBytes
        /\ Owed(n) = Owed(o) + size
    BY <1>1, <1>2, <1>3, <1>5, UsedMoves
  <2>2. Owed(n) = Owed(m)
    BY <1>1, <1>2, <2>1
  <2>3. Balanced(n)
    BY <1>2, <2>2, BalanceStays
  <2> QED BY <1>1, <2>1, <2>3 DEF Kept, n
<1> QED BY <1>4, <1>5

\* A memory whose totals have changed by the packet that has left it.
LEMMA CreditedKept ==
    ASSUME NEW m, Kept(m), NEW c \in Cells, m.queue[c] # <<>>, NEW size, size = Head(m.queue[c])
    PROVE  LET o == Popped(m, c)
           IN  /\ Kept(DeleteUsed(o, c, size))
               /\ Kept([o EXCEPT !.static[c] = (@ - size) % Word])
<1> DEFINE o == Popped(m, c)
           u == DeleteUsed(o, c, size)
           s == [o EXCEPT !.static[c] = (@ - size) % Word]
<1>1. /\ o \in Memory /\ o.token <= MaxToken /\ size \in Sizes
      /\ \A d \in Cells : o.nBytes[d] = BytesOf(o.queue[d], DOMAIN o.queue[d])
      /\ Owed(o) = Owed(m) + size
  BY PoppedKept
<1>2. size \in Int /\ -size \in Int /\ Owed(m) \in Int /\ m \in Memory /\ Balanced(m) /\ Word \in Nat
  <2>1. size \in Int
    BY <1>1, SizesNat
  <2> QED BY <2>1, TotalsNat, MemoryAssumption DEF Kept, Owed
<1> HIDE DEF o
<1>3. o.used \in Int /\ o.pUsed \in [Priorities -> Int] /\ o.static \in [Cells -> Nat]
      /\ QToP[c[2]] \in Priorities
  BY <1>1, CellParts DEF Memory
<1>4. \A x \in Int : x - size = x + (-size)
  BY <1>2
<1>5. u = WithUsed(o, c, -size)
  BY <1>3, <1>4 DEF DeleteUsed, WithUsed
<1>6. s = WithStatic(o, c, -size)
  BY <1>3, <1>4 DEF WithStatic
<1> HIDE DEF u, s
<1>7. Kept(u)
  <2>1. /\ u \in Memory /\ u.token <= MaxToken /\ u.queue = o.queue /\ u.nBytes = o.nBytes
        /\ Owed(u) = Owed(o) + (-size)
    BY <1>1, <1>2, <1>5, UsedMoves
  <2>2. Owed(u) = Owed(m)
    BY <1>1, <1>2, <2>1
  <2>3. Balanced(u)
    BY <1>2, <2>2, BalanceStays
  <2> QED BY <1>1, <2>1, <2>3 DEF Kept
<1>8. Kept(s)
  <2>1. /\ s \in Memory /\ s.token <= MaxToken /\ s.queue = o.queue /\ s.nBytes = o.nBytes
        /\ \E j \in Int : Owed(s) = Owed(o) + (-size) + Word * j
    BY <1>1, <1>2, <1>6, StaticMoves
  <2>2. PICK j \in Int : Owed(s) = Owed(o) + (-size) + Word * j
    BY <2>1
  <2>3. Owed(s) = Owed(m) + Word * j
    <3>1. Word * j \in Int
      BY <1>2
    <3> QED BY <1>1, <1>2, <2>2, <3>1
  <2>4. Balanced(s)
    BY <1>2, <2>3, BalanceMoves
  <2> QED BY <1>1, <2>1, <2>4 DEF Kept
<1> QED BY <1>7, <1>8 DEF o, u, s

LEMMA KeptWith ==
    ASSUME NEW m, Kept(m), NEW n \in Memory, n.token <= MaxToken,
           n.used = m.used, n.nBytes = m.nBytes, n.queue = m.queue, n.static = m.static
    PROVE  Kept(n)
  BY DEF Kept, Balanced, Owed

LEMMA DepartedKept ==
    ASSUME NEW m, Kept(m), NEW c \in Cells, m.queue[c] # <<>>
    PROVE  /\ Kept(Departed(m, c)) /\ Kept(PushedOut(m, c))
           /\ \A p : Kept(HeadDropped(m, p, c))
<1> DEFINE size == Head(m.queue[c])
           o == Popped(m, c)
           u == DeleteUsed(o, c, size)
           t == TokenDelete(u, size)
<1>1. Kept(u) /\ Kept([o EXCEPT !.static[c] = (@ - size) % Word])
  BY CreditedKept
<1>2. size \in Nat
  <2>1. size \in Sizes
    BY PoppedKept
  <2> HIDE DEF size
  <2> QED BY <2>1, SizesNat
<1>3. Kept(t)
  <2> HIDE DEF u, size
  <2>1. u \in Memory /\ u.token <= MaxToken
    BY <1>1 DEF Kept
  <2> QED BY <1>1, <1>2, <2>1, TokenDeleteKept, KeptWith
<1>4. Kept(PushedOut(m, c))
  BY <1>1 DEF PushedOut
<1>5. Kept(Departed(m, c))
  <2>1. Departed(m, c) = IF o.static[c] > o.nBytes[c]
                         THEN [o EXCEPT !.static[c] = (@ - size) % Word] ELSE t
    BY DEF Departed
  <2> HIDE DEF o, t
  <2> QED BY <1>1, <1>3, <2>1
<1>6. ASSUME NEW p PROVE Kept(HeadDropped(m, p, c))
  <2>1. HeadDropped(m, p, c) = IF DropType[p] = "TOKEN" THEN [t EXCEPT !.last = c] ELSE t
    BY DEF HeadDropped, PushedOut
  <2> HIDE DEF t
  <2> DEFINE x == [t EXCEPT !.last = c]
  <2>2. /\ x \in Memory /\ x.token <= MaxToken
        /\ x.used = t.used /\ x.nBytes = t.nBytes /\ x.queue = t.queue /\ x.static = t.static
    BY <1>3 DEF Kept, Memory
  <2>3. Kept(x)
    <3> HIDE DEF x
    <3> QED BY <1>3, <2>2, KeptWith
  <2> QED BY <1>3, <2>1, <2>3
<1> QED BY <1>4, <1>5, <1>6

LEMMA KeptHolds ==
    ASSUME NEW m, Kept(m), NEW c \in Cells, m.nBytes[c] > StaticBuffer
    PROVE  m.queue[c] # <<>>
<1> SUFFICES ASSUME m.queue[c] = <<>> PROVE FALSE
  OBVIOUS
<1>1. BytesOf(<<>>, DOMAIN <<>>) = 0
  BY BytesOfZero
<1>2. m.nBytes[c] = 0
  BY <1>1 DEF Kept
<1> QED BY <1>2, MemoryAssumption

\* Whoever it is credited to, the packet that leaves is the head of its queue.
LEMMA DepartedQueue ==
    ASSUME NEW m \in Memory, NEW c
    PROVE  /\ Departed(m, c).queue = [m.queue EXCEPT ![c] = Tail(@)]
           /\ PushedOut(m, c).queue = [m.queue EXCEPT ![c] = Tail(@)]
           /\ \A p : HeadDropped(m, p, c).queue = [m.queue EXCEPT ![c] = Tail(@)]
<1> DEFINE Q == [m.queue EXCEPT ![c] = Tail(@)]
           o == Popped(m, c)
           size == Head(m.queue[c])
           u == DeleteUsed(o, c, size)
           t == TokenDelete(u, size)
<1>1. o.queue = Q /\ DOMAIN o = DOMAIN m /\ "queue" \in DOMAIN o
  BY DEF Popped, Memory
<1> HIDE DEF Q, o, size
<1>2. u.queue = Q /\ "queue" \in DOMAIN u
  BY <1>1 DEF DeleteUsed
<1> HIDE DEF u
<1>3. t.queue = Q /\ "queue" \in DOMAIN t
  BY <1>2 DEF TokenDelete
<1> HIDE DEF t
<1>4. [t EXCEPT !.last = c].queue = Q
  BY <1>3
<1>5. [o EXCEPT !.static[c] = (@ - size) % Word].queue = Q
  BY <1>1
<1>6. Departed(m, c) = IF o.static[c] > o.nBytes[c]
                       THEN [o EXCEPT !.static[c] = (@ - size) % Word] ELSE t
  BY DEF Departed, o, t, u, size
<1>7. PushedOut(m, c) = u
  BY DEF PushedOut, o, u, size
<1>8. \A p : HeadDropped(m, p, c) = IF DropType[p] = "TOKEN" THEN [t EXCEPT !.last = c] ELSE t
  BY DEF HeadDropped, PushedOut, o, t, u, size
<1> QED BY <1>2, <1>3, <1>4, <1>5, <1>6, <1>7, <1>8 DEF Q

\* What DropCheck() picks has a packet to drop.
LEMMA KeptVictims ==
    ASSUME NEW m, Kept(m), NEW a, NEW p
    PROVE  \A c \in HeadDropVictim(m, a, p) : c \in Cells /\ m.queue[c] # <<>>
<1>1. \A c \in UsedCells : c \in Cells
  BY SchedulerAssumption DEF UsedCells, Cells, UsedQueues, SubQueues
<1>2. \A c \in RoundRobinVictim(m, a, p) : c \in Cells /\ m.queue[c] # <<>>
  BY <1>1 DEF RoundRobinVictim
<1>3. \A c \in LongestVictim(m, a, p) : c \in Cells /\ m.queue[c] # <<>>
  BY <1>1, KeptHolds DEF LongestVictim, Longest
<1>4. \/ HeadDropVictim(m, a, p) = {}
      \/ HeadDropVictim(m, a, p) = RoundRobinVictim(m, a, p)
      \/ HeadDropVictim(m, a, p) = LongestVictim(m, a, p)
  BY MemoryAssumption DEF HeadDropVictim, DropTypes
<1> QED BY <1>2, <1>3, <1>4

LEMMA DropCheckedOne ==
    ASSUME NEW m, NEW a, NEW p
    PROVE  \/ DropChecked(m, a, p) = m
           \/ \E c \in HeadDropVictim(m, a, p) : DropChecked(m, a, p) = HeadDropped(m, p, c)
<1> DEFINE V == HeadDropVictim(m, a, p)
<1>1. V # {} => (CHOOSE c \in V : TRUE) \in V
  OBVIOUS
<1> QED BY <1>1 DEF DropChecked

LEMMA DropCheckedKept ==
    ASSUME NEW m, Kept(m), NEW a, NEW p
    PROVE  Kept(DropChecked(m, a, p))
  BY KeptVictims, DropCheckedOne, DepartedKept

LEMMA TokenAddedKept ==
    ASSUME NEW m, Kept(m)
    PROVE  Kept(TokenAdded(m)) /\ TokenAdded(m).queue = m.queue
<1> DEFINE n == TokenAdded(m)
           k == IF m.token + Refill > MaxToken THEN MaxToken ELSE m.token + Refill
           l == IF m.started THEN m.last ELSE <<1, 0>>
<1>0. m \in Memory /\ <<1, 0>> \in Cells /\ m.token \in Int
  <2>1. 1 \in Ports
    BY MemoryAssumption DEF Ports
  <2>2. 0 \in SubQueues
    BY SchedulerAssumption DEF SubQueues
  <2> QED BY <2>1, <2>2 DEF Kept, Memory, Cells
<1>1. k \in Int /\ k <= MaxToken /\ l \in Cells
  BY <1>0, MemoryAssumption DEF Memory
<1>2. n = [m EXCEPT !.started = TRUE, !.last = l, !.token = k]
  BY <1>0 DEF TokenAdded, Memory
<1> HIDE DEF k, l, n
<1>3. /\ n \in Memory /\ n.token <= MaxToken
      /\ n.used = m.used /\ n.nBytes = m.nBytes /\ n.queue = m.queue /\ n.static = m.static
  BY <1>0, <1>1, <1>2 DEF Memory
<1> QED BY <1>3, KeptWith DEF n

-----------------------------------------------------------------------------
\* The state of the ports after a transmission is started, or tried.
PortsTyped ==
    /\ sched \in [Ports -> SchedState]
    /\ tx \in [Ports -> {"READY", "BUSY"}]
    /\ abm \in [Ports -> ABMState]

LEMMA TransmitNextKept ==
    ASSUME PortsTyped, NEW p \in Ports, NEW m, Kept(m), NEW a \in ABMState,
           TransmitNext(p, m, a)
    PROVE  Kept(mem') /\ PortsTyped'
<1> DEFINE n == DropChecked(m, a, p)
           B == Backlog(n, p)
           C == Choice(DequeueType[p], sched[p], B)
<1>1. Kept(n)
  BY DropCheckedKept
<1>2. C \in SUBSET UsedQueues /\ C \subseteq B
  BY ChoiceBacklogged, MemoryAssumption DEF Backlog
<1>3. Serve(p, n, C, a)
  BY DEF TransmitNext
<1>4. n.queue \in [Cells -> Seq(Sizes)]
  BY <1>1 DEF Kept, Memory
<1>5. \A q \in C : <<p, q>> \in Cells /\ q \in SubQueues /\ n.queue[<<p, q>>] # <<>>
  BY <1>2, UsedQueuesAreSubQueues DEF Backlog, Cells
<1>6. sched[p] \in SchedState
  BY DEF PortsTyped
<1> HIDE DEF n, B, C
<1>7. CASE /\ mem' = n
           /\ sched' = [sched EXCEPT ![p] = Served(DequeueType[p], @, Backlog(n, p), C, 0)]
           /\ tx' = [tx EXCEPT ![p] = "READY"]
           /\ abm' = [abm EXCEPT ![p] = a]
  <2>1. Served(DequeueType[p], sched[p], Backlog(n, p), C, 0) \in SchedState
    BY <1>2, <1>6, ServedType
  <2> QED BY <1>1, <1>7, <2>1 DEF PortsTyped
<1>8. ASSUME NEW q \in C, NEW size \in {Head(n.queue[<<p, q>>])},
             /\ mem' = Departed(n, <<p, q>>)
             /\ sched' = [sched EXCEPT ![p] = Served(DequeueType[p], @, Backlog(n, p), C, size)]
             /\ tx' = [tx EXCEPT ![p] = "BUSY"]
             /\ abm' = [abm EXCEPT ![p] = SentBytes(a, q, size)]
      PROVE  Kept(mem') /\ PortsTyped'
  <2>1. <<p, q>> \in Cells /\ q \in SubQueues /\ n.queue[<<p, q>>] # <<>>
    BY <1>5
  <2>2. size \in Nat
    <3>1. size \in Sizes
      BY <1>1, <2>1, PoppedKept
    <3> QED BY <3>1, SizesNat
  <2>3. Served(DequeueType[p], sched[p], Backlog(n, p), C, size) \in SchedState
    BY <1>2, <1>6, <2>2, ServedType
  <2>4. SentBytes(a, q, size) \in ABMState
    <3>1. QToP[q] \in Priorities /\ a.bytes \in [Priorities -> Nat]
      BY <2>1, MemoryAssumption DEF Priorities, ABMState
    <3>2. a.bytes[QToP[q]] + size \in Nat
      BY <2>2, <3>1
    <3> QED BY <3>1, <3>2 DEF SentBytes, ABMState
  <2>5. Kept(mem')
    BY <1>1, <1>8, <2>1, DepartedKept
  <2> QED BY <1>8, <2>3, <2>4, <2>5 DEF PortsTyped
<1> QED BY <1>3, <1>7, <1>8 DEF Serve

LEMMA AdmitKept ==
    ASSUME PortsTyped, NEW m, Kept(m), NEW a \in ABMState, NEW c \in Cells,
           NEW size \in Sizes, NEW private \in BOOLEAN, Admit(m, a, c, size, private)
    PROVE  Kept(mem') /\ PortsTyped'
<1> DEFINE n == Arrived(m, c, size, private)
<1>1. Kept(n) /\ c[1] \in Ports
  BY ArrivedKept, CellParts
<1>2. \/ mem' \in {m, n} /\ abm' = [abm EXCEPT ![c[1]] = a] /\ UNCHANGED <<sched, tx>>
      \/ TransmitNext(c[1], n, a)
  BY DEF Admit
<1> HIDE DEF n
<1>3. CASE mem' \in {m, n} /\ abm' = [abm EXCEPT ![c[1]] = a] /\ UNCHANGED <<sched, tx>>
  BY <1>1, <1>3 DEF PortsTyped
<1>4. CASE TransmitNext(c[1], n, a)
  BY <1>1, <1>4, TransmitNextKept
<1> QED BY <1>2, <1>3, <1>4

LEMMA StaticInit == Init => StaticInv
<1> SUFFICES ASSUME Init PROVE StaticInv
  OBVIOUS
<1>1. IInv
  BY InitIInv
<1>2. Kept(mem)
  BY EmptyKept DEF Init
<1> QED BY <1>1, <1>2 DEF IInv, StaticInv

LEMMA StaticStep == StaticInv /\ [Next]_vars => StaticInv'
<1> SUFFICES ASSUME StaticInv, [Next]_vars PROVE StaticInv'
  OBVIOUS
<1>0. /\ PortsTyped /\ Kept(mem) /\ Counted(sat) /\ sat \in SaturationState
      /\ timer \in BOOLEAN /\ push \in Pushes \cup {NoPush}
  BY DEF StaticInv, Typed, PortsTyped
<1>1. ASSUME Kept(mem'), PortsTyped', sat' \in SaturationState, Counted(sat'),
             timer' \in BOOLEAN, push' \in Pushes \cup {NoPush}
      PROVE  StaticInv'
  BY <1>1 DEF StaticInv, Typed, PortsTyped
<1>2. ASSUME NEW c \in Cells, NEW size \in Sizes, SendStatic(c, size)
      PROVE  StaticInv'
  <2>1. Admit(mem, abm[c[1]], c, size, TRUE) /\ UNCHANGED <<sat, timer, push>>
    BY <1>2 DEF SendStatic
  <2>2. abm[c[1]] \in ABMState
    BY <1>0, CellParts DEF PortsTyped
  <2>3. Kept(mem') /\ PortsTyped'
    BY <1>0, <2>1, <2>2, AdmitKept
  <2> QED BY <1>0, <1>1, <2>1, <2>3
<1>3. ASSUME NEW c \in Cells, NEW size \in Sizes, SendShared(c, size)
      PROVE  StaticInv'
  <2> DEFINE m == TokensStarted
             a == UpdatesStarted(c[1])
  <2>1. Kept(m)
    BY <1>0, TokenAddedKept DEF TokensStarted
  <2>2. c[1] \in Ports /\ abm[c[1]] \in ABMState
    BY <1>0, CellParts DEF PortsTyped
  <2>3. a \in ABMState
    BY <1>0, <2>2, UpdatedType DEF UpdatesStarted
  <2>4. /\ sat' = SaturationChecked(a, c) /\ TimerStarted /\ push' = push
        /\ \/ Admit(m, a, c, size, FALSE)
           \/ mem' = m /\ abm' = [abm EXCEPT ![c[1]] = a] /\ UNCHANGED <<sched, tx>>
    BY <1>3 DEF SendShared
  <2> HIDE DEF m, a
  <2>5. sat' \in SaturationState /\ Counted(sat')
    <3>1. Saturates(mem, a, c) \in BOOLEAN
      BY DEF Saturates
    <3> QED BY <1>0, <2>4, <3>1, SetSaturatedCounts DEF SaturationChecked
  <2>6. timer' \in BOOLEAN
    BY <1>0, <2>4 DEF TimerStarted
  <2>7. Kept(mem') /\ PortsTyped'
    <3>1. CASE Admit(m, a, c, size, FALSE)
      BY <1>0, <2>1, <2>3, <3>1, AdmitKept
    <3>2. CASE mem' = m /\ abm' = [abm EXCEPT ![c[1]] = a] /\ UNCHANGED <<sched, tx>>
      BY <1>0, <2>1, <2>3, <3>2 DEF PortsTyped
    <3> QED BY <2>4, <3>1, <3>2
  <2> QED BY <1>0, <1>1, <2>4, <2>5, <2>6, <2>7
<1>4. ASSUME NEW c \in Cells, NEW size \in Sizes, SendPushing(c, size)
      PROVE  StaticInv'
  <2>1. push' = [cell |-> c, size |-> size, freed |-> 0]
        /\ UNCHANGED <<mem, sched, tx, sat, abm, timer>>
    BY <1>4 DEF SendPushing
  <2>2. push' \in Pushes
    BY <2>1 DEF Pushes
  <2> QED BY <1>0, <1>1, <2>1, <2>2 DEF PortsTyped
<1>5. CASE PushOutPacket
  <2>1. PICK c \in PushOutVictim(mem, push.cell[1], push.cell[2]) :
           /\ mem' = PushedOut(mem, c)
           /\ push' = [push EXCEPT !.freed = @ + Head(mem.queue[c])]
    BY <1>5 DEF PushOutPacket
  <2>2. push # NoPush /\ UNCHANGED <<sched, tx, sat, abm, timer>>
    BY <1>5 DEF PushOutPacket
  <2>3. c \in Cells /\ mem.nBytes[c] > StaticBuffer
    BY <2>1 DEF PushOutVictim, Longest
  <2>4. mem.queue[c] # <<>>
    BY <1>0, <2>3, KeptHolds
  <2>5. Kept(mem')
    BY <1>0, <2>1, <2>3, <2>4, DepartedKept
  <2> DEFINE size == Head(mem.queue[c])
  <2>6. size \in Nat
    <3>1. size \in Sizes
      BY <1>0, <2>3, <2>4, PoppedKept
    <3> HIDE DEF size
    <3> QED BY <3>1, SizesNat
  <2>7. push' \in Pushes
    <3> HIDE DEF size
    <3>1. push \in Pushes /\ push.freed + size \in Nat
      BY <1>0, <2>2, <2>6 DEF Pushes
    <3>2. push' = [push EXCEPT !.freed = push.freed + size]
      BY <2>1 DEF size
    <3> QED BY <3>1, <3>2 DEF Pushes
  <2> QED BY <1>0, <1>1, <2>2, <2>5, <2>7 DEF PortsTyped
<1>6. CASE PushOutFailed
  BY <1>0, <1>1, <1>6 DEF PushOutFailed, PortsTyped
<1>7. CASE PushOutDone
  <2> DEFINE c == push.cell
             size == push.size
  <2>1. c \in Cells /\ size \in Sizes
    BY <1>0, <1>7 DEF PushOutDone, Pushes
  <2>2. Admit(mem, abm[c[1]], c, size, FALSE) /\ push' = NoPush /\ UNCHANGED <<sat, timer>>
    BY <1>7 DEF PushOutDone
  <2> HIDE DEF c, size
  <2>3. abm[c[1]] \in ABMState
    BY <1>0, <2>1, CellParts DEF PortsTyped
  <2>4. Kept(mem') /\ PortsTyped'
    BY <1>0, <2>1, <2>2, <2>3, AdmitKept
  <2> QED BY <1>0, <1>1, <2>2, <2>4
<1>8. ASSUME NEW p \in Ports, TransmitComplete(p)
      PROVE  StaticInv'
  <2>1. TransmitNext(p, mem, abm[p]) /\ UNCHANGED <<timer, push>>
    BY <1>8 DEF TransmitComplete
  <2>2. abm[p] \in ABMState
    BY <1>0 DEF PortsTyped
  <2>3. Kept(mem') /\ PortsTyped'
    BY <1>0, <2>1, <2>2, TransmitNextKept
  <2>4. sat' \in SaturationState /\ Counted(sat')
    <3> DEFINE c == <<p, sched'[p].deindex>>
    <3>1. c \in Cells
      BY <2>3 DEF PortsTyped, SchedState, Cells
    <3>2. sat' = sat \/ sat' = SetSaturated(sat, c, Saturates(mem', abm[p], c))
      BY <1>8 DEF TransmitComplete
    <3>3. Saturates(mem', abm[p], c) \in BOOLEAN
      BY DEF Saturates
    <3> HIDE DEF c
    <3> QED BY <1>0, <3>1, <3>2, <3>3, SetSaturatedCounts
  <2> QED BY <1>0, <1>1, <2>1, <2>3, <2>4
<1>9. CASE TokenAdd
  <2>1. Kept(mem')
    BY <1>0, <1>9, TokenAddedKept DEF TokenAdd
  <2> QED BY <1>0, <1>1, <1>9, <2>1 DEF TokenAdd, PortsTyped
<1>10. ASSUME NEW p \in Ports, InvokeUpdates(p)
       PROVE  StaticInv'
  <2>1. Updated(abm[p], sat.N) \in ABMState
    BY <1>0, UpdatedType DEF PortsTyped
  <2> QED BY <1>0, <1>1, <1>10, <2>1 DEF InvokeUpdates, PortsTyped
<1>11. CASE UNCHANGED vars
  BY <1>0, <1>1, <1>11 DEF vars, PortsTyped
<1> QED BY <1>2, <1>3, <1>4, <1>5, <1>6, <1>7, <1>8, <1>9, <1>10, <1>11
        DEF Next, Send, PushOut

LEMMA StaticCorrect == Spec => []StaticInv
  BY StaticInit, StaticStep, PTL DEF Spec

\* Every variable keeps its type and no token count exceeds max_token_num,
\* whatever the static buffers; in particular no packet counter (a uint32_t)
\* ever goes below zero.
THEOREM TypeCorrect == Spec => []TypeOK
<1>1. StaticInv => TypeOK
  BY DEF StaticInv, Typed, Kept, TypeOK
<1> QED BY <1>1, StaticCorrect, PTL

\* Switch::N is the number of queues flagged saturated, per priority.
THEOREM SaturatedCountedCorrect == Spec => []SaturatedCounted
<1>1. StaticInv => SaturatedCounted
  BY DEF StaticInv, SaturatedCounted
<1> QED BY <1>1, StaticCorrect, PTL

\* Each byte that leaves is credited to the MMU or to the static buffer of its
\* cell, modulo the uint32_t of usedStaticBuffer: whatever the order of
\* transmissions, push-outs and head drops, no byte is credited twice or never.
THEOREM StaticAccountingCorrect == Spec => []StaticAccounting
<1>1. StaticInv => StaticAccounting
  <2> SUFFICES ASSUME StaticInv PROVE StaticAccounting
    OBVIOUS
  <2> DEFINE x == mem.used + BytesOf(mem.static, Cells)
             y == BytesOf(mem.nBytes, Cells)
             d == y \div Word
             r == y % Word
  <2>1. PICK k \in Int : Owed(mem) = Word * k
    BY DEF StaticInv, Kept, Balanced
  <2>2. x \in Int /\ y \in Int /\ x - y = Word * k
    BY <2>1, TotalsNat DEF StaticInv, Kept, Owed
  <2> HIDE DEF x, y
  <2>3. Word \in Nat \ {0}
    BY MemoryAssumption
  <2>4. d \in Int /\ r \in 0 .. Word - 1 /\ y = Word * d + r
    BY <2>2, <2>3, RemainderRange
  <2> HIDE DEF d, r
  <2>5. x = Word * (k + d) + r /\ k + d \in Int
    <3>1. Word * (k + d) = Word * k + Word * d /\ Word * k \in Int /\ Word * d \in Int
      BY <2>3, <2>4
    <3> QED BY <2>2, <2>4, <3>1
  <2>6. x % Word = r
    BY <2>3, <2>4, <2>5, RemainderUnique
  <2> QED BY <2>6 DEF StaticAccounting, x, y, r
<1> QED BY <1>1, StaticCorrect, PTL

-----------------------------------------------------------------------------
(* The device implements SharedBuffer: the queues are the sub-queues, and  *)
(* what the buffer holds is what m_usedBuffer says (Accounted), so that    *)
(* the room AcceptPacket() finds, or frees, is room in the buffer.         *)

LEMMA HeldIsUsed ==
    ASSUME NEW m, Sound(m)
    PROVE  Shared!Held(m.queue) = m.used
<1> DEFINE f == [c \in Cells |-> BytesOf(m.queue[c], DOMAIN m.queue[c])]
<1>1. Shared!Held(m.queue) = BytesOf(f, Cells)
  <2>1. \A S : Shared!Cardinality(S) = Cardinality(S)
    BY Zenon DEF Shared!Cardinality, Cardinality, Shared!IsFiniteSet, IsFiniteSet
  <2> QED BY <2>1, Zenon DEF Shared!Held, Shared!BytesOf, BytesOf
<1>2. \A c \in Cells : f[c] = m.nBytes[c]
  BY DEF Sound, Accounted
<1>3. m.used = BytesOf(m.nBytes, Cells)
  BY DEF Sound, Accounted
<1> HIDE DEF f
<1>4. BytesOf(f, Cells) = BytesOf(m.nBytes, Cells)
  BY <1>2, BytesOfSame
<1> QED BY <1>1, <1>3, <1>4

LEMMA ArrivalFits ==
    ASSUME Sound(mem), NEW c \in Cells, NEW size \in Sizes,
           mem.used + size <= MaxBuffer
    PROVE  Arrived(mem, c, size, FALSE).queue \in Shared!Arrivals
<1> DEFINE n == Arrived(mem, c, size, FALSE)
<1>1. n.queue = [mem.queue EXCEPT ![c] = Append(@, size)]
  BY DEF Arrived, Pushed, AddUsed, Sound, Memory
<1>2. Shared!Held(n.queue) <= MaxBuffer
  BY ArrivedSound, HeldIsUsed
<1> HIDE DEF n
<1> DEFINE X == {[mem.queue EXCEPT ![q] = Append(@, s)] : q \in Cells, s \in Sizes}
<1>3. n.queue \in X
  BY <1>1
<1>4. Shared!Arrivals = {mem.queue} \cup {f \in X : Shared!Held(f) <= MaxBuffer}
  BY DEF Shared!Arrivals
<1> HIDE DEF X
<1> QED BY <1>2, <1>3, <1>4 DEF n

\* DropCheck() takes at most the head of one sub-queue.
LEMMA DropCheckedLoses ==
    ASSUME NEW m, Sound(m), NEW a, NEW p
    PROVE  DropChecked(m, a, p).queue \in Shared!Losses(m.queue)
<1> DEFINE V == HeadDropVictim(m, a, p)
<1>1. \A c \in V : c \in Cells /\ m.queue[c] # <<>>
  BY VictimsHold
<1> HIDE DEF V
<1>2. CASE V = {}
  BY <1>2 DEF DropChecked, V, Shared!Losses
<1>3. CASE V # {}
  <2> DEFINE c == CHOOSE c \in V : TRUE
  <2>1. c \in V
    BY <1>3
  <2>2. DropChecked(m, a, p) = HeadDropped(m, p, c)
    BY <1>3 DEF DropChecked, V
  <2> HIDE DEF c
  <2>3. PushedOut(m, c).queue = [m.queue EXCEPT ![c] = Tail(@)] /\ Sound(PushedOut(m, c))
    BY <1>1, <2>1, PushedOutSound
  <2>4. HeadDropped(m, p, c).queue = PushedOut(m, c).queue
    BY <2>3 DEF HeadDropped, TokenDelete, Sound, Memory
  <2> QED BY <1>1, <2>1, <2>2, <2>3, <2>4 DEF Shared!Losses
<1> QED BY <1>2, <1>3

LEMMA TransmitNextLoses ==
    ASSUME NEW p \in Ports, NEW m, Sound(m), NEW a, TransmitNext(p, m, a)
    PROVE  \E f \in Shared!Losses(m.queue) : mem'.queue \in Shared!Losses(f)
<1> DEFINE n == DropChecked(m, a, p)
           C == Choice(DequeueType[p], sched[p], Backlog(n, p))
<1>1. n.queue \in Shared!Losses(m.queue) /\ Sound(n)
  BY DropCheckedLoses, DropCheckedSound
<1>2. Serve(p, n, C, a)
  BY DEF TransmitNext
<1>3. C \subseteq Backlog(n, p)
  BY ChoiceBacklogged, MemoryAssumption
<1> HIDE DEF n, C
<1>4. CASE mem' = n
  BY <1>1, <1>4 DEF Shared!Losses
<1>5. ASSUME NEW q \in C, mem' = Departed(n, <<p, q>>)
      PROVE  mem'.queue \in Shared!Losses(n.queue)
  <2>1. <<p, q>> \in Cells /\ n.queue[<<p, q>>] # <<>>
    BY <1>3, UsedQueuesAreSubQueues DEF Backlog, Cells
  <2>2. mem'.queue = [n.queue EXCEPT ![<<p, q>>] = Tail(@)]
    BY <1>1, <1>5, <2>1, DepartedSound
  <2> QED BY <2>1, <2>2 DEF Shared!Losses
<1> QED BY <1>1, <1>2, <1>4, <1>5 DEF Serve

LEMMA AdmitShares ==
    ASSUME Sound(mem), NEW a, NEW c \in Cells, NEW size \in Sizes,
           mem.used + size <= MaxBuffer,
           NEW m, Sound(m), m.queue = mem.queue, m.used = mem.used,
           Admit(m, a, c, size, FALSE)
    PROVE  Shared!Next
<1> DEFINE n == Arrived(m, c, size, FALSE)
<1>1. n.queue \in Shared!Arrivals /\ Sound(n)
  <2>1. n.queue = Arrived(mem, c, size, FALSE).queue
    BY DEF Arrived, Pushed, AddUsed, Sound, Memory
  <2> QED BY <2>1, ArrivalFits, ArrivedSound
<1>2. c[1] \in Ports
  BY CellParts
<1> HIDE DEF n
<1>3. CASE mem' = m
  BY <1>3 DEF Shared!Next, Shared!Arrivals, Shared!Losses
<1>4. CASE mem' = n
  BY <1>1, <1>4 DEF Shared!Next, Shared!Losses
<1>5. CASE TransmitNext(c[1], n, a)
  <2>1. \E f \in Shared!Losses(n.queue) : mem'.queue \in Shared!Losses(f)
    BY <1>1, <1>2, <1>5, TransmitNextLoses
  <2> QED BY <1>1, <2>1 DEF Shared!Next
<1> QED BY <1>3, <1>4, <1>5 DEF Admit, n

LEMMA NextShares ==
    ASSUME StaticBuffer = 0, IInv, [Next]_vars
    PROVE  [Shared!Next]_(mem.queue)
<1>0. Sound(mem)
  BY DEF IInv
<1>1. ASSUME NEW c \in Cells, NEW size \in Sizes, SendStatic(c, size)
      PROVE  FALSE
  BY <1>0, <1>1, NoStaticRoom DEF SendStatic
<1>2. ASSUME NEW c \in Cells, NEW size \in Sizes, SendShared(c, size)
      PROVE  [Shared!Next]_(mem.queue)
  <2> DEFINE m == TokensStarted
             a == UpdatesStarted(c[1])
  <2>1. Sound(m) /\ m.used = mem.used /\ m.queue = mem.queue
    <3>1. Sound(m) /\ m.used = mem.used
      BY <1>0, TokenAddedSound DEF TokensStarted
    <3>2. m.queue = mem.queue
      BY <1>0 DEF TokensStarted, TokenAdded, Sound, Memory
    <3> QED BY <3>1, <3>2
  <2>2. \/ Accepts(m, a, c, size) /\ Admit(m, a, c, size, FALSE)
        \/ mem' = m
    BY <1>2 DEF SendShared
  <2> HIDE DEF m, a
  <2>3. CASE Accepts(m, a, c, size) /\ Admit(m, a, c, size, FALSE)
    <3>1. mem.used + size <= MaxBuffer
      BY <2>1, <2>3 DEF Accepts, Fits
    <3> QED BY <1>0, <2>1, <2>3, <3>1, AdmitShares
  <2> QED BY <2>1, <2>2, <2>3
<1>3. CASE PushOutPacket
  <2>1. PICK c \in PushOutVictim(mem, push.cell[1], push.cell[2]) :
           mem' = PushedOut(mem, c)
    BY <1>3 DEF PushOutPacket
  <2>2. c \in Cells /\ mem.nBytes[c] > StaticBuffer
    BY <2>1 DEF PushOutVictim, Longest
  <2>3. mem.queue[c] # <<>>
    BY <1>0, <2>2, EmptyQueueHoldsNothing DEF Sound, Memory
  <2>4. mem'.queue = [mem.queue EXCEPT ![c] = Tail(@)]
    BY <1>0, <2>1, <2>2, <2>3, PushedOutSound
  <2>5. mem'.queue \in Shared!Losses(mem.queue)
    BY <2>2, <2>3, <2>4 DEF Shared!Losses
  <2> QED BY <2>5 DEF Shared!Next, Shared!Arrivals, Shared!Losses
<1>4. CASE PushOutDone
  <2> DEFINE c == push.cell
             size == push.size
  <2>1. /\ push \in Pushes /\ mem.used + push.freed <= MaxBuffer /\ push.freed >= size
    BY <1>4 DEF IInv, Typed, PushCredited, PushOutDone
  <2>2. c \in Cells /\ size \in Sizes /\ size \in Nat /\ push.freed \in Nat
    <3>1. c \in Cells /\ size \in Sizes /\ push.freed \in Nat
      BY <2>1 DEF Pushes
    <3> HIDE DEF c, size
    <3> QED BY <3>1, SizesNat
  <2>3. Admit(mem, abm[c[1]], c, size, FALSE)
    BY <1>4 DEF PushOutDone
  <2> HIDE DEF c, size
  <2>4. mem.used + size <= MaxBuffer
    <3>1. mem.used \in Int /\ MaxBuffer \in Int
      BY <1>0, MemoryAssumption DEF Sound, Memory
    <3> QED BY <2>1, <2>2, <3>1
  <2> QED BY <1>0, <2>2, <2>3, <2>4, AdmitShares
<1>5. ASSUME NEW p \in Ports, TransmitComplete(p)
      PROVE  [Shared!Next]_(mem.queue)
  <2>1. TransmitNext(p, mem, abm[p])
    BY <1>5 DEF TransmitComplete
  <2>2. \E f \in Shared!Losses(mem.queue) : mem'.queue \in Shared!Losses(f)
    BY <1>0, <2>1, TransmitNextLoses
  <2> QED BY <2>2 DEF Shared!Next, Shared!Arrivals
<1>6. CASE TokenAdd
  BY <1>0, <1>6 DEF TokenAdd, TokenAdded, Sound, Memory
<1>7. CASE \/ UNCHANGED vars
           \/ PushOutFailed
           \/ \E p \in Ports : InvokeUpdates(p)
           \/ \E c \in Cells, size \in Sizes : SendPushing(c, size)
  BY <1>7 DEF vars, PushOutFailed, InvokeUpdates, SendPushing
<1> QED BY <1>1, <1>2, <1>3, <1>4, <1>5, <1>6, <1>7 DEF Next, Send, PushOut

\* The device implements the shared buffer: every sub-queue stays first-in-
\* first-out, nothing is admitted without room, and only heads ever leave.
THEOREM SharesBufferCorrect == ASSUME StaticBuffer = 0 PROVE Spec => SharesBuffer
<1>1. Init => Shared!Init
  BY DEF Init, EmptyMemory, Shared!Init
<1>2. IInv /\ [Next]_vars => [Shared!Next]_(mem.queue)
  BY NextShares
<1> QED BY <1>1, <1>2, Invariance, PTL DEF Spec, SharesBuffer, Shared!Spec

-----------------------------------------------------------------------------
(* The ports: a port is idle only when it has nothing to send.  It takes   *)
(* that no queue can owe a whole quantum, else a walk of the sub-queues    *)
(* could end without a packet while there is one, and nothing would start  *)
(* the port again.                                                         *)

\* The discipline of every port is one that the code implements, and the
\* quantum is at least as large as a packet.
Servable ==
    /\ \A p \in Ports : DequeueType[p] # "WRR"
    /\ \A size \in Sizes : size <= Weight

\* Port p is at rest: no packet waits in memory m and no deficit is left.
AtRest(p, s, m) ==
    /\ Backlog(m, p) = {}
    /\ \A q \in UsedQueues : s[p].drr[q] = 0

PortInv ==
    \A p \in Ports :
        /\ Settled(DequeueType[p], sched[p], Sizes)
        /\ tx[p] = "READY" => AtRest(p, sched, mem)

LEMMA InitPortInv == Init => PortInv
<1> SUFFICES ASSUME Init, NEW p \in Ports
             PROVE  /\ Settled(DequeueType[p], sched[p], Sizes)
                    /\ AtRest(p, sched, mem)
  BY DEF PortInv
<1>1. sched[p] = InitSched /\ mem.queue = [c \in Cells |-> <<>>]
  BY DEF Init, EmptyMemory
<1>2. Settled(DequeueType[p], sched[p], Sizes)
  BY <1>1, InitSettled, MemoryAssumption
<1>3. Backlog(mem, p) = {}
  BY <1>1, UsedQueuesAreSubQueues DEF Backlog, Cells
<1>4. \A q \in UsedQueues : sched[p].drr[q] = 0
  BY <1>1, UsedQueuesAreSubQueues DEF InitSched
<1> QED BY <1>2, <1>3, <1>4 DEF AtRest

\* Packets that leave do not make a queue busy.
LEMMA LossesShrink ==
    ASSUME NEW f \in [Cells -> Seq(Sizes)], NEW g \in Shared!Losses(f)
    PROVE  \A c \in Cells : f[c] = <<>> => g[c] = <<>>
  BY DEF Shared!Losses

\* DropCheck() takes at most the head of one sub-queue, static buffer or not.
LEMMA KeptLoses ==
    ASSUME NEW m, Kept(m), NEW a, NEW p
    PROVE  DropChecked(m, a, p).queue \in Shared!Losses(m.queue)
<1>1. m \in Memory
  BY DEF Kept
<1>2. CASE DropChecked(m, a, p) = m
  BY <1>2 DEF Shared!Losses
<1>3. ASSUME NEW c \in HeadDropVictim(m, a, p), DropChecked(m, a, p) = HeadDropped(m, p, c)
      PROVE  DropChecked(m, a, p).queue \in Shared!Losses(m.queue)
  <2>1. c \in Cells /\ m.queue[c] # <<>>
    BY KeptVictims
  <2>2. \A r : HeadDropped(m, r, c).queue = [m.queue EXCEPT ![c] = Tail(@)]
    BY <1>1, DepartedQueue
  <2>3. HeadDropped(m, p, c).queue = [m.queue EXCEPT ![c] = Tail(@)]
    BY <2>2
  <2>4. DropChecked(m, a, p).queue = [m.queue EXCEPT ![c] = Tail(@)]
    BY <1>3, <2>3
  <2> QED BY <2>1, <2>4 DEF Shared!Losses
<1> QED BY <1>2, <1>3, DropCheckedOne

\* A port that has tried to transmit is busy, or at rest.
LEMMA TransmitNextPorts ==
    ASSUME Servable, sched \in [Ports -> SchedState], tx \in [Ports -> {"READY", "BUSY"}],
           NEW p \in Ports, NEW m, Kept(m), NEW a, TransmitNext(p, m, a),
           \A r \in Ports : Settled(DequeueType[r], sched[r], Sizes),
           \A r \in Ports \ {p} : tx[r] = "READY" => AtRest(r, sched, m)
    PROVE  PortInv'
<1> DEFINE n == DropChecked(m, a, p)
           B == Backlog(n, p)
           C == Choice(DequeueType[p], sched[p], B)
           Sched(size) == Served(DequeueType[p], sched[p], B, C, size)
<1>1. DequeueType[p] \in DequeueTypes \ {"WRR"} /\ Sizes \in SUBSET (Nat \ {0})
  BY MemoryAssumption DEF Servable
<1>2. sched[p] \in SchedState /\ Settled(DequeueType[p], sched[p], Sizes)
  OBVIOUS
<1>3. B \in SUBSET UsedQueues
  BY DEF Backlog
<1>4. B # {} => C # {}
  <2>1. \A q \in UsedQueues : sched[p].drr[q] + Weight > 0
    BY <1>1, <1>2, SettledSolvent DEF Servable
  <2> HIDE DEF B
  <2> QED BY <1>1, <1>2, <1>3, <2>1, ChoiceServes
<1>5. C \subseteq B
  BY <1>1, ChoiceBacklogged
<1>6. Kept(n) /\ n.queue \in Shared!Losses(m.queue)
  BY DropCheckedKept, KeptLoses
<1>7. ASSUME NEW size \in Nat, C # {} => size \in Sizes
      PROVE  Settled(DequeueType[p], Sched(size), Sizes)
  <2> HIDE DEF B
  <2> QED BY <1>1, <1>2, <1>3, <1>7, ServedSettled
<1>8. Serve(p, n, C, a)
  BY DEF TransmitNext
<1> HIDE DEF n, B, C
<1>9. ASSUME NEW s, s \in SchedState, Settled(DequeueType[p], s, Sizes),
             sched' = [sched EXCEPT ![p] = s],
             NEW ready \in {"READY", "BUSY"}, tx' = [tx EXCEPT ![p] = ready],
             mem'.queue \in Shared!Losses(n.queue),
             ready = "READY" => AtRest(p, sched', mem')
      PROVE  PortInv'
  <2> SUFFICES ASSUME NEW r \in Ports
               PROVE  /\ Settled(DequeueType[r], sched'[r], Sizes)
                      /\ tx'[r] = "READY" => AtRest(r, sched', mem')
    BY DEF PortInv, Settled, Current, Base, AtRest, Backlog
  <2>1. CASE r = p
    BY <1>9, <2>1
  <2>2. CASE r # p
    <3>1. sched'[r] = sched[r] /\ tx'[r] = tx[r]
      BY <1>9, <2>2
    <3>2. tx[r] = "READY" => AtRest(r, sched, m)
      BY <2>2
    <3>3. Backlog(mem', r) \subseteq Backlog(m, r)
      <4>1. m.queue \in [Cells -> Seq(Sizes)] /\ n.queue \in [Cells -> Seq(Sizes)]
        BY <1>6 DEF Kept, Memory
      <4>2. \A c \in Cells : m.queue[c] = <<>> => mem'.queue[c] = <<>>
        BY <1>6, <1>9, <4>1, LossesShrink
      <4> QED BY <4>2, UsedQueuesAreSubQueues DEF Backlog, Cells
    <3> QED BY <3>1, <3>2, <3>3 DEF AtRest
  <2> QED BY <2>1, <2>2
<1>10. CASE /\ C = {} /\ mem' = n
            /\ sched' = [sched EXCEPT ![p] = Served(DequeueType[p], @, Backlog(n, p), C, 0)]
            /\ tx' = [tx EXCEPT ![p] = "READY"]
  <2>1. sched' = [sched EXCEPT ![p] = Sched(0)] /\ Sched(0) \in SchedState
    BY <1>2, <1>10, ServedType DEF B
  <2>2. Settled(DequeueType[p], Sched(0), Sizes)
    BY <1>7, <1>10
  <2>3. B = {}
    BY <1>4, <1>10
  <2>4. \A q \in UsedQueues : Sched(0).drr[q] = 0
    <3>1. Sched(0) = Served(DequeueType[p], sched[p], {}, {}, 0)
      BY <1>10, <2>3
    <3>2. \A size \in Sizes : size <= Weight
      BY DEF Servable
    <3> QED BY <1>1, <1>2, <3>1, <3>2, IdleForfeits
  <2>5. mem'.queue \in Shared!Losses(n.queue)
    BY <1>10 DEF Shared!Losses
  <2> HIDE DEF Sched
  <2>6. AtRest(p, sched', mem')
    BY <1>10, <2>1, <2>3, <2>4 DEF AtRest, B
  <2> QED BY <1>9, <1>10, <2>1, <2>2, <2>5, <2>6
<1>11. ASSUME NEW q \in C,
              mem' = Departed(n, <<p, q>>),
              sched' = [sched EXCEPT ![p] = Served(DequeueType[p], @, Backlog(n, p), C, Head(n.queue[<<p, q>>]))],
              tx' = [tx EXCEPT ![p] = "BUSY"]
       PROVE  PortInv'
  <2> DEFINE size == Head(n.queue[<<p, q>>])
  <2>1. <<p, q>> \in Cells /\ n.queue[<<p, q>>] # <<>>
    BY <1>5, UsedQueuesAreSubQueues DEF B, Backlog, Cells
  <2>2. size \in Sizes
    BY <1>6, <2>1, PoppedKept
  <2>3. mem'.queue \in Shared!Losses(n.queue)
    <3>1. mem'.queue = [n.queue EXCEPT ![<<p, q>>] = Tail(@)]
      BY <1>6, <1>11, DepartedQueue DEF Kept
    <3> QED BY <2>1, <3>1 DEF Shared!Losses
  <2>4. sched' = [sched EXCEPT ![p] = Sched(size)]
    BY <1>11 DEF B
  <2> HIDE DEF size
  <2>5. size \in Nat
    BY <2>2, SizesNat
  <2>6. Settled(DequeueType[p], Sched(size), Sizes)
    BY <1>7, <2>2, <2>5
  <2>7. Sched(size) \in SchedState
    BY <1>2, <1>3, <1>5, <2>5, ServedType
  <2> HIDE DEF Sched
  <2> QED BY <1>9, <1>11, <2>3, <2>4, <2>6, <2>7
<1> QED BY <1>8, <1>10, <1>11 DEF Serve

\* The ports are as they were if nothing of theirs has changed but packets
\* have left.
LEMMA PortsKeep ==
    ASSUME PortInv, Kept(mem), mem'.queue \in Shared!Losses(mem.queue),
           UNCHANGED <<sched, tx>>
    PROVE  PortInv'
<1>1. mem.queue \in [Cells -> Seq(Sizes)]
  BY DEF Kept, Memory
<1>2. \A c \in Cells : mem.queue[c] = <<>> => mem'.queue[c] = <<>>
  BY <1>1, LossesShrink
<1>3. \A p \in Ports : Backlog(mem', p) \subseteq Backlog(mem, p)
  BY <1>2, UsedQueuesAreSubQueues DEF Backlog, Cells
<1> SUFFICES ASSUME NEW p \in Ports
             PROVE  /\ Settled(DequeueType[p], sched'[p], Sizes)
                    /\ tx'[p] = "READY" => AtRest(p, sched', mem')
  BY DEF PortInv, Settled, Current, Base, AtRest, Backlog
<1>4. /\ Settled(DequeueType[p], sched[p], Sizes)
      /\ tx[p] = "READY" => AtRest(p, sched, mem)
  BY DEF PortInv
<1> QED BY <1>3, <1>4 DEF AtRest

LEMMA AdmitPorts ==
    ASSUME Servable, PortInv, Kept(mem),
           sched \in [Ports -> SchedState], tx \in [Ports -> {"READY", "BUSY"}],
           NEW m, Kept(m), m.queue = mem.queue, NEW a,
           NEW c \in Cells, NEW size \in Sizes,
           NEW private \in BOOLEAN, Admit(m, a, c, size, private)
    PROVE  PortInv'
<1> DEFINE n == Arrived(m, c, size, private)
<1>1. Kept(n) /\ c[1] \in Ports
  BY ArrivedKept, CellParts
<1>2. n.queue = [mem.queue EXCEPT ![c] = Append(@, size)]
  BY DEF Arrived, Pushed, AddUsed, Kept, Memory
<1>3. mem.queue \in [Cells -> Seq(Sizes)] /\ c = <<c[1], c[2]>>
  BY CellParts DEF Kept, Memory
<1>4. \A p \in Ports \ {c[1]} : Backlog(n, p) = Backlog(mem, p)
  <2> SUFFICES ASSUME NEW p \in Ports \ {c[1]}, NEW q \in UsedQueues
               PROVE  n.queue[<<p, q>>] = mem.queue[<<p, q>>]
    BY DEF Backlog
  <2> HIDE DEF n
  <2>1. <<p, q>> \in Cells /\ <<p, q>> # c
    BY <1>3, UsedQueuesAreSubQueues DEF Cells
  <2> QED BY <1>2, <1>3, <2>1
<1> HIDE DEF n
<1>5. CASE mem' = m /\ UNCHANGED <<sched, tx>>
  <2>1. mem'.queue \in Shared!Losses(mem.queue)
    BY <1>5 DEF Shared!Losses
  <2> QED BY <1>5, <2>1, PortsKeep
<1>6. CASE tx[c[1]] = "BUSY" /\ mem' = n /\ UNCHANGED <<sched, tx>>
  <2> SUFFICES ASSUME NEW p \in Ports
               PROVE  /\ Settled(DequeueType[p], sched'[p], Sizes)
                      /\ tx'[p] = "READY" => AtRest(p, sched', mem')
    BY DEF PortInv, Settled, Current, Base, AtRest, Backlog
  <2>1. /\ Settled(DequeueType[p], sched[p], Sizes)
        /\ tx[p] = "READY" => AtRest(p, sched, mem)
    BY DEF PortInv
  <2>2. tx[p] = "READY" => p # c[1]
    BY <1>6
  <2> QED BY <1>4, <1>6, <2>1, <2>2 DEF AtRest
<1>7. CASE TransmitNext(c[1], n, a)
  <2>1. \A r \in Ports : Settled(DequeueType[r], sched[r], Sizes)
    BY DEF PortInv
  <2>2. \A r \in Ports \ {c[1]} : tx[r] = "READY" => AtRest(r, sched, n)
    BY <1>4 DEF PortInv, AtRest
  <2> QED BY <1>1, <1>7, <2>1, <2>2, TransmitNextPorts
<1> QED BY <1>5, <1>6, <1>7 DEF Admit, n

LEMMA NextPortInv ==
    ASSUME Servable, StaticInv, PortInv, [Next]_vars
    PROVE  PortInv'
<1>0. /\ Kept(mem) /\ sched \in [Ports -> SchedState]
      /\ tx \in [Ports -> {"READY", "BUSY"}] /\ push \in Pushes \cup {NoPush}
  BY DEF StaticInv, Typed
<1>1. ASSUME NEW c \in Cells, NEW size \in Sizes, SendStatic(c, size)
      PROVE  PortInv'
  <2>1. Admit(mem, abm[c[1]], c, size, TRUE)
    BY <1>1 DEF SendStatic
  <2> QED BY <1>0, <2>1, AdmitPorts
<1>2. ASSUME NEW c \in Cells, NEW size \in Sizes, SendShared(c, size)
      PROVE  PortInv'
  <2> DEFINE m == TokensStarted
             a == UpdatesStarted(c[1])
  <2>1. Kept(m) /\ m.queue = mem.queue
    BY <1>0, TokenAddedKept DEF TokensStarted
  <2>2. \/ Admit(m, a, c, size, FALSE)
        \/ mem' = m /\ UNCHANGED <<sched, tx>>
    BY <1>2 DEF SendShared
  <2> HIDE DEF m, a
  <2>3. CASE Admit(m, a, c, size, FALSE)
    BY <1>0, <2>1, <2>3, AdmitPorts
  <2>4. CASE mem' = m /\ UNCHANGED <<sched, tx>>
    <3>1. mem'.queue \in Shared!Losses(mem.queue)
      BY <2>1, <2>4 DEF Shared!Losses
    <3> QED BY <1>0, <2>4, <3>1, PortsKeep
  <2> QED BY <2>2, <2>3, <2>4
<1>3. CASE PushOutPacket
  <2>1. PICK c \in PushOutVictim(mem, push.cell[1], push.cell[2]) :
           mem' = PushedOut(mem, c)
    BY <1>3 DEF PushOutPacket
  <2>2. c \in Cells /\ mem.nBytes[c] > StaticBuffer
    BY <2>1 DEF PushOutVictim, Longest
  <2>3. mem.queue[c] # <<>>
    BY <1>0, <2>2, KeptHolds
  <2>4. mem'.queue = [mem.queue EXCEPT ![c] = Tail(@)]
    BY <1>0, <2>1, DepartedQueue DEF Kept
  <2>5. mem'.queue \in Shared!Losses(mem.queue)
    BY <2>2, <2>3, <2>4 DEF Shared!Losses
  <2>6. UNCHANGED <<sched, tx>>
    BY <1>3 DEF PushOutPacket
  <2> QED BY <1>0, <2>5, <2>6, PortsKeep
<1>4. CASE PushOutDone
  <2> DEFINE c == push.cell
             size == push.size
  <2>1. c \in Cells /\ size \in Sizes
    BY <1>0, <1>4 DEF PushOutDone, Pushes
  <2>2. Admit(mem, abm[c[1]], c, size, FALSE)
    BY <1>4 DEF PushOutDone
  <2> HIDE DEF c, size
  <2> QED BY <1>0, <2>1, <2>2, AdmitPorts
<1>5. ASSUME NEW p \in Ports, TransmitComplete(p)
      PROVE  PortInv'
  <2>1. TransmitNext(p, mem, abm[p])
    BY <1>5 DEF TransmitComplete
  <2>2. \A r \in Ports : /\ Settled(DequeueType[r], sched[r], Sizes)
                         /\ tx[r] = "READY" => AtRest(r, sched, mem)
    BY DEF PortInv
  <2> QED BY <1>0, <2>1, <2>2, TransmitNextPorts
<1>6. CASE \/ TokenAdd \/ PushOutFailed \/ UNCHANGED vars
           \/ \E p \in Ports : InvokeUpdates(p)
           \/ \E c \in Cells, size \in Sizes : SendPushing(c, size)
  <2>1. UNCHANGED <<sched, tx>>
    BY <1>6 DEF TokenAdd, vars, PushOutFailed, InvokeUpdates, SendPushing
  <2>2. mem'.queue = mem.queue
    BY <1>0, <1>6, TokenAddedKept
       DEF TokenAdd, vars, PushOutFailed, InvokeUpdates, SendPushing
  <2>3. mem'.queue \in Shared!Losses(mem.queue)
    BY <2>2 DEF Shared!Losses
  <2> QED BY <1>0, <2>1, <2>3, PortsKeep
<1> QED BY <1>1, <1>2, <1>3, <1>4, <1>5, <1>6 DEF Next, Send, PushOut

LEMMA PortInvariance ==
    ASSUME Servable PROVE Spec => []PortInv
<1>1. Init => PortInv
  BY InitPortInv
<1>2. StaticInv /\ PortInv /\ [Next]_vars => PortInv'
  BY NextPortInv
<1> QED BY <1>1, <1>2, StaticCorrect, PTL DEF Spec

\* No port stops with packets to send, whoever else drops, pushes out or
\* admits packets meanwhile (SendSwitch, TransmitCompleteSwitch).
THEOREM WorkConservedCorrect ==
    ASSUME Servable PROVE Spec => []WorkConserved
<1>1. PortInv => WorkConserved
  BY DEF PortInv, AtRest, WorkConserved
<1> QED BY <1>1, PortInvariance, PTL

\* No queue of an idle port carries credit or debt into its next busy period
\* (DequeueDRR, DequeuePQDRR).
THEOREM IdleDeficitsClearCorrect ==
    ASSUME Servable PROVE Spec => []IdleDeficitsClear
<1>1. PortInv => IdleDeficitsClear
  BY DEF PortInv, AtRest, IdleDeficitsClear
<1> QED BY <1>1, PortInvariance, PTL

-----------------------------------------------------------------------------
(* Push-out: the loop of AcceptPacket() starts only when the packet does   *)
(* not fit, so it runs out of victims only if it has freed the whole       *)
(* buffer and still not enough; that takes a packet of half the buffer.    *)

\* The packet that pushes others out would not have fitted without.
PushJustified == push # NoPush => mem.used + push.freed + push.size > MaxBuffer

LEMMA SomeCell == Cells # {}
<1>1. NPorts \in Nat \ {0} /\ QCnt \in Nat \ {0}
  BY MemoryAssumption, SchedulerAssumption
<1>2. 1 \in Ports /\ 0 \in SubQueues
  BY <1>1 DEF Ports, SubQueues
<1>3. <<1, 0>> \in Ports \X SubQueues
  BY <1>2
<1> QED BY <1>3 DEF Cells

\* A set of cells has a longest one, the last of them in the scan order.
LEMMA LongestExists ==
    ASSUME NEW m, Sound(m)
    PROVE  Longest(m, Cells) # {}
<1> DEFINE K == NPorts * QCnt
           f == [c \in Cells |-> m.used - m.nBytes[c]]
           S == {c \in Cells : \A d \in Cells : f[c] <= f[d]}
           g == [c \in S |-> K - Slot(c)]
<1>1. \A c \in Cells : m.nBytes[c] \in Nat /\ m.nBytes[c] <= m.used
  BY QueueBelowUsed
<1>2. m.used \in Int
  BY DEF Sound, Memory
<1>3. f \in [Cells -> Nat]
  BY <1>1, <1>2
<1>4. Cells # {}
  BY SomeCell
<1>5. S # {}
  <2>1. PICK c \in Cells : \A d \in Cells : f[c] <= f[d]
    <3> HIDE DEF f
    <3> QED BY <1>3, <1>4, LeastValue
  <2> QED BY <2>1
<1>6. ASSUME NEW c \in Cells PROVE Slot(c) \in Int /\ Slot(c) <= K
  <2>1. c[1] \in 1 .. NPorts /\ c[2] \in 0 .. QCnt - 1 /\ NPorts \in Nat /\ QCnt \in Nat
    BY CellParts, MemoryAssumption, SchedulerAssumption DEF Ports, SubQueues
  <2>2. c[1] * QCnt <= NPorts * QCnt
    <3>1. \A x, y, z \in Nat : x <= y => x * z <= y * z
      OBVIOUS
    <3> QED BY <2>1, <3>1
  <2>3. Slot(c) = c[1] * QCnt - QCnt + c[2]
    BY <2>1 DEF Slot
  <2>4. c[1] * QCnt \in Int /\ NPorts * QCnt \in Int
    BY <2>1
  <2> QED BY <2>1, <2>2, <2>3, <2>4
<1>7. g \in [S -> Nat]
  <2>1. K \in Int
    BY MemoryAssumption, SchedulerAssumption
  <2> HIDE DEF K
  <2> QED BY <1>6, <2>1
<1>8. PICK c \in S : \A d \in S : g[c] <= g[d]
  <2> HIDE DEF g, S
  <2> QED BY <1>5, <1>7, LeastValue
<1>9. ASSUME NEW d \in Cells
      PROVE  \/ m.nBytes[d] < m.nBytes[c]
             \/ m.nBytes[d] = m.nBytes[c] /\ Slot(d) <= Slot(c)
  <2>1. c \in Cells /\ f[c] <= f[d] /\ \A e \in Cells : f[c] <= f[e]
    BY <1>8
  <2>2. m.nBytes[d] <= m.nBytes[c]
    BY <1>1, <1>2, <2>1
  <2>3. CASE m.nBytes[d] = m.nBytes[c]
    <3>1. f[d] = f[c]
      BY <2>1, <2>3
    <3>2. d \in S
      <4> HIDE DEF f
      <4> QED BY <2>1, <3>1
    <3>3. g[c] <= g[d]
      BY <1>8, <3>2
    <3>4. K \in Int
      BY MemoryAssumption, SchedulerAssumption
    <3>5. Slot(c) \in Int /\ Slot(d) \in Int
      BY <1>6, <2>1
    <3>6. g[c] = K - Slot(c) /\ g[d] = K - Slot(d)
      BY <1>8, <3>2
    <3> HIDE DEF g, K
    <3> QED BY <2>3, <3>3, <3>4, <3>5, <3>6
  <2> QED BY <1>1, <2>1, <2>2, <2>3
<1> QED BY <1>8, <1>9 DEF Longest

\* A memory that holds a byte has a sub-queue that holds one.
LEMMA LongestHolds ==
    ASSUME NEW m, Sound(m), m.used > 0, NEW c \in Longest(m, Cells)
    PROVE  m.nBytes[c] > 0
<1> SUFFICES ASSUME m.nBytes[c] <= 0 PROVE FALSE
  BY DEF Longest, Sound, Memory
<1>1. m.nBytes \in [Cells -> Nat] /\ m.used = BytesOf(m.nBytes, Cells)
  BY DEF Sound, Memory, Accounted
<1>2. \A d \in Cells : m.nBytes[d] = 0
  <2> SUFFICES ASSUME NEW d \in Cells PROVE m.nBytes[d] = 0
    OBVIOUS
  <2>1. m.nBytes[d] <= m.nBytes[c] /\ c \in Cells
    <3>1. c \in Cells /\ (m.nBytes[d] < m.nBytes[c] \/ m.nBytes[d] = m.nBytes[c])
      BY DEF Longest
    <3> QED BY <1>1, <3>1
  <2> QED BY <1>1, <2>1
<1>3. UNION {{x} \X (1 .. m.nBytes[x]) : x \in Cells} = {}
  BY <1>2
<1>4. BytesOf(m.nBytes, Cells) = 0
  BY <1>3, FS_EmptySet DEF BytesOf
<1> QED BY <1>1, <1>4

LEMMA PushJustifiedKeeps ==
    ASSUME StaticBuffer = 0, IInv, PushJustified, [Next]_vars
    PROVE  PushJustified'
<1>0. /\ Sound(mem) /\ push \in Pushes \cup {NoPush} /\ MaxBuffer \in Nat
      /\ mem.used \in Int
  BY MemoryAssumption DEF IInv, Typed, Sound, Memory
<1>1. ASSUME NEW c \in Cells, NEW size \in Sizes, SendPushing(c, size)
      PROVE  PushJustified'
  <2>1. /\ mem' = mem /\ push' = [cell |-> c, size |-> size, freed |-> 0]
        /\ ~(mem.used + size <= MaxBuffer) /\ size \in Nat
    BY <1>1, SizesNat DEF SendPushing, Fits
  <2>2. mem.used + 0 + size > MaxBuffer
    BY <1>0, <2>1
  <2> QED BY <2>1, <2>2 DEF PushJustified
<1>2. CASE PushOutPacket
  <2>1. PICK c \in PushOutVictim(mem, push.cell[1], push.cell[2]) :
           /\ mem' = PushedOut(mem, c)
           /\ push' = [push EXCEPT !.freed = @ + Head(mem.queue[c])]
    BY <1>2 DEF PushOutPacket
  <2> DEFINE size == Head(mem.queue[c])
  <2>2. c \in Cells /\ mem.nBytes[c] > StaticBuffer
    BY <2>1 DEF PushOutVictim, Longest
  <2>3. mem.queue[c] # <<>>
    BY <1>0, <2>2, EmptyQueueHoldsNothing DEF Sound, Memory
  <2>4. mem'.used = mem.used - size /\ size \in Sizes
    BY <1>0, <2>1, <2>2, <2>3, PushedOutSound
  <2>5. push' = [push EXCEPT !.freed = push.freed + size]
    BY <2>1
  <2>6. push # NoPush /\ push \in Pushes
    BY <1>0, <1>2 DEF PushOutPacket
  <2> HIDE DEF size
  <2>7. size \in Nat /\ push.freed \in Nat /\ push.size \in Nat
    <3>1. push.size \in Sizes /\ push.freed \in Nat
      BY <2>6 DEF Pushes
    <3> QED BY <2>4, <3>1, SizesNat
  <2>8. push'.freed = push.freed + size /\ push'.size = push.size
    BY <2>5, <2>6 DEF Pushes
  <2>9. mem.used + push.freed + push.size > MaxBuffer
    BY <2>6 DEF PushJustified
  <2>10. mem'.used + push'.freed + push'.size > MaxBuffer
    BY <1>0, <2>4, <2>7, <2>8, <2>9
  <2> QED BY <2>10 DEF PushJustified
<1>3. CASE push' = NoPush
  BY <1>3 DEF PushJustified
<1>4. CASE UNCHANGED vars
  BY <1>4 DEF vars, PushJustified
<1>5. ASSUME NEW c \in Cells, NEW size \in Sizes,
             SendStatic(c, size) \/ SendShared(c, size)
      PROVE  push' = NoPush
  BY <1>5 DEF SendStatic, SendShared, Arrival
<1>6. CASE \/ PushOutFailed \/ PushOutDone \/ TokenAdd
           \/ \E p \in Ports : TransmitComplete(p) \/ InvokeUpdates(p)
  BY <1>6 DEF PushOutFailed, PushOutDone, TokenAdd, TransmitComplete, InvokeUpdates,
              PushJustified
<1> QED BY <1>1, <1>2, <1>3, <1>4, <1>5, <1>6 DEF Next, Send, PushOut

\* AcceptPacket() does not return false in the middle of its push-out loop,
\* having evicted packets for one it then refuses, when no packet takes more
\* than about half the buffer.
THEOREM PushOutSucceedsCorrect ==
    ASSUME StaticBuffer = 0, \A size \in Sizes : 2 * size <= MaxBuffer + 1
    PROVE  Spec => []PushOutSucceeds
<1>1. Init => PushJustified
  BY DEF Init, PushJustified
<1>2. IInv /\ PushJustified /\ [Next]_vars => PushJustified'
  BY PushJustifiedKeeps
<1>3. IInv /\ PushJustified => PushOutSucceeds
  <2> SUFFICES ASSUME IInv, PushJustified, push # NoPush, push.freed < push.size,
                      DequeueType[push.cell[1]] = "PQ" => push.cell[2] = 0
               PROVE  PushOutVictim(mem, push.cell[1], push.cell[2]) # {}
    BY DEF PushOutSucceeds
  <2>1. Sound(mem) /\ push \in Pushes /\ mem.used \in Int /\ MaxBuffer \in Nat
    BY MemoryAssumption DEF IInv, Typed, Sound, Memory
  <2>2. push.size \in Sizes /\ push.freed \in Nat
    BY <2>1 DEF Pushes
  <2>3. push.size \in Nat /\ 2 * push.size <= MaxBuffer + 1
    BY <2>2, SizesNat
  <2>4. mem.used > 0
    <3>1. mem.used + push.freed + push.size > MaxBuffer
      BY DEF PushJustified
    <3> QED BY <2>1, <2>2, <2>3, <3>1
  <2>5. PICK c \in Longest(mem, Cells) : TRUE
    BY <2>1, LongestExists
  <2>6. mem.nBytes[c] > StaticBuffer
    BY <2>1, <2>4, LongestHolds
  <2>7. c \in Cells
    BY DEF Longest
  <2>8. c[2] \in Nat
    BY <2>7, CellParts DEF SubQueues
  <2>9. DequeueType[push.cell[1]] = "PQ" => c[2] >= push.cell[2]
    BY <2>8
  <2> QED BY <2>6, <2>9 DEF PushOutVictim
<1> QED BY <1>1, <1>2, <1>3, Invariance, PTL DEF Spec

=============================================================================
