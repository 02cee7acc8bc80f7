--------------------------- MODULE TcpSocketProofs ---------------------------
(***************************************************************************)
(* What holds of a TCP connection, and of its receiving end alone facing   *)
(* any peer.  Three parts: the receiver, the scoreboard of the sender, the *)
(* sender and the connection.                                              *)
(*                                                                         *)
(* The receiver.  RxExact and SackTruthful are not inductive: how Part()   *)
(* trims a packet, and how far the next byte advances, depend on how the   *)
(* stored packets lie.  The invariant (Whole) adds that the packets are    *)
(* laid out one behind the other (Laid), that everything that is ready is  *)
(* stored and nothing before it, and that the next byte expected is not,   *)
(* so that a packet is never stored up to it.  The blocks of the SACK list *)
(* are stored bytes beyond it.                                             *)
(*                                                                         *)
(* The scoreboard.  Board says that the items tile what was sent and not   *)
(* acknowledged, that the counters agree with the marks, and where the     *)
(* iterator is.  Every operation of TcpTxBuffer keeps it; two relations    *)
(* say what else an operation leaves alone: Steady for those that send     *)
(* (split, merge, mark, append), Noted for those that only mark.           *)
(*                                                                         *)
(* The sender.  Sound(c) is what holds of the socket within a handler, at  *)
(* every call; Control(c) ties the counter of duplicate ACKs and the       *)
(* recovery point to the congestion state; Armed(c) is about the timer.    *)
(* Sends and Kept say what one packet, and one handler, may change.        *)
(*                                                                         *)
(* The connection.  That the head is never marked sacked needs the ACKs in *)
(* flight: an ACK may be old, and so may its blocks.  Linked says of them  *)
(* that a block lies beyond the ACK that carries it, and that a byte some  *)
(* ACK expects is in no block of an ACK that expects less (Ordered), nor   *)
(* marked by the sender (Ahead), for the receiver did not have it then.    *)
(*                                                                         *)
(* The operators that choose (FirstMissing, Holder, Selected, ItemAt) are  *)
(* shown to find what they look for first: a set of numbers has a least    *)
(* element.  The loops that are recursive functions (joining and marking   *)
(* blocks, sending) exist for the same reason, which, applied to the first *)
(* turn that goes wrong, also shows what their turns keep.                 *)
(***************************************************************************)
EXTENDS TcpSocket, ByteCountProofs

-----------------------------------------------------------------------------
(* Packets laid out one after the other.                                   *)

\* The bytes k, k + 1, ..., n of them.
Consecutive(k, n) == [i \in 1 .. n |-> k + i - 1]

\* Every packet is where its bytes belong, and none overlaps another.
Laid(b) ==
    /\ DOMAIN b.data \in SUBSET Nat
    /\ \E limit \in Nat : \A k \in DOMAIN b.data : After(b, k) <= limit
    /\ \A k \in DOMAIN b.data :
          /\ Len(b.data[k]) \in Nat \ {0}
          /\ b.data[k] = Consecutive(k, Len(b.data[k]))
    /\ \A j, k \in DOMAIN b.data : j < k => After(b, j) <= k

LEMMA ConsecutiveIs ==
    ASSUME NEW k \in Nat, NEW n \in Nat
    PROVE  /\ Consecutive(k, n) \in Seq(Nat)
           /\ Len(Consecutive(k, n)) = n
           /\ \A i \in 1 .. n : Consecutive(k, n)[i] = k + i - 1
  BY DEF Consecutive

\* A part of consecutive bytes.
LEMMA ConsecutivePart ==
    ASSUME NEW k \in Nat, NEW n \in Nat, NEW i \in 1 .. n, NEW j \in i - 1 .. n
    PROVE  SubSeq(Consecutive(k, n), i, j) = Consecutive(k + i - 1, j - i + 1)
<1> DEFINE s == Consecutive(k, n)
           t == SubSeq(s, i, j)
           u == Consecutive(k + i - 1, j - i + 1)
<1>1. \A x \in i .. j : s[x] \in Nat /\ s[x] = k + x - 1
  BY DEF Consecutive
<1>2. /\ t \in Seq(Nat)
      /\ Len(t) = IF i <= j THEN j - i + 1 ELSE 0
      /\ \A x \in 1 .. j - i + 1 : t[x] = s[i + x - 1]
  <2> HIDE DEF s
  <2> QED BY <1>1, SubSeqProperties
<1>3. u \in Seq(Nat) /\ Len(u) = j - i + 1 /\ \A x \in 1 .. j - i + 1 : u[x] = k + i - 1 + x - 1
  <2>1. k + i - 1 \in Nat /\ j - i + 1 \in Nat
    OBVIOUS
  <2> QED BY <2>1, ConsecutiveIs
<1>4. Len(t) = Len(u) /\ \A x \in 1 .. Len(t) : t[x] = u[x]
  <2>1. Len(t) = j - i + 1
    BY <1>2
  <2>2. ASSUME NEW x \in 1 .. j - i + 1 PROVE t[x] = u[x]
    <3>1. i + x - 1 \in i .. j
      OBVIOUS
    <3>2. t[x] = s[i + x - 1] /\ s[i + x - 1] = k + (i + x - 1) - 1
      BY <1>1, <1>2, <3>1
    <3>3. u[x] = k + i - 1 + x - 1
      BY <1>3
    <3> HIDE DEF s, t, u
    <3> QED BY <3>2, <3>3
  <2> QED BY <1>3, <2>1, <2>2
<1> HIDE DEF t, u
<1>5. t = u
  BY <1>2, <1>3, <1>4, SeqEqual
<1> QED BY <1>5 DEF t, u

LEMMA ConsecutiveJoined ==
    ASSUME NEW k \in Nat, NEW n \in Nat, NEW m \in Nat
    PROVE  Consecutive(k, n) \o Consecutive(k + n, m) = Consecutive(k, n + m)
<1> DEFINE s == Consecutive(k, n)
           t == Consecutive(k + n, m)
           u == Consecutive(k, n + m)
<1>1. s \in Seq(Nat) /\ Len(s) = n /\ \A i \in 1 .. n : s[i] = k + i - 1
  BY ConsecutiveIs
<1>2. t \in Seq(Nat) /\ Len(t) = m /\ \A i \in 1 .. m : t[i] = k + n + i - 1
  <2>1. k + n \in Nat
    OBVIOUS
  <2> QED BY <2>1, ConsecutiveIs
<1>3. u \in Seq(Nat) /\ Len(u) = n + m /\ \A i \in 1 .. n + m : u[i] = k + i - 1
  <2>1. n + m \in Nat
    OBVIOUS
  <2> QED BY <2>1, ConsecutiveIs
<1> HIDE DEF s, t, u
<1>4. /\ s \o t \in Seq(Nat)
      /\ Len(s \o t) = n + m
      /\ \A i \in 1 .. n + m : (s \o t)[i] = IF i <= n THEN s[i] ELSE t[i - n]
  <2>1. /\ s \o t \in Seq(Nat)
        /\ Len(s \o t) = Len(s) + Len(t)
        /\ \A i \in 1 .. Len(s) + Len(t) :
              (s \o t)[i] = IF i <= Len(s) THEN s[i] ELSE t[i - Len(s)]
    <3>1. s \in Seq(Nat) /\ t \in Seq(Nat)
      BY <1>1, <1>2
    <3> QED BY <3>1, ConcatProperties
  <2> QED BY <1>1, <1>2, <2>1
<1>5. ASSUME NEW i \in 1 .. n + m PROVE (s \o t)[i] = u[i]
  <2>1. CASE i <= n
    BY <1>1, <1>3, <1>4, <2>1
  <2>2. CASE i > n
    <3> DEFINE j == i - n
    <3>1. j \in 1 .. m /\ i = n + j
      BY <2>2
    <3>2. (s \o t)[i] = t[j]
      BY <1>4, <2>2
    <3> HIDE DEF j
    <3>3. t[j] = k + n + j - 1
      BY <1>2, <3>1
    <3>4. u[i] = k + i - 1
      BY <1>3
    <3> QED BY <3>1, <3>2, <3>3, <3>4
  <2>3. i <= n \/ i > n
    OBVIOUS
  <2> QED BY <2>1, <2>2, <2>3
<1>6. s \o t = u
  BY <1>3, <1>4, <1>5, SeqEqual
<1> QED BY <1>6 DEF s, t, u

LEMMA LaidAfter ==
    ASSUME NEW b, Laid(b), NEW k \in DOMAIN b.data
    PROVE  k \in Nat /\ After(b, k) \in Nat /\ After(b, k) > k
  BY DEF Laid, After

LEMMA StoredIs ==
    ASSUME NEW b
    PROVE  \A x : x \in Stored(b) <=> \E k \in DOMAIN b.data : x \in Bytes(b, k)
  BY DEF Stored, BytesIn

LEMMA StoredFinite ==
    ASSUME NEW b, Laid(b)
    PROVE  /\ Stored(b) \in SUBSET Nat
           /\ IsFiniteSet(Stored(b))
           /\ Cardinality(Stored(b)) \in Nat
<1>1. PICK limit \in Nat : \A k \in DOMAIN b.data : After(b, k) <= limit
  BY DEF Laid
<1>2. ASSUME NEW x \in Stored(b) PROVE x \in Nat /\ x <= limit
  <2>1. PICK k \in DOMAIN b.data : x \in Bytes(b, k)
    BY StoredIs
  <2> QED BY <1>1, <2>1, LaidAfter DEF Bytes
<1>3. Stored(b) \in SUBSET Nat
  BY <1>2
<1>4. IsFiniteSet(Stored(b))
  BY <1>2, <1>3, FS_BoundedSetOfNaturals
<1> QED BY <1>3, <1>4, FS_CardinalityType

\* FirstMissing() finds a byte: the one after the last packet is missing.
LEMMA FirstMissingIs ==
    ASSUME NEW b, Laid(b), NEW s \in Nat
    PROVE  LET m == FirstMissing(b, s)
           IN  m \in Nat /\ m >= s /\ m \notin Stored(b) /\ s .. m - 1 \subseteq Stored(b)
<1> DEFINE C == {s} \cup {After(b, k) : k \in DOMAIN b.data}
           M == {x \in Nat : x >= s /\ x \notin Stored(b)}
           Good(x) == x >= s /\ x \notin Stored(b) /\ s .. x - 1 \subseteq Stored(b)
<1>1. C \in SUBSET Nat
  BY LaidAfter
<1>2. M # {}
  <2>1. PICK limit \in Nat : \A k \in DOMAIN b.data : After(b, k) <= limit
    BY DEF Laid
  <2>2. limit + s \in Nat /\ limit + s >= s
    OBVIOUS
  <2>3. ASSUME limit + s \in Stored(b) PROVE FALSE
    <3>1. PICK k \in DOMAIN b.data : limit + s \in Bytes(b, k)
      BY <2>3, StoredIs
    <3> QED BY <2>1, <3>1, LaidAfter DEF Bytes
  <2> QED BY <2>2, <2>3
<1>3. PICK m \in M : \A y \in M : m <= y
  BY <1>2, LeastNat
<1>4. Good(m)
  BY <1>3
<1>5. m \in C
  <2>1. CASE m = s
    BY <2>1
  <2>2. CASE m # s
    <3>1. m - 1 \in Nat /\ m - 1 >= s /\ m - 1 \in Stored(b)
      BY <1>3, <2>2
    <3>2. PICK k \in DOMAIN b.data : m - 1 \in Bytes(b, k)
      BY <3>1, StoredIs
    <3>3. m \notin Bytes(b, k)
      BY <1>3, StoredIs
    <3>4. m = After(b, k)
      BY <1>3, <3>2, <3>3, LaidAfter DEF Bytes
    <3> QED BY <3>4
  <2> QED BY <2>1, <2>2
<1>6. FirstMissing(b, s) = CHOOSE x \in C : Good(x)
  BY DEF FirstMissing
<1> HIDE DEF C, Good
<1>7. FirstMissing(b, s) \in C /\ Good(FirstMissing(b, s))
  BY <1>4, <1>5, <1>6
<1> QED BY <1>1, <1>7 DEF Good

\* The packet that holds a stored byte.
LEMMA HolderIs ==
    ASSUME NEW b, Laid(b), NEW k \in DOMAIN b.data, NEW x \in Bytes(b, k)
    PROVE  Holder(b, x) = k
<1> DEFINE S == {j \in DOMAIN b.data : j <= x}
           h == Max(S)
<1>1. x \in Nat /\ k <= x /\ x < After(b, k)
  BY LaidAfter DEF Bytes
<1>2. S \in SUBSET Nat /\ k \in S
  BY <1>1 DEF Laid
<1>3. h \in S /\ \A j \in S : j <= h
  <2>1. \A j \in S : j <= x
    OBVIOUS
  <2> HIDE DEF S
  <2> QED BY <1>1, <1>2, <2>1, MaxIs
<1>4. Holder(b, x) = h
  BY DEF Holder
<1> HIDE DEF h
<1>5. h \in DOMAIN b.data /\ h <= x /\ k <= h /\ h \in Nat
  BY <1>2, <1>3
<1>6. k < h => After(b, k) <= h
  BY <1>5 DEF Laid
<1> QED BY <1>1, <1>4, <1>5, <1>6, LaidAfter

-----------------------------------------------------------------------------
(* The SACK list.  Blocks(H, s) are those that cover only bytes of H and   *)
(* lie beyond the byte s.                                                  *)

Blocks(H, s) ==
    {b \in Nat \X Nat : b[1] < b[2] /\ b[1] > s /\ b[1] .. b[2] - 1 \subseteq H}

LEMMA JoinedOnceKeeps ==
    ASSUME NEW H, NEW s \in Nat, NEW list \in Seq(Blocks(H, s)), list # <<>>
    PROVE  /\ JoinedOnce(list) \in Seq(Blocks(H, s))
           /\ JoinedOnce(list) # <<>>
<1> DEFINE B == Blocks(H, s)
           b == Head(list)
           touching == {i \in 2 .. Len(list) : Touches(b, list[i])}
           j == Min(touching)
           c == list[j]
           merged == IF b[1] = c[2] THEN <<c[1], b[2]>> ELSE <<b[1], c[2]>>
           rest == RemoveAt(Tail(list), j - 1)
<1>1. b \in B /\ Tail(list) \in Seq(B) /\ Len(Tail(list)) = Len(list) - 1 /\ Len(list) \in Nat
  <2>1. list \in Seq(B)
    OBVIOUS
  <2> HIDE DEF B
  <2> QED BY <2>1, HeadTailProperties, LenProperties
<1>2. JoinedOnce(list) = IF touching = {} THEN list ELSE <<merged>> \o rest
  BY DEF JoinedOnce
<1>3. CASE touching # {}
  <2>1. j \in touching
    <3>1. touching \in SUBSET Nat
      BY <1>1
    <3> HIDE DEF touching
    <3> QED BY <1>3, <3>1, MinIs
  <2>2. j \in 2 .. Len(list) /\ Touches(b, c)
    BY <2>1
  <2>3. c \in B
    BY <1>1, <2>2, ElementOfSeq
  <2> HIDE DEF b, c, j
  <2>4. merged \in B
    BY <1>1, <2>2, <2>3, SMTT(30) DEF Touches, Blocks
  <2>5. rest \in Seq(B)
    <3> DEFINE t == Tail(list)
    <3>1. t \in Seq(B) /\ Len(t) \in Nat /\ j - 1 \in 1 .. Len(t)
      BY <1>1, <2>2
    <3>2. \A i \in 1 .. Len(t) : t[i] \in B
      BY <3>1, ElementOfSeq
    <3> HIDE DEF t, B
    <3>3. SubSeq(t, 1, j - 1 - 1) \in Seq(B)
      BY <3>1, <3>2, SubSeqProperties
    <3>4. SubSeq(t, j - 1 + 1, Len(t)) \in Seq(B)
      BY <3>1, <3>2, SubSeqProperties
    <3>5. RemoveAt(t, j - 1) \in Seq(B)
      BY <3>3, <3>4, ConcatProperties DEF RemoveAt
    <3> QED BY <3>5 DEF t
  <2> HIDE DEF B, merged, rest
  <2>6. <<merged>> \in Seq(B) /\ Len(<<merged>>) = 1
    BY <2>4
  <2>7. /\ <<merged>> \o rest \in Seq(B) /\ Len(rest) \in Nat
        /\ Len(<<merged>> \o rest) = 1 + Len(rest)
    BY <2>5, <2>6, ConcatProperties, LenProperties
  <2>8. <<merged>> \o rest # <<>>
    BY <2>7, EmptySeq
  <2> QED BY <1>2, <1>3, <2>7, <2>8 DEF B
<1> QED BY <1>2, <1>3

\* The turns of the loop: a function that applies JoinedOnce() once more for
\* each number exists, by taking the least number of turns that has none.
Turns(list, f, n) ==
    f = [i \in 0 .. n |-> IF i = 0 THEN list ELSE JoinedOnce(f[i - 1])]

LEMMA TurnsExist == ASSUME NEW list, NEW n \in Nat PROVE \E f : Turns(list, f, n)
<1> DEFINE S == {m \in Nat : ~\E f : Turns(list, f, m)}
<1> SUFFICES ASSUME S # {} PROVE FALSE
  OBVIOUS
<1>1. PICK m \in S : \A y \in S : m <= y
  BY LeastNat
<1>2. CASE m = 0
  <2> DEFINE f == [i \in 0 .. 0 |-> list]
  <2>1. f = [i \in 0 .. 0 |-> IF i = 0 THEN list ELSE JoinedOnce(f[i - 1])]
    OBVIOUS
  <2>2. Turns(list, f, 0)
    BY <2>1 DEF Turns
  <2> QED BY <1>1, <1>2, <2>2
<1>3. CASE m # 0
  <2>1. m - 1 \in Nat /\ m - 1 \notin S
    BY <1>1, <1>3
  <2>2. PICK f : Turns(list, f, m - 1)
    BY <2>1
  <2> DEFINE g == [i \in 0 .. m |-> IF i = 0 THEN list ELSE JoinedOnce(f[i - 1])]
  <2>3. ASSUME NEW i \in 0 .. m, i # 0 PROVE f[i - 1] = g[i - 1]
    <3>1. i - 1 \in 0 .. m - 1 /\ i - 1 \in 0 .. m
      BY <2>1, <2>3
    <3> HIDE DEF g
    <3>2. \A x \in 0 .. m - 1 : f[x] = IF x = 0 THEN list ELSE JoinedOnce(f[x - 1])
      BY <2>2 DEF Turns
    <3>3. \A x \in 0 .. m : g[x] = IF x = 0 THEN list ELSE JoinedOnce(f[x - 1])
      BY DEF g
    <3> QED BY <3>1, <3>2, <3>3
  <2>4. g = [i \in 0 .. m |-> IF i = 0 THEN list ELSE JoinedOnce(g[i - 1])]
    BY <2>3
  <2>5. Turns(list, g, m)
    BY <2>4 DEF Turns
  <2> QED BY <1>1, <2>5
<1> QED BY <1>2, <1>3

LEMMA JoinedKeeps ==
    ASSUME NEW H, NEW s \in Nat, NEW list \in Seq(Blocks(H, s)), list # <<>>
    PROVE  Joined(list) \in Seq(Blocks(H, s))
<1> DEFINE N == Len(list)
           join == CHOOSE f : f = [i \in 0 .. N |->
                        IF i = 0 THEN list ELSE JoinedOnce(f[i - 1])]
           Good(x) == x \in Seq(Blocks(H, s)) /\ x # <<>>
           S == {m \in Nat : m <= N /\ ~Good(join[m])}
<1>1. N \in Nat
  OBVIOUS
<1>2. join = [i \in 0 .. N |-> IF i = 0 THEN list ELSE JoinedOnce(join[i - 1])]
  BY <1>1, TurnsExist DEF Turns
<1>3. Joined(list) = join[N]
  BY DEF Joined
<1> HIDE DEF join
<1>4. \A i \in 0 .. N : join[i] = IF i = 0 THEN list ELSE JoinedOnce(join[i - 1])
  BY <1>2
<1>5. S = {}
  <2> SUFFICES ASSUME S # {} PROVE FALSE
    OBVIOUS
  <2>1. PICK m \in S : \A y \in S : m <= y
    BY LeastNat
  <2>2. CASE m = 0
    BY <1>1, <1>4, <2>1, <2>2
  <2>3. CASE m # 0
    <3>1. m - 1 \in Nat /\ m - 1 <= N /\ m - 1 \notin S
      BY <1>1, <2>1, <2>3
    <3>2. Good(join[m - 1])
      BY <3>1
    <3>3. join[m] = JoinedOnce(join[m - 1])
      BY <1>1, <1>4, <2>1, <2>3
    <3>4. Good(join[m])
      BY <3>2, <3>3, JoinedOnceKeeps
    <3> QED BY <2>1, <3>4
  <2> QED BY <2>2, <2>3
<1> QED BY <1>1, <1>3, <1>5

LEMMA UpdateSackListKeeps ==
    ASSUME NEW H, NEW s \in Nat, NEW list \in Seq(Blocks(H, s)),
           NEW head, NEW tail, <<head, tail>> \in Blocks(H, s)
    PROVE  UpdateSackList(list, head, tail) \in Seq(Blocks(H, s))
<1> DEFINE B == Blocks(H, s)
           new == <<<<head, tail>>>> \o list
           joined == Joined(new)
<1>1. <<<<head, tail>>>> \in Seq(B) /\ Len(<<<<head, tail>>>>) = 1
  OBVIOUS
<1>2. new \in Seq(B) /\ Len(new) = 1 + Len(list) /\ Len(list) \in Nat
  <2>1. list \in Seq(B)
    OBVIOUS
  <2> HIDE DEF B
  <2> QED BY <1>1, <2>1, ConcatProperties, LenProperties
<1>3. new # <<>>
  BY <1>2, EmptySeq
<1> HIDE DEF new
<1>4. joined \in Seq(B)
  BY <1>2, <1>3, JoinedKeeps
<1> HIDE DEF joined, B
<1>5. Front(joined) \in Seq(B)
  <2>1. Len(joined) \in Nat /\ \A i \in 1 .. Len(joined) : joined[i] \in B
    BY <1>4, ElementOfSeq, LenProperties
  <2>2. \A i \in 1 .. Len(joined) - 1 : joined[i] \in B
    BY <2>1
  <2> QED BY <2>1, <2>2, SubSeqProperties DEF Front
<1>6. UpdateSackList(list, head, tail) = IF Len(joined) > MaxBlocks THEN Front(joined) ELSE joined
  BY DEF UpdateSackList, joined, new
<1> QED BY <1>4, <1>5, <1>6 DEF B

\* Counting up to n, the set S has an n-th element for each n up to its size.
LEMMA NthExists ==
    ASSUME NEW m \in Nat, NEW S \in SUBSET (1 .. m), NEW n \in 1 .. Cardinality(S)
    PROVE  \E i \in S : Cardinality(S \cap 1 .. i) = n
<1> DEFINE C(i) == Cardinality(S \cap 1 .. i)
           M == {i \in Nat : C(i) >= n}
<1>1. ASSUME NEW i \in Nat PROVE IsFiniteSet(S \cap 1 .. i) /\ C(i) \in Nat
  <2>1. IsFiniteSet(1 .. m) /\ S \cap 1 .. i \in SUBSET (1 .. m)
    BY FS_Interval
  <2> QED BY <2>1, FS_Subset, FS_CardinalityType
<1>2. S \cap 1 .. m = S /\ n \in Nat \ {0}
  <2>1. IsFiniteSet(1 .. m)
    BY FS_Interval
  <2>2. Cardinality(S) \in Nat
    BY <2>1, FS_Subset, FS_CardinalityType
  <2>3. n \in Nat \ {0}
    BY <2>2
  <2>4. S \cap 1 .. m = S
    OBVIOUS
  <2> QED BY <2>3, <2>4
<1>3. m \in M
  <2>1. C(m) = Cardinality(S)
    BY <1>2
  <2>2. Cardinality(S) \in Nat
    BY <2>1, <1>1
  <2> QED BY <2>1, <2>2
<1>4. PICK i \in M : \A y \in M : i <= y
  BY <1>3, LeastNat
<1>5. i # 0
  <2>1. S \cap 1 .. 0 = {}
    OBVIOUS
  <2>2. C(0) = 0
    BY <2>1, FS_EmptySet
  <2> QED BY <1>2, <1>4, <2>2
<1>6. i - 1 \in Nat /\ i - 1 \notin M
  BY <1>4, <1>5
<1>7. C(i - 1) \in Nat /\ C(i - 1) < n /\ C(i) >= n /\ C(i) \in Nat
  BY <1>1, <1>2, <1>4, <1>6
<1>8. CASE i \in S
  <2>1. S \cap 1 .. i = (S \cap 1 .. i - 1) \cup {i} /\ i \notin S \cap 1 .. i - 1
    BY <1>5, <1>8
  <2>2. C(i) = C(i - 1) + 1
    BY <1>1, <1>6, <2>1, FS_AddElement
  <2> HIDE DEF C
  <2>3. C(i) = n
    BY <1>2, <1>7, <2>2
  <2> QED BY <1>8, <2>3 DEF C
<1>9. CASE i \notin S
  <2>1. S \cap 1 .. i = S \cap 1 .. i - 1
    BY <1>5, <1>9
  <2>2. C(i) = C(i - 1)
    BY <2>1
  <2> HIDE DEF C
  <2> QED BY <1>2, <1>7, <2>2
<1> QED BY <1>8, <1>9

LEMMA SelectedIs ==
    ASSUME NEW B, NEW list \in Seq(B), NEW S \in SUBSET DOMAIN list
    PROVE  Selected(list, S) \in Seq({list[i] : i \in S})
<1> DEFINE pick(n) == CHOOSE i \in S : Cardinality(S \cap 1 .. i) = n
<1>1. Len(list) \in Nat /\ S \in SUBSET (1 .. Len(list))
  BY LenProperties
<1>2. Cardinality(S) \in Nat
  <2>1. IsFiniteSet(1 .. Len(list))
    BY <1>1, FS_Interval
  <2> QED BY <1>1, <2>1, FS_Subset, FS_CardinalityType
<1>3. ASSUME NEW n \in 1 .. Cardinality(S) PROVE list[pick(n)] \in {list[i] : i \in S}
  <2>1. \E i \in S : Cardinality(S \cap 1 .. i) = n
    BY <1>1, NthExists
  <2>2. pick(n) \in S
    BY <2>1
  <2> HIDE DEF pick
  <2> QED BY <2>2
<1>4. Selected(list, S) = [n \in 1 .. Cardinality(S) |-> list[pick(n)]]
  BY DEF Selected
<1> HIDE DEF pick
<1> QED BY <1>2, <1>3, <1>4

\* What is left of the list when the buffer expects the byte t, which is not
\* stored: no block lies on both sides of it.
LEMMA ClearSackListKeeps ==
    ASSUME NEW H, NEW G \in SUBSET H, NEW s \in Nat, NEW list \in Seq(Blocks(G, s)),
           NEW t \in Nat, t \notin H
    PROVE  ClearSackList(list, t) \in Seq(Blocks(H, t))
<1> DEFINE S == {i \in DOMAIN list : list[i][2] > t}
<1>1. ASSUME NEW i \in S PROVE list[i] \in Blocks(H, t)
  <2>1. list[i] \in Blocks(G, s) /\ list[i][2] > t
    BY <1>1, ElementOfSeq, LenProperties
  <2> DEFINE b == list[i]
  <2>2. b \in Nat \X Nat /\ b[1] < b[2] /\ b[1] .. b[2] - 1 \subseteq H /\ b[2] > t
    BY <2>1 DEF Blocks
  <2>3. b[1] \in Nat /\ b[2] \in Nat
    BY <2>2
  <2> HIDE DEF b
  <2>4. b[1] > t
    <3> SUFFICES ASSUME b[1] <= t PROVE FALSE
      BY <2>3
    <3>1. t \in b[1] .. b[2] - 1
      BY <2>2, <2>3
    <3> QED BY <2>2, <3>1
  <2>5. b \in Blocks(H, t)
    BY <2>2, <2>4 DEF Blocks
  <2> QED BY <2>5 DEF b
<1>2. {list[i] : i \in S} \subseteq Blocks(H, t)
  BY <1>1
<1> HIDE DEF S
<1>3. Selected(list, S) \in Seq({list[i] : i \in S})
  BY SelectedIs DEF S
<1>4. Selected(list, S) \in Seq(Blocks(H, t))
  BY <1>2, <1>3, SeqMonotonic
<1> QED BY <1>4 DEF ClearSackList, S

LEMMA BlocksGrow ==
    ASSUME NEW H, NEW G \in SUBSET H, NEW s, NEW list \in Seq(Blocks(G, s))
    PROVE  list \in Seq(Blocks(H, s))
<1>1. Blocks(G, s) \subseteq Blocks(H, s)
  BY DEF Blocks
<1> QED BY <1>1, SeqMonotonic

-----------------------------------------------------------------------------
(* Add().                                                                  *)

\* Two buffers that hold the same packets.
LEMMA SameData ==
    ASSUME NEW b, NEW q, q.data = b.data
    PROVE  Stored(q) = Stored(b) /\ (Laid(b) => Laid(q))
  BY DEF Stored, BytesIn, Bytes, After, Laid

\* The part p fits between the packets it does not replace.
Fits(b, p) ==
    /\ p.head \in Nat /\ p.tail \in Nat
    /\ p.head \notin Stored(b)
    /\ p.replaced \subseteq DOMAIN b.data
    /\ \A k \in p.replaced : k > p.head /\ After(b, k) <= p.tail
    /\ \A k \in DOMAIN b.data \ p.replaced : After(b, k) <= p.head \/ k >= p.tail

LEMMA PartFits ==
    ASSUME NEW b, Laid(b), b.next \in Nat, NEW s \in Nat, NEW n \in Nat
    PROVE  LET p == Part(b, s, Consecutive(s, n))
           IN  Fits(b, p) /\ p.head >= s /\ p.head >= b.next /\ p.tail <= s + n
<1> DEFINE last == s + Len(Consecutive(s, n))
           top == Max({s, b.next})
           head == FirstMissing(b, top)
           later == {k \in DOMAIN b.data : k > head}
           C == {last} \cup {k \in later : k < last /\ After(b, k) >= last}
           R == {k \in later : After(b, k) < last}
           tail == Min(C)
           p == Part(b, s, Consecutive(s, n))
<1>1. last = s + n /\ last \in Nat
  <2>1. Len(Consecutive(s, n)) = n
    BY ConsecutiveIs
  <2> QED BY <2>1
<1>2. p.head = head /\ p.tail = tail /\ p.replaced = R
  BY DEF Part
<1>3. top \in Nat /\ top >= s /\ top >= b.next
  BY MaxOfTwo
<1> HIDE DEF top, last, p
<1>4. head \in Nat /\ head >= top /\ head \notin Stored(b)
  BY <1>3, FirstMissingIs
<1> HIDE DEF head
<1>5. tail \in C /\ \A y \in C : tail <= y
  <2>1. C \in SUBSET Nat /\ C # {}
    BY <1>1 DEF Laid
  <2> HIDE DEF C
  <2> QED BY <2>1, MinIs
<1> HIDE DEF tail
<1>6. tail \in Nat /\ tail <= last
  BY <1>1, <1>5 DEF Laid
<1>7. ASSUME NEW k \in R PROVE k \in DOMAIN b.data /\ k > head /\ After(b, k) <= tail
  <2>1. k \in DOMAIN b.data /\ k > head /\ After(b, k) < last
    OBVIOUS
  <2>2. CASE tail = last
    BY <2>1, <2>2, <1>1, LaidAfter
  <2>3. CASE tail # last
    <3>1. tail \in DOMAIN b.data /\ After(b, tail) >= last
      BY <1>5, <2>3
    <3>2. k < tail => After(b, k) <= tail
      BY <2>1, <3>1 DEF Laid
    <3>3. tail < k => After(b, tail) <= k
      BY <2>1, <3>1 DEF Laid
    <3> QED BY <1>1, <2>1, <3>1, <3>2, <3>3, LaidAfter
  <2> QED BY <2>1, <2>2, <2>3
<1>8. ASSUME NEW k \in DOMAIN b.data, k \notin R PROVE After(b, k) <= head \/ k >= tail
  <2>1. k \in Nat /\ After(b, k) \in Nat
    BY LaidAfter
  <2>2. CASE k <= head
    <3>1. head \notin Bytes(b, k)
      BY <1>4, StoredIs
    <3> QED BY <1>4, <2>1, <2>2, <3>1 DEF Bytes
  <2>3. CASE k > head
    <3>1. k \in later /\ After(b, k) >= last
      BY <1>1, <1>8, <2>1, <2>3
    <3>2. CASE k < last
      <4>1. k \in C
        BY <3>1, <3>2
      <4> QED BY <1>5, <1>6, <2>1, <4>1
    <3>3. CASE k >= last
      BY <1>1, <1>6, <2>1, <3>3
    <3> QED BY <1>1, <2>1, <3>2, <3>3
  <2> QED BY <1>4, <2>1, <2>2, <2>3
<1>9. R \subseteq DOMAIN b.data
  OBVIOUS
<1> HIDE DEF R
<1>10. Fits(b, p)
  BY <1>2, <1>4, <1>6, <1>7, <1>8, <1>9 DEF Fits
<1>11. p.head >= s /\ p.head >= b.next /\ p.tail <= s + n
  BY <1>1, <1>2, <1>3, <1>4, <1>6
<1> QED BY <1>10, <1>11 DEF p

\* The packets once the part is in.
WithPart(b, p, s, n) ==
    [k \in (DOMAIN b.data \ p.replaced) \cup {p.head} |->
        IF k = p.head
        THEN SubSeq(Consecutive(s, n), p.head - s + 1, p.tail - s)
        ELSE b.data[k]]

LEMMA InsertedIs ==
    ASSUME NEW b, Laid(b), NEW p, Fits(b, p), p.head < p.tail,
           NEW s \in Nat, NEW n \in Nat, p.head >= s, p.tail <= s + n,
           NEW q,
           q.data = WithPart(b, p, s, n)
    PROVE  /\ Laid(q)
           /\ Stored(q) = Stored(b) \cup p.head .. p.tail - 1
           /\ Cardinality(Stored(q)) =
                  Cardinality(Stored(b)) - Cardinality(BytesIn(b, p.replaced)) + (p.tail - p.head)
<1> DEFINE h == p.head
           t == p.tail
           R == p.replaced
           K == DOMAIN b.data \ R
           I == h .. t - 1
<1>1. /\ h \in Nat /\ t \in Nat /\ h < t /\ h \notin Stored(b) /\ R \subseteq DOMAIN b.data
      /\ \A k \in R : k > h /\ After(b, k) <= t
      /\ \A k \in K : After(b, k) <= h \/ k >= t
  BY DEF Fits
<1>2. SubSeq(Consecutive(s, n), h - s + 1, t - s) = Consecutive(h, t - h)
  <2>1. h - s + 1 \in 1 .. n /\ t - s \in (h - s + 1) - 1 .. n
    BY <1>1
  <2>2. s + (h - s + 1) - 1 = h /\ (t - s) - (h - s + 1) + 1 = t - h
    BY <1>1
  <2> DEFINE i == h - s + 1
             j == t - s
  <2>3. SubSeq(Consecutive(s, n), i, j) = Consecutive(s + i - 1, j - i + 1)
    <3> HIDE DEF i, j
    <3> QED BY <2>1, ConsecutivePart DEF i, j
  <2> HIDE DEF h, t
  <2> QED BY <2>2, <2>3
<1>3. h \notin K
  <2> SUFFICES ASSUME h \in DOMAIN b.data PROVE FALSE
    OBVIOUS
  <2>1. h \in Bytes(b, h)
    BY <1>1, LaidAfter DEF Bytes
  <2> QED BY <1>1, <2>1, StoredIs
<1> HIDE DEF h, t, R
<1>4. /\ DOMAIN q.data = K \cup {h}
      /\ q.data[h] = Consecutive(h, t - h)
      /\ \A k \in K : q.data[k] = b.data[k]
  BY <1>2, <1>3 DEF h, t, R, WithPart
<1>5. /\ Len(q.data[h]) = t - h /\ After(q, h) = t
      /\ \A k \in K : After(q, k) = After(b, k) /\ Bytes(q, k) = Bytes(b, k)
  <2>1. t - h \in Nat /\ h + (t - h) = t
    BY <1>1
  <2>2. Len(q.data[h]) = t - h
    <3>1. Len(Consecutive(h, t - h)) = t - h
      BY <1>1, <2>1, ConsecutiveIs
    <3> QED BY <1>4, <3>1
  <2>3. After(q, h) = t
    BY <2>1, <2>2 DEF After
  <2>4. \A k \in K : After(q, k) = After(b, k) /\ Bytes(q, k) = Bytes(b, k)
    BY <1>4 DEF After, Bytes
  <2> QED BY <2>2, <2>3, <2>4
<1>6. Laid(q)
  <2>1. DOMAIN q.data \in SUBSET Nat
    BY <1>1, <1>4 DEF Laid
  <2>2. \E limit \in Nat : \A k \in DOMAIN q.data : After(q, k) <= limit
    <3>1. PICK limit \in Nat : \A k \in DOMAIN b.data : After(b, k) <= limit
      BY DEF Laid
    <3>2. limit + t \in Nat
      BY <1>1
    <3>3. ASSUME NEW k \in DOMAIN q.data PROVE After(q, k) <= limit + t
      BY <1>1, <1>4, <1>5, <3>1, LaidAfter
    <3> QED BY <3>2, <3>3
  <2>3. ASSUME NEW k \in DOMAIN q.data
        PROVE  /\ Len(q.data[k]) \in Nat \ {0}
               /\ q.data[k] = Consecutive(k, Len(q.data[k]))
    <3>1. CASE k = h
      <4>1. t - h \in Nat \ {0}
        BY <1>1
      <4>2. Len(q.data[k]) = t - h /\ q.data[k] = Consecutive(k, t - h)
        BY <1>4, <1>5, <3>1
      <4> QED BY <4>1, <4>2
    <3>2. CASE k \in K
      BY <1>4, <3>2 DEF Laid
    <3> QED BY <1>4, <3>1, <3>2
  <2>4. ASSUME NEW j \in DOMAIN q.data, NEW k \in DOMAIN q.data, j < k
        PROVE  After(q, j) <= k
    <3>1. CASE j \in K /\ k \in K
      BY <1>5, <2>4, <3>1 DEF Laid
    <3>2. CASE j = h /\ k \in K
      BY <1>1, <1>5, <2>4, <3>2, LaidAfter
    <3>3. CASE j \in K /\ k = h
      BY <1>1, <1>5, <2>4, <3>3, LaidAfter
    <3>4. CASE j = h /\ k = h
      BY <1>1, <2>4, <3>4
    <3> QED BY <1>4, <3>1, <3>2, <3>3, <3>4
  <2> QED BY <2>1, <2>2, <2>3, <2>4 DEF Laid
<1>7. Stored(q) = BytesIn(b, K) \cup I
  <2>1. Bytes(q, h) = I
    BY <1>5 DEF Bytes
  <2>2. BytesIn(q, K) = BytesIn(b, K)
    BY <1>5 DEF BytesIn
  <2>3. Stored(q) = BytesIn(q, K) \cup Bytes(q, h)
    BY <1>4 DEF Stored, BytesIn
  <2> QED BY <2>1, <2>2, <2>3
<1>8. Stored(b) = BytesIn(b, K) \cup BytesIn(b, R)
  BY <1>1 DEF Stored, BytesIn
<1>9. BytesIn(b, R) \subseteq I
  <2> SUFFICES ASSUME NEW k \in R, NEW x \in Bytes(b, k) PROVE x \in I
    BY DEF BytesIn
  <2>1. k \in DOMAIN b.data /\ k > h /\ After(b, k) <= t
    BY <1>1
  <2> QED BY <1>1, <2>1, LaidAfter DEF Bytes
<1>10. BytesIn(b, K) \cap I = {}
  <2> SUFFICES ASSUME NEW k \in K, NEW x \in Bytes(b, k), x \in I PROVE FALSE
    BY DEF BytesIn
  <2> QED BY <1>1, LaidAfter DEF Bytes
<1>11. Stored(q) = Stored(b) \cup I
  BY <1>7, <1>8, <1>9
<1>12. Cardinality(Stored(q)) = Cardinality(Stored(b)) - Cardinality(BytesIn(b, R)) + (t - h)
  <2> DEFINE A == BytesIn(b, K)
             E == BytesIn(b, R)
  <2>1. IsFiniteSet(A) /\ IsFiniteSet(E) /\ Cardinality(A) \in Nat /\ Cardinality(E) \in Nat
    <3>1. IsFiniteSet(Stored(b)) /\ A \in SUBSET Stored(b) /\ E \in SUBSET Stored(b)
      BY <1>8, StoredFinite
    <3> HIDE DEF A, E
    <3> QED BY <3>1, FS_Subset, FS_CardinalityType
  <2>2. IsFiniteSet(I) /\ Cardinality(I) = t - h
    <3>1. h \in Int /\ t - 1 \in Int /\ ~(h > t - 1) /\ t - 1 - h + 1 = t - h
      BY <1>1
    <3> QED BY <3>1, FS_Interval
  <2>3. A \cap E = {} /\ A \cap I = {}
    BY <1>9, <1>10
  <2> HIDE DEF A, E, I
  <2>4. Cardinality(A \cup E) = Cardinality(A) + Cardinality(E) - 0
    BY <2>1, <2>3, FS_Union, FS_EmptySet
  <2>5. Cardinality(A \cup I) = Cardinality(A) + Cardinality(I) - 0
    BY <2>1, <2>2, <2>3, FS_Union, FS_EmptySet
  <2>6. Cardinality(Stored(b)) = Cardinality(A) + Cardinality(E)
    BY <1>8, <2>1, <2>4 DEF A, E
  <2>7. Cardinality(Stored(q)) = Cardinality(A) + (t - h)
    BY <1>1, <1>7, <2>1, <2>2, <2>5 DEF A
  <2>8. Cardinality(BytesIn(b, R)) = Cardinality(E)
    BY DEF E
  <2> QED BY <1>1, <2>1, <2>6, <2>7, <2>8
<1> QED BY <1>6, <1>11, <1>12 DEF h, t, R

\* What holds of a buffer between two calls, r being what was read from it.
Whole(b, r) ==
    /\ DOMAIN b = {"next", "data", "size", "avail", "sack"}
    /\ Laid(b)
    /\ b.next \in Nat /\ b.avail \in Nat /\ b.avail < b.next
    /\ b.next \notin Stored(b)
    /\ b.next - b.avail .. b.next - 1 \subseteq Stored(b)
    /\ \A k \in DOMAIN b.data : k >= b.next - b.avail
    /\ b.size = Cardinality(Stored(b))
    /\ b.sack \in Seq(Blocks(Stored(b), b.next))
    /\ r = Consecutive(1, b.next - b.avail - 1)

\* Advancing m_nextRxSeq to the first byte that is missing.
LEMMA AdvancedWhole ==
    ASSUME NEW b, NEW r,
           DOMAIN b = {"next", "data", "size", "avail", "sack"},
           Laid(b),
           b.next \in Nat, b.avail \in Nat, b.avail < b.next,
           b.next - b.avail .. b.next - 1 \subseteq Stored(b),
           \A k \in DOMAIN b.data : k >= b.next - b.avail,
           b.size = Cardinality(Stored(b)),
           b.sack \in Seq(Blocks(Stored(b), b.next)),
           r = Consecutive(1, b.next - b.avail - 1)
    PROVE  /\ Whole(Advanced(b), r)
           /\ Stored(Advanced(b)) = Stored(b)
           /\ Advanced(b).next >= b.next
           /\ b.next .. Advanced(b).next - 1 \subseteq Stored(b)
<1> DEFINE m == FirstMissing(b, b.next)
           q == Advanced(b)
<1>1. m \in Nat /\ m >= b.next /\ m \notin Stored(b) /\ b.next .. m - 1 \subseteq Stored(b)
  BY FirstMissingIs
<1>2. q = IF m = b.next THEN b
          ELSE [b EXCEPT !.next = m, !.avail = @ + (m - b.next), !.sack = ClearSackList(@, m)]
  BY DEF Advanced
<1> HIDE DEF m, q
<1>3. CASE m = b.next
  BY <1>1, <1>2, <1>3 DEF Whole, q
<1>4. CASE m # b.next
  <2>1. /\ DOMAIN q = {"next", "data", "size", "avail", "sack"}
        /\ q.next = m /\ q.data = b.data /\ q.size = b.size
        /\ q.avail = b.avail + (m - b.next) /\ q.sack = ClearSackList(b.sack, m)
    BY <1>2, <1>4
  <2>2. Laid(q) /\ Stored(q) = Stored(b)
    BY <2>1, SameData
  <2>3. q.next \in Nat /\ q.avail \in Nat /\ q.next - q.avail = b.next - b.avail
        /\ q.avail < q.next
    BY <1>1, <2>1
  <2>4. q.next - q.avail .. q.next - 1 \subseteq Stored(q)
    <3> SUFFICES ASSUME NEW x \in q.next - q.avail .. q.next - 1 PROVE x \in Stored(b)
      BY <2>2
    <3>1. x \in b.next - b.avail .. b.next - 1 \/ x \in b.next .. m - 1
      BY <1>1, <2>1, <2>3
    <3> QED BY <1>1, <3>1
  <2>5. q.sack \in Seq(Blocks(Stored(q), q.next))
    <3>1. ClearSackList(b.sack, m) \in Seq(Blocks(Stored(b), m))
      BY <1>1, ClearSackListKeeps
    <3> QED BY <2>1, <2>2, <3>1
  <2>6. \A k \in DOMAIN q.data : k >= q.next - q.avail
    BY <2>1, <2>3
  <2>7. q.next \notin Stored(q) /\ q.size = Cardinality(Stored(q))
    BY <1>1, <2>1, <2>2
  <2>8. r = Consecutive(1, q.next - q.avail - 1)
    BY <2>3
  <2>9. Whole(q, r)
    BY <2>1, <2>2, <2>3, <2>4, <2>5, <2>6, <2>7, <2>8 DEF Whole
  <2> QED BY <1>1, <2>1, <2>2, <2>9 DEF q
<1> QED BY <1>3, <1>4

\* The bytes that arrived so far.
Got(b) == 1 .. b.next - 1 \cup Stored(b)

LEMMA AddWhole ==
    ASSUME NEW b, NEW r, Whole(b, r), NEW s \in Nat, NEW n \in Nat
    PROVE  LET q == Add(b, s, Consecutive(s, n))
           IN  /\ Whole(q, r)
               /\ q.next >= b.next
               /\ Got(b) \subseteq Got(q)
               /\ Got(q) \subseteq Got(b) \cup s .. s + n - 1
<1> DEFINE p == Part(b, s, Consecutive(s, n))
           q == Inserted(b, s, Consecutive(s, n), p)
<1>1. /\ DOMAIN b = {"next", "data", "size", "avail", "sack"}
      /\ Laid(b)
      /\ b.next \in Nat /\ b.avail \in Nat /\ b.avail < b.next
      /\ b.next - b.avail .. b.next - 1 \subseteq Stored(b)
      /\ \A k \in DOMAIN b.data : k >= b.next - b.avail
      /\ b.size = Cardinality(Stored(b))
      /\ b.sack \in Seq(Blocks(Stored(b), b.next))
      /\ r = Consecutive(1, b.next - b.avail - 1)
  BY DEF Whole
<1>2. Fits(b, p) /\ p.head >= s /\ p.head >= b.next /\ p.tail <= s + n
  BY <1>1, PartFits
<1>3. Add(b, s, Consecutive(s, n)) = IF p.head >= p.tail THEN b ELSE Advanced(q)
  BY DEF Add
<1> HIDE DEF p
<1>4. p.head \in Nat /\ p.tail \in Nat
  BY <1>2 DEF Fits
<1>5. CASE p.head >= p.tail
  BY <1>1, <1>3, <1>5
<1>6. CASE p.head < p.tail
  <2>1. /\ DOMAIN q = {"next", "data", "size", "avail", "sack"}
        /\ q.next = b.next /\ q.avail = b.avail
        /\ q.size = b.size - Cardinality(BytesIn(b, p.replaced)) + (p.tail - p.head)
        /\ q.sack = IF p.head > b.next THEN UpdateSackList(b.sack, p.head, p.tail) ELSE b.sack
    BY <1>1 DEF Inserted
  <2>2. q.data = WithPart(b, p, s, n)
    BY <1>1 DEF Inserted, WithPart
  <2> HIDE DEF q
  <2>3. /\ Laid(q)
        /\ Stored(q) = Stored(b) \cup p.head .. p.tail - 1
        /\ Cardinality(Stored(q)) =
              Cardinality(Stored(b)) - Cardinality(BytesIn(b, p.replaced)) + (p.tail - p.head)
    <3>1. Laid(b) /\ Fits(b, p) /\ p.head < p.tail /\ p.head >= s /\ p.tail <= s + n
      BY <1>1, <1>2, <1>6
    <3> QED BY <2>2, <3>1, InsertedIs
  <2>4. q.sack \in Seq(Blocks(Stored(q), b.next))
    <3>1. b.sack \in Seq(Blocks(Stored(q), b.next))
      BY <1>1, <2>3, BlocksGrow
    <3>2. CASE p.head > b.next
      <4>1. p.head .. p.tail - 1 \subseteq Stored(q)
        BY <2>3
      <4>2. <<p.head, p.tail>> \in Blocks(Stored(q), b.next)
        BY <1>4, <1>6, <3>2, <4>1 DEF Blocks
      <4> QED BY <1>1, <2>1, <3>1, <3>2, <4>2, UpdateSackListKeeps
    <3> QED BY <2>1, <3>1, <3>2
  <2>5. \A k \in DOMAIN q.data : k >= q.next - q.avail
    <3> SUFFICES ASSUME NEW k \in DOMAIN q.data PROVE k >= b.next - b.avail
      BY <2>1
    <3>1. k \in DOMAIN b.data \/ k = p.head
      BY <2>2 DEF WithPart
    <3> QED BY <1>1, <1>2, <1>4, <3>1
  <2>6. q.next - q.avail .. q.next - 1 \subseteq Stored(q)
    BY <1>1, <2>1, <2>3
  <2>7. q.size = Cardinality(Stored(q))
    BY <1>1, <2>1, <2>3
  <2> DEFINE a == Advanced(q)
  <2>8. /\ Whole(a, r) /\ Stored(a) = Stored(q)
        /\ a.next >= b.next /\ b.next .. a.next - 1 \subseteq Stored(q)
    BY <1>1, <2>1, <2>3, <2>4, <2>5, <2>6, <2>7, AdvancedWhole
  <2>9. Add(b, s, Consecutive(s, n)) = a
    BY <1>3, <1>4, <1>6
  <2> HIDE DEF a
  <2>10. a.next \in Nat
    BY <2>8 DEF Whole
  <2>11. p.head .. p.tail - 1 \subseteq s .. s + n - 1
    BY <1>2, <1>4
  <2>12. Got(b) \subseteq Got(a)
    BY <1>1, <2>3, <2>8, <2>10 DEF Got
  <2>13. Got(a) \subseteq Got(b) \cup s .. s + n - 1
    <3> SUFFICES ASSUME NEW x \in Got(a) PROVE x \in Got(b) \cup s .. s + n - 1
      OBVIOUS
    <3>1. x \in 1 .. b.next - 1 \/ x \in b.next .. a.next - 1 \/ x \in Stored(q)
      BY <1>1, <2>8, <2>10 DEF Got
    <3>2. x \in 1 .. b.next - 1 \/ x \in Stored(b) \/ x \in p.head .. p.tail - 1
      BY <2>3, <2>8, <3>1
    <3> QED BY <2>11, <3>2 DEF Got
  <2> QED BY <2>8, <2>9, <2>12, <2>13
<1> QED BY <1>4, <1>5, <1>6

-----------------------------------------------------------------------------
(* Extract().                                                              *)

\* What is left of the packets when the bytes below cut are handed over.
Leftover(b, cut) ==
    [x \in {Max({k, cut}) : k \in {j \in DOMAIN b.data : After(b, j) > cut}} |->
        SubSeq(b.data[Holder(b, x)], x - Holder(b, x) + 1, Len(b.data[Holder(b, x)]))]

LEMMA LeftIs ==
    ASSUME NEW b, Laid(b), NEW cut \in Nat, NEW q, q.data = Leftover(b, cut)
    PROVE  /\ Laid(q)
           /\ Stored(q) = {x \in Stored(b) : x >= cut}
           /\ \A k \in DOMAIN q.data : k >= cut
<1> DEFINE rest(x) == SubSeq(b.data[Holder(b, x)], x - Holder(b, x) + 1,
                            Len(b.data[Holder(b, x)]))
           J == {j \in DOMAIN b.data : After(b, j) > cut}
           From(x, k) == /\ k \in J /\ k \in Nat /\ After(b, k) \in Nat
                         /\ x = (IF k >= cut THEN k ELSE cut)
                         /\ x \in Nat /\ x >= k /\ x >= cut /\ x < After(b, k)
                         /\ q.data[x] = Consecutive(x, After(b, k) - x)
                         /\ Len(q.data[x]) = After(b, k) - x
                         /\ After(q, x) = After(b, k)
<1>1. \A k \in J : Max({k, cut}) = IF k >= cut THEN k ELSE cut
  BY MaxOfTwo, LaidAfter
<1>2. DOMAIN q.data = {Max({k, cut}) : k \in J} /\ \A x \in DOMAIN q.data : q.data[x] = rest(x)
  BY DEF Leftover
<1> HIDE DEF rest
<1>3. ASSUME NEW x \in DOMAIN q.data PROVE \E k \in J : From(x, k)
  <2>1. PICK k \in J : x = IF k >= cut THEN k ELSE cut
    BY <1>1, <1>2
  <2> DEFINE a == After(b, k)
             n == Len(b.data[k])
  <2>2. k \in DOMAIN b.data /\ k \in Nat /\ a \in Nat /\ a > cut /\ a > k /\ n \in Nat /\ a = k + n
    BY LaidAfter DEF Laid, After
  <2>3. x \in Nat /\ x >= k /\ x >= cut /\ x < a
    BY <2>1, <2>2
  <2>4. Holder(b, x) = k
    <3>1. x \in Bytes(b, k)
      BY <2>2, <2>3 DEF Bytes
    <3> QED BY <2>2, <3>1, HolderIs
  <2>5. q.data[x] = SubSeq(b.data[k], x - k + 1, n)
    BY <1>2, <2>4 DEF rest
  <2>6. b.data[k] = Consecutive(k, n)
    BY <2>2 DEF Laid
  <2> HIDE DEF a, n
  <2>7. SubSeq(Consecutive(k, n), x - k + 1, n) = Consecutive(x, a - x)
    <3> DEFINE i == x - k + 1
    <3>1. i \in 1 .. n /\ n \in i - 1 .. n /\ k + i - 1 = x /\ n - i + 1 = a - x
      BY <2>2, <2>3
    <3> HIDE DEF i
    <3>2. SubSeq(Consecutive(k, n), i, n) = Consecutive(k + i - 1, n - i + 1)
      BY <2>2, <3>1, ConsecutivePart, SMTT(30)
    <3>3. SubSeq(Consecutive(k, n), i, n) = Consecutive(x, a - x)
      BY <3>1, <3>2
    <3> QED BY <3>3 DEF i
  <2>8. q.data[x] = Consecutive(x, a - x)
    BY <2>5, <2>6, <2>7
  <2>9. Len(q.data[x]) = a - x
    <3>1. a - x \in Nat
      BY <2>2, <2>3
    <3>2. Len(Consecutive(x, a - x)) = a - x
      BY <2>3, <3>1, ConsecutiveIs
    <3> QED BY <2>8, <3>2
  <2>10. After(q, x) = a
    <3>1. After(q, x) = x + Len(q.data[x])
      BY DEF After
    <3> QED BY <2>2, <2>3, <2>9, <3>1
  <2>11. From(x, k)
    BY <2>1, <2>2, <2>3, <2>8, <2>9, <2>10 DEF a
  <2> QED BY <2>11
<1>4. Laid(q)
  <2>1. DOMAIN q.data \in SUBSET Nat
    BY <1>3
  <2>2. \E limit \in Nat : \A x \in DOMAIN q.data : After(q, x) <= limit
    <3>1. PICK limit \in Nat : \A k \in DOMAIN b.data : After(b, k) <= limit
      BY DEF Laid
    <3>2. ASSUME NEW x \in DOMAIN q.data PROVE After(q, x) <= limit
      BY <1>3, <3>1
    <3> QED BY <3>2
  <2>3. ASSUME NEW x \in DOMAIN q.data
        PROVE  Len(q.data[x]) \in Nat \ {0} /\ q.data[x] = Consecutive(x, Len(q.data[x]))
    <3>1. PICK k \in J : From(x, k)
      BY <1>3
    <3>2. After(b, k) - x \in Nat \ {0}
      BY <3>1
    <3>3. Len(q.data[x]) = After(b, k) - x /\ q.data[x] = Consecutive(x, After(b, k) - x)
      BY <3>1
    <3> QED BY <3>2, <3>3
  <2>4. ASSUME NEW x \in DOMAIN q.data, NEW y \in DOMAIN q.data, x < y
        PROVE  After(q, x) <= y
    <3>1. PICK k \in J : From(x, k)
      BY <1>3
    <3>2. PICK l \in J : From(y, l)
      BY <1>3
    <3>3. k \in DOMAIN b.data /\ l \in DOMAIN b.data
      OBVIOUS
    <3>4. k < l => After(b, k) <= l
      BY <3>3 DEF Laid
    <3>5. l < k => After(b, l) <= k
      BY <3>3 DEF Laid
    <3>6. k # l
      BY <2>4, <3>1, <3>2
    <3> QED BY <2>4, <3>1, <3>2, <3>4, <3>5, <3>6
  <2> QED BY <2>1, <2>2, <2>3, <2>4 DEF Laid
<1>5. ASSUME NEW z \in Stored(q) PROVE z \in Stored(b) /\ z >= cut
  <2>1. PICK x \in DOMAIN q.data : z \in Bytes(q, x)
    BY StoredIs
  <2>2. PICK k \in J : From(x, k)
    BY <1>3
  <2>3. z \in Bytes(b, k) /\ z >= cut
    BY <2>1, <2>2 DEF Bytes
  <2> QED BY <2>2, <2>3, StoredIs
<1>6. ASSUME NEW z \in Stored(b), z >= cut PROVE z \in Stored(q)
  <2>1. PICK k \in DOMAIN b.data : z \in Bytes(b, k)
    BY StoredIs
  <2>2. z \in Nat /\ k \in Nat /\ k <= z /\ z < After(b, k) /\ After(b, k) \in Nat
    BY <2>1, LaidAfter DEF Bytes
  <2>3. k \in J
    BY <1>6, <2>2
  <2> DEFINE x == IF k >= cut THEN k ELSE cut
  <2>4. x \in DOMAIN q.data /\ x \in Bytes(b, k) /\ x <= z
    <3>1. Max({k, cut}) = x
      BY <1>1, <2>3
    <3>2. x \in DOMAIN q.data
      BY <1>2, <2>3, <3>1
    <3>3. x \in Nat /\ x >= k /\ x <= z
      BY <1>6, <2>2
    <3> HIDE DEF x
    <3> QED BY <2>2, <3>2, <3>3 DEF Bytes
  <2> HIDE DEF x
  <2>5. PICK l \in J : From(x, l)
    BY <1>3, <2>4
  <2>6. x \in Bytes(b, l)
    BY <2>5 DEF Bytes
  <2>7. l = k
    <3>1. l \in DOMAIN b.data
      OBVIOUS
    <3>2. Holder(b, x) = l
      BY <2>6, <3>1, HolderIs
    <3>3. Holder(b, x) = k
      BY <2>4, HolderIs
    <3> QED BY <3>2, <3>3
  <2>8. z \in Bytes(q, x)
    BY <2>2, <2>4, <2>5, <2>7 DEF Bytes
  <2> QED BY <2>4, <2>8, StoredIs
<1>7. Stored(q) = {x \in Stored(b) : x >= cut}
  BY <1>5, <1>6
<1>8. \A k \in DOMAIN q.data : k >= cut
  BY <1>3
<1> QED BY <1>4, <1>7, <1>8

LEMMA ExtractWhole ==
    ASSUME NEW b, NEW r, Whole(b, r), b.avail > 0, NEW n \in Nat \ {0}
    PROVE  LET q == Extract(b, n).rx
           IN  /\ Whole(q, r \o Extract(b, n).out)
               /\ q.next = b.next /\ q.avail < b.avail
               /\ Got(q) = Got(b)
<1> DEFINE base == b.next - b.avail
           first == Min(DOMAIN b.data)
           taken == Min({n, b.avail})
           cut == first + taken
           left == {Max({k, cut}) : k \in {j \in DOMAIN b.data : After(b, j) > cut}}
           byte(x) == b.data[Holder(b, x)][x - Holder(b, x) + 1]
           q == Extract(b, n).rx
           out == Extract(b, n).out
<1>1. /\ DOMAIN b = {"next", "data", "size", "avail", "sack"}
      /\ Laid(b)
      /\ b.next \in Nat /\ b.avail \in Nat /\ b.avail < b.next
      /\ b.next \notin Stored(b)
      /\ base .. b.next - 1 \subseteq Stored(b)
      /\ \A k \in DOMAIN b.data : k >= base
      /\ b.size = Cardinality(Stored(b))
      /\ b.sack \in Seq(Blocks(Stored(b), b.next))
      /\ r = Consecutive(1, base - 1)
  BY DEF Whole
<1>2. /\ q = [b EXCEPT !.data = [x \in left |->
                           SubSeq(b.data[Holder(b, x)], x - Holder(b, x) + 1,
                                  Len(b.data[Holder(b, x)]))],
                      !.size = @ - taken,
                      !.avail = @ - taken]
      /\ out = [i \in 1 .. taken |-> byte(first + i - 1)]
  BY DEF Extract
<1> HIDE DEF q, out
<1>3. taken \in 1 .. b.avail
  <2>1. n \in Nat /\ n > 0 /\ b.avail \in Nat
    BY <1>1
  <2>2. taken = IF n <= b.avail THEN n ELSE b.avail
    BY <2>1, MinOfTwo
  <2> HIDE DEF taken
  <2> QED BY <2>1, <2>2
<1>4. first = base /\ base \in Nat
  <2>1. base \in Nat /\ base \in base .. b.next - 1
    BY <1>1
  <2>2. base \in Stored(b)
    BY <1>1, <2>1
  <2>3. PICK k \in DOMAIN b.data : base \in Bytes(b, k)
    BY <2>2, StoredIs
  <2>4. k = base
    BY <1>1, <2>1, <2>3, LaidAfter DEF Bytes
  <2>5. DOMAIN b.data \in SUBSET Nat
    BY <1>1 DEF Laid
  <2>6. first \in DOMAIN b.data /\ first <= k
    BY <2>3, <2>5, MinIs
  <2> HIDE DEF first, base
  <2>7. first >= base /\ first <= base /\ first \in Nat
    BY <1>1, <2>4, <2>5, <2>6
  <2> QED BY <2>1, <2>7
<1> HIDE DEF first, taken
<1>5. cut \in Nat /\ cut = base + taken /\ cut <= b.next /\ taken \in Nat
  BY <1>1, <1>3, <1>4
<1>6. /\ DOMAIN q = {"next", "data", "size", "avail", "sack"}
      /\ q.next = b.next /\ q.sack = b.sack /\ q.size = b.size - taken /\ q.avail = b.avail - taken
      /\ q.data = Leftover(b, cut)
  BY <1>1, <1>2 DEF Leftover
<1> HIDE DEF cut
<1>7. /\ Laid(q)
      /\ Stored(q) = {x \in Stored(b) : x >= cut}
      /\ \A k \in DOMAIN q.data : k >= cut
  BY <1>1, <1>5, <1>6, LeftIs
<1>8. q.next - q.avail = cut /\ q.avail \in Nat /\ q.avail < q.next
  BY <1>1, <1>3, <1>5, <1>6
<1>9. q.next - q.avail .. q.next - 1 \subseteq Stored(q)
  <2> SUFFICES ASSUME NEW x \in cut .. b.next - 1 PROVE x \in Stored(b) /\ x >= cut
    BY <1>6, <1>7, <1>8
  <2>1. x \in base .. b.next - 1 /\ x >= cut
    BY <1>1, <1>4, <1>5
  <2> QED BY <1>1, <2>1
<1>10. q.size = Cardinality(Stored(q))
  <2> DEFINE I == base .. cut - 1
  <2>1. Stored(b) = Stored(q) \cup I /\ Stored(q) \cap I = {}
    <3>1. I \subseteq Stored(b)
      BY <1>1, <1>4, <1>5, SMTT(30)
    <3>2. \A x \in Stored(b) : x \in Nat /\ x >= base
      <4> SUFFICES ASSUME NEW x \in Stored(b) PROVE x \in Nat /\ x >= base
        OBVIOUS
      <4>1. PICK k \in DOMAIN b.data : x \in Bytes(b, k)
        BY StoredIs
      <4> QED BY <1>1, <1>4, <4>1, LaidAfter DEF Bytes
    <3> HIDE DEF base
    <3> QED BY <1>4, <1>5, <1>7, <3>1, <3>2
  <2>2. IsFiniteSet(I) /\ Cardinality(I) = taken
    <3>1. base \in Int /\ cut - 1 \in Int /\ cut - 1 - base + 1 = taken /\ ~(base > cut - 1)
      BY <1>3, <1>4, <1>5
    <3> QED BY <3>1, FS_Interval
  <2>3. IsFiniteSet(Stored(q)) /\ Cardinality(Stored(q)) \in Nat
    BY <1>7, StoredFinite
  <2> HIDE DEF I
  <2>4. Cardinality(Stored(q) \cup I) = Cardinality(Stored(q)) + Cardinality(I) - 0
    BY <2>1, <2>2, <2>3, FS_Union, FS_EmptySet
  <2>5. b.size = Cardinality(Stored(q)) + taken
    BY <1>1, <1>5, <2>1, <2>2, <2>3, <2>4
  <2> QED BY <1>5, <1>6, <2>3, <2>5
<1>11. q.sack \in Seq(Blocks(Stored(q), q.next))
  <2>1. Blocks(Stored(b), b.next) \subseteq Blocks(Stored(q), b.next)
    <3> SUFFICES ASSUME NEW c \in Blocks(Stored(b), b.next), NEW x \in c[1] .. c[2] - 1
                 PROVE  x \in Stored(q)
      BY DEF Blocks
    <3>1. c[1] \in Nat /\ c[2] \in Nat /\ c[1] > b.next /\ x \in Stored(b)
      BY DEF Blocks
    <3>2. x >= cut
      BY <1>1, <1>5, <3>1
    <3> QED BY <1>7, <3>1, <3>2
  <2> QED BY <1>1, <1>6, <2>1, SeqMonotonic
<1>12. r \o out = Consecutive(1, q.next - q.avail - 1)
  <2>1. ASSUME NEW i \in 1 .. taken PROVE byte(first + i - 1) = base + i - 1
    <3> DEFINE x == base + i - 1
    <3>1. x \in base .. b.next - 1
      BY <1>1, <1>4, <1>5, SMTT(30)
    <3>2. PICK k \in DOMAIN b.data : x \in Bytes(b, k)
      BY <1>1, <3>1, StoredIs
    <3>3. Holder(b, x) = k
      BY <1>1, <3>2, HolderIs
    <3>4. k \in Nat /\ x \in Nat /\ x >= k /\ x < k + Len(b.data[k]) /\ Len(b.data[k]) \in Nat
      <4>1. k \in Nat /\ Len(b.data[k]) \in Nat
        BY <1>1 DEF Laid
      <4>2. x \in Nat
        BY <1>4
      <4>3. x \in k .. (k + Len(b.data[k])) - 1
        BY <3>2 DEF Bytes, After
      <4> HIDE DEF x
      <4> QED BY <4>1, <4>2, <4>3
    <3>5. b.data[k] = Consecutive(k, Len(b.data[k]))
      BY <1>1, <3>2 DEF Laid
    <3> HIDE DEF x
    <3>6. x - k + 1 \in 1 .. Len(b.data[k])
      BY <3>4
    <3>7. Consecutive(k, Len(b.data[k]))[x - k + 1] = k + (x - k + 1) - 1
      BY <3>6 DEF Consecutive
    <3>8. byte(x) = x
      BY <3>3, <3>4, <3>5, <3>7
    <3> HIDE DEF byte
    <3> QED BY <1>4, <3>8 DEF x
  <2>2. out = Consecutive(base, taken)
    <3> HIDE DEF byte
    <3> QED BY <1>2, <2>1 DEF Consecutive
  <2> DEFINE m == base - 1
  <2>3. m \in Nat /\ 1 + m = base /\ m + taken = cut - 1
    BY <1>1, <1>4, <1>5, SMTT(30)
  <2> HIDE DEF m
  <2>4. Consecutive(1, m) \o Consecutive(1 + m, taken) = Consecutive(1, m + taken)
    <3>1. taken \in Nat /\ m \in Nat /\ 1 \in Nat
      BY <1>5, <2>3
    <3>2. \A k, l, j \in Nat : Consecutive(k, l) \o Consecutive(k + l, j) = Consecutive(k, l + j)
      BY ConsecutiveJoined
    <3> QED BY <3>1, <3>2
  <2>5. r = Consecutive(1, m)
    BY <1>1 DEF m
  <2>6. q.next - q.avail - 1 = cut - 1
    BY <1>8
  <2> HIDE DEF base
  <2> QED BY <2>2, <2>3, <2>4, <2>5, <2>6
<1>13. \A k \in DOMAIN q.data : k >= q.next - q.avail
  BY <1>7, <1>8
<1>14. q.next \in Nat /\ q.next \notin Stored(q)
  BY <1>1, <1>6, <1>7
<1>15. Whole(q, r \o out)
  BY <1>6, <1>7, <1>8, <1>9, <1>10, <1>11, <1>12, <1>13, <1>14 DEF Whole
<1>16. q.next = b.next /\ q.avail < b.avail
  BY <1>1, <1>3, <1>6
<1>17. Got(q) = Got(b)
  <2>1. \A x : x \in Stored(q) <=> x \in Stored(b) /\ x >= cut
    BY <1>7
  <2>2. \A x \in Stored(b) : x \in Nat /\ x >= base
    <3> SUFFICES ASSUME NEW x \in Stored(b) PROVE x \in Nat /\ x >= base
      OBVIOUS
    <3>1. PICK k \in DOMAIN b.data : x \in Bytes(b, k)
      BY StoredIs
    <3>2. k \in Nat /\ After(b, k) \in Nat /\ k >= base
      BY <1>1, <3>1, LaidAfter
    <3> QED BY <1>4, <3>1, <3>2 DEF Bytes
  <2>3. base >= 1
    BY <1>1
  <2> HIDE DEF base, cut
  <2> QED BY <1>1, <1>4, <1>5, <1>6, <2>1, <2>2, <2>3 DEF Got
<1> QED BY <1>15, <1>16, <1>17 DEF q, out

-----------------------------------------------------------------------------
(* The receiver, on its own and any peer.                                  *)

LEMMA NewWhole == Whole(NewRxBuffer(1), <<>>)
<1> DEFINE b == NewRxBuffer(1)
<1>1. /\ DOMAIN b = {"next", "data", "size", "avail", "sack"}
      /\ b.next = 1 /\ b.avail = 0 /\ b.size = 0 /\ b.data = <<>> /\ b.sack = <<>>
  BY DEF NewRxBuffer
<1>2. DOMAIN b.data = {}
  BY <1>1
<1> HIDE DEF b
<1>3. Laid(b)
  BY <1>2 DEF Laid
<1>4. Stored(b) = {} /\ Cardinality({}) = 0
  BY <1>2, FS_EmptySet DEF Stored, BytesIn
<1>5. <<>> = Consecutive(1, 0)
  BY DEF Consecutive
<1>6. Whole(b, <<>>)
  BY <1>1, <1>2, <1>3, <1>4, <1>5, EmptySeq DEF Whole
<1> QED BY <1>6 DEF b

RInv == Whole(rx, read)

LEMMA NextRInv == RInv /\ [ReceiverNext]_receiver => RInv'
<1> SUFFICES ASSUME RInv, [ReceiverNext]_receiver PROVE RInv'
  OBVIOUS
<1>1. ASSUME NEW s \in FirstByte .. MaxBytes, NEW last \in s + 1 .. MaxBytes + 1,
             Arrive(s, last)
      PROVE  RInv'
  <2>1. s \in Nat /\ last - s \in Nat
    BY ReceiverAssumption DEF FirstByte
  <2>2. rx' = Add(rx, s, Consecutive(s, last - s)) /\ read' = read
    BY <1>1 DEF Arrive, Consecutive
  <2> QED BY <2>1, <2>2, AddWhole DEF RInv
<1>2. ASSUME NEW n \in Reads, Recv(n) PROVE RInv'
  <2>1. n \in Nat \ {0}
    BY ReceiverAssumption
  <2>2. rx.avail > 0 /\ rx' = Extract(rx, n).rx /\ read' = read \o Extract(rx, n).out
    BY <1>2 DEF Recv
  <2> QED BY <2>1, <2>2, ExtractWhole DEF RInv
<1>3. CASE UNCHANGED receiver
  BY <1>3 DEF receiver, RInv
<1> QED BY <1>1, <1>2, <1>3 DEF ReceiverNext

LEMMA RInvCorrect == ReceiverSpec => []RInv
<1>1. ReceiverInit => RInv
  BY NewWhole DEF ReceiverInit, RInv, FirstByte
<1> QED BY <1>1, NextRInv, PTL DEF ReceiverSpec

\* However segments overlap what is stored, what was delivered and each other,
\* reassembly is exact: every byte once, at its place, counted and read in
\* order (TcpRxBuffer::Add, Extract).
THEOREM RxExactCorrect == ReceiverSpec => []RxExact
<1>1. RInv => RxExact
  <2> SUFFICES ASSUME RInv PROVE RxExact
    OBVIOUS
  <2>1. Whole(rx, read) /\ Laid(rx)
    BY DEF RInv, Whole
  <2>2. rx.size = Cardinality(Stored(rx))
    BY <2>1 DEF Whole
  <2>3. \A k \in DOMAIN rx.data : rx.data[k] = [i \in 1 .. Len(rx.data[k]) |-> k + i - 1]
    BY <2>1 DEF Laid, Consecutive
  <2>4. ASSUME NEW j \in DOMAIN rx.data, NEW k \in DOMAIN rx.data, j # k
        PROVE  Bytes(rx, j) \cap Bytes(rx, k) = {}
    <3>1. j \in Nat /\ k \in Nat /\ After(rx, j) \in Nat /\ After(rx, k) \in Nat
      BY <2>1, LaidAfter
    <3>2. (j < k => After(rx, j) <= k) /\ (k < j => After(rx, k) <= j)
      BY <2>1 DEF Laid
    <3> QED BY <2>4, <3>1, <3>2 DEF Bytes
  <2>5. read = [i \in 1 .. rx.next - FirstByte - rx.avail |-> FirstByte + i - 1]
    <3>1. read = Consecutive(1, rx.next - rx.avail - 1) /\ rx.next \in Nat /\ rx.avail \in Nat
      BY <2>1 DEF Whole
    <3>2. rx.next - rx.avail - 1 = rx.next - 1 - rx.avail
      BY <3>1
    <3> QED BY <3>1, <3>2 DEF Consecutive, FirstByte
  <2> QED BY <2>2, <2>3, <2>4, <2>5 DEF RxExact
<1> QED BY <1>1, RInvCorrect, PTL

\* Every block of the SACK list covers bytes that are stored and lies beyond
\* the next byte expected, whatever was merged, replaced, forgotten and
\* delivered since (UpdateSackList, ClearSackList).
THEOREM SackTruthfulCorrect == ReceiverSpec => []SackTruthful
<1>1. RInv => SackTruthful
  <2> SUFFICES ASSUME RInv, NEW i \in 1 .. Len(rx.sack)
               PROVE  /\ rx.sack[i][1] > rx.next
                      /\ rx.sack[i][1] .. rx.sack[i][2] - 1 \subseteq Stored(rx)
    BY DEF SackTruthful
  <2>1. rx.sack \in Seq(Blocks(Stored(rx), rx.next))
    BY DEF RInv, Whole
  <2>2. rx.sack[i] \in Blocks(Stored(rx), rx.next)
    BY <2>1, ElementOfSeq
  <2> QED BY <2>2 DEF Blocks
<1> QED BY <1>1, RInvCorrect, PTL

-----------------------------------------------------------------------------
(* The scoreboard of the sender.                                           *)

Item == [size : Nat \ {0}, sacked : BOOLEAN, lost : BOOLEAN, retrans : BOOLEAN]

\* The items are what was sent and not acknowledged, piece by piece.
Tiled(tx) ==
    /\ tx.first \in Nat \ {0} /\ tx.sentSize \in Nat
    /\ Items(tx) \in SUBSET Nat
    /\ \A k \in Items(tx) : tx.sent[k] \in Item
    /\ \A j, k \in Items(tx) : j < k => End(tx, j) <= k
    /\ Span(tx, Items(tx)) = tx.first .. SentEnd(tx) - 1

\* The counters agree with the marks.
Counted(tx) ==
    /\ tx.sackedOut = Amount(tx, Sacked(tx))
    /\ tx.lostOut = Amount(tx, Lost(tx))
    /\ tx.retrans = Amount(tx, Resent(tx))
    /\ Lost(tx) \cap Sacked(tx) = {}

\* The iterator is at the end, or at a sacked item.
Placed(tx) ==
    /\ tx.highest \in [at : Nat, seq : Nat]
    /\ tx.highest = NoHighest \/ (tx.highest.at \in Sacked(tx) /\ tx.highest.seq = tx.highest.at)

Board(tx) ==
    /\ DOMAIN tx = {"first", "sent", "sentSize", "app", "highest",
                    "sackedOut", "lostOut", "retrans"}
    /\ tx.app \in Nat
    /\ Tiled(tx) /\ Counted(tx) /\ Placed(tx)

LEMMA IntervalSize ==
    ASSUME NEW a \in Nat, NEW b \in Nat, a <= b
    PROVE  Cardinality(a .. b - 1) = b - a
<1> DEFINE c == b - 1
<1>1. c \in Int /\ (IF a > c THEN 0 ELSE c - a + 1) = b - a
  OBVIOUS
<1> HIDE DEF c
<1>2. Cardinality(a .. c) = IF a > c THEN 0 ELSE c - a + 1
  BY <1>1, FS_Interval
<1> QED BY <1>1, <1>2 DEF c

LEMMA SpanIs ==
    ASSUME NEW tx, NEW S
    PROVE  \A x : x \in Span(tx, S) <=> \E k \in S : x \in k .. End(tx, k) - 1
  BY DEF Span

LEMMA ItemBounds ==
    ASSUME NEW tx, Tiled(tx)
    PROVE  /\ SentEnd(tx) \in Nat /\ tx.first <= SentEnd(tx)
           /\ \A k \in Items(tx) :
                 /\ k \in Nat /\ End(tx, k) \in Nat /\ tx.sent[k].size \in Nat \ {0}
                 /\ End(tx, k) = k + tx.sent[k].size
                 /\ tx.first <= k /\ k < End(tx, k) /\ End(tx, k) <= SentEnd(tx)
<1>1. SentEnd(tx) \in Nat /\ tx.first <= SentEnd(tx)
  BY DEF Tiled, SentEnd
<1>2. ASSUME NEW k \in Items(tx)
      PROVE  /\ k \in Nat /\ End(tx, k) \in Nat /\ tx.sent[k].size \in Nat \ {0}
             /\ End(tx, k) = k + tx.sent[k].size
             /\ tx.first <= k /\ k < End(tx, k) /\ End(tx, k) <= SentEnd(tx)
  <2>1. /\ k \in Nat /\ tx.sent[k].size \in Nat \ {0}
        /\ End(tx, k) = k + tx.sent[k].size
    BY <1>2 DEF Tiled, Item, End
  <2>2. k \in k .. End(tx, k) - 1 /\ End(tx, k) - 1 \in k .. End(tx, k) - 1
    BY <2>1
  <2>3. k \in Span(tx, Items(tx)) /\ End(tx, k) - 1 \in Span(tx, Items(tx))
    BY <1>2, <2>2, SpanIs
  <2>4. k \in tx.first .. SentEnd(tx) - 1 /\ End(tx, k) - 1 \in tx.first .. SentEnd(tx) - 1
    BY <2>3 DEF Tiled
  <2> QED BY <1>1, <2>1, <2>4
<1> QED BY <1>1, <1>2

\* Every byte sent and not acknowledged is in one item.
LEMMA ItemOfByte ==
    ASSUME NEW tx, Tiled(tx), NEW x \in tx.first .. SentEnd(tx) - 1
    PROVE  \E k \in Items(tx) : k <= x /\ x < End(tx, k)
<1>1. x \in Span(tx, Items(tx))
  BY DEF Tiled
<1>2. PICK k \in Items(tx) : x \in k .. End(tx, k) - 1
  BY <1>1, SpanIs
<1>3. k \in Nat /\ End(tx, k) \in Nat
  BY ItemBounds
<1> QED BY <1>2, <1>3

LEMMA ItemUnique ==
    ASSUME NEW tx, Tiled(tx), NEW j \in Items(tx), NEW k \in Items(tx), NEW x \in Int,
           j <= x, x < End(tx, j), k <= x, x < End(tx, k)
    PROVE  j = k
<1>1. j \in Nat /\ k \in Nat /\ End(tx, j) \in Nat /\ End(tx, k) \in Nat
  BY ItemBounds
<1>2. (j < k => End(tx, j) <= k) /\ (k < j => End(tx, k) <= j)
  BY DEF Tiled
<1> QED BY <1>1, <1>2

LEMMA HeadItem ==
    ASSUME NEW tx, Tiled(tx), Items(tx) # {} \/ tx.first < SentEnd(tx)
    PROVE  tx.first \in Items(tx) /\ tx.first < SentEnd(tx)
<1>1. tx.first \in Nat /\ SentEnd(tx) \in Nat /\ tx.first < SentEnd(tx)
  <2>1. CASE Items(tx) # {}
    <3>1. PICK k \in Items(tx) : TRUE
      BY <2>1
    <3> QED BY <3>1, ItemBounds DEF Tiled
  <2>2. CASE tx.first < SentEnd(tx)
    BY <2>2, ItemBounds DEF Tiled
  <2> QED BY <2>1, <2>2
<1>2. tx.first \in tx.first .. SentEnd(tx) - 1
  BY <1>1
<1>3. PICK k \in Items(tx) : k <= tx.first /\ tx.first < End(tx, k)
  BY <1>2, ItemOfByte
<1>4. k \in Nat /\ tx.first <= k
  BY ItemBounds
<1> QED BY <1>1, <1>3, <1>4

\* The bytes of some items.
LEMMA SpanFinite ==
    ASSUME NEW tx, Tiled(tx), NEW S \in SUBSET Items(tx)
    PROVE  /\ Span(tx, S) \subseteq tx.first .. SentEnd(tx) - 1
           /\ IsFiniteSet(Span(tx, S))
           /\ Amount(tx, S) \in Nat
<1>1. Span(tx, S) \subseteq Span(tx, Items(tx))
  BY SpanIs
<1>2. Span(tx, S) \subseteq tx.first .. SentEnd(tx) - 1
  BY <1>1 DEF Tiled
<1>3. tx.first \in Int /\ SentEnd(tx) - 1 \in Int
  BY ItemBounds DEF Tiled
<1>4. IsFiniteSet(tx.first .. SentEnd(tx) - 1)
  BY <1>3, FS_Interval
<1> QED BY <1>2, <1>4, FS_Subset, FS_CardinalityType DEF Amount

LEMMA SpanDisjoint ==
    ASSUME NEW tx, Tiled(tx), NEW S \in SUBSET Items(tx), NEW T \in SUBSET Items(tx),
           S \cap T = {}
    PROVE  Span(tx, S) \cap Span(tx, T) = {}
<1> SUFFICES ASSUME NEW x \in Span(tx, S), x \in Span(tx, T) PROVE FALSE
  OBVIOUS
<1>1. PICK j \in S : x \in j .. End(tx, j) - 1
  BY SpanIs
<1>2. PICK k \in T : x \in k .. End(tx, k) - 1
  BY SpanIs
<1>3. j \in Items(tx) /\ k \in Items(tx) /\ j \in Nat /\ k \in Nat
      /\ End(tx, j) \in Nat /\ End(tx, k) \in Nat
  BY ItemBounds
<1>4. x \in Int /\ j <= x /\ x < End(tx, j) /\ k <= x /\ x < End(tx, k)
  BY <1>1, <1>2, <1>3
<1>5. j = k
  BY <1>3, <1>4, ItemUnique
<1> QED BY <1>5

LEMMA AmountUnion ==
    ASSUME NEW tx, Tiled(tx), NEW S \in SUBSET Items(tx), NEW T \in SUBSET Items(tx),
           S \cap T = {}
    PROVE  Amount(tx, S \cup T) = Amount(tx, S) + Amount(tx, T)
<1> DEFINE A == Span(tx, S)
           B == Span(tx, T)
<1>1. Span(tx, S \cup T) = A \cup B
  BY SpanIs
<1>2. A \cap B = {}
  BY SpanDisjoint
<1>3. IsFiniteSet(A) /\ IsFiniteSet(B)
  BY SpanFinite
<1>4. Cardinality(A) \in Nat /\ Cardinality(B) \in Nat
  BY <1>3, FS_CardinalityType
<1>5. Cardinality(A \cup B) = Cardinality(A) + Cardinality(B)
  <2> HIDE DEF A, B
  <2>1. Cardinality(A \cup B) = Cardinality(A) + Cardinality(B) - Cardinality(A \cap B)
    BY <1>3, FS_Union
  <2>2. Cardinality(A \cap B) = 0
    BY <1>2, FS_EmptySet
  <2> QED BY <1>4, <2>1, <2>2
<1> QED BY <1>1, <1>5 DEF Amount

LEMMA AmountMinus ==
    ASSUME NEW tx, Tiled(tx), NEW S \in SUBSET Items(tx), NEW T \in SUBSET S
    PROVE  Amount(tx, S \ T) = Amount(tx, S) - Amount(tx, T)
<1> DEFINE U == S \ T
<1>1. /\ U \in SUBSET Items(tx) /\ T \in SUBSET Items(tx)
      /\ U \cap T = {} /\ U \cup T = S
  OBVIOUS
<1> HIDE DEF U
<1>2. Amount(tx, U \cup T) = Amount(tx, U) + Amount(tx, T)
  BY <1>1, AmountUnion
<1>3. Amount(tx, T) \in Nat /\ Amount(tx, U) \in Nat
  BY <1>1, SpanFinite
<1>4. Amount(tx, S) = Amount(tx, U) + Amount(tx, T)
  BY <1>1, <1>2, Zenon
<1>5. Amount(tx, U) = Amount(tx, S) - Amount(tx, T)
  BY <1>3, <1>4
<1> QED BY <1>5 DEF U

LEMMA AmountOne ==
    ASSUME NEW tx, Tiled(tx), NEW k \in Items(tx)
    PROVE  Amount(tx, {k}) = tx.sent[k].size
<1>1. Span(tx, {k}) = k .. End(tx, k) - 1
  BY DEF Span
<1>2. k \in Nat /\ End(tx, k) \in Nat /\ k < End(tx, k) /\ tx.sent[k].size \in Nat
      /\ End(tx, k) = k + tx.sent[k].size
  BY ItemBounds
<1>3. Cardinality(k .. End(tx, k) - 1) = End(tx, k) - k
  BY <1>2, IntervalSize
<1>4. Amount(tx, {k}) = Cardinality(k .. End(tx, k) - 1)
  BY <1>1 DEF Amount
<1> QED BY <1>2, <1>3, <1>4

LEMMA AmountAll ==
    ASSUME NEW tx, Tiled(tx)
    PROVE  Amount(tx, Items(tx)) = tx.sentSize
<1>1. Span(tx, Items(tx)) = tx.first .. SentEnd(tx) - 1
  BY DEF Tiled
<1>2. /\ tx.first \in Nat /\ tx.sentSize \in Nat /\ SentEnd(tx) = tx.first + tx.sentSize
      /\ SentEnd(tx) \in Nat /\ tx.first <= SentEnd(tx)
  BY DEF Tiled, SentEnd
<1>3. Cardinality(tx.first .. SentEnd(tx) - 1) = SentEnd(tx) - tx.first
  BY <1>2, IntervalSize
<1>4. Amount(tx, Items(tx)) = Cardinality(tx.first .. SentEnd(tx) - 1)
  BY <1>1 DEF Amount
<1> QED BY <1>2, <1>3, <1>4

\* Marks do not move items.
LEMMA SpanSame ==
    ASSUME NEW tx, NEW q, NEW S, \A k \in S : q.sent[k].size = tx.sent[k].size
    PROVE  Span(q, S) = Span(tx, S) /\ Amount(q, S) = Amount(tx, S)
<1>1. \A k \in S : End(q, k) = End(tx, k)
  BY DEF End
<1> QED BY <1>1 DEF Span, Amount

\* What a buffer knows of the items does not depend on its other fields.
LEMMA SameItems ==
    ASSUME NEW tx, NEW q, q.sent = tx.sent
    PROVE  /\ Items(q) = Items(tx) /\ Sacked(q) = Sacked(tx)
           /\ Lost(q) = Lost(tx) /\ Resent(q) = Resent(tx)
           /\ \A S : Span(q, S) = Span(tx, S) /\ Amount(q, S) = Amount(tx, S)
<1>1. Items(q) = Items(tx) /\ \A k : q.sent[k] = tx.sent[k]
  BY DEF Items
<1>2. Sacked(q) = Sacked(tx) /\ Lost(q) = Lost(tx) /\ Resent(q) = Resent(tx)
  BY <1>1 DEF Sacked, Lost, Resent
<1>3. \A S : Span(q, S) = Span(tx, S) /\ Amount(q, S) = Amount(tx, S)
  BY <1>1, SpanSame
<1> QED BY <1>1, <1>2, <1>3

\* The sender goes on: what is acknowledged, sacked or written stays.
Steady(tx, q) ==
    /\ Board(q)
    /\ q.first = tx.first
    /\ SentEnd(tx) <= SentEnd(q)
    /\ TailSequence(q) = TailSequence(tx)
    /\ Span(q, Sacked(q)) = Span(tx, Sacked(tx))

LEMMA SteadyThen ==
    ASSUME NEW tx, Board(tx), NEW q, Steady(tx, q), NEW r, Steady(q, r)
    PROVE  Steady(tx, r)
<1>1. SentEnd(tx) \in Nat /\ SentEnd(q) \in Nat /\ SentEnd(r) \in Nat
  BY ItemBounds DEF Board, Steady
<1> QED BY <1>1 DEF Steady

LEMMA SteadySelf == ASSUME NEW tx, Board(tx) PROVE Steady(tx, tx)
<1>1. SentEnd(tx) \in Nat
  BY ItemBounds DEF Board
<1> QED BY <1>1 DEF Steady

\* SplitItems().
SplitSent(tx, k, n) ==
    [j \in DOMAIN tx.sent \cup {k + n} |->
        IF j = k THEN [tx.sent[k] EXCEPT !.size = n]
        ELSE IF j = k + n THEN [tx.sent[k] EXCEPT !.size = @ - n]
        ELSE tx.sent[j]]

LEMMA SplitItems ==
    ASSUME NEW tx, Tiled(tx), NEW k \in Items(tx), NEW n \in Nat \ {0},
           n < tx.sent[k].size,
           NEW q, q.sent = SplitSent(tx, k, n)
    PROVE  /\ k + n \notin Items(tx)
           /\ Items(q) = Items(tx) \cup {k + n}
           /\ q.sent[k] \in Item /\ q.sent[k].size = n
           /\ q.sent[k + n] \in Item /\ q.sent[k + n].size = tx.sent[k].size - n
           /\ \A j \in {k, k + n} : /\ q.sent[j].sacked = tx.sent[k].sacked
                                   /\ q.sent[j].lost = tx.sent[k].lost
                                   /\ q.sent[j].retrans = tx.sent[k].retrans
           /\ \A j \in Items(tx) \ {k} : q.sent[j] = tx.sent[j]
           /\ \A j \in Items(tx) \ {k} : End(q, j) = End(tx, j)
           /\ End(q, k) = k + n /\ End(q, k + n) = End(tx, k)
<1>1. /\ k \in Nat /\ tx.sent[k].size \in Nat /\ tx.sent[k] \in Item
      /\ End(tx, k) = k + tx.sent[k].size
  BY ItemBounds DEF Tiled
<1>2. k + n \notin Items(tx)
  <2> SUFFICES ASSUME k + n \in Items(tx) PROVE FALSE
    OBVIOUS
  <2>1. k < k + n => End(tx, k) <= k + n
    BY DEF Tiled
  <2> QED BY <1>1, <2>1
<1>3. Items(q) = Items(tx) \cup {k + n}
  BY DEF SplitSent, Items
<1>4. q.sent[k] = [tx.sent[k] EXCEPT !.size = n]
  BY <1>2, <1>3 DEF SplitSent, Items
<1>5. q.sent[k + n] = [tx.sent[k] EXCEPT !.size = @ - n]
  BY <1>1, <1>2, <1>3 DEF SplitSent, Items
<1>6. \A j \in Items(tx) \ {k} : q.sent[j] = tx.sent[j]
  BY <1>2, <1>3 DEF SplitSent, Items
<1>7. tx.sent[k].size - n \in Nat \ {0}
  BY <1>1
<1>8. /\ q.sent[k] \in Item /\ q.sent[k].size = n
      /\ q.sent[k].sacked = tx.sent[k].sacked
      /\ q.sent[k].lost = tx.sent[k].lost
      /\ q.sent[k].retrans = tx.sent[k].retrans
  BY <1>1, <1>4 DEF Item
<1>9. /\ q.sent[k + n] \in Item /\ q.sent[k + n].size = tx.sent[k].size - n
      /\ q.sent[k + n].sacked = tx.sent[k].sacked
      /\ q.sent[k + n].lost = tx.sent[k].lost
      /\ q.sent[k + n].retrans = tx.sent[k].retrans
  BY <1>1, <1>5, <1>7 DEF Item
<1>10. \A j \in Items(tx) \ {k} : End(q, j) = End(tx, j)
  BY <1>6 DEF End
<1>11. End(q, k) = k + n /\ End(q, k + n) = End(tx, k)
  BY <1>1, <1>8, <1>9 DEF End
<1> QED BY <1>2, <1>3, <1>6, <1>8, <1>9, <1>10, <1>11

LEMMA SplitSpan ==
    ASSUME NEW tx, Tiled(tx), NEW k \in Items(tx), NEW n \in Nat \ {0},
           n < tx.sent[k].size,
           NEW q, q.sent = SplitSent(tx, k, n),
           NEW S \in SUBSET Items(tx), NEW T, T = IF k \in S THEN S \cup {k + n} ELSE S
    PROVE  Span(q, T) = Span(tx, S)
<1>1. /\ \A j \in Items(tx) \ {k} : End(q, j) = End(tx, j)
      /\ End(q, k) = k + n /\ End(q, k + n) = End(tx, k)
  BY SplitItems
<1>2. CASE k \notin S
  <2>1. \A j \in S : End(q, j) = End(tx, j)
    BY <1>1, <1>2
  <2> QED BY <1>2, <2>1 DEF Span
<1>3. CASE k \in S
  <2>1. k \in Nat /\ End(tx, k) \in Nat /\ k < k + n /\ k + n < End(tx, k)
    BY ItemBounds
  <2>2. \A x : x \in k .. End(tx, k) - 1
                 <=> x \in k .. End(q, k) - 1 \/ x \in k + n .. End(q, k + n) - 1
    BY <1>1, <2>1
  <2> DEFINE R == S \ {k}
  <2>3. S = R \cup {k} /\ T = R \cup {k} \cup {k + n}
    BY <1>3
  <2>4. \A j \in R : End(q, j) = End(tx, j)
    BY <1>1
  <2> HIDE DEF R
  <2>5. Span(q, R) = Span(tx, R)
    BY <2>4 DEF Span
  <2>6. \A x : x \in Span(tx, S) <=> x \in Span(tx, R) \/ x \in k .. End(tx, k) - 1
    BY <2>3, SpanIs
  <2>7. \A x : x \in Span(q, T) <=> \/ x \in Span(q, R)
                                  \/ x \in k .. End(q, k) - 1
                                  \/ x \in k + n .. End(q, k + n) - 1
    BY <2>3, SpanIs
  <2>8. \A x : x \in Span(q, T) <=> x \in Span(tx, S)
    BY <2>2, <2>5, <2>6, <2>7
  <2> QED BY <2>8
<1> QED BY <1>2, <1>3

LEMMA SplitFields ==
    ASSUME NEW tx, Board(tx), NEW k, NEW n
    PROVE  LET q == Split(tx, k, n)
           IN  /\ DOMAIN q = DOMAIN tx
               /\ q.first = tx.first /\ q.sentSize = tx.sentSize /\ q.app = tx.app
               /\ q.sackedOut = tx.sackedOut /\ q.lostOut = tx.lostOut
               /\ q.retrans = tx.retrans
               /\ q.sent = SplitSent(tx, k, n)
               /\ q.highest.at = IF tx.highest.at = k THEN k + n ELSE tx.highest.at
               /\ q.highest.seq = tx.highest.seq
               /\ tx.highest.at # k => q.highest = tx.highest
  BY DEF Split, SplitSent, Board, Placed

LEMMA SplitSteady ==
    ASSUME NEW tx, Board(tx), NEW k \in Items(tx), k \notin Sacked(tx),
           NEW n \in Nat \ {0}, n < tx.sent[k].size
    PROVE  LET q == Split(tx, k, n)
           IN  /\ Steady(tx, q) /\ BytesInFlight(q) = BytesInFlight(tx)
               /\ SentEnd(q) = SentEnd(tx)
               /\ Items(q) = Items(tx) \cup {k + n}
               /\ k \notin Sacked(q)
               /\ q.sent[k].size = n /\ q.sent[k + n].size = tx.sent[k].size - n
               /\ q.sent[k].retrans = tx.sent[k].retrans
               /\ \A j \in Items(tx) \ {k} : q.sent[j] = tx.sent[j]
<1> DEFINE q == Split(tx, k, n)
           In(S) == IF k \in S THEN S \cup {k + n} ELSE S
<1>1. Tiled(tx) /\ Counted(tx) /\ Placed(tx)
  BY DEF Board
<1>2. /\ DOMAIN q = DOMAIN tx
      /\ q.first = tx.first /\ q.sentSize = tx.sentSize /\ q.app = tx.app
      /\ q.sackedOut = tx.sackedOut /\ q.lostOut = tx.lostOut
      /\ q.retrans = tx.retrans
      /\ q.sent = SplitSent(tx, k, n)
      /\ tx.highest.at # k => q.highest = tx.highest
  BY SplitFields
<1> HIDE DEF q
<1>3. /\ k + n \notin Items(tx)
      /\ Items(q) = Items(tx) \cup {k + n}
      /\ q.sent[k] \in Item /\ q.sent[k].size = n
      /\ q.sent[k + n] \in Item /\ q.sent[k + n].size = tx.sent[k].size - n
      /\ \A j \in {k, k + n} : /\ q.sent[j].sacked = tx.sent[k].sacked
                              /\ q.sent[j].lost = tx.sent[k].lost
                              /\ q.sent[j].retrans = tx.sent[k].retrans
      /\ \A j \in Items(tx) \ {k} : q.sent[j] = tx.sent[j]
      /\ \A j \in Items(tx) \ {k} : End(q, j) = End(tx, j)
      /\ End(q, k) = k + n /\ End(q, k + n) = End(tx, k)
  BY <1>1, <1>2, SplitItems
<1>4. /\ Sacked(q) = Sacked(tx)
      /\ Lost(q) = In(Lost(tx)) /\ Resent(q) = In(Resent(tx))
      /\ Items(q) = In(Items(tx))
  BY <1>3 DEF Sacked, Lost, Resent
<1>5. /\ Span(q, Sacked(q)) = Span(tx, Sacked(tx))
      /\ Span(q, Lost(q)) = Span(tx, Lost(tx))
      /\ Span(q, Resent(q)) = Span(tx, Resent(tx))
      /\ Span(q, Items(q)) = Span(tx, Items(tx))
  <2>1. ASSUME NEW S \in SUBSET Items(tx) PROVE Span(q, In(S)) = Span(tx, S)
    BY <1>1, <1>2, SplitSpan
  <2>2. /\ Sacked(tx) \in SUBSET Items(tx) /\ Lost(tx) \in SUBSET Items(tx)
        /\ Resent(tx) \in SUBSET Items(tx) /\ In(Sacked(tx)) = Sacked(tx)
    BY DEF Sacked, Lost, Resent
  <2> HIDE DEF In
  <2> QED BY <1>4, <2>1, <2>2
<1>6. SentEnd(q) = SentEnd(tx) /\ TailSequence(q) = TailSequence(tx)
  BY <1>2 DEF SentEnd, TailSequence
<1>7. Tiled(q)
  <2>1. \A j \in Items(q) : j \in Nat /\ q.sent[j] \in Item
    BY <1>1, <1>3 DEF Tiled
  <2>2. ASSUME NEW i \in Items(q), NEW j \in Items(q), i < j PROVE End(q, i) <= j
    <3>1. \A m \in Items(tx) : m \in Nat /\ End(tx, m) \in Nat
      BY <1>1, ItemBounds
    <3>2. \A l, m \in Items(tx) : l < m => End(tx, l) <= m
      BY <1>1 DEF Tiled
    <3>3. k + n < End(tx, k)
      BY <1>1, ItemBounds
    <3> QED BY <1>3, <2>2, <3>1, <3>2, <3>3
  <2> QED BY <1>1, <1>2, <1>5, <1>6, <2>1, <2>2 DEF Tiled
<1>8. Counted(q)
  <2>1. k + n \notin Sacked(tx)
    BY <1>3 DEF Sacked
  <2>2. Lost(q) \cap Sacked(q) = {}
    BY <1>1, <1>4, <2>1 DEF Counted
  <2>3. /\ Amount(q, Sacked(q)) = Amount(tx, Sacked(tx))
        /\ Amount(q, Lost(q)) = Amount(tx, Lost(tx))
        /\ Amount(q, Resent(q)) = Amount(tx, Resent(tx))
    BY <1>5 DEF Amount
  <2> QED BY <1>1, <1>2, <2>2, <2>3 DEF Counted
<1>9. Placed(q)
  <2>1. tx.highest.at # k
    <3>1. k # 0
      BY <1>1, ItemBounds DEF Tiled
    <3>2. tx.highest = NoHighest \/ tx.highest.at \in Sacked(tx)
      BY <1>1 DEF Placed
    <3> QED BY <3>1, <3>2 DEF NoHighest
  <2> QED BY <1>1, <1>2, <1>4, <2>1 DEF Placed
<1>10. Board(q)
  BY <1>2, <1>7, <1>8, <1>9 DEF Board
<1>11. Steady(tx, q)
  BY <1>1, <1>2, <1>5, <1>6, <1>10, ItemBounds DEF Steady
<1>12. BytesInFlight(q) = BytesInFlight(tx)
  BY <1>2 DEF BytesInFlight
<1>13. k \notin Sacked(q) /\ q.sent[k].retrans = tx.sent[k].retrans
  BY <1>3, <1>4
<1> QED BY <1>3, <1>6, <1>11, <1>12, <1>13 DEF q

\* MergeItems().
MergeSent(tx, k) ==
    [j \in DOMAIN tx.sent \ {End(tx, k)} |->
        IF j = k THEN [tx.sent[k] EXCEPT !.size = @ + tx.sent[End(tx, k)].size,
                                         !.retrans = @ /\ tx.sent[End(tx, k)].retrans]
        ELSE tx.sent[j]]

MergeUnmarked(tx, k) ==
    IF tx.sent[k].retrans = tx.sent[End(tx, k)].retrans THEN 0
    ELSE IF tx.sent[k].retrans THEN tx.sent[k].size ELSE tx.sent[End(tx, k)].size

LEMMA MergeFields ==
    ASSUME NEW tx, Board(tx), NEW k
    PROVE  LET q == Merge(tx, k)
           IN  /\ DOMAIN q = DOMAIN tx
               /\ q.first = tx.first /\ q.sentSize = tx.sentSize /\ q.app = tx.app
               /\ q.sackedOut = tx.sackedOut /\ q.lostOut = tx.lostOut
               /\ q.retrans = tx.retrans - MergeUnmarked(tx, k)
               /\ q.sent = MergeSent(tx, k)
               /\ q.highest = tx.highest
  BY DEF Merge, MergeSent, MergeUnmarked, Board

LEMMA MergeItems ==
    ASSUME NEW tx, Tiled(tx), NEW k \in Items(tx), End(tx, k) \in Items(tx),
           NEW q, q.sent = MergeSent(tx, k)
    PROVE  LET e == End(tx, k)
           IN  /\ Items(q) = Items(tx) \ {e} /\ k # e
               /\ q.sent[k] \in Item
               /\ q.sent[k].size = tx.sent[k].size + tx.sent[e].size
               /\ q.sent[k].sacked = tx.sent[k].sacked
               /\ q.sent[k].lost = tx.sent[k].lost
               /\ q.sent[k].retrans = (tx.sent[k].retrans /\ tx.sent[e].retrans)
               /\ \A j \in Items(tx) \ {k, e} : q.sent[j] = tx.sent[j]
               /\ \A j \in Items(tx) \ {k, e} : End(q, j) = End(tx, j)
               /\ End(q, k) = End(tx, e)
<1> DEFINE e == End(tx, k)
<1>1. /\ k \in Nat /\ tx.sent[k].size \in Nat \ {0} /\ e = k + tx.sent[k].size /\ k < e
      /\ tx.sent[e].size \in Nat \ {0} /\ End(tx, e) = e + tx.sent[e].size /\ e \in Nat
  BY ItemBounds
<1>2. tx.sent[k] \in Item /\ tx.sent[e] \in Item
  BY DEF Tiled
<1> DEFINE b == tx.sent[e]
<1> HIDE DEF e
<1>3. Items(q) = Items(tx) \ {e}
  BY DEF MergeSent, Items, e
<1>4. q.sent[k] = [tx.sent[k] EXCEPT !.size = @ + b.size, !.retrans = @ /\ b.retrans]
  BY <1>1, <1>3 DEF MergeSent, Items, e
<1>5. \A j \in Items(tx) \ {k, e} : q.sent[j] = tx.sent[j]
  BY <1>3 DEF MergeSent, Items, e
<1>6. tx.sent[k].size + b.size \in Nat \ {0}
  BY <1>1
<1>7. /\ q.sent[k] \in Item
      /\ q.sent[k].size = tx.sent[k].size + tx.sent[e].size
      /\ q.sent[k].sacked = tx.sent[k].sacked
      /\ q.sent[k].lost = tx.sent[k].lost
      /\ q.sent[k].retrans = (tx.sent[k].retrans /\ tx.sent[e].retrans)
  BY <1>2, <1>4, <1>6 DEF Item
<1>8. \A j \in Items(tx) \ {k, e} : End(q, j) = End(tx, j)
  BY <1>5 DEF End
<1>9. End(q, k) = End(tx, e)
  BY <1>1, <1>7 DEF End
<1> QED BY <1>1, <1>3, <1>5, <1>7, <1>8, <1>9 DEF e

LEMMA MergeSpan ==
    ASSUME NEW tx, Tiled(tx), NEW k \in Items(tx), End(tx, k) \in Items(tx),
           NEW q, q.sent = MergeSent(tx, k),
           NEW S \in SUBSET Items(tx), k \in S <=> End(tx, k) \in S
    PROVE  Span(q, S \ {End(tx, k)}) = Span(tx, S)
<1> DEFINE e == End(tx, k)
           T == S \ {e}
           R == S \ {k, e}
<1>1. /\ k # e
      /\ \A j \in Items(tx) \ {k, e} : End(q, j) = End(tx, j)
      /\ End(q, k) = End(tx, e)
  BY MergeItems
<1>2. k \in Nat /\ e \in Nat /\ k < e /\ End(tx, e) \in Nat /\ e < End(tx, e)
  BY ItemBounds
<1>3. Span(q, R) = Span(tx, R)
  BY <1>1 DEF Span
<1>4. \A x : x \in k .. End(q, k) - 1
             <=> x \in k .. e - 1 \/ x \in e .. End(tx, e) - 1
  BY <1>1, <1>2
<1>5. CASE k \notin S
  <2>1. T = R /\ S = R
    BY <1>5
  <2> QED BY <1>3, <2>1
<1>6. CASE k \in S
  <2>1. T = R \cup {k} /\ S = R \cup {k, e}
    BY <1>1, <1>6
  <2> HIDE DEF R, T
  <2>2. \A x : x \in Span(tx, S) <=> \/ x \in Span(tx, R)
                                   \/ x \in k .. End(tx, k) - 1
                                   \/ x \in e .. End(tx, e) - 1
    BY <2>1, SpanIs
  <2>3. \A x : x \in Span(q, T) <=> x \in Span(q, R) \/ x \in k .. End(q, k) - 1
    BY <2>1, SpanIs
  <2>4. \A x : x \in Span(q, T) <=> x \in Span(tx, S)
    BY <1>3, <1>4, <2>2, <2>3
  <2>5. Span(q, T) = Span(tx, S)
    BY <2>4
  <2> QED BY <2>5 DEF T
<1> QED BY <1>5, <1>6

LEMMA MergeSteady ==
    ASSUME NEW tx, Board(tx), NEW k \in Items(tx), End(tx, k) \in Items(tx),
           k \notin Sacked(tx), End(tx, k) \notin Sacked(tx),
           tx.sent[End(tx, k)].lost = tx.sent[k].lost
    PROVE  LET q == Merge(tx, k)
               e == End(tx, k)
           IN  /\ Steady(tx, q) /\ BytesInFlight(q) <= BytesInFlight(tx)
               /\ SentEnd(q) = SentEnd(tx)
               /\ Items(q) = Items(tx) \ {e} /\ k # e
               /\ k \notin Sacked(q)
               /\ q.sent[k].size = tx.sent[k].size + tx.sent[e].size
               /\ \A j \in Items(tx) \ {k, e} : q.sent[j] = tx.sent[j]
<1> DEFINE q == Merge(tx, k)
           e == End(tx, k)
           a == tx.sent[k]
           b == tx.sent[e]
<1>1. Tiled(tx) /\ Counted(tx) /\ Placed(tx)
  BY DEF Board
<1>2. /\ DOMAIN q = DOMAIN tx
      /\ q.first = tx.first /\ q.sentSize = tx.sentSize /\ q.app = tx.app
      /\ q.sackedOut = tx.sackedOut /\ q.lostOut = tx.lostOut
      /\ q.retrans = tx.retrans - MergeUnmarked(tx, k)
      /\ q.sent = MergeSent(tx, k)
      /\ q.highest = tx.highest
  BY MergeFields
<1> HIDE DEF q
<1>3. /\ Items(q) = Items(tx) \ {e} /\ k # e
      /\ q.sent[k] \in Item
      /\ q.sent[k].size = a.size + b.size
      /\ q.sent[k].sacked = a.sacked
      /\ q.sent[k].lost = a.lost
      /\ q.sent[k].retrans = (a.retrans /\ b.retrans)
      /\ \A j \in Items(tx) \ {k, e} : q.sent[j] = tx.sent[j]
      /\ \A j \in Items(tx) \ {k, e} : End(q, j) = End(tx, j)
      /\ End(q, k) = End(tx, e)
  BY <1>1, <1>2, MergeItems
<1>4. a \in Item /\ b \in Item
  BY <1>1 DEF Tiled
<1>5. ASSUME NEW S \in SUBSET Items(tx), k \in S <=> e \in S
      PROVE  Span(q, S \ {e}) = Span(tx, S)
  BY <1>1, <1>2, <1>5, MergeSpan
<1>6. /\ Sacked(q) = Sacked(tx) \ {e} /\ Sacked(tx) \ {e} = Sacked(tx)
      /\ Sacked(tx) \in SUBSET Items(tx)
      /\ Lost(q) = Lost(tx) \ {e} /\ (k \in Lost(tx) <=> e \in Lost(tx))
      /\ Lost(tx) \in SUBSET Items(tx)
  BY <1>3, <1>4 DEF Sacked, Lost, Item
<1>7. /\ Span(q, Sacked(q)) = Span(tx, Sacked(tx))
      /\ Span(q, Lost(q)) = Span(tx, Lost(tx))
      /\ Span(q, Items(q)) = Span(tx, Items(tx))
  BY <1>3, <1>5, <1>6
<1>8. SentEnd(q) = SentEnd(tx) /\ TailSequence(q) = TailSequence(tx)
  BY <1>2 DEF SentEnd, TailSequence
<1>9. Tiled(q)
  <2>1. \A j \in Items(q) : j \in Nat /\ q.sent[j] \in Item
    BY <1>1, <1>3 DEF Tiled
  <2>2. ASSUME NEW i \in Items(q), NEW j \in Items(q), i < j PROVE End(q, i) <= j
    <3>1. \A m \in Items(tx) : m \in Nat /\ End(tx, m) \in Nat /\ m < End(tx, m)
      BY <1>1, ItemBounds
    <3>2. \A l, m \in Items(tx) : l < m => End(tx, l) <= m
      BY <1>1 DEF Tiled
    <3>3. CASE i = k
      <4>1. e <= j /\ j # e
        BY <1>3, <2>2, <3>2, <3>3
      <4>2. e < j
        BY <1>3, <3>1, <4>1
      <4> QED BY <1>3, <3>2, <3>3, <4>2
    <3>4. CASE i # k
      BY <1>3, <2>2, <3>2, <3>4
    <3> QED BY <3>3, <3>4
  <2> QED BY <1>1, <1>2, <1>7, <1>8, <2>1, <2>2 DEF Tiled
<1>10. MergeUnmarked(tx, k) \in Nat /\ Amount(q, Resent(q)) = tx.retrans - MergeUnmarked(tx, k)
  <2> DEFINE R == Resent(tx)
  <2>1. R \in SUBSET Items(tx) /\ (k \in R <=> a.retrans) /\ (e \in R <=> b.retrans)
    BY DEF Resent
  <2>2. tx.retrans = Amount(tx, R)
    BY <1>1 DEF Counted
  <2>3. CASE a.retrans = b.retrans
    <3>1. Resent(q) = R \ {e}
      BY <1>3, <1>4, <2>3 DEF Resent, Item
    <3>2. Span(q, Resent(q)) = Span(tx, R)
      BY <1>5, <2>1, <2>3, <3>1
    <3>3. MergeUnmarked(tx, k) = 0
      BY <2>3 DEF MergeUnmarked
    <3>4. Amount(q, Resent(q)) = Amount(tx, R) /\ Amount(tx, R) \in Nat
      BY <1>1, <2>1, <3>2, SpanFinite DEF Amount
    <3> QED BY <2>2, <3>3, <3>4
  <2>4. CASE a.retrans # b.retrans
    <3> DEFINE g == IF a.retrans THEN k ELSE e
    <3>1. /\ g \in R /\ g \in Items(tx) /\ R \ {g} = R \ {k, e}
          /\ MergeUnmarked(tx, k) = tx.sent[g].size
      BY <1>3, <1>4, <2>1, <2>4 DEF MergeUnmarked, Item
    <3>2. Resent(q) = R \ {k, e}
      BY <1>3, <1>4, <2>4 DEF Resent, Item
    <3> HIDE DEF g, R
    <3>3. Amount(tx, R \ {g}) = Amount(tx, R) - Amount(tx, {g})
      BY <1>1, <2>1, <3>1, AmountMinus
    <3>4. Amount(tx, {g}) = tx.sent[g].size /\ tx.sent[g].size \in Nat
      BY <1>1, <3>1, AmountOne, ItemBounds
    <3>5. Span(q, R \ {k, e}) = Span(tx, R \ {k, e})
      BY <1>3, <2>1 DEF Span
    <3>6. Amount(q, Resent(q)) = Amount(tx, R \ {g})
      BY <3>1, <3>2, <3>5 DEF Amount
    <3> QED BY <2>2, <3>1, <3>3, <3>4, <3>6
  <2> QED BY <2>3, <2>4
<1>11. Counted(q)
  <2>1. Lost(q) \cap Sacked(q) = {}
    BY <1>1, <1>6 DEF Counted
  <2>2. /\ Amount(q, Sacked(q)) = Amount(tx, Sacked(tx))
        /\ Amount(q, Lost(q)) = Amount(tx, Lost(tx))
    BY <1>7 DEF Amount
  <2> QED BY <1>1, <1>2, <1>10, <2>1, <2>2 DEF Counted
<1>12. Placed(q)
  BY <1>1, <1>2, <1>6 DEF Placed
<1>13. Board(q)
  BY <1>2, <1>9, <1>11, <1>12 DEF Board
<1>14. Steady(tx, q)
  BY <1>1, <1>2, <1>7, <1>8, <1>13, ItemBounds DEF Steady
<1>15. BytesInFlight(q) <= BytesInFlight(tx)
  <2>1. /\ tx.sentSize \in Nat /\ tx.sackedOut \in Nat /\ tx.lostOut \in Nat /\ tx.retrans \in Nat
    BY <1>1, SpanFinite DEF Tiled, Counted, Sacked, Lost, Resent
  <2> QED BY <1>2, <1>10, <2>1 DEF BytesInFlight
<1> QED BY <1>3, <1>6, <1>8, <1>14, <1>15 DEF q

\* No item exceeds a segment.
Small(tx) == \A k \in Items(tx) : tx.sent[k].size <= SegmentSize

LEMMA InFlightType ==
    ASSUME NEW tx, Board(tx)
    PROVE  /\ tx.sentSize \in Nat /\ tx.sackedOut \in Nat
           /\ tx.lostOut \in Nat /\ tx.retrans \in Nat
           /\ BytesInFlight(tx) \in Int
<1>1. Tiled(tx) /\ Counted(tx)
  BY DEF Board
<1>2. tx.sentSize \in Nat /\ tx.sackedOut \in Nat /\ tx.lostOut \in Nat /\ tx.retrans \in Nat
  BY <1>1, SpanFinite DEF Tiled, Counted, Sacked, Lost, Resent
<1> QED BY <1>2 DEF BytesInFlight

LEMMA MarkedTiled ==
    ASSUME NEW tx, Tiled(tx), NEW q, Items(q) = Items(tx),
           q.first = tx.first, q.sentSize = tx.sentSize,
           \A k \in Items(tx) : q.sent[k] \in Item /\ q.sent[k].size = tx.sent[k].size
    PROVE  /\ Tiled(q) /\ SentEnd(q) = SentEnd(tx)
           /\ \A k \in Items(tx) : End(q, k) = End(tx, k)
           /\ \A S \in SUBSET Items(tx) : /\ Span(q, S) = Span(tx, S)
                                          /\ Amount(q, S) = Amount(tx, S)
<1>1. \A k \in Items(tx) : End(q, k) = End(tx, k)
  BY DEF End
<1>2. \A S \in SUBSET Items(tx) : /\ Span(q, S) = Span(tx, S)
                                  /\ Amount(q, S) = Amount(tx, S)
  BY SpanSame
<1>3. SentEnd(q) = SentEnd(tx)
  BY DEF SentEnd
<1>4. Span(q, Items(q)) = Span(tx, Items(tx))
  BY <1>2
<1>5. Tiled(q)
  BY <1>1, <1>3, <1>4 DEF Tiled
<1> QED BY <1>1, <1>2, <1>3, <1>5

LEMMA CutSteady ==
    ASSUME NEW tx, Board(tx), NEW k \in Items(tx), k \notin Sacked(tx),
           NEW n \in Nat \ {0},
           \/ n <= tx.sent[k].size
           \/ /\ End(tx, k) \in Items(tx) /\ End(tx, k) \notin Sacked(tx)
              /\ tx.sent[End(tx, k)].lost = tx.sent[k].lost
              /\ n <= tx.sent[k].size + tx.sent[End(tx, k)].size
    PROVE  LET q == Cut(tx, k, n)
           IN  /\ Steady(tx, q) /\ BytesInFlight(q) <= BytesInFlight(tx)
               /\ SentEnd(q) = SentEnd(tx)
               /\ k \in Items(q) /\ k \notin Sacked(q) /\ q.sent[k].size = n
               /\ (/\ Small(tx) /\ n <= SegmentSize
                   /\ \/ n <= tx.sent[k].size \/ n = SegmentSize
                      \/ n = tx.sent[k].size + tx.sent[End(tx, k)].size)
                     => Small(q)
<1> DEFINE e == End(tx, k)
           long == IF n > tx.sent[k].size THEN Merge(tx, k) ELSE tx
           q == Cut(tx, k, n)
<1>1. q = IF n < long.sent[k].size THEN Split(long, k, n) ELSE long
  BY DEF Cut
<1>2. Tiled(tx) /\ tx.sent[k].size \in Nat /\ SegmentSize \in Nat
      /\ (e \in Items(tx) => tx.sent[e].size \in Nat)
  BY ItemBounds, TxBufferAssumption DEF Board
<1>3. /\ Steady(tx, long) /\ BytesInFlight(long) <= BytesInFlight(tx)
      /\ SentEnd(long) = SentEnd(tx)
      /\ k \in Items(long) /\ k \notin Sacked(long)
      /\ Items(long) \subseteq Items(tx)
      /\ \A j \in Items(long) \ {k} : long.sent[j] = tx.sent[j]
      /\ long.sent[k].size = IF n > tx.sent[k].size THEN tx.sent[k].size + tx.sent[e].size
                             ELSE tx.sent[k].size
  <2>1. CASE n > tx.sent[k].size
    <3>1. /\ e \in Items(tx) /\ e \notin Sacked(tx) /\ tx.sent[e].lost = tx.sent[k].lost
      BY <1>2, <2>1
    <3> HIDE DEF e
    <3> QED BY <2>1, <3>1, MergeSteady DEF e
  <2>2. CASE ~(n > tx.sent[k].size)
    BY <2>2, SteadySelf, InFlightType
  <2> QED BY <2>1, <2>2
<1>4. long.sent[k].size \in Nat /\ n <= long.sent[k].size
  BY <1>2, <1>3
<1> HIDE DEF long, q
<1>5. Board(long)
  BY <1>3 DEF Steady
<1>6. CASE n < long.sent[k].size
  <2> DEFINE r == Split(long, k, n)
  <2>1. /\ Steady(long, r) /\ BytesInFlight(r) = BytesInFlight(long)
        /\ SentEnd(r) = SentEnd(long)
        /\ Items(r) = Items(long) \cup {k + n}
        /\ k \notin Sacked(r)
        /\ r.sent[k].size = n /\ r.sent[k + n].size = long.sent[k].size - n
        /\ \A j \in Items(long) \ {k} : r.sent[j] = long.sent[j]
    BY <1>3, <1>5, <1>6, SplitSteady
  <2>2. q = r
    BY <1>1, <1>6
  <2> HIDE DEF r
  <2>3. Steady(tx, q)
    BY <1>3, <2>1, <2>2, SteadyThen
  <2>4. ASSUME Small(tx), n <= SegmentSize,
               \/ n <= tx.sent[k].size \/ n = SegmentSize
               \/ n = tx.sent[k].size + tx.sent[e].size
        PROVE  Small(q)
    <3>1. long.sent[k].size - n <= SegmentSize
      <4>1. tx.sent[k].size <= SegmentSize
            /\ (e \in Items(tx) => tx.sent[e].size <= SegmentSize)
        BY <2>4 DEF Small
      <4> QED BY <1>2, <1>3, <1>6, <2>4, <4>1
    <3>2. ASSUME NEW j \in Items(q) PROVE q.sent[j].size <= SegmentSize
      <4>1. j = k \/ j = k + n \/ j \in Items(long) \ {k}
        BY <2>1, <2>2
      <4> QED BY <1>3, <2>1, <2>2, <2>4, <3>1, <4>1 DEF Small
    <3> QED BY <3>2 DEF Small
  <2> QED BY <1>3, <2>1, <2>2, <2>3, <2>4 DEF q
<1>7. CASE ~(n < long.sent[k].size)
  <2>1. q = long /\ long.sent[k].size = n
    BY <1>1, <1>4, <1>7
  <2>2. (Small(tx) /\ n <= SegmentSize) => Small(q)
    BY <1>3, <2>1 DEF Small
  <2> QED BY <1>3, <2>1, <2>2 DEF q
<1> QED BY <1>6, <1>7

\* The mark of GetTransmittedSegment() on a segment sent again.
ResentOnce(tx, k) == [tx EXCEPT !.sent[k].retrans = TRUE,
                                !.retrans = @ + tx.sent[k].size]

LEMMA MarkResent ==
    ASSUME NEW tx, Board(tx), NEW k \in Items(tx), ~tx.sent[k].retrans,
           NEW q, q = ResentOnce(tx, k)
    PROVE  /\ Steady(tx, q) /\ SentEnd(q) = SentEnd(tx)
           /\ BytesInFlight(q) = BytesInFlight(tx) + tx.sent[k].size
           /\ Items(q) = Items(tx) /\ Sacked(q) = Sacked(tx)
           /\ \A j \in Items(tx) : q.sent[j].size = tx.sent[j].size
<1>1. Tiled(tx) /\ Counted(tx) /\ Placed(tx)
  BY DEF Board
<1>2. /\ DOMAIN q = DOMAIN tx
      /\ q.first = tx.first /\ q.sentSize = tx.sentSize /\ q.app = tx.app
      /\ q.sackedOut = tx.sackedOut /\ q.lostOut = tx.lostOut
      /\ q.highest = tx.highest
      /\ q.retrans = tx.retrans + tx.sent[k].size
      /\ q.sent = [tx.sent EXCEPT ![k] = [@ EXCEPT !.retrans = TRUE]]
  BY DEF Board, ResentOnce
<1>3. Items(q) = Items(tx)
  BY <1>2 DEF Items
<1>4. ASSUME NEW j \in Items(tx)
      PROVE  /\ q.sent[j] \in Item /\ q.sent[j].size = tx.sent[j].size
             /\ q.sent[j].sacked = tx.sent[j].sacked /\ q.sent[j].lost = tx.sent[j].lost
             /\ q.sent[j].retrans <=> (j = k \/ tx.sent[j].retrans)
  <2>1. tx.sent[j] \in Item
    BY <1>1 DEF Tiled
  <2>2. q.sent[j] = IF j = k THEN [tx.sent[k] EXCEPT !.retrans = TRUE] ELSE tx.sent[j]
    BY <1>2 DEF Items
  <2>3. CASE j = k
    BY <2>1, <2>2, <2>3 DEF Item
  <2>4. CASE j # k
    BY <2>1, <2>2, <2>4 DEF Item
  <2> QED BY <2>3, <2>4
<1>5. /\ Tiled(q) /\ SentEnd(q) = SentEnd(tx)
      /\ \A S \in SUBSET Items(tx) : Span(q, S) = Span(tx, S) /\ Amount(q, S) = Amount(tx, S)
  <2>1. \A j \in Items(tx) : q.sent[j] \in Item /\ q.sent[j].size = tx.sent[j].size
    BY <1>4
  <2>2. Tiled(tx) /\ q.first = tx.first /\ q.sentSize = tx.sentSize
    BY <1>1, <1>2
  <2> QED BY <1>3, <2>1, <2>2, MarkedTiled
<1>6. /\ Sacked(q) = Sacked(tx) /\ Lost(q) = Lost(tx)
      /\ Resent(q) = Resent(tx) \cup {k}
      /\ Sacked(tx) \in SUBSET Items(tx) /\ Lost(tx) \in SUBSET Items(tx)
      /\ Resent(tx) \in SUBSET Items(tx) /\ k \notin Resent(tx)
  BY <1>3, <1>4 DEF Sacked, Lost, Resent
<1>7. Amount(q, Resent(q)) = Amount(tx, Resent(tx)) + tx.sent[k].size
  <2>1. Resent(tx) \cup {k} \in SUBSET Items(tx) /\ Resent(tx) \cap {k} = {}
    BY <1>6
  <2>2. Amount(tx, Resent(tx) \cup {k}) = Amount(tx, Resent(tx)) + Amount(tx, {k})
    BY <1>1, <1>6, <2>1, AmountUnion
  <2>3. Amount(tx, {k}) = tx.sent[k].size
    BY <1>1, AmountOne
  <2>4. Amount(q, Resent(q)) = Amount(tx, Resent(tx) \cup {k})
    BY <1>5, <1>6, <2>1
  <2> QED BY <2>2, <2>3, <2>4
<1>8. Counted(q)
  BY <1>1, <1>2, <1>5, <1>6, <1>7 DEF Counted
<1>9. Placed(q)
  BY <1>1, <1>2, <1>6 DEF Placed
<1>10. Board(q)
  BY <1>2, <1>5, <1>8, <1>9 DEF Board
<1>11. Steady(tx, q)
  <2>1. TailSequence(q) = TailSequence(tx)
    BY <1>2, <1>5 DEF TailSequence
  <2>2. SentEnd(tx) \in Nat
    BY <1>1, ItemBounds
  <2> QED BY <1>2, <1>5, <1>6, <1>10, <2>1, <2>2 DEF Steady
<1>12. BytesInFlight(q) = BytesInFlight(tx) + tx.sent[k].size
  <2>1. tx.sent[k].size \in Nat
    BY <1>1, ItemBounds
  <2> QED BY <1>2, <2>1, InFlightType DEF BytesInFlight
<1> QED BY <1>3, <1>4, <1>5, <1>6, <1>11, <1>12

LEMMA RetransmitSteady ==
    ASSUME NEW tx, Board(tx), NEW k \in Items(tx), k \notin Sacked(tx), NEW n \in Nat \ {0}
    PROVE  LET q == Retransmit(tx, k, n)
               m == q.sent[k].size
           IN  /\ Steady(tx, q) /\ SentEnd(q) = SentEnd(tx)
               /\ k \in Items(q) /\ m \in 1 .. n /\ k + m <= SentEnd(tx)
               /\ BytesInFlight(q) <= BytesInFlight(tx) + m
               /\ (/\ Small(tx) /\ n <= SegmentSize
                   /\ n = SegmentSize \/ n = SentEnd(tx) - k)
                     => Small(q)
<1> DEFINE item == tx.sent[k]
           e == End(tx, k)
           mergeable == /\ e \in Items(tx)
                        /\ ~tx.sent[e].sacked
                        /\ tx.sent[e].lost = item.lost
           room == IF mergeable THEN item.size + tx.sent[e].size ELSE item.size
           m == Min({n, room})
           cut == Cut(tx, k, m)
           q == Retransmit(tx, k, n)
<1>1. q = IF cut.sent[k].retrans THEN cut ELSE ResentOnce(cut, k)
  BY DEF Retransmit, ResentOnce
<1>2. Tiled(tx)
  BY DEF Board
<1>3. /\ k \in Nat /\ item.size \in Nat \ {0} /\ e = k + item.size /\ SentEnd(tx) \in Nat
      /\ e <= SentEnd(tx)
      /\ e \in Items(tx) => /\ tx.sent[e].size \in Nat \ {0}
                            /\ End(tx, e) = e + tx.sent[e].size /\ End(tx, e) <= SentEnd(tx)
  <2>1. \A j \in Items(tx) :
            /\ j \in Nat /\ tx.sent[j].size \in Nat \ {0}
            /\ End(tx, j) = j + tx.sent[j].size /\ End(tx, j) <= SentEnd(tx)
    BY <1>2, ItemBounds
  <2> QED BY <1>2, <2>1, ItemBounds
<1>4. room \in Nat \ {0} /\ room <= SentEnd(tx) - k
  BY <1>3
<1>5. m = IF n <= room THEN n ELSE room
  BY <1>4, MinOfTwo
<1>6. m \in Nat \ {0} /\ m <= n /\ m <= room
  BY <1>4, <1>5
<1>7. \/ m <= item.size
      \/ /\ e \in Items(tx) /\ e \notin Sacked(tx)
         /\ tx.sent[e].lost = item.lost /\ m <= item.size + tx.sent[e].size
  BY <1>3, <1>6 DEF Sacked
<1>8. ASSUME n <= SegmentSize, n = SegmentSize \/ n = SentEnd(tx) - k
      PROVE  /\ m <= SegmentSize
             /\ m = SegmentSize \/ m <= item.size \/ m = item.size + tx.sent[e].size
  <2>1. SegmentSize \in Nat
    BY TxBufferAssumption
  <2>2. m = room \/ m = n
    BY <1>5
  <2>3. n = SentEnd(tx) - k => m = room
    BY <1>3, <1>4, <1>5
  <2>4. m = room => m <= item.size \/ m = item.size + tx.sent[e].size
    BY <1>3
  <2>5. m <= SegmentSize
    BY <1>6, <1>8, <2>1
  <2> QED BY <1>8, <2>2, <2>3, <2>4, <2>5
<1> HIDE DEF m
<1>9. /\ Steady(tx, cut) /\ BytesInFlight(cut) <= BytesInFlight(tx)
      /\ SentEnd(cut) = SentEnd(tx)
      /\ k \in Items(cut) /\ k \notin Sacked(cut) /\ cut.sent[k].size = m
      /\ (/\ Small(tx) /\ m <= SegmentSize
          /\ m <= item.size \/ m = SegmentSize \/ m = item.size + tx.sent[e].size)
            => Small(cut)
  BY <1>6, <1>7, CutSteady
<1> HIDE DEF cut, q
<1>10. Board(cut)
  BY <1>9 DEF Steady
<1>11. /\ Steady(tx, q) /\ SentEnd(q) = SentEnd(tx)
       /\ k \in Items(q) /\ q.sent[k].size = m
       /\ BytesInFlight(q) <= BytesInFlight(tx) + m
       /\ Small(cut) => Small(q)
  <2>1. CASE cut.sent[k].retrans
    <3>1. q = cut
      BY <1>1, <2>1
    <3> QED BY <1>6, <1>9, <1>10, <3>1, InFlightType
  <2>2. CASE ~cut.sent[k].retrans
    <3>0. /\ q = ResentOnce(cut, k)
          /\ k \in Items(cut) /\ cut.sent[k].size = m
      BY <1>1, <1>9, <2>2
    <3>1. /\ Steady(cut, q) /\ SentEnd(q) = SentEnd(cut)
          /\ BytesInFlight(q) = BytesInFlight(cut) + m
          /\ Items(q) = Items(cut)
          /\ \A j \in Items(cut) : q.sent[j].size = cut.sent[j].size
      BY <1>10, <2>2, <3>0, MarkResent
    <3>2. Steady(tx, q)
      BY <1>9, <3>1, SteadyThen
    <3>3. BytesInFlight(q) <= BytesInFlight(tx) + m
      BY <1>6, <1>9, <1>10, <3>1, InFlightType
    <3>4. Small(cut) => Small(q)
      BY <3>1 DEF Small
    <3> QED BY <1>9, <3>1, <3>2, <3>3, <3>4
  <2> QED BY <2>1, <2>2
<1>12. k + m <= SentEnd(tx) /\ m \in 1 .. n
  BY <1>3, <1>4, <1>6
<1> QED BY <1>8, <1>9, <1>11, <1>12 DEF q

\* GetNewSegment().
NewSent(tx, size) ==
    [j \in DOMAIN tx.sent \cup {SentEnd(tx)} |->
        IF j = SentEnd(tx)
        THEN [size |-> size, sacked |-> FALSE, lost |-> FALSE, retrans |-> FALSE]
        ELSE tx.sent[j]]

LEMMA SendNewSteady ==
    ASSUME NEW tx, Board(tx), tx.app > 0, NEW n \in Nat \ {0}
    PROVE  LET q == SendNew(tx, n)
               m == Min({n, tx.app})
           IN  /\ Steady(tx, q) /\ m \in 1 .. n
               /\ SentEnd(q) = SentEnd(tx) + m
               /\ BytesInFlight(q) = BytesInFlight(tx) + m
               /\ (Small(tx) /\ n <= SegmentSize) => Small(q)
<1> DEFINE q == SendNew(tx, n)
           m == Min({n, tx.app})
           e == SentEnd(tx)
<1>1. Tiled(tx) /\ Counted(tx) /\ Placed(tx) /\ tx.app \in Nat
  BY DEF Board
<1>2. m = IF n <= tx.app THEN n ELSE tx.app
  BY <1>1, MinOfTwo
<1>3. m \in 1 .. n /\ m \in Nat \ {0} /\ m <= tx.app
  BY <1>1, <1>2
<1> HIDE DEF m
<1>4. /\ DOMAIN q = DOMAIN tx
      /\ q.first = tx.first /\ q.sentSize = tx.sentSize + m /\ q.app = tx.app - m
      /\ q.sackedOut = tx.sackedOut /\ q.lostOut = tx.lostOut
      /\ q.retrans = tx.retrans /\ q.highest = tx.highest
      /\ q.sent = NewSent(tx, m)
  BY DEF SendNew, NewSent, m, Board
<1> HIDE DEF q
<1>5. /\ e \in Nat /\ tx.first <= e /\ tx.first \in Nat
      /\ \A j \in Items(tx) : j \in Nat /\ End(tx, j) \in Nat /\ j < End(tx, j) /\ End(tx, j) <= e
  BY <1>1, ItemBounds DEF Tiled
<1>6. Items(q) = Items(tx) \cup {e} /\ e \notin Items(tx)
  BY <1>4, <1>5 DEF NewSent, Items
<1>7. q.sent[e] = [size |-> m, sacked |-> FALSE, lost |-> FALSE, retrans |-> FALSE]
  BY <1>4 DEF NewSent
<1>8. \A j \in Items(tx) : q.sent[j] = tx.sent[j] /\ End(q, j) = End(tx, j)
  BY <1>4, <1>6 DEF NewSent, Items, End
<1>9. q.sent[e] \in Item /\ End(q, e) = e + m
  BY <1>3, <1>7 DEF Item, End
<1>10. SentEnd(q) = e + m /\ TailSequence(q) = TailSequence(tx)
  <2>1. tx.first \in Nat /\ tx.sentSize \in Nat
    BY <1>1 DEF Tiled
  <2> QED BY <1>1, <1>3, <1>4, <2>1 DEF SentEnd, TailSequence
<1>11. /\ Sacked(q) = Sacked(tx) /\ Lost(q) = Lost(tx) /\ Resent(q) = Resent(tx)
       /\ Sacked(tx) \in SUBSET Items(tx) /\ Lost(tx) \in SUBSET Items(tx)
       /\ Resent(tx) \in SUBSET Items(tx)
  BY <1>6, <1>7, <1>8 DEF Sacked, Lost, Resent
<1>12. \A S \in SUBSET Items(tx) : Span(q, S) = Span(tx, S) /\ Amount(q, S) = Amount(tx, S)
  <2> TAKE S \in SUBSET Items(tx)
  <2>1. \A k \in S : q.sent[k].size = tx.sent[k].size
    BY <1>8
  <2> QED BY <2>1, SpanSame
<1>13. Tiled(q)
  <2>1. \A j \in Items(q) : j \in Nat /\ q.sent[j] \in Item
    BY <1>1, <1>5, <1>6, <1>8, <1>9 DEF Tiled
  <2>2. ASSUME NEW i \in Items(q), NEW j \in Items(q), i < j PROVE End(q, i) <= j
    <3>1. \A l, k \in Items(tx) : l < k => End(tx, l) <= k
      BY <1>1 DEF Tiled
    <3>2. i \in Items(tx)
      BY <1>5, <1>6, <2>2
    <3> QED BY <1>5, <1>6, <1>8, <2>2, <3>1, <3>2
  <2>3. Span(q, Items(q)) = q.first .. SentEnd(q) - 1
    <3>1. \A x : x \in Span(q, Items(q)) <=> x \in Span(q, Items(tx)) \/ x \in e .. End(q, e) - 1
      BY <1>6, SpanIs
    <3>2. Span(q, Items(tx)) = tx.first .. e - 1
      BY <1>1, <1>12 DEF Tiled
    <3>3. \A x : x \in tx.first .. (e + m) - 1 <=> x \in tx.first .. e - 1 \/ x \in e .. (e + m) - 1
      BY <1>3, <1>5
    <3>4. q.first .. SentEnd(q) - 1 = tx.first .. (e + m) - 1
      BY <1>4, <1>10
    <3> QED BY <1>9, <3>1, <3>2, <3>3, <3>4
  <2>4. q.first \in Nat \ {0} /\ q.sentSize \in Nat
    BY <1>1, <1>3, <1>4 DEF Tiled
  <2> QED BY <2>1, <2>2, <2>3, <2>4 DEF Tiled
<1>14. Counted(q)
  BY <1>1, <1>4, <1>11, <1>12 DEF Counted
<1>15. Placed(q)
  BY <1>1, <1>4, <1>11 DEF Placed
<1>16. Board(q)
  <2>1. q.app \in Nat
    BY <1>1, <1>3, <1>4
  <2> QED BY <1>4, <1>13, <1>14, <1>15, <2>1 DEF Board
<1>17. Steady(tx, q)
  <2>1. e <= SentEnd(q)
    BY <1>3, <1>5, <1>10
  <2>2. Span(q, Sacked(q)) = Span(tx, Sacked(tx))
    BY <1>11, <1>12
  <2> QED BY <1>4, <1>10, <1>16, <2>1, <2>2 DEF Steady
<1>18. BytesInFlight(q) = BytesInFlight(tx) + m
  BY <1>3, <1>4, InFlightType DEF BytesInFlight
<1>19. ASSUME Small(tx), n <= SegmentSize PROVE Small(q)
  <2>1. m <= SegmentSize
    BY <1>3, <1>19, TxBufferAssumption
  <2> QED BY <1>6, <1>7, <1>8, <1>19, <2>1 DEF Small
<1> QED BY <1>3, <1>10, <1>17, <1>18, <1>19 DEF q, m

\* Where the sender may send from.
Ready(tx, s) ==
    \/ s \in Items(tx) /\ s \notin Sacked(tx)
    \/ s = SentEnd(tx) /\ tx.app > 0

LEMMA CopyFromSteady ==
    ASSUME NEW tx, Board(tx), NEW s, Ready(tx, s), NEW n \in Nat \ {0}
    PROVE  LET q == CopyFrom(tx, n, s).tx
               m == CopyFrom(tx, n, s).size
           IN  /\ Steady(tx, q) /\ s \in Nat /\ m \in 1 .. n /\ tx.first <= s
               /\ s + m <= SentEnd(q)
               /\ SentEnd(q) = SentEnd(tx) \/ SentEnd(q) = s + m
               /\ BytesInFlight(q) <= BytesInFlight(tx) + m
               /\ (/\ Small(tx) /\ n <= SegmentSize
                   /\ n = SegmentSize \/ n >= SentEnd(tx) - s)
                     => Small(q)
<1> DEFINE q == CopyFrom(tx, n, s).tx
           m == CopyFrom(tx, n, s).size
           e == SentEnd(tx)
<1>1. Tiled(tx) /\ tx.app \in Nat
  BY DEF Board
<1>2. e \in Nat /\ tx.first <= e
  BY <1>1, ItemBounds
<1>3. CASE s = e /\ tx.app > 0
  <2>1. q = SendNew(tx, n) /\ m = Min({n, tx.app})
    BY <1>2, <1>3 DEF CopyFrom
  <2> HIDE DEF q, m, e
  <2>2. /\ Steady(tx, q) /\ m \in 1 .. n
        /\ SentEnd(q) = SentEnd(tx) + m
        /\ BytesInFlight(q) = BytesInFlight(tx) + m
        /\ (Small(tx) /\ n <= SegmentSize) => Small(q)
    BY <1>3, <2>1, SendNewSteady
  <2>3. SentEnd(q) = s + m /\ SentEnd(q) \in Nat
    BY <1>2, <1>3, <2>2 DEF e
  <2>4. BytesInFlight(q) <= BytesInFlight(tx) + m
    BY <2>2, InFlightType
  <2>5. s \in Nat /\ tx.first <= s
    BY <1>2, <1>3
  <2> QED BY <2>2, <2>3, <2>4, <2>5 DEF q, m
<1>4. CASE s \in Items(tx) /\ s \notin Sacked(tx)
  <2>1. s \in Nat /\ s < e /\ tx.first <= s
    BY <1>1, <1>4, ItemBounds
  <2> DEFINE l == Min({n, e - s})
  <2>2. l = IF n <= e - s THEN n ELSE e - s
    <3>1. e - s \in Nat
      BY <1>2, <2>1
    <3> QED BY <3>1, MinOfTwo
  <2>3. l \in Nat \ {0} /\ l <= n
    BY <1>2, <2>1, <2>2
  <2>4. q = Retransmit(tx, s, l) /\ m = q.sent[s].size
    BY <1>2, <2>1 DEF CopyFrom
  <2> HIDE DEF q, m, l, e
  <2>5. /\ Steady(tx, q) /\ SentEnd(q) = SentEnd(tx)
        /\ s \in Items(q) /\ m \in 1 .. l /\ s + m <= SentEnd(tx)
        /\ BytesInFlight(q) <= BytesInFlight(tx) + m
        /\ (/\ Small(tx) /\ l <= SegmentSize
            /\ l = SegmentSize \/ l = SentEnd(tx) - s)
              => Small(q)
    BY <1>4, <2>3, <2>4, RetransmitSteady
  <2>6. m \in 1 .. n
    BY <2>3, <2>5
  <2>7. ASSUME Small(tx), n <= SegmentSize, n = SegmentSize \/ n >= SentEnd(tx) - s
        PROVE  Small(q)
    <3>1. l <= SegmentSize
      BY <2>3, <2>7, TxBufferAssumption
    <3>2. l = SegmentSize \/ l = SentEnd(tx) - s
      BY <1>2, <2>1, <2>2, <2>7 DEF e
    <3> QED BY <2>5, <2>7, <3>1, <3>2
  <2> QED BY <2>1, <2>5, <2>6, <2>7 DEF q, m
<1> QED BY <1>3, <1>4 DEF Ready

LEMMA LeastItem ==
    ASSUME NEW tx, Board(tx), NEW S \in SUBSET Items(tx), S # {}
    PROVE  Min(S) \in S
<1>1. S \in SUBSET Nat
  BY DEF Board, Tiled
<1> QED BY <1>1, MinIs

LEMMA NextSegReady ==
    ASSUME NEW tx, Board(tx), NEW isRecovery, NEW s \in NextSeg(tx, isRecovery)
    PROVE  Ready(tx, s)
<1> DEFINE waiting == Items(tx) \ (Resent(tx) \cup Sacked(tx))
           lost == waiting \cap Lost(tx)
<1>1. waiting \in SUBSET Items(tx) /\ waiting \cap Sacked(tx) = {}
      /\ lost \in SUBSET waiting
  OBVIOUS
<1>2. CASE lost # {}
  <2>1. s = Min(lost)
    BY <1>2 DEF NextSeg
  <2>2. Min(lost) \in lost
    BY <1>2, LeastItem
  <2> QED BY <1>1, <2>1, <2>2 DEF Ready
<1>3. CASE lost = {} /\ tx.app > 0
  BY <1>3 DEF NextSeg, Ready
<1>4. CASE lost = {} /\ ~(tx.app > 0)
  <2>1. s \in waiting
    BY <1>4 DEF NextSeg
  <2> QED BY <1>1, <2>1 DEF Ready
<1> QED BY <1>2, <1>3, <1>4

-----------------------------------------------------------------------------
(* Marks.                                                                  *)

\* Only marks change, and none that says sacked is taken back.
Noted(tx, q) ==
    /\ Board(q)
    /\ q.first = tx.first /\ q.sentSize = tx.sentSize /\ q.app = tx.app
    /\ Items(q) = Items(tx)
    /\ \A k \in Items(tx) : q.sent[k].size = tx.sent[k].size
    /\ Sacked(tx) \subseteq Sacked(q)

LEMMA NotedThen ==
    ASSUME NEW tx, NEW q, Noted(tx, q), NEW r, Noted(q, r)
    PROVE  Noted(tx, r)
  BY DEF Noted

LEMMA NotedSelf == ASSUME NEW tx, Board(tx) PROVE Noted(tx, tx)
  BY DEF Noted

LEMMA NotedEnds ==
    ASSUME NEW tx, Board(tx), NEW q, Noted(tx, q)
    PROVE  /\ SentEnd(q) = SentEnd(tx) /\ TailSequence(q) = TailSequence(tx)
           /\ \A k \in Items(tx) : End(q, k) = End(tx, k)
           /\ \A S \in SUBSET Items(tx) : Span(q, S) = Span(tx, S) /\ Amount(q, S) = Amount(tx, S)
           /\ Small(tx) => Small(q)
<1>1. SentEnd(q) = SentEnd(tx) /\ TailSequence(q) = TailSequence(tx)
  BY DEF Noted, SentEnd, TailSequence
<1>2. \A k \in Items(tx) : End(q, k) = End(tx, k)
  BY DEF Noted, End
<1>3. \A S \in SUBSET Items(tx) : Span(q, S) = Span(tx, S) /\ Amount(q, S) = Amount(tx, S)
  <2> TAKE S \in SUBSET Items(tx)
  <2>1. \A k \in S : q.sent[k].size = tx.sent[k].size
    BY DEF Noted
  <2> QED BY <2>1, SpanSame
<1>4. Small(tx) => Small(q)
  BY DEF Noted, Small
<1> QED BY <1>1, <1>2, <1>3, <1>4

\* What is left to show when marks change.
LEMMA NotedIs ==
    ASSUME NEW tx, Board(tx), NEW q,
           DOMAIN q = DOMAIN tx,
           q.first = tx.first, q.sentSize = tx.sentSize, q.app = tx.app,
           Items(q) = Items(tx),
           \A k \in Items(tx) : q.sent[k] \in Item /\ q.sent[k].size = tx.sent[k].size,
           Sacked(tx) \subseteq Sacked(q),
           Lost(q) \cap Sacked(q) = {},
           q.sackedOut = Amount(tx, Sacked(q)),
           q.lostOut = Amount(tx, Lost(q)),
           q.retrans = Amount(tx, Resent(q)),
           Placed(q)
    PROVE  Noted(tx, q)
<1>1. Tiled(tx)
  BY DEF Board
<1>2. /\ Tiled(q)
      /\ \A S \in SUBSET Items(tx) : Span(q, S) = Span(tx, S) /\ Amount(q, S) = Amount(tx, S)
  BY <1>1, MarkedTiled
<1>3. /\ Sacked(q) \in SUBSET Items(tx) /\ Lost(q) \in SUBSET Items(tx)
      /\ Resent(q) \in SUBSET Items(tx)
  BY DEF Sacked, Lost, Resent
<1>4. Counted(q)
  BY <1>2, <1>3 DEF Counted
<1>5. Board(q)
  BY <1>2, <1>4 DEF Board
<1> QED BY <1>5 DEF Noted

\* Items with some marks changed.
SackSent(tx, S) ==
    [k \in Items(tx) |-> IF k \in S THEN [tx.sent[k] EXCEPT !.sacked = TRUE, !.lost = FALSE]
                         ELSE tx.sent[k]]

LostSent(tx, S) ==
    [k \in Items(tx) |-> IF k \in S THEN [tx.sent[k] EXCEPT !.lost = TRUE] ELSE tx.sent[k]]

LEMMA SackSentIs ==
    ASSUME NEW tx, Tiled(tx), NEW S \in SUBSET Items(tx), NEW q, q.sent = SackSent(tx, S)
    PROVE  /\ Items(q) = Items(tx)
           /\ \A k \in Items(tx) : q.sent[k] \in Item /\ q.sent[k].size = tx.sent[k].size
           /\ Sacked(q) = Sacked(tx) \cup S
           /\ Lost(q) = Lost(tx) \ S
           /\ Resent(q) = Resent(tx)
<1>1. Items(q) = Items(tx)
  BY DEF Items, SackSent
<1>2. ASSUME NEW k \in Items(tx)
      PROVE  /\ q.sent[k] \in Item /\ q.sent[k].size = tx.sent[k].size
             /\ q.sent[k].sacked <=> (k \in S \/ tx.sent[k].sacked)
             /\ q.sent[k].lost <=> (k \notin S /\ tx.sent[k].lost)
             /\ q.sent[k].retrans = tx.sent[k].retrans
  <2>1. tx.sent[k] \in Item
    BY DEF Tiled
  <2>2. CASE k \in S
    <3>1. q.sent[k] = [tx.sent[k] EXCEPT !.sacked = TRUE, !.lost = FALSE]
      BY <2>2 DEF SackSent
    <3> QED BY <2>1, <2>2, <3>1 DEF Item
  <2>3. CASE k \notin S
    <3>1. q.sent[k] = tx.sent[k]
      BY <2>3 DEF SackSent
    <3> QED BY <2>1, <2>3, <3>1
  <2> QED BY <2>2, <2>3
<1> QED BY <1>1, <1>2 DEF Sacked, Lost, Resent

LEMMA LostSentIs ==
    ASSUME NEW tx, Tiled(tx), NEW S \in SUBSET Items(tx), NEW q, q.sent = LostSent(tx, S)
    PROVE  /\ Items(q) = Items(tx)
           /\ \A k \in Items(tx) : q.sent[k] \in Item /\ q.sent[k].size = tx.sent[k].size
           /\ Sacked(q) = Sacked(tx)
           /\ Lost(q) = Lost(tx) \cup S
           /\ Resent(q) = Resent(tx)
<1>1. Items(q) = Items(tx)
  BY DEF Items, LostSent
<1>2. ASSUME NEW k \in Items(tx)
      PROVE  /\ q.sent[k] \in Item /\ q.sent[k].size = tx.sent[k].size
             /\ q.sent[k].sacked = tx.sent[k].sacked
             /\ q.sent[k].lost <=> (k \in S \/ tx.sent[k].lost)
             /\ q.sent[k].retrans = tx.sent[k].retrans
  <2>1. tx.sent[k] \in Item
    BY DEF Tiled
  <2>2. CASE k \in S
    <3>1. q.sent[k] = [tx.sent[k] EXCEPT !.lost = TRUE]
      BY <2>2 DEF LostSent
    <3> QED BY <2>1, <2>2, <3>1 DEF Item
  <2>3. CASE k \notin S
    <3>1. q.sent[k] = tx.sent[k]
      BY <2>3 DEF LostSent
    <3> QED BY <2>1, <2>3, <3>1
  <2> QED BY <2>2, <2>3
<1> QED BY <1>1, <1>2 DEF Sacked, Lost, Resent

LEMMA SackBlockNoted ==
    ASSUME NEW tx, Board(tx), NEW block \in Nat \X Nat
    PROVE  LET q == SackBlock(tx, block)
           IN  /\ Noted(tx, q)
               /\ \A k \in Sacked(q) \ Sacked(tx) : block[1] <= k /\ End(tx, k) <= block[2]
<1> DEFINE q == SackBlock(tx, block)
           new == {k \in Items(tx) \ Sacked(tx) : block[1] <= k /\ End(tx, k) <= block[2]}
           top == Max(new)
<1>1. CASE new = {}
  <2>1. q = tx
    BY <1>1 DEF SackBlock
  <2> QED BY <2>1, NotedSelf
<1>2. CASE new # {}
  <2>1. /\ DOMAIN q = DOMAIN tx
        /\ q.first = tx.first /\ q.sentSize = tx.sentSize /\ q.app = tx.app
        /\ q.sackedOut = tx.sackedOut + Amount(tx, new)
        /\ q.lostOut = tx.lostOut - Amount(tx, new \cap Lost(tx))
        /\ q.retrans = tx.retrans
        /\ q.highest = [at |-> top, seq |-> top] \/ q.highest = tx.highest
        /\ q.sent = SackSent(tx, new)
    BY <1>2 DEF SackBlock, Changed, SackSent, Board
  <2>2. Tiled(tx) /\ Counted(tx) /\ Placed(tx)
    BY DEF Board
  <2>3. new \in SUBSET Items(tx) /\ new \cap Sacked(tx) = {}
    OBVIOUS
  <2>4. top \in new /\ top \in Nat
    <3>1. \A k \in new : k \in Nat /\ k <= SentEnd(tx)
      <4>1. \A k \in Items(tx) : k \in Nat /\ k < End(tx, k) /\ End(tx, k) <= SentEnd(tx)
                                 /\ End(tx, k) \in Nat /\ SentEnd(tx) \in Nat
        BY <2>2, ItemBounds
      <4> QED BY <2>3, <4>1
    <3>2. SentEnd(tx) \in Nat /\ new \in SUBSET Nat
      BY <2>2, <3>1, ItemBounds
    <3> HIDE DEF new
    <3> QED BY <1>2, <3>1, <3>2, MaxIs
  <2> HIDE DEF q, top
  <2>5. /\ Items(q) = Items(tx)
        /\ \A k \in Items(tx) : q.sent[k] \in Item /\ q.sent[k].size = tx.sent[k].size
        /\ Sacked(q) = Sacked(tx) \cup new
        /\ Lost(q) = Lost(tx) \ new
        /\ Resent(q) = Resent(tx)
    BY <2>1, <2>2, <2>3, SackSentIs
  <2>6. \A k \in Sacked(q) \ Sacked(tx) : block[1] <= k /\ End(tx, k) <= block[2]
    BY <2>5
  <2> HIDE DEF new
  <2>7. Sacked(tx) \in SUBSET Items(tx) /\ Lost(tx) \in SUBSET Items(tx)
        /\ Lost(tx) \cap Sacked(tx) = {}
    BY <2>2 DEF Sacked, Lost, Counted
  <2>8. q.sackedOut = Amount(tx, Sacked(q))
    <3>1. Amount(tx, Sacked(tx) \cup new) = Amount(tx, Sacked(tx)) + Amount(tx, new)
      BY <2>2, <2>3, <2>7, AmountUnion
    <3> QED BY <2>1, <2>2, <2>5, <3>1 DEF Counted
  <2>9. q.lostOut = Amount(tx, Lost(q))
    <3> DEFINE T == new \cap Lost(tx)
    <3>1. T \in SUBSET Lost(tx) /\ Lost(tx) \ new = Lost(tx) \ T
      OBVIOUS
    <3>2. Lost(q) = Lost(tx) \ T
      BY <2>5, <3>1
    <3> HIDE DEF T
    <3>3. Amount(tx, Lost(tx) \ T) = Amount(tx, Lost(tx)) - Amount(tx, T)
      BY <2>2, <2>7, <3>1, AmountMinus
    <3>4. Amount(tx, Lost(q)) = Amount(tx, Lost(tx)) - Amount(tx, T)
      BY <3>2, <3>3
    <3>5. q.lostOut = tx.lostOut - Amount(tx, T)
      BY <2>1 DEF T
    <3> QED BY <2>2, <3>4, <3>5 DEF Counted
  <2>10. Placed(q)
    <3>1. CASE q.highest = tx.highest
      BY <2>2, <2>5, <3>1 DEF Placed
    <3>2. CASE q.highest = [at |-> top, seq |-> top]
      BY <2>4, <2>5, <3>2 DEF Placed
    <3> QED BY <2>1, <3>1, <3>2
  <2>11. q.retrans = Amount(tx, Resent(q))
    BY <2>1, <2>2, <2>5 DEF Counted
  <2>12. Sacked(tx) \subseteq Sacked(q) /\ Lost(q) \cap Sacked(q) = {}
    BY <2>5, <2>7
  <2>13. Noted(tx, q)
    BY <2>1, <2>5, <2>8, <2>9, <2>10, <2>11, <2>12, NotedIs
  <2> QED BY <2>6, <2>13 DEF q
<1> QED BY <1>1, <1>2

\* The items marked by q lie in blocks of B.
Within(tx, q, B) ==
    \A k \in Sacked(q) \ Sacked(tx) : \E b \in B : b[1] <= k /\ End(tx, k) <= b[2]

\* The turns of Marked() exist, as those of Joined() do.
MarkTurns(tx, list, f, n) ==
    f = [i \in 0 .. n |-> IF i = 0 THEN tx ELSE SackBlock(f[i - 1], list[i])]

LEMMA MarkTurnsExist ==
    ASSUME NEW tx, NEW list, NEW n \in Nat
    PROVE  \E f : MarkTurns(tx, list, f, n)
<1> DEFINE S == {m \in Nat : ~\E f : MarkTurns(tx, list, f, m)}
<1> SUFFICES ASSUME S # {} PROVE FALSE
  OBVIOUS
<1>1. PICK m \in S : \A y \in S : m <= y
  BY LeastNat
<1>2. CASE m = 0
  <2> DEFINE f == [i \in 0 .. 0 |-> tx]
  <2>1. f = [i \in 0 .. 0 |-> IF i = 0 THEN tx ELSE SackBlock(f[i - 1], list[i])]
    OBVIOUS
  <2>2. MarkTurns(tx, list, f, 0)
    BY <2>1 DEF MarkTurns
  <2> QED BY <1>1, <1>2, <2>2
<1>3. CASE m # 0
  <2>1. m - 1 \in Nat /\ m - 1 \notin S
    BY <1>1, <1>3
  <2>2. PICK f : MarkTurns(tx, list, f, m - 1)
    BY <2>1
  <2> DEFINE g == [i \in 0 .. m |-> IF i = 0 THEN tx ELSE SackBlock(f[i - 1], list[i])]
  <2>3. ASSUME NEW i \in 0 .. m, i # 0 PROVE f[i - 1] = g[i - 1]
    <3>1. i - 1 \in 0 .. m - 1 /\ i - 1 \in 0 .. m
      BY <2>1, <2>3
    <3> HIDE DEF g
    <3>2. \A x \in 0 .. m - 1 : f[x] = IF x = 0 THEN tx ELSE SackBlock(f[x - 1], list[x])
      BY <2>2 DEF MarkTurns
    <3>3. \A x \in 0 .. m : g[x] = IF x = 0 THEN tx ELSE SackBlock(f[x - 1], list[x])
      BY DEF g
    <3> QED BY <3>1, <3>2, <3>3
  <2>4. g = [i \in 0 .. m |-> IF i = 0 THEN tx ELSE SackBlock(g[i - 1], list[i])]
    BY <2>3
  <2>5. MarkTurns(tx, list, g, m)
    BY <2>4 DEF MarkTurns
  <2> QED BY <1>1, <2>5
<1> QED BY <1>2, <1>3

LEMMA MarkedNoted ==
    ASSUME NEW tx, Board(tx), NEW B \in SUBSET (Nat \X Nat), NEW list \in Seq(B)
    PROVE  Noted(tx, Marked(tx, list)) /\ Within(tx, Marked(tx, list), B)
<1> DEFINE N == Len(list)
           mark == CHOOSE f : f = [i \in 0 .. N |->
                        IF i = 0 THEN tx ELSE SackBlock(f[i - 1], list[i])]
           Good(x) == Noted(tx, x) /\ Within(tx, x, B)
           S == {m \in Nat : m <= N /\ ~Good(mark[m])}
<1>1. N \in Nat
  OBVIOUS
<1>2. mark = [i \in 0 .. N |-> IF i = 0 THEN tx ELSE SackBlock(mark[i - 1], list[i])]
  <2> HIDE DEF N
  <2>1. PICK g : MarkTurns(tx, list, g, N)
    BY <1>1, MarkTurnsExist
  <2>2. \E f : f = [i \in 0 .. N |-> IF i = 0 THEN tx ELSE SackBlock(f[i - 1], list[i])]
    BY <2>1 DEF MarkTurns
  <2> QED BY <2>2
<1>3. Marked(tx, list) = mark[N]
  BY DEF Marked
<1> HIDE DEF mark
<1>4. \A i \in 0 .. N : mark[i] = IF i = 0 THEN tx ELSE SackBlock(mark[i - 1], list[i])
  BY <1>2
<1>5. S = {}
  <2> SUFFICES ASSUME S # {} PROVE FALSE
    OBVIOUS
  <2>1. PICK m \in S : \A y \in S : m <= y
    BY LeastNat
  <2>2. CASE m = 0
    <3>1. mark[m] = tx
      BY <1>1, <1>4, <2>2
    <3>2. Good(mark[m])
      BY <3>1, NotedSelf DEF Within
    <3> QED BY <2>1, <3>2
  <2>3. CASE m # 0
    <3>1. m - 1 \in Nat /\ m - 1 <= N /\ m - 1 \notin S /\ m \in 1 .. N
      BY <1>1, <2>1, <2>3
    <3> DEFINE x == mark[m - 1]
               y == mark[m]
               b == list[m]
    <3>2. Noted(tx, x) /\ Within(tx, x, B)
      BY <3>1
    <3>3. y = SackBlock(x, b)
      BY <1>1, <1>4, <2>1, <2>3
    <3>4. b \in B /\ b \in Nat \X Nat
      BY <3>1, ElementOfSeq
    <3>5. Board(x)
      BY <3>2 DEF Noted
    <3> HIDE DEF x, y, b
    <3>6. Noted(x, y) /\ \A k \in Sacked(y) \ Sacked(x) : b[1] <= k /\ End(x, k) <= b[2]
      BY <3>3, <3>4, <3>5, SackBlockNoted
    <3>7. Noted(tx, y)
      BY <3>2, <3>6, NotedThen
    <3>8. Within(tx, y, B)
      <4> SUFFICES ASSUME NEW k \in Sacked(y) \ Sacked(tx)
                   PROVE  \E c \in B : c[1] <= k /\ End(tx, k) <= c[2]
        BY DEF Within
      <4>1. CASE k \in Sacked(x)
        BY <3>2, <4>1 DEF Within
      <4>2. CASE k \notin Sacked(x)
        <5>1. b[1] <= k /\ End(x, k) <= b[2]
          BY <3>6, <4>2
        <5>2. k \in Items(tx)
          BY <3>7 DEF Sacked, Noted
        <5>3. End(x, k) = End(tx, k)
          BY <3>2, <5>2, NotedEnds
        <5> QED BY <3>4, <5>1, <5>3
      <4> QED BY <4>1, <4>2
    <3>9. Good(mark[m])
      BY <3>7, <3>8 DEF y
    <3> QED BY <2>1, <3>9
  <2> QED BY <2>2, <2>3
<1> QED BY <1>1, <1>3, <1>5

LEMMA UpdateLostCountNoted ==
    ASSUME NEW tx, Board(tx), tx.first \notin Sacked(tx)
    PROVE  Noted(tx, UpdateLostCount(tx)) /\ Sacked(UpdateLostCount(tx)) = Sacked(tx)
<1> DEFINE sackedFrom(k) == {j \in Sacked(tx) \ {tx.first} : k <= j /\ j <= tx.highest.at}
           lost == {k \in Items(tx) \ Lost(tx) :
                      /\ k = tx.first \/ k \notin Sacked(tx)
                      /\ Cardinality(sackedFrom(k)) >= DupAckThresh}
           q == UpdateLostCount(tx)
<1>1. /\ DOMAIN q = DOMAIN tx
      /\ q.first = tx.first /\ q.sentSize = tx.sentSize /\ q.app = tx.app
      /\ q.sackedOut = tx.sackedOut
      /\ q.lostOut = tx.lostOut + Amount(tx, lost)
      /\ q.retrans = tx.retrans /\ q.highest = tx.highest
      /\ q.sent = LostSent(tx, lost)
  BY DEF UpdateLostCount, Changed, LostSent, Board
<1>2. Tiled(tx) /\ Counted(tx) /\ Placed(tx)
  BY DEF Board
<1>3. /\ lost \in SUBSET Items(tx) /\ lost \cap Lost(tx) = {} /\ lost \cap Sacked(tx) = {}
      /\ Lost(tx) \in SUBSET Items(tx) /\ Lost(tx) \cap Sacked(tx) = {}
  BY <1>2 DEF Lost, Counted
<1> HIDE DEF q, lost
<1>4. /\ Items(q) = Items(tx)
      /\ \A k \in Items(tx) : q.sent[k] \in Item /\ q.sent[k].size = tx.sent[k].size
      /\ Sacked(q) = Sacked(tx)
      /\ Lost(q) = Lost(tx) \cup lost
      /\ Resent(q) = Resent(tx)
  BY <1>1, <1>2, <1>3, LostSentIs
<1>5. Amount(tx, Lost(tx) \cup lost) = Amount(tx, Lost(tx)) + Amount(tx, lost)
  BY <1>2, <1>3, AmountUnion
<1>6. q.lostOut = Amount(tx, Lost(q))
  BY <1>1, <1>2, <1>4, <1>5 DEF Counted
<1>7. q.sackedOut = Amount(tx, Sacked(q)) /\ q.retrans = Amount(tx, Resent(q))
  BY <1>1, <1>2, <1>4 DEF Counted
<1>8. Placed(q) /\ Lost(q) \cap Sacked(q) = {} /\ Sacked(tx) \subseteq Sacked(q)
  BY <1>1, <1>2, <1>3, <1>4 DEF Placed
<1>9. Noted(tx, q)
  BY <1>1, <1>4, <1>6, <1>7, <1>8, NotedIs
<1> QED BY <1>4, <1>9 DEF q

LEMMA UpdateNoted ==
    ASSUME NEW tx, Board(tx), tx.first \notin Sacked(tx),
           NEW B \in SUBSET (Nat \X Nat), \A b \in B : b[1] > tx.first,
           NEW list \in Seq(B)
    PROVE  LET q == Update(tx, list)
           IN  /\ Noted(tx, q) /\ Within(tx, q, B)
               /\ tx.first \notin Sacked(q)
               /\ q.sackedOut # tx.sackedOut => Sacked(q) # Sacked(tx)
<1> DEFINE outside == {i \in 1 .. Len(list) : SentEnd(tx) < list[i][1]}
           part == IF outside = {} THEN list ELSE SubSeq(list, 1, Min(outside) - 1)
           marked == Marked(tx, part)
           q == Update(tx, list)
<1>1. part \in Seq(B)
  <2>1. CASE outside = {}
    BY <2>1
  <2>2. CASE outside # {}
    <3>1. outside \in SUBSET Nat
      OBVIOUS
    <3>2. Min(outside) \in outside
      BY <2>2, <3>1, MinIs
    <3> DEFINE m == Min(outside)
    <3>3. m \in 1 .. Len(list)
      BY <3>2
    <3> HIDE DEF m
    <3>4. SubSeq(list, 1, m - 1) \in Seq(B)
      BY <3>3
    <3> QED BY <2>2, <3>4 DEF m
  <2> QED BY <2>1, <2>2
<1>2. q = IF outside # {} \/ marked.sackedOut = tx.sackedOut THEN marked
          ELSE UpdateLostCount(marked)
  BY DEF Update
<1> HIDE DEF part, outside
<1>3. Noted(tx, marked) /\ Within(tx, marked, B)
  BY <1>1, MarkedNoted
<1> HIDE DEF marked, q
<1>4. Board(marked) /\ marked.first = tx.first
  BY <1>3 DEF Noted
<1>5. tx.first \notin Sacked(marked)
  <2> SUFFICES ASSUME tx.first \in Sacked(marked) PROVE FALSE
    OBVIOUS
  <2>1. PICK b \in B : b[1] <= tx.first
    BY <1>3 DEF Within
  <2>2. b[1] > tx.first /\ b[1] \in Nat /\ tx.first \in Nat
    BY DEF Board, Tiled
  <2> QED BY <2>1, <2>2
<1>6. CASE q = marked
  <2>1. q.sackedOut # tx.sackedOut => Sacked(q) # Sacked(tx)
    <3> SUFFICES ASSUME Sacked(q) = Sacked(tx) PROVE q.sackedOut = tx.sackedOut
      OBVIOUS
    <3>1. q.sackedOut = Amount(q, Sacked(q)) /\ tx.sackedOut = Amount(tx, Sacked(tx))
      BY <1>4, <1>6 DEF Board, Counted
    <3>2. Sacked(tx) \in SUBSET Items(tx)
      BY DEF Sacked
    <3>3. Amount(q, Sacked(tx)) = Amount(tx, Sacked(tx))
      BY <1>3, <1>6, <3>2, NotedEnds
    <3> QED BY <3>1, <3>3
  <2> QED BY <1>3, <1>5, <1>6, <2>1 DEF q
<1>7. CASE q # marked
  <2>1. q = UpdateLostCount(marked)
    BY <1>2, <1>7
  <2>2. Noted(marked, q) /\ Sacked(q) = Sacked(marked)
    BY <1>4, <1>5, <2>1, UpdateLostCountNoted
  <2>3. Noted(tx, q)
    BY <1>3, <2>2, NotedThen
  <2>4. Within(tx, q, B)
    BY <1>3, <2>2 DEF Within
  <2>5. q.sackedOut # tx.sackedOut => Sacked(q) # Sacked(tx)
    <3> SUFFICES ASSUME Sacked(q) = Sacked(tx) PROVE q.sackedOut = tx.sackedOut
      OBVIOUS
    <3>1. q.sackedOut = Amount(q, Sacked(q)) /\ tx.sackedOut = Amount(tx, Sacked(tx))
      BY <2>3 DEF Noted, Board, Counted
    <3>2. Sacked(tx) \in SUBSET Items(tx)
      BY DEF Sacked
    <3>3. Amount(q, Sacked(tx)) = Amount(tx, Sacked(tx))
      BY <2>3, <3>2, NotedEnds
    <3> QED BY <3>1, <3>3
  <2> QED BY <1>5, <2>2, <2>3, <2>4, <2>5 DEF q
<1> QED BY <1>6, <1>7

\* SetSentListLost(): what is not sacked is lost and not in flight.
TimeoutSent(tx) ==
    [k \in Items(tx) |->
        [tx.sent[k] EXCEPT !.lost = k \in Lost(tx) \/ k \notin Sacked(tx),
                           !.retrans = FALSE]]

LEMMA SetSentListLostNoted ==
    ASSUME NEW tx, Board(tx)
    PROVE  LET q == SetSentListLost(tx)
           IN  /\ Noted(tx, q) /\ BytesInFlight(q) = 0
               /\ Sacked(q) = Sacked(tx) /\ Resent(q) = {}
               /\ Lost(q) = Items(tx) \ Sacked(tx)
<1> DEFINE q == SetSentListLost(tx)
           rest == Items(tx) \ Sacked(tx)
<1>1. Tiled(tx) /\ Counted(tx) /\ Placed(tx)
  BY DEF Board
<1>2. Sacked(tx) \in SUBSET Items(tx) /\ Lost(tx) \in SUBSET rest
  BY <1>1 DEF Sacked, Lost, Counted
<1>3. Lost(tx) \cup rest = rest
  BY <1>2
<1>4. /\ DOMAIN q = DOMAIN tx
      /\ q.first = tx.first /\ q.sentSize = tx.sentSize /\ q.app = tx.app
      /\ q.sackedOut = tx.sackedOut
      /\ q.lostOut = Amount(tx, Lost(tx) \cup rest)
      /\ q.retrans = 0 /\ q.highest = tx.highest
      /\ q.sent = TimeoutSent(tx)
  <2>1. q.sent = TimeoutSent(tx)
    BY DEF SetSentListLost, TimeoutSent, Items, Board
  <2>2. /\ DOMAIN q = DOMAIN tx
        /\ q.first = tx.first /\ q.sentSize = tx.sentSize /\ q.app = tx.app
        /\ q.sackedOut = tx.sackedOut
    BY DEF SetSentListLost, Board
  <2>3. q.lostOut = Amount(tx, Lost(tx) \cup rest)
    BY DEF SetSentListLost, Board
  <2>4. q.retrans = 0 /\ q.highest = tx.highest
    BY DEF SetSentListLost, Board
  <2> QED BY <2>1, <2>2, <2>3, <2>4
<1>5. q.lostOut = Amount(tx, rest)
  BY <1>3, <1>4, Zenon
<1> HIDE DEF q
<1>6. Items(q) = Items(tx)
  BY <1>4 DEF Items, TimeoutSent
<1>7. ASSUME NEW k \in Items(tx)
      PROVE  /\ q.sent[k] \in Item /\ q.sent[k].size = tx.sent[k].size
             /\ q.sent[k].sacked = tx.sent[k].sacked
             /\ q.sent[k].lost <=> (k \notin Sacked(tx))
             /\ ~q.sent[k].retrans
  <2>1. tx.sent[k] \in Item
    BY <1>1 DEF Tiled
  <2>2. q.sent[k] = [tx.sent[k] EXCEPT !.lost = k \in Lost(tx) \/ k \notin Sacked(tx),
                                       !.retrans = FALSE]
    BY <1>4 DEF TimeoutSent
  <2>3. k \in Lost(tx) => k \notin Sacked(tx)
    BY <1>1 DEF Counted
  <2>4. (k \in Lost(tx) \/ k \notin Sacked(tx)) \in BOOLEAN
    OBVIOUS
  <2>5. q.sent[k] \in Item /\ q.sent[k].size = tx.sent[k].size
        /\ q.sent[k].sacked = tx.sent[k].sacked /\ ~q.sent[k].retrans
    BY <2>1, <2>2, <2>4 DEF Item
  <2>6. q.sent[k].lost = (k \in Lost(tx) \/ k \notin Sacked(tx))
    BY <2>1, <2>2 DEF Item
  <2> QED BY <2>3, <2>5, <2>6
<1>8. Sacked(q) = Sacked(tx) /\ Lost(q) = rest /\ Resent(q) = {}
  BY <1>6, <1>7 DEF Sacked, Lost, Resent
<1>9. Amount(tx, {}) = 0
  <2>1. Span(tx, {}) = {}
    BY SpanIs
  <2> QED BY <2>1, FS_EmptySet DEF Amount
<1>10. q.lostOut = Amount(tx, Lost(q)) /\ q.retrans = Amount(tx, Resent(q))
       /\ q.sackedOut = Amount(tx, Sacked(q))
  BY <1>1, <1>4, <1>5, <1>8, <1>9 DEF Counted
<1>11. Placed(q)
  BY <1>1, <1>4, <1>8 DEF Placed
<1>12. Sacked(tx) \subseteq Sacked(q) /\ Lost(q) \cap Sacked(q) = {}
  BY <1>8
<1>13. \A k \in Items(tx) : q.sent[k] \in Item /\ q.sent[k].size = tx.sent[k].size
  BY <1>7
<1>14. Noted(tx, q)
  <2>1. /\ q.first = tx.first /\ q.sentSize = tx.sentSize /\ q.app = tx.app
        /\ DOMAIN q = DOMAIN tx
    BY <1>4
  <2> QED BY <1>6, <1>10, <1>11, <1>12, <1>13, <2>1, NotedIs
<1>15. BytesInFlight(q) = 0
  <2>1. Amount(tx, rest) = Amount(tx, Items(tx)) - Amount(tx, Sacked(tx))
    BY <1>1, <1>2, AmountMinus
  <2>2. Amount(tx, Items(tx)) = tx.sentSize
    BY <1>1, AmountAll
  <2>3. tx.sackedOut = Amount(tx, Sacked(tx))
    BY <1>1 DEF Counted
  <2> QED BY <1>4, <1>5, <2>1, <2>2, <2>3, InFlightType DEF BytesInFlight
<1> QED BY <1>8, <1>14, <1>15 DEF q

LEMMA MarkHeadAsLostNoted ==
    ASSUME NEW tx, Board(tx), tx.first \notin Sacked(tx)
    PROVE  Noted(tx, MarkHeadAsLost(tx)) /\ Sacked(MarkHeadAsLost(tx)) = Sacked(tx)
<1> DEFINE q == MarkHeadAsLost(tx)
           h == tx.first
           head == tx.sent[h]
<1>1. Tiled(tx) /\ Counted(tx) /\ Placed(tx)
  BY DEF Board
<1>2. CASE Items(tx) = {}
  <2>1. q = tx
    BY <1>2 DEF MarkHeadAsLost
  <2> QED BY <2>1, NotedSelf
<1>3. CASE Items(tx) # {}
  <2>1. h \in Items(tx)
    BY <1>1, <1>3, HeadItem
  <2>2. /\ DOMAIN q = DOMAIN tx
        /\ q.first = tx.first /\ q.sentSize = tx.sentSize /\ q.app = tx.app
        /\ q.sackedOut = tx.sackedOut /\ q.highest = tx.highest
        /\ q.retrans = (IF head.retrans THEN tx.retrans - head.size ELSE tx.retrans)
        /\ q.lostOut = (IF head.lost THEN tx.lostOut ELSE tx.lostOut + head.size)
    BY <1>3 DEF MarkHeadAsLost, Board
  <2>3. /\ Items(q) = Items(tx)
        /\ q.sent[h] = [head EXCEPT !.retrans = FALSE, !.lost = TRUE]
        /\ \A k \in Items(tx) \ {h} : q.sent[k] = tx.sent[k]
    BY <1>3, <2>1 DEF MarkHeadAsLost, Items, Board
  <2> HIDE DEF q
  <2>4. head \in Item
    BY <1>1, <2>1 DEF Tiled
  <2>5. /\ q.sent[h] \in Item /\ q.sent[h].size = head.size
        /\ q.sent[h].sacked = head.sacked /\ q.sent[h].lost /\ ~q.sent[h].retrans
    BY <2>3, <2>4 DEF Item
  <2>6. /\ Sacked(q) = Sacked(tx) /\ Lost(q) = Lost(tx) \cup {h}
        /\ Resent(q) = Resent(tx) \ {h}
        /\ (h \in Lost(tx) <=> head.lost) /\ (h \in Resent(tx) <=> head.retrans)
        /\ Lost(tx) \in SUBSET Items(tx) /\ Resent(tx) \in SUBSET Items(tx)
    BY <2>1, <2>3, <2>5 DEF Sacked, Lost, Resent
  <2>7. \A k \in Items(tx) : q.sent[k] \in Item /\ q.sent[k].size = tx.sent[k].size
    BY <1>1, <2>3, <2>5 DEF Tiled
  <2>8. Amount(tx, {h}) = head.size
    BY <1>1, <2>1, AmountOne
  <2>9. q.lostOut = Amount(tx, Lost(q))
    <3>1. tx.lostOut = Amount(tx, Lost(tx))
      BY <1>1 DEF Counted
    <3>2. CASE h \in Lost(tx)
      <4>1. Lost(q) = Lost(tx)
        BY <2>6, <3>2
      <4> QED BY <2>2, <2>6, <3>1, <3>2, <4>1
    <3>3. CASE h \notin Lost(tx)
      <4>1. {h} \in SUBSET Items(tx) /\ Lost(tx) \cap {h} = {}
        BY <2>1, <3>3
      <4>2. Amount(tx, Lost(tx) \cup {h}) = Amount(tx, Lost(tx)) + Amount(tx, {h})
        BY <1>1, <2>6, <4>1, AmountUnion
      <4> QED BY <2>2, <2>6, <2>8, <3>1, <3>3, <4>2
    <3> QED BY <3>2, <3>3
  <2>10. q.retrans = Amount(tx, Resent(q))
    <3>1. tx.retrans = Amount(tx, Resent(tx))
      BY <1>1 DEF Counted
    <3>2. CASE h \notin Resent(tx)
      <4>1. Resent(q) = Resent(tx)
        BY <2>6, <3>2
      <4> QED BY <2>2, <2>6, <3>1, <3>2, <4>1
    <3>3. CASE h \in Resent(tx)
      <4>1. Amount(tx, Resent(tx) \ {h}) = Amount(tx, Resent(tx)) - Amount(tx, {h})
        BY <1>1, <2>6, <3>3, AmountMinus
      <4> QED BY <2>2, <2>6, <2>8, <3>1, <3>3, <4>1
    <3> QED BY <3>2, <3>3
  <2>11. q.sackedOut = Amount(tx, Sacked(q))
    BY <1>1, <2>2, <2>6 DEF Counted
  <2>12. Placed(q) /\ Sacked(tx) \subseteq Sacked(q)
    BY <1>1, <2>2, <2>6 DEF Placed
  <2>13. Lost(q) \cap Sacked(q) = {}
    BY <1>1, <2>6 DEF Counted
  <2>14. Noted(tx, q)
    BY <2>2, <2>3, <2>7, <2>9, <2>10, <2>11, <2>12, <2>13, NotedIs
  <2> QED BY <2>6, <2>14 DEF q
<1> QED BY <1>2, <1>3

-----------------------------------------------------------------------------
(* DiscardUpTo().                                                          *)

LEMMA ItemAtIs ==
    ASSUME NEW tx, Tiled(tx), NEW j \in Items(tx), NEW x \in Int, j <= x, x < End(tx, j)
    PROVE  ItemAt(tx, x) = j
<1> DEFINE i == ItemAt(tx, x)
<1>1. i \in Items(tx) /\ i <= x /\ x < End(tx, i)
  BY DEF ItemAt
<1> HIDE DEF i
<1>2. i = j
  BY <1>1, ItemUnique
<1> QED BY <1>2 DEF i

DiscardSent(tx, s) ==
    [k \in {Max({j, s}) : j \in {k \in Items(tx) : End(tx, k) > s}} |->
        [tx.sent[ItemAt(tx, k)] EXCEPT !.size = End(tx, ItemAt(tx, k)) - k]]

\* Item k of the buffer that is left comes from item j.
Comes(tx, s, j, k) ==
    /\ j \in Items(tx) /\ End(tx, j) > s
    /\ k = IF j >= s THEN j ELSE s

LEMMA DiscardItems ==
    ASSUME NEW tx, Tiled(tx), NEW s \in Nat, NEW q, q.sent = DiscardSent(tx, s)
    PROVE  /\ \A k : k \in Items(q) <=> \E j : Comes(tx, s, j, k)
           /\ \A j, k : Comes(tx, s, j, k) =>
                 /\ j \in Nat /\ k \in Nat /\ j <= k /\ s <= k /\ k < End(tx, j)
                 /\ q.sent[k] \in Item /\ q.sent[k].size <= tx.sent[j].size
                 /\ q.sent[k].sacked = tx.sent[j].sacked
                 /\ q.sent[k].lost = tx.sent[j].lost
                 /\ q.sent[k].retrans = tx.sent[j].retrans
                 /\ End(q, k) = End(tx, j)
<1> DEFINE K == {k \in Items(tx) : End(tx, k) > s}
<1>1. \A j \in Items(tx) : /\ j \in Nat /\ End(tx, j) \in Nat /\ j < End(tx, j)
                           /\ tx.sent[j].size \in Nat /\ End(tx, j) = j + tx.sent[j].size
  BY ItemBounds
<1>2. \A j \in K : Max({j, s}) = IF j >= s THEN j ELSE s
  BY <1>1, MaxOfTwo
<1>3. Items(q) = {Max({j, s}) : j \in K}
  BY DEF Items, DiscardSent
<1>4. \A k : k \in Items(q) <=> \E j : Comes(tx, s, j, k)
  BY <1>2, <1>3 DEF Comes
<1>5. ASSUME NEW j, NEW k, Comes(tx, s, j, k)
      PROVE  /\ j \in Nat /\ k \in Nat /\ j <= k /\ s <= k /\ k < End(tx, j)
             /\ q.sent[k] \in Item /\ q.sent[k].size <= tx.sent[j].size
             /\ q.sent[k].sacked = tx.sent[j].sacked
             /\ q.sent[k].lost = tx.sent[j].lost
             /\ q.sent[k].retrans = tx.sent[j].retrans
             /\ End(q, k) = End(tx, j)
  <2>1. /\ j \in Items(tx) /\ j \in Nat /\ k \in Nat /\ j <= k /\ s <= k /\ k < End(tx, j)
        /\ End(tx, j) \in Nat
    BY <1>1, <1>5 DEF Comes
  <2>2. ItemAt(tx, k) = j
    BY <2>1, ItemAtIs
  <2>3. k \in Items(q)
    BY <1>4, <1>5
  <2>4. q.sent[k] = [tx.sent[j] EXCEPT !.size = End(tx, j) - k]
    BY <1>3, <2>2, <2>3 DEF DiscardSent
  <2>5. tx.sent[j] \in Item /\ End(tx, j) - k \in Nat \ {0}
    BY <2>1 DEF Tiled
  <2>6. /\ q.sent[k] \in Item /\ q.sent[k].size = End(tx, j) - k
        /\ q.sent[k].sacked = tx.sent[j].sacked
        /\ q.sent[k].lost = tx.sent[j].lost
        /\ q.sent[k].retrans = tx.sent[j].retrans
    BY <2>4, <2>5 DEF Item
  <2>7. End(q, k) = End(tx, j) /\ q.sent[k].size <= tx.sent[j].size
    BY <1>1, <2>1, <2>6 DEF End
  <2> QED BY <2>1, <2>6, <2>7
<1> QED BY <1>4, <1>5

\* The bytes of the items in T, which come from those in S.
LEMMA DiscardSpan ==
    ASSUME NEW tx, Tiled(tx), NEW s \in Nat, NEW q, q.sent = DiscardSent(tx, s),
           NEW S \in SUBSET Items(tx), NEW T \in SUBSET Items(q),
           \A j, k : Comes(tx, s, j, k) => (k \in T <=> j \in S)
    PROVE  Span(q, T) = {x \in Span(tx, S) : x >= s}
<1>1. ASSUME NEW x \in Span(q, T) PROVE x \in Span(tx, S) /\ x >= s
  <2>1. PICK k \in T : x \in k .. End(q, k) - 1
    BY <1>1, SpanIs
  <2>2. PICK j : Comes(tx, s, j, k)
    BY DiscardItems
  <2>3. j \in Nat /\ k \in Nat /\ j <= k /\ s <= k /\ End(q, k) = End(tx, j)
    BY <2>2, DiscardItems
  <2>4. j \in S
    BY <2>2
  <2>5. End(tx, j) \in Nat
    BY <2>2, ItemBounds DEF Comes
  <2>6. x \in j .. End(tx, j) - 1 /\ x >= s
    BY <2>1, <2>3, <2>5
  <2> QED BY <2>4, <2>6, SpanIs
<1>2. ASSUME NEW x \in Span(tx, S), x >= s PROVE x \in Span(q, T)
  <2>1. PICK j \in S : x \in j .. End(tx, j) - 1
    BY <1>2, SpanIs
  <2>2. j \in Nat /\ End(tx, j) \in Nat /\ j \in Items(tx)
    BY ItemBounds
  <2> DEFINE k == IF j >= s THEN j ELSE s
  <2>3. Comes(tx, s, j, k)
    BY <1>2, <2>1, <2>2 DEF Comes
  <2>4. x \in k .. End(tx, j) - 1
    BY <1>2, <2>1, <2>2
  <2> HIDE DEF k
  <2>5. k \in T /\ End(q, k) = End(tx, j)
    BY <2>3, DiscardItems
  <2> QED BY <2>4, <2>5, SpanIs
<1> QED BY <1>1, <1>2

LEMMA DiscardedFields ==
    ASSUME NEW tx, Board(tx), NEW s \in Nat
    PROVE  LET q == Discarded(tx, s)
               gone == tx.first .. s - 1
           IN  /\ DOMAIN q = DOMAIN tx
               /\ q.first = s /\ q.sentSize = tx.sentSize - (s - tx.first) /\ q.app = tx.app
               /\ q.sackedOut = tx.sackedOut - Cardinality(gone \cap Span(tx, Sacked(tx)))
               /\ q.lostOut = tx.lostOut - Cardinality(gone \cap Span(tx, Lost(tx)))
               /\ q.retrans = tx.retrans - Cardinality(gone \cap Span(tx, Resent(tx)))
               /\ q.sent = DiscardSent(tx, s)
               /\ q.highest.seq = tx.highest.seq
               /\ (tx.highest.at \in Items(tx) /\ tx.highest.at > s) =>
                      q.highest = tx.highest
<1> DEFINE q == Discarded(tx, s)
           gone == tx.first .. s - 1
           u == Uncounted(tx, gone)
           kept == {k \in Items(tx) : End(tx, k) > s}
           at == tx.highest.at
           h == IF at \in kept THEN Max({at, s}) ELSE at
<1>1. /\ DOMAIN u = DOMAIN tx
      /\ u.first = tx.first /\ u.sentSize = tx.sentSize /\ u.app = tx.app
      /\ u.sackedOut = tx.sackedOut - Cardinality(gone \cap Span(tx, Sacked(tx)))
      /\ u.lostOut = tx.lostOut - Cardinality(gone \cap Span(tx, Lost(tx)))
      /\ u.retrans = tx.retrans - Cardinality(gone \cap Span(tx, Resent(tx)))
      /\ u.sent = tx.sent /\ u.highest = tx.highest
  BY DEF Uncounted, Board
<1>2. q = [u EXCEPT !.first = s,
                    !.sentSize = @ - (s - tx.first),
                    !.sent = DiscardSent(tx, s),
                    !.highest.at = h]
  BY DEF Discarded, DiscardSent
<1> HIDE DEF q, u, h
<1>3. /\ DOMAIN q = DOMAIN tx
      /\ q.first = s /\ q.sentSize = tx.sentSize - (s - tx.first) /\ q.app = tx.app
      /\ q.sent = DiscardSent(tx, s)
      /\ q.sackedOut = u.sackedOut /\ q.lostOut = u.lostOut /\ q.retrans = u.retrans
      /\ q.highest = [tx.highest EXCEPT !.at = h]
  BY <1>1, <1>2 DEF Board
<1>4. tx.highest \in [at : Nat, seq : Nat]
  BY DEF Board, Placed
<1>5. q.highest.seq = tx.highest.seq
  BY <1>3, <1>4
<1>6. ASSUME at \in Items(tx), at > s PROVE q.highest = tx.highest
  <2>1. at \in Nat /\ End(tx, at) \in Nat /\ at < End(tx, at)
    BY <1>6, ItemBounds DEF Board
  <2>2. at \in kept
    BY <1>6, <2>1
  <2>3. Max({at, s}) = at
    BY <1>6, <2>1, MaxOfTwo
  <2>4. h = at
    BY <2>2, <2>3 DEF h
  <2> QED BY <1>3, <1>4, <2>4
<1> QED BY <1>1, <1>3, <1>5, <1>6 DEF q

LEMMA DiscardedTiled ==
    ASSUME NEW tx, Tiled(tx), NEW s \in Nat, tx.first < s, s <= SentEnd(tx),
           NEW q, q.sent = DiscardSent(tx, s),
           q.first = s, q.sentSize = tx.sentSize - (s - tx.first)
    PROVE  /\ Tiled(q) /\ SentEnd(q) = SentEnd(tx)
           /\ Span(q, Sacked(q)) = {x \in Span(tx, Sacked(tx)) : x >= s}
           /\ Span(q, Lost(q)) = {x \in Span(tx, Lost(tx)) : x >= s}
           /\ Span(q, Resent(q)) = {x \in Span(tx, Resent(tx)) : x >= s}
           /\ Lost(tx) \cap Sacked(tx) = {} => Lost(q) \cap Sacked(q) = {}
           /\ \A k \in Sacked(tx) : k > s => k \in Sacked(q)
           /\ Small(tx) => Small(q)
<1>1. tx.first \in Nat \ {0} /\ tx.sentSize \in Nat /\ SentEnd(tx) = tx.first + tx.sentSize
  BY DEF Tiled, SentEnd
<1>2. SentEnd(q) = SentEnd(tx) /\ q.sentSize \in Nat
  BY <1>1 DEF SentEnd
<1>3. \A k : k \in Items(q) <=> \E j : Comes(tx, s, j, k)
  BY DiscardItems
<1>4. \A j, k : Comes(tx, s, j, k) =>
         /\ j \in Nat /\ k \in Nat /\ j <= k /\ s <= k /\ k < End(tx, j)
         /\ q.sent[k] \in Item /\ q.sent[k].size <= tx.sent[j].size
         /\ q.sent[k].sacked = tx.sent[j].sacked
         /\ q.sent[k].lost = tx.sent[j].lost
         /\ q.sent[k].retrans = tx.sent[j].retrans
         /\ End(q, k) = End(tx, j)
  BY DiscardItems
<1>5. /\ Sacked(tx) \in SUBSET Items(tx) /\ Lost(tx) \in SUBSET Items(tx)
      /\ Resent(tx) \in SUBSET Items(tx)
      /\ Sacked(q) \in SUBSET Items(q) /\ Lost(q) \in SUBSET Items(q)
      /\ Resent(q) \in SUBSET Items(q)
  BY DEF Sacked, Lost, Resent
<1>6. ASSUME NEW j, NEW k, Comes(tx, s, j, k)
      PROVE  /\ k \in Items(q) /\ j \in Items(tx)
             /\ k \in Sacked(q) <=> j \in Sacked(tx)
             /\ k \in Lost(q) <=> j \in Lost(tx)
             /\ k \in Resent(q) <=> j \in Resent(tx)
  <2>1. k \in Items(q) /\ j \in Items(tx)
    BY <1>3, <1>6 DEF Comes
  <2>2. /\ q.sent[k].sacked = tx.sent[j].sacked
        /\ q.sent[k].lost = tx.sent[j].lost
        /\ q.sent[k].retrans = tx.sent[j].retrans
    BY <1>4, <1>6
  <2> QED BY <2>1, <2>2 DEF Sacked, Lost, Resent
<1>7. Span(q, Sacked(q)) = {x \in Span(tx, Sacked(tx)) : x >= s}
  BY <1>5, <1>6, DiscardSpan
<1>8. Span(q, Lost(q)) = {x \in Span(tx, Lost(tx)) : x >= s}
  BY <1>5, <1>6, DiscardSpan
<1>9. Span(q, Resent(q)) = {x \in Span(tx, Resent(tx)) : x >= s}
  BY <1>5, <1>6, DiscardSpan
<1>10. Span(q, Items(q)) = {x \in Span(tx, Items(tx)) : x >= s}
  BY <1>6, DiscardSpan
<1>11. Tiled(q)
  <2>1. Span(q, Items(q)) = q.first .. SentEnd(q) - 1
    <3>1. Span(tx, Items(tx)) = tx.first .. SentEnd(tx) - 1
      BY DEF Tiled
    <3> QED BY <1>1, <1>2, <1>10, <3>1
  <2>2. Items(q) \in SUBSET Nat /\ \A k \in Items(q) : q.sent[k] \in Item
    BY <1>3, <1>4
  <2>3. ASSUME NEW i \in Items(q), NEW k \in Items(q), i < k PROVE End(q, i) <= k
    <3>1. PICK l : Comes(tx, s, l, i)
      BY <1>3
    <3>2. PICK m : Comes(tx, s, m, k)
      BY <1>3
    <3>3. l \in Items(tx) /\ m \in Items(tx) /\ End(q, i) = End(tx, l) /\ l \in Nat /\ m \in Nat
          /\ End(tx, l) \in Nat /\ s < End(tx, l) /\ m <= k /\ k \in Nat
      BY <1>4, <3>1, <3>2, ItemBounds DEF Comes
    <3>4. (l < m => End(tx, l) <= m) /\ (m < l => End(tx, m) <= l)
      BY <3>3 DEF Tiled
    <3>5. (m < l) = FALSE
      <4> SUFFICES ASSUME m < l PROVE FALSE
        OBVIOUS
      <4>1. End(tx, m) <= l /\ s < End(tx, m) /\ End(tx, m) \in Nat
        BY <3>2, <3>3, <3>4, ItemBounds DEF Comes
      <4>2. l >= s /\ i = l
        BY <3>1, <3>3, <4>1 DEF Comes
      <4>3. k < End(tx, m)
        BY <1>4, <3>2
      <4> QED BY <2>3, <3>3, <4>1, <4>2, <4>3
    <3>6. l # m
      BY <2>3, <3>1, <3>2, <3>3 DEF Comes
    <3> QED BY <3>3, <3>4, <3>5, <3>6
  <2> QED BY <1>1, <1>2, <2>1, <2>2, <2>3 DEF Tiled
<1>12. Lost(tx) \cap Sacked(tx) = {} => Lost(q) \cap Sacked(q) = {}
  <2> SUFFICES ASSUME NEW k \in Lost(q) \cap Sacked(q) PROVE Lost(tx) \cap Sacked(tx) # {}
    OBVIOUS
  <2>1. PICK j : Comes(tx, s, j, k)
    BY <1>3, <1>5
  <2> QED BY <1>6, <2>1
<1>13. ASSUME NEW k \in Sacked(tx), k > s PROVE k \in Sacked(q)
  <2>1. k \in Items(tx) /\ k \in Nat /\ End(tx, k) \in Nat /\ k < End(tx, k)
    BY <1>5, <1>13, ItemBounds
  <2>2. Comes(tx, s, k, k)
    BY <1>13, <2>1 DEF Comes
  <2> QED BY <1>6, <1>13, <2>2
<1>14. ASSUME Small(tx) PROVE Small(q)
  <2> SUFFICES ASSUME NEW k \in Items(q) PROVE q.sent[k].size <= SegmentSize
    BY DEF Small
  <2>1. PICK j : Comes(tx, s, j, k)
    BY <1>3
  <2>2. j \in Items(tx) /\ q.sent[k].size <= tx.sent[j].size /\ q.sent[k] \in Item
    BY <1>4, <2>1 DEF Comes
  <2>3. tx.sent[j].size <= SegmentSize /\ tx.sent[j].size \in Nat
    BY <1>14, <2>2, ItemBounds DEF Small
  <2>4. q.sent[k].size \in Nat /\ SegmentSize \in Nat
    BY <2>2, TxBufferAssumption DEF Item
  <2> QED BY <2>2, <2>3, <2>4
<1> QED BY <1>2, <1>7, <1>8, <1>9, <1>11, <1>12, <1>13, <1>14

\* The bytes below s and the others.
LEMMA CutCount ==
    ASSUME NEW f \in Nat, NEW s \in Nat, NEW X \in SUBSET Nat, IsFiniteSet(X),
           \A x \in X : f <= x
    PROVE  Cardinality({x \in X : x >= s}) = Cardinality(X) - Cardinality((f .. s - 1) \cap X)
<1> DEFINE A == (f .. s - 1) \cap X
           B == {x \in X : x >= s}
<1>1. A \cup B = X /\ A \cap B = {}
  <2>1. \A x \in X : x \in Nat /\ f <= x
    OBVIOUS
  <2>2. \A x \in X : x \in A \/ x \in B
    BY <2>1
  <2>3. \A x : ~(x \in A /\ x \in B)
    BY <2>1
  <2> QED BY <2>2, <2>3
<1>2. A \in SUBSET X /\ B \in SUBSET X
  OBVIOUS
<1> HIDE DEF A, B
<1>3. IsFiniteSet(A) /\ IsFiniteSet(B)
  BY <1>2, FS_Subset
<1>4. Cardinality(A \cup B) = Cardinality(A) + Cardinality(B) - Cardinality(A \cap B)
  BY <1>3, FS_Union
<1>5. Cardinality(A \cap B) = 0 /\ Cardinality(A \cup B) = Cardinality(X)
  BY <1>1, FS_EmptySet, Zenon
<1>6. Cardinality(A) \in Nat /\ Cardinality(B) \in Nat /\ Cardinality(X) \in Nat
  BY <1>3, FS_CardinalityType
<1>7. Cardinality(B) = Cardinality(X) - Cardinality(A)
  BY <1>4, <1>5, <1>6
<1> QED BY <1>7 DEF A, B

LEMMA DiscardUpToBoard ==
    ASSUME NEW tx, Board(tx), NEW s \in Nat, s <= SentEnd(tx)
    PROVE  LET q == DiscardUpTo(tx, s)
           IN  /\ Board(q)
               /\ q.first = IF tx.first >= s THEN tx.first ELSE s
               /\ SentEnd(q) = SentEnd(tx) /\ TailSequence(q) = TailSequence(tx)
               /\ Span(q, Sacked(q)) = {x \in Span(tx, Sacked(tx)) : x >= q.first}
               /\ Small(tx) => Small(q)
<1> DEFINE q == DiscardUpTo(tx, s)
           left == Discarded(tx, s)
           gone == tx.first .. s - 1
<1>1. Tiled(tx) /\ Counted(tx) /\ Placed(tx)
  BY DEF Board
<1>2. tx.first \in Nat /\ tx.sentSize \in Nat /\ SentEnd(tx) = tx.first + tx.sentSize
  BY <1>1 DEF Tiled, SentEnd
<1>3. ASSUME NEW S \in SUBSET Items(tx)
      PROVE  /\ Span(tx, S) \in SUBSET Nat /\ IsFiniteSet(Span(tx, S))
             /\ \A x \in Span(tx, S) : tx.first <= x
  <2>1. Span(tx, S) \subseteq tx.first .. SentEnd(tx) - 1 /\ IsFiniteSet(Span(tx, S))
    BY <1>1, SpanFinite
  <2> QED BY <1>2, <2>1
<1>4. /\ Sacked(tx) \in SUBSET Items(tx) /\ Lost(tx) \in SUBSET Items(tx)
      /\ Resent(tx) \in SUBSET Items(tx)
  BY DEF Sacked, Lost, Resent
<1>5. CASE tx.first >= s
  <2>1. q = tx
    BY <1>5 DEF DiscardUpTo
  <2>2. Span(tx, Sacked(tx)) = {x \in Span(tx, Sacked(tx)) : x >= tx.first}
    <3>1. Span(tx, Sacked(tx)) \in SUBSET Nat /\ \A x \in Span(tx, Sacked(tx)) : tx.first <= x
      BY <1>3, <1>4
    <3> QED BY <1>2, <3>1
  <2> QED BY <1>5, <2>1, <2>2
<1>6. CASE tx.first < s
  <2>1. q = [left EXCEPT !.highest = IF @.seq <= left.first THEN NoHighest ELSE @]
    BY <1>2, <1>6 DEF DiscardUpTo
  <2>2. /\ DOMAIN left = DOMAIN tx
        /\ left.first = s /\ left.sentSize = tx.sentSize - (s - tx.first) /\ left.app = tx.app
        /\ left.sackedOut = tx.sackedOut - Cardinality(gone \cap Span(tx, Sacked(tx)))
        /\ left.lostOut = tx.lostOut - Cardinality(gone \cap Span(tx, Lost(tx)))
        /\ left.retrans = tx.retrans - Cardinality(gone \cap Span(tx, Resent(tx)))
        /\ left.sent = DiscardSent(tx, s)
        /\ left.highest.seq = tx.highest.seq
        /\ (tx.highest.at \in Items(tx) /\ tx.highest.at > s) => left.highest = tx.highest
    BY DiscardedFields
  <2> HIDE DEF q, left
  <2>3. /\ DOMAIN q = DOMAIN tx
        /\ q.first = s /\ q.sentSize = tx.sentSize - (s - tx.first) /\ q.app = tx.app
        /\ q.sackedOut = left.sackedOut /\ q.lostOut = left.lostOut
        /\ q.retrans = left.retrans
        /\ q.sent = DiscardSent(tx, s)
        /\ q.highest = IF tx.highest.seq <= s THEN NoHighest ELSE left.highest
    BY <2>1, <2>2 DEF Board
  <2>4. /\ Tiled(q) /\ SentEnd(q) = SentEnd(tx)
        /\ Span(q, Sacked(q)) = {x \in Span(tx, Sacked(tx)) : x >= s}
        /\ Span(q, Lost(q)) = {x \in Span(tx, Lost(tx)) : x >= s}
        /\ Span(q, Resent(q)) = {x \in Span(tx, Resent(tx)) : x >= s}
        /\ Lost(tx) \cap Sacked(tx) = {} => Lost(q) \cap Sacked(q) = {}
        /\ \A k \in Sacked(tx) : k > s => k \in Sacked(q)
        /\ Small(tx) => Small(q)
    BY <1>1, <1>6, <2>3, DiscardedTiled
  <2>5. ASSUME NEW S \in SUBSET Items(tx)
        PROVE  Cardinality({x \in Span(tx, S) : x >= s})
                 = Amount(tx, S) - Cardinality(gone \cap Span(tx, S))
    BY <1>2, <1>3, CutCount DEF Amount
  <2>6. Counted(q)
    <3>1. q.sackedOut = Amount(q, Sacked(q))
      BY <1>1, <1>4, <2>2, <2>3, <2>4, <2>5 DEF Counted, Amount
    <3>2. q.lostOut = Amount(q, Lost(q))
      BY <1>1, <1>4, <2>2, <2>3, <2>4, <2>5 DEF Counted, Amount
    <3>3. q.retrans = Amount(q, Resent(q))
      BY <1>1, <1>4, <2>2, <2>3, <2>4, <2>5 DEF Counted, Amount
    <3>4. Lost(q) \cap Sacked(q) = {}
      BY <1>1, <2>4 DEF Counted
    <3> QED BY <3>1, <3>2, <3>3, <3>4 DEF Counted
  <2>7. Placed(q)
    <3>1. CASE tx.highest.seq <= s
      BY <2>3, <3>1 DEF Placed, NoHighest
    <3>2. CASE ~(tx.highest.seq <= s)
      <4>1. /\ tx.highest \in [at : Nat, seq : Nat]
            /\ \/ tx.highest = NoHighest
               \/ tx.highest.at \in Sacked(tx) /\ tx.highest.seq = tx.highest.at
        BY <1>1 DEF Placed
      <4>2. tx.highest # NoHighest
        BY <3>2 DEF NoHighest
      <4>3. tx.highest.at \in Sacked(tx) /\ tx.highest.at > s /\ tx.highest.seq = tx.highest.at
        BY <3>2, <4>1, <4>2
      <4>4. q.highest = tx.highest
        BY <1>4, <2>2, <2>3, <3>2, <4>3
      <4>5. tx.highest.at \in Sacked(q)
        BY <2>4, <4>3
      <4> QED BY <4>1, <4>3, <4>4, <4>5 DEF Placed
    <3> QED BY <3>1, <3>2
  <2>8. Board(q)
    BY <2>3, <2>4, <2>6, <2>7 DEF Board
  <2>9. TailSequence(q) = TailSequence(tx)
    BY <2>3, <2>4 DEF TailSequence
  <2> QED BY <1>2, <1>6, <2>3, <2>4, <2>8, <2>9 DEF q
<1> QED BY <1>2, <1>5, <1>6

-----------------------------------------------------------------------------
(* What the sender sends.                                                  *)

\* Segments of what was sent.
Pieces(tx) == {p \in Nat \X Nat : 1 <= p[1] /\ p[1] < p[2] /\ p[2] <= SentEnd(tx)}

\* The socket that sends, within a handler and after it.
Sound(c) ==
    /\ DOMAIN c = {"tx", "highTx", "cong", "dupAcks", "recover", "recovering",
                   "firstPartial", "timer", "retries", "pending", "dropped", "out"}
    /\ Board(c.tx) /\ Small(c.tx) /\ c.tx.first \notin Sacked(c.tx)
    /\ c.highTx = SentEnd(c.tx)
    /\ c.recover \in Nat /\ c.recover <= c.highTx
    /\ c.retries \in Nat /\ c.retries <= DataRetries
    /\ c.out \subseteq Pieces(c.tx)

\* The same state of the state machine.
SameState(c, d) ==
    /\ d.cong = c.cong /\ d.dupAcks = c.dupAcks
    /\ d.recover = c.recover /\ d.recovering = c.recovering
    /\ d.firstPartial = c.firstPartial /\ d.retries = c.retries
    /\ d.pending = c.pending /\ d.dropped = c.dropped

\* The socket c sends, and is then d.
Sends(c, d) ==
    /\ Sound(d) /\ SameState(c, d) /\ Steady(c.tx, d.tx)
    /\ c.timer => d.timer
    /\ d = c \/ d.timer

LEMMA SendsSelf == ASSUME NEW c, Sound(c) PROVE Sends(c, c)
<1>1. Steady(c.tx, c.tx)
  BY SteadySelf DEF Sound
<1> QED BY <1>1 DEF Sends, SameState

LEMMA SendsThen ==
    ASSUME NEW c, Sound(c), NEW d, Sends(c, d), NEW e, Sends(d, e)
    PROVE  Sends(c, e)
<1>1. Board(c.tx) /\ Steady(c.tx, d.tx) /\ Steady(d.tx, e.tx)
  BY DEF Sound, Sends
<1>2. Steady(c.tx, e.tx)
  BY <1>1, SteadyThen
<1>3. Sound(e) /\ SameState(c, e)
  BY DEF Sends, SameState
<1>4. (c.timer => e.timer) /\ (e = c \/ e.timer)
  BY DEF Sends
<1> QED BY <1>2, <1>3, <1>4 DEF Sends

\* The head is not marked sacked if its first byte is not.
LEMMA HeadSacked ==
    ASSUME NEW tx, Tiled(tx)
    PROVE  tx.first \in Sacked(tx) <=> tx.first \in Span(tx, Sacked(tx))
<1>1. ASSUME tx.first \in Sacked(tx) PROVE tx.first \in Span(tx, Sacked(tx))
  <2>1. tx.first \in Items(tx)
    BY <1>1 DEF Sacked
  <2>2. tx.first \in tx.first .. End(tx, tx.first) - 1
    BY <2>1, ItemBounds
  <2> QED BY <1>1, <2>2, SpanIs
<1>2. ASSUME tx.first \in Span(tx, Sacked(tx)) PROVE tx.first \in Sacked(tx)
  <2>1. PICK k \in Sacked(tx) : tx.first \in k .. End(tx, k) - 1
    BY <1>2, SpanIs
  <2>2. k \in Items(tx)
    BY DEF Sacked
  <2>3. k \in Nat /\ tx.first <= k /\ tx.first \in Nat
    BY <2>2, ItemBounds DEF Tiled
  <2>4. k = tx.first
    BY <2>1, <2>3
  <2> QED BY <2>4
<1> QED BY <1>1, <1>2

LEMMA SteadyHead ==
    ASSUME NEW tx, Board(tx), NEW q, Steady(tx, q), tx.first \notin Sacked(tx)
    PROVE  q.first \notin Sacked(q)
<1>1. Tiled(tx) /\ Tiled(q) /\ q.first = tx.first /\ Span(q, Sacked(q)) = Span(tx, Sacked(tx))
  BY DEF Board, Steady
<1>2. tx.first \notin Span(tx, Sacked(tx))
  BY <1>1, HeadSacked
<1> QED BY <1>1, <1>2, HeadSacked

LEMMA MaxOfTwoInts == \A a, b \in Int : Max({a, b}) = IF a >= b THEN a ELSE b
<1> SUFFICES ASSUME NEW a \in Int, NEW b \in Int PROVE Max({a, b}) = IF a >= b THEN a ELSE b
  OBVIOUS
<1> QED BY DEF Max

\* SendDataPacket().
SentPacket(c, s, q, m) ==
    [c EXCEPT !.tx = q, !.out = @ \cup {<<s, s + m>>},
              !.highTx = Max({@, s + m}), !.timer = TRUE]

LEMMA SendDataPacketSends ==
    ASSUME NEW c, Sound(c), NEW s, Ready(c.tx, s), NEW n \in Nat \ {0},
           n <= SegmentSize, n = SegmentSize \/ n >= SentEnd(c.tx) - s
    PROVE  LET d == SendDataPacket(c, s, n)
           IN  /\ Sends(c, d) /\ d.timer = TRUE
               /\ BytesInFlight(d.tx) <= BytesInFlight(c.tx) + n
<1> DEFINE q == CopyFrom(c.tx, n, s).tx
           m == CopyFrom(c.tx, n, s).size
           d == SentPacket(c, s, q, m)
<1>1. SendDataPacket(c, s, n) = d
  BY DEF SendDataPacket, SentPacket
<1>2. Board(c.tx) /\ Small(c.tx)
  BY DEF Sound
<1>3. /\ Steady(c.tx, q) /\ s \in Nat /\ m \in 1 .. n /\ c.tx.first <= s
      /\ s + m <= SentEnd(q)
      /\ SentEnd(q) = SentEnd(c.tx) \/ SentEnd(q) = s + m
      /\ BytesInFlight(q) <= BytesInFlight(c.tx) + m
      /\ Small(q)
  BY <1>2, CopyFromSteady
<1> HIDE DEF q, m
<1>4. Board(q) /\ Tiled(q) /\ Tiled(c.tx) /\ SentEnd(c.tx) <= SentEnd(q)
  BY <1>2, <1>3 DEF Steady, Board
<1>5. SentEnd(c.tx) \in Nat /\ SentEnd(q) \in Nat /\ c.tx.first \in Nat \ {0}
  BY <1>4, ItemBounds DEF Tiled
<1>6. /\ DOMAIN d = DOMAIN c /\ d.tx = q /\ d.timer = TRUE
      /\ d.out = c.out \cup {<<s, s + m>>} /\ d.highTx = Max({c.highTx, s + m})
      /\ SameState(c, d)
  BY DEF SentPacket, Sound, SameState
<1> HIDE DEF d
<1>7. d.highTx = SentEnd(q)
  <2>1. c.highTx = SentEnd(c.tx) /\ s + m \in Nat
    BY <1>3 DEF Sound
  <2>2. d.highTx = IF SentEnd(c.tx) >= s + m THEN SentEnd(c.tx) ELSE s + m
    BY <1>5, <1>6, <2>1, MaxOfTwo
  <2> QED BY <1>3, <1>4, <1>5, <2>1, <2>2
<1>8. d.out \subseteq Pieces(q)
  <2>1. <<s, s + m>> \in Pieces(q)
    BY <1>3, <1>5 DEF Pieces
  <2>2. ASSUME NEW p \in Pieces(c.tx) PROVE p \in Pieces(q)
    BY <1>4, <1>5 DEF Pieces
  <2> QED BY <1>6, <2>1, <2>2 DEF Sound
<1>9. q.first \notin Sacked(q)
  BY <1>2, <1>3, SteadyHead DEF Sound
<1>10. d.recover \in Nat /\ d.recover <= d.highTx /\ d.retries \in Nat /\ d.retries <= DataRetries
  BY <1>4, <1>5, <1>6, <1>7 DEF Sound, SameState
<1>11. Sound(d)
  BY <1>3, <1>4, <1>6, <1>7, <1>8, <1>9, <1>10 DEF Sound
<1>12. BytesInFlight(d.tx) <= BytesInFlight(c.tx) + n
  BY <1>2, <1>3, <1>4, <1>6, InFlightType
<1> QED BY <1>1, <1>3, <1>6, <1>11, <1>12 DEF Sends

LEMMA WindowIs ==
    ASSUME NEW c, Sound(c), NEW w \in Nat
    PROVE  /\ AvailableWindow(c, w) \in Nat
           /\ AvailableWindow(c, w) # 0 =>
                 BytesInFlight(c.tx) + AvailableWindow(c, w) = w
<1>1. BytesInFlight(c.tx) \in Int
  BY InFlightType DEF Sound
<1>2. AvailableWindow(c, w) = IF 0 >= w - BytesInFlight(c.tx) THEN 0 ELSE w - BytesInFlight(c.tx)
  BY <1>1, MaxOfTwoInts DEF AvailableWindow
<1> QED BY <1>1, <1>2

LEMMA SizeFromIs ==
    ASSUME NEW tx, Board(tx), NEW s \in Nat, s <= SentEnd(tx)
    PROVE  /\ SentEnd(tx) \in Nat /\ TailSequence(tx) \in Nat
           /\ TailSequence(tx) = SentEnd(tx) + tx.app
           /\ SizeFrom(tx, s) = TailSequence(tx) - s
<1>1. SentEnd(tx) \in Nat /\ tx.app \in Nat
  BY ItemBounds DEF Board
<1> QED BY <1>1 DEF TailSequence, SizeFrom

LEMMA ReadyIs ==
    ASSUME NEW tx, Board(tx), NEW s, Ready(tx, s)
    PROVE  s \in Nat /\ s <= SentEnd(tx)
<1>1. Tiled(tx)
  BY DEF Board
<1> QED BY <1>1, ItemBounds DEF Ready

\* A turn of the loop of SendPendingData().  What is in flight stays within
\* the window.
LEMMA SendNextSends ==
    ASSUME NEW c, Sound(c), NEW w \in Nat
    PROVE  LET d == SendNext(c, w)
           IN  /\ Sends(c, d)
               /\ BytesInFlight(c.tx) <= w => BytesInFlight(d.tx) <= w
               /\ (/\ NoDelay /\ AvailableWindow(c, w) >= SegmentSize
                   /\ NextSeg(c.tx, c.cong = "RECOVERY") # {}) => d.timer
<1> DEFINE a == AvailableWindow(c, w)
           next == NextSeg(c.tx, c.cong = "RECOVERY")
           s == CHOOSE x \in next : TRUE
           n == Min({a, SegmentSize})
           held == HeldBack(c, a, SizeFrom(c.tx, s))
           d == SendNext(c, w)
<1>1. d = IF a = 0 \/ next = {} THEN c ELSE IF held THEN c ELSE SendDataPacket(c, s, n)
  BY DEF SendNext
<1>2. Sends(c, c)
  BY SendsSelf
<1>3. a \in Nat /\ (a # 0 => BytesInFlight(c.tx) + a = w)
  BY WindowIs
<1>4. BytesInFlight(c.tx) \in Int /\ Board(c.tx)
  BY InFlightType DEF Sound
<1>5. SegmentSize \in Nat \ {0}
  BY TxBufferAssumption
<1>6. next # {} => Ready(c.tx, s)
  <2> SUFFICES ASSUME next # {} PROVE Ready(c.tx, s)
    OBVIOUS
  <2>1. s \in next
    OBVIOUS
  <2> HIDE DEF s
  <2> QED BY <1>4, <2>1, NextSegReady
<1>7. held <=> \/ a < SegmentSize /\ SizeFrom(c.tx, s) > a
               \/ ~NoDelay /\ c.highTx > c.tx.first /\ SizeFrom(c.tx, s) < SegmentSize
  BY DEF HeldBack
<1> SUFFICES /\ Sends(c, d)
             /\ BytesInFlight(c.tx) <= w => BytesInFlight(d.tx) <= w
             /\ NoDelay /\ a >= SegmentSize /\ next # {} => d.timer
  OBVIOUS
<1> HIDE DEF a, next, s, held, d
<1>8. CASE a = 0 \/ next = {}
  BY <1>1, <1>2, <1>3, <1>5, <1>8
<1>9. CASE a # 0 /\ next # {} /\ held
  <2>1. NoDelay => a < SegmentSize
    BY <1>7, <1>9
  <2> QED BY <1>1, <1>2, <1>3, <1>5, <1>9, <2>1
<1>10. CASE a # 0 /\ next # {} /\ ~held
  <2>1. n = (IF a <= SegmentSize THEN a ELSE SegmentSize)
    BY <1>3, <1>5, MinOfTwo
  <2>2. n \in Nat \ {0} /\ n <= SegmentSize /\ n <= a
    BY <1>3, <1>5, <1>10, <2>1
  <2>3. Ready(c.tx, s)
    BY <1>6, <1>10
  <2>4. s \in Nat /\ s <= SentEnd(c.tx)
    BY <1>4, <2>3, ReadyIs
  <2>5. SizeFrom(c.tx, s) = TailSequence(c.tx) - s /\ TailSequence(c.tx) \in Nat
        /\ SentEnd(c.tx) <= TailSequence(c.tx) /\ SentEnd(c.tx) \in Nat
    <3>1. c.tx.app \in Nat
      BY <1>4 DEF Board
    <3> QED BY <1>4, <2>4, <3>1, SizeFromIs
  <2>6. n = SegmentSize \/ n >= SentEnd(c.tx) - s
    BY <1>3, <1>5, <1>7, <1>10, <2>1, <2>4, <2>5
  <2> HIDE DEF n
  <2>7. d = SendDataPacket(c, s, n)
    BY <1>1, <1>10
  <2>8. Sends(c, d) /\ d.timer = TRUE /\ BytesInFlight(d.tx) <= BytesInFlight(c.tx) + n
    BY <2>2, <2>3, <2>6, <2>7, SendDataPacketSends
  <2>9. Sound(d)
    BY <2>8 DEF Sends
  <2>10. BytesInFlight(d.tx) \in Int
    BY <2>9, InFlightType DEF Sound
  <2>11. BytesInFlight(d.tx) <= w
    BY <1>3, <1>4, <1>10, <2>2, <2>8, <2>10
  <2> QED BY <2>8, <2>11
<1> QED BY <1>8, <1>9, <1>10

\* The turns of SendPendingData() exist, as those of Joined() do.
SendTurns(c, w, f, n) ==
    f = [i \in 0 .. n |-> IF i = 0 THEN c ELSE SendNext(f[i - 1], w)]

LEMMA SendTurnsExist == ASSUME NEW c, NEW w, NEW n \in Nat PROVE \E f : SendTurns(c, w, f, n)
<1> DEFINE S == {m \in Nat : ~\E f : SendTurns(c, w, f, m)}
<1> SUFFICES ASSUME S # {} PROVE FALSE
  OBVIOUS
<1>1. PICK m \in S : \A y \in S : m <= y
  BY LeastNat
<1>2. CASE m = 0
  <2> DEFINE f == [i \in 0 .. 0 |-> c]
  <2>1. f = [i \in 0 .. 0 |-> IF i = 0 THEN c ELSE SendNext(f[i - 1], w)]
    OBVIOUS
  <2>2. SendTurns(c, w, f, 0)
    BY <2>1 DEF SendTurns
  <2> QED BY <1>1, <1>2, <2>2
<1>3. CASE m # 0
  <2>1. m - 1 \in Nat /\ m - 1 \notin S
    BY <1>1, <1>3
  <2>2. PICK f : SendTurns(c, w, f, m - 1)
    BY <2>1
  <2> DEFINE g == [i \in 0 .. m |-> IF i = 0 THEN c ELSE SendNext(f[i - 1], w)]
  <2>3. ASSUME NEW i \in 0 .. m, i # 0 PROVE f[i - 1] = g[i - 1]
    <3>1. i - 1 \in 0 .. m - 1 /\ i - 1 \in 0 .. m
      BY <2>1, <2>3
    <3> HIDE DEF g
    <3>2. \A x \in 0 .. m - 1 : f[x] = IF x = 0 THEN c ELSE SendNext(f[x - 1], w)
      BY <2>2 DEF SendTurns
    <3>3. \A x \in 0 .. m : g[x] = IF x = 0 THEN c ELSE SendNext(f[x - 1], w)
      BY DEF g
    <3> QED BY <3>1, <3>2, <3>3
  <2>4. g = [i \in 0 .. m |-> IF i = 0 THEN c ELSE SendNext(g[i - 1], w)]
    BY <2>3
  <2>5. SendTurns(c, w, g, m)
    BY <2>4 DEF SendTurns
  <2> QED BY <1>1, <2>5
<1> QED BY <1>2, <1>3

\* SendPendingData().  With Nagle's algorithm off, it sends when it can.
LEMMA SendPendingDataSends ==
    ASSUME NEW c, Sound(c), NEW w \in Nat
    PROVE  LET d == SendPendingData(c, w)
           IN  /\ Sends(c, d)
               /\ BytesInFlight(c.tx) <= w => BytesInFlight(d.tx) <= w
               /\ (/\ NoDelay /\ AvailableWindow(c, w) >= SegmentSize
                   /\ NextSeg(c.tx, c.cong = "RECOVERY") # {}
                   /\ SizeFrom(c.tx, c.tx.first) > 0) => d.timer
<1> DEFINE N == 2 * SizeFrom(c.tx, c.tx.first)
           sent == CHOOSE f : f = [i \in 0 .. N |-> IF i = 0 THEN c ELSE SendNext(f[i - 1], w)]
           Bounded(x) == BytesInFlight(c.tx) <= w => BytesInFlight(x.tx) <= w
           Prompt(x) == (/\ NoDelay /\ AvailableWindow(c, w) >= SegmentSize
                         /\ NextSeg(c.tx, c.cong = "RECOVERY") # {}) => x.timer
           Good(i) == /\ Sends(c, sent[i]) /\ Bounded(sent[i])
                      /\ i > 0 => Prompt(sent[i])
           S == {i \in Nat : i <= N /\ ~Good(i)}
<1>1. N \in Nat /\ SizeFrom(c.tx, c.tx.first) \in Nat
  <2>1. Board(c.tx) /\ Tiled(c.tx)
    BY DEF Sound, Board
  <2>2. c.tx.first \in Nat /\ c.tx.first <= SentEnd(c.tx) /\ SentEnd(c.tx) \in Nat
    BY <2>1, ItemBounds DEF Tiled
  <2>3. c.tx.app \in Nat
    BY <2>1 DEF Board
  <2> QED BY <2>1, <2>2, <2>3, SizeFromIs
<1>2. sent = [i \in 0 .. N |-> IF i = 0 THEN c ELSE SendNext(sent[i - 1], w)]
  <2> HIDE DEF N
  <2>1. PICK g : SendTurns(c, w, g, N)
    BY <1>1, SendTurnsExist
  <2>2. \E f : f = [i \in 0 .. N |-> IF i = 0 THEN c ELSE SendNext(f[i - 1], w)]
    BY <2>1 DEF SendTurns
  <2> QED BY <2>2
<1>3. SendPendingData(c, w) = sent[N]
  BY DEF SendPendingData
<1> HIDE DEF sent
<1>4. \A i \in 0 .. N : sent[i] = IF i = 0 THEN c ELSE SendNext(sent[i - 1], w)
  BY <1>2
<1> HIDE DEF N
<1>5. S = {}
  <2> SUFFICES ASSUME S # {} PROVE FALSE
    OBVIOUS
  <2>1. PICK m \in S : \A y \in S : m <= y
    BY LeastNat
  <2>2. CASE m = 0
    <3>1. sent[m] = c
      BY <1>1, <1>4, <2>2
    <3>2. Good(m)
      BY <2>2, <3>1, SendsSelf
    <3> QED BY <2>1, <3>2
  <2>3. CASE m # 0
    <3>1. m - 1 \in Nat /\ m - 1 <= N /\ m - 1 \notin S /\ m \in 1 .. N
      BY <1>1, <2>1, <2>3
    <3> DEFINE x == sent[m - 1]
               y == sent[m]
    <3>2. Sends(c, x) /\ Bounded(x) /\ (m - 1 > 0 => Prompt(x))
      BY <3>1
    <3>3. y = SendNext(x, w)
      BY <1>1, <1>4, <2>1, <2>3
    <3>4. m - 1 = 0 => x = c
      BY <1>1, <1>4
    <3>5. Sound(x)
      BY <3>2 DEF Sends
    <3> HIDE DEF x, y
    <3>6. /\ Sends(x, y)
          /\ BytesInFlight(x.tx) <= w => BytesInFlight(y.tx) <= w
          /\ (/\ NoDelay /\ AvailableWindow(x, w) >= SegmentSize
              /\ NextSeg(x.tx, x.cong = "RECOVERY") # {}) => y.timer
      BY <3>3, <3>5, SendNextSends
    <3>7. Sends(c, y)
      BY <3>2, <3>6, SendsThen
    <3>8. Bounded(y)
      BY <3>2, <3>6
    <3>9. x.timer => y.timer
      BY <3>6 DEF Sends
    <3>10. Prompt(y)
      BY <3>1, <3>2, <3>4, <3>6, <3>9
    <3>11. Good(m)
      BY <3>7, <3>8, <3>10 DEF y
    <3> QED BY <2>1, <3>11
  <2> QED BY <2>2, <2>3
<1>6. Good(N)
  BY <1>1, <1>5
<1>7. SizeFrom(c.tx, c.tx.first) > 0 => N > 0
  BY <1>1 DEF N
<1> QED BY <1>3, <1>6, <1>7

-----------------------------------------------------------------------------
(* The handlers of the sender.                                             *)

\* The states of the state machine, with what they say of the other fields.
Control(c) ==
    /\ c.cong \in {"OPEN", "DISORDER", "RECOVERY", "LOSS"}
    /\ c.recovering <=> c.cong \in {"RECOVERY", "LOSS"}
    /\ c.dupAcks \in Nat
    /\ c.cong \in {"OPEN", "LOSS"} => c.dupAcks = 0
    /\ c.cong = "DISORDER" => c.dupAcks < DupAckThresh

\* Without Nagle's algorithm, which may hold back what a timeout wants sent
\* again, the timer runs while something is unacknowledged.
Armed(c) == NoDelay /\ Items(c.tx) # {} => c.timer \/ c.dropped

\* A handler took c to d.
Kept(c, d) ==
    /\ Sound(d) /\ Steady(c.tx, d.tx)
    /\ d.retries >= c.retries /\ d.dropped = c.dropped

LEMMA KeptThen ==
    ASSUME NEW c, Sound(c), NEW d, Kept(c, d), NEW e, Kept(d, e)
    PROVE  Kept(c, e)
<1>1. Board(c.tx) /\ Steady(c.tx, d.tx) /\ Steady(d.tx, e.tx)
  BY DEF Sound, Kept
<1>2. Steady(c.tx, e.tx)
  BY <1>1, SteadyThen
<1>3. c.retries \in Nat /\ d.retries \in Nat /\ e.retries \in Nat
  BY DEF Kept, Sound
<1> QED BY <1>2, <1>3 DEF Kept

\* Sending keeps the state machine where it is and the timer running.
LEMMA SendsKept ==
    ASSUME NEW c, Sound(c), NEW d, Sends(c, d)
    PROVE  /\ Kept(c, d)
           /\ Control(c) => Control(d)
           /\ Armed(c) => Armed(d)
<1>1. Kept(c, d)
  BY DEF Sends, SameState, Kept, Sound
<1>2. Control(c) => Control(d)
  BY DEF Sends, SameState, Control
<1>3. Armed(c) => Armed(d)
  BY DEF Sends, SameState, Armed
<1> QED BY <1>1, <1>2, <1>3

LEMMA NotedSteady ==
    ASSUME NEW tx, Board(tx), NEW q, Noted(tx, q), Sacked(q) = Sacked(tx)
    PROVE  Steady(tx, q)
<1>1. Sacked(tx) \in SUBSET Items(tx)
  BY DEF Sacked
<1>2. SentEnd(q) = SentEnd(tx) /\ TailSequence(q) = TailSequence(tx)
      /\ Span(q, Sacked(tx)) = Span(tx, Sacked(tx))
  BY <1>1, NotedEnds
<1>3. SentEnd(tx) \in Nat
  BY ItemBounds DEF Board
<1>4. Span(q, Sacked(q)) = Span(tx, Sacked(tx))
  BY <1>2
<1> QED BY <1>2, <1>3, <1>4 DEF Steady, Noted

\* The sender with another buffer that has the same bytes sent.
LEMMA SoundWith ==
    ASSUME NEW c, Sound(c), NEW d, DOMAIN d = DOMAIN c,
           Steady(c.tx, d.tx), SentEnd(d.tx) = SentEnd(c.tx), Small(d.tx),
           d.highTx = c.highTx, d.out = c.out,
           d.recover \in Nat, d.recover <= d.highTx,
           d.retries \in Nat, d.retries <= DataRetries
    PROVE  Sound(d)
<1>1. Board(d.tx)
  BY DEF Steady
<1>2. d.tx.first \notin Sacked(d.tx)
  BY SteadyHead DEF Sound
<1>3. d.out \subseteq Pieces(d.tx)
  BY DEF Sound, Pieces
<1> QED BY <1>1, <1>2, <1>3 DEF Sound

\* DoRetransmit().
LEMMA DoRetransmitSends ==
    ASSUME NEW c, Sound(c), Items(c.tx) # {}
    PROVE  Sends(c, DoRetransmit(c)) /\ DoRetransmit(c).timer = TRUE
<1> DEFINE next == NextSeg(c.tx, FALSE)
           s == IF next = {} THEN c.tx.first ELSE CHOOSE n \in next : TRUE
<1>1. Board(c.tx) /\ Tiled(c.tx) /\ c.tx.first \notin Sacked(c.tx)
  BY DEF Sound, Board
<1>2. c.tx.first \in Items(c.tx)
  BY <1>1, HeadItem
<1>3. Ready(c.tx, s)
  <2>1. CASE next = {}
    BY <1>1, <1>2, <2>1 DEF Ready
  <2>2. CASE next # {}
    <3>1. s \in next
      BY <2>2
    <3> HIDE DEF s
    <3> QED BY <1>1, <3>1, NextSegReady
  <2> QED BY <2>1, <2>2
<1>4. DoRetransmit(c) = SendDataPacket(c, s, SegmentSize)
  BY DEF DoRetransmit
<1>5. SegmentSize \in Nat \ {0} /\ SegmentSize <= SegmentSize
  BY TxBufferAssumption
<1> HIDE DEF s
<1> QED BY <1>3, <1>4, <1>5, SendDataPacketSends

\* EnterRecovery().
LEMMA EnterRecoveryKept ==
    ASSUME NEW c, Sound(c), Items(c.tx) # {}, c.dupAcks \in Nat
    PROVE  LET d == EnterRecovery(c)
           IN  /\ Kept(c, d) /\ Control(d) /\ Armed(d)
               /\ d.cong = "RECOVERY"
<1> DEFINE q == IF IsLost(c.tx, c.tx.first) THEN c.tx ELSE MarkHeadAsLost(c.tx)
           e == [c EXCEPT !.tx = q, !.recover = c.highTx, !.recovering = TRUE,
                          !.cong = "RECOVERY"]
           d == DoRetransmit(e)
<1>1. EnterRecovery(c) = d
  BY DEF EnterRecovery
<1>2. Board(c.tx) /\ c.tx.first \notin Sacked(c.tx) /\ Small(c.tx)
  BY DEF Sound
<1>3. Noted(c.tx, q) /\ Sacked(q) = Sacked(c.tx)
  BY <1>2, NotedSelf, MarkHeadAsLostNoted
<1> HIDE DEF q
<1>4. Steady(c.tx, q) /\ SentEnd(q) = SentEnd(c.tx) /\ Small(q) /\ Items(q) = Items(c.tx)
  BY <1>2, <1>3, NotedSteady, NotedEnds DEF Noted
<1>5. /\ DOMAIN e = DOMAIN c
      /\ e.tx = q /\ e.highTx = c.highTx /\ e.out = c.out /\ e.recover = c.highTx
      /\ e.retries = c.retries /\ e.dropped = c.dropped /\ e.dupAcks = c.dupAcks
      /\ e.cong = "RECOVERY" /\ e.recovering = TRUE
  BY DEF Sound
<1> HIDE DEF e
<1>6. SentEnd(c.tx) \in Nat /\ c.highTx = SentEnd(c.tx)
      /\ c.retries \in Nat /\ c.retries <= DataRetries
  BY <1>2, ItemBounds DEF Board, Sound
<1>7. e.recover \in Nat /\ e.recover <= e.highTx /\ e.retries \in Nat /\ e.retries <= DataRetries
  BY <1>5, <1>6
<1>8. Sound(e)
  BY <1>4, <1>5, <1>7, SoundWith
<1>9. Kept(c, e)
  BY <1>4, <1>5, <1>6, <1>8 DEF Kept
<1>10. Control(e)
  BY <1>5 DEF Control
<1>11. Items(e.tx) # {}
  BY <1>4, <1>5
<1> HIDE DEF d
<1>12. Sends(e, d) /\ d.timer = TRUE
  BY <1>8, <1>11, DoRetransmitSends DEF d
<1>13. Kept(e, d) /\ Control(d)
  BY <1>8, <1>10, <1>12, SendsKept
<1>14. Kept(c, d)
  BY <1>9, <1>13, KeptThen
<1>15. Armed(d) /\ d.cong = "RECOVERY"
  BY <1>5, <1>12 DEF Armed, Sends, SameState
<1> QED BY <1>1, <1>13, <1>14, <1>15

\* DupAck(), which runs when a SACK block marked an item.
LEMMA DupAckKept ==
    ASSUME NEW c, Sound(c), Control(c), Armed(c), Items(c.tx) # {}
    PROVE  LET d == DupAck(c)
           IN  /\ Kept(c, d) /\ Control(d) /\ Armed(d)
               /\ d.cong # "OPEN"
<1> DEFINE e == [c EXCEPT !.dupAcks = @ + 1, !.cong = "DISORDER"]
           third == /\ e.dupAcks = DupAckThresh
                    /\ e.tx.first >= e.recover \/ ~e.recovering
           lost == IsLost(e.tx, e.tx.first + SegmentSize)
           d == DupAck(c)
<1>1. d = IF c.cong \in {"LOSS", "RECOVERY"} THEN c
          ELSE IF third \/ lost THEN EnterRecovery(e) ELSE e
  BY DEF DupAck
<1>2. /\ DOMAIN e = DOMAIN c
      /\ e.tx = c.tx /\ e.highTx = c.highTx /\ e.out = c.out /\ e.recover = c.recover
      /\ e.retries = c.retries /\ e.dropped = c.dropped /\ e.dupAcks = c.dupAcks + 1
      /\ e.cong = "DISORDER" /\ e.recovering = c.recovering /\ e.timer = c.timer
  BY DEF Sound
<1> SUFFICES Kept(c, d) /\ Control(d) /\ Armed(d) /\ d.cong # "OPEN"
  OBVIOUS
<1> HIDE DEF e, lost, d
<1>3. Sound(e)
  BY <1>2 DEF Sound
<1>4. Steady(c.tx, c.tx) /\ c.retries \in Nat
  BY SteadySelf DEF Sound
<1>5. Kept(c, c) /\ Kept(c, e)
  BY <1>2, <1>3, <1>4 DEF Kept
<1>6. CASE c.cong \in {"LOSS", "RECOVERY"}
  BY <1>1, <1>5, <1>6
<1>7. CASE c.cong \notin {"LOSS", "RECOVERY"} /\ (third \/ lost)
  <2>1. e.dupAcks \in Nat /\ Items(e.tx) # {}
    BY <1>2 DEF Control
  <2>2. d = EnterRecovery(e)
    BY <1>1, <1>7
  <2>3. Kept(e, d) /\ Control(d) /\ Armed(d) /\ d.cong = "RECOVERY"
    BY <1>3, <2>1, <2>2, EnterRecoveryKept
  <2>4. Kept(c, d)
    BY <1>5, <2>3, KeptThen
  <2> QED BY <2>3, <2>4
<1>8. CASE c.cong \notin {"LOSS", "RECOVERY"} /\ ~third /\ ~lost
  <2>1. d = e
    BY <1>1, <1>8
  <2>2. ~c.recovering /\ c.dupAcks \in Nat /\ c.dupAcks < DupAckThresh
    BY <1>8, TxBufferAssumption DEF Control
  <2>3. e.dupAcks # DupAckThresh
    BY <1>2, <1>8, <2>2
  <2>4. e.dupAcks < DupAckThresh /\ e.dupAcks \in Nat
    BY <1>2, <2>2, <2>3, TxBufferAssumption
  <2>5. Control(e)
    BY <1>2, <1>8, <2>2, <2>4 DEF Control
  <2>6. Armed(e)
    BY <1>2 DEF Armed
  <2> QED BY <1>2, <1>5, <2>1, <2>5, <2>6
<1> QED BY <1>6, <1>7, <1>8


\* NewAck().
LEMMA NewAckKept ==
    ASSUME NEW c, Sound(c), Control(c), NEW r,
           NoDelay /\ Items(c.tx) # {} => c.timer \/ r \/ c.dropped
    PROVE  LET d == NewAck(c, r)
           IN  /\ Kept(c, d) /\ Control(d) /\ Armed(d)
               /\ d.tx = c.tx /\ d.out = c.out
<1> DEFINE more == SizeFrom(c.tx, c.tx.first) > 0
           d == NewAck(c, r)
<1>1. /\ DOMAIN d = DOMAIN c
      /\ d.tx = c.tx /\ d.highTx = c.highTx /\ d.out = c.out /\ d.recover = c.recover
      /\ d.dropped = c.dropped /\ d.dupAcks = c.dupAcks /\ d.cong = c.cong
      /\ d.recovering = c.recovering /\ d.retries = DataRetries
  BY DEF NewAck, Sound
<1>2. d.timer <=> (c.timer \/ r) /\ more
  BY DEF NewAck, Sound
<1>3. Board(c.tx) /\ Tiled(c.tx)
  BY DEF Sound, Board
<1>4. Items(c.tx) # {} => more
  <2> SUFFICES ASSUME Items(c.tx) # {} PROVE more
    OBVIOUS
  <2>1. c.tx.first < SentEnd(c.tx) /\ c.tx.first \in Nat /\ SentEnd(c.tx) \in Nat
    BY <1>3, HeadItem, ItemBounds DEF Tiled
  <2>2. c.tx.app \in Nat
    BY <1>3 DEF Board
  <2>3. SizeFrom(c.tx, c.tx.first) = TailSequence(c.tx) - c.tx.first
        /\ TailSequence(c.tx) = SentEnd(c.tx) + c.tx.app
    BY <1>3, <2>1, SizeFromIs
  <2> QED BY <2>1, <2>2, <2>3
<1> HIDE DEF d, more
<1> SUFFICES Kept(c, d) /\ Control(d) /\ Armed(d) /\ d.tx = c.tx /\ d.out = c.out
  BY DEF d
<1>5. DataRetries \in Nat /\ c.retries \in Nat /\ c.retries <= DataRetries
  BY SocketAssumption DEF Sound
<1>6. Sound(d)
  BY <1>1, <1>5 DEF Sound
<1>7. Kept(c, d)
  BY <1>1, <1>3, <1>5, <1>6, SteadySelf DEF Kept
<1>8. Control(d)
  BY <1>1 DEF Control
<1>9. Armed(d)
  BY <1>1, <1>2, <1>4 DEF Armed
<1> QED BY <1>1, <1>7, <1>8, <1>9

\* The end of ProcessAck().
LEMMA FullAckKept ==
    ASSUME NEW c, Sound(c), Control(c), Armed(c), NEW ack \in Nat, NEW isDupAck \in BOOLEAN,
           ~isDupAck => c.dupAcks = 0,
           c.cong \in {"RECOVERY", "LOSS"} => ack >= c.recover
    PROVE  LET d == FullAck(c, ack, isDupAck)
           IN  Kept(c, d) /\ Control(d) /\ Armed(d)
<1> DEFINE e == [c EXCEPT
                  !.cong = Settled(@, isDupAck),
                  !.firstPartial = @ \/ c.cong \in {"RECOVERY", "LOSS"},
                  !.dupAcks = IF c.cong = "RECOVERY" THEN 0 ELSE @,
                  !.recovering = @ /\ ack < c.recover]
           d == FullAck(c, ack, isDupAck)
<1>1. d = IF e.cong = "OPEN" THEN NewAck(e, TRUE) ELSE e
  BY DEF FullAck
<1>2. /\ DOMAIN e = DOMAIN c
      /\ e.tx = c.tx /\ e.highTx = c.highTx /\ e.out = c.out /\ e.recover = c.recover
      /\ e.dropped = c.dropped /\ e.timer = c.timer /\ e.retries = c.retries
      /\ e.cong = IF c.cong \in {"RECOVERY", "LOSS"} \/ ~isDupAck THEN "OPEN" ELSE c.cong
      /\ e.dupAcks = IF c.cong = "RECOVERY" THEN 0 ELSE c.dupAcks
  BY DEF Sound, Settled
<1>3. e.recovering <=> c.recovering /\ ack < c.recover
  BY DEF Sound
<1> HIDE DEF e, d
<1> SUFFICES Kept(c, d) /\ Control(d) /\ Armed(d)
  BY DEF d
<1>4. Sound(e)
  BY <1>2 DEF Sound
<1>5. Kept(c, e)
  <2>1. Steady(c.tx, c.tx) /\ c.retries \in Nat
    BY SteadySelf DEF Sound
  <2> QED BY <1>2, <1>4, <2>1 DEF Kept
<1>6. ~e.recovering
  <2>1. c.recover \in Nat
    BY DEF Sound
  <2> QED BY <1>3, <2>1 DEF Control
<1>7. Control(e)
  BY <1>2, <1>6 DEF Control
<1>8. Armed(e)
  BY <1>2 DEF Armed
<1>9. CASE e.cong = "OPEN"
  <2>1. d = NewAck(e, TRUE)
    BY <1>1, <1>9
  <2>2. Kept(e, d) /\ Control(d) /\ Armed(d)
    BY <1>4, <1>7, <2>1, NewAckKept
  <2> QED BY <1>5, <2>2, KeptThen
<1>10. CASE e.cong # "OPEN"
  BY <1>1, <1>5, <1>7, <1>8, <1>10
<1> QED BY <1>9, <1>10

\* ProcessAck().
LEMMA ProcessAckKept ==
    ASSUME NEW c, Sound(c), Control(c), Armed(c), NEW ack \in Nat, c.tx.first = ack,
           NEW isDupAck \in BOOLEAN, isDupAck => Items(c.tx) # {}, NEW oldHead
    PROVE  LET d == ProcessAck(c, ack, isDupAck, oldHead)
           IN  Kept(c, d) /\ Control(d) /\ Armed(d)
<1> DEFINE x == IF isDupAck THEN DupAck(c) ELSE c
           e == IF isDupAck THEN x ELSE [x EXCEPT !.dupAcks = 0]
           resent == IF IsRetransmittedDataAcked(e.tx, ack + SegmentSize) THEN e
                     ELSE DoRetransmit(e)
           newAck == NewAck(resent, e.firstPartial)
           d == ProcessAck(c, ack, isDupAck, oldHead)
<1>1. d = IF ack = oldHead THEN x
          ELSE IF ack < e.recover /\ e.cong = "RECOVERY"
          THEN [newAck EXCEPT !.firstPartial = FALSE]
          ELSE IF ack < e.recover /\ e.cong = "LOSS" THEN NewAck(e, TRUE)
          ELSE FullAck(e, ack, isDupAck)
  BY DEF ProcessAck
<1> SUFFICES Kept(c, d) /\ Control(d) /\ Armed(d)
  OBVIOUS
<1> HIDE DEF d
<1>2. Kept(c, c)
  <2>1. Steady(c.tx, c.tx) /\ c.retries \in Nat
    BY SteadySelf DEF Sound
  <2> QED BY <2>1 DEF Kept
<1>3. Kept(c, x) /\ Control(x) /\ Armed(x)
  BY <1>2, DupAckKept
<1>4. x = c \/ isDupAck
  OBVIOUS
<1> HIDE DEF x
<1>5. Kept(c, e) /\ Control(e) /\ Armed(e) /\ (~isDupAck => e.dupAcks = 0)
  <2>1. CASE isDupAck
    BY <1>3, <2>1
  <2>2. CASE ~isDupAck
    <3> DEFINE y == [x EXCEPT !.dupAcks = 0]
    <3>1. Sound(x)
      BY <1>3 DEF Kept
    <3>2. /\ DOMAIN y = DOMAIN x
          /\ y.tx = x.tx /\ y.highTx = x.highTx /\ y.out = x.out /\ y.recover = x.recover
          /\ y.dropped = x.dropped /\ y.timer = x.timer /\ y.retries = x.retries
          /\ y.cong = x.cong /\ y.recovering = x.recovering /\ y.dupAcks = 0
      BY <3>1 DEF Sound
    <3> HIDE DEF y
    <3>3. Sound(y)
      BY <3>1, <3>2 DEF Sound
    <3>4. Kept(c, y)
      BY <1>3, <3>2, <3>3 DEF Kept
    <3>5. Control(y)
      BY <1>3, <3>2, TxBufferAssumption DEF Control
    <3>6. Armed(y)
      BY <1>3, <3>2 DEF Armed
    <3>7. e = y
      BY <2>2 DEF y
    <3> QED BY <3>2, <3>4, <3>5, <3>6, <3>7
  <2> QED BY <2>1, <2>2
<1> HIDE DEF e
<1>6. Sound(e) /\ e.recover \in Nat /\ e.recover <= SentEnd(e.tx) /\ e.tx.first = ack
  BY <1>5 DEF Kept, Sound, Steady
<1>7. CASE ack = oldHead
  BY <1>1, <1>3, <1>7
<1>8. CASE ack # oldHead /\ ack < e.recover /\ e.cong = "RECOVERY"
  <2>1. Items(e.tx) # {}
    <3>1. Tiled(e.tx)
      BY <1>6 DEF Sound, Board
    <3>2. SentEnd(e.tx) \in Nat
      BY <3>1, ItemBounds
    <3>3. e.tx.first < SentEnd(e.tx)
      BY <1>6, <1>8, <3>2
    <3> QED BY <3>1, <3>3, HeadItem
  <2>2. Sends(e, resent)
    BY <1>6, <2>1, SendsSelf, DoRetransmitSends
  <2> HIDE DEF resent
  <2>3. Kept(e, resent) /\ Control(resent) /\ Armed(resent)
    BY <1>5, <1>6, <2>2, SendsKept
  <2>4. Sound(resent)
    BY <2>3 DEF Kept
  <2>5. NoDelay /\ Items(resent.tx) # {} => resent.timer \/ e.firstPartial \/ resent.dropped
    BY <2>3 DEF Armed
  <2>6. Kept(resent, newAck) /\ Control(newAck) /\ Armed(newAck)
    BY <2>3, <2>4, <2>5, NewAckKept
  <2> HIDE DEF newAck
  <2>7. Sound(newAck)
    BY <2>6 DEF Kept
  <2> DEFINE y == [newAck EXCEPT !.firstPartial = FALSE]
  <2>8. /\ DOMAIN y = DOMAIN newAck
        /\ y.tx = newAck.tx /\ y.highTx = newAck.highTx /\ y.out = newAck.out
        /\ y.recover = newAck.recover /\ y.dropped = newAck.dropped
        /\ y.timer = newAck.timer /\ y.retries = newAck.retries
        /\ y.cong = newAck.cong /\ y.recovering = newAck.recovering
        /\ y.dupAcks = newAck.dupAcks
    BY <2>7 DEF Sound
  <2>9. d = y
    BY <1>1, <1>8
  <2> HIDE DEF y
  <2>10. Sound(y)
    BY <2>7, <2>8 DEF Sound
  <2>11. Kept(resent, y) /\ Control(y) /\ Armed(y)
    BY <2>6, <2>8, <2>10 DEF Kept, Control, Armed
  <2>12. Kept(c, resent) /\ Sound(resent)
    BY <1>5, <2>3, <2>4, KeptThen
  <2>13. Kept(c, y)
    BY <2>11, <2>12, KeptThen
  <2> QED BY <2>9, <2>11, <2>13
<1>9. CASE ack # oldHead /\ ack < e.recover /\ e.cong = "LOSS"
  <2>1. d = NewAck(e, TRUE)
    BY <1>1, <1>9
  <2>2. Kept(e, d) /\ Control(d) /\ Armed(d)
    BY <1>5, <1>6, <2>1, NewAckKept
  <2> QED BY <1>5, <2>2, KeptThen
<1>10. CASE ack # oldHead /\ ~(ack < e.recover /\ e.cong \in {"RECOVERY", "LOSS"})
  <2>1. d = FullAck(e, ack, isDupAck)
    BY <1>1, <1>10
  <2>2. e.cong \in {"RECOVERY", "LOSS"} => ack >= e.recover
    BY <1>6, <1>10
  <2>3. Kept(e, d) /\ Control(d) /\ Armed(d)
    BY <1>5, <1>6, <2>1, <2>2, FullAckKept
  <2> QED BY <1>5, <2>3, KeptThen
<1> QED BY <1>7, <1>8, <1>9, <1>10


\* ReceivedAck(), for an ACK of what was sent whose blocks lie beyond it, and
\* whose number is not in what was marked before.
LEMMA ReceivedAckKeeps ==
    ASSUME NEW c, Sound(c), Control(c), Armed(c),
           NEW H, NEW a, a.ack \in Nat, a.sack \in Seq(Blocks(H, a.ack)),
           c.tx.first <= a.ack, a.ack <= SentEnd(c.tx),
           a.ack \notin Span(c.tx, Sacked(c.tx))
    PROVE  LET d == ReceivedAck(c, a)
           IN  /\ Sound(d) /\ Control(d) /\ Armed(d)
               /\ d.retries >= c.retries /\ d.dropped = c.dropped
               /\ d.tx.first = a.ack
               /\ SentEnd(c.tx) <= SentEnd(d.tx)
               /\ TailSequence(d.tx) = TailSequence(c.tx)
               /\ \A x \in Span(d.tx, Sacked(d.tx)) :
                     \/ x \in Span(c.tx, Sacked(c.tx))
                     \/ \E b \in Blocks(H, a.ack) : x \in b[1] .. b[2] - 1
<1> DEFINE B == Blocks(H, a.ack)
           s == a.ack
           marked == Update(c.tx, a.sack)
           left == DiscardUpTo(marked, a.ack)
           dup == marked.sackedOut > c.tx.sackedOut
           e == [c EXCEPT !.tx = left]
           d == ReceivedAck(c, a)
           Old == Span(c.tx, Sacked(c.tx))
           Covered(x) == x \in Old \/ \E b \in B : x \in b[1] .. b[2] - 1
<1>1. d = ProcessAck(e, a.ack, dup, c.tx.first)
  BY DEF ReceivedAck
<1>2. Board(c.tx) /\ Tiled(c.tx) /\ Small(c.tx) /\ c.tx.first \notin Sacked(c.tx)
  BY DEF Sound, Board
<1>3. c.tx.first \in Nat \ {0} /\ SentEnd(c.tx) \in Nat
  BY <1>2, ItemBounds DEF Tiled
<1>4. B \in SUBSET (Nat \X Nat) /\ \A b \in B : b[1] > s
  BY DEF Blocks
<1>5. \A b \in B : b[1] > c.tx.first
  BY <1>3, <1>4
<1>6. a.sack \in Seq(B)
  OBVIOUS
<1> HIDE DEF B
<1>7. /\ Noted(c.tx, marked) /\ Within(c.tx, marked, B)
      /\ c.tx.first \notin Sacked(marked)
      /\ marked.sackedOut # c.tx.sackedOut => Sacked(marked) # Sacked(c.tx)
  BY <1>2, <1>4, <1>5, <1>6, UpdateNoted
<1> HIDE DEF marked
<1>8. /\ Board(marked) /\ Tiled(marked) /\ marked.first = c.tx.first
      /\ SentEnd(marked) = SentEnd(c.tx) /\ TailSequence(marked) = TailSequence(c.tx)
      /\ Small(marked)
      /\ \A k \in Items(c.tx) : End(marked, k) = End(c.tx, k)
  BY <1>2, <1>7, NotedEnds DEF Noted, Board
<1>9. ASSUME NEW x \in Span(marked, Sacked(marked)) PROVE Covered(x)
  <2>1. PICK k \in Sacked(marked) : x \in k .. End(marked, k) - 1
    BY <1>9, SpanIs
  <2>2. k \in Items(c.tx)
    BY <1>7 DEF Sacked, Noted
  <2>3. End(marked, k) = End(c.tx, k) /\ k \in Nat /\ End(c.tx, k) \in Nat
    BY <1>2, <1>8, <2>2, ItemBounds
  <2>4. CASE k \in Sacked(c.tx)
    BY <2>1, <2>3, <2>4, SpanIs
  <2>5. CASE k \notin Sacked(c.tx)
    <3>1. PICK b \in B : b[1] <= k /\ End(c.tx, k) <= b[2]
      BY <1>7, <2>5 DEF Within
    <3>2. b[1] \in Nat /\ b[2] \in Nat
      BY <1>4
    <3>3. x \in b[1] .. b[2] - 1
      BY <2>1, <2>3, <3>1, <3>2
    <3> QED BY <3>3
  <2> QED BY <2>4, <2>5
<1>10. s \notin Span(marked, Sacked(marked))
  <2> SUFFICES ASSUME Covered(s) PROVE FALSE
    BY <1>9
  <2>1. PICK b \in B : s \in b[1] .. b[2] - 1
    OBVIOUS
  <2> QED BY <1>4, <2>1
<1>11. /\ Board(left) /\ left.first = s
       /\ SentEnd(left) = SentEnd(c.tx) /\ TailSequence(left) = TailSequence(c.tx)
       /\ Span(left, Sacked(left)) = {x \in Span(marked, Sacked(marked)) : x >= left.first}
       /\ Small(left)
  <2>1. /\ Board(left) /\ left.first = IF marked.first >= s THEN marked.first ELSE s
        /\ SentEnd(left) = SentEnd(marked) /\ TailSequence(left) = TailSequence(marked)
        /\ Span(left, Sacked(left)) = {x \in Span(marked, Sacked(marked)) : x >= left.first}
        /\ Small(left)
    BY <1>8, DiscardUpToBoard
  <2>2. left.first = s
    BY <1>3, <1>8, <2>1
  <2> QED BY <1>8, <2>1, <2>2
<1> HIDE DEF left
<1>12. Tiled(left) /\ left.first \notin Sacked(left)
  <2>1. Tiled(left)
    BY <1>11 DEF Board
  <2>2. left.first \notin Span(left, Sacked(left))
    BY <1>10, <1>11
  <2> QED BY <2>1, <2>2, HeadSacked
<1>13. /\ DOMAIN e = DOMAIN c
       /\ e.tx = left /\ e.highTx = c.highTx /\ e.out = c.out /\ e.recover = c.recover
       /\ e.dropped = c.dropped /\ e.timer = c.timer /\ e.retries = c.retries
       /\ e.cong = c.cong /\ e.dupAcks = c.dupAcks /\ e.recovering = c.recovering
  BY DEF Sound
<1> HIDE DEF e
<1>14. Sound(e)
  <2>1. e.out \subseteq Pieces(e.tx)
    BY <1>11, <1>13 DEF Sound, Pieces
  <2> QED BY <1>11, <1>12, <1>13, <2>1 DEF Sound
<1>15. Control(e)
  BY <1>13 DEF Control
<1>16. Items(e.tx) # {} => Items(c.tx) # {}
  <2> SUFFICES ASSUME Items(left) # {} PROVE Items(c.tx) # {}
    BY <1>13
  <2>1. left.first < SentEnd(left)
    BY <1>12, HeadItem
  <2>2. c.tx.first < SentEnd(c.tx)
    BY <1>3, <1>11, <2>1
  <2> QED BY <1>2, <2>2, HeadItem
<1>17. Armed(e)
  BY <1>13, <1>16 DEF Armed
<1>18. dup => Items(e.tx) # {}
  <2> SUFFICES ASSUME dup PROVE Items(left) # {}
    BY <1>13
  <2>1. Sacked(marked) # Sacked(c.tx)
    <3>1. marked.sackedOut \in Nat /\ c.tx.sackedOut \in Nat
      BY <1>2, <1>8, InFlightType
    <3> QED BY <1>7, <3>1
  <2>2. PICK k \in Sacked(marked) : k \notin Sacked(c.tx)
    BY <1>7, <2>1 DEF Noted
  <2>3. k \in Items(c.tx)
    BY <1>7 DEF Sacked, Noted
  <2>4. PICK b \in B : b[1] <= k
    BY <1>7, <2>2 DEF Within
  <2>5. b[1] \in Nat /\ b[1] > s
    BY <1>4
  <2>6. k \in Nat /\ k < End(c.tx, k) /\ End(c.tx, k) <= SentEnd(c.tx) /\ End(c.tx, k) \in Nat
    BY <1>2, <2>3, ItemBounds
  <2>7. left.first < SentEnd(left)
    BY <1>3, <1>11, <2>4, <2>5, <2>6
  <2> QED BY <1>12, <2>7, HeadItem
<1>19. dup \in BOOLEAN
  OBVIOUS
<1> HIDE DEF dup, d
<1> SUFFICES /\ Sound(d) /\ Control(d) /\ Armed(d)
             /\ d.retries >= c.retries /\ d.dropped = c.dropped
             /\ d.tx.first = s
             /\ SentEnd(c.tx) <= SentEnd(d.tx)
             /\ TailSequence(d.tx) = TailSequence(c.tx)
             /\ \A x \in Span(d.tx, Sacked(d.tx)) : Covered(x)
  BY DEF d, B
<1>20. Kept(e, d) /\ Control(d) /\ Armed(d)
  <2>1. e.tx.first = a.ack
    BY <1>11, <1>13
  <2> QED BY <1>1, <1>14, <1>15, <1>17, <1>18, <1>19, <2>1, ProcessAckKept
<1>21. /\ Sound(d) /\ d.retries >= e.retries /\ d.dropped = e.dropped
       /\ d.tx.first = e.tx.first /\ SentEnd(e.tx) <= SentEnd(d.tx)
       /\ TailSequence(d.tx) = TailSequence(e.tx)
       /\ Span(d.tx, Sacked(d.tx)) = Span(e.tx, Sacked(e.tx))
  BY <1>20 DEF Kept, Steady
<1>22. \A x \in Span(d.tx, Sacked(d.tx)) : Covered(x)
  <2> SUFFICES ASSUME NEW x \in Span(d.tx, Sacked(d.tx)) PROVE Covered(x)
    OBVIOUS
  <2>1. x \in Span(left, Sacked(left))
    BY <1>13, <1>21
  <2>2. x \in Span(marked, Sacked(marked))
    BY <1>11, <2>1
  <2> QED BY <1>9, <2>2
<1> QED BY <1>11, <1>13, <1>20, <1>21, <1>22


\* After a timeout the head is to be sent again.
LEMMA TimeoutNext ==
    ASSUME NEW tx, Tiled(tx), tx.first \notin Sacked(tx), Items(tx) # {},
           Resent(tx) = {}, Lost(tx) = Items(tx) \ Sacked(tx)
    PROVE  NextSeg(tx, FALSE) # {}
<1> DEFINE waiting == Items(tx) \ (Resent(tx) \cup Sacked(tx))
           lost == waiting \cap Lost(tx)
<1>1. tx.first \in Items(tx)
  BY HeadItem
<1>2. lost # {}
  BY <1>1
<1> QED BY <1>2 DEF NextSeg

\* ReTxTimeout(), when there is something to send and a retry is left.
LEMMA ExpiredKeeps ==
    ASSUME NEW c, Sound(c), c.retries # 0, SizeFrom(c.tx, c.tx.first) # 0
    PROVE  LET d == Expired(c)
           IN  /\ Sound(d) /\ Control(d) /\ Armed(d)
               /\ Steady(c.tx, d.tx) /\ d.dropped = c.dropped
               /\ BytesInFlight(d.tx) <= SegmentSize
<1> DEFINE q == SetSentListLost(c.tx)
           e == [c EXCEPT !.retries = @ - 1, !.dupAcks = 0, !.tx = q,
                          !.recover = c.highTx, !.recovering = TRUE, !.cong = "LOSS"]
           d == Expired(c)
<1>1. d = SendPendingData(e, SegmentSize)
  BY DEF Expired
<1>2. Board(c.tx) /\ c.tx.first \notin Sacked(c.tx) /\ Small(c.tx) /\ Tiled(c.tx)
  BY DEF Sound, Board
<1>3. Noted(c.tx, q) /\ BytesInFlight(q) = 0 /\ Sacked(q) = Sacked(c.tx)
      /\ Resent(q) = {} /\ Lost(q) = Items(c.tx) \ Sacked(c.tx)
  BY <1>2, SetSentListLostNoted
<1> HIDE DEF q
<1>4. /\ Steady(c.tx, q) /\ SentEnd(q) = SentEnd(c.tx) /\ TailSequence(q) = TailSequence(c.tx)
      /\ Small(q) /\ Items(q) = Items(c.tx) /\ q.first = c.tx.first
  BY <1>2, <1>3, NotedSteady, NotedEnds DEF Noted
<1>5. /\ DOMAIN e = DOMAIN c
      /\ e.tx = q /\ e.highTx = c.highTx /\ e.out = c.out /\ e.recover = c.highTx
      /\ e.retries = c.retries - 1 /\ e.dropped = c.dropped /\ e.dupAcks = 0
      /\ e.cong = "LOSS" /\ e.recovering = TRUE
  BY DEF Sound
<1> HIDE DEF e, d
<1> SUFFICES /\ Sound(d) /\ Control(d) /\ Armed(d)
             /\ Steady(c.tx, d.tx) /\ d.dropped = c.dropped
             /\ BytesInFlight(d.tx) <= SegmentSize
  BY DEF d
<1>6. SentEnd(c.tx) \in Nat /\ c.highTx = SentEnd(c.tx)
      /\ c.retries \in Nat /\ c.retries <= DataRetries /\ DataRetries \in Nat
  BY <1>2, ItemBounds, SocketAssumption DEF Sound
<1>7. e.recover \in Nat /\ e.recover <= e.highTx /\ e.retries \in Nat /\ e.retries <= DataRetries
  BY <1>5, <1>6
<1>8. Sound(e)
  BY <1>4, <1>5, <1>7, SoundWith
<1>9. Control(e)
  BY <1>5 DEF Control
<1>10. SegmentSize \in Nat \ {0}
  BY TxBufferAssumption
<1>11. /\ Sends(e, d)
       /\ BytesInFlight(e.tx) <= SegmentSize => BytesInFlight(d.tx) <= SegmentSize
       /\ (/\ NoDelay /\ AvailableWindow(e, SegmentSize) >= SegmentSize
           /\ NextSeg(e.tx, e.cong = "RECOVERY") # {}
           /\ SizeFrom(e.tx, e.tx.first) > 0) => d.timer
  BY <1>1, <1>8, <1>10, SendPendingDataSends
<1>12. BytesInFlight(d.tx) <= SegmentSize
  BY <1>3, <1>5, <1>10, <1>11
<1>13. Sound(d) /\ Control(d) /\ d.dropped = c.dropped
  BY <1>5, <1>8, <1>9, <1>11, SendsKept DEF Sends, SameState
<1>14. Steady(c.tx, d.tx)
  <2>1. Steady(e.tx, d.tx)
    BY <1>11 DEF Sends
  <2> QED BY <1>2, <1>4, <1>5, <2>1, SteadyThen
<1>15. Armed(d)
  <2>1. CASE Items(e.tx) = {} \/ ~NoDelay
    BY <1>11, <2>1 DEF Sends, Armed
  <2>2. CASE Items(e.tx) # {} /\ NoDelay
    <3>1. AvailableWindow(e, SegmentSize) >= SegmentSize
      BY <1>3, <1>5, <1>10, MaxOfTwoInts DEF AvailableWindow
    <3>2. Tiled(q) /\ q.first \notin Sacked(q) /\ Items(q) # {}
      BY <1>5, <1>8, <2>2 DEF Sound, Board
    <3>3. NextSeg(e.tx, e.cong = "RECOVERY") # {}
      <4>1. NextSeg(q, FALSE) # {}
        BY <1>3, <1>4, <3>2, TimeoutNext
      <4>2. (e.cong = "RECOVERY") = FALSE
        BY <1>5
      <4> QED BY <1>5, <4>1, <4>2
    <3>4. SizeFrom(e.tx, e.tx.first) > 0
      <4>1. SizeFrom(e.tx, e.tx.first) = SizeFrom(c.tx, c.tx.first)
        BY <1>4, <1>5 DEF SizeFrom
      <4>2. SizeFrom(c.tx, c.tx.first) \in Nat
        <5>1. c.tx.first \in Nat /\ c.tx.first <= SentEnd(c.tx) /\ c.tx.app \in Nat
          BY <1>2, ItemBounds DEF Tiled, Board
        <5> QED BY <1>2, <5>1, SizeFromIs
      <4> QED BY <4>1, <4>2
    <3> QED BY <1>11, <2>2, <3>1, <3>3, <3>4 DEF Armed
  <2> QED BY <2>1, <2>2
<1> QED BY <1>12, <1>13, <1>14, <1>15

-----------------------------------------------------------------------------
(* The two ends, and what is in flight between them.                       *)

\* The bytes an ACK reports beyond the one expected next.
Marks(a) == UNION {a.sack[i][1] .. a.sack[i][2] - 1 : i \in 1 .. Len(a.sack)}

\* The receiver b has, or had, what the ACK says.
Truthful(a, b) ==
    /\ a.ack \in Nat /\ a.ack <= b.next
    /\ Marks(a) \subseteq Got(b)
    /\ a.sack \in Seq(Blocks(Marks(a), a.ack))

\* A byte that was expected when a later ACK was sent was not reported by an
\* earlier one.
Ordered(as) == \A a, b \in as : b.ack <= a.ack => a.ack \notin Marks(b)

\* The sender tx crossed off what the receiver b has, which has what was sent.
Behind(tx, b) ==
    /\ Got(b) \subseteq 1 .. SentEnd(tx) - 1
    /\ tx.first <= b.next
    /\ Span(tx, Sacked(tx)) \subseteq Got(b)

\* No ACK that is still of use expects a byte that is marked sacked.
Ahead(as, tx) ==
    \A a \in as : tx.first <= a.ack => a.ack \notin Span(tx, Sacked(tx))

Linked(tx, b, segs, as) ==
    /\ segs \subseteq Pieces(tx)
    /\ Behind(tx, b)
    /\ \A a \in as : Truthful(a, b)
    /\ Ordered(as) /\ Ahead(as, tx)

LEMMA LinkedFewer ==
    ASSUME NEW tx, NEW b, NEW segs, NEW as, Linked(tx, b, segs, as),
           NEW segs2, segs2 \subseteq segs \cup Pieces(tx), NEW as2, as2 \subseteq as
    PROVE  Linked(tx, b, segs2, as2)
<1>1. segs2 \subseteq Pieces(tx) /\ Behind(tx, b) /\ \A a \in as2 : Truthful(a, b)
  BY DEF Linked
<1>2. Ordered(as2)
  BY DEF Linked, Ordered
<1>3. Ahead(as2, tx)
  BY DEF Linked, Ahead
<1> QED BY <1>1, <1>2, <1>3 DEF Linked

\* The sender goes on.
LEMMA LinkedSender ==
    ASSUME NEW tx, Tiled(tx), NEW q, Tiled(q), NEW b, NEW segs, NEW as,
           Linked(tx, b, segs, as),
           q.first = tx.first, SentEnd(tx) <= SentEnd(q),
           Span(q, Sacked(q)) = Span(tx, Sacked(tx))
    PROVE  Linked(q, b, segs, as) /\ Pieces(tx) \subseteq Pieces(q)
<1>1. SentEnd(tx) \in Nat /\ SentEnd(q) \in Nat
  BY ItemBounds
<1>2. Pieces(tx) \subseteq Pieces(q)
  BY <1>1 DEF Pieces
<1>3. Behind(tx, b)
  BY DEF Linked
<1>4. Got(b) \subseteq 1 .. SentEnd(q) - 1
  <2> SUFFICES ASSUME NEW x \in Got(b) PROVE x \in 1 .. SentEnd(q) - 1
    OBVIOUS
  <2>1. x \in 1 .. SentEnd(tx) - 1
    BY <1>3 DEF Behind
  <2> QED BY <1>1, <2>1
<1>5. Behind(q, b)
  <2>1. q.first <= b.next
    BY <1>3 DEF Behind
  <2>2. Span(tx, Sacked(tx)) \subseteq Got(b)
    BY <1>3 DEF Behind
  <2>3. Span(q, Sacked(q)) \subseteq Got(b)
    BY <2>2
  <2> QED BY <1>4, <2>1, <2>3 DEF Behind
<1>6. Ahead(as, q)
  <2>1. Ahead(as, tx)
    BY DEF Linked
  <2> QED BY <2>1 DEF Ahead
<1>7. segs \subseteq Pieces(q) /\ (\A a \in as : Truthful(a, b)) /\ Ordered(as)
  BY <1>2 DEF Linked
<1> QED BY <1>2, <1>5, <1>6, <1>7 DEF Linked

\* The receiver gets bytes that were sent, or hands some over.
LEMMA LinkedReceiver ==
    ASSUME NEW tx, Tiled(tx), NEW b, NEW segs, NEW as, Linked(tx, b, segs, as),
           b.next \in Nat, NEW q, q.next \in Nat, q.next >= b.next,
           Got(b) \subseteq Got(q), Got(q) \subseteq 1 .. SentEnd(tx) - 1
    PROVE  Linked(tx, q, segs, as)
<1>1. Behind(tx, q)
  <2>1. tx.first <= b.next /\ tx.first \in Nat
    BY DEF Linked, Behind, Tiled
  <2>2. tx.first <= q.next
    BY <2>1
  <2>3. Span(tx, Sacked(tx)) \subseteq Got(q)
    BY DEF Linked, Behind
  <2> QED BY <2>2, <2>3 DEF Behind
<1>2. ASSUME NEW a \in as PROVE Truthful(a, q)
  <2>1. Truthful(a, b)
    BY DEF Linked
  <2>2. a.ack <= q.next
    BY <2>1 DEF Truthful
  <2>3. Marks(a) \subseteq Got(q)
    BY <2>1 DEF Truthful
  <2> QED BY <2>1, <2>2, <2>3 DEF Truthful
<1>3. segs \subseteq Pieces(tx) /\ Ordered(as) /\ Ahead(as, tx)
  BY DEF Linked
<1> QED BY <1>1, <1>2, <1>3 DEF Linked

LEMMA NextMissing ==
    ASSUME NEW b, NEW r, Whole(b, r)
    PROVE  b.next \in Nat \ {0} /\ b.next \notin Got(b)
BY DEF Whole, Got

\* The receiver is never ahead of what was sent.
LEMMA NextSent ==
    ASSUME NEW tx, Tiled(tx), NEW b, NEW r, Whole(b, r), Got(b) \subseteq 1 .. SentEnd(tx) - 1
    PROVE  b.next <= SentEnd(tx)
<1>1. b.next \in Nat /\ SentEnd(tx) \in Nat /\ tx.first \in Nat \ {0} /\ tx.first <= SentEnd(tx)
  BY ItemBounds DEF Whole, Tiled
<1>2. CASE b.next > 1
  <2>1. b.next - 1 \in Got(b)
    BY <1>1, <1>2 DEF Got
  <2> QED BY <1>1, <2>1
<1> QED BY <1>1, <1>2

\* The blocks of an ACK cover its marks and nothing else.
LEMMA MarksIs ==
    ASSUME NEW a, NEW H, NEW s, a.sack \in Seq(Blocks(H, s))
    PROVE  /\ Marks(a) \subseteq H
           /\ a.sack \in Seq(Blocks(Marks(a), s))
<1>1. \A i \in 1 .. Len(a.sack) : a.sack[i] \in Blocks(H, s)
  BY ElementOfSeq
<1>2. Marks(a) \subseteq H
  BY <1>1 DEF Marks, Blocks
<1>3. \A i \in 1 .. Len(a.sack) : a.sack[i] \in Blocks(Marks(a), s)
  BY <1>1 DEF Marks, Blocks
<1>4. Len(a.sack) \in Nat /\ a.sack = [i \in 1 .. Len(a.sack) |-> a.sack[i]]
  OBVIOUS
<1>5. a.sack \in Seq(Blocks(Marks(a), s))
  BY <1>3, <1>4, SeqDef
<1> QED BY <1>2, <1>5

\* The receiver sends an ACK.
LEMMA LinkedAck ==
    ASSUME NEW tx, NEW b, NEW r, Whole(b, r), NEW segs, NEW as, Linked(tx, b, segs, as),
           NEW n, n.ack = b.next, n.sack = b.sack, NEW as2, as2 \subseteq as \cup {n}
    PROVE  Linked(tx, b, segs, as2)
<1>1. b.next \in Nat /\ b.next \notin Got(b) /\ b.sack \in Seq(Blocks(Stored(b), b.next))
  BY NextMissing DEF Whole
<1>2. Truthful(n, b)
  <2>1. n.sack \in Seq(Blocks(Stored(b), n.ack))
    BY <1>1
  <2>2. Marks(n) \subseteq Stored(b) /\ n.sack \in Seq(Blocks(Marks(n), n.ack))
    BY <2>1, MarksIs
  <2>3. Marks(n) \subseteq Got(b)
    BY <2>2 DEF Got
  <2> QED BY <1>1, <2>2, <2>3 DEF Truthful
<1>3. \A a \in as2 : Truthful(a, b)
  BY <1>2 DEF Linked
<1>4. Ordered(as2)
  <2> SUFFICES ASSUME NEW x \in as2, NEW y \in as2, y.ack <= x.ack PROVE x.ack \notin Marks(y)
    BY DEF Ordered
  <2>1. Truthful(x, b) /\ Truthful(y, b)
    BY <1>3
  <2>2. CASE x.ack = b.next
    BY <1>1, <2>1, <2>2 DEF Truthful
  <2>3. CASE x.ack # b.next
    <3>1. y.ack # b.next
      BY <1>1, <2>1, <2>3 DEF Truthful
    <3>2. x \in as /\ y \in as
      BY <2>3, <3>1
    <3> QED BY <3>2 DEF Linked, Ordered
  <2> QED BY <2>2, <2>3
<1>5. Ahead(as2, tx)
  <2> SUFFICES ASSUME NEW x \in as2, tx.first <= x.ack PROVE x.ack \notin Span(tx, Sacked(tx))
    BY DEF Ahead
  <2>1. CASE x.ack = b.next
    BY <1>1, <2>1 DEF Linked, Behind
  <2>2. CASE x.ack # b.next
    <3>1. x \in as
      BY <2>2
    <3> QED BY <3>1 DEF Linked, Ahead
  <2> QED BY <2>1, <2>2
<1>6. segs \subseteq Pieces(tx) /\ Behind(tx, b)
  BY DEF Linked
<1> QED BY <1>3, <1>4, <1>5, <1>6 DEF Linked

\* The sender gets the ACK a: what it expects next becomes the head.
LEMMA LinkedHead ==
    ASSUME NEW tx, Tiled(tx), NEW b, NEW segs, NEW as, Linked(tx, b, segs, as),
           NEW a \in as, tx.first <= a.ack,
           NEW q, Tiled(q), q.first = a.ack, SentEnd(tx) <= SentEnd(q),
           \A x \in Span(q, Sacked(q)) : x \in Span(tx, Sacked(tx)) \/ x \in Marks(a)
    PROVE  Linked(q, b, segs, as) /\ Pieces(tx) \subseteq Pieces(q)
<1>1. SentEnd(tx) \in Nat /\ SentEnd(q) \in Nat /\ tx.first \in Nat
  BY ItemBounds DEF Tiled
<1>2. Pieces(tx) \subseteq Pieces(q)
  BY <1>1 DEF Pieces
<1>3. Behind(tx, b) /\ Truthful(a, b)
  BY DEF Linked
<1>4. Got(b) \subseteq 1 .. SentEnd(q) - 1
  <2> SUFFICES ASSUME NEW x \in Got(b) PROVE x \in 1 .. SentEnd(q) - 1
    OBVIOUS
  <2>1. x \in 1 .. SentEnd(tx) - 1
    BY <1>3 DEF Behind
  <2> QED BY <1>1, <2>1
<1>5. Behind(q, b)
  <2>1. q.first <= b.next
    BY <1>3 DEF Truthful
  <2>2. Span(tx, Sacked(tx)) \subseteq Got(b) /\ Marks(a) \subseteq Got(b)
    BY <1>3 DEF Behind, Truthful
  <2>3. Span(q, Sacked(q)) \subseteq Got(b)
    BY <2>2
  <2> QED BY <1>4, <2>1, <2>3 DEF Behind
<1>6. Ahead(as, q)
  <2> SUFFICES ASSUME NEW c \in as, q.first <= c.ack PROVE c.ack \notin Span(q, Sacked(q))
    BY DEF Ahead
  <2>1. a.ack \in Nat /\ c.ack \in Nat
    BY DEF Linked, Truthful
  <2>2. c.ack \notin Marks(a)
    BY DEF Linked, Ordered
  <2>3. tx.first <= c.ack
    BY <1>1, <2>1
  <2>4. c.ack \notin Span(tx, Sacked(tx))
    BY <2>3 DEF Linked, Ahead
  <2> QED BY <2>2, <2>4
<1>7. segs \subseteq Pieces(q) /\ (\A c \in as : Truthful(c, b)) /\ Ordered(as)
  BY <1>2 DEF Linked
<1> QED BY <1>2, <1>5, <1>6, <1>7 DEF Linked


\* The network.
LEMMA CarriedFrom ==
    ASSUME NEW flight, NEW new, NEW f \in Carried(flight, new)
    PROVE  f \subseteq flight \cup new
BY DEF Carried

\* Between two handlers.
Rests(c) == Sound(c) /\ Control(c) /\ Armed(c) /\ c.out = {}

Quiet(c) == [c EXCEPT !.out = {}]

\* A handler ends in c.
LEMMA QuietRests ==
    ASSUME NEW c, Sound(c), Control(c), Armed(c),
           NEW b, NEW segs, NEW as, Linked(c.tx, b, segs, as), NEW f \in Carried(segs, c.out)
    PROVE  LET d == Quiet(c)
           IN  /\ Rests(d) /\ Linked(d.tx, b, f, as)
               /\ d.tx = c.tx /\ d.retries = c.retries
<1> DEFINE d == Quiet(c)
<1>1. /\ DOMAIN d = DOMAIN c
      /\ d.tx = c.tx /\ d.highTx = c.highTx /\ d.out = {} /\ d.recover = c.recover
      /\ d.dropped = c.dropped /\ d.timer = c.timer /\ d.retries = c.retries
      /\ d.cong = c.cong /\ d.recovering = c.recovering /\ d.dupAcks = c.dupAcks
  BY DEF Quiet, Sound
<1> HIDE DEF d
<1>2. Sound(d)
  BY <1>1 DEF Sound
<1>3. Rests(d)
  BY <1>1, <1>2 DEF Rests, Control, Armed
<1>4. f \subseteq segs \cup c.out
  BY CarriedFrom
<1>5. f \subseteq segs \cup Pieces(c.tx)
  BY <1>4 DEF Sound
<1>6. Linked(c.tx, b, f, as)
  BY <1>5, LinkedFewer
<1> QED BY <1>1, <1>3, <1>6 DEF d

\* SendPendingData() at the end of a handler.
LEMMA SendLinked ==
    ASSUME NEW c, Sound(c), Control(c), Armed(c),
           NEW b, NEW segs, NEW as, Linked(c.tx, b, segs, as), NEW w \in Nat
    PROVE  LET d == SendPendingData(c, w)
           IN  /\ Sound(d) /\ Control(d) /\ Armed(d) /\ Linked(d.tx, b, segs, as)
               /\ TailSequence(d.tx) = TailSequence(c.tx)
               /\ d.retries = c.retries
<1> DEFINE d == SendPendingData(c, w)
<1>1. Sends(c, d)
  BY SendPendingDataSends
<1> HIDE DEF d
<1>2. Sound(d) /\ Control(d) /\ Armed(d)
  BY <1>1, SendsKept DEF Kept
<1>3. Steady(c.tx, d.tx) /\ d.retries = c.retries
  BY <1>1 DEF Sends, SameState
<1>4. Tiled(c.tx) /\ Tiled(d.tx)
  BY <1>2 DEF Sound, Board
<1>5. Linked(d.tx, b, segs, as)
  BY <1>3, <1>4, LinkedSender DEF Steady
<1> QED BY <1>2, <1>3, <1>5 DEF d, Steady

\* The invariant of a connection.
CInv ==
    /\ Rests(snd)
    /\ written \in Nat /\ written <= MaxBytes /\ TailSequence(snd.tx) = written + 1
    /\ Whole(rx, read)
    /\ Linked(snd.tx, rx, segments, acks)

LEMMA ReceiveAckKeeps ==
    ASSUME CInv, NEW a \in acks, ReceiveAck(a)
    PROVE  CInv' /\ snd'.retries >= snd.retries
<1>1. UNCHANGED <<written, rx, read>> /\ acks' = acks \ {a}
  BY DEF ReceiveAck, receiver
<1>2. snd.retries \in Nat
  BY DEF CInv, Rests, Sound
<1>3. CASE UNCHANGED <<snd, segments>>
  <2>1. Linked(snd.tx, rx, segments, acks \ {a})
    BY LinkedFewer DEF CInv
  <2>2. CInv'
    BY <1>1, <1>3, <2>1 DEF CInv
  <2> QED BY <1>2, <1>3, <2>2
<1>4. ASSUME a.ack >= snd.tx.first, NEW w \in CWnds,
             Sent(SendPendingData(ReceivedAck(snd, a), w))
      PROVE  CInv' /\ snd'.retries >= snd.retries
  <2> DEFINE c == ReceivedAck(snd, a)
             d == SendPendingData(c, w)
  <2>1. Sound(snd) /\ Control(snd) /\ Armed(snd) /\ Tiled(snd.tx)
    BY DEF CInv, Rests, Sound, Board
  <2>2. /\ Linked(snd.tx, rx, segments, acks) /\ Whole(rx, read)
        /\ Truthful(a, rx) /\ Ahead(acks, snd.tx) /\ Behind(snd.tx, rx)
    BY DEF CInv, Linked
  <2>3. /\ a.ack \in Nat /\ a.sack \in Seq(Blocks(Marks(a), a.ack))
        /\ snd.tx.first \in Nat /\ snd.tx.first <= a.ack
    BY <1>4, <2>1, <2>2 DEF Truthful, Tiled
  <2>4. a.ack <= SentEnd(snd.tx)
    <3>1. rx.next <= SentEnd(snd.tx)
      BY <2>1, <2>2, NextSent DEF Behind
    <3>2. rx.next \in Nat /\ SentEnd(snd.tx) \in Nat /\ a.ack <= rx.next
      BY <2>1, <2>2, ItemBounds DEF Whole, Truthful
    <3> QED BY <2>3, <3>1, <3>2
  <2>5. a.ack \notin Span(snd.tx, Sacked(snd.tx))
    BY <2>2, <2>3 DEF Ahead
  <2>6. /\ Sound(c) /\ Control(c) /\ Armed(c)
        /\ c.retries >= snd.retries
        /\ c.tx.first = a.ack
        /\ SentEnd(snd.tx) <= SentEnd(c.tx)
        /\ TailSequence(c.tx) = TailSequence(snd.tx)
        /\ \A x \in Span(c.tx, Sacked(c.tx)) :
              x \in Span(snd.tx, Sacked(snd.tx))
              \/ \E b \in Blocks(Marks(a), a.ack) : x \in b[1] .. b[2] - 1
    BY <2>1, <2>3, <2>4, <2>5, ReceivedAckKeeps
  <2> HIDE DEF c
  <2>7. \A x \in Span(c.tx, Sacked(c.tx)) : x \in Span(snd.tx, Sacked(snd.tx)) \/ x \in Marks(a)
    BY <2>6 DEF Blocks
  <2>8. Tiled(c.tx)
    BY <2>6 DEF Sound, Board
  <2>9. Linked(c.tx, rx, segments, acks)
    BY <2>1, <2>2, <2>3, <2>6, <2>7, <2>8, LinkedHead
  <2>10. w \in Nat
    BY SocketAssumption
  <2>11. /\ Sound(d) /\ Control(d) /\ Armed(d) /\ Linked(d.tx, rx, segments, acks)
         /\ TailSequence(d.tx) = TailSequence(c.tx)
         /\ d.retries = c.retries
    BY <2>6, <2>9, <2>10, SendLinked
  <2>12. snd' = Quiet(d) /\ segments' \in Carried(segments, d.out)
    BY <1>4 DEF Sent, Quiet, c
  <2> HIDE DEF d
  <2>13. /\ Rests(snd') /\ Linked(snd'.tx, rx, segments', acks)
         /\ snd'.tx = d.tx /\ snd'.retries = d.retries
    BY <2>11, <2>12, QuietRests
  <2>14. Linked(snd'.tx, rx, segments', acks')
    <3>1. acks' \subseteq acks /\ segments' \subseteq segments' \cup Pieces(snd'.tx)
      BY <1>1
    <3> QED BY <2>13, <3>1, LinkedFewer
  <2>15. Linked(snd.tx, rx, segments, acks)'
    BY <1>1, <2>14
  <2>16. TailSequence(snd'.tx) = written + 1
    BY <2>6, <2>11, <2>13 DEF CInv
  <2>17. CInv'
    BY <1>1, <2>13, <2>15, <2>16 DEF CInv
  <2> QED BY <2>6, <2>11, <2>13, <2>17
<1> QED BY <1>3, <1>4 DEF ReceiveAck


LEMMA ReTxTimeoutKeeps ==
    ASSUME CInv, ReTxTimeout
    PROVE  /\ CInv'
           /\ snd'.retries < snd.retries => BytesInFlight(snd'.tx) <= SegmentSize
<1> DEFINE c == [snd EXCEPT !.timer = FALSE]
<1>1. UNCHANGED <<written, rx, read, acks>>
  BY DEF ReTxTimeout, receiver
<1>2. IF SizeFrom(c.tx, c.tx.first) = 0 THEN Sent(c)
      ELSE IF c.retries = 0 THEN Sent([c EXCEPT !.dropped = TRUE])
      ELSE Sent(Expired(c))
  BY DEF ReTxTimeout
<1>3. Rests(snd) /\ Sound(snd) /\ Linked(snd.tx, rx, segments, acks) /\ Tiled(snd.tx)
  BY DEF CInv, Rests, Sound, Board
<1>4. /\ DOMAIN c = DOMAIN snd
      /\ c.tx = snd.tx /\ c.highTx = snd.highTx /\ c.out = snd.out /\ c.recover = snd.recover
      /\ c.dropped = snd.dropped /\ c.retries = snd.retries
      /\ c.cong = snd.cong /\ c.recovering = snd.recovering /\ c.dupAcks = snd.dupAcks
  BY <1>3 DEF Sound
<1> HIDE DEF c
<1>5. Sound(c) /\ Control(c)
  BY <1>3, <1>4 DEF Rests, Sound, Control
<1>6. Linked(c.tx, rx, segments, acks) /\ TailSequence(c.tx) = written + 1
  BY <1>3, <1>4 DEF CInv
<1>7. ASSUME NEW d, Sound(d), Control(d), Armed(d), Linked(d.tx, rx, segments, acks),
             TailSequence(d.tx) = written + 1, Sent(d)
      PROVE  CInv' /\ snd'.tx = d.tx /\ snd'.retries = d.retries
  <2>1. snd' = Quiet(d) /\ segments' \in Carried(segments, d.out)
    BY <1>7 DEF Sent, Quiet
  <2>2. /\ Rests(snd') /\ Linked(snd'.tx, rx, segments', acks)
        /\ snd'.tx = d.tx /\ snd'.retries = d.retries
    BY <1>7, <2>1, QuietRests
  <2>3. Linked(snd.tx, rx, segments, acks)'
    BY <1>1, <2>2
  <2>4. CInv'
    BY <1>1, <1>7, <2>2, <2>3 DEF CInv
  <2> QED BY <2>2, <2>4
<1>8. CASE SizeFrom(c.tx, c.tx.first) = 0
  <2>1. Sent(c)
    BY <1>2, <1>8
  <2>2. Items(c.tx) = {}
    <3> SUFFICES ASSUME Items(c.tx) # {} PROVE FALSE
      OBVIOUS
    <3>1. Board(c.tx) /\ Tiled(c.tx)
      BY <1>5 DEF Sound, Board
    <3>2. c.tx.first \in Nat /\ SentEnd(c.tx) \in Nat /\ c.tx.first < SentEnd(c.tx)
      BY <3>1, ItemBounds, HeadItem DEF Tiled
    <3>3. c.tx.app \in Nat
      BY <3>1 DEF Board
    <3>4. SizeFrom(c.tx, c.tx.first) = TailSequence(c.tx) - c.tx.first
          /\ TailSequence(c.tx) = SentEnd(c.tx) + c.tx.app
      BY <3>1, <3>2, SizeFromIs
    <3> QED BY <1>8, <3>2, <3>3, <3>4
  <2>3. Armed(c)
    BY <2>2 DEF Armed
  <2>4. CInv' /\ snd'.retries = c.retries
    BY <1>5, <1>6, <1>7, <2>1, <2>3
  <2> QED BY <1>3, <1>4, <2>4 DEF Sound
<1>9. CASE SizeFrom(c.tx, c.tx.first) # 0 /\ c.retries = 0
  <2> DEFINE d == [c EXCEPT !.dropped = TRUE]
  <2>1. Sent(d)
    BY <1>2, <1>9
  <2>2. /\ DOMAIN d = DOMAIN c
        /\ d.tx = c.tx /\ d.highTx = c.highTx /\ d.out = c.out /\ d.recover = c.recover
        /\ d.dropped = TRUE /\ d.retries = c.retries
        /\ d.cong = c.cong /\ d.recovering = c.recovering /\ d.dupAcks = c.dupAcks
    BY <1>5 DEF Sound
  <2> HIDE DEF d
  <2>3. Sound(d) /\ Control(d) /\ Armed(d)
    BY <1>5, <2>2 DEF Sound, Control, Armed
  <2>4. Linked(d.tx, rx, segments, acks) /\ TailSequence(d.tx) = written + 1
    BY <1>6, <2>2
  <2>5. CInv' /\ snd'.retries = d.retries
    BY <1>7, <2>1, <2>3, <2>4
  <2> QED BY <1>3, <1>4, <2>2, <2>5 DEF Sound
<1>10. CASE SizeFrom(c.tx, c.tx.first) # 0 /\ c.retries # 0
  <2> DEFINE d == Expired(c)
  <2>1. Sent(d)
    BY <1>2, <1>10
  <2>2. /\ Sound(d) /\ Control(d) /\ Armed(d) /\ Steady(c.tx, d.tx)
        /\ BytesInFlight(d.tx) <= SegmentSize
    BY <1>5, <1>10, ExpiredKeeps
  <2> HIDE DEF d
  <2>3. Tiled(c.tx) /\ Tiled(d.tx)
    BY <1>5, <2>2 DEF Sound, Board
  <2>4. Linked(d.tx, rx, segments, acks)
    BY <1>6, <2>2, <2>3, LinkedSender DEF Steady
  <2>5. TailSequence(d.tx) = written + 1
    BY <1>6, <2>2 DEF Steady
  <2>6. CInv' /\ snd'.tx = d.tx
    BY <1>7, <2>1, <2>2, <2>4, <2>5
  <2> QED BY <2>2, <2>6
<1> QED BY <1>8, <1>9, <1>10

\* Send().
LEMMA WriteToBoard ==
    ASSUME NEW tx, Board(tx), NEW n \in Nat
    PROVE  LET q == WriteTo(tx, n)
           IN  /\ Board(q) /\ q.first = tx.first /\ SentEnd(q) = SentEnd(tx)
               /\ TailSequence(q) = TailSequence(tx) + n
               /\ Sacked(q) = Sacked(tx) /\ Span(q, Sacked(q)) = Span(tx, Sacked(tx))
               /\ Items(q) = Items(tx)
               /\ Small(tx) => Small(q)
<1> DEFINE q == WriteTo(tx, n)
<1>1. /\ DOMAIN q = DOMAIN tx
      /\ q.first = tx.first /\ q.sent = tx.sent /\ q.sentSize = tx.sentSize
      /\ q.app = tx.app + n /\ q.highest = tx.highest
      /\ q.sackedOut = tx.sackedOut /\ q.lostOut = tx.lostOut /\ q.retrans = tx.retrans
  BY DEF WriteTo, Board
<1> HIDE DEF q
<1>2. /\ Items(q) = Items(tx) /\ Sacked(q) = Sacked(tx)
      /\ Lost(q) = Lost(tx) /\ Resent(q) = Resent(tx)
      /\ \A S : Span(q, S) = Span(tx, S) /\ Amount(q, S) = Amount(tx, S)
  BY <1>1, SameItems
<1>3. SentEnd(q) = SentEnd(tx) /\ \A k : End(q, k) = End(tx, k)
  BY <1>1 DEF SentEnd, End
<1>4. Tiled(q)
  <2>1. Tiled(tx)
    BY DEF Board
  <2>2. Span(q, Items(q)) = q.first .. SentEnd(q) - 1
    BY <1>1, <1>2, <1>3, <2>1 DEF Tiled
  <2> QED BY <1>1, <1>2, <1>3, <2>1, <2>2 DEF Tiled
<1>5. Counted(q) /\ Placed(q)
  BY <1>1, <1>2 DEF Board, Counted, Placed
<1>6. q.app \in Nat /\ tx.app \in Nat /\ SentEnd(tx) \in Nat
  BY <1>1, ItemBounds DEF Board
<1>7. Board(q)
  BY <1>1, <1>4, <1>5, <1>6 DEF Board
<1>8. TailSequence(q) = TailSequence(tx) + n
  BY <1>1, <1>3, <1>6 DEF TailSequence
<1>9. Small(tx) => Small(q)
  BY <1>1, <1>2 DEF Small
<1> QED BY <1>1, <1>2, <1>3, <1>7, <1>8, <1>9 DEF q

LEMMA WriteKeeps ==
    ASSUME CInv, NEW n \in Writes, Write(n)
    PROVE  CInv' /\ snd'.retries = snd.retries
<1>1. /\ written + n <= MaxBytes /\ written' = written + n
      /\ UNCHANGED <<rx, read, segments, acks>>
  BY DEF Write, receiver
<1>2. n \in Nat /\ written \in Nat
  BY SocketAssumption DEF CInv
<1>3. PICK p : snd' = [snd EXCEPT !.tx = WriteTo(@, n), !.pending = p]
  <2>1. PICK w \in CWnds : snd' = [snd EXCEPT !.tx = WriteTo(@, n),
                                              !.pending = @ \/ AvailableWindow(snd, w) > 0]
    BY DEF Write
  <2>2. snd' = [snd EXCEPT !.tx = WriteTo(@, n),
                           !.pending = snd.pending \/ AvailableWindow(snd, w) > 0]
    BY <2>1
  <2> QED BY <2>2
<1>4. Rests(snd) /\ Sound(snd) /\ Control(snd) /\ Armed(snd)
      /\ Linked(snd.tx, rx, segments, acks) /\ Board(snd.tx) /\ Tiled(snd.tx)
  BY DEF CInv, Rests, Sound, Board
<1> DEFINE q == WriteTo(snd.tx, n)
<1>5. /\ DOMAIN snd' = DOMAIN snd
      /\ snd'.tx = q /\ snd'.highTx = snd.highTx /\ snd'.out = snd.out
      /\ snd'.recover = snd.recover /\ snd'.timer = snd.timer
      /\ snd'.dropped = snd.dropped /\ snd'.retries = snd.retries
      /\ snd'.cong = snd.cong /\ snd'.recovering = snd.recovering /\ snd'.dupAcks = snd.dupAcks
  BY <1>3, <1>4 DEF Sound
<1>6. /\ Board(q) /\ q.first = snd.tx.first /\ SentEnd(q) = SentEnd(snd.tx)
      /\ TailSequence(q) = TailSequence(snd.tx) + n
      /\ Sacked(q) = Sacked(snd.tx) /\ Span(q, Sacked(q)) = Span(snd.tx, Sacked(snd.tx))
      /\ Items(q) = Items(snd.tx)
      /\ Small(snd.tx) => Small(q)
  BY <1>2, <1>4, WriteToBoard
<1> HIDE DEF q
<1>7. Tiled(q) /\ SentEnd(snd.tx) \in Nat
  BY <1>4, <1>6, ItemBounds DEF Board
<1>8. Sound(snd')
  <2>1. snd'.out \subseteq Pieces(snd'.tx)
    BY <1>4, <1>5, <1>6 DEF Sound, Pieces
  <2> QED BY <1>4, <1>5, <1>6, <2>1 DEF Sound
<1>9. Rests(snd')
  BY <1>4, <1>5, <1>6, <1>8 DEF Rests, Control, Armed
<1>10. Linked(q, rx, segments, acks)
  BY <1>4, <1>6, <1>7, LinkedSender
<1>11. Linked(snd.tx, rx, segments, acks)'
  BY <1>1, <1>5, <1>10
<1>12. TailSequence(snd'.tx) = written' + 1
  BY <1>1, <1>2, <1>5, <1>6 DEF CInv
<1>13. CInv'
  BY <1>1, <1>2, <1>9, <1>11, <1>12 DEF CInv
<1> QED BY <1>5, <1>13

LEMMA SendWrittenKeeps ==
    ASSUME CInv, SendWritten
    PROVE  CInv' /\ snd'.retries = snd.retries
<1> DEFINE c == [snd EXCEPT !.pending = FALSE]
<1>1. UNCHANGED <<written, rx, read, acks>>
  BY DEF SendWritten, receiver
<1>2. IF c.dropped THEN Sent(c) ELSE \E w \in CWnds : Sent(SendPendingData(c, w))
  BY DEF SendWritten
<1>3. Rests(snd) /\ Sound(snd) /\ Linked(snd.tx, rx, segments, acks)
  BY DEF CInv, Rests
<1>4. /\ DOMAIN c = DOMAIN snd
      /\ c.tx = snd.tx /\ c.highTx = snd.highTx /\ c.out = snd.out /\ c.recover = snd.recover
      /\ c.dropped = snd.dropped /\ c.retries = snd.retries /\ c.timer = snd.timer
      /\ c.cong = snd.cong /\ c.recovering = snd.recovering /\ c.dupAcks = snd.dupAcks
  BY <1>3 DEF Sound
<1> HIDE DEF c
<1>5. Sound(c) /\ Control(c) /\ Armed(c)
  BY <1>3, <1>4 DEF Rests, Sound, Control, Armed
<1>6. Linked(c.tx, rx, segments, acks) /\ TailSequence(c.tx) = written + 1
  BY <1>3, <1>4 DEF CInv
<1>7. PICK d : /\ Sound(d) /\ Control(d) /\ Armed(d) /\ Linked(d.tx, rx, segments, acks)
               /\ TailSequence(d.tx) = written + 1 /\ d.retries = c.retries
               /\ Sent(d)
  <2>1. CASE c.dropped
    BY <1>2, <1>5, <1>6, <2>1
  <2>2. CASE ~c.dropped
    <3>1. PICK w \in CWnds : Sent(SendPendingData(c, w))
      BY <1>2, <2>2
    <3> DEFINE e == SendPendingData(c, w)
    <3>2. w \in Nat
      BY SocketAssumption
    <3>3. /\ Sound(e) /\ Control(e) /\ Armed(e) /\ Linked(e.tx, rx, segments, acks)
          /\ TailSequence(e.tx) = TailSequence(c.tx) /\ e.retries = c.retries
      BY <1>5, <1>6, <3>2, SendLinked
    <3> HIDE DEF e
    <3>4. Sent(e)
      BY <3>1 DEF e
    <3> QED BY <1>6, <3>3, <3>4
  <2> QED BY <2>1, <2>2
<1>8. snd' = Quiet(d) /\ segments' \in Carried(segments, d.out)
  BY <1>7 DEF Sent, Quiet
<1>9. /\ Rests(snd') /\ Linked(snd'.tx, rx, segments', acks)
      /\ snd'.tx = d.tx /\ snd'.retries = d.retries
  BY <1>7, <1>8, QuietRests
<1>10. Linked(snd.tx, rx, segments, acks)'
  BY <1>1, <1>9
<1>11. CInv'
  BY <1>1, <1>7, <1>9, <1>10 DEF CInv
<1> QED BY <1>4, <1>7, <1>9, <1>11


LEMMA ReceiveSegmentKeeps ==
    ASSUME CInv, NEW m \in segments, ReceiveSegment(m)
    PROVE  CInv' /\ snd' = snd
<1>1. UNCHANGED <<snd, written, read>> /\ segments' = segments \ {m}
  BY DEF ReceiveSegment, sender, ReceivedData, Arrive
<1>2. /\ Rests(snd) /\ Whole(rx, read) /\ Linked(snd.tx, rx, segments, acks)
      /\ Behind(snd.tx, rx) /\ Tiled(snd.tx) /\ m \in Pieces(snd.tx)
  BY DEF CInv, Linked, Rests, Sound, Board
<1> DEFINE s == m[1]
           n == m[2] - m[1]
           q == Add(rx, s, Consecutive(s, n))
<1>3. /\ s \in Nat /\ 1 <= s /\ n \in Nat /\ SentEnd(snd.tx) \in Nat
      /\ s + n <= SentEnd(snd.tx)
  BY <1>2, ItemBounds DEF Pieces
<1>4. rx' = q
  BY DEF ReceiveSegment, ReceivedData, Arrive, Consecutive
<1> HIDE DEF s, n
<1>5. /\ Whole(q, read)
      /\ q.next >= rx.next
      /\ Got(rx) \subseteq Got(q)
      /\ Got(q) \subseteq Got(rx) \cup s .. s + n - 1
  BY <1>2, <1>3, AddWhole
<1> HIDE DEF q
<1>6. Got(q) \subseteq 1 .. SentEnd(snd.tx) - 1
  <2> SUFFICES ASSUME NEW x \in Got(q) PROVE x \in 1 .. SentEnd(snd.tx) - 1
    OBVIOUS
  <2>1. x \in 1 .. SentEnd(snd.tx) - 1 \/ x \in s .. s + n - 1
    BY <1>2, <1>5 DEF Behind
  <2> QED BY <1>3, <2>1
<1>7. Linked(snd.tx, q, segments, acks)
  <2>1. rx.next \in Nat /\ q.next \in Nat
    BY <1>2, <1>5, NextMissing
  <2> QED BY <1>2, <1>5, <1>6, <2>1, LinkedReceiver
<1>8. acks' \subseteq acks \cup {[ack |-> q.next, sack |-> q.sack]}
  BY <1>4, CarriedFrom DEF ReceiveSegment, ReceivedData, SendAck
<1>9. Linked(snd.tx, q, segments', acks')
  <2> DEFINE a == [ack |-> q.next, sack |-> q.sack]
  <2>1. a.ack = q.next /\ a.sack = q.sack
    OBVIOUS
  <2> HIDE DEF a
  <2>2. acks' \subseteq acks \cup {a}
    BY <1>8 DEF a
  <2>3. Linked(snd.tx, q, segments, acks')
    BY <1>5, <1>7, <2>1, <2>2, LinkedAck
  <2>4. segments' \subseteq segments \cup Pieces(snd.tx) /\ acks' \subseteq acks'
    BY <1>1, <1>2 DEF Linked
  <2> QED BY <2>3, <2>4, LinkedFewer
<1>10. Linked(snd.tx, rx, segments, acks)'
  BY <1>1, <1>4, <1>9
<1>11. Whole(rx, read)'
  BY <1>1, <1>4, <1>5
<1> QED BY <1>1, <1>10, <1>11 DEF CInv

LEMMA DelAckTimeoutKeeps ==
    ASSUME CInv, DelAckTimeout
    PROVE  CInv' /\ snd' = snd
<1>1. UNCHANGED <<snd, written, rx, read, segments>>
  BY DEF DelAckTimeout, sender, receiver
<1>2. Whole(rx, read) /\ Linked(snd.tx, rx, segments, acks)
  BY DEF CInv
<1> DEFINE a == [ack |-> rx.next, sack |-> rx.sack]
<1>3. a.ack = rx.next /\ a.sack = rx.sack
  OBVIOUS
<1>4. acks' \subseteq acks \cup {a}
  BY CarriedFrom DEF DelAckTimeout, SendAck
<1> HIDE DEF a
<1>5. Linked(snd.tx, rx, segments, acks')
  BY <1>2, <1>3, <1>4, LinkedAck
<1>6. Linked(snd.tx, rx, segments, acks)'
  BY <1>1, <1>5
<1> QED BY <1>1, <1>6 DEF CInv

LEMMA ReadKeeps ==
    ASSUME CInv, NEW n \in Reads, Read(n)
    PROVE  CInv' /\ snd' = snd /\ rx'.next = rx.next /\ rx'.avail < rx.avail
<1> DEFINE q == Extract(rx, n).rx
<1>1. UNCHANGED <<snd, written, segments, acks>>
      /\ rx.avail > 0 /\ rx' = q /\ read' = read \o Extract(rx, n).out
  BY DEF Read, Recv, sender
<1>2. Whole(rx, read) /\ Linked(snd.tx, rx, segments, acks) /\ Tiled(snd.tx)
      /\ Behind(snd.tx, rx)
  BY DEF CInv, Linked, Rests, Sound, Board
<1>3. n \in Nat \ {0}
  BY ReceiverAssumption
<1>4. /\ Whole(q, read \o Extract(rx, n).out)
      /\ q.next = rx.next /\ q.avail < rx.avail
      /\ Got(q) = Got(rx)
  BY <1>1, <1>2, <1>3, ExtractWhole
<1> HIDE DEF q
<1>5. Linked(snd.tx, q, segments, acks)
  <2>1. rx.next \in Nat /\ q.next \in Nat /\ q.next >= rx.next
    BY <1>2, <1>4, NextMissing
  <2>2. Got(rx) \subseteq Got(q) /\ Got(q) \subseteq 1 .. SentEnd(snd.tx) - 1
    BY <1>2, <1>4 DEF Behind
  <2> QED BY <1>2, <2>1, <2>2, LinkedReceiver
<1>6. Linked(snd.tx, rx, segments, acks)'
  BY <1>1, <1>5
<1>7. Whole(rx, read)'
  BY <1>1, <1>4
<1>8. CInv'
  BY <1>1, <1>6, <1>7 DEF CInv
<1> QED BY <1>1, <1>4, <1>8

LEMMA InitCInv == Init => CInv
<1> SUFFICES ASSUME Init PROVE CInv
  OBVIOUS
<1> DEFINE tx == NewTxBuffer(FirstByte)
<1>1. /\ snd = [tx |-> tx, highTx |-> FirstByte,
              cong |-> "OPEN", dupAcks |-> 0, recover |-> 0, recovering |-> FALSE,
              firstPartial |-> TRUE, timer |-> FALSE, retries |-> DataRetries,
              pending |-> FALSE, dropped |-> FALSE, out |-> {}]
      /\ written = 0 /\ rx = NewRxBuffer(1) /\ read = <<>>
      /\ segments = {} /\ acks = {}
  BY DEF Init, ReceiverInit, FirstByte
<1>2. /\ DOMAIN tx = {"first", "sent", "sentSize", "app", "highest",
                      "sackedOut", "lostOut", "retrans"}
      /\ tx.first = 1 /\ tx.sent = <<>> /\ tx.sentSize = 0 /\ tx.app = 0
      /\ tx.highest = NoHighest /\ tx.sackedOut = 0 /\ tx.lostOut = 0 /\ tx.retrans = 0
  BY DEF NewTxBuffer, FirstByte
<1> HIDE DEF tx
<1>3. Items(tx) = {} /\ SentEnd(tx) = 1 /\ TailSequence(tx) = 1
  BY <1>2 DEF Items, SentEnd, TailSequence
<1>4. /\ Sacked(tx) = {} /\ Lost(tx) = {} /\ Resent(tx) = {}
      /\ Span(tx, {}) = {} /\ Amount(tx, {}) = 0
  BY <1>3, FS_EmptySet DEF Sacked, Lost, Resent, Span, Amount
<1>5. Tiled(tx)
  BY <1>2, <1>3, <1>4 DEF Tiled
<1>6. Counted(tx) /\ Placed(tx)
  BY <1>2, <1>4 DEF Counted, Placed, NoHighest
<1>7. Board(tx) /\ Small(tx)
  BY <1>2, <1>3, <1>5, <1>6 DEF Board, Small
<1>8. Sound(snd)
  BY <1>1, <1>3, <1>4, <1>7, SocketAssumption DEF Sound, FirstByte
<1>9. Rests(snd)
  BY <1>1, <1>3, <1>8 DEF Rests, Control, Armed
<1>10. Whole(rx, read)
  BY <1>1, NewWhole
<1>11. Got(rx) = {} /\ rx.next = 1
  BY <1>1 DEF NewRxBuffer, Got, Stored, BytesIn
<1>12. Behind(tx, rx)
  BY <1>2, <1>4, <1>11 DEF Behind
<1>13. Linked(snd.tx, rx, segments, acks)
  BY <1>1, <1>12 DEF Linked, Ordered, Ahead
<1> QED BY <1>1, <1>3, <1>9, <1>10, <1>13, ReceiverAssumption DEF CInv

LEMMA NextCInv == CInv /\ [Next]_vars => CInv'
<1> SUFFICES ASSUME CInv, [Next]_vars PROVE CInv'
  OBVIOUS
<1>1. ASSUME NEW n \in Writes, Write(n) PROVE CInv'
  BY <1>1, WriteKeeps
<1>2. CASE SendWritten
  BY <1>2, SendWrittenKeeps
<1>3. ASSUME NEW a \in acks, ReceiveAck(a) PROVE CInv'
  BY <1>3, ReceiveAckKeeps
<1>4. CASE ReTxTimeout
  BY <1>4, ReTxTimeoutKeeps
<1>5. ASSUME NEW m \in segments, ReceiveSegment(m) PROVE CInv'
  BY <1>5, ReceiveSegmentKeeps
<1>6. CASE DelAckTimeout
  BY <1>6, DelAckTimeoutKeeps
<1>7. ASSUME NEW n \in Reads, Read(n) PROVE CInv'
  BY <1>7, ReadKeeps
<1>8. CASE UNCHANGED vars
  BY <1>8 DEF vars, sender, receiver, CInv
<1> QED BY <1>1, <1>2, <1>3, <1>4, <1>5, <1>6, <1>7, <1>8 DEF Next

LEMMA CInvCorrect == Spec => []CInv
<1> QED BY InitCInv, NextCInv, PTL DEF Spec


-----------------------------------------------------------------------------
(* What holds of a connection.                                             *)

\* However items are split, merged, cut and removed, the counters that
\* BytesInFlight() is computed from agree with the marks, and the items are
\* what was sent and not acknowledged, piece by piece (TcpTxBuffer).
THEOREM CountsExactCorrect == Spec => []CountsExact
<1>1. CInv => CountsExact
  <2> SUFFICES ASSUME CInv PROVE CountsExact
    OBVIOUS
  <2> DEFINE tx == snd.tx
  <2>1. Tiled(tx) /\ Counted(tx) /\ Small(tx)
    BY DEF CInv, Rests, Sound, Board
  <2> HIDE DEF tx
  <2>2. /\ tx.sackedOut = Amount(tx, Sacked(tx))
        /\ tx.lostOut = Amount(tx, Lost(tx))
        /\ tx.retrans = Amount(tx, Resent(tx))
        /\ Lost(tx) \cap Sacked(tx) = {}
    BY <2>1 DEF Counted
  <2>3. /\ Span(tx, Items(tx)) = tx.first .. SentEnd(tx) - 1
        /\ \A j, k \in Items(tx) : j < k => End(tx, j) <= k
    BY <2>1 DEF Tiled
  <2>4. \A k \in Items(tx) : tx.sent[k].size \in 1 .. SegmentSize
    BY <2>1, ItemBounds, TxBufferAssumption DEF Small
  <2> QED BY <2>2, <2>3, <2>4 DEF CountsExact, tx
<1> QED BY <1>1, CInvCorrect, PTL

\* The iterator m_highestSack is at the end or at a sacked item, whose number
\* is the one noted with it (Update, DiscardUpTo, SplitItems).
THEOREM HighestPlacedCorrect == Spec => []HighestPlaced
<1>1. CInv => HighestPlaced
  BY DEF CInv, Rests, Sound, Board, Placed, HighestPlaced
<1> QED BY <1>1, CInvCorrect, PTL

\* The head of the sent list is never marked sacked, whatever old ACKs and
\* SACK blocks arrive (the assertion of Update()).
THEOREM HeadUnsackedCorrect == Spec => []HeadUnsacked
<1>1. CInv => HeadUnsacked
  BY DEF CInv, Rests, Sound, HeadUnsacked
<1> QED BY <1>1, CInvCorrect, PTL

\* What the sender crosses off, acknowledged or sacked, the receiver has.
THEOREM SackedHeldCorrect == Spec => []SackedHeld
<1>1. CInv => SackedHeld
  <2> SUFFICES ASSUME CInv PROVE SackedHeld
    OBVIOUS
  <2>1. Behind(snd.tx, rx) /\ Tiled(snd.tx) /\ Whole(rx, read)
    BY DEF CInv, Linked, Rests, Sound, Board
  <2>2. Held = Got(rx)
    BY DEF Held, Got, FirstByte
  <2>3. Span(snd.tx, Sacked(snd.tx)) \subseteq Held
    BY <2>1, <2>2 DEF Behind
  <2>4. FirstByte .. snd.tx.first - 1 \subseteq Held
    <3>1. snd.tx.first \in Nat /\ rx.next \in Nat /\ snd.tx.first <= rx.next
      BY <2>1, NextMissing DEF Tiled, Behind
    <3>2. 1 .. snd.tx.first - 1 \subseteq Got(rx)
      BY <3>1 DEF Got
    <3> QED BY <2>2, <3>2 DEF FirstByte
  <2> QED BY <2>3, <2>4 DEF SackedHeld
<1> QED BY <1>1, CInvCorrect, PTL

\* The two assertions of DupAck().
THEOREM DupAcksMatchStateCorrect == Spec => []DupAcksMatchState
<1>1. CInv => DupAcksMatchState
  <2> SUFFICES ASSUME CInv PROVE DupAcksMatchState
    OBVIOUS
  <2>1. Control(snd)
    BY DEF CInv, Rests
  <2>2. snd.cong = "OPEN" => snd.dupAcks = 0
    BY <2>1 DEF Control
  <2>3. snd.cong = "DISORDER" => snd.dupAcks <= DupAckThresh
    BY <2>1, TxBufferAssumption DEF Control
  <2> QED BY <2>2, <2>3 DEF DupAcksMatchState
<1> QED BY <1>1, CInvCorrect, PTL

\* Without Nagle's algorithm (the default of the attribute TcpNoDelay), the
\* retransmission timer runs while anything is unacknowledged, unless the
\* connection was given up (SendDataPacket, NewAck, ReTxTimeout).
THEOREM TimerArmedCorrect ==
    ASSUME NoDelay
    PROVE  Spec => []TimerArmed
<1>1. CInv => TimerArmed
  BY DEF CInv, Rests, Armed, TimerArmed
<1> QED BY <1>1, CInvCorrect, PTL

\* After a timeout no more than a segment is in flight, whatever was in flight,
\* lost or sent again before (the assertion at the end of ReTxTimeout()).
THEOREM OneSegmentAfterTimeoutCorrect == Spec => OneSegmentAfterTimeout
<1>1. CInv /\ [Next]_vars =>
        [snd'.retries < snd.retries => BytesInFlight(snd'.tx) <= SegmentSize]_vars
  <2> SUFFICES ASSUME CInv, Next, snd'.retries < snd.retries
               PROVE  BytesInFlight(snd'.tx) <= SegmentSize
    OBVIOUS
  <2>1. snd.retries \in Nat
    BY DEF CInv, Rests, Sound
  <2>2. snd'.retries \in Nat
    <3>1. CInv'
      BY NextCInv
    <3> QED BY <3>1 DEF CInv, Rests, Sound
  <2>3. snd' # snd /\ snd'.retries # snd.retries /\ ~(snd'.retries >= snd.retries)
    BY <2>1, <2>2
  <2>4. ASSUME NEW n \in Writes, Write(n) PROVE FALSE
    BY <2>3, <2>4, WriteKeeps
  <2>5. CASE SendWritten
    BY <2>3, <2>5, SendWrittenKeeps
  <2>6. ASSUME NEW a \in acks, ReceiveAck(a) PROVE FALSE
    BY <2>3, <2>6, ReceiveAckKeeps
  <2>7. CASE ReTxTimeout
    BY <2>7, ReTxTimeoutKeeps
  <2>8. ASSUME NEW m \in segments, ReceiveSegment(m) PROVE FALSE
    BY <2>3, <2>8, ReceiveSegmentKeeps
  <2>9. CASE DelAckTimeout
    BY <2>3, <2>9, DelAckTimeoutKeeps
  <2>10. ASSUME NEW n \in Reads, Read(n) PROVE FALSE
    BY <2>3, <2>10, ReadKeeps
  <2> QED BY <2>4, <2>5, <2>6, <2>7, <2>8, <2>9, <2>10 DEF Next
<1> QED BY <1>1, CInvCorrect, PTL DEF Spec, OneSegmentAfterTimeout

\* The connection implements a stream of bytes: over a network that loses,
\* delays and reorders, the application reads the bytes that were written, in
\* their order (TcpSocketBase, TcpTxBuffer, TcpRxBuffer).
THEOREM ReliableStreamCorrect == Spec => ReliableStream
<1>1. Init => Stream!Init
  BY DEF Init, ReceiverInit, Stream!Init
<1>2. CInv /\ CInv' /\ [Next]_vars => [Stream!Next]_<<written, read>>
  <2> SUFFICES ASSUME CInv, CInv', [Next]_vars, ~UNCHANGED <<written, read>>
               PROVE  Stream!Next
    OBVIOUS
  <2>1. ASSUME NEW n \in Writes, Write(n) PROVE Stream!Next
    <3>1. n \in Nat \ {0} /\ written \in Nat /\ MaxBytes \in Nat
      BY SocketAssumption, ReceiverAssumption DEF CInv
    <3>2. written + n <= MaxBytes /\ written' = written + n /\ read' = read
      BY <2>1 DEF Write, receiver
    <3>3. written' \in written + 1 .. MaxBytes
      BY <3>1, <3>2
    <3> QED BY <3>2, <3>3 DEF Stream!Next, Stream!Write
  <2>2. ASSUME NEW n \in Reads, Read(n) PROVE Stream!Next
    <3> DEFINE p == rx.next - rx.avail - 1
               q == rx'.next - rx'.avail - 1
    <3>1. written' = written
      BY <2>2 DEF Read, sender
    <3>2. rx'.next = rx.next /\ rx'.avail < rx.avail
      BY <2>2, ReadKeeps
    <3>3. /\ rx.next \in Nat /\ rx.avail \in Nat /\ rx.avail < rx.next
          /\ read = Consecutive(1, p)
      BY DEF CInv, Whole
    <3>4. rx'.avail \in Nat /\ rx'.avail < rx'.next /\ read' = Consecutive(1, q)
      BY DEF CInv, Whole
    <3>5. p \in Nat /\ q \in Nat /\ p < q /\ q <= rx.next - 1
      BY <3>2, <3>3, <3>4
    <3>6. q <= written /\ written \in Nat
      <4>1. /\ Tiled(snd.tx) /\ Whole(rx, read) /\ Behind(snd.tx, rx)
            /\ snd.tx.app \in Nat /\ TailSequence(snd.tx) = written + 1 /\ written \in Nat
        BY DEF CInv, Rests, Sound, Board, Linked
      <4>2. rx.next <= SentEnd(snd.tx)
        BY <4>1, NextSent DEF Behind
      <4>3. SentEnd(snd.tx) \in Nat /\ SentEnd(snd.tx) + snd.tx.app = written + 1
        BY <4>1, ItemBounds DEF TailSequence
      <4> QED BY <3>3, <3>5, <4>1, <4>2, <4>3
    <3> HIDE DEF p, q
    <3>7. Len(read) = p
      BY <3>3, <3>5, ConsecutiveIs
    <3>8. read' = [i \in 1 .. q |-> i]
      <4>1. Consecutive(1, q) = [i \in 1 .. q |-> 1 + i - 1]
        BY DEF Consecutive
      <4>2. [i \in 1 .. q |-> 1 + i - 1] = [i \in 1 .. q |-> i]
        BY <3>5
      <4> QED BY <3>4, <4>1, <4>2
    <3> DEFINE d == q - p
    <3>9. d \in 1 .. written - Len(read) /\ Len(read) + d = q
      BY <3>5, <3>6, <3>7
    <3> HIDE DEF d
    <3>10. read' = [i \in 1 .. Len(read) + d |-> i]
      BY <3>8, <3>9
    <3> QED BY <3>1, <3>9, <3>10 DEF Stream!Next, Stream!Read
  <2>3. CASE SendWritten
    BY <2>3 DEF SendWritten, receiver
  <2>4. ASSUME NEW a \in acks, ReceiveAck(a) PROVE FALSE
    BY <2>4 DEF ReceiveAck, receiver
  <2>5. CASE ReTxTimeout
    BY <2>5 DEF ReTxTimeout, receiver
  <2>6. ASSUME NEW m \in segments, ReceiveSegment(m) PROVE FALSE
    BY <2>6 DEF ReceiveSegment, ReceivedData, Arrive, sender
  <2>7. CASE DelAckTimeout
    BY <2>7 DEF DelAckTimeout, sender, receiver
  <2>8. CASE UNCHANGED vars
    BY <2>8 DEF vars, sender, receiver
  <2> QED BY <2>1, <2>2, <2>3, <2>4, <2>5, <2>6, <2>7, <2>8 DEF Next
<1> QED BY <1>1, <1>2, CInvCorrect, PTL DEF Spec, ReliableStream, Stream!Spec
=============================================================================
