-------------------------- MODULE ByteCountProofs ---------------------------
(***************************************************************************)
(* What counting bytes obeys: totals are numbers, and change by what one   *)
(* entry changes, or by the packet that joins or leaves a queue.  Also the  *)
(* facts about least values and remainders that the other proofs share.    *)
(***************************************************************************)
EXTENDS ByteCount, FiniteSetsExt, FiniteSetTheorems, SequenceTheorems, WellFoundedInduction, TLAPS

Units(f, S) == UNION {{x} \X (1 .. f[x]) : x \in S}

LEMMA UnitsFinite ==
    ASSUME NEW S, IsFiniteSet(S), NEW f, \A x \in S : f[x] \in Nat
    PROVE  IsFiniteSet(Units(f, S))
<1> DEFINE G == {{x} \X (1 .. f[x]) : x \in S}
           g == [x \in S |-> {x} \X (1 .. f[x])]
<1>1. g \in Surjection(S, G)
  BY DEF Surjection
<1>2. IsFiniteSet(G)
  <2> HIDE DEF G, g
  <2> QED BY <1>1, FS_Surjection
<1>3. \A T \in G : IsFiniteSet(T)
  <2> SUFFICES ASSUME NEW x \in S PROVE IsFiniteSet({x} \X (1 .. f[x]))
    OBVIOUS
  <2>1. f[x] \in Int
    OBVIOUS
  <2>2. IsFiniteSet({x})
    BY FS_Singleton, Zenon
  <2>3. IsFiniteSet(1 .. f[x])
    BY <2>1, FS_Interval
  <2> QED BY <2>2, <2>3, FS_Product
<1>4. IsFiniteSet(UNION G)
  <2> HIDE DEF G
  <2> QED BY <1>2, <1>3, FS_UNION
<1> QED BY <1>4 DEF Units

LEMMA BytesOfType ==
    ASSUME NEW S, IsFiniteSet(S), NEW f, \A x \in S : f[x] \in Nat
    PROVE  BytesOf(f, S) \in Nat
<1>1. BytesOf(f, S) = Cardinality(Units(f, S))
  BY DEF BytesOf, Units
<1> QED BY <1>1, UnitsFinite, FS_CardinalityType

LEMMA BytesOfSame ==
    ASSUME NEW S, NEW f, NEW g, \A x \in S : f[x] = g[x]
    PROVE  BytesOf(f, S) = BytesOf(g, S)
<1>1. {{x} \X (1 .. f[x]) : x \in S} = {{x} \X (1 .. g[x]) : x \in S}
  OBVIOUS
<1> QED BY <1>1 DEF BytesOf

LEMMA BytesOfZero ==
    ASSUME NEW S, NEW f, \A x \in S : f[x] = 0
    PROVE  BytesOf(f, S) = 0
<1>1. UNION {{x} \X (1 .. f[x]) : x \in S} = {}
  OBVIOUS
<1> QED BY <1>1, FS_EmptySet DEF BytesOf

LEMMA BytesOfSplit ==
    ASSUME NEW S, IsFiniteSet(S), NEW f, \A x \in S : f[x] \in Nat,
           NEW y \in S
    PROVE  BytesOf(f, S) = BytesOf(f, S \ {y}) + f[y]
<1> DEFINE U == Units(f, S \ {y})
           V == {y} \X (1 .. f[y])
<1>1. IsFiniteSet(U) /\ Cardinality(U) \in Nat
  <2>1. IsFiniteSet(S \ {y}) BY FS_RemoveElement
  <2> QED BY <2>1, UnitsFinite, FS_CardinalityType
<1>2. IsFiniteSet(V) /\ Cardinality(V) = f[y]
  <2>1. IsFiniteSet(1 .. f[y]) /\ Cardinality(1 .. f[y]) = f[y]
    BY FS_Interval
  <2>2. IsFiniteSet({y}) /\ Cardinality({y}) = 1
    BY FS_Singleton, Zenon
  <2>3. /\ IsFiniteSet(V)
        /\ Cardinality(V) = Cardinality({y}) * Cardinality(1 .. f[y])
    BY <2>1, <2>2, FS_Product, Zenon
  <2>4. Cardinality(V) = 1 * f[y]
    <3> HIDE DEF V
    <3> QED BY <2>1, <2>2, <2>3
  <2>5. 1 * f[y] = f[y]
    OBVIOUS
  <2> QED BY <2>3, <2>4, <2>5
<1>3. Units(f, S) = U \cup V
  BY DEF Units
<1>4. U \cap V = {}
  BY DEF Units
<1>5. Cardinality(U \cup V) = Cardinality(U) + Cardinality(V) - Cardinality(U \cap V)
  <2> HIDE DEF U, V
  <2> QED BY <1>1, <1>2, FS_Union
<1>6. Cardinality(U \cap V) = 0
  BY <1>4, FS_EmptySet
<1> QED BY <1>1, <1>2, <1>3, <1>5, <1>6 DEF BytesOf, Units

LEMMA UnitsTail ==
    ASSUME NEW s \in Seq(Nat), s # <<>>
    PROVE  ExistsBijection(Units(s, 2 .. Len(s)), Units(Tail(s), 1 .. Len(s) - 1))
<1> DEFINE n == Len(s)
           A == Units(s, 2 .. n)
           B == Units(Tail(s), 1 .. n - 1)
           shift == [u \in A |-> <<u[1] - 1, u[2]>>]
<1>0. n \in Nat /\ n >= 1 /\ \A i \in 1 .. n : s[i] \in Nat
  OBVIOUS
<1>1. \A i \in 1 .. n - 1 : Tail(s)[i] = s[i + 1]
  BY <1>0
<1>2. \A u : u \in A <=> \E i \in 2 .. n : \E k \in 1 .. s[i] : u = <<i, k>>
  BY DEF Units
<1>3. \A u : u \in B <=> \E i \in 1 .. n - 1 : \E k \in 1 .. s[i + 1] : u = <<i, k>>
  BY <1>1, SMTT(30) DEF Units
<1> HIDE DEF A, B, n
<1>4. shift \in [A -> B]
  <2> SUFFICES ASSUME NEW u \in A PROVE <<u[1] - 1, u[2]>> \in B
    OBVIOUS
  <2>1. PICK i \in 2 .. n : \E k \in 1 .. s[i] : u = <<i, k>>
    BY <1>2
  <2>2. PICK k \in 1 .. s[i] : u = <<i, k>>
    BY <2>1
  <2>3. i - 1 \in 1 .. n - 1 /\ k \in 1 .. s[(i - 1) + 1]
    BY <1>0
  <2> QED BY <1>3, <2>2, <2>3
<1>5. \A u, v \in A : shift[u] = shift[v] => u = v
  <2> SUFFICES ASSUME NEW u \in A, NEW v \in A, shift[u] = shift[v] PROVE u = v
    OBVIOUS
  <2>1. PICK i \in 2 .. n : \E k \in 1 .. s[i] : u = <<i, k>>
    BY <1>2
  <2>2. PICK j \in 2 .. n : \E l \in 1 .. s[j] : v = <<j, l>>
    BY <1>2
  <2>3. PICK k \in 1 .. s[i] : u = <<i, k>>
    BY <2>1
  <2>4. PICK l \in 1 .. s[j] : v = <<j, l>>
    BY <2>2
  <2>5. i - 1 = j - 1 /\ k = l
    BY <2>3, <2>4
  <2> QED BY <1>0, <2>3, <2>4, <2>5
<1>6. \A w \in B : \E u \in A : shift[u] = w
  <2> SUFFICES ASSUME NEW w \in B PROVE \E u \in A : shift[u] = w
    OBVIOUS
  <2>1. PICK i \in 1 .. n - 1 : \E k \in 1 .. s[i + 1] : w = <<i, k>>
    BY <1>3
  <2>2. PICK k \in 1 .. s[i + 1] : w = <<i, k>>
    BY <2>1
  <2>3. i + 1 \in 2 .. n /\ (i + 1) - 1 = i
    BY <1>0
  <2>4. <<i + 1, k>> \in A
    BY <1>2, <2>3
  <2>5. shift[<<i + 1, k>>] = w
    BY <2>2, <2>3, <2>4
  <2> QED BY <2>4, <2>5
<1>7. shift \in Bijection(A, B)
  <2> HIDE DEF shift
  <2>1. shift \in Injection(A, B)
    BY <1>4, <1>5 DEF Injection, IsInjective
  <2>2. shift \in Surjection(A, B)
    BY <1>4, <1>6 DEF Surjection
  <2> QED BY <2>1, <2>2 DEF Bijection
<1>8. ExistsBijection(A, B)
  <2> HIDE DEF shift
  <2> QED BY <1>7 DEF ExistsBijection
<1> QED BY <1>8 DEF A, B, n

LEMMA BytesOfTail ==
    ASSUME NEW s \in Seq(Nat), s # <<>>
    PROVE  /\ BytesOf(Tail(s), DOMAIN Tail(s)) = BytesOf(s, DOMAIN s) - Head(s)
           /\ BytesOf(s, DOMAIN s) >= Head(s)
           /\ BytesOf(s, DOMAIN s) \in Nat
<1> DEFINE n == Len(s)
<1>0. n \in Nat /\ n >= 1 /\ (\A i \in 1 .. n : s[i] \in Nat)
  OBVIOUS
<1>1. DOMAIN s = 1 .. n /\ DOMAIN Tail(s) = 1 .. n - 1 /\ Head(s) = s[1]
  BY <1>0
<1>2. (1 .. n) \ {1} = 2 .. n /\ 1 \in 1 .. n
  BY <1>0
<1> HIDE DEF n
<1>3. IsFiniteSet(1 .. n) /\ IsFiniteSet(2 .. n)
  BY <1>0, FS_Interval
<1>4. BytesOf(s, 1 .. n) = BytesOf(s, 2 .. n) + s[1]
  BY <1>0, <1>2, <1>3, BytesOfSplit, SMTT(30)
<1>5. IsFiniteSet(Units(s, 2 .. n))
  BY <1>0, <1>3, UnitsFinite
<1>6. ExistsBijection(Units(s, 2 .. n), Units(Tail(s), 1 .. n - 1))
  BY UnitsTail DEF n
<1>7. Cardinality(Units(Tail(s), 1 .. n - 1)) = Cardinality(Units(s, 2 .. n))
  BY <1>5, <1>6, FS_Bijection
<1>8. BytesOf(Tail(s), 1 .. n - 1) = BytesOf(s, 2 .. n)
  BY <1>7 DEF BytesOf, Units
<1>9. BytesOf(s, 2 .. n) \in Nat
  BY <1>0, <1>3, BytesOfType
<1> QED BY <1>0, <1>1, <1>4, <1>8, <1>9

LEMMA BytesOfAppend ==
    ASSUME NEW s \in Seq(Nat), NEW e \in Nat
    PROVE  BytesOf(Append(s, e), DOMAIN Append(s, e)) = BytesOf(s, DOMAIN s) + e
<1> DEFINE n == Len(s)
           t == Append(s, e)
<1>0. n \in Nat /\ DOMAIN s = 1 .. n /\ DOMAIN t = 1 .. n + 1
  OBVIOUS
<1>1. t[n + 1] = e /\ (\A i \in 1 .. n : t[i] = s[i])
  OBVIOUS
<1>2. \A i \in 1 .. n + 1 : t[i] \in Nat
  OBVIOUS
<1> HIDE DEF n, t
<1>3. (1 .. n + 1) \ {n + 1} = 1 .. n /\ n + 1 \in 1 .. n + 1
  BY <1>0
<1>4. IsFiniteSet(1 .. n + 1)
  BY <1>0, FS_Interval
<1>5. BytesOf(t, 1 .. n + 1) = BytesOf(t, 1 .. n) + t[n + 1]
  <2> DEFINE S == 1 .. n + 1
             y == n + 1
  <2>1. IsFiniteSet(S) /\ (\A i \in S : t[i] \in Nat) /\ y \in S
    BY <1>2, <1>3, <1>4
  <2>2. S \ {y} = 1 .. n
    BY <1>3
  <2> HIDE DEF S, y
  <2>3. BytesOf(t, S) = BytesOf(t, S \ {y}) + t[y]
    BY <2>1, BytesOfSplit
  <2> QED BY <2>2, <2>3 DEF S, y
<1>6. BytesOf(t, 1 .. n) = BytesOf(s, 1 .. n)
  BY <1>1, BytesOfSame
<1> QED BY <1>0, <1>1, <1>5, <1>6 DEF t

\* Changing f at one element only.
LEMMA BytesOfUpdate ==
    ASSUME NEW S, IsFiniteSet(S), NEW T \in SUBSET S,
           NEW f \in [S -> Nat], NEW y \in S, NEW v \in Nat
    PROVE  BytesOf([f EXCEPT ![y] = v], T)
              = IF y \in T THEN BytesOf(f, T) + v - f[y] ELSE BytesOf(f, T)
<1> DEFINE g == [f EXCEPT ![y] = v]
<1>1. IsFiniteSet(T)
  BY FS_Subset
<1>2. (\A x \in T : f[x] \in Nat) /\ (\A x \in T : g[x] \in Nat)
  OBVIOUS
<1>3. CASE y \notin T
  BY <1>3, BytesOfSame
<1>4. CASE y \in T
  <2>1. g[y] = v /\ f[y] \in Nat /\ (\A x \in T \ {y} : g[x] = f[x])
    OBVIOUS
  <2> HIDE DEF g
  <2>2. BytesOf(f, T) = BytesOf(f, T \ {y}) + f[y]
    BY <1>1, <1>2, <1>4, BytesOfSplit
  <2>3. BytesOf(g, T) = BytesOf(g, T \ {y}) + g[y]
    BY <1>1, <1>2, <1>4, BytesOfSplit
  <2>4. BytesOf(g, T \ {y}) = BytesOf(f, T \ {y})
    BY <2>1, BytesOfSame
  <2>5. IsFiniteSet(T \ {y}) /\ BytesOf(f, T \ {y}) \in Nat
    <3>1. IsFiniteSet(T \ {y})
      BY <1>1, FS_RemoveElement
    <3> QED BY <3>1, <1>2, BytesOfType
  <2> QED BY <1>4, <2>1, <2>2, <2>3, <2>4, <2>5 DEF g
<1> QED BY <1>3, <1>4

-----------------------------------------------------------------------------
(* Least values and remainders.                                            *)

\* A function to the naturals has a least value.
LEMMA LeastValue ==
    ASSUME NEW S, S # {}, NEW f \in [S -> Nat]
    PROVE  \E x \in S : \A y \in S : f[x] <= f[y]
<1> DEFINE I(x) == 1 .. f[x]
           T == {I(x) : x \in S}
           R == StrictSubsetOrdering(Nat)
           F == FiniteSubsetsOf(Nat)
<1>1. \A x \in S : f[x] \in Nat
  OBVIOUS
<1>2. \A n \in Nat : 1 .. n \in F
  <2> SUFFICES ASSUME NEW n \in Nat PROVE 1 .. n \in SUBSET Nat /\ IsFiniteSet(1 .. n)
    BY DEF FiniteSubsetsOf
  <2>1. 1 \in Int /\ n \in Int
    OBVIOUS
  <2>2. IsFiniteSet(1 .. n)
    BY <2>1, FS_Interval, Zenon
  <2> QED BY <2>2
<1>3. T \subseteq F /\ T # {}
  BY <1>1, <1>2
<1>4. IsWellFoundedOn(R, F)
  BY FS_StrictSubsetOrderingWellFounded
<1> HIDE DEF T, R, F
<1>5. PICK i \in T : \A j \in T : <<j, i>> \notin R
  BY <1>3, <1>4, WFMin
<1>6. PICK x \in S : i = 1 .. f[x]
  BY DEF T
<1>7. ASSUME NEW y \in S, f[y] < f[x] PROVE FALSE
  <2>1. 1 .. f[y] \in T /\ 1 .. f[y] \subseteq 1 .. f[x] /\ 1 .. f[y] \in SUBSET Nat /\ 1 .. f[x] \in SUBSET Nat
    BY <1>1, <1>7 DEF T
  <2>2. f[x] \in 1 .. f[x] /\ f[x] \notin 1 .. f[y]
    BY <1>1, <1>7
  <2>3. <<1 .. f[y], 1 .. f[x]>> \in R
    BY <2>1, <2>2, Zenon DEF R, StrictSubsetOrdering
  <2> QED BY <1>5, <1>6, <2>1, <2>3
<1> QED BY <1>1, <1>7

LEMMA LeastNat ==
    ASSUME NEW S \in SUBSET Nat, S # {}
    PROVE  \E x \in S : \A y \in S : x <= y
<1> DEFINE f == [x \in S |-> x]
<1>1. f \in [S -> Nat]
  OBVIOUS
<1>2. \E x \in S : \A y \in S : f[x] <= f[y]
  BY <1>1, LeastValue
<1> QED BY <1>2

LEMMA GreatestNat ==
    ASSUME NEW S \in SUBSET Nat, S # {}, NEW n \in Nat, \A x \in S : x <= n
    PROVE  \E x \in S : \A y \in S : y <= x
<1> DEFINE f == [x \in S |-> n - x]
<1>1. f \in [S -> Nat]
  OBVIOUS
<1>2. PICK x \in S : \A y \in S : f[x] <= f[y]
  BY <1>1, LeastValue
<1>3. ASSUME NEW y \in S PROVE y <= x
  <2>1. n - x <= n - y
    BY <1>2, <1>3
  <2> QED BY <2>1, <1>3
<1> QED BY <1>3

LEMMA MinIs ==
    ASSUME NEW S \in SUBSET Nat, S # {}
    PROVE  Min(S) \in S /\ \A y \in S : Min(S) <= y
<1>1. \E x \in S : \A y \in S : x <= y
  BY LeastNat
<1> QED BY <1>1 DEF Min

LEMMA MaxIs ==
    ASSUME NEW S \in SUBSET Nat, S # {}, NEW n \in Nat, \A x \in S : x <= n
    PROVE  Max(S) \in S /\ \A y \in S : y <= Max(S)
<1>1. \E x \in S : \A y \in S : x >= y
  BY GreatestNat
<1> QED BY <1>1 DEF Max

LEMMA MinOfTwo == \A a, b \in Nat : Min({a, b}) = IF a <= b THEN a ELSE b
<1> SUFFICES ASSUME NEW a \in Nat, NEW b \in Nat
             PROVE  Min({a, b}) = IF a <= b THEN a ELSE b
  OBVIOUS
<1> DEFINE m == Min({a, b})
<1>1. m \in {a, b} /\ \A y \in {a, b} : m <= y
  BY MinIs
<1> QED BY <1>1

LEMMA MaxOfTwo == \A a, b \in Nat : Max({a, b}) = IF a >= b THEN a ELSE b
<1> SUFFICES ASSUME NEW a \in Nat, NEW b \in Nat
             PROVE  Max({a, b}) = IF a >= b THEN a ELSE b
  OBVIOUS
<1> DEFINE m == Max({a, b})
<1>1. m \in {a, b} /\ \A y \in {a, b} : y <= m
  <2>1. a + b \in Nat /\ \A x \in {a, b} : x <= a + b
    OBVIOUS
  <2> QED BY <2>1, MaxIs
<1> QED BY <1>1

LEMMA RemainderRange == \A a \in Int, b \in Nat \ {0} : a % b \in 0 .. b - 1
  OBVIOUS

\* Numbers closer than n that have the same remainder are equal.
LEMMA SameRemainder ==
    ASSUME NEW n \in Nat \ {0}, NEW a \in Int, NEW b \in Int,
           a % n = b % n, a - b < n, b - a < n
    PROVE  a = b
<1>1. /\ a = n * (a \div n) + (a % n) /\ a \div n \in Int
      /\ b = n * (b \div n) + (b % n) /\ b \div n \in Int
      /\ (a % n) \in Int
  OBVIOUS
<1> DEFINE k == (a \div n) - (b \div n)
<1>2. k \in Int /\ a - b = n * k
  BY <1>1
<1> HIDE DEF k
<1>3. ~(k >= 1)
  <2>1. k >= 1 => n * k >= n
    BY <1>2
  <2> QED BY <1>2, <2>1
<1>4. ~(k <= -1)
  <2>1. k <= -1 => n * k <= -n
    BY <1>2
  <2> QED BY <1>2, <2>1
<1>5. k = 0
  BY <1>2, <1>3, <1>4
<1> QED BY <1>2, <1>5

\* A remainder is the only one in its range.
LEMMA RemainderUnique ==
    ASSUME NEW n \in Nat \ {0}, NEW k \in Int, NEW r \in 0 .. n - 1
    PROVE  (n * k + r) % n = r
<1> DEFINE a == n * k + r
           d == k - (a \div n)
<1>1. n * k \in Int
  OBVIOUS
<1>2. a \in Int
  BY <1>1
<1> HIDE DEF a
<1>3. /\ a = n * (a \div n) + (a % n)
      /\ (a \div n) \in Int /\ (a % n) \in 0 .. n - 1
  BY <1>2, RemainderRange
<1>4. d \in Int /\ n * d = (n * k) - (n * (a \div n))
  BY <1>3
<1>5. n * d = (a % n) - r
  BY <1>1, <1>3, <1>4 DEF a
<1> HIDE DEF d
<1>6. ~(d >= 1)
  <2>1. d >= 1 => n * d >= n
    BY <1>4
  <2> QED BY <1>3, <1>5, <2>1
<1>7. ~(d <= -1)
  <2>1. d <= -1 => n * d <= -n
    BY <1>4
  <2> QED BY <1>3, <1>5, <2>1
<1>8. d = 0
  BY <1>4, <1>6, <1>7
<1>9. (a % n) = r
  BY <1>3, <1>5, <1>8
<1> QED BY <1>9 DEF a

=============================================================================
