--------------------------- MODULE HostLinkProofs ---------------------------
(***************************************************************************)
(* The host loses no packet and its peer sees first copies in the order    *)
(* of sending, for every number of queues, both disciplines and every      *)
(* number of packets.                                                      *)
(*                                                                         *)
(* The inductive invariant (HostInv) speaks of the packets transmitted so  *)
(* far, received \o wire: each is new only after all those before it, and  *)
(* the ones still missing are all in queue 0, in order.  Queue 0 is served *)
(* before any other, so a packet taken from another queue is a second      *)
(* copy, and the head of queue 0 is the least of those missing.            *)
(***************************************************************************)
EXTENDS HostLink, QueueSchedulerProofs, SequenceTheorems, TLAPS

InOrder(s) == \A i, j \in DOMAIN s : i <= j => s[i] <= s[j]

\* Each element of s occurs after every smaller number.
FreshFirst(s) == \A i \in DOMAIN s : \A p \in 1 .. s[i] : \E j \in 1 .. i : s[j] = p

\* The packets 1 .. n are in s, transmitted, or in queue 0 of Q.
Carries(Q, s, n) ==
    /\ Q \in [SubQueues -> Seq(1 .. n)]
    /\ s \in Seq(1 .. n)
    /\ InOrder(Q[0])
    /\ FreshFirst(s)
    /\ 1 .. n \subseteq Entries(s) \cup Entries(Q[0])

HostInv ==
    /\ sent \in Nat
    /\ wire \in Seq(Nat)
    /\ received \in Seq(Nat)
    /\ Carries(queue, received \o wire, sent)

-----------------------------------------------------------------------------
LEMMA QueueZero == 0 \in UsedQueues /\ 0 \in SubQueues
  BY SchedulerAssumption DEF UsedQueues, SubQueues

LEMMA NextQueueFacts ==
    ASSUME NEW Q, NEW q \in NextQueue(Q)
    PROVE  q \in UsedQueues /\ Q[q] # <<>> /\ (q # 0 => Q[0] = <<>>)
<1>1. CASE PCType = "PCNONE"
  BY <1>1, QueueZero DEF NextQueue
<1>2. CASE PCType # "PCNONE"
  <2>1. q \in Lowest({r \in UsedQueues : Q[r] # <<>>})
    BY <1>2 DEF NextQueue
  <2>2. q \in UsedQueues /\ Q[q] # <<>>
        /\ \A r \in {u \in UsedQueues : Q[u] # <<>>} : q <= r
    BY <2>1 DEF Lowest
  <2>3. q \in 0 .. UseqCnt - 1 /\ UseqCnt \in Int
    BY <2>2, SchedulerAssumption DEF UsedQueues
  <2>4. ASSUME q # 0, Q[0] # <<>> PROVE FALSE
    <3>1. q <= 0
      BY <2>2, <2>4, QueueZero
    <3> QED BY <2>3, <2>4, <3>1
  <2> QED BY <2>2, <2>4
<1> QED BY <1>1, <1>2

LEMMA InOrderTail ==
    ASSUME NEW s \in Seq(Nat), s # <<>>, InOrder(s)
    PROVE  /\ InOrder(Tail(s))
           /\ \A i \in DOMAIN s : Head(s) <= s[i]
           /\ Entries(s) = {Head(s)} \cup Entries(Tail(s))
           /\ Entries(Tail(s)) \subseteq Entries(s)
<1>1. /\ Len(s) \in Nat /\ Len(s) > 0 /\ DOMAIN s = 1 .. Len(s) /\ Head(s) = s[1]
      /\ Tail(s) \in Seq(Nat) /\ Len(Tail(s)) = Len(s) - 1
      /\ DOMAIN Tail(s) = 1 .. Len(s) - 1
      /\ \A i \in 1 .. Len(s) - 1 : Tail(s)[i] = s[i + 1]
  OBVIOUS
<1>2. InOrder(Tail(s))
  <2> SUFFICES ASSUME NEW i \in DOMAIN Tail(s), NEW j \in DOMAIN Tail(s), i <= j
               PROVE  Tail(s)[i] <= Tail(s)[j]
    BY DEF InOrder
  <2>1. i + 1 \in DOMAIN s /\ j + 1 \in DOMAIN s /\ i + 1 <= j + 1
    BY <1>1
  <2>2. s[i + 1] <= s[j + 1]
    BY <2>1 DEF InOrder
  <2> QED BY <1>1, <2>2
<1>3. \A i \in DOMAIN s : Head(s) <= s[i]
  <2> TAKE i \in DOMAIN s
  <2>1. 1 \in DOMAIN s /\ 1 <= i
    BY <1>1
  <2>2. s[1] <= s[i]
    BY <2>1 DEF InOrder
  <2> QED BY <1>1, <2>2
<1>4. ASSUME NEW i \in DOMAIN s PROVE s[i] \in {Head(s)} \cup Entries(Tail(s))
  <2>1. CASE i = 1
    BY <1>1, <2>1
  <2>2. CASE i # 1
    <3>1. i - 1 \in DOMAIN Tail(s) /\ Tail(s)[i - 1] = s[i]
      BY <1>1, <2>2
    <3> QED BY <3>1 DEF Entries
  <2> QED BY <2>1, <2>2
<1>5. ASSUME NEW i \in DOMAIN Tail(s) PROVE Tail(s)[i] \in Entries(s)
  <2>1. i + 1 \in DOMAIN s /\ Tail(s)[i] = s[i + 1]
    BY <1>1
  <2> QED BY <2>1 DEF Entries
<1>6. Head(s) \in Entries(s)
  BY <1>1 DEF Entries
<1>7. Entries(Tail(s)) \subseteq Entries(s)
  BY <1>5 DEF Entries
<1>8. Entries(s) \subseteq {Head(s)} \cup Entries(Tail(s))
  BY <1>4 DEF Entries
<1> QED BY <1>2, <1>3, <1>6, <1>7, <1>8

LEMMA EntriesAppend ==
    ASSUME NEW s \in Seq(Nat), NEW e \in Nat
    PROVE  Entries(Append(s, e)) = Entries(s) \cup {e}
<1>1. /\ Len(s) \in Nat /\ DOMAIN s = 1 .. Len(s)
      /\ DOMAIN Append(s, e) = 1 .. Len(s) + 1
      /\ \A i \in 1 .. Len(s) : Append(s, e)[i] = s[i]
      /\ Append(s, e)[Len(s) + 1] = e
  OBVIOUS
<1>2. ASSUME NEW x PROVE x \in Entries(Append(s, e)) <=> x \in Entries(s) \cup {e}
  <2>1. ASSUME x \in Entries(Append(s, e)) PROVE x \in Entries(s) \cup {e}
    <3>1. PICK i \in 1 .. Len(s) + 1 : x = Append(s, e)[i]
      BY <1>1, <2>1 DEF Entries
    <3> QED BY <1>1, <3>1 DEF Entries
  <2>2. ASSUME x \in Entries(s) PROVE x \in Entries(Append(s, e))
    <3>1. PICK i \in 1 .. Len(s) : x = s[i]
      BY <1>1, <2>2 DEF Entries
    <3>2. i \in DOMAIN Append(s, e) /\ x = Append(s, e)[i]
      BY <1>1, <3>1
    <3> QED BY <3>2 DEF Entries
  <2>3. e \in Entries(Append(s, e))
    <3>1. Len(s) + 1 \in DOMAIN Append(s, e)
      BY <1>1
    <3> QED BY <1>1, <3>1 DEF Entries
  <2> QED BY <2>1, <2>2, <2>3
<1> QED BY <1>2

LEMMA InOrderAppend ==
    ASSUME NEW s \in Seq(Nat), InOrder(s), NEW e \in Nat,
           \A i \in DOMAIN s : s[i] <= e
    PROVE  /\ InOrder(Append(s, e))
           /\ Entries(Append(s, e)) = Entries(s) \cup {e}
<1>1. /\ Len(s) \in Nat /\ DOMAIN s = 1 .. Len(s)
      /\ DOMAIN Append(s, e) = 1 .. Len(s) + 1
      /\ \A i \in 1 .. Len(s) : Append(s, e)[i] = s[i]
      /\ Append(s, e)[Len(s) + 1] = e
      /\ \A i \in 1 .. Len(s) : s[i] \in Nat
  OBVIOUS
<1>2. InOrder(Append(s, e))
  <2> SUFFICES ASSUME NEW i \in DOMAIN Append(s, e), NEW j \in DOMAIN Append(s, e), i <= j
               PROVE  Append(s, e)[i] <= Append(s, e)[j]
    BY DEF InOrder
  <2>1. CASE j \in DOMAIN s
    <3>1. i \in DOMAIN s
      BY <1>1, <2>1
    <3>2. s[i] <= s[j]
      BY <2>1, <3>1 DEF InOrder
    <3> QED BY <1>1, <2>1, <3>1, <3>2
  <2>2. CASE j \notin DOMAIN s
    <3>1. Append(s, e)[j] = e
      BY <1>1, <2>2
    <3>2. Append(s, e)[i] <= e
      BY <1>1
    <3> QED BY <3>1, <3>2
  <2> QED BY <2>1, <2>2
<1> QED BY <1>2, EntriesAppend

LEMMA FreshFirstAppend ==
    ASSUME NEW s \in Seq(Nat), FreshFirst(s), NEW e \in Nat,
           1 .. e - 1 \subseteq Entries(s)
    PROVE  FreshFirst(Append(s, e)) /\ Entries(Append(s, e)) = Entries(s) \cup {e}
<1> DEFINE t == Append(s, e)
<1>1. /\ Len(s) \in Nat /\ DOMAIN s = 1 .. Len(s) /\ DOMAIN t = 1 .. Len(s) + 1
      /\ \A i \in 1 .. Len(s) : t[i] = s[i]
      /\ t[Len(s) + 1] = e
      /\ \A i \in 1 .. Len(s) : s[i] \in Nat
  OBVIOUS
<1> HIDE DEF t
<1>2. ASSUME NEW i \in DOMAIN t, NEW p \in 1 .. t[i]
      PROVE  \E j \in 1 .. i : t[j] = p
  <2>1. CASE i \in DOMAIN s
    <3>1. p \in 1 .. s[i]
      BY <1>1, <2>1
    <3>2. PICK j \in 1 .. i : s[j] = p
      BY <2>1, <3>1 DEF FreshFirst
    <3>3. j \in 1 .. Len(s)
      BY <1>1, <2>1
    <3> QED BY <1>1, <3>2, <3>3
  <2>2. CASE i \notin DOMAIN s
    <3>1. i = Len(s) + 1 /\ p \in 1 .. e
      BY <1>1, <2>2
    <3>2. CASE p = e
      <4>1. i \in 1 .. i /\ t[i] = p
        BY <1>1, <3>1, <3>2
      <4> QED BY <4>1
    <3>3. CASE p # e
      <4>1. p \in Entries(s)
        BY <3>1, <3>3
      <4>2. PICK j \in DOMAIN s : s[j] = p
        BY <4>1 DEF Entries
      <4>3. j \in 1 .. i /\ t[j] = p
        BY <1>1, <3>1, <4>2
      <4> QED BY <4>3
    <3> QED BY <3>2, <3>3
  <2> QED BY <2>1, <2>2
<1>3. FreshFirst(t)
  BY <1>2 DEF FreshFirst
<1> QED BY <1>3, EntriesAppend DEF t

-----------------------------------------------------------------------------
\* Taking the next packet and sending it keeps every packet.
LEMMA TransmitCarries ==
    ASSUME NEW Q, NEW n \in Nat, wire \in Seq(Nat), received \in Seq(Nat),
           Carries(Q, received \o wire, n), Transmit(Q)
    PROVE  wire' \in Seq(Nat) /\ Carries(queue', received \o wire', n)
<1> DEFINE s == received \o wire
<1>1. CASE NextQueue(Q) = {} /\ queue' = Q /\ wire' = wire
  BY <1>1
<1>2. ASSUME NEW q \in NextQueue(Q), queue' = [Q EXCEPT ![q] = Tail(@)],
             wire' = Append(wire, Head(Q[q]))
      PROVE  wire' \in Seq(Nat) /\ Carries(queue', received \o wire', n)
  <2> DEFINE e == Head(Q[q])
  <2>1. q \in SubQueues /\ Q[q] # <<>> /\ (q # 0 => Q[0] = <<>>)
    BY NextQueueFacts, UsedQueuesAreSubQueues
  <2>2. /\ Q \in [SubQueues -> Seq(1 .. n)] /\ s \in Seq(1 .. n) /\ InOrder(Q[0])
        /\ FreshFirst(s) /\ 1 .. n \subseteq Entries(s) \cup Entries(Q[0])
    BY DEF Carries
  <2>3. Q[q] \in Seq(1 .. n) /\ e \in 1 .. n /\ Tail(Q[q]) \in Seq(1 .. n)
    BY <2>1, <2>2
  <2>4. e \in Nat /\ wire' \in Seq(Nat)
    BY <1>2, <2>3
  <2>5. received \o wire' = Append(s, e)
    <3>1. <<e>> \in Seq(Nat) /\ wire' = wire \o <<e>>
      BY <1>2, <2>4
    <3>2. s \in Seq(Nat) /\ Append(s, e) = s \o <<e>>
      BY <2>4
    <3>3. (received \o wire) \o <<e>> = received \o (wire \o <<e>>)
      BY <3>1, ConcatAssociative
    <3> QED BY <3>1, <3>2, <3>3
  <2>6. Q[0] \in Seq(1 .. n) /\ s \in Seq(Nat)
    BY <2>2, QueueZero
  <2>7. Q[0] \in Seq(Nat)
    BY <2>6
  <2>8. queue' \in [SubQueues -> Seq(1 .. n)] /\ queue'[q] = Tail(Q[q])
        /\ \A r \in SubQueues : r # q => queue'[r] = Q[r]
    BY <1>2, <2>1, <2>2, <2>3
  <2>9. Append(s, e) \in Seq(1 .. n)
    BY <2>2, <2>3
  <2>10. 1 .. e - 1 \subseteq Entries(s)
    <3> SUFFICES ASSUME NEW p \in 1 .. e - 1, p \in Entries(Q[0]) PROVE FALSE
      BY <2>2, <2>3
    <3>1. PICK i \in DOMAIN Q[0] : Q[0][i] = p
      BY DEF Entries
    <3>2. q = 0
      BY <2>1, <3>1
    <3>3. e <= p
      BY <2>1, <2>2, <2>7, <3>1, <3>2, InOrderTail
    <3> QED BY <2>4, <3>3
  <2>11. FreshFirst(Append(s, e)) /\ Entries(Append(s, e)) = Entries(s) \cup {e}
    BY <2>2, <2>4, <2>6, <2>10, FreshFirstAppend
  <2>12. InOrder(queue'[0]) /\ 1 .. n \subseteq Entries(Append(s, e)) \cup Entries(queue'[0])
    <3>1. CASE q = 0
      <4>1. InOrder(Tail(Q[0])) /\ Entries(Q[0]) = {e} \cup Entries(Tail(Q[0]))
        BY <2>1, <2>2, <2>7, <3>1, InOrderTail
      <4> QED BY <2>2, <2>8, <2>11, <3>1, <4>1
    <3>2. CASE q # 0
      BY <2>2, <2>8, <2>11, <3>2, QueueZero
    <3> QED BY <3>1, <3>2
  <2> QED BY <2>4, <2>5, <2>8, <2>9, <2>11, <2>12 DEF Carries
<1> QED BY <1>1, <1>2 DEF Transmit

\* One more packet is sent: Doubled() puts it at the end of queue 0.
LEMMA DoubledCarries ==
    ASSUME HostInv, NEW q \in SubQueues
    PROVE  Carries(Doubled(q), received \o wire, sent + 1)
<1> DEFINE s == received \o wire
           e == sent + 1
           first == IF PCType = "PCPQ" THEN q ELSE 0
           M == Enqueued(queue, first, e)
<1>1. /\ sent \in Nat /\ queue \in [SubQueues -> Seq(1 .. sent)] /\ s \in Seq(1 .. sent)
      /\ InOrder(queue[0]) /\ FreshFirst(s)
      /\ 1 .. sent \subseteq Entries(s) \cup Entries(queue[0])
  BY DEF HostInv, Carries
<1>2. e \in Nat /\ 1 .. sent \subseteq 1 .. e /\ e \in 1 .. e /\ 1 .. e = 1 .. sent \cup {e}
  BY <1>1
<1>3. queue \in [SubQueues -> Seq(1 .. e)] /\ s \in Seq(1 .. e)
  BY <1>1, <1>2
<1>4. first \in SubQueues
  BY QueueZero
<1>5. ASSUME NEW r \in SubQueues, NEW R \in [SubQueues -> Seq(1 .. e)], InOrder(R[0])
      PROVE  /\ Enqueued(R, r, e) \in [SubQueues -> Seq(1 .. e)]
             /\ InOrder(Enqueued(R, r, e)[0])
             /\ Entries(R[0]) \subseteq Entries(Enqueued(R, r, e)[0])
             /\ r = 0 => e \in Entries(Enqueued(R, r, e)[0])
  <2>1. CASE r \in UsedQueues
    <3>1. Enqueued(R, r, e) = [R EXCEPT ![r] = Append(@, e)]
      BY <2>1 DEF Enqueued
    <3>2. R[r] \in Seq(1 .. e) /\ Append(R[r], e) \in Seq(1 .. e)
      BY <1>2
    <3>3. CASE r = 0
      <4>1. R[0] \in Seq(Nat) /\ \A i \in DOMAIN R[0] : R[0][i] <= e
        BY <1>2, <3>2, <3>3
      <4>2. InOrder(Append(R[0], e)) /\ Entries(Append(R[0], e)) = Entries(R[0]) \cup {e}
        BY <1>2, <1>5, <4>1, InOrderAppend
      <4> QED BY <1>5, <3>1, <3>2, <3>3, <4>2
    <3>4. CASE r # 0
      <4>1. Enqueued(R, r, e)[0] = R[0]
        BY <3>1, <3>4, QueueZero
      <4> QED BY <1>5, <3>1, <3>2, <3>4, <4>1
    <3> QED BY <3>3, <3>4
  <2>2. CASE r \notin UsedQueues
    BY <1>5, <2>2, QueueZero DEF Enqueued
  <2> QED BY <2>1, <2>2
<1> HIDE DEF first, e
<1>6. /\ M \in [SubQueues -> Seq(1 .. e)] /\ InOrder(M[0])
      /\ Entries(queue[0]) \subseteq Entries(M[0])
  BY <1>1, <1>3, <1>4, <1>5
<1> HIDE DEF M
<1>7. /\ Enqueued(M, 0, e) \in [SubQueues -> Seq(1 .. e)]
      /\ InOrder(Enqueued(M, 0, e)[0])
      /\ Entries(M[0]) \subseteq Entries(Enqueued(M, 0, e)[0])
      /\ e \in Entries(Enqueued(M, 0, e)[0])
  BY <1>5, <1>6, QueueZero
<1>8. Doubled(q) = Enqueued(M, 0, e)
  BY DEF Doubled, M, e, first
<1>9. 1 .. e \subseteq Entries(s) \cup Entries(Enqueued(M, 0, e)[0])
  BY <1>1, <1>2, <1>6, <1>7
<1> QED BY <1>1, <1>3, <1>7, <1>8, <1>9 DEF Carries, e

-----------------------------------------------------------------------------
LEMMA HostInit == Init => HostInv
<1> SUFFICES ASSUME Init PROVE HostInv
  OBVIOUS
<1>1. received \o wire = <<>> /\ sent = 0 /\ queue[0] = <<>>
  BY QueueZero DEF Init
<1>2. InOrder(<<>>) /\ FreshFirst(<<>>) /\ 1 .. 0 = {}
  BY DEF InOrder, FreshFirst
<1>3. queue \in [SubQueues -> Seq(1 .. sent)]
  BY <1>1 DEF Init
<1> QED BY <1>1, <1>2, <1>3 DEF Init, HostInv, Carries

LEMMA HostStep == HostInv /\ [Next]_vars => HostInv'
<1> SUFFICES ASSUME HostInv, [Next]_vars PROVE HostInv'
  OBVIOUS
<1>1. sent \in Nat /\ wire \in Seq(Nat) /\ received \in Seq(Nat)
      /\ Carries(queue, received \o wire, sent)
  BY DEF HostInv
<1>2. ASSUME NEW q \in SubQueues, SendNode(q) PROVE HostInv'
  <2>1. sent' = sent + 1 /\ received' = received
    BY <1>2 DEF SendNode
  <2>2. Carries(Doubled(q), received \o wire, sent')
    BY <2>1, DoubledCarries
  <2>3. CASE Transmit(Doubled(q))
    <3>1. wire' \in Seq(Nat) /\ Carries(queue', received \o wire', sent')
      BY <1>1, <2>1, <2>2, <2>3, TransmitCarries
    <3> QED BY <1>1, <2>1, <3>1 DEF HostInv
  <2>4. CASE queue' = Doubled(q) /\ wire' = wire
    BY <1>1, <2>1, <2>2, <2>4 DEF HostInv
  <2> QED BY <1>2, <2>3, <2>4 DEF SendNode
<1>3. CASE TransmitCompleteNode
  <2>1. Transmit(queue) /\ sent' = sent /\ received' = received
    BY <1>3 DEF TransmitCompleteNode
  <2>2. wire' \in Seq(Nat) /\ Carries(queue', received \o wire', sent)
    BY <1>1, <2>1, TransmitCarries
  <2> QED BY <1>1, <2>1, <2>2 DEF HostInv
<1>4. CASE Receive
  <2>1. /\ wire # <<>> /\ wire' = Tail(wire) /\ received' = Append(received, Head(wire))
        /\ queue' = queue /\ sent' = sent
    BY <1>4 DEF Receive
  <2>2. Head(wire) \in Nat /\ wire' \in Seq(Nat) /\ received' \in Seq(Nat)
    BY <1>1, <2>1
  <2>3. received' \o wire' = received \o wire
    <3>1. wire = <<Head(wire)>> \o Tail(wire)
      BY <1>1, <2>1
    <3>2. received' = received \o <<Head(wire)>>
      BY <1>1, <2>1, <2>2, AppendIsConcat
    <3>3. <<Head(wire)>> \in Seq(Nat) /\ Tail(wire) \in Seq(Nat)
      BY <1>1, <2>1, <2>2
    <3>4. (received \o <<Head(wire)>>) \o Tail(wire) = received \o (<<Head(wire)>> \o Tail(wire))
      BY <1>1, <3>3, ConcatAssociative
    <3> QED BY <2>1, <3>1, <3>2, <3>4
  <2> QED BY <1>1, <2>1, <2>2, <2>3 DEF HostInv
<1>5. CASE UNCHANGED vars
  BY <1>1, <1>5 DEF HostInv, vars
<1> QED BY <1>2, <1>3, <1>4, <1>5 DEF Next

LEMMA HostInvHolds == Spec => []HostInv
  BY HostInit, HostStep, PTL DEF Spec

LEMMA EntriesRange ==
    ASSUME NEW S, NEW s \in Seq(S)
    PROVE  Entries(s) \subseteq S
<1>1. ASSUME NEW i \in DOMAIN s PROVE s[i] \in S
  OBVIOUS
<1> QED BY <1>1 DEF Entries

LEMMA EntriesConcat ==
    ASSUME NEW s \in Seq(Nat), NEW t \in Seq(Nat)
    PROVE  Entries(s \o t) = Entries(s) \cup Entries(t)
<1>1. /\ Len(s) \in Nat /\ Len(t) \in Nat
      /\ DOMAIN s = 1 .. Len(s) /\ DOMAIN t = 1 .. Len(t)
      /\ DOMAIN (s \o t) = 1 .. Len(s) + Len(t)
      /\ \A i \in 1 .. Len(s) : (s \o t)[i] = s[i]
      /\ \A i \in Len(s) + 1 .. Len(s) + Len(t) : (s \o t)[i] = t[i - Len(s)]
  OBVIOUS
<1>2. ASSUME NEW x \in Entries(s \o t) PROVE x \in Entries(s) \cup Entries(t)
  <2>1. PICK i \in 1 .. Len(s) + Len(t) : x = (s \o t)[i]
    BY <1>1 DEF Entries
  <2>2. CASE i <= Len(s)
    BY <1>1, <2>1, <2>2 DEF Entries
  <2>3. CASE ~(i <= Len(s))
    <3>1. i - Len(s) \in DOMAIN t /\ x = t[i - Len(s)]
      BY <1>1, <2>1, <2>3
    <3> QED BY <3>1 DEF Entries
  <2> QED BY <2>2, <2>3
<1>3. ASSUME NEW i \in DOMAIN s PROVE s[i] \in Entries(s \o t)
  <2>1. i \in DOMAIN (s \o t) /\ (s \o t)[i] = s[i]
    BY <1>1
  <2> QED BY <2>1 DEF Entries
<1>4. ASSUME NEW i \in DOMAIN t PROVE t[i] \in Entries(s \o t)
  <2>1. i + Len(s) \in Len(s) + 1 .. Len(s) + Len(t) /\ (i + Len(s)) - Len(s) = i
    BY <1>1
  <2>2. i + Len(s) \in DOMAIN (s \o t) /\ (s \o t)[i + Len(s)] = t[i]
    BY <1>1, <2>1
  <2> QED BY <2>2 DEF Entries
<1>5. Entries(s) \subseteq Entries(s \o t) /\ Entries(t) \subseteq Entries(s \o t)
  BY <1>3, <1>4 DEF Entries
<1> QED BY <1>2, <1>5

\* Every packet the host has sent has been received, is on the wire or is in a
\* queue, and there is no other packet: SendNode() queues a packet in
\* sub-queue 0 whatever else it does with it.
THEOREM NothingLostCorrect == Spec => []NothingLost
<1>1. HostInv => NothingLost
  <2> SUFFICES ASSUME HostInv PROVE NothingLost
    OBVIOUS
  <2> DEFINE U == UNION {Entries(queue[q]) : q \in SubQueues}
  <2>1. /\ received \in Seq(Nat) /\ wire \in Seq(Nat)
        /\ queue \in [SubQueues -> Seq(1 .. sent)]
        /\ received \o wire \in Seq(1 .. sent)
        /\ 1 .. sent \subseteq Entries(received \o wire) \cup Entries(queue[0])
    BY DEF HostInv, Carries
  <2>2. Entries(received \o wire) = Entries(received) \cup Entries(wire)
    BY <2>1, EntriesConcat
  <2>3. \A s \in Seq(1 .. sent) : Entries(s) \subseteq 1 .. sent
    BY EntriesRange
  <2>4. U \subseteq 1 .. sent
    BY <2>1, <2>3
  <2>5. Entries(queue[0]) \subseteq U
    BY QueueZero
  <2>6. Entries(received \o wire) \subseteq 1 .. sent
    BY <2>1, <2>3
  <2> QED BY <2>1, <2>2, <2>4, <2>5, <2>6 DEF NothingLost
<1> QED BY <1>1, HostInvHolds, PTL

\* The two copies of a packet may be served in any order of priority, and yet
\* a packet that arrives for the first time has been preceded by all those
\* sent before it.
THEOREM FreshInOrderCorrect == Spec => []FreshInOrder
<1>1. HostInv => FreshInOrder
  <2> SUFFICES ASSUME HostInv, NEW packet \in Entries(received), NEW p \in 1 .. packet
               PROVE  p \in Entries(received)
    BY DEF FreshInOrder
  <2> DEFINE s == received \o wire
  <2>1. received \in Seq(Nat) /\ wire \in Seq(Nat) /\ FreshFirst(s)
    BY DEF HostInv, Carries
  <2>2. /\ Len(received) \in Nat /\ Len(wire) \in Nat
        /\ DOMAIN received = 1 .. Len(received)
        /\ DOMAIN s = 1 .. Len(received) + Len(wire)
        /\ \A i \in 1 .. Len(received) : s[i] = received[i]
    BY <2>1
  <2>3. PICK i \in 1 .. Len(received) : packet = received[i]
    BY <2>2 DEF Entries
  <2>4. i \in DOMAIN s /\ p \in 1 .. s[i]
    BY <2>2, <2>3
  <2>5. PICK j \in 1 .. i : s[j] = p
    BY <2>1, <2>4 DEF FreshFirst
  <2>6. j \in DOMAIN received /\ received[j] = p
    BY <2>2, <2>5
  <2> QED BY <2>6 DEF Entries
<1> QED BY <1>1, HostInvHolds, PTL

=============================================================================
