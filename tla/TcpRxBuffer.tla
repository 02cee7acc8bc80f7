---------------------------- MODULE TcpRxBuffer ----------------------------
(***************************************************************************)
(* The reassembly buffer of a TCP receiver: TcpRxBuffer (internet/model/   *)
(* tcp-rx-buffer.cc).  A packet is the sequence of the bytes it carries;   *)
(* m_data maps the sequence number a packet is stored at to the packet, so *)
(* that a packet stored at the wrong place would be seen.  A SACK block is *)
(* a pair <<first, second>> standing for [first, second).                  *)
(*                                                                         *)
(* The operators map one state of the buffer to the next.  The loops over  *)
(* m_data, whose packets do not overlap, are stated by where they end.     *)
(* Left out: the FIN, the wrapping of sequence numbers, and a window small *)
(* enough to trim a packet (the experiments set it to a gigabyte).         *)
(***************************************************************************)
EXTENDS Integers, FiniteSets, Sequences, SequencesExt, FiniteSetsExt

CONSTANT MaxBlocks    \* the blocks UpdateSackList keeps: 4

ASSUME RxBufferAssumption == MaxBlocks \in Nat \ {0}

\* A buffer that expects the byte s next (SetNextRxSequence).
NewRxBuffer(s) == [next |-> s, data |-> <<>>, size |-> 0, avail |-> 0,
                   sack |-> <<>>]

\* The end of the packet stored at k, and its bytes; the bytes of some packets,
\* and of all.
After(rx, k) == k + Len(rx.data[k])
Bytes(rx, k) == k .. After(rx, k) - 1
BytesIn(rx, S) == UNION {Bytes(rx, k) : k \in S}
Stored(rx) == BytesIn(rx, DOMAIN rx.data)

\* The first byte from s on that is not stored.
FirstMissing(rx, s) ==
    CHOOSE b \in {s} \cup {After(rx, k) : k \in DOMAIN rx.data} :
        b >= s /\ b \notin Stored(rx) /\ s .. b - 1 \subseteq Stored(rx)

-----------------------------------------------------------------------------
Touches(b, c) == b[1] = c[2] \/ b[2] = c[1]

\* Join the first block with the nearest block it touches; the left merge is
\* tried first.
JoinedOnce(list) ==
    LET b == Head(list)
        touching == {i \in 2 .. Len(list) : Touches(b, list[i])}
        i == Min(touching)
        c == list[i]
    IN  IF touching = {} THEN list
        ELSE <<IF b[1] = c[2] THEN <<c[1], b[2]>> ELSE <<b[1], c[2]>>>>
                 \o RemoveAt(Tail(list), i - 1)

\* The loop starts over after each merge, until nothing touches the first.
Joined(list) ==
    LET join[n \in 0 .. Len(list)] ==
            IF n = 0 THEN list ELSE JoinedOnce(join[n - 1])
    IN  join[Len(list)]

\* UpdateSackList: the newest block goes first, the oldest beyond the limit
\* is forgotten.
UpdateSackList(list, head, tail) ==
    LET joined == Joined(<<<<head, tail>>>> \o list)
    IN  IF Len(joined) > MaxBlocks THEN Front(joined) ELSE joined

\* The elements of a list at the places in S.
Selected(list, S) ==
    [n \in 1 .. Cardinality(S) |->
        list[CHOOSE i \in S : Cardinality(S \cap 1 .. i) = n]]

\* Mutant of ClearSackList: a block that ends where the data now starts stays.
ClearSackListLate(list, s) == Selected(list, {i \in DOMAIN list : list[i][2] >= s})

\* ClearSackList: drop the blocks that are wholly below s.
ClearSackList(list, s) == Selected(list, {i \in DOMAIN list : list[i][2] > s})

-----------------------------------------------------------------------------
\* Mutant of Part: a packet swallowed by the new one is not replaced.
PartOverlapping(rx, s, packet) ==
    LET last == s + Len(packet)
        head == FirstMissing(rx, Max({s, rx.next}))
        later == {k \in DOMAIN rx.data : k > head}
    IN  [head |-> head,
         tail |-> Min({last} \cup {k \in later : k < last /\ After(rx, k) >= last}),
         replaced |-> {}]

\* Mutant of Part: bytes that were delivered before are not cut off.
PartUncut(rx, s, packet) ==
    LET last == s + Len(packet)
        head == FirstMissing(rx, s)
        later == {k \in DOMAIN rx.data : k > head}
    IN  [head |-> head,
         tail |-> Min({last} \cup {k \in later : k < last /\ After(rx, k) >= last}),
         replaced |-> {k \in later : After(rx, k) < last}]

\* What Add(packet, header) stores, header carrying the sequence number s: the
\* bytes [head, tail), without those at its start that are stored, nor those
\* from the packet on that its end lies in, and in place of the packets that lie
\* in between.
Part(rx, s, packet) ==
    LET last == s + Len(packet)
        head == FirstMissing(rx, Max({s, rx.next}))
        later == {k \in DOMAIN rx.data : k > head}
    IN  [head |-> head,
         tail |-> Min({last} \cup {k \in later : k < last /\ After(rx, k) >= last}),
         replaced |-> {k \in later : After(rx, k) < last}]

\* Advance m_nextRxSeq over the packets that follow on each other.
Advanced(rx) ==
    LET next == FirstMissing(rx, rx.next)
    IN  IF next = rx.next THEN rx
        ELSE [rx EXCEPT !.next = next,
                        !.avail = @ + (next - rx.next),
                        !.sack = ClearSackList(@, next)]

\* The part p of a packet with sequence number s takes the place of the packets
\* it replaces.
Inserted(rx, s, packet, p) ==
    [rx EXCEPT
       !.data = [k \in (DOMAIN @ \ p.replaced) \cup {p.head} |->
                    IF k = p.head THEN SubSeq(packet, p.head - s + 1, p.tail - s)
                    ELSE rx.data[k]],
       !.size = @ - Cardinality(BytesIn(rx, p.replaced)) + (p.tail - p.head),
       !.sack = IF p.head > rx.next THEN UpdateSackList(@, p.head, p.tail) ELSE @]

\* Add: nothing is stored, and the call returns false, when no part is left.
Add(rx, s, packet) ==
    LET p == Part(rx, s, packet)
    IN  IF p.head >= p.tail THEN rx ELSE Advanced(Inserted(rx, s, packet, p))

-----------------------------------------------------------------------------
\* The packet that holds the byte b.
Holder(rx, b) == Max({k \in DOMAIN rx.data : k <= b})

\* Extract(n), when something is ready: the bytes handed to the application, and
\* the buffer after it.  A packet that is handed over in part is cut.
Extract(rx, n) ==
    LET first == Min(DOMAIN rx.data)
        taken == Min({n, rx.avail})
        cut == first + taken
        left == {Max({k, cut}) : k \in {j \in DOMAIN rx.data : After(rx, j) > cut}}
        rest(k) == LET j == Holder(rx, k)
                   IN  SubSeq(rx.data[j], k - j + 1, Len(rx.data[j]))
        byte(b) == LET j == Holder(rx, b) IN rx.data[j][b - j + 1]
    IN  [rx |-> [rx EXCEPT !.data = [k \in left |-> rest(k)],
                           !.size = @ - taken,
                           !.avail = @ - taken],
         out |-> [i \in 1 .. taken |-> byte(first + i - 1)]]
=============================================================================
