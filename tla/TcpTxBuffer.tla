---------------------------- MODULE TcpTxBuffer ----------------------------
(***************************************************************************)
(* The buffer and scoreboard of a TCP sender with SACK: TcpTxBuffer        *)
(* (internet/model/tcp-tx-buffer.cc).  m_sentList, the items sent and not  *)
(* acknowledged, is a function from the first byte of each (m_startSeq) to *)
(* its size and its marks; m_appList is the number of bytes not sent yet,  *)
(* for GetNewSegment() cuts them at will.  m_highestSack is an iterator,   *)
(* here the first byte of its item (0 is end()), and the sequence number   *)
(* noted with it.                                                          *)
(*                                                                         *)
(* The operators map one state of the buffer to the next.  Left out: the   *)
(* calls for a peer without SACK, those of the persist timer, a full       *)
(* buffer, the window of the receiver and the wrapping of numbers.         *)
(***************************************************************************)
EXTENDS Integers, FiniteSets, Sequences, FiniteSetsExt

CONSTANTS SegmentSize,   \* m_segmentSize
          DupAckThresh   \* m_dupAckThresh: the attribute ReTxThreshold

ASSUME TxBufferAssumption ==
    /\ SegmentSize \in Nat \ {0}
    /\ DupAckThresh \in Nat \ {0}

NoHighest == [at |-> 0, seq |-> 0]

\* An empty buffer whose first byte is s (SetHeadSequence).
NewTxBuffer(s) == [first |-> s, sent |-> <<>>, sentSize |-> 0, app |-> 0,
                   highest |-> NoHighest,
                   sackedOut |-> 0, lostOut |-> 0, retrans |-> 0]

\* The first byte after item k; the bytes of the items in S, and how many.
End(tx, k) == k + tx.sent[k].size
Span(tx, S) == UNION {k .. End(tx, k) - 1 : k \in S}
Amount(tx, S) == Cardinality(Span(tx, S))

Items(tx)  == DOMAIN tx.sent
Sacked(tx) == {k \in Items(tx) : tx.sent[k].sacked}
Lost(tx)   == {k \in Items(tx) : tx.sent[k].lost}
Resent(tx) == {k \in Items(tx) : tx.sent[k].retrans}

SentEnd(tx) == tx.first + tx.sentSize

\* TailSequence and SizeFromSequence.
TailSequence(tx) == SentEnd(tx) + tx.app
SizeFrom(tx, s) == IF s <= TailSequence(tx) THEN TailSequence(tx) - s ELSE 0

WriteTo(tx, n) == [tx EXCEPT !.app = @ + n]

-----------------------------------------------------------------------------
\* SplitItems: the first n bytes of item k become an item of their own; the
\* iterator stays with the rest.
Split(tx, k, n) ==
    LET item == tx.sent[k]
    IN  [tx EXCEPT
          !.sent = [j \in DOMAIN @ \cup {k + n} |->
                      IF j = k THEN [item EXCEPT !.size = n]
                      ELSE IF j = k + n THEN [item EXCEPT !.size = @ - n]
                      ELSE tx.sent[j]],
          !.highest.at = IF @ = k THEN k + n ELSE @]

\* MergeItems: item k takes over the item after it.  If only one of the two
\* was retransmitted the mark is taken back.
Merge(tx, k) ==
    LET a == tx.sent[k]
        b == tx.sent[End(tx, k)]
        unmarked == IF a.retrans = b.retrans THEN 0
                    ELSE IF a.retrans THEN a.size ELSE b.size
    IN  [tx EXCEPT
          !.sent = [j \in DOMAIN @ \ {End(tx, k)} |->
                      IF j = k THEN [a EXCEPT !.size = @ + b.size,
                                              !.retrans = @ /\ b.retrans]
                      ELSE tx.sent[j]],
          !.retrans = @ - unmarked]

\* GetPacketFromList: make item k exactly n bytes long.  GetTransmittedSegment
\* asks for no more than the item and the next.
Cut(tx, k, n) ==
    LET long == IF n > tx.sent[k].size THEN Merge(tx, k) ELSE tx
    IN  IF n < long.sent[k].size THEN Split(long, k, n) ELSE long

\* GetTransmittedSegment: retransmit up to n bytes from item k on, together
\* with part of the next if that is not sacked and as lost as this one.
Retransmit(tx, k, n) ==
    LET item == tx.sent[k]
        next == End(tx, k)
        mergeable == /\ next \in Items(tx)
                     /\ ~tx.sent[next].sacked
                     /\ tx.sent[next].lost = item.lost
        room == IF mergeable THEN item.size + tx.sent[next].size ELSE item.size
        cut == Cut(tx, k, Min({n, room}))
    IN  IF cut.sent[k].retrans THEN cut
        ELSE [cut EXCEPT !.sent[k].retrans = TRUE,
                         !.retrans = @ + cut.sent[k].size]

\* GetNewSegment: send up to n bytes for the first time.
SendNew(tx, n) ==
    LET size == Min({n, tx.app})
        item == [size |-> size, sacked |-> FALSE, lost |-> FALSE, retrans |-> FALSE]
    IN  [tx EXCEPT !.app = @ - size,
                   !.sentSize = @ + size,
                   !.sent = [j \in DOMAIN @ \cup {SentEnd(tx)} |->
                               IF j = SentEnd(tx) THEN item ELSE tx.sent[j]]]

\* CopyFromSequence(n, s): the buffer after it, and the size of the segment.
\* A block that was sent in part is cut where the new data starts.
CopyFrom(tx, n, s) ==
    IF s >= SentEnd(tx)
    THEN [tx |-> SendNew(tx, n), size |-> Min({n, tx.app})]
    ELSE LET out == Retransmit(tx, s, Min({n, SentEnd(tx) - s}))
         IN  [tx |-> out, size |-> out.sent[s].size]

-----------------------------------------------------------------------------
\* Mutant of Uncounted: the count of retransmitted bytes is forgotten.
UncountedRetrans(tx, bytes) ==
    [tx EXCEPT !.sackedOut = @ - Cardinality(bytes \cap Span(tx, Sacked(tx))),
               !.lostOut = @ - Cardinality(bytes \cap Span(tx, Lost(tx)))]

\* RemoveFromCounts, for all the bytes that go.
Uncounted(tx, bytes) ==
    [tx EXCEPT !.sackedOut = @ - Cardinality(bytes \cap Span(tx, Sacked(tx))),
               !.lostOut = @ - Cardinality(bytes \cap Span(tx, Lost(tx))),
               !.retrans = @ - Cardinality(bytes \cap Span(tx, Resent(tx)))]

\* The item that holds the byte b.
ItemAt(tx, b) == CHOOSE k \in Items(tx) : k <= b /\ b < End(tx, k)

\* The loop of DiscardUpTo(s): whole items go, and one that s lies in is cut.
\* An ACK is never beyond what was sent.
Discarded(tx, s) ==
    LET kept == {k \in Items(tx) : End(tx, k) > s}
        rest(k) == LET j == ItemAt(tx, k)
                   IN  [tx.sent[j] EXCEPT !.size = End(tx, j) - k]
        at == tx.highest.at
    IN  [Uncounted(tx, tx.first .. s - 1) EXCEPT
          !.first = s,
          !.sentSize = @ - (s - tx.first),
          !.sent = [k \in {Max({j, s}) : j \in kept} |-> rest(k)],
          !.highest.at = IF at \in kept THEN Max({at, s}) ELSE at]

\* Mutant of DiscardUpTo: the iterator of the highest SACK is not reset.
DiscardUpToDangling(tx, s) == IF tx.first >= s THEN tx ELSE Discarded(tx, s)

\* Mutant of DiscardUpTo: one item per call.
DiscardUpToOne(tx, s) ==
    IF tx.first >= s THEN tx ELSE Discarded(tx, Min({s, End(tx, tx.first)}))

\* DiscardUpTo(s).  That it leaves a head marked sacked, which it would then
\* unmark, is what HeadUnsacked excludes.
DiscardUpTo(tx, s) ==
    LET left == Discarded(tx, s)
    IN  IF tx.first >= s THEN tx
        ELSE [left EXCEPT !.highest = IF @.seq <= left.first THEN NoHighest ELSE @]

-----------------------------------------------------------------------------
\* The items of tx, with those in S changed by f.
Changed(tx, S, f(_)) ==
    [k \in Items(tx) |-> IF k \in S THEN f(tx.sent[k]) ELSE tx.sent[k]]

\* Mutant of SackBlock: an item is marked when it starts in the block.
SackBlockStarts(tx, block) ==
    LET new == {k \in Items(tx) \ Sacked(tx) : k \in block[1] .. block[2]}
    IN  [tx EXCEPT
          !.sent = Changed(tx, new, LAMBDA item : [item EXCEPT !.sacked = TRUE]),
          !.sackedOut = @ + Amount(tx, new)]

\* Update for one block of a SACK option: mark the items that lie in it.  The
\* items are visited in ascending order, so the last one marked decides
\* whether m_highestSack moves.
SackBlock(tx, block) ==
    LET new == {k \in Items(tx) \ Sacked(tx) : block[1] <= k /\ End(tx, k) <= block[2]}
        top == Max(new)
        marked(item) == [item EXCEPT !.sacked = TRUE, !.lost = FALSE]
    IN  IF new = {} THEN tx
        ELSE [tx EXCEPT
               !.sent = Changed(tx, new, marked),
               !.sackedOut = @ + Amount(tx, new),
               !.lostOut = @ - Amount(tx, new \cap Lost(tx)),
               !.highest = IF @.at = 0 \/ @.seq <= End(tx, top)
                           THEN [at |-> top, seq |-> top] ELSE @]

\* UpdateLostCount: an item with DupAckThresh sacked ones above it, up to the
\* highest, is lost; so is the head, whatever its other marks.
UpdateLostCount(tx) ==
    LET sackedFrom(k) == {j \in Sacked(tx) \ {tx.first} : k <= j /\ j <= tx.highest.at}
        lost == {k \in Items(tx) \ Lost(tx) :
                   /\ k = tx.first \/ k \notin Sacked(tx)
                   /\ Cardinality(sackedFrom(k)) >= DupAckThresh}
    IN  [tx EXCEPT
          !.sent = Changed(tx, lost, LAMBDA item : [item EXCEPT !.lost = TRUE]),
          !.lostOut = @ + Amount(tx, lost)]

\* The buffer after all blocks of a list are marked.
Marked(tx, list) ==
    LET mark[n \in 0 .. Len(list)] ==
            IF n = 0 THEN tx ELSE SackBlock(mark[n - 1], list[n])
    IN  mark[Len(list)]

\* Update(list): the blocks up to the first that starts beyond what was sent;
\* such a block ends the call before the losses are counted.
Update(tx, list) ==
    LET outside == {i \in 1 .. Len(list) : SentEnd(tx) < list[i][1]}
        marked == Marked(tx, IF outside = {} THEN list
                             ELSE SubSeq(list, 1, Min(outside) - 1))
    IN  IF outside # {} \/ marked.sackedOut = tx.sackedOut THEN marked
        ELSE UpdateLostCount(marked)

-----------------------------------------------------------------------------
\* IsLost(s): the first item at or after s that carries a mark decides.
IsLost(tx, s) ==
    LET marked == {k \in Lost(tx) \cup Sacked(tx) : k >= s}
    IN  s < tx.highest.seq /\ marked # {} /\ Min(marked) \in Lost(tx)

\* NextSeg: where the next segment starts, as a set of at most one number: the
\* first lost item that was not retransmitted, else new data, else (in
\* recovery) the first item that is neither sacked nor retransmitted.
NextSeg(tx, isRecovery) ==
    LET waiting == Items(tx) \ (Resent(tx) \cup Sacked(tx))
        lost == waiting \cap Lost(tx)
    IN  IF lost # {} THEN {Min(lost)}
        ELSE IF tx.app > 0 THEN {SentEnd(tx)}
        ELSE {k \in waiting : isRecovery /\ k = Min(waiting)}

\* BytesInFlight.
BytesInFlight(tx) == tx.sentSize - (tx.sackedOut + tx.lostOut) + tx.retrans

\* MarkHeadAsLost; a sacked head is excluded by HeadUnsacked.
MarkHeadAsLost(tx) ==
    LET head == tx.sent[tx.first]
    IN  IF Items(tx) = {} THEN tx
        ELSE [tx EXCEPT
               !.sent[tx.first].retrans = FALSE,
               !.retrans = IF head.retrans THEN @ - head.size ELSE @,
               !.sent[tx.first].lost = TRUE,
               !.lostOut = IF head.lost THEN @ ELSE @ + head.size]

\* Mutant of SetSentListLost: what was retransmitted still counts as in flight.
SetSentListLostKept(tx) ==
    [tx EXCEPT !.sent = Changed(tx, Items(tx) \ Sacked(tx),
                                LAMBDA item : [item EXCEPT !.lost = TRUE]),
               !.lostOut = Amount(tx, Lost(tx) \cup (Items(tx) \ Sacked(tx)))]

\* SetSentListLost(false), after a timeout: every item that is not sacked is
\* lost and to be sent again.
SetSentListLost(tx) ==
    [tx EXCEPT !.sent = [k \in Items(tx) |->
                           [tx.sent[k] EXCEPT
                               !.lost = k \in Lost(tx) \/ k \notin Sacked(tx),
                               !.retrans = FALSE]],
               !.retrans = 0,
               !.lostOut = Amount(tx, Lost(tx) \cup (Items(tx) \ Sacked(tx)))]

\* IsRetransmittedDataAcked(s).
IsRetransmittedDataAcked(tx, s) ==
    \E k \in Resent(tx) \ Sacked(tx) : End(tx, k) = s
=============================================================================
