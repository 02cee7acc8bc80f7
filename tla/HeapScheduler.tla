--------------------------- MODULE HeapScheduler ----------------------------
(***************************************************************************)
(* core/model/heap-scheduler.cc: a binary heap in an array that starts at  *)
(* 1.  Operators only: h is m_heap without its unused first element.  A    *)
(* loop is a recursive function of its turns; `at' is the variable index.  *)
(***************************************************************************)
EXTENDS Scheduler

Exch(h, a, b) == [h EXCEPT ![a] = h[b], ![b] = h[a]]

\* The event at s.at rises past its parent.
Rise(s) ==
    LET parent == s.at \div 2
    IN  IF s.at = 1 \/ ~Before(s.heap[s.at], s.heap[parent]) THEN s
        ELSE [heap |-> Exch(s.heap, s.at, parent), at |-> parent]

BottomUp(h) ==
    LET risen[n \in 0 .. Len(h)] ==
            IF n = 0 THEN [heap |-> h, at |-> Len(h)] ELSE Rise(risen[n - 1])
    IN  risen[Len(h)].heap

\* The event at s.at sinks below the earlier of its children.
Sink(s) ==
    LET left  == 2 * s.at
        child == IF left + 1 > Len(s.heap) \/ Before(s.heap[left], s.heap[left + 1])
                 THEN left ELSE left + 1
    IN  IF left > Len(s.heap) \/ Before(s.heap[s.at], s.heap[child]) THEN s
        ELSE [heap |-> Exch(s.heap, s.at, child), at |-> child]

\* Mutant of TopDown: gives up at a last left child without a sibling.
TopDownPairs(h, index) ==
    LET sunk[n \in 0 .. Len(h)] ==
            IF n = 0 THEN [heap |-> h, at |-> index]
            ELSE IF 2 * sunk[n - 1].at + 1 > Len(h) THEN sunk[n - 1]
            ELSE Sink(sunk[n - 1])
    IN  sunk[Len(h)].heap

TopDown(h, index) ==
    LET sunk[n \in 0 .. Len(h)] ==
            IF n = 0 THEN [heap |-> h, at |-> index] ELSE Sink(sunk[n - 1])
    IN  sunk[Len(h)].heap

HeapInsert(h, ev) == BottomUp(Append(h, ev))

\* The event at index gives its place to the last one, which sinks.
HeapErase(h, index) ==
    TopDown(SubSeq(Exch(h, index, Len(h)), 1, Len(h) - 1), index)

HeapRemoveNext(h) == HeapErase(h, 1)

HeapRemove(h, ev) ==
    LET found == {i \in DOMAIN h : h[i].uid = ev.uid}
    IN  IF found = {} THEN h ELSE HeapErase(h, CHOOSE i \in found : TRUE)

HeapOrdered(h) == \A i \in 2 .. Len(h) : Before(h[i \div 2], h[i])
=============================================================================
