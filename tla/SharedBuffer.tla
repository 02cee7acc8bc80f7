---------------------------- MODULE SharedBuffer ----------------------------
(***************************************************************************)
(* What a shared-memory switch promises of the packets it holds, without   *)
(* a word on counters, thresholds, schedulers or timers: first-in-first-   *)
(* out queues that share one buffer.  A packet joins the tail of its queue *)
(* only while the buffer has room for it, and the head of a queue is all   *)
(* that can leave, to the wire or to a drop.  SharedMemoryDevice           *)
(* implements it.                                                          *)
(***************************************************************************)
EXTENDS ByteCount, Sequences

CONSTANTS Queues,       \* the queues that share the buffer
          Sizes,        \* the sizes of packets
          MaxBuffer     \* the bytes of the buffer

VARIABLE content        \* the packets in each queue

Held(f) == BytesOf([q \in Queues |-> BytesOf(f[q], DOMAIN f[q])], Queues)

\* The buffer as it is, or with one more packet if it is not overfull then.
Arrivals ==
    {content} \cup
    {f \in {[content EXCEPT ![q] = Append(@, size)] : q \in Queues, size \in Sizes} :
        Held(f) <= MaxBuffer}

\* f with the head of one queue gone, or as it is.
Losses(f) ==
    {f} \cup {[f EXCEPT ![q] = Tail(@)] : q \in {r \in Queues : f[r] # <<>>}}

Init == content = [q \in Queues |-> <<>>]

\* One event of a port: at most one packet arrives, one is dropped from the
\* head of any queue, and one is transmitted.
Next ==
    \E f \in Arrivals : \E g \in Losses(f) : content' \in Losses(g)

Spec == Init /\ [][Next]_content

=============================================================================
