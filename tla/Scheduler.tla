----------------------------- MODULE Scheduler ------------------------------
(***************************************************************************)
(* What the event lists share (core/model/scheduler.h): the events, by     *)
(* their keys, and their order.  Operators only.                           *)
(***************************************************************************)
EXTENDS Integers, Sequences, FiniteSets

Event == [ts : Nat, uid : Nat]

\* operator< of Scheduler::EventKey.
Before(a, b) == a.ts < b.ts \/ (a.ts = b.ts /\ a.uid < b.uid)

\* The events of S, the earliest first.
InOrder(S) == [i \in 1 .. Cardinality(S) |->
                 CHOOSE e \in S : Cardinality({f \in S : Before(f, e)}) = i - 1]

\* An event list after the events of a sequence are inserted, one by one.
AllInserted(Insert(_, _), list, seq) ==
    LET after[n \in 0 .. Len(seq)] ==
            IF n = 0 THEN list ELSE Insert(after[n - 1], seq[n])
    IN  after[Len(seq)]
=============================================================================
