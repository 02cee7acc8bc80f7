----------------------------- MODULE EventLists -----------------------------
(***************************************************************************)
(* The simulator with other schedulers beside the event list: each is told *)
(* what m_events is told, and is to return the same events.                *)
(***************************************************************************)
EXTENDS Simulator, HeapScheduler, CalendarScheduler

VARIABLES
    heap,       \* HeapScheduler
    calendar    \* CalendarScheduler

stores  == <<heap, calendar>>
allVars == <<vars, stores>>

ListsInit == Init /\ heap = <<>> /\ calendar = EmptyCalendar

\* The new events, in the order of their uids.
Scheduled == [i \in 1 .. uid' - uid |-> CHOOSE e \in events' : e.uid = uid + i - 1]

Insertion ==
    /\ ProcessSwap \/ \E delay \in Delays : Schedule(delay)
    /\ heap' = AllInserted(HeapInsert, heap, Scheduled)
    /\ calendar' = AllInserted(CalendarInsert, calendar, Scheduled)

Removal(id) ==
    /\ Remove(id)
    /\ heap' = HeapRemove(heap, id)
    /\ calendar' = CalendarRemove(calendar, id)

Extraction(e) ==
    /\ ProcessOneEvent(e)
    /\ heap' = HeapRemoveNext(heap)
    /\ calendar' = CalendarRemoveNext(calendar)

Elsewhere ==
    /\ \/ \E id \in ids : Cancel(id)
       \/ Stop \/ RunCalled \/ EventReturns \/ ProcessStart \/ RunReturns
       \/ \E t \in Threads : ForeignDone(t) \/ \E delay \in Delays : ForeignPush(t, delay)
    /\ UNCHANGED stores

\* SetScheduler(): the events, in order, go to new lists.
SetScheduler ==
    /\ Called
    /\ heap' = AllInserted(HeapInsert, <<>>, InOrder(events))
    /\ calendar' = AllInserted(CalendarInsert, EmptyCalendar, InOrder(events))
    /\ UNCHANGED vars

ListsNext ==
    \/ Insertion \/ Elsewhere \/ SetScheduler
    \/ \E id \in ids : Removal(id)
    \/ \E e \in events : Extraction(e)

ListsSpec == ListsInit /\ [][ListsNext]_allVars /\ Fairness

-----------------------------------------------------------------------------
\* "Remove the earliest event from the event list": the calendar has what the
\* set has, and finds the earliest of it, in whatever year, however often it has
\* been resized or rebuilt since.
CalendarEarliest ==
    /\ Stored(calendar) = events /\ calendar.qSize = Cardinality(events)
    /\ events # {} => IsEarliest(CalendarNext(calendar))

\* As long as the heap holds what the set holds and is ordered, which removals
\* from its middle may end, every call leaves it what the set is left, so that it
\* returns the earliest event; only a removal may leave it out of order.
HeapKept ==
    [][/\ Range(heap) = events /\ Len(heap) = Cardinality(events)
       /\ HeapOrdered(heap)
       => /\ Range(heap') = events' /\ Len(heap') = Cardinality(events')
          /\ (\E id \in ids : Remove(id)) \/ HeapOrdered(heap')]_allVars

=============================================================================
