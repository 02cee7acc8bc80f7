----------------------------- MODULE Simulator ------------------------------
(***************************************************************************)
(* DefaultSimulatorImpl (core/model/default-simulator-impl.cc): the event  *)
(* loop, the identifiers by which a model cancels and removes events, and  *)
(* the events other threads hand over with ScheduleWithContext().          *)
(*                                                                         *)
(* events is the event list as a set, which std::map makes of it in the    *)
(* default MapScheduler; EventLists adds the other schedulers.  Contexts   *)
(* are carried along and decide nothing.  The events of                    *)
(* ScheduleDestroy() are left out.                                         *)
(***************************************************************************)
EXTENDS Scheduler

CONSTANTS
    Delays,     \* the delays a model schedules events with
    Threads,    \* threads other than the one in Run()
    Nobody,     \* none of them
    MaxUid      \* bound: m_uid, which is 32 bits wide, stays below

ASSUME SimulatorAssumption ==
    /\ Delays \subseteq Nat
    /\ Nobody \notin Threads
    /\ MaxUid \in Nat

VARIABLES
    events,     \* m_events
    uid,        \* m_uid
    cur,        \* m_currentTs and m_currentUid
    stop,       \* m_stop
    unscheduled,    \* m_unscheduledEvents
    cancelled,  \* the uids of the events whose EventImpl is cancelled
    ids,        \* the EventIds returned to the model
    pc,         \* where the main thread is
    inbox,      \* m_eventsWithContext: delays
    inboxEmpty, \* m_eventsWithContextEmpty
    holder      \* who holds m_eventsWithContextMutex

main  == <<events, uid, cur, stop, unscheduled, cancelled, ids, pc>>
inter == <<inbox, inboxEmpty, holder>>
vars  == <<main, inter>>

\* The main thread is in the program's own code ("user"), in Run() before its
\* loop ("run"), at the head of the loop ("loop"), in an event ("event"),
\* or in ProcessEventsWithContext(), at its start ("process") or waiting for
\* the mutex, from Run() ("swap0") or after an event ("swap").
Places == {"user", "run", "loop", "event", "process", "swap0", "swap"}

INVALID == 0
VALID   == 4

Init ==
    /\ events = {} /\ unscheduled = 0
    /\ uid = VALID
    /\ cur = [ts |-> 0, uid |-> INVALID]
    /\ stop = FALSE
    /\ cancelled = {} /\ ids = {}
    /\ pc = "user"
    /\ inbox = <<>> /\ inboxEmpty = TRUE
    /\ holder = Nobody

\* What RemoveNext() returns.
IsEarliest(e) == e \in events /\ \A f \in events \ {e} : Before(e, f)

\* A mutant of IsExpired: the running event has not expired; another: nor has
\* one removed from the list.
IsExpiredPast(id) ==
    \/ id.ts < cur.ts
    \/ id.ts = cur.ts /\ id.uid < cur.uid
    \/ id.uid \in cancelled
IsExpiredDone(id) ==
    \/ id.ts < cur.ts
    \/ id.ts = cur.ts /\ id.uid <= cur.uid

IsExpired(id) ==
    \/ id.ts < cur.ts
    \/ id.ts = cur.ts /\ id.uid <= cur.uid
    \/ id.uid \in cancelled

-----------------------------------------------------------------------------
(* Calls of the model, from main() or from an event.                       *)

Called == pc \in {"user", "event"}

\* Schedule(), ScheduleNow() and ScheduleWithContext() from the main thread.
Schedule(delay) ==
    /\ Called /\ uid + Len(inbox) < MaxUid
    /\ LET e == [ts |-> cur.ts + delay, uid |-> uid]
       IN  /\ events' = events \cup {e}
           /\ ids' = ids \cup {e}
    /\ uid' = uid + 1
    /\ unscheduled' = unscheduled + 1
    /\ UNCHANGED <<cur, stop, cancelled, pc, inter>>

Cancel(id) ==
    /\ Called /\ ~IsExpired(id)
    /\ cancelled' = cancelled \cup {id.uid}
    /\ UNCHANGED <<events, uid, cur, stop, unscheduled, ids, pc, inter>>

Remove(id) ==
    /\ Called /\ ~IsExpired(id)
    /\ events' = events \ {id}
    /\ cancelled' = cancelled \cup {id.uid}
    /\ unscheduled' = unscheduled - 1
    /\ UNCHANGED <<uid, cur, stop, ids, pc, inter>>

Stop ==
    /\ Called /\ ~stop
    /\ stop' = TRUE
    /\ UNCHANGED <<events, uid, cur, unscheduled, cancelled, ids, pc, inter>>

-----------------------------------------------------------------------------
(* Run().                                                                  *)

Goto(place) ==
    /\ pc' = place
    /\ UNCHANGED <<events, uid, cur, stop, unscheduled, cancelled, ids, inter>>

RunCalled == pc = "user" /\ Goto("run")

\* m_eventsWithContextEmpty is read without the mutex.
ProcessStart ==
    \/ pc = "run" /\ ~inboxEmpty /\ Goto("swap0")
    \/ pc = "process" /\ ~inboxEmpty /\ Goto("swap")
    \/ pc = "process" /\ inboxEmpty /\ Goto("loop")
    \/ /\ pc = "run" /\ inboxEmpty
       /\ pc' = "loop" /\ stop' = FALSE
       /\ UNCHANGED <<events, uid, cur, unscheduled, cancelled, ids, inter>>

\* Mutant of Moved: the delays are taken for times.
MovedAbsolute == {[ts |-> inbox[i], uid |-> uid + i - 1] : i \in DOMAIN inbox}

\* The events of the other threads, from now on.
Moved == {[ts |-> cur.ts + inbox[i], uid |-> uid + i - 1] : i \in DOMAIN inbox}

\* The swap, under the mutex, and the insertions.
ProcessSwap ==
    /\ pc \in {"swap0", "swap"} /\ holder = Nobody
    /\ inbox' = <<>> /\ inboxEmpty' = TRUE
    /\ events' = events \cup Moved
    /\ uid' = uid + Len(inbox)
    /\ unscheduled' = unscheduled + Len(inbox)
    /\ stop' = (stop /\ pc = "swap")
    /\ pc' = "loop"
    /\ UNCHANGED <<cur, cancelled, ids, holder>>

\* ProcessOneEvent() up to the event's own code, which a cancelled one skips.
ProcessOneEvent(e) ==
    /\ pc = "loop" /\ ~stop
    /\ IsEarliest(e)
    /\ events' = events \ {e}
    /\ unscheduled' = unscheduled - 1
    /\ cur' = e
    /\ pc' = IF e.uid \in cancelled THEN "process" ELSE "event"
    /\ UNCHANGED <<uid, stop, cancelled, ids, inter>>

\* Mutant of AfterEvent: the other threads are heard only when Run() starts.
AfterEventLoop == "loop"
AfterEvent == "process"
EventReturns == pc = "event" /\ Goto(AfterEvent)

RunReturns == pc = "loop" /\ (events = {} \/ stop) /\ Goto("user")

-----------------------------------------------------------------------------
(* ScheduleWithContext() from another thread, which holds the mutex.       *)

ForeignPush(t, delay) ==
    /\ holder = Nobody /\ uid + Len(inbox) < MaxUid
    /\ holder' = t
    /\ inbox' = Append(inbox, delay)
    /\ UNCHANGED <<main, inboxEmpty>>

\* Mutant of ForeignDone: leaves the flag to the main thread.
ForeignDoneQuietly(t) ==
    /\ holder = t
    /\ holder' = Nobody
    /\ UNCHANGED <<main, inbox, inboxEmpty>>

ForeignDone(t) ==
    /\ holder = t
    /\ inboxEmpty' = FALSE
    /\ holder' = Nobody
    /\ UNCHANGED <<main, inbox>>

-----------------------------------------------------------------------------
Loop == ProcessStart \/ ProcessSwap \/ (\E e \in events : ProcessOneEvent(e)) \/ RunReturns

Next ==
    \/ \E delay \in Delays : Schedule(delay)
    \/ \E id \in ids : Cancel(id) \/ Remove(id)
    \/ Stop \/ RunCalled \/ EventReturns
    \/ Loop
    \/ \E t \in Threads : ForeignDone(t) \/ \E delay \in Delays : ForeignPush(t, delay)

Spec == Init /\ [][Next]_vars

\* Run() goes on, events return and other threads leave the mutex; nobody need
\* call anything.
Fairness ==
    /\ WF_vars(Loop) /\ WF_vars(EventReturns)
    /\ \A t \in Threads : WF_vars(ForeignDone(t))

-----------------------------------------------------------------------------
TypeOK ==
    /\ events \subseteq Event /\ IsFiniteSet(events)
    /\ uid \in Nat /\ uid >= VALID
    /\ cur \in Event
    /\ stop \in BOOLEAN
    /\ unscheduled \in Nat
    /\ cancelled \subseteq Nat
    /\ ids \subseteq Event
    /\ pc \in Places
    /\ inbox \in Seq(Nat)
    /\ inboxEmpty \in BOOLEAN
    /\ holder \in Threads \cup {Nobody}

\* "consistency test to check that we didn't lose any events along the way":
\* the counter of Run()'s assertion is exact at all times, whatever is
\* cancelled, removed or handed over in between.
UnscheduledExact == unscheduled = Cardinality(events)

\* IsExpired() tells from the clock and the uids alone, without a look at the
\* list, which events will not run: so that Remove() always finds its event.
ExpiredExact ==
    \A id \in ids : IsExpired(id) <=> id \notin events \/ id.uid \in cancelled

\* The flag read without the mutex tells the truth whenever nobody holds it.
FlagExact == holder = Nobody => (inboxEmpty <=> inbox = <<>>)

\* What another thread has handed over while an event runs, or before Run(), is
\* scheduled.  (What comes after the last look at the flag waits for the next
\* Run().)
Heard == pc \in {"run", "event", "process"} /\ ~inboxEmpty ~> inbox = <<>>

\* The events that will run.
Live == {e \in events : e.uid \notin cancelled}

\* What is promised to the model; the simulator implements it.
Promise == INSTANCE EventQueue WITH queue <- Live, time <- cur.ts
KeepsPromise == Promise!Spec

=============================================================================
