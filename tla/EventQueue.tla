----------------------------- MODULE EventQueue -----------------------------
(***************************************************************************)
(* What the simulator promises a model (core/model/simulator.h): an event  *)
(* runs at its own time, in the order of time, in the order of scheduling  *)
(* when the times are equal, and not at all once cancelled or removed.     *)
(* Simulator is shown to implement this.                                   *)
(***************************************************************************)
EXTENDS Integers

VARIABLES
    queue,  \* the events still to run, by time and order of scheduling
    time    \* the simulation time

Event == [ts : Nat, uid : Nat]

\* Scheduler::EventKey's operator<.
Before(a, b) == a.ts < b.ts \/ (a.ts = b.ts /\ a.uid < b.uid)

Init == queue = {} /\ time = 0

\* Events are scheduled in the present or later, behind those of their time.
Schedule ==
    /\ queue \subseteq queue' /\ queue' \subseteq Event
    /\ \A e \in queue' \ queue : e.ts >= time /\ \A f \in queue : f.uid < e.uid
    /\ UNCHANGED time

\* The earliest event runs.
Run(e) ==
    /\ \A f \in queue \ {e} : Before(e, f)
    /\ queue' = queue \ {e}
    /\ time' = e.ts

\* An event is cancelled or removed.
Forget(e) == queue' = queue \ {e} /\ UNCHANGED time

\* A cancelled event still takes the clock to its time, which passes nobody's.
Pass ==
    /\ time' \in Nat /\ time' >= time
    /\ \A e \in queue : time' <= e.ts
    /\ UNCHANGED queue

Next ==
    \/ Schedule
    \/ \E e \in queue : Run(e) \/ Forget(e)
    \/ Pass

Spec == Init /\ [][Next]_<<queue, time>>

=============================================================================
