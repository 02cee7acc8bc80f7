------------------------- MODULE SharedMemoryDevice -------------------------
(***************************************************************************)
(* One MMU of the switch and the ports that share its memory: class        *)
(* SharedMemoryPointToPointNetDevice in a node of type 1                   *)
(* (point-to-point/model/shared-memory-point-to-point-net-device.cc).      *)
(*                                                                         *)
(* The events are the packets the node sends through a port (Send), the    *)
(* end of a transmission (TransmitComplete), the token timer of the MMU    *)
(* and the ABM update timer of each port.  ns-3 runs an event to its end   *)
(* before the next, and so does an action here, with one exception: the    *)
(* push-out loop of AcceptPacket() takes a step per packet it evicts, and  *)
(* no other event runs in between (push holds the packet being admitted).  *)
(***************************************************************************)
EXTENDS SwitchMemory

CONSTANT TokenFloor     \* bound: no new packet while more tokens are owed

ASSUME FloorAssumption == TokenFloor \in Nat

VARIABLES mem,      \* the memory of the MMU
          sched,    \* per port: the scheduler of its MultipleQueue
          tx,       \* per port: m_txMachineState
          sat,      \* Switch::saturated and Switch::N
          abm,      \* per port: deqPriorityBytes, deqPriorityRate, nofP
          timer,    \* is a TokenAdd() event scheduled?
          push      \* the packet whose admission is pushing others out

vars == <<mem, sched, tx, sat, abm, timer, push>>

NoPush == [size |-> 0]
Pushes == [cell : Cells, size : Sizes, freed : Nat]

Backlog(m, p) == {q \in UsedQueues : m.queue[<<p, q>>] # <<>>}

\* deqPriorityBytes is never initialised; the first update reads it, so the
\* first rates may be anything a rate can be.
Garbage == {0, IntervalBytes \div 2}

Init ==
    /\ mem = EmptyMemory
    /\ sched = [p \in Ports |-> InitSched]
    /\ tx = [p \in Ports |-> "READY"]
    /\ sat = [saturated |-> [c \in Cells |-> FALSE],
              N |-> [pr \in Priorities |-> 0]]
    /\ \E g \in [Ports -> Garbage] :
          abm = [p \in Ports |->
                   [started |-> FALSE,
                    bytes |-> [pr \in Priorities |->
                                 IF EnqueueMethod = "ABM" THEN g[p] ELSE 0],
                    rate  |-> [pr \in Priorities |-> IntervalBytes],
                    nofP  |-> [pr \in Priorities |-> 0]]]
    /\ timer = FALSE
    /\ push = NoPush

-----------------------------------------------------------------------------
(* Port p, idle, with memory m: check for a head drop, dequeue, transmit.  *)

\* ChangeDeqPriorityBytes(); only ABM ever reads or resets the count.
SentBytes(a, q, size) ==
    IF EnqueueMethod = "ABM" THEN [a EXCEPT !.bytes[QToP[q]] = @ + size] ELSE a

\* Transmit the head of the queue in C, or stay idle when C is empty.
Serve(p, n, C, a) ==
    \/ /\ C = {}
       /\ mem' = n
       /\ sched' = [sched EXCEPT ![p] = Served(DequeueType[p], @, Backlog(n, p), C, 0)]
       /\ tx' = [tx EXCEPT ![p] = "READY"]
       /\ abm' = [abm EXCEPT ![p] = a]
    \/ \E q \in C : \E size \in {Head(n.queue[<<p, q>>])} :
       /\ mem' = Departed(n, <<p, q>>)
       /\ sched' = [sched EXCEPT ![p] = Served(DequeueType[p], @, Backlog(n, p), C, size)]
       /\ tx' = [tx EXCEPT ![p] = "BUSY"]
       /\ abm' = [abm EXCEPT ![p] = SentBytes(a, q, size)]

TransmitNext(p, m, a) ==
    \E n \in {DropChecked(m, a, p)} :
        Serve(p, n, Choice(DequeueType[p], sched[p], Backlog(n, p)), a)

\* Mutant of Admit: an idle port is not started.
AdmitOnly(m, a, c, size, private) ==
    /\ mem' = IF c[2] \in UsedQueues THEN Arrived(m, c, size, private) ELSE m
    /\ abm' = [abm EXCEPT ![c[1]] = a]
    /\ UNCHANGED <<sched, tx>>

\* SendSwitch() once AcceptPacket() has said yes.  EnqueueTos() still refuses
\* a sub-queue that is not in use.
Admit(m, a, c, size, private) ==
    \/ /\ c[2] \notin UsedQueues
       /\ mem' = m
       /\ abm' = [abm EXCEPT ![c[1]] = a]
       /\ UNCHANGED <<sched, tx>>
    \/ /\ c[2] \in UsedQueues
       /\ tx[c[1]] = "BUSY"
       /\ mem' = Arrived(m, c, size, private)
       /\ abm' = [abm EXCEPT ![c[1]] = a]
       /\ UNCHANGED <<sched, tx>>
    \/ /\ c[2] \in UsedQueues
       /\ tx[c[1]] = "READY"
       /\ TransmitNext(c[1], Arrived(m, c, size, private), a)

-----------------------------------------------------------------------------
(* SendSwitch(packet): a packet for cell c.                                *)

\* A new event starts.
Arrival ==
    /\ push = NoPush
    /\ mem.token >= -TokenFloor

SendStatic(c, size) ==
    /\ Arrival
    /\ HasStaticRoom(mem, c, size)
    /\ Admit(mem, abm[c[1]], c, size, TRUE)
    /\ UNCHANGED <<sat, timer, push>>

\* What AcceptPacket() does before it decides: under MULTILAYER_DT the first
\* packet of the MMU starts the token timer; under ABM the first packet of a
\* port starts its update timer, and every packet refreshes the saturation.
StartsTokens  == EnqueueMethod = "MULTILAYER_DT" /\ ~mem.started
TokensStarted == IF StartsTokens THEN TokenAdded(mem) ELSE mem

UpdatesStarted(p) ==
    IF EnqueueMethod = "ABM" /\ ~abm[p].started
    THEN Updated(abm[p], sat.N) ELSE abm[p]

SaturationChecked(a, c) ==
    IF EnqueueMethod = "ABM" THEN SetSaturated(sat, c, Saturates(mem, a, c)) ELSE sat

\* A timer is started by the first TokenAdd(), unless 1.1 s have passed.
TimerStarted == IF StartsTokens THEN timer' \in BOOLEAN ELSE UNCHANGED timer

SendShared(c, size) ==
    LET m == TokensStarted
        a == UpdatesStarted(c[1])
    IN  /\ Arrival
        /\ ~HasStaticRoom(mem, c, size)
        /\ EnqueueMethod = "PUSHOUT" => Fits(mem, size)
        /\ sat' = SaturationChecked(a, c)
        /\ TimerStarted
        /\ UNCHANGED push
        /\ \/ /\ Accepts(m, a, c, size)
              /\ Admit(m, a, c, size, FALSE)
           \/ /\ ~Accepts(m, a, c, size)
              /\ mem' = m
              /\ abm' = [abm EXCEPT ![c[1]] = a]
              /\ UNCHANGED <<sched, tx>>

\* PUSHOUT without room: AcceptPacket() enters its loop.
SendPushing(c, size) ==
    /\ Arrival
    /\ ~HasStaticRoom(mem, c, size)
    /\ EnqueueMethod = "PUSHOUT"
    /\ ~Fits(mem, size)
    /\ push' = [cell |-> c, size |-> size, freed |-> 0]
    /\ UNCHANGED <<mem, sched, tx, sat, abm, timer>>

Send == \E c \in Cells, size \in Sizes :
            SendStatic(c, size) \/ SendShared(c, size) \/ SendPushing(c, size)

-----------------------------------------------------------------------------
(* The push-out loop: evict until as many bytes are freed as the packet    *)
(* needs, or give up when PushOutPacket() returns NULL.                    *)

PushOutPacket ==
    /\ push # NoPush
    /\ push.freed < push.size
    /\ \E c \in PushOutVictim(mem, push.cell[1], push.cell[2]) :
          /\ mem' = PushedOut(mem, c)
          /\ push' = [push EXCEPT !.freed = @ + Head(mem.queue[c])]
    /\ UNCHANGED <<sched, tx, sat, abm, timer>>

PushOutFailed ==
    /\ push # NoPush
    /\ push.freed < push.size
    /\ PushOutVictim(mem, push.cell[1], push.cell[2]) = {}
    /\ push' = NoPush
    /\ UNCHANGED <<mem, sched, tx, sat, abm, timer>>

\* Mutant of PushOutDone: one eviction is taken to be enough.
PushOutOnce ==
    /\ push # NoPush
    /\ push.freed > 0
    /\ push' = NoPush
    /\ Admit(mem, abm[push.cell[1]], push.cell, push.size, FALSE)
    /\ UNCHANGED <<sat, timer>>

PushOutDone ==
    /\ push # NoPush
    /\ push.freed >= push.size
    /\ push' = NoPush
    /\ Admit(mem, abm[push.cell[1]], push.cell, push.size, FALSE)
    /\ UNCHANGED <<sat, timer>>

PushOut == PushOutPacket \/ PushOutFailed \/ PushOutDone

-----------------------------------------------------------------------------
(* Timers.                                                                 *)

\* The update timer fires before a link can carry much more than an
\* interval's worth of bytes.
OnTime(p) ==
    EnqueueMethod = "ABM" =>
        \A pr \in Priorities : abm[p].bytes[pr] <= IntervalBytes

\* TransmitCompleteSwitch(): the packet has left; transmit the next one and
\* note whether the queue it came from, GetDeIndex(), is still saturated.
TransmitComplete(p) ==
    /\ push = NoPush
    /\ tx[p] = "BUSY"
    /\ OnTime(p)
    /\ TransmitNext(p, mem, abm[p])
    /\ sat' = IF tx'[p] = "BUSY"
              THEN LET c == <<p, sched'[p].deindex>>
                   IN  SetSaturated(sat, c, Saturates(mem', abm[p], c))
              ELSE sat
    /\ UNCHANGED <<timer, push>>

\* TokenAdd() of the timer; it schedules the next one only before 1.1 s.
TokenAdd ==
    /\ push = NoPush
    /\ timer
    /\ mem' = TokenAdded(mem)
    /\ timer' \in BOOLEAN
    /\ UNCHANGED <<sched, tx, sat, abm, push>>

InvokeUpdates(p) ==
    /\ push = NoPush
    /\ abm[p].started
    /\ abm' = [abm EXCEPT ![p] = Updated(@, sat.N)]
    /\ UNCHANGED <<mem, sched, tx, sat, timer, push>>

Next ==
    \/ Send
    \/ PushOut
    \/ \E p \in Ports : TransmitComplete(p)
    \/ TokenAdd
    \/ \E p \in Ports : InvokeUpdates(p)

Spec == Init /\ [][Next]_vars


\* The simulator runs every scheduled event: the end of a transmission and
\* the rest of the event under way.  Nothing obliges traffic to arrive.
FairSpec ==
    /\ Spec
    /\ WF_vars(PushOut)
    /\ \A p \in Ports : WF_vars(TransmitComplete(p)) /\ WF_vars(InvokeUpdates(p))

-----------------------------------------------------------------------------
TypeOK ==
    /\ mem \in Memory
    /\ mem.token <= MaxToken
    /\ sched \in [Ports -> SchedState]
    /\ tx \in [Ports -> {"READY", "BUSY"}]
    /\ sat \in SaturationState
    /\ abm \in [Ports -> ABMState]
    /\ timer \in BOOLEAN
    /\ push \in Pushes \cup {NoPush}

\* m_usedBuffer and pUsedBuffer are exactly the bytes that sit in the
\* sub-queues, in total and per priority, whatever enqueues, transmissions,
\* push-outs and head drops have done (AddUsed and DeleteUsed are called from
\* six places).  A byte lost here shrinks every threshold for good.
Accounting == Accounted(mem)

\* The buffer is never overcommitted, even though PUSHOUT does not check
\* again after its loop that the packet it admits now fits.
Capacity == mem.used <= MaxBuffer

\* A port that is READY has nothing to send: only a completed transmission
\* or a new packet makes it dequeue, so a packet left behind by a READY port
\* would be stranded (SendSwitch, TransmitCompleteSwitch).
WorkConserved ==
    \A p \in Ports : tx[p] = "READY" => Backlog(mem, p) = {}

\* A DRR port that has gone idle starts afresh: no queue carries credit or
\* debt into the next busy period, even if the queue it was serving has been
\* emptied by a push-out or a head drop made from another port.
IdleDeficitsClear ==
    \A p \in Ports : tx[p] = "READY" =>
        \A q \in UsedQueues : sched[p].drr[q] = 0

\* Switch::N[pr] is the number of queues of priority pr now flagged saturated,
\* although the flags are set from two handlers of many ports.
SaturatedCounted == Counted(sat)

\* Dynamic thresholds keep one queue from taking the buffer: with parameter
\* alpha a queue never holds more than alpha / (1 + alpha) of the buffer plus
\* a packet, whatever the order of arrivals, departures and drops.
\* MULTILAYER_DT admits any packet to an empty queue, hence the alternative.
Isolated == Isolates(mem)

\* Push-out never fails once it has started, so it never evicts packets for
\* the sake of one it then refuses (AcceptPacket returns false in the middle
\* of its loop).  Under strict priority, where a low-priority packet may have
\* to give up, this is promised to the highest priority only.
PushOutSucceeds ==
    /\ push # NoPush
    /\ push.freed < push.size
    /\ DequeueType[push.cell[1]] = "PQ" => push.cell[2] = 0
    => PushOutVictim(mem, push.cell[1], push.cell[2]) # {}

\* What is left of Accounting when cells have a static buffer: each byte that
\* leaves is credited to one of the two counters, modulo the uint32_t of
\* usedStaticBuffer.
StaticAccounting ==
    (mem.used + BytesOf(mem.static, Cells)) % Word
        = BytesOf(mem.nBytes, Cells) % Word

\* A transmission credited to the static buffer, "the packet comes from static
\* memory", returns no more than the cell had charged to it.
StaticRepaid ==
    [][\A p \in Ports, c \in Cells :
          TransmitComplete(p) /\ mem'.static[c] # mem.static[c]
              => Head(mem.queue[c]) <= mem.static[c]]_vars

\* Every sub-queue that holds packets keeps losing them, to the wire or to a
\* drop: no port stops with packets in the shared memory.
Drains ==
    \A c \in UsedCells :
        \/ []<>(mem.queue[c] = <<>>)
        \/ []<><<Len(mem'.queue[c]) < Len(mem.queue[c])>>_vars

\* The device implements a shared buffer: whatever its counters, thresholds,
\* head drops and push-outs do, each sub-queue stays first-in-first-out, a
\* packet is admitted only into free room, and nothing but the head of a
\* queue is ever sent, head-dropped or pushed out.
Shared == INSTANCE SharedBuffer WITH Queues <- Cells, content <- mem.queue

SharesBuffer == Shared!Spec

=============================================================================
