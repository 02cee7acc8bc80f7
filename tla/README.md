# Occamy-Simulation: a TLA+ model of the shared-memory switches, the TCP that loads them and the simulator under them

The repository is a copy of the ns-3 simulator with something of its own: a
switch whose ports share a packet buffer, and the buffer-management methods
that Occamy is compared with. It has two of them, one written as a network
device and one in the traffic-control layer. This directory models both, the
host that feeds them, the TCP connection that must live with their drops, and
the event loop that runs everything. It checks the models with TLC on small
instances, and proves the main safety properties of the switches, of the event
loop and of the connection with TLAPS for every size.

Paths below are relative to `src/ns-3/src/`.

## 1. The system

ns-3 is a discrete-event simulator: one thread takes the earliest event, runs
its handler to the end, and takes the next. Handlers never interleave; what
interleaves are the *events* (arrivals, ends of transmission, timers), in any
order the rates and delays allow. Each action of the switch models is one
handler. Other threads may only hand events over, under a mutex; that, and why
the loop may be trusted to run events whole and in order, is itself modelled.

| Component | State | Operations | Called by |
|---|---|---|---|
| `MultipleQueue` (`network/utils/multiple-queue.*`): the output queue of a port | 8 drop-tail sub-queues; `m_deindex`, `drr_index`, `m_drr_num[]`; `m_enindex` | `Enqueue(index)`, `EnqueueRR`, `Dequeue()` by RR, DRR, PQ or PQDRR, `Dequeue(index)`, `Remove` | the device; head drop made from *other* ports |
| `Switch` (`network/model/switch.*`): one MMU, shared by up to 8 ports | `m_usedBuffer`, `pUsedBuffer[]`, `saturated[][]`, `N[]`, `token_num`, `last_head_drop_*` | `AddUsed`, `DeleteUsed`, `GetQueueThreshold`, `SetSaturated` | every port of the MMU |
| `SharedMemoryPointToPointNetDevice`, switch side (`point-to-point/model/`) | `m_txMachineState`, `usedStaticBuffer[]`, `deqPriorityBytes[]`, `deqPriorityRate[]`, `nofP[]` | `SendSwitch` (static buffer, then `AcceptPacket`), `TransmitCompleteSwitch` (`DropCheck`, dequeue), `PushOutPacket`, `DropTOKEN`, `DropLONGTOKEN`, timers `TokenAdd`, `InvokeUpdates` | the node's IP layer; the simulator |
| The same class, host side | sub-queues, `m_txMachineState` | `SendNode`, `TransmitCompleteNode` | the node; the simulator |
| `SharedMemoryPointToPointChannel` and `Receive` | the scheduled receptions | `TransmitStart` | devices |
| `SharedMemoryBuffer`, `GenQueueDisc` (`traffic-control/model/`): the second switch | occupancy, in total and per priority, saturation, dequeue rates, flow counts | `DoEnqueue` with CS, DT, FAB, IB or ABM, `DoDequeue` by round robin or priority, `EnqueueBuffer`, `DequeueBuffer`, `InvokeUpdates` | `QueueDisc` |
| `TrafficControlLayer`, `QueueDisc`, `NetDeviceQueue`, `PointToPointNetDevice` | the run under way and its quota; `m_stoppedByDevice`, the device queue, `m_txMachineState` | `Send`, `Enqueue`, `Run`, `Restart`, `Stop`, `Wake`, `TransmitComplete` | the node's IP layer; the simulator |
| `DefaultSimulatorImpl` and its `Scheduler`s (`core/model/`) | event list, clock, `m_uid`, `m_unscheduledEvents`, `m_eventsWithContext` and its flag | `Schedule`, `Cancel`, `Remove`, `IsExpired`, `Stop`, `Run`, `ScheduleWithContext`, `SetScheduler` | every handler; other threads |
| `queueIdMap` in the device: flow to sub-queue | a static map | `InsertMap`, `GetQueueId` | scripts, `Send` |
| `TcpRxBuffer` (`internet/model/`) | packets out of order (`m_data`), `m_sackList`, next byte, `m_size`, `m_availBytes` | `Add`, `UpdateSackList`, `ClearSackList`, `Extract` | `TcpSocketBase` |
| `TcpTxBuffer` | unsent bytes, sent items with their marks, `m_lostOut`, `m_sackedOut`, `m_retrans`, `m_highestSack` | `CopyFromSequence`, `DiscardUpTo`, `Update`, `NextSeg`, `SetSentListLost`, `BytesInFlight`, ... | `TcpSocketBase` |
| `TcpSocketBase` | congestion state, duplicate ACKs, recovery point, retries, retransmission and delayed-ACK timers | `Send`, `ReceivedAck`, `ReceivedData`, `ReTxTimeout`, `DelAckTimeout`, `Recv` | applications; the node; the simulator |
| the rest of ns-3, the experiment scripts | | | |

**The device switch.** A packet that reaches a port is first offered to the
static buffer of its sub-queue. If there is no room `AcceptPacket` decides by
the enqueue method: `NORMAL_ENQUEUE` (complete sharing), `DT` (dynamic
threshold), `MULTILAYER_DT` (Occamy: a threshold, except for an empty queue, and
head drop paid with tokens), `PUSHOUT` (evict from the longest queue), `ABM` (a
threshold scaled by the drain rate and the number of saturated queues). An idle
port is started at once; a busy one takes its next packet when the transmission
ends, and before each dequeue `DropCheck` may drop one packet of *any* port of
the MMU.

**The traffic-control switch.** `TrafficControlLayer::Send` enqueues the packet
in the `GenQueueDisc` of its port and runs it. A packet within the port's
reserve goes straight to the FIFO child of its priority; otherwise the algorithm
compares the child with a threshold taken from what is left of the
`SharedMemoryBuffer` of the node, and a packet admitted is charged to it.
`Run()` hands packets to the device until its queue stops it; a transmission
that makes room wakes the queue disc through a scheduled callback.

**The transport.** The traffic of the experiments is TCP, and what the switches
drop it must send again. The sender keeps the bytes it sent as a list of items
with marks (sacked, lost, retransmitted), which ACKs with SACK blocks, three
duplicate ACKs and timeouts change; `NextSeg` reads them to choose the next
segment and `BytesInFlight` to say how much may be sent. The receiver puts
segments together in any order and reports what it holds.

What is hard here:

* Six call sites, in the handlers of every port, move the same counters.
* A port drops or evicts packets of another port, behind the back of that
  port's scheduler and deficits.
* Whether a packet was charged to the static or to the shared account is
  guessed from lengths when it leaves.
* The push-out loop counts what it freed and does not look at the total again,
  and it may give up half way.
* A port with a backlog is restarted only by its own events: a single `NULL`
  from `Dequeue()`, or one wake-up that is not scheduled, would stop it for good.
* ABM decides by copies of counters that are an interval old, and the device
  starts it from memory nobody initialised.
* Headers are counted on one side of a test and not on the other (the IP header
  by `GenQueueDisc`, the PPP header by the device queue).
* Unsigned counters, thresholds that go negative, division by a zero threshold.
* The TCP scoreboard is one truth kept three times (marks, counters, an iterator
  into the list), while items are split, merged and erased; ACKs that change it
  are lost and reordered.
* A TCP sender with data outstanding is woken only by a timer or an ACK: one
  path that leaves neither stops the flow.
* The main thread reads a flag without the mutex that guards it; events are
  cancelled and removed by identifiers that may have expired.

What must be true: the counters are the bytes queued; the buffer is not
overcommitted; no port stops with packets; DRR is fair in bytes and idle queues
hoard nothing; a threshold isolates a queue from the others; the saturation
count is exact; a queue is first-in-first-out whoever takes packets from it; a
packet sent by a host arrives; a TCP receiver reads the bytes that were written,
in order, whatever the network does, and reads them in the end or the sender
gives up; an event runs once, at its time and in its order, unless cancelled.

## 2. The modules

| Module | Models | Kind |
|---|---|---|
| `ByteCount` | totals of byte counts | operators |
| `QueueScheduler` | the disciplines of `Dequeue()` and the fields they leave behind | operators |
| `MultipleQueue` | the queue of one port, on its own | state machine |
| `MultipleQueueFairness` | the same with a history of the bytes served | state machine |
| `SwitchMemory` | counters, sub-queues, thresholds, admission, victims | operators on a record `m` |
| `SharedMemoryDevice` | one MMU and all its ports | state machine |
| `SharedBuffer` | what such a switch promises: FIFO queues within one budget | abstract specification |
| `HostLink` | the sending side of a host, the channel, and reception | state machine |
| `GenQueueDisc` | `SharedMemoryBuffer`, and the queue disc of one port | operators on records `sm`, `d` |
| `TrafficControl` | the ports of a traffic-control switch with their devices | state machine |
| `TcpRxBuffer`, `TcpTxBuffer` | the two buffers of a socket | operators on records `b` |
| `TcpReceiver` | the receive buffer against a peer that sends anything | state machine |
| `TcpSocket` | both ends of a connection and a network that loses, delays and reorders | state machine |
| `ByteStream` | what a connection promises: the bytes written, in order | abstract specification |
| `EventQueue` | what the simulator promises: events in order | abstract specification |
| `Simulator` | `DefaultSimulatorImpl`, its threads and its event list as a set | state machine |
| `Scheduler` | events, their order, insertion one by one | operators |
| `HeapScheduler`, `CalendarScheduler` | two of the event lists | operators |
| `EventLists` | `Simulator` with both lists beside the set | state machine |
| `*Proofs` | lemmas and theorems | proofs |
| `MC*` | small instances | for TLC |

**QueueScheduler.** The loops of `DequeueRR`, `DequeueDRR`, `DequeuePQ` and
`DequeuePQDRR` are stated by their outcome. `Position` is the iteration in which
the loop reaches a queue, `Choice` the queue at which it stops (a set of at most
one), and `Deficits` what it leaves in `m_drr_num`: a queue passed while empty
gains a quantum and forfeits it at once, one in debt keeps its new debt, the
queue the walk starts from is visited twice, the first time without a quantum.
`WRR` never returns a packet: the code has no branch for it.

**SwitchMemory.** The record `m` holds what belongs to the MMU: sub-queues as
sequences of sizes, `nBytes`, the static bytes per queue, `used`, `pUsed`,
tokens and the position of the round-robin head drop. Each operator is one code
path by which a packet enters or leaves: `Arrived`, `Departed`, `PushedOut`,
`HeadDropped`. `Accepts` is `AcceptPacket` without its loop. Widths are kept
where they matter: `usedStaticBuffer` is `% Word`; sums of `uint32_t` are read
back as `int` by `AsInt`; `int(double)` truncates toward zero (`Truncated`).
Alphas are rationals `AlphaNum[q] / AlphaDen`, dequeue rates are numerators over
`IntervalBytes`. Discipline and head drop belong to a device or its queue, so
`DequeueType` and `DropType` are per port.

**SharedMemoryDevice.** `SendStatic`, `SendShared` and `SendPushing` are the
three ways `SendSwitch` may go; `TransmitNext` is the part that `SendSwitch` and
`TransmitCompleteSwitch` share: head-drop check, dequeue, credit, transmit.
The push-out loop takes a step per evicted packet, with no other event in
between (`push # NoPush` blocks them), so that the state half way through the
loop can be looked at. `TokenAdd` and `InvokeUpdates` are the two timers.

**SharedBuffer** forgets counters, thresholds, schedulers and timers: a step
appends a packet to one queue, if all that is held then fits the buffer, and
takes the heads of at most two queues (a drop, a transmission).
`SharedMemoryDevice` implements it with `content <- mem.queue`: the length of
the queues is the truth the counters are to follow.

**HostLink.** A packet is its number. `SendNode` stores every packet twice, as
the code does (see the findings). The channel is a FIFO of scheduled
`Receive` events: delay and rate of a link are constants.

**GenQueueDisc, TrafficControl.** A packet is its size without the IP header,
which is what the algorithms test; queues and buffer count `ItemSize`.
`SendReserved` is the first branch of `DoEnqueue`; `SendCS`, `SendDT`,
`SendFAB`, `SendIB`, `SendABM` are the algorithms, `Admitted` what follows them
(charge, then child, and no refund). What FAB, IB and AFD measure of a flow, and
the rates ABM measures, are inputs: a flow may be fresh or stale, AFD may drop
or not, a rate may be any the clipping leaves. `Run()` takes a step per
`Restart()` (`run` holds the port and the rest of the quota, and blocks the other
events): it ends (`RestartDone`), sends (`RestartSends`), or sends to a device
queue that refuses the packet (`RestartDiscards`). `dev` is the device: its
queue, transmitter, stop flag, and whether the wake callback is scheduled. The
algorithm, reserve and traffic of each port are chosen once, by `Init`, from
`Configs`.

**TcpRxBuffer, TcpTxBuffer.** A byte is its sequence number, so that a sequence of
bytes shows whether data is stored where it belongs. The receive buffer is
`m_data` as a function from first bytes to packets. The loops of `Add` and
`Extract` over `m_data` are stated by where they end: the head of what is kept of
a packet is the first byte not stored (`FirstMissing`), its tail the packet its
end lies in, what lies in between is replaced (`Part`); what is handed over is
read byte by byte from the packet that holds it (`Holder`). The send buffer is
the bytes of the application as a count (`app`), and the list of sent items as a
function from `m_startSeq`, the first byte of an item, to its size and marks. An
iterator into the list is the first byte of its item, so `highest` follows when its
item is split or cut. The loops over the list are stated by the items they visit:
those that a block covers (`SackBlock`), those that have `DupAckThresh` sacked ones
above them (`UpdateLostCount`), the bytes that go (`Uncounted`). The counters are
changed where the code changes them and never recomputed, except after a timeout,
where `SetSentListLost` counts the list afresh.

**TcpSocket.** The receiving end is `TcpReceiver`, which it extends with the
acknowledgements. Each handler of the sender maps the record of its socket to the
next one and collects what it sends in `out`; the network takes any part of it
(`Carried`). `SendNext` is a turn of the loop of `SendPendingData`. Messages in flight are sets, delivered in any order, each once;
retransmissions make the receiver get bytes again and repeat its ACKs, and
`TcpReceiver` is told anything again. `ReceivedAck` is the scoreboard update, `DiscardUpTo` and
`ProcessAck` with `DupAck`, `EnterRecovery` and `NewAck`, and is followed by
`SendPendingData` as in the code. The congestion window is computed by plug-ins
(`TcpCongestionOps`): every use of it picks any window of `CWnds`, none less than
a segment; after a timeout it is one segment. A timer that is scheduled may fire
at any moment. `TcpSocket` implements `ByteStream` with the same `written` and
`read`. `TcpReceiver` takes the receiver alone through segments of every size,
also those this sender never cuts.

**Simulator.** `pc` says where the main thread is: in the program's own code, at
a point of `Run()`, in an event, or waiting for the mutex in
`ProcessEventsWithContext`. Another thread takes two steps, for the push and for
the flag, both under the mutex (`holder`). Calls of the model (`Schedule`,
`Cancel`, `Remove`, `Stop`) happen in the program or in an event. Its event list
is a set, as a `std::map` is; `EventLists` tells a heap and a calendar whatever
the set is told, with the array operations of `heap-scheduler.cc` and the
buckets, the scan by year and the resizing of `calendar-scheduler.cc`. A loop of
theirs (`BottomUp`, `TopDown`, the samples of `CalculateNewWidth`) is a recursive
function of the number of its turns.
`Simulator` implements `EventQueue` with `queue <- Live` (the events in the list
that are not cancelled) and `time <- cur.ts`.

## 3. What TLC checks

| Run | Question | Properties |
|---|---|---|
| `multiple_queue_drr` | Is DRR fair in bytes (hence free of starvation), even with head drops? | `ByteFair` |
| `device_occamy` | Occamy: port 1 drops from the longest queue, port 2 round robin, with different alphas; accounts, isolation, liveness | `TypeOK`, `Isolated`, `WorkConserved`, `Accounting`, `Drains` |
| `device_pushout` | Push-out between a strict-priority and a DRR port: room, deficits, refinement | `Capacity`, `IdleDeficitsClear`, `PushOutSucceeds`, `SharesBuffer` |
| `device_abm` | ABM from uninitialised rates | `SaturatedCounted`, `Isolated` |
| `device_static` | What accounting survives a private static buffer | `StaticAccounting` |
| `host_link` | Are the packets of a host received, new ones in order, none stranded? | `NothingLost`, `FreshInOrder`, `Delivered` |
| `traffic_control` | Two ports with a pair of algorithms: does the buffer leak, do thresholds isolate, is a packet stranded? | `LeakBounded`, `PriorityExact`, `SaturationCounted`, `Isolated`, `NotStranded`, `Drains` |
| `event_lists` | Does every event run once and in order, from the set, the heap and the calendar, with another thread at work? | `UnscheduledExact`, `ExpiredExact`, `FlagExact`, `CalendarEarliest`, `KeepsPromise`, `HeapKept`, `Heard` |
| `tcp_reassembly` | Is reassembly exact for every way to cut, overlap and repeat a stream, and does a SACK only name bytes held? | `RxExact`, `SackTruthful` |
| `tcp_lossy` | Does a connection deliver the stream over a network that loses and reorders, does its scoreboard stay exact and follow the receiver, and does the sender never fall asleep? | `CountsExact`, `SackedHeld`, `HeadUnsacked`, `TimerArmed`, `HighestPlaced`, `DupAcksMatchState`, `OneSegmentAfterTimeout`, `ReliableStream`, `Arrives` |
| `static_repaid`, `host_passes_through` | Two statements of the comments that the code does not keep | one each, violated |

A property is checked where it is most at risk and not repeated in every run.
The type invariants of the traffic-control switch, of the simulator and of
`MultipleQueue`, and the latter's `WorkConserving` and `DeficitBounded`, are
proved (section 4) and not run; `TcpSocket` has no type invariant of its own
beyond what `CountsExact` says of the scoreboard.

Every property of a passing run has a mutant of the code (a dropped guard, a
missing credit, an idle port not started, ...) that TLC catches with it; the
mutants stand beside the definitions they change.

### Findings

* `static_repaid` (`point-to-point/model/shared-memory-point-to-point-net-device.cc:410`).
  A departing packet is taken to come "from static memory" when
  `usedStaticBuffer` exceeds what is *left* in the queue, and its whole size is
  taken off. A 2-byte packet of the shared memory can thus be taken off 1 byte
  of static buffer: the `uint32_t` wraps, and the shared memory never gets its
  bytes back. What remains true is `StaticAccounting`, modulo 2^32. It needs
  `StaticBuffer > 0`; the experiments use 0.
* `host_passes_through` (`...:1120`). The condition of the `if` enqueues the
  packet that the lines above have just enqueued. Each packet of a host crosses
  its link twice; with `PCPQ` the second copy goes to the queue of the highest
  priority.

### Observations

Other disagreements met while modelling. They are not runs of the project; where
a formula is given, TLC refutes it when it is added to the module and put in the
place of the properties of the `.cfg`.

* A device queue limited in bytes is kept running while an MTU has room
  (`network/utils/net-device-queue-interface.h:351`), but
  `PointToPointNetDevice::Send` adds the 2-byte PPP header before it enqueues: a
  running queue can refuse a packet, which is lost ("BUG!", says the log).
  `NeverDiscarded`, `TrafficControl.cfg`. For a queue limited in packets, the
  default, `NeverDiscardedInPackets` proves the opposite.
* `HeapScheduler::Remove` (`core/model/heap-scheduler.cc:239`) moves the last
  element into the gap and only lets it sink. If it is earlier than its new
  parent the array is no heap any more, and `RemoveNext` may return an event that
  is not the earliest: `events # {} => IsEarliest(heap[1])` fails after
  insertions and removals of seven events (`Threads = {}`, `MaxUid = 11`, no
  extraction). The default scheduler is the map. `HeapKept` says what
  remains, and is proved.
* Nagle's test applies to retransmissions
  (`internet/model/tcp-socket-base.cc:3504`). With `TcpNoDelay` false and less
  than a segment outstanding, a timeout sends nothing and starts no timer: the
  sender waits for ever, unless the application writes again. `TimerArmed`,
  `TcpLossy.cfg` with `NoDelay = FALSE`; the default is true.
* `m_highestSack` moves *down* to an item that lies directly below it and is
  sacked later (`internet/model/tcp-tx-buffer.cc:834`); `UpdateLostCount`, which
  counts from there, then recovers later than it could. `\A k \in
  Sacked(snd.tx) : k <= snd.tx.highest.at`, `TcpLossy.cfg`.
* An item retransmitted and then sacked still counts as retransmitted
  (`internet/model/tcp-tx-buffer.cc:829`), hence as in flight, until the
  cumulative ACK passes it. `Resent(snd.tx) \cap Sacked(snd.tx) = {}`, `TcpLossy.cfg`.
* SACK blocks are joined only when they touch end to end
  (`internet/model/tcp-rx-buffer.cc:307`). A segment that swallows a stored one
  leaves the block of the latter in the list, which the comment above rules out.
  `TcpReassembly.cfg`; `SackTruthful` still holds.

`LeakBounded` is a property that holds, of a behaviour that is not meant: the
`>` in `DequeueBuffer` (`traffic-control/model/shared-memory.cc:128`) keeps the
last packet charged when the buffer drains. The model shows that one packet is
all that is ever lost this way. It also relies on the children being at least
as large as the buffer: a child that refuses a packet leaves its charge
(`gen-queue-disc.cc:518`).

### Bounds, and why they suffice

* Two ports and two sub-queues or priorities: every interaction in the code is
  between a port that acts and one other queue, of the same or of another port.
  `device_abm` and `device_static` use one sub-queue per port (the state of ABM
  is large, and static accounting is per queue). `host_link` has a third
  sub-queue, not in use, that `EnqueueTos` refuses.
* Sizes 1 and 2, so that one eviction may free less than a packet needs, and a
  packet may drive a deficit below zero. `multiple_queue_drr` uses 1 and 3 with
  quantum 3. The quantum is never less than the largest packet, as in the code
  (2000 bytes, with packets of at most 1500 and their headers).
* `MaxBuffer` 3 and 4, `TotalBuffer` 8: full buffers, full queues and, with a
  static buffer, overfull ones are all reached. In `traffic_control` the buffer
  is a multiple of several packets *with* their headers, so that it can be
  filled to the last byte and drained to the last packet.
* `TokenFloor` (new packets wait while more tokens than that are owed) and
  `OnTime` (the update timer fires before a link exceeds an interval's bytes)
  cut counters the code leaves to the ratio of two rates. `MaxPackets` bounds a
  sub-queue (10^8 in the code), `MaxSent` the packets of a host. `Word` is 64,
  above twice any sum of the instance, as 2^32 is in the code; `StatWrap` is 9,
  just above the buffer.
* `traffic_control`: one port counts its device queue in packets and serves its
  classes round robin, the other counts bytes and serves by priority. `Quota` is
  3, no less than the packets that fit into the room one transmission frees (64
  in the code, against 35 of the smallest packets in place of one of the
  largest): a smaller quota could strand packets, which the code notes as
  `\todo netif_schedule`. `FlowThreshold` is
  the bound of a flow's count, which is compared with nothing else. `Pairs` puts
  every algorithm beside another one; ABM, whose state is the largest, with
  packets of one size.
* `event_lists`: delays 0 and 3, so that events coincide, fall in one year of
  the calendar and skip years; `MaxUid` 8, which allows four events, of which
  other threads hand over some.
* TCP: a segment is 2 bytes, so that a write may be a segment or half of one and
  retransmission has something to merge and to split. `MaxBytes` 4 is up to four
  items: two holes with a SACK block beyond each, and an item between that
  decides which is the highest. `DupAckThresh` is 2 (3 in the code), the least
  that tells a first duplicate ACK from the one that starts recovery; recovery,
  partial ACKs, lists of two SACK blocks and both outcomes of a timeout are
  reached. `CWnds` is one window of 4 bytes: what it leaves for sending varies with
  `BytesInFlight`. One retry (`DataRetries`, 6 in the code) allows a timeout that
  helps, one that gives up, and a second start after an ACK restored the count.
  `MaxBlocks` is 4 as in the code, and 2 in `tcp_reassembly`, so that seven bytes
  overflow the list. `MaxInFlight` 2 lets two messages overtake each other.
* `CHECK_DEADLOCK FALSE`, because a switch with no traffic, a host or a
  connection that has sent its data, or a program that calls nothing, really
  stops.

### Fairness

`FairSpec` of `SharedMemoryDevice` and `Spec` of `HostLink` assume weak fairness
of the ends of transmission, of the ABM timers, of receptions and of the rest of
a push-out loop: each is an event already scheduled (or the rest of the current
handler) and the simulator runs every scheduled event. Arrivals are not fair.
The token timer is not either: it stops by itself after 1.1 s
(`TokenAdd`), so `timer'` is arbitrary.

In `TrafficControl` a run under way disables the other events for a moment, so
that a scheduled wake-up or end of transmission is enabled again and again but
not always: their fairness is strong. It is still what the event list gives, an
event that is in the list is run after finitely many others.

`FairSpec` of `TcpSocket` says that a scheduled timer fires or is cancelled, a
message in flight is delivered, and the application reads what is ready. This is
weak fairness, spelled out by what the action does (only a timeout lowers the
count of retries, only a delivery takes a message out of the network), because
TLC would evaluate `ENABLED` by running the whole handler. It does not
make the network reliable: what is sent may be lost whenever it is sent, so that
`Arrives` rests on the retransmission timer, and allows the sender to use up its
retries.

In `Simulator` the main thread goes on while it is in `Run()`, an event returns,
and a thread that holds the mutex leaves it. The mutex itself is granted weakly
(`ProcessSwap` is one of the steps of `Loop`): as uids are bounded, other threads
cannot hold it for ever in turns. Nobody need call `Run()`: `Heard` is about
what has been handed over when `Run()` is called or while an event runs.

## 4. What is proved

TLAPS checks the following for any number of ports, sub-queues, priorities, any
sizes, buffer, alphas, tokens, and for every enqueue method, drop type and
dequeue discipline (`SharedMemoryDeviceProofs`):

| Theorem | States | `StaticBuffer` |
|---|---|---|
| `TypeCorrect` | `Spec => []TypeOK`: tokens stay under the cap; without private buffers, no byte counter falls below zero | any |
| `SaturatedCountedCorrect` | `Spec => []SaturatedCounted` | any |
| `StaticAccountingCorrect` | `Spec => []StaticAccounting` | any |
| `AccountingCorrect` | `Spec => []Accounting` | 0 |
| `CapacityCorrect` | `Spec => []Capacity` | 0 |
| `IsolatedCorrect` | `Spec => []Isolated`, for DT, MULTILAYER_DT and ABM | 0 |
| `SharesBufferCorrect` | `Spec => SharesBuffer`: the device implements `SharedBuffer` | 0 |

and, for any delays, any number of threads and any number of events
(`SimulatorProofs`):

| Theorem | States |
|---|---|
| `TypeCorrect` | `Spec => []TypeOK` |
| `UnscheduledCorrect` | `Spec => []UnscheduledExact`: what `Run()` asserts at its end holds at all times |
| `ExpiredCorrect` | `Spec => []ExpiredExact` |
| `FlagCorrect` | `Spec => []FlagExact` |
| `PromiseKept` | `Spec => KeepsPromise`: the simulator implements `EventQueue` |
| `CalendarEarliestCorrect` | `ListsSpec => []CalendarEarliest` |
| `HeapKeptCorrect` | `ListsSpec => HeapKept` |
| `ListsObserve` | `ListsSpec => Spec`: what is proved of `Spec` holds beside the other lists |

About the schedulers, on their own (`MultipleQueueProofs`) and in the device (`SharedMemoryDeviceProofs`):

| Theorem | States |
|---|---|
| `MultipleQueueProofs!TypeCorrect` | `Spec => []TypeOK` |
| `DeficitBoundedCorrect` | `Spec => []DeficitBounded`, under every discipline |
| `WorkConservingCorrect` | `Spec => []WorkConserving`, if the discipline is not `WRR` and no packet exceeds the quantum |
| `ByteFairCorrect` | `FairnessSpec => []ByteFair`, for DRR, if no packet exceeds the quantum |
| `WorkConservedCorrect` | `Spec => []WorkConserved`: no idle port has packets, if `Servable` (no port is `WRR`, no packet exceeds the quantum) |
| `IdleDeficitsClearCorrect` | `Spec => []IdleDeficitsClear`, if `Servable` |
| `PushOutSucceedsCorrect` | `Spec => []PushOutSucceeds`, if `2 * size <= MaxBuffer + 1` for every packet and `StaticBuffer = 0` |

About the traffic-control switch (`TrafficControlProofs`):

| Theorem | States |
|---|---|
| `TrafficControlProofs!TypeCorrect` | `Spec => []TypeOK` |
| `SaturationCountedCorrect` | `Spec => []SaturationCounted` |
| `IsolatedCorrect` | `Spec => []Isolated`, for every threshold algorithm |
| `LeakBoundedCorrect` | `Spec => []LeakBounded`, if `ChildrenFit`: no child queue is smaller than the buffer |
| `PriorityExactCorrect` | `Spec => []PriorityExact`, if `ChildrenFit` |
| `NotStrandedCorrect` | `Spec => []NotStranded`, if `QuotaSuffices`: a quota of the smallest packets is worth an MTU and two PPP headers |
| `NeverDiscardedInPackets` | `Spec => NeverDiscarded`, if every device queue is limited in packets |


About a host (`HostLinkProofs`) and a TCP connection (`TcpSocketProofs`), for
streams, segments, windows and numbers of messages in flight of any size:

| Theorem | States |
|---|---|
| `NothingLostCorrect` | `Spec => []NothingLost`, for any queues and packets, one queue or several by priority |
| `FreshInOrderCorrect` | `Spec => []FreshInOrder` |
| `RxExactCorrect` | `ReceiverSpec => []RxExact`: the receiving end alone, whatever segments arrive |
| `SackTruthfulCorrect` | `ReceiverSpec => []SackTruthful`, for any number of blocks |
| `CountsExactCorrect` | `Spec => []CountsExact` |
| `HighestPlacedCorrect` | `Spec => []HighestPlaced` |
| `HeadUnsackedCorrect` | `Spec => []HeadUnsacked` |
| `SackedHeldCorrect` | `Spec => []SackedHeld` |
| `DupAcksMatchStateCorrect` | `Spec => []DupAcksMatchState` |
| `TimerArmedCorrect` | `Spec => []TimerArmed`, if `NoDelay` |
| `OneSegmentAfterTimeoutCorrect` | `Spec => OneSegmentAfterTimeout` |
| `ReliableStreamCorrect` | `Spec => ReliableStream`: the connection implements `ByteStream` |

**Assumptions.** `StaticBuffer = 0` where the tables say so: with a static buffer
`Accounting` is false, as `static_repaid` shows, and what rests on it falls with
it. `MemoryAssumption` asks that twice a full buffer plus a packet fit the word: the
code keeps the buffer in an `int`, and `AsInt` is then the identity on queue
lengths. ABM is taken with `StaticBuffer = 0`, which it needs for its rates to
be initialised.

**The argument for the device.** None of the invariants is inductive alone.
`IInv` joins the types, `Sound(mem)` (types and accounting of the memory),
`Capacity`, `Counted(sat)`, `Isolates(mem)` for the threshold methods, and
`PushCredited`: while a packet is pushing others out,
`mem.used + push.freed <= MaxBuffer`. That last part is what makes `Capacity`
survive the admission that ends the loop, since the code does not check the
total again. Accounting is needed by everything else: a queue with `nBytes > 0`
is not empty (so a victim has a head), and a queue is never above `mem.used`,
which with the threshold taken at admission gives
`(1 + alpha) * n <= alpha * (buffer + packet)`. It is also what the refinement
rests on: `SharedBuffer` admits by the bytes really held, the code by
`m_usedBuffer`, and under `IInv` they are the same; each handler then maps to an
arrival, a drop and a transmission, some of which may be missing.

With private buffers of any size `Accounting` gives way to `StaticInv`: in place
of the equality of bytes charged and bytes held it keeps `Balanced`, that what
the MMU and the static counters account for together and what the sub-queues
hold differ by a multiple of `Word`. A credit to the wrong one of the two
accounts, or one that wraps below zero, leaves that alone; `StaticAccounting` is
the remainder of it.

The lemmas are one per code path that it keeps the memory
sound; the arithmetic of thresholds (`ThresholdBound`, `AcceptedWithinShare`).
`ByteCountProofs` is about `BytesOf`, the total of a function, counted as a set
of bytes so that no recursion is needed (`BytesOfSplit`, `BytesOfUpdate`,
`BytesOfTail`, `BytesOfAppend`), and about least values and remainders.
`QueueSchedulerProofs` shows that a dequeue only picks a backlogged queue, when
it picks one, and what it leaves of the deficits.

**The argument for the simulator.** `ExpiredExact` alone is not inductive: that
a comparison with the clock tells which events have run needs `Ahead` (every
event in the list comes after the one that ran last), `Unique` (one event per
uid) and `Fresh` (uids not given yet are above all others, in the list, among
the identifiers and among the cancelled). `Remove` then finds its event, which is
what the counter rests on. The events another thread has handed over are
inserted together; that they have as many uids as there are delays in the inbox
is a bijection (`MovedNumbered`). `FlagInv` adds to `FlagExact` that a thread
inside the mutex has put something in. The refinement is a step per action:
scheduling and handing over are `Schedule`, an event that runs is `Run`, one that
was cancelled only lets time pass.

**The argument for the event lists.** That the calendar finds the earliest event
is not inductive: the scan starts where the last one ended, and would pass over an
event of an earlier day. `Tidy` says that there is none (no event lies before
`m_lastPrio`, from which `m_lastBucket` and `m_bucketTop` are computed), that each
event is in the bucket of its day, and that the buckets are in order; `LInv` adds
that `m_lastPrio` is not beyond the clock, so that a new event, scheduled from now
on, does not lie before it either. `NextIs` is the scan: day `k` of the scan
shares its bucket with the days that are a multiple of the number of buckets later
(`DayInYear`), so the first event that lies before the end of its day of this year is the
earliest; if there is none, the code compares the heads of all buckets. A resize
needs only that the new width is positive, which `max(..., 1)` sees to
(`NewWidthIs`; that the samples can be taken out at all takes the induction along
`DoRemoveNext`). `HeapKept` rests on the two loops of the heap: while an event
rises, or sinks, the array is ordered but for the place where it is (`Rising`,
`Sinking`). `Remove` starts a sinking event below a parent that may be later,
which is why nothing is proved of the order after it. The library's induction
theorems cannot be used for these loops; that a loop has all its turns
(`Iterates`), and that what each turn keeps holds after them (`Along`), follows
from the least turn at which it would fail.

**The arguments for the schedulers.** `DeficitBounded` says too little to be
inductive: `Settled` adds that only the queue whose turn it is may have credit
left, and that queues which DRR does not serve have no deficit at all. With a
quantum no smaller than a packet no queue then owes a quantum
(`SettledSolvent`), so that the walk stops at the first backlogged queue it
meets (`ChoiceServes`). `Settled` does not mention packets that wait, so head
drops and evictions leave it alone; that carries it from the queue alone to the
device. There `PortInv` joins it with `AtRest`: an idle port has empty queues,
each with a deficit of zero. A walk that finds nothing clears the deficits
because it visits every queue and each forfeits its quantum (`IdleForfeits`).

Fairness rests on a *balance*: the lead of one backlogged queue over another,
corrected by their deficits. A packet changes lead and deficit alike, so that
only a quantum changes the balance. While both stay backlogged their quanta
alternate; the balance is one quantum higher only while the other queue is the
next to be visited (`Before`, by the position of the walk). `ByteFair` is what
the bounds of the deficits leave of it.

`PushOutSucceeds` needs `PushJustified`: what is held, what has been freed and
the packet that pushes exceed the buffer together. Among the queues it may take
from there is a longest one (`LongestExists`, by the least value of a function).
If even that one holds nothing, no bytes are held, so the packet and what it has
freed, less than its own size, exceed the buffer: a packet of more than half the
buffer, which the assumption excludes.

**The arguments for the traffic-control switch.** `BaseInv` says what every
counter means: the bytes of a child and of a queue disc are those of the packets
in them (`Exact`), occupied and remaining bytes add up to the buffer and `N` to
the saturation levels (`Solid`), a stopped device queue is short of room and
holds a packet (`DevInv`), and, without private bytes, what is queued is charged.
The six algorithms are reduced to three outcomes of an arrival (`Outcome`): the
packet is refused, it is charged to the buffer under a threshold that granted it
(`Paid`, `Granted`), or it goes to the port's own bytes (`Free`).

`Isolated` is inductive beside `BaseInv`: a granted threshold is a share of what
is free, what is free is at most the buffer without the queue's own bytes, and
everything else that happens to a queue makes it shorter. ABM needs
`ShareABMBound`: a rate of at most one, divided by an `N` of at least one, never
widens the share. In `LeakBounded` the case to see is `DequeueBuffer()` with the
last packet: the queues hold nothing else, so nothing had leaked before, and the
leak that stays is that packet. `PriorityExact` is arithmetic modulo the width of
the counters (`RemainderAdd`).

`NotStranded` needs to know why `Run()` stops. `RunInv` says that while it is
under way and the device queue runs, either the queue disc holds a single packet
(it had none before the arrival that began the run), or the device is busy and
its room was less than two packets when the run began (`Near`), because a
wake-up follows one departure. Each packet sent uses up room and quota alike, so
the quota cannot run out first, provided it is worth a packet of MTU size
(`QuotaStops`). Without that assumption `QueueDisc::Run`
could return with packets left and nobody to call it again: the code never
reschedules itself.


**The argument for the host.** `HostInv` speaks of the packets transmitted so
far, those received and then those on the wire. Each is in that sequence only
after all smaller numbers (`FreshFirst`), and those not in it yet are in queue 0,
in ascending order (`Carries`). A new packet goes to the end of its own sub-queue, if
that is in use, and then to that of queue 0, so queue 0 holds packets in the order
of sending; and since queue 0 is served before any other, a packet from another
queue leaves only when nothing is missing, hence as a repetition. Under `PCNONE`
both copies are in queue 0.

**The argument for the receiver.** How `Add` trims a packet depends on how those
stored lie, so `RxExact` is not inductive without `Whole`: the packets lie one
behind the other without overlap (`Laid`); what is ready, the bytes from
`next - avail` up to `next`, is stored and nothing before it; `next` is not
stored; and each SACK block is a range of stored bytes beyond `next`. `FirstMissing`
and `Holder` exist because a nonempty set of numbers has a least and, when
bounded, a greatest member. What `Add` stores then touches neither neighbour
(`PartFits`), adds exactly the bytes it says (`InsertedIs`), and moves `next` to the
next byte that is missing (`AdvancedWhole`); `Extract` leaves the bytes from `cut`
on, each in the packet it was in (`LeftIs`). The merging of SACK blocks is a
recursive function, about which no induction theorem of the library can be used;
instead, of the turns in which it could go wrong there is a first (`JoinedKeeps`).

**The argument for the connection.** `CInv` has four parts, and none of the
properties of the sender is inductive without several of them.

* The scoreboard (`Board`): the items tile what was sent and not acknowledged, the
  three counters are the bytes of the items that carry the mark, no item is both
  lost and sacked, and `highest` is at a sacked item. One lemma per operation of
  `TcpTxBuffer` (`RetransmitSteady`, `DiscardUpToBoard`, ...); that two items never
  overlap makes the bytes of a set of items additive. `Steady` and
  `Noted` say what an operation leaves alone, so that the handlers need no more of
  the buffer than that.
* The state machine (`Sound`, `Control`, `Armed`). `DupAcksMatchState` follows from
  something stronger: a recovery point is active exactly in RECOVERY and LOSS, and
  in DISORDER the threshold has not been reached. `Armed` is `TimerArmed` for a
  sender without Nagle's algorithm. A timeout stops the timer and marks all that is
  not sacked as lost; as the head is never sacked there is then an item to send
  again, and the window, computed from the counters, has room for it. With Nagle's
  algorithm that segment may be held back (see the observations), so the theorem
  assumes `NoDelay`.
* The receiver (`Whole`), as above.
* The network (`Linked`). Segments in flight are bytes that were sent; what the
  sender crossed off, and what an ACK reports, the receiver has or had (`Behind`,
  `Truthful`). That does not exclude an old SACK block that covers the head: it
  takes `Ordered`, that a byte some ACK in flight expects is in no block of an ACK
  that expects no more, because the receiver lacked that byte when it sent either;
  and `Ahead`, the same of the marks of the sender. `HeadUnsacked` survives an ACK by these,
  since its number becomes the head. The SACK blocks need not cover items exactly,
  since `SackBlock` only marks the items that lie inside one.

`SendPendingData` and the marking of several blocks are recursive functions, treated
as `Joined` is: of the turns after which a relation between the buffer before and
now fails there is a first. The refinement is then short: a `Write` adds bytes that
were not sent, and `Read` returns the bytes from the receiver's place on, of which
`Behind` says that they were written.

Only model-checked: the refutation of `NeverDiscarded` for device queues limited in bytes;
`TimerArmed` for a sender with
Nagle's algorithm, of which it is false; and, because TLAPS does not reach liveness
under fairness, `Drains` (twice), `Delivered`, `Heard` and `Arrives`. With a static
buffer, `WorkConserved` and `IdleDeficitsClear` are proved as they are without;
`Isolated` and `Capacity` are not claimed.

## 5. What is not modelled

* ECN marking, telemetry, throughput counters, statistics files, tracing: they
  decide nothing.
* `GetPriorityThreshold` is only written to traces; `DropRR` has no caller.
* A link that is down (`SendSwitch` returns before anything changes) and
  receive error models, which no experiment installs.
* Indices beyond the eight sub-queues (a DSCP above 7, or index 100 for a
  protocol other than TCP and UDP): the code reads past a vector.
* `UseqCnt = 0`: every dequeue would divide by zero.
* `deqPriorityBytes` matters to ABM only; its uninitialised first value is a
  choice between a rate of zero and half a link's (`Garbage`).
* With a reserve (`staticBuffer` of `GenQueueDisc`) bytes are charged by one
  rule and credited by another, and no statement about the totals is left to
  check; the port with a reserve is in `traffic_control` for its types, flow
  control and saturation.
* In the traffic-control path: requeueing (a device with one transmission queue
  is asked whether it is stopped before each dequeue), dynamic queue limits,
  devices with several queues, other queue discs.
* `queueIdMap`: a packet's sub-queue is an input, so every table is covered.
* In the simulator: `ScheduleDestroy` and `Destroy`, the wrap of the 32-bit
  `m_uid`, the calendar's `Reverse` order, the list and priority-queue
  schedulers, the real-time and distributed simulators.
* In TCP: opening and closing (SYN, FIN, RST), so `ESTABLISHED` only; data in
  the other direction; ECN and CWR; pacing, also the repository's own change of
  it for one kind of experiment; the receiver's window with the persist timer;
  peers without SACK; a send buffer that is full; the wrap of sequence numbers;
  a `Send` that the application makes from within a notification; the
  congestion-control plug-ins, whose windows are inputs.
* The other protocols and link layers of ns-3 (IP, routing, UDP, Wi-Fi, LTE and the
  rest, some 765 000 lines): stock code of the simulator that the repository
  carries unchanged. The switches see of them an arbitrary source of packets,
  which is how they are modelled; hence the small share of the tree that the map
  covers.

## 6. Plan

Next, in this order:

1. `SharedBuffer` for `TrafficControl`, with the bytes of the leak as a
   handicap of the budget.
2. TCP: the receiver's window and the persist timer, whose handler takes a byte
   from the buffer and puts a segment back; then opening and closing.
3. A composition of `HostLink` with a switch port, for end-to-end delivery when
   the buffer has room.
4. The other event lists (`list`, `priority-queue`) beside the set, and
   `Destroy`.
