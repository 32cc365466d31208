# A verification project for pipert

pipert is a C++ library for real-time data-flow pipelines.  User code is
written as *nodes* (callbacks); packets travel between nodes over *channels*;
a *scheduler* owns worker threads that take the earliest packet and run the
callback of the channel it is queued in.  Channels may be *polled* by any
thread, *scheduled* (served by the workers) or *sending* (a scheduled channel
whose callback sends the packet over UDP to a *receiver* of another process).
A *profiler* collects events from every channel and sends them to a log
analyzer.

This directory holds TLA+ modules translated from the source, TLC
configurations that check them on small instances, and TLAPS proofs for
instances of every size.  `PROJECT.json` lists, for every definition, the
source lines it stands for.

## 1. Inventory

### Scheduler (`src/SchedulerImpl.*`, `include/pipert/Scheduler.h`)

*State.*  `global_mutex_` (an adaptive spin lock), `global_covar_`;
`state2channel_queues_`, which maps each monitor object ("state") to an
`enabled` flag and a heap of the channels that hold packets for it;
`state_queue_`, the heap of the enabled states that have work;
`workers_`; `keep_running_`, `running_`, `valid_state`; `channels_`,
`receivers_`.

*Operations.*  `Start`, `Stop`, `RegisterChannel`, `UnregisterChannel`,
`AddReceiver`, `SetStateInvalid` (owner); `JobsArrived`, `JobsUpdated`,
`JobsDropped` (called by channels with the mutex held); `RunTasks` (workers).

*Interaction.*  A push into a scheduled channel takes the scheduler's mutex and
calls `JobsArrived`/`JobsUpdated`; a worker that takes a job calls back into
the channel (`PopNext`), which calls `JobsUpdated`/`JobsDropped` again.  Heaps
compare *live* timestamps while they are being repaired, so every change of an
earliest packet must be followed by a reposition of exactly one element.

*Hard.*  Which callbacks reposition what, while a worker has the state
disabled; one `notify_one` per change of the front, none on re-enabling;
stopping while callbacks run; restart with packets queued.

*Correct when* a monitor object is never served by two workers, the earliest
eligible packet is served first, no heap is stale, no wake-up is lost, no
packet is forgotten, and `Stop` returns and leaves a scheduler that can be
started again.

### Channel: pool and queue (`src/ChannelImpl.*`, `Channel.h`, `PolledChannel.h`)

*State.*  A buffer of `capacity_` slots, `free_packets_` (a stack, its own
mutex), `queued_packets_` (a heap by timestamp, its own mutex, or the
scheduler's for a scheduled channel).

*Operations.*  `Acquire` (with `TryDroppingPacket` when the pool is empty),
`Push`, `GetNext`/`Poll`, `PopNext`, `PeekNext`, `Execute`, `Release`.

*Hard.*  `Acquire` consists of up to five critical sections under two locks;
other threads may take what it has just freed.  Events are logged outside the
locks.

*Correct when* every packet is always in exactly one place, and follows the
life `Packet.h` documents; when the data of a packet is constructed and
destructed in place; when the logged events balance.

### Packets and stubs (`Packet*.h`)

Move-only handles: `PacketToFill` pushes its packet when it dies,
`PacketToProcess` releases it.  *Hard*: move assignment to a stub in use.

### SteadyHeap (`src/SteadyHeap.h`)

A binary heap in a vector with `force_to_top`/`force_pop_heap`, which moves an
element whose key has changed to the front without comparing anything and pops
it from there.  *Correct when* the array is a heap again after each use and no
element is lost.

### Channel front ends (`ChannelBase.*`, `ScheduledChannel.h`, `SenderChannel.h`)

Movable owners of a `ChannelImpl`; the implementation keeps a back pointer
(`SetBase`) for the callback.  *Hard*: a move assignment over an owner;
the sender channel's callback, bound to `this` at construction; a channel
destroyed while it still has packets queued; addresses used again.
*Correct when* a channel has one owner, calls back through it, and its packets
come home to its own pool.

### Sender, receiver and handshake (`SenderChannel.h`, `Receiver*.h`, `Protocol.h`, `UDPConnection.*`)

*State.*  A socket at each end; `running_` and the thread of a receiver;
`network_packet`; whether a scheduler is invalid.

*Operations.*  `SenderSideHandshake` sends the sizes and alignments of the type
and reads an answer; `ReceiverSideHandshake` compares and answers; a failed
handshake makes the scheduler invalid.  `SendPacket` is the callback of a sender
channel.  `Receiver::Run` polls and pushes what has come into its channel.

*Hard.*  UDP loses, duplicates and reorders; the sender's socket does not block;
the handshake and the packets arrive at one socket; a sender may be restarted;
the channel behind the receiver may be full; `running_` is not initialised;
`Stop` stops the receivers after the workers.

*Correct when* only packets of a compatible sender get into the channel, each copy
once, no handshake is taken for a packet, and the receiver's thread never blocks.

### Profiler (`Profiler*`, `ProfileData.*`, `SenderLogger.*`, `ThreadId.*`)

*State.*  Per channel a `ProfileData`: an aggregate for each event type, the names
of up to `kMaxSenders` pushing threads, `serialize_next_`.  `profile_data_`,
`next_profile_data_` (-1 while nobody gathers), `worker_shutdown_`, the buffer.

*Operations.*  `Log` (any thread), `AddProfileData`/`RemoveProfileData` (owner,
while stopped), `Start`, `Stop`, and `GatherNSend`, called by the collector's
thread and by the owner, which serialises and clears channel after channel into
a buffer and sends each buffer when it is full or its channel complete.

*Hard.*  Gathering runs while threads log, a channel piece by piece; two threads
may call it at once; what keeps them apart is one `compare_exchange`; a buffer
has a fixed size and 64 bytes of it are kept for an event; an event's
aggregate and its sender are logged under different locks.

*Correct when* every event is reported once or still in its aggregate, no buffer
is written past its end, and gathering and `Stop` end.

### LogAggregate and AdaptiveSpinLock

The statistics of one event type, and the lock under every critical section of
the library: `test_and_set` with a yield after some failures.  *Hard*: no queue,
so nobody is sure to get the lock; four fields change one by one; what is
cleared must be what was serialised.

### Log analyzer (`log_analyzer/`, Python)

Decodes the profiler's datagrams and keeps a map of which channel pushes into
which.  *Hard*: what it reads is what `ProfileData` writes, over a link that
loses, repeats and reorders.  *Correct when* it goes on whatever comes, and each
edge of the map is a push that has happened.

### Others

`Timer`, `Endianness`, GUI, configuration and measuring tools.

## 2. Modules

| module | stands for |
|---|---|
| `Dispatch` | what the scheduled side promises: no heaps, locks or threads |
| `Scheduler` | `SchedulerImpl`, the queue side of scheduled channels, the owner's `Start` and `Stop` |
| `MCScheduler` | which channels share a monitor object in the runs |
| `SchedulerProofs`, `WakeupProofs` | theorems about `Scheduler` |
| `PacketLife` | the phases of a packet that `Packet.h` documents |
| `Channel` | pool, queue, stubs and events of one channel used by several threads |
| `MCChannel`, `ChannelProofs` | its instances and theorems |
| `Lifecycle`, `MCLifecycle`, `LifecycleProofs` | front ends, registration, moves and destruction of channels; receivers in `Start` and `Stop` |
| `Network`, `MCNetwork`, `NetworkProofs` | sender channel, handshake, link and receiver |
| `AdaptiveSpinLock` | `lock` and `unlock` |
| `LogAggregate`, `MCLogAggregate`, `LogAggregateProofs` | `LogAggregate`, under an `AdaptiveSpinLock` |
| `LogFormat` | the names, events and datagrams that profiler and analyzer share |
| `Profiler` | `ProfilerImpl`, `ProfileData`, `SenderLogger`: logging, gathering, `Start` and `Stop` |
| `Analyzer` | the decoder and the map of the pipeline |
| `Monitoring`, `MCMonitoring` | `Profiler` and `Analyzer` joined by a link |
| `MonitoringProofs` | theorems about `Monitoring`: the profiler, and what the analyzer makes of it |
| `PriorityQueue` | what every heap is taken for |
| `SteadyHeap`, `MCSteadyHeap`, `SteadyHeapProofs` | the array, `std::push_heap`/`std::pop_heap` and the forced repositions |

### Scheduler

Every critical section of `global_mutex_` is one action, with every callback
it makes between channel and scheduler.  The one exception is the worker that
finds nothing to do: it keeps the mutex from its test of the wait condition
(`FindNothing`) until `condition_variable_any::wait` has queued it (`Wait`), as
lost wake-ups live exactly there.  The outer `while (keep_running_)`, the
callback, and the three steps of `Stop` (clear the flag under the mutex, notify,
join) are actions of their own.  Spurious wake-ups are allowed at any time.

A heap is modelled by the key each element had when it was last inserted
(`channelKey`, `stateKey`; `kMaxTime` means "not in the heap"), and *not* by
the present key: an element that the code forgets to reposition keeps its old
place, so a missing reposition is visible.  Ties are broken in every way.
That a binary heap repaired this way really behaves like a keyed set is what
the run `steady_heap` and the theorem `HeapImplementsPriorityQueue` are for.

A packet is a slot of a channel's pool.  `Push` may be called by anybody,
callbacks included, for a slot that is neither queued nor being executed; `Drop`
is the `GetNext(true)` that an `Acquire` on a full pool makes.

`ImplementsDispatch` maps `held` to the packets in callbacks and `busy` to the
disabled states.  Through it a step of `RunTasks` is shown to serve the
earliest packet *of all channels whose state is not being served*, computed
from the packets alone, not from any heap.

### Channel

One `Channel` instance is one `ChannelImpl` with its stubs.  `pc` says at which
critical section of `Acquire` or `Push` a thread is.  A thread holds one stub
(a thread with several is several threads here).  `live` is the set of packets
whose data object is constructed.  `SpecWithReuse` adds assignment to a stub
that holds a packet, as `test/SchedulerTest.cpp:140-142` does it; `Spec`
leaves it out, so that the properties show what holds for programs that do not.

`MaxPushes` bounds the number of packets pushed in a behaviour (the event
counters grow for ever otherwise).  Threads then have nothing left to do, so the
channel configurations say `CHECK_DEADLOCK FALSE`.  The scheduler and the heap
have no such bound and are checked for deadlock.

### Lifecycle

`Fronts` and `Impls` are addresses, used again when their object is gone, so that
stale pointers can meet new objects.  The registered channels (`channels_`) are
exactly the `ChannelImpl`s that exist, as the constructor registers and the
destructor unregisters.  `MoveTo` is what every move does, `Move` the situations
it is called in; `Delete` is the destructor and `Destroy` its situations.  The
workers and `Acquire` act in one step here; `Scheduler` and `Channel` have their
details.  `Scheduler` leaves receivers out for the same reason.  The initial
value of a receiver's `running_` is any Boolean, as no constructor sets it:
`Start` may take a receiver for started and leave it without a thread.
Assertions do nothing, as in the default (Release) build.

Nothing in the code keeps an owner from doing three things to a channel that it
still needs, and no document tells it not to.  The module has them all:

- moving over a front end that owns a channel: that `ChannelImpl` is neither
  deleted nor unregistered, has no owner any more, and its packets are executed
  through the front end that its `base_` still names, which owns another channel;
- moving a `SenderChannel`: its constructor binds `this`, so that the channel
  goes on calling the object it was moved from;
- destroying a scheduled channel that has packets: it is unregistered, but a
  pointer to it stays in the heap of its state.

`careless` is the history of which of the three were done.  Every invariant holds
for all programs as far as it can, and names in its hypothesis the one thing
that it cannot stand: `OneOwner` and `PacketsHome` a move over an owner,
`JobsLive` (its second half) a destruction with packets.  `broken` says that a
worker or a heap has used an object that is gone, or another one at its address
(`Callable`, `Compare`); whether a heap notices is a choice, and nothing is
modelled of a program after it has.  `OnlyLiveUsed` is that this takes one of the
three, each of which alone is enough.

What the module leaves to the program is that channels are configured only while
the scheduler is stopped, and that a front end that a stub or a receiver still
points to is neither moved away nor destroyed.

### Network

A datagram is a packet, told by its timestamp, or the handshake.  `copies` counts
the copies of it that ever were, `inTransit` those that are on their way; the link
loses, duplicates and takes them in any order.  The receiver's constructor waits
for one datagram and takes it for the handshake (`Compare`); if the port was taken
it has no socket and goes on (`CompareNothing`).  The receiver's thread has two
steps, so that `Stop` and workers come in between: poll and receive, then
`Acquire` and push.  The uninitialised buffer that the sender compares when no
answer is there is a choice between the two outcomes (`NotBlocked`).  The sender
may restart.  `running` is the scheduler's flag, `running_` the receiver's own,
which no constructor sets: if it happens to be set, the first `Start` makes no
thread (`MakeThread`), and the next one after a `Stop` does.  The channel behind
the receiver has a capacity and drops as `Channel` does.

### LogAggregate

`CallLock`, `Granted` and `Refused` are the steps of `lock`; every field changes
in a step of its own between `lock` and `unlock`, by any number of threads that
log and gather.  `window` is the history of the values logged since the last
`Clear`, from which `Summary` computes what the fields should be.  The other
modules take a critical section for one step: `OneInSection` and `FieldsAgree`
are why they may.

### Monitoring

`Profiler` has the threads that log, the thread that gathers and the owner.  `Log`
is two steps, the aggregate and the sender, as in the code.  A `GatherNSend` is a
step for the beginning of a buffer, one for each event type, and one that sends;
`phase` tells where it is.  A worker bears the name of the channel whose callback
it runs.  `Pipeline` says which callback pushes into which channel.  A buffer is
its sender, its counts and its size: the sizes of header, sender section and event
entry are constants with the bounds that cutting names to 27 characters gives.
`due`, the events logged and not yet sent, is history.

`Analyzer` decodes what `Profiler` sends: it always reads a sender after the
group, so that a buffer without one is read one string off (`Decode`) or past
its end (`Decodable`).  Of a datagram longer than `ReceiveSize` (`recvfrom(512)`,
analyzer_server.py:67) it gets the beginning, which ends between two events or
within one (`AddCut`), as names have any length; the second ends the server.
`truncated` is the history of this.  `Monitoring` adds the link.

`MaxPending` bounds the events that are logged and not sent, `MaxInTransit` the
datagrams on their way.

### SteadyHeap

`MoveUp` and `SiftUp` write the paths along which libstdc++'s heap functions
move elements up, `Sink` the path on which the hole of a pop goes down to
`EarlierLeaf`; `force_to_top` shifts a path without comparing.  `Reposition`
and `Remove` change a key first, as `ChannelImpl` changes the queue before it
calls `JobsUpdated`/`JobsDropped`.

## 3. Runs

| run | instance | what it shows |
|---|---|---|
| `scheduler_stateful` | 3 workers, 2 monitor objects, 3 channels (two on one object), 4 slots, times 0..2 | heaps in order, mutual exclusion, clean stop, no lost wake-up |
| `scheduler_mixed` | 2 workers, a stateful node with two channels and the stateless node with two slots, times 0..2 | one place per packet; refinement of `Dispatch`: earliest first; `Stop` returns; queues drain |
| `scheduler_parallelism` | 2 workers, mixed nodes | *violated*: full parallelism of stateless nodes |
| `channel_pool` | 3 slots, 3 threads, 4 pushes, times 0..1 | nothing lost or shared; data constructed in use; events balance; refinement of `PacketLife` |
| `channel_reuse` | 2 slots, 2 threads | *violated*: a stub assigned over loses its packet |
| `steady_heap` | 5 elements, keys 0..2 | heap order and refinement of `PriorityQueue` |
| `lifecycle` | 2 front ends, 2 channels with 2 and 1 slots, 1 receiver | no channel has two owners; heaps know all work; quiet when stopped; every `Stop` returns; and, without a careless act of the owner, no channel without owner, no stale pointer, packets come home, only live objects used |
| `log_aggregate` | 3 threads, 2 spins, values 0 and 4 (1 is the least positive number), 2 events between clearings | one thread in the section; fields agree with the events; nothing is cleared unreported; the lock goes to somebody |
| `network` | 2 packets, the handshake, 2 copies of each, a channel of 2 | nothing invented; only compatible senders; a handshake of which there is a single copy is not pushed; never over capacity; the socket drains once the receiver's flag was clear |
| `network_handshake` | the same | *violated*: a sender that goes on was accepted |
| `monitoring` | a worker whose callback pushes into the other of 2 channels, 2 event types, buffers of 128 and 508 bytes of which the analyzer reads 160, 2 events pending, 1 datagram on its way | every event counted; buffers hold; gathering undisturbed; channels complete; the map is true and only a cut datagram ends the analyzer; everything gathered; `Stop` returns |
| `monitoring_split` | the same with buffers of 128 bytes | *violated*: the analyzer survives |

*Why the bounds are enough.*  Two channels on one monitor object make the channel
heap matter, the third makes `state_queue_` matter; two slots in a channel make
"still packets left after a pop" (`JobsUpdated`) differ from "the last one"
(`JobsDropped`).  Three timestamps make all comparisons of `Push` (earlier, equal,
later) happen and let a packet fall between two others.  Three workers let one
sleep while one serves and one searches; two are enough for the refinement, which
is proved for any number.  In the pool, a thread that has just freed a packet
still contends with two others for it.  Five elements give a heap of three levels
whose last level is not full, so a forced path has siblings on every level.  Two
front ends and two channels allow a channel to be moved to a free place, over the
other one, or onto itself, and its address to be used again by another; each of
the three careless acts breaks the program within eight steps. A receiver has both
values of its uninitialised flag.  With two spins the lock yields and spins again;
a value of 0 is below what the maximum starts at. Two copies of the handshake are
a duplicate or a restarted sender, and with two packets in a channel of two,
copies fill it while one is processed.  A buffer of 128 bytes with the longest
names holds one event and splits every channel that has two; the default of 508
never does here, which is the case that `MapTrue` is about (`OneBuffer`).
Reaching the 512 bytes of `recvfrom` takes eight event types in one buffer; the
run has it read 160 instead, so that datagrams of one event come whole and those
of two are cut, and the theorem has any size.  That the other datagrams arrive
late, again or never does not need more than one on its way: each one is delivered
or lost, and any number of times, at every later state.

*Symmetry.*  Workers, slots and threads are interchangeable in the runs that
only check invariants or a refinement without fairness, where they are declared
symmetric at all.  The runs with liveness use no symmetry.

*Deadlock* is checked, but not in the two channel runs, where threads stop after
`MaxPushes` pushes (the event counters grow for ever otherwise), the two
network runs, where a receiver may wait for a handshake for ever and
`MaxCopies` ends the traffic, and `lifecycle`, where a broken program stops and an
owner that has moved over all of its channels may have nothing left to do.

### Fairness

`Fairness` in `Scheduler` is weak fairness of each worker and of the last two
steps of a `Stop` that has been called.  Threads are preemptively scheduled, a
callback returns (`Execute` is part of `Worker`), and `wait` returns control once
notified.  Nothing makes a client push, or the owner start or stop, and
nothing makes a spurious wake-up happen.  Weak fairness of a worker whose next
step is a critical section assumes that it gets the spin lock if the lock is
free *from some point on*; `ServedWhenAlone` shows that `AdaptiveSpinLock`
gives this and `SomebodyServed` that it always serves somebody, both from
nothing but threads that run (`LogAggregate`).  It promises no more.  Hence
`QueuesDrain` has the hypothesis that pushes and spurious wake-ups stop: a
thread that locks again and again can keep others out for ever.

`FairSpec` of `Lifecycle` has weak fairness of the owner's thread inside `Start`
and `Stop` and of the receivers' threads, whose `poll` has a timeout.  That of
`Network` has the receiver's thread only; `SocketDrains` has the hypotheses that
the receiver stays started, that its flag was clear at some time (initially, or by
a `Stop`) and that sender and link rest.  `StopAlwaysReturns` is for programs that
are not broken.  That of `Monitoring` has the collector, which sleeps for a finite
time, and the owner inside `GatherNSend` and `Stop`; nothing makes threads log or
the owner call anything, and a sleeping collector wakes up late, which is a step
not yet taken.

### Findings

1. *Stateless nodes do not get "full parallelism"*
   (`scheduler_parallelism`).  `Scheduler.h:125-128` promises that "all free
   threads can call the registered callback simultaneously".  A worker that
   takes a stateless packet wakes nobody for the next one, and a push that does
   not become the earliest of its channel notifies nobody, so packets pushed
   in timestamp order are served one after the other while workers sleep.
2. *A stub that is assigned over loses its packet* (`channel_reuse`), against
   `PacketToProcess.h:12-13`; the pool shrinks by one slot each time.  The loop of
   `test/SchedulerTest.cpp:140-142` loses every packet it polls, the last one by
   the empty result that ends it.
3. *A sender does not wait for the answer to its handshake*
   (`network_handshake`), against `Protocol.h:36-38`: its socket does not block
   (`Scheduler.h:244`), and the buffer compared is not initialised.
4. *A channel that needs a second buffer ends the log analyzer*
   (`monitoring_split`), against `ProfileData.h:61-64`: the buffer has no
   sender section, and the decoder reads a sender in every one.

Seen while translating, and not the subject of a run:

- a packet that a full channel drops is not destructed (`ChannelImpl.cpp:181`),
  so that what its data owns is leaked; `DataInUse` shows that nobody reaches it;
- `ProfilerImpl` asserts a buffer of 64 bytes, `ProfileData` needs 128; in a
  release build with 64 to 95 bytes no event may ever fit and a gathering goes
  on for ever (the model has the 128 of the stricter assertion);
- a push whose aggregate is gathered before its sender is tracked is reported
  with the sender `N/A`, which the analyzer calls a "Sending Bug"
  (`channels_manager.py:121`);
- events after the last gathering before a `Stop` wait for the next `Start`, or
  are discarded by `UnregisterChannel`;
- the maximum of an aggregate starts at `numeric_limits<double>::min()`, the least
  positive number, so that `GetMax`, documented as "Get maximal value logged"
  (`LogAggregate.h:64`), returns that number if only zeros or negative values were
  logged.  `Summary` takes the maximum of such a window for what the code makes
  of it; where a greater value was logged it is the greatest one;
- a receiver whose `running_` happens to be set when it is constructed
  (`ReceiverBase.h:36`) gets no thread at the first `Start` (`Receiver.h:69-70`):
  nothing that comes is read until a `Stop` and another `Start`;
- a buffer larger than 512 bytes, which a user may choose, with eight or more event
  types logged makes datagrams that the analyzer cuts; if the cut is within an
  event, the `IndexError` ends it;
- a move over a front end that owns a channel leaks the `ChannelImpl` and leaves it
  registered, so that `assert(channels_.size() == 0)` (`SchedulerImpl.cpp:29`) fails
  in the end;
- `ChannelImpl.h:107-108` says of `SetBase` that it "allows the interface to be
  moved"; for a `SenderChannel` it does not, as the function bound at
  `SenderChannel.h:43` has the old address;
- a scheduled channel destroyed with packets leaves its pointer in the heap of its
  state (`SchedulerImpl.cpp:52-64`), where the next worker or push finds it.

## 4. Proofs

All theorems hold for every value of the constants that the named assumptions
allow.  The type invariants are proved (`TypeCorrect`, `LifecycleTypesAlwaysOK`,
`NetworkTypesAlwaysOK`, `AggregateTypesAlwaysOK`, `ProfilerTypesAlwaysOK`,
`HeapTypesAlwaysOK`), so the runs spend their time on other properties; so is
`AnswersTrue` of `Network`.

### Scheduler

Assumes `SchedulerAssumption`: the constants have their types, and the null
values are not packets or workers.  Nothing is assumed finite except in
`NoWakeupLost`, which counts workers and states.

1. `TypeCorrect`: `TypeOK` is inductive.
2. `QueuesAlwaysInOrder`: with `TypeOK`, `QueuesInOrder` is inductive.  The
   argument is about minima: `FrontKeyFacts` says what the front of a heap is,
   `HeapKeyUpdate` what one changed element does to it, and `NotMoved` and
   `NotDropped` that the repositions `JobsUpdated` and `JobsDropped` leave out
   would not have changed anything.
3. `WorkersOK` (`MutualExclusion`, `OnePlace`, `WorkersInStep`) is inductive
   relative to 2.: a worker can take a job only of a state in `state_queue_`; by
   2. such a state is enabled; by `MutualExclusion` nobody serves it.
   Neither conjunct is inductive alone: mutual exclusion needs that `state[w]` is
   the state of the packet being executed, which is in `WorkersInStep`.
   `MutualExclusionHolds`, `PacketsInOnePlace` and `StopLeavesNothing` follow.
4. `SchedulerImplementsDispatch`: from 2. and 3., each action maps to a step of
   `Dispatch` or a stutter.  The key step is `RefinesTake`: the front of three
   nested heaps is the minimum over all eligible packets.
5. `NoWakeupLost` (`WakeupProofs`): with finitely many workers and states and
   without stateless nodes, `WorkConserving` holds.  It needs `SleepsOnEmpty` as
   a companion: a worker between its test and its wait has seen an empty
   queue and holds the mutex, so nothing was queued since.  Each action that
   queues a state either wakes a worker or has no sleeper to wake, and a worker
   that re-enables a state becomes itself the one on its way to it.  This is why
   the missing `notify_one` in `SchedulerImpl.cpp:232` is harmless.  With a
   stateless node the property is false (finding 1 is the practical side).

### Channel

Assumes `ChannelAssumption`.  `IInv` (`TypeOK`, `NothingLost`, `NothingShared` and
`HandsInStep`, which ties `raw` and `stub` to `pc`) is inductive; without
`HandsInStep`, `ReleaseDropped` could release a null packet and `Push` could
queue one.  `PacketsNeverLost` and `PacketsNeverShared` follow;
`ChannelImplementsPacketLife` shows that every step moves at most one packet,
along an arrow of `PacketLife`.  `DataInUse` is
inductive relative to `IInv`.  So is `Balance`, which makes `EventsBalance` exact at
every state: it also counts the threads that have logged a push and not made it,
and those that have dropped a packet and not logged it.

### Lifecycle

Assumes `LifecycleAssumption`.  `IInv` is `TypeOK`, `OnlyLiveUsed` and three
parts. What holds for owners who have not been careless is kept like the rest, as
`careless` only grows.  `Owned`: `OneOwner`, that every `base_` is a front end,
and `Callbacks`, that a sender channel calls its owner, until one is moved over or
a sender moved.  `Kept`: jobs and packets, and `StubsHome`, that the front end of
a stub owns the channel of the packet, until a move over an owner.  `Quiet`: where
receivers may have a thread, by where `Start` and `Stop` are in their loops.
`OnlyLiveUsed` is what the parts are for: with no careless act, whatever is in the
heaps has work (`JobsLive`), its `base_` is its owner (`OneOwner`), and the
callback of that is the user's function or its own (`Callbacks`).  The theorems
are `AlwaysOneOwner`, `JobsAlwaysLive`, `PacketsAlwaysHome`,
`AlwaysQuietWhenStopped` and `AlwaysOnlyLiveUsed`.

### Network

Assumes `NetworkAssumption`.  `IInv` strengthens `NothingInvented` to `Accounted`,
which counts the copy that the handshake consumed too; that is what makes
`HandshakeNeverPushed` true.  `Handshaken` ties what the receiver has done to
how its handshake went, for `AlwaysOnlyCompatible`.  `Numbered` says that a slot in
the channel has a number below the count of pushes, so that a new one is
new and the channel's cardinality is what `AlwaysWithinCapacity` says.

### LogAggregate

Assumes `SpinAssumption` and `ValueAssumption`.  `AlwaysOneInSection` needs the
flag and the threads together: `unlock` clears the flag without looking who set
it, and only that one thread at a time is in the section makes this right.

The fields agree with the window only while nobody is inside.  `FieldsFollow` says
what holds all the time: they are those of the window once the one thread between
`Count` and `Maximum` has done what its program counter says it still has to do
(`SumAfter`, `MinAfter`, `MaxAfter`).  `FieldsAlwaysAgree` follows.  With
`Reported`, that a thread about to clear has just written the fields as they are,
`NothingEverClearedUnreported` follows too: the fields are still those of the
window, so the report is.

`Total` is a recursive function.  `TotalsExist` and `TotalsUnique` show that the
function there is one and only one, by the least number of values for which
there is none or two of them differ; `TotalFacts` is what the invariant uses.

### SteadyHeap

Assumes `SteadyHeapAssumption`: keys are natural numbers, which timestamps are.

1. *Paths.*  `PathUp` is a recursive function too; `PathFacts`, from the least
   position at which they fail, say that a path has the parents of its members,
   ends at 1 and has one position at most among two children (`OneChild`).
2. *Elements.*  `Rearranged`: an array that takes every element of another from a
   different place has the same elements, each once.  `MoveUp` and `Sink` are such
   rearrangements (`MoveUpKeeps`, `SinkKeeps`).
3. *Order.*  `SiftUpOrders`: if an array is ordered but for a leaf, which may be
   too early for its parent, sifting that leaf up makes it a heap.  `SinkOrders`:
   when the hole has sunk, that is how the rest is left, whatever was on top.
   This is why a forced pop works: `force_to_top` puts one element on top and
   leaves all other parents and children in order (`ForceFacts`), and the pop that
   follows does not look at the top.
4. `PopFacts`, `PushFacts` and `TopIsEarliest` give the operations; each of them
   is one action, so `TypeOK /\ HeapOrdered` is inductive as it stands.
   `HeapAlwaysOrdered`, `HeapTypesAlwaysOK` and `HeapImplementsPriorityQueue`
   follow.

That a heap is a priority queue is what `Scheduler` takes for granted when it
writes its queues as sets; `HeapImplementsPriorityQueue` shows it for every
length and every sequence of operations.

### Monitoring

Assumes `FormatAssumption`, `ReceiveAssumption`, `ProfilerAssumption` and
`SizeAssumption`. `GatheringAlwaysUndisturbed` rests on `Turns`: somebody gathers
exactly while `next_profile_data_` is not -1.  `EventsAlwaysCounted` needs
`NothingAhead`, that the buffer holds nothing of the types still to be serialised,
so that writing one overwrites no count.  `BuffersAlwaysHold` is arithmetic with
the sizes: an entry is at most the 64 bytes kept for it, and a header and a sender
fit into what `ProfileData` asserts.  `ChannelsAlwaysComplete` is inductive with
these.

`MapAlwaysTrue` follows a name through the system: the thread that
pushes (`Tracked`), the slots of the channel (`Slotted`), the buffer (`Written`), a
datagram (`Sent`), the map (`Drawn`).  What connects them is `Roomy`: a buffer
grows by an entry at most for each event type passed, so that under `OneBuffer`
it is only sent when its channel is complete (`Whole`), no second buffer is ever
begun, and every datagram has a sender.  A cut leaves the sender as it is, so that
what is left draws no false edge.  `Sized` is the other half: no datagram is
larger than the buffers, so that none is cut of buffers that `recvfrom` reads whole.

### Only model-checked

- Liveness: `StopReturns` and `QueuesDrain` of `Scheduler`, `StopAlwaysReturns`,
  `SomebodyServed`, `ServedWhenAlone`, `SocketDrains`, `EverythingGathered` and
  `StopReturns` of `Profiler`.

TLAPS has no rule for liveness under fairness; these stay with the runs, under the
fairness of section 3.  Every invariant, every action property and every
refinement that a run checks is also proved.

## 5. Not modelled

- The `file:` destination of the profiler, its moves and its destructor, and the
  times of aggregation and logging.
- `DetectMaxPacketSize` and `try_lock`, which the library does not call.
- The numeric tags of `ThreadId`, which nothing reads.
- The values in the analyzer's events, its checkers, measurements and the GUI:
  arithmetic and display.
- The layout of buffers in memory, alignment and placement construction,
  formatting, `Timer` (the clock is an arbitrary input) and `Endianness` (a
  compile-time choice of one of two byte swaps): no behaviour that a state machine
  distinguishes.
- Programs that move or destroy a front end that a stub or a receiver still points
  to, or configure channels while the scheduler runs.
- Receivers whose object is gone while the scheduler keeps its pointer
  (`receivers_`), and a front end that is moved under a receiver: the code says
  nothing of who must outlive whom.
