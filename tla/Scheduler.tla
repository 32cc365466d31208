----------------------------- MODULE Scheduler -----------------------------
(***************************************************************************)
(* The scheduler of pipert (src/SchedulerImpl.cpp) with the queue side of  *)
(* its scheduled channels (src/ChannelImpl.cpp), which share one mutex.    *)
(*                                                                         *)
(* A heap is modelled by the key every element had when it was last        *)
(* (re)inserted, kMaxTime standing for "not in the heap": an element whose *)
(* key changes and that is not repositioned keeps its old place, as in the *)
(* code, whose heaps compare elements only while they insert or remove     *)
(* one.  Packets name pool slots, so each belongs to one channel.          *)
(*                                                                         *)
(* A critical section of global_mutex_ is one step, except the worker's    *)
(* test of its wait condition, which keeps the mutex until the wait        *)
(* releases it.                                                            *)
(***************************************************************************)
EXTENDS Integers, FiniteSetsExt

CONSTANTS Workers,    \* the worker threads (workers_number_ of them)
          Channels,   \* the scheduled channels
          States,     \* their monitor objects, Stateless included when used
          Stateless,  \* the null monitor object
          StateOf,    \* the monitor object of each channel
          Packets,    \* the pool slots of all the channels
          ChannelOf,  \* the channel whose pool a slot belongs to
          MaxTime,    \* bound on the timestamps
          NoPacket,   \* the null packet pointer
          NoThread    \* value of mutex when it is free

Times == 0 .. MaxTime
kMaxTime == MaxTime + 1
Keys == 0 .. kMaxTime

ASSUME SchedulerAssumption ==
    /\ MaxTime \in Nat
    /\ StateOf \in [Channels -> States]
    /\ ChannelOf \in [Packets -> Channels]
    /\ NoPacket \notin Packets
    /\ NoThread \notin Workers

VARIABLES queued,       \* the packets in the queued_packets_ heaps
          ts,           \* timestamp_ of each packet
          channelKey,   \* position of each channel in the heap of its state
          stateKey,     \* position of each state in state_queue_
          enabled,      \* EnabledChannelHeap::enabled
          mutex,        \* the worker holding global_mutex_ across steps
          pc,           \* where each worker is in RunTasks
          job,          \* the packet whose callback each worker is running
          state,        \* the local variable of that name of each worker
          keepRunning,  \* keep_running_
          control       \* where the thread calling Start and Stop is

vars == <<queued, ts, channelKey, stateKey, enabled, mutex, pc, job, state,
          keepRunning, control>>

-----------------------------------------------------------------------------
(* The heaps *)

\* The key of the front element of a heap, kMaxTime when it is empty.
FrontKey(keys) == Min(keys \cup {kMaxTime})

ChannelsOf(s) == {c \in Channels : StateOf[c] = s}

\* The packets of channel c in the set q.
PacketsIn(q, c) == {p \in q : ChannelOf[p] = c}

\* PeekNext() of a channel, kMaxTime when nothing is queued in it.
PeekNext(q, t, c) == FrontKey({t[p] : p \in PacketsIn(q, c)})

\* PeekNext() of the front channel of state s, given the channels' keys.
HeapKey(ck, s) == FrontKey({ck[c] : c \in ChannelsOf(s)})

\* The channels that can be at the front of the heap of s.
FrontChannels(ck, s) ==
    {c \in ChannelsOf(s) : ck[c] # kMaxTime /\ ck[c] = HeapKey(ck, s)}

\* Mutant of FrontStates: state_queue_ is not ordered.
FrontStates_Unordered == {s \in States : stateKey[s] # kMaxTime}

\* The states that can be at the front of state_queue_.
FrontStates ==
    {s \in States : stateKey[s] # kMaxTime
                    /\ stateKey[s] = FrontKey({stateKey[r] : r \in States})}

\* The packets that can be at the front of the queue of channel c.
FrontPackets(c) ==
    {p \in PacketsIn(queued, c) : ts[p] = PeekNext(queued, ts, c)}

StateQueueEmpty == \A s \in States : stateKey[s] = kMaxTime

-----------------------------------------------------------------------------
(* What the channels tell the scheduler, with the mutex held *)

Waiting == {w \in Workers : pc[w] = "waiting"}

\* global_covar_.notify_one(): any one of the waiting workers, if any.
NotifyOne ==
    IF Waiting = {} THEN UNCHANGED pc
    ELSE \E w \in Waiting : pc' = [pc EXCEPT ![w] = "enter"]

\* Mutant of JobsArrived: the state is queued, no worker is told.
JobsArrived_Silent(c, key) ==
    LET s == StateOf[c]
        front == HeapKey([channelKey EXCEPT ![c] = key], s)
    IN  /\ channelKey' = [channelKey EXCEPT ![c] = key]
        /\ stateKey' = IF enabled[s] THEN [stateKey EXCEPT ![s] = front]
                       ELSE stateKey
        /\ UNCHANGED pc

\* The first packet of channel c was queued and has the given key.
JobsArrived(c, key) ==
    LET s == StateOf[c]
        earliest == HeapKey(channelKey, s)
        front == HeapKey([channelKey EXCEPT ![c] = key], s)
    IN  /\ channelKey' = [channelKey EXCEPT ![c] = key]
        /\ IF enabled[s] /\ front < earliest
           THEN /\ stateKey' = [stateKey EXCEPT ![s] = front]
                /\ NotifyOne
           ELSE UNCHANGED <<stateKey, pc>>

\* Mutant of MovesState: a front channel that stays at the front is forgotten.
MovesState_NotTop(top, c, ck, en) == en /\ HeapKey(ck, StateOf[c]) # ck[top]

\* Does JobsUpdated move the state of c in state_queue_?  top is the channel at
\* the front of the heap before the call (was_top), ck the new positions.
MovesState(top, c, ck, en) ==
    en /\ (HeapKey(ck, StateOf[c]) # ck[top] \/ top = c)

\* JobsUpdated(c, true): a packet earlier than all of c's was queued.
JobsUpdatedByPush(c, key) ==
    LET s == StateOf[c]
        ck == [channelKey EXCEPT ![c] = key]
    IN  /\ channelKey' = ck
        /\ \E top \in FrontChannels(channelKey, s) :
            IF MovesState(top, c, ck, enabled[s])
            THEN /\ stateKey' = [stateKey EXCEPT ![s] = HeapKey(ck, s)]
                 /\ NotifyOne
            ELSE UNCHANGED <<stateKey, pc>>

\* JobsUpdated(c, false): the front packet of c was popped, others are left.
\* en and sk are enabled and the states' positions at the time of the call.
JobsUpdatedByPop(top, c, key, en, sk) ==
    LET s == StateOf[c]
        ck == [channelKey EXCEPT ![c] = key]
    IN  /\ channelKey' = ck
        /\ stateKey' = IF MovesState(top, c, ck, en[s])
                       THEN [sk EXCEPT ![s] = HeapKey(ck, s)] ELSE sk

\* JobsDropped(c): the last packet of c was popped.
JobsDropped(top, c, en, sk) ==
    LET s == StateOf[c]
        ck == [channelKey EXCEPT ![c] = kMaxTime]
    IN  /\ channelKey' = ck
        /\ stateKey' = IF en[s] /\ top = c
                       THEN [sk EXCEPT ![s] = HeapKey(ck, s)] ELSE sk

\* Mutant of PopNext: the packet is handed out and stays in the heap.
PopNext_Peeks(p, top, c, en, sk) ==
    /\ UNCHANGED <<queued, channelKey>>
    /\ stateKey' = sk

\* ChannelImpl::PopNext of the front packet p of channel c.
PopNext(p, top, c, en, sk) ==
    LET rest == queued \ {p}
        key == PeekNext(rest, ts, c)
    IN  /\ queued' = rest
        /\ IF PacketsIn(rest, c) = {}
           THEN JobsDropped(top, c, en, sk)
           ELSE JobsUpdatedByPop(top, c, key, en, sk)

-----------------------------------------------------------------------------
(* Client threads, callbacks included *)

Taken == {job[w] : w \in Workers} \ {NoPacket}

\* ChannelImpl::Push of a packet nobody else holds.
Push(p, t) ==
    LET c == ChannelOf[p]
        earliest == PeekNext(queued, ts, c)
    IN  /\ mutex = NoThread
        /\ p \notin queued \cup Taken
        /\ queued' = queued \cup {p}
        /\ ts' = [ts EXCEPT ![p] = t]
        /\ IF t < earliest
           THEN IF earliest = kMaxTime
                THEN JobsArrived(c, t)
                ELSE JobsUpdatedByPush(c, t)
           ELSE UNCHANGED <<channelKey, stateKey, pc>>
        /\ UNCHANGED <<enabled, mutex, job, state, keepRunning, control>>

\* ChannelImpl::GetNext(true), called by an Acquire that found the pool
\* empty: the earliest packet of the channel goes back to the pool.
Drop(c) ==
    /\ mutex = NoThread
    /\ \E p \in FrontPackets(c), top \in FrontChannels(channelKey, StateOf[c]) :
        PopNext(p, top, c, enabled, stateKey)
    /\ UNCHANGED <<ts, enabled, mutex, pc, job, state, keepRunning,
                   control>>

-----------------------------------------------------------------------------
(* The workers: RunTasks *)

Goto(w, label) == pc' = [pc EXCEPT ![w] = label]

\* The outer loop reads keep_running_ without the mutex.
TestKeepRunning(w) ==
    /\ pc[w] = "loop"
    /\ Goto(w, IF keepRunning THEN "enter" ELSE "done")
    /\ UNCHANGED <<queued, ts, channelKey, stateKey, enabled, mutex, job, state,
                   keepRunning, control>>

\* The mutex is locked, or locked again after a wake-up, and the wait
\* condition is tested.  The worker has to wait: it keeps the mutex.
FindNothing(w) ==
    /\ pc[w] = "enter"
    /\ mutex = NoThread
    /\ keepRunning
    /\ StateQueueEmpty
    /\ mutex' = w
    /\ Goto(w, "towait")
    /\ UNCHANGED <<queued, ts, channelKey, stateKey, enabled, job, state,
                   keepRunning, control>>

\* global_covar_.wait(lock) joins the waiters and releases the mutex at once.
Wait(w) ==
    /\ pc[w] = "towait"
    /\ mutex' = NoThread
    /\ Goto(w, "waiting")
    /\ UNCHANGED <<queued, ts, channelKey, stateKey, enabled, job, state,
                   keepRunning, control>>

\* A condition variable may wake a waiter nobody notified.
SpuriousWakeup(w) ==
    /\ pc[w] = "waiting"
    /\ Goto(w, "enter")
    /\ UNCHANGED <<queued, ts, channelKey, stateKey, enabled, mutex, job, state,
                   keepRunning, control>>

\* Told to stop with nothing queued: no packet, back to the outer loop.
GiveUp(w) ==
    /\ pc[w] = "enter"
    /\ mutex = NoThread
    /\ ~keepRunning
    /\ StateQueueEmpty
    /\ Goto(w, "loop")
    /\ UNCHANGED <<queued, ts, channelKey, stateKey, enabled, mutex, job, state,
                   keepRunning, control>>

\* Mutant of Disabled: a state that is served stays enabled.
Disabled_Never(s) == enabled

\* enabled and the states' positions once a job of state s is assigned: a real
\* state is disabled and leaves state_queue_ until the job is done.
Disabled(s) == IF s = Stateless THEN enabled ELSE [enabled EXCEPT ![s] = FALSE]
Dequeued(s) == IF s = Stateless THEN stateKey
               ELSE [stateKey EXCEPT ![s] = kMaxTime]

\* Packet p at the front of channel c at the front of state s is taken.
TakeFront(w, s, c, p) ==
    /\ enabled' = Disabled(s)
    /\ PopNext(p, c, c, Disabled(s), Dequeued(s))
    /\ job' = [job EXCEPT ![w] = p]
    /\ state' = [state EXCEPT ![w] = s]

\* The wait condition fails as something is queued; it is taken whatever
\* keep_running_ says.
Take(w) ==
    /\ pc[w] = "enter"
    /\ mutex = NoThread
    /\ \E s \in FrontStates :
       \E c \in FrontChannels(channelKey, s) :
       \E p \in FrontPackets(c) : TakeFront(w, s, c, p)
    /\ Goto(w, "exec")
    /\ UNCHANGED <<ts, mutex, keepRunning, control>>

\* The callback returns, its packet already released to the pool.
Execute(w) ==
    /\ pc[w] = "exec"
    /\ job' = [job EXCEPT ![w] = NoPacket]
    /\ Goto(w, IF state[w] = Stateless THEN "loop" ELSE "reenable")
    /\ UNCHANGED <<queued, ts, channelKey, stateKey, enabled, mutex, state,
                   keepRunning, control>>

\* Mutant of Reenable: the state is enabled and not queued again.
Reenable_NotQueued(w) ==
    /\ pc[w] = "reenable"
    /\ mutex = NoThread
    /\ enabled' = [enabled EXCEPT ![state[w]] = TRUE]
    /\ state' = [state EXCEPT ![w] = Stateless]
    /\ Goto(w, "loop")
    /\ UNCHANGED <<queued, ts, channelKey, stateKey, mutex, job, keepRunning,
                   control>>

\* The state is enabled again and queued if its channels hold packets.
Reenable(w) ==
    /\ pc[w] = "reenable"
    /\ mutex = NoThread
    /\ enabled' = [enabled EXCEPT ![state[w]] = TRUE]
    /\ stateKey' = [stateKey EXCEPT ![state[w]] = HeapKey(channelKey, state[w])]
    /\ state' = [state EXCEPT ![w] = Stateless]
    /\ Goto(w, "loop")
    /\ UNCHANGED <<queued, ts, channelKey, mutex, job, keepRunning, control>>

-----------------------------------------------------------------------------
(* The thread that owns the scheduler: Start and Stop *)

\* New workers are created; the spawning loop only delays them.
Start ==
    /\ control = "stopped"
    /\ control' = "running"
    /\ keepRunning' = TRUE
    /\ pc' = [w \in Workers |-> "loop"]
    /\ UNCHANGED <<queued, ts, channelKey, stateKey, enabled, mutex, job, state>>

\* Mutant of StopRequest: keep_running_ is cleared without the mutex.
StopRequest_Unlocked ==
    /\ control = "running"
    /\ keepRunning' = FALSE
    /\ control' = "notifying"
    /\ UNCHANGED <<queued, ts, channelKey, stateKey, enabled, mutex, pc, job,
                   state>>

\* keep_running_ is cleared under the mutex.
StopRequest ==
    /\ control = "running"
    /\ mutex = NoThread
    /\ keepRunning' = FALSE
    /\ control' = "notifying"
    /\ UNCHANGED <<queued, ts, channelKey, stateKey, enabled, mutex, pc, job,
                   state>>

\* global_covar_.notify_all(), the mutex already released.
StopNotifyAll ==
    /\ control = "notifying"
    /\ control' = "joining"
    /\ pc' = [w \in Workers |-> IF pc[w] = "waiting" THEN "enter" ELSE pc[w]]
    /\ UNCHANGED <<queued, ts, channelKey, stateKey, enabled, mutex, job, state,
                   keepRunning>>

\* Mutant of StopJoined: Stop returns without joining the workers.
StopJoined_Detaches ==
    /\ control = "joining"
    /\ control' = "stopped"
    /\ UNCHANGED <<queued, ts, channelKey, stateKey, enabled, mutex, pc, job,
                   state, keepRunning>>

\* All workers are joined and running_ is cleared.
StopJoined ==
    /\ control = "joining"
    /\ \A w \in Workers : pc[w] = "done"
    /\ control' = "stopped"
    /\ UNCHANGED <<queued, ts, channelKey, stateKey, enabled, mutex, pc, job,
                   state, keepRunning>>

-----------------------------------------------------------------------------
Init ==
    /\ queued = {}
    /\ ts = [p \in Packets |-> 0]
    /\ channelKey = [c \in Channels |-> kMaxTime]
    /\ stateKey = [s \in States |-> kMaxTime]
    /\ enabled = [s \in States |-> TRUE]
    /\ mutex = NoThread
    /\ pc = [w \in Workers |-> "done"]
    /\ job = [w \in Workers |-> NoPacket]
    /\ state = [w \in Workers |-> Stateless]
    /\ keepRunning = FALSE
    /\ control = "stopped"

Worker(w) ==
    \/ TestKeepRunning(w)
    \/ FindNothing(w)
    \/ Wait(w)
    \/ GiveUp(w)
    \/ Take(w)
    \/ Execute(w)
    \/ Reenable(w)

Client ==
    \/ \E p \in Packets, t \in Times : Push(p, t)
    \/ \E c \in Channels : Drop(c)

Stop == StopRequest \/ StopNotifyAll \/ StopJoined

Next ==
    \/ \E w \in Workers : Worker(w) \/ SpuriousWakeup(w)
    \/ Client
    \/ Start
    \/ Stop

Spec == Init /\ [][Next]_vars

\* Threads that can step do: the workers, callbacks included, and a Stop once
\* it was called.  Nothing makes a client push, or the owner start or stop.
Fairness ==
    /\ \A w \in Workers : WF_vars(Worker(w))
    /\ WF_vars(StopNotifyAll)
    /\ WF_vars(StopJoined)

FairSpec == Spec /\ Fairness

-----------------------------------------------------------------------------
(* Properties *)

Labels == {"loop", "enter", "towait", "waiting", "exec", "reenable", "done"}

\* Every variable has its type.
TypeOK ==
    /\ queued \in SUBSET Packets
    /\ ts \in [Packets -> Times]
    /\ channelKey \in [Channels -> Keys]
    /\ stateKey \in [States -> Keys]
    /\ enabled \in [States -> BOOLEAN]
    /\ mutex \in Workers \cup {NoThread}
    /\ pc \in [Workers -> Labels]
    /\ job \in [Workers -> Packets \cup {NoPacket}]
    /\ state \in [Workers -> States \cup {Stateless}]
    /\ keepRunning \in BOOLEAN
    /\ control \in {"stopped", "running", "notifying", "joining"}

\* The heaps are never stale: each channel sits where its earliest packet puts
\* it, an enabled state where its earliest channel puts it, and a state being
\* served is in no queue.  JobsArrived, JobsUpdated and JobsDropped reposition
\* an element only when they think it moved.
QueuesInOrder ==
    /\ \A c \in Channels : channelKey[c] = PeekNext(queued, ts, c)
    /\ \A s \in States : stateKey[s] = IF enabled[s] THEN HeapKey(channelKey, s)
                                       ELSE kMaxTime

Serving(w) == pc[w] \in {"exec", "reenable"} /\ state[w] # Stateless

\* Two workers never serve the same monitor object, and a monitor object is
\* disabled exactly while some worker serves it (Scheduler.h:129-145).
MutualExclusion ==
    /\ \A v, w \in Workers : Serving(v) /\ Serving(w) /\ state[v] = state[w]
                             => v = w
    /\ \A s \in States : ~enabled[s] <=> \E w \in Workers : Serving(w)
                                                            /\ state[w] = s

\* A packet is executed by one worker at a time and never while it is queued:
\* the pointer PopNext returns is in no heap any more, and Execute hands it to
\* one callback.
OnePlace ==
    /\ Taken \cap queued = {}
    /\ \A v, w \in Workers : job[v] = job[w] /\ job[v] # NoPacket => v = w
    /\ \A w \in Workers : pc[w] = "exec" <=> job[w] # NoPacket

\* What ties the workers' local variables to the rest: a worker executes a
\* packet of the state it serves, enables again a real state, holds the mutex
\* only when it is about to wait, and has ended when Stop has returned.
WorkersInStep ==
    /\ \A w \in Workers : pc[w] = "exec" => state[w] = StateOf[ChannelOf[job[w]]]
    /\ \A w \in Workers : pc[w] = "reenable" => state[w] \in States \ {Stateless}
    /\ \A w \in Workers : mutex = w <=> pc[w] = "towait"
    /\ control = "stopped" => \A w \in Workers : pc[w] = "done"

\* When Stop has returned no worker is left holding the mutex, a state or a
\* packet, so that Start can be called again (Scheduler.h:189-194).
CleanWhenStopped ==
    control = "stopped" =>
        /\ mutex = NoThread
        /\ \A s \in States : enabled[s]
        /\ \A w \in Workers : pc[w] = "done" /\ job[w] = NoPacket

\* Workers on their way to the queue, with nothing executed before they get
\* there.
Searching == {w \in Workers : pc[w] \in {"loop", "enter"}}

StatesQueued == {s \in States : stateKey[s] # kMaxTime}

\* No wake-up is lost: while a worker sleeps, every state that has work and is
\* not being served has a worker of its own on the way to it.  notify_one is
\* called only when a state enters or moves in state_queue_, and not at all
\* when a served state is queued again (SchedulerImpl.cpp:232).
WorkConserving ==
    keepRunning /\ Waiting # {} =>
        Cardinality(StatesQueued) <= Cardinality(Searching)

\* Doc of CreateScheduledChannel (Scheduler.h:125-128): with a null monitor
\* object "all free threads can call the registered callback simultaneously".
\* No worker sleeps while a stateless packet is queued and no worker is on
\* its way to the queue.  Take leaves the stateless state in state_queue_
\* without a notify_one, and a later packet of the same channel notifies nobody.
FullParallelism ==
    keepRunning /\ (\E p \in queued : StateOf[ChannelOf[p]] = Stateless) =>
        Waiting = {} \/ Searching # {}

\* Stop returns whatever the workers were doing when it was called.
StopReturns == control = "notifying" ~> control = "stopped"

\* Steps of the environment that can go on for ever.
Disturbance ==
    \/ \E p \in Packets, t \in Times : Push(p, t)
    \/ \E w \in Workers : SpuriousWakeup(w)

\* If the scheduler keeps running while clients stop pushing and spurious
\* wake-ups stop, every queue drains: no packet is forgotten by sleeping
\* workers.  (A later push may always overtake, and a worker that wakes again
\* and again may always win the spin lock.)
QueuesDrain ==
    <>[](control = "running") /\ <>[][~Disturbance]_vars => <>[](queued = {})

\* The scheduler does what Dispatch promises.
Abstract == INSTANCE Dispatch WITH
    StateOf <- StateOf,
    held <- Taken,
    busy <- {s \in States : ~enabled[s]}

ImplementsDispatch == Abstract!Spec
=============================================================================
