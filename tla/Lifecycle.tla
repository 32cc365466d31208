----------------------------- MODULE Lifecycle -----------------------------
(***************************************************************************)
(* What a program builds around a scheduler and takes down again: channel  *)
(* front ends that own a ChannelImpl and may be moved (src/ChannelBase.cpp,*)
(* ScheduledChannel.h, SenderChannel.h), the registration of channels      *)
(* (src/SchedulerImpl.cpp), and receivers with threads of their own        *)
(* (Receiver.h), through any number of Starts and Stops.                   *)
(*                                                                         *)
(* Fronts and Impls are addresses: the same one is used again when its     *)
(* object is gone.  What the workers and Acquire do in several steps is    *)
(* one step here (see Scheduler and Channel).  The build is the default    *)
(* one, a release: assertions do nothing.  Nothing in the code keeps an    *)
(* owner from moving or destroying a channel that still has work to do;    *)
(* "careless" remembers that one did, and "broken" says that the scheduler *)
(* has since used an object that is gone, and the program stops there.     *)
(***************************************************************************)
EXTENDS Integers, FiniteSets

CONSTANTS Fronts,     \* addresses of PolledChannels, ScheduledChannels, ...
          Impls,      \* addresses of ChannelImpls
          Packets,    \* the slots of all their pools
          PoolOf,     \* the ChannelImpl each slot belongs to
          Receivers,  \* receiver objects
          NoImpl,     \* the null ChannelImpl pointer
          NoFront,    \* the null ChannelBase pointer
          User        \* a callback the user supplied

Kinds == {"polled", "scheduled", "sender"}

ASSUME LifecycleAssumption ==
    /\ PoolOf \in [Packets -> Impls]
    /\ NoImpl \notin Impls
    /\ NoFront \notin Fronts
    /\ User \notin Fronts \cup {NoFront}

VARIABLES alive,     \* the front ends that are constructed
          impl,      \* impl_ of each front end
          bound,     \* what processing_fun_ of each front end calls: the
                     \* user's function, or SendPacket of the front end given
          channels,  \* channels_: the ChannelImpls that exist
          base,      \* base_ of each ChannelImpl
          kind,      \* what each ChannelImpl was created for
          free,      \* free_packets_ of each ChannelImpl
          queued,    \* queued_packets_ of each ChannelImpl
          jobs,      \* the ChannelImpls in the heaps of the scheduler
          stubs,     \* the stubs in use: the packet and the front end of each
          valid,     \* valid_state
          control,   \* where the owner is in Start and Stop
          pending,   \* the receivers that loop of Start or Stop has ahead
          receivers, \* receivers_
          target,    \* ch_to_write_ of each receiver
          running,   \* running_ of each receiver
          thread,    \* where the thread of each receiver is
          careless,  \* what owners have done to channels, for the properties
          broken     \* an object that is gone was used

channelVars == <<alive, impl, bound, channels, base, kind>>
packetVars == <<free, queued, jobs, stubs>>
receiverVars == <<receivers, target, running, thread>>
faultVars == <<careless, broken>>
vars == <<channelVars, packetVars, valid, control, pending, receiverVars, faultVars>>

Faults == {"moved over", "moved sender", "destroyed with packets"}

-----------------------------------------------------------------------------
SlotsOf(i) == {p \in Packets : PoolOf[p] = i}

Scheduled(i) == kind[i] # "polled"

\* A stub or a receiver that will use front end f.
InUse(f) ==
    \/ \E p \in Packets : <<p, f>> \in stubs
    \/ \E r \in receivers : target[r] = f

\* The function a new front end f for i calls.
CallbackOf(f, i, k) == IF k = "sender" THEN f ELSE User

\* Scheduler::Create...Channel for a front end at f.  The handshake of a
\* sender may fail; its channel is created all the same.
Create(f, i, k) ==
    /\ ~broken
    /\ control = "stopped"
    /\ f \notin alive
    /\ i \notin channels
    /\ alive' = alive \cup {f}
    /\ impl' = [impl EXCEPT ![f] = i]
    /\ bound' = [bound EXCEPT ![f] = CallbackOf(f, i, k)]
    /\ channels' = channels \cup {i}
    /\ base' = [base EXCEPT ![i] = f]
    /\ kind' = [kind EXCEPT ![i] = k]
    /\ free' = [free EXCEPT ![i] = SlotsOf(i)]
    /\ queued' = [queued EXCEPT ![i] = {}]
    /\ valid' \in IF k = "sender" THEN {valid, FALSE} ELSE {valid}
    /\ UNCHANGED <<jobs, stubs, control, pending, receiverVars, faultVars>>

\* Mutant of MoveTo: the new front end is not made the base (SetBase).
MoveTo_KeepsBase(f, g) ==
    /\ impl' = [impl EXCEPT ![g] = impl[f], ![f] = NoImpl]
    /\ bound' = [bound EXCEPT ![g] = bound[f], ![f] = NoFront]
    /\ alive' = alive \cup {g}
    /\ UNCHANGED base

\* Mutant of MoveTo: the callback stays behind.
MoveTo_ForgetsCallback(f, g) ==
    /\ impl' = [impl EXCEPT ![g] = impl[f], ![f] = NoImpl]
    /\ bound' = [bound EXCEPT ![f] = NoFront]
    /\ alive' = alive \cup {g}
    /\ base' = [base EXCEPT ![impl[f]] = g]

\* ChannelBase::move, then the move of processing_fun_.
MoveTo(f, g) ==
    /\ impl' = [impl EXCEPT ![g] = impl[f], ![f] = NoImpl]
    /\ bound' = [bound EXCEPT ![g] = bound[f], ![f] = NoFront]
    /\ alive' = alive \cup {g}
    /\ base' = [base EXCEPT ![impl[f]] = g]

\* A front end of the second kind can be assigned one of the first: a
\* SenderChannel is a ScheduledChannel.
Assignable(k, l) == k = l \/ (k = "sender" /\ l = "scheduled")

\* Move construction of g, or move assignment to g (to f itself even; the type
\* of a g that owns nothing is not tracked), of a channel nobody uses through
\* f.  What g owned is neither deleted nor unregistered.
Move(f, g) ==
    /\ ~broken
    /\ control = "stopped"
    /\ f \in alive
    /\ impl[f] # NoImpl
    /\ impl[g] # NoImpl => Assignable(kind[impl[f]], kind[impl[g]])
    /\ ~InUse(f)
    /\ MoveTo(f, g)
    /\ careless' = careless
           \cup (IF impl[g] # NoImpl THEN {"moved over"} ELSE {})
           \cup (IF kind[impl[f]] = "sender" THEN {"moved sender"} ELSE {})
    /\ UNCHANGED <<channels, kind, packetVars, valid, control, pending,
                   receiverVars, broken>>

\* Mutant of Delete: the channel is deleted and stays registered.
Delete_Registered(f) ==
    /\ alive' = alive \ {f}
    /\ impl' = [impl EXCEPT ![f] = NoImpl]
    /\ bound' = [bound EXCEPT ![f] = NoFront]
    /\ UNCHANGED channels

\* ~ChannelBase: the ChannelImpl, if any, unregisters itself and is gone.
Delete(f) ==
    /\ alive' = alive \ {f}
    /\ impl' = [impl EXCEPT ![f] = NoImpl]
    /\ bound' = [bound EXCEPT ![f] = NoFront]
    /\ channels' = channels \ {impl[f]}

\* The scheduler knows of packets queued in channel i.
HasWork(i) == i \in channels /\ Scheduled(i) /\ queued[i] # {}

\* Destruction of a front end that is not in use.  The heaps keep the pointer
\* to a channel that has work.
Destroy(f) ==
    /\ ~broken
    /\ control = "stopped"
    /\ f \in alive
    /\ ~InUse(f)
    /\ Delete(f)
    /\ careless' = IF impl[f] # NoImpl /\ HasWork(impl[f])
                   THEN careless \cup {"destroyed with packets"} ELSE careless
    /\ UNCHANGED <<base, kind, packetVars, valid, control, pending,
                   receiverVars, broken>>

-----------------------------------------------------------------------------
(* Packets *)

\* A heap of the scheduler holds a channel that is gone, or another one at its
\* address: comparing it may or may not be noticed.
Stale == \E i \in jobs : ~HasWork(i)

Compare(i) == broken' \in IF Scheduled(i) /\ Stale THEN BOOLEAN ELSE {FALSE}

\* ChannelImpl::Push; the scheduler hears of the first packet, and must not
\* have the channel already (SchedulerImpl.cpp:119).
Enqueue(i, p) ==
    /\ queued' = [queued EXCEPT ![i] = @ \cup {p}]
    /\ jobs' = IF Scheduled(i) /\ queued[i] = {} THEN jobs \cup {i} ELSE jobs
    /\ IF Scheduled(i) /\ queued[i] = {} /\ i \in jobs
       THEN broken' = TRUE ELSE Compare(i)

\* Mutant of Dequeue: the scheduler is not told of the last packet.
Dequeue_Silent(i, p) ==
    /\ queued' = [queued EXCEPT ![i] = @ \ {p}]
    /\ Compare(i)
    /\ UNCHANGED jobs

\* ChannelImpl::PopNext; the scheduler hears of the last packet.
Dequeue(i, p) ==
    /\ queued' = [queued EXCEPT ![i] = @ \ {p}]
    /\ jobs' = IF Scheduled(i) /\ queued[i] = {p} THEN jobs \ {i} ELSE jobs
    /\ Compare(i)

\* Acquire on front end f: a free packet or, if there is none, a queued one.
Acquire(f) ==
    LET i == impl[f]
    IN  /\ ~broken
        /\ i # NoImpl
        /\ \/ \E p \in free[i] : /\ free' = [free EXCEPT ![i] = @ \ {p}]
                                 /\ stubs' = stubs \cup {<<p, f>>}
                                 /\ UNCHANGED <<queued, jobs, broken>>
           \/ /\ free[i] = {}
              /\ \E p \in queued[i] : /\ Dequeue(i, p)
                                      /\ stubs' = stubs \cup {<<p, f>>}
              /\ UNCHANGED free
        /\ UNCHANGED <<channelVars, valid, control, pending, receiverVars,
                       careless>>

\* The PacketToFill is pushed or destructed, through the front end it knows.
Fill(p, f) ==
    /\ ~broken
    /\ <<p, f>> \in stubs
    /\ impl[f] # NoImpl
    /\ Enqueue(impl[f], p)
    /\ stubs' = stubs \ {<<p, f>>}
    /\ UNCHANGED <<free, channelVars, valid, control, pending, receiverVars,
                   careless>>

\* Poll, and the PacketToProcess is released.
PollAndRelease(f) ==
    LET i == impl[f]
    IN  /\ ~broken
        /\ i # NoImpl
        /\ kind[i] = "polled"
        /\ \E p \in queued[i] : /\ Dequeue(i, p)
                                /\ free' = [free EXCEPT ![i] = @ \cup {p}]
        /\ UNCHANGED <<stubs, channelVars, valid, control, pending,
                       receiverVars, careless>>

\* A worker that takes a packet of channel i finds the channel, a scheduled
\* front end at its base_, in the processing_fun_ of that the user's function
\* or SendPacket of a front end whose connection_ is still there (moving from
\* a sender leaves it), and a channel to return the packet to.
Callable(i) ==
    LET f == base[i]
        g == bound[f]
    IN  /\ HasWork(i)
        /\ f \in alive
        /\ impl[f] # NoImpl
        /\ Scheduled(impl[f])
        /\ \/ g = User
           \/ g \in alive /\ (impl[g] # NoImpl => kind[impl[g]] = "sender")

\* A worker takes a packet of channel i and calls the front end that is its
\* base, where the stub of the packet comes from.
Execute(i) ==
    /\ ~broken
    /\ control \in {"starting", "running"}
    /\ i \in jobs
    /\ IF Callable(i)
       THEN \E p \in queued[i] :
                /\ Dequeue(i, p)
                /\ free' = [free EXCEPT ![impl[base[i]]] = @ \cup {p}]
       ELSE broken' = TRUE /\ UNCHANGED <<free, queued, jobs>>
    /\ UNCHANGED <<stubs, channelVars, valid, control, pending, receiverVars,
                   careless>>

-----------------------------------------------------------------------------
(* Receivers *)

\* A receiver that writes to front end f is constructed.  If the handshake
\* fails it is not added and the scheduler becomes invalid.  Nothing
\* initialises running_.
CreateReceiver(r, f) ==
    /\ ~broken
    /\ control = "stopped"
    /\ r \notin receivers
    /\ impl[f] # NoImpl
    /\ \/ /\ receivers' = receivers \cup {r}
          /\ target' = [target EXCEPT ![r] = f]
          /\ \E garbage \in BOOLEAN :
              running' = [running EXCEPT ![r] = garbage]
          /\ UNCHANGED valid
       \/ /\ valid' = FALSE
          /\ UNCHANGED <<receivers, target, running>>
    /\ UNCHANGED <<thread, channelVars, packetVars, control, pending, faultVars>>

\* Mutant of TestRunning: the loop goes on for ever.
TestRunning_Forever(r) ==
    /\ ~broken
    /\ thread[r] = "loop"
    /\ thread' = [thread EXCEPT ![r] = "body"]
    /\ UNCHANGED <<receivers, target, running, channelVars, packetVars, valid,
                   control, pending, faultVars>>

\* The loop condition of ReceivePacket.
TestRunning(r) ==
    /\ ~broken
    /\ thread[r] = "loop"
    /\ thread' = [thread EXCEPT ![r] = IF running[r] THEN "body" ELSE "none"]
    /\ UNCHANGED <<receivers, target, running, channelVars, packetVars, valid,
                   control, pending, faultVars>>

\* The body: nothing has come, or nothing can be acquired, or a packet is
\* acquired and pushed; when the pool is empty it takes the place of a queued
\* one.
Receive(r) ==
    LET i == impl[target[r]]
    IN  /\ ~broken
        /\ thread[r] = "body"
        /\ i # NoImpl
        /\ thread' = [thread EXCEPT ![r] = "loop"]
        /\ \/ UNCHANGED <<packetVars, broken>>
           \/ free[i] = {} /\ queued[i] # {} /\ Compare(i) /\ UNCHANGED packetVars
           \/ \E p \in free[i] : /\ free' = [free EXCEPT ![i] = @ \ {p}]
                                 /\ Enqueue(i, p)
                                 /\ UNCHANGED stubs
        /\ UNCHANGED <<receivers, target, running, channelVars, valid, control,
                       pending, careless>>

-----------------------------------------------------------------------------
(* The owner *)

\* Start: refused when a handshake has failed.
Start ==
    /\ ~broken
    /\ control = "stopped"
    /\ valid
    /\ control' = "starting"
    /\ pending' = receivers
    /\ UNCHANGED <<channelVars, packetVars, valid, receiverVars, faultVars>>

\* Receiver::Start, which does nothing if running_ is set.
StartReceiver(r) ==
    /\ ~broken
    /\ control = "starting"
    /\ r \in pending
    /\ pending' = pending \ {r}
    /\ running' = [running EXCEPT ![r] = TRUE]
    /\ thread' = IF running[r] THEN thread ELSE [thread EXCEPT ![r] = "loop"]
    /\ UNCHANGED <<receivers, target, channelVars, packetVars, valid, control,
                   faultVars>>

StartReturns ==
    /\ ~broken
    /\ control = "starting"
    /\ pending = {}
    /\ control' = "running"
    /\ UNCHANGED <<channelVars, packetVars, valid, pending, receiverVars,
                   faultVars>>

\* Stop: the workers are joined first.
Stop ==
    /\ ~broken
    /\ control = "running"
    /\ control' = "stopping"
    /\ pending' = receivers
    /\ UNCHANGED <<channelVars, packetVars, valid, receiverVars, faultVars>>

\* Receiver::Stop clears running_, ...
StopReceiver(r) ==
    /\ ~broken
    /\ control = "stopping"
    /\ r \in pending
    /\ \A q \in pending : running[q]
    /\ running' = [running EXCEPT ![r] = FALSE]
    /\ UNCHANGED <<receivers, target, thread, channelVars, packetVars, valid,
                   control, pending, faultVars>>

\* Mutant of JoinReceiver: the thread is not joined.
JoinReceiver_Detaches(r) ==
    /\ ~broken
    /\ control = "stopping"
    /\ r \in pending
    /\ ~running[r]
    /\ pending' = pending \ {r}
    /\ UNCHANGED <<channelVars, packetVars, valid, control, receiverVars,
                   faultVars>>

\* ... and joins the thread if there is one.
JoinReceiver(r) ==
    /\ ~broken
    /\ control = "stopping"
    /\ r \in pending
    /\ ~running[r]
    /\ thread[r] = "none"
    /\ pending' = pending \ {r}
    /\ UNCHANGED <<channelVars, packetVars, valid, control, receiverVars,
                   faultVars>>

StopReturns ==
    /\ ~broken
    /\ control = "stopping"
    /\ pending = {}
    /\ control' = "stopped"
    /\ UNCHANGED <<channelVars, packetVars, valid, pending, receiverVars,
                   faultVars>>

-----------------------------------------------------------------------------
Init ==
    /\ alive = {}
    /\ impl = [f \in Fronts |-> NoImpl]
    /\ bound = [f \in Fronts |-> NoFront]
    /\ channels = {}
    /\ base = [i \in Impls |-> NoFront]
    /\ kind = [i \in Impls |-> "polled"]
    /\ free = [i \in Impls |-> {}]
    /\ queued = [i \in Impls |-> {}]
    /\ jobs = {}
    /\ stubs = {}
    /\ valid = TRUE
    /\ control = "stopped"
    /\ pending = {}
    /\ receivers = {}
    /\ target = [r \in Receivers |-> NoFront]
    /\ running = [r \in Receivers |-> FALSE]
    /\ thread = [r \in Receivers |-> "none"]
    /\ careless = {}
    /\ broken = FALSE

Setup ==
    \/ \E f \in Fronts, i \in Impls, k \in Kinds : Create(f, i, k)
    \/ \E f, g \in Fronts : Move(f, g)
    \/ \E f \in Fronts : Destroy(f)
    \/ \E r \in Receivers, f \in Fronts : CreateReceiver(r, f)

Client ==
    \E f \in Fronts : \/ Acquire(f)
                      \/ \E p \in Packets : Fill(p, f)
                      \/ PollAndRelease(f)

Receiver(r) == TestRunning(r) \/ Receive(r)

\* What a Start or a Stop does until it returns.
Control ==
    \/ \E r \in Receivers : StartReceiver(r) \/ StopReceiver(r) \/ JoinReceiver(r)
    \/ StartReturns
    \/ StopReturns

Next ==
    \/ Setup
    \/ Client
    \/ \E i \in Impls : Execute(i)
    \/ \E r \in Receivers : Receiver(r)
    \/ Start
    \/ Stop
    \/ Control

Spec == Init /\ [][Next]_vars

\* Threads run; poll returns after a timeout when nothing comes.
FairSpec == Spec /\ WF_vars(Control) /\ \A r \in Receivers : WF_vars(Receiver(r))

-----------------------------------------------------------------------------
(* Properties *)

\* Every variable has its type.
TypeOK ==
    /\ alive \in SUBSET Fronts
    /\ impl \in [Fronts -> Impls \cup {NoImpl}]
    /\ bound \in [Fronts -> Fronts \cup {NoFront, User}]
    /\ channels \in SUBSET Impls
    /\ base \in [Impls -> Fronts \cup {NoFront}]
    /\ kind \in [Impls -> Kinds]
    /\ free \in [Impls -> SUBSET Packets]
    /\ queued \in [Impls -> SUBSET Packets]
    /\ jobs \in SUBSET Impls
    /\ stubs \in SUBSET (Packets \X Fronts)
    /\ valid \in BOOLEAN
    /\ control \in {"stopped", "starting", "running", "stopping"}
    /\ pending \in SUBSET Receivers
    /\ receivers \in SUBSET Receivers
    /\ target \in [Receivers -> Fronts \cup {NoFront}]
    /\ running \in [Receivers -> BOOLEAN]
    /\ thread \in [Receivers -> {"none", "loop", "body"}]
    /\ careless \in SUBSET Faults
    /\ broken \in BOOLEAN

\* No two front ends own one channel, no owner outlives its channel, and the
\* owner is the front end that callbacks are made through, whatever is moved
\* where; unless something was moved over an owner, every channel has one.
OneOwner ==
    /\ \A f \in Fronts : impl[f] # NoImpl => /\ f \in alive
                                             /\ impl[f] \in channels
                                             /\ base[impl[f]] = f
    /\ "moved over" \notin careless => \A i \in channels : impl[base[i]] = i

\* The scheduler has every channel with work in its heaps, across Stops, Starts,
\* moves and the reuse of addresses, and, unless a channel was destroyed with
\* packets, nothing else: the pointer to that one is never removed.
JobsLive ==
    /\ {i \in channels : HasWork(i)} \subseteq jobs
    /\ "destroyed with packets" \notin careless =>
           jobs \subseteq {i \in channels : HasWork(i)}

\* Unless something was moved over an owner, every packet of a channel is in
\* one of its own two lists or in one stub, and the stub's front end is the
\* channel's owner: no packet comes home to another channel's pool.
PacketsHome ==
    "moved over" \notin careless =>
        \A i \in channels :
            /\ free[i] \cup queued[i] \subseteq SlotsOf(i)
            /\ free[i] \cap queued[i] = {}
            /\ \A p \in SlotsOf(i) :
                \/ /\ p \in free[i] \cup queued[i]
                   /\ \A f \in Fronts : <<p, f>> \notin stubs
                \/ /\ p \notin free[i] \cup queued[i]
                   /\ {f \in Fronts : <<p, f>> \in stubs} = {base[i]}

\* When Stop has returned no receiver pushes any more, the next Start will not
\* take any receiver that was stopped for a running one, and an invalid
\* scheduler never left the stopped state (Scheduler.h:197-198).
QuietWhenStopped ==
    /\ control = "stopped" => \A r \in Receivers : thread[r] = "none"
    /\ control = "stopping" => \A r \in receivers \ pending : ~running[r]
    /\ ~valid => control = "stopped"

\* Stop returns although receivers are in the middle of a packet.
StopAlwaysReturns == control = "stopping" ~> control = "stopped" \/ broken

\* What the workers and the heaps use exists as long as no channel was moved
\* over, no sender moved (its processing_fun_ would go on calling the front end
\* that it was bound to, SenderChannel.h:43), and no channel destroyed with
\* packets: each of the three alone can break the program.
OnlyLiveUsed == careless = {} => ~broken
=============================================================================
