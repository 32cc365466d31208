------------------------------ MODULE Channel ------------------------------
(***************************************************************************)
(* The packet pool of one channel (src/ChannelImpl.cpp) and the stubs the  *)
(* threads that use it hold (PacketToFill, PacketToProcess).  The free     *)
(* list and the queue have a mutex each; every critical section is one     *)
(* step, and a thread is between two of them where pc says so.             *)
(*                                                                         *)
(* A thread has one stub variable: a thread that holds several stubs is    *)
(* several threads here.  The queue of a scheduled channel is served by    *)
(* the workers: PopNext then hands the packet to a callback that owns a    *)
(* PacketToProcess, which is what Poll does for the thread that calls it.  *)
(***************************************************************************)
EXTENDS Integers, FiniteSetsExt

CONSTANTS Packets,    \* the pool: capacity_ slots
          Threads,    \* clients of the channel, workers included
          MaxTime,    \* bound on the timestamps
          MaxPushes,  \* bound on the packets pushed in a behaviour
          NoPacket    \* the null packet pointer

Times == 0 .. MaxTime

ASSUME ChannelAssumption ==
    /\ MaxTime \in Nat
    /\ MaxPushes \in Nat
    /\ NoPacket \notin Packets

VARIABLES free,       \* free_packets_, the order of the stack left out
          queued,     \* queued_packets_
          live,       \* the packets whose data_ is constructed
          ts,         \* timestamp_ of each packet
          pc,         \* what each thread is in the middle of
          stub,       \* packet_ of the thread's stub
          kind,       \* what the thread's stub is when it is not empty
          raw,        \* the packet pointer in TryDroppingPacket
          events      \* the events logged so far

vars == <<free, queued, live, ts, pc, stub, kind, raw, events>>

-----------------------------------------------------------------------------
\* The packets that can be at the front of the queue.
Earliest == {p \in queued : \A q \in queued : ts[p] <= ts[q]}

Goto(t, label) == pc' = [pc EXCEPT ![t] = label]

Logged(event) == events' = [events EXCEPT ![event] = @ + 1]

\* Mutant of Fill: the packet is read from the free list and left there.
Fill_NotPopped(t, p, time) ==
    /\ live' = live \cup {p}
    /\ ts' = [ts EXCEPT ![p] = time]
    /\ stub' = [stub EXCEPT ![t] = p]
    /\ kind' = [kind EXCEPT ![t] = "fill"]
    /\ Goto(t, "idle")
    /\ UNCHANGED <<free, queued, raw, events>>

\* Channel::Acquire constructs the packet and its stub.
Fill(t, p, time) ==
    /\ free' = free \ {p}
    /\ live' = live \cup {p}
    /\ ts' = [ts EXCEPT ![p] = time]
    /\ stub' = [stub EXCEPT ![t] = p]
    /\ kind' = [kind EXCEPT ![t] = "fill"]
    /\ Goto(t, "idle")
    /\ UNCHANGED <<queued, raw, events>>

\* Acquire, first try: a free packet.
AcquireFree(t) ==
    /\ pc[t] = "idle"
    /\ stub[t] = NoPacket
    /\ \E p \in free, time \in Times : Fill(t, p, time)

\* Acquire, first try: none.
AcquireNone(t) ==
    /\ pc[t] = "idle"
    /\ stub[t] = NoPacket
    /\ free = {}
    /\ Goto(t, "dropping")
    /\ UNCHANGED <<free, queued, live, ts, stub, kind, raw, events>>

\* TryDroppingPacket: GetNext(true) takes the earliest packet of the queue.
DropEarliest(t) ==
    /\ pc[t] = "dropping"
    /\ \E p \in Earliest : /\ queued' = queued \ {p}
                           /\ raw' = [raw EXCEPT ![t] = p]
    /\ Goto(t, "releasing")
    /\ UNCHANGED <<free, live, ts, stub, kind, events>>

\* Mutant of DropNothing: the event is logged although nothing is dropped.
DropNothing_Logs(t) ==
    /\ pc[t] = "dropping"
    /\ queued = {}
    /\ Logged("dropped")
    /\ Goto(t, "idle")
    /\ UNCHANGED <<free, queued, live, ts, stub, kind, raw>>

\* TryDroppingPacket finds nothing to drop: Acquire returns an empty stub.
DropNothing(t) ==
    /\ pc[t] = "dropping"
    /\ queued = {}
    /\ Goto(t, "idle")
    /\ UNCHANGED <<free, queued, live, ts, stub, kind, raw, events>>

\* Release(packet, true) of a raw packet: its data is not destructed.
ReleaseDropped(t) ==
    /\ pc[t] = "releasing"
    /\ free' = free \cup {raw[t]}
    /\ raw' = [raw EXCEPT ![t] = NoPacket]
    /\ Goto(t, "dropped")
    /\ UNCHANGED <<queued, live, ts, stub, kind, events>>

LogDropped(t) ==
    /\ pc[t] = "dropped"
    /\ Logged("dropped")
    /\ Goto(t, "retry")
    /\ UNCHANGED <<free, queued, live, ts, stub, kind, raw>>

\* Acquire, second try: the freed packet, or another.
AcquireAgain(t) ==
    /\ pc[t] = "retry"
    /\ \E p \in free, time \in Times : Fill(t, p, time)

\* Acquire, second try: others were faster and the stub returned is empty.
AcquireNoneAgain(t) ==
    /\ pc[t] = "retry"
    /\ free = {}
    /\ Goto(t, "idle")
    /\ UNCHANGED <<free, queued, live, ts, stub, kind, raw, events>>

\* PacketToFill::Push or its destructor: the event is logged, ...
LogPushed(t) ==
    /\ pc[t] = "idle"
    /\ stub[t] # NoPacket
    /\ kind[t] = "fill"
    /\ events.pushed < MaxPushes
    /\ Logged("pushed")
    /\ Goto(t, "pushing")
    /\ UNCHANGED <<free, queued, live, ts, stub, kind, raw>>

\* Mutant of Push: the stub keeps the packet it has queued.
Push_KeepsStub(t) ==
    /\ pc[t] = "pushing"
    /\ queued' = queued \cup {stub[t]}
    /\ Goto(t, "idle")
    /\ UNCHANGED <<free, live, ts, stub, kind, raw, events>>

\* Mutant of Push: the data goes with the stub, as in PacketToProcess.
Push_Destructs(t) ==
    /\ pc[t] = "pushing"
    /\ queued' = queued \cup {stub[t]}
    /\ live' = live \ {stub[t]}
    /\ stub' = [stub EXCEPT ![t] = NoPacket]
    /\ Goto(t, "idle")
    /\ UNCHANGED <<free, ts, kind, raw, events>>

\* ... then the packet is queued and the stub becomes empty.
Push(t) ==
    /\ pc[t] = "pushing"
    /\ queued' = queued \cup {stub[t]}
    /\ stub' = [stub EXCEPT ![t] = NoPacket]
    /\ Goto(t, "idle")
    /\ UNCHANGED <<free, live, ts, kind, raw, events>>

\* Poll into a new stub (a callback's, for a scheduled channel).
Poll(t) ==
    /\ pc[t] = "idle"
    /\ stub[t] = NoPacket
    /\ \E p \in Earliest : /\ queued' = queued \ {p}
                           /\ stub' = [stub EXCEPT ![t] = p]
    /\ kind' = [kind EXCEPT ![t] = "process"]
    /\ Logged("retrieved")
    /\ UNCHANGED <<free, live, ts, pc, raw>>

\* Mutant of Release: the stub is emptied before its packet is read.
Release_EmptiesFirst(t) ==
    /\ pc[t] = "idle"
    /\ stub[t] # NoPacket
    /\ kind[t] = "process"
    /\ live' = live \ {stub[t]}
    /\ stub' = [stub EXCEPT ![t] = NoPacket]
    /\ UNCHANGED <<free, queued, ts, pc, kind, raw, events>>

\* PacketToProcess::Release or its destructor: Channel::Release empties the
\* stub and destructs the data before the packet is back in the pool, but
\* until then the packet is its own and nobody else can tell.
Release(t) ==
    /\ pc[t] = "idle"
    /\ stub[t] # NoPacket
    /\ kind[t] = "process"
    /\ free' = free \cup {stub[t]}
    /\ live' = live \ {stub[t]}
    /\ stub' = [stub EXCEPT ![t] = NoPacket]
    /\ UNCHANGED <<queued, ts, pc, kind, raw, events>>

\* "stub = channel.Poll()" on a stub that still holds a packet, the loop of
\* SchedulerTest.cpp:140-142: PacketStub::move overwrites the pointer.
PollOver(t) ==
    /\ pc[t] = "idle"
    /\ stub[t] # NoPacket
    /\ kind[t] = "process"
    /\ \/ \E p \in Earliest : /\ queued' = queued \ {p}
                              /\ stub' = [stub EXCEPT ![t] = p]
                              /\ Logged("retrieved")
       \/ /\ queued = {}
          /\ stub' = [stub EXCEPT ![t] = NoPacket]
          /\ UNCHANGED <<queued, events>>
    /\ UNCHANGED <<free, live, ts, pc, kind, raw>>

-----------------------------------------------------------------------------
Init ==
    /\ free = Packets
    /\ queued = {}
    /\ live = {}
    /\ ts = [p \in Packets |-> 0]
    /\ pc = [t \in Threads |-> "idle"]
    /\ stub = [t \in Threads |-> NoPacket]
    /\ kind = [t \in Threads |-> "fill"]
    /\ raw = [t \in Threads |-> NoPacket]
    /\ events = [e \in {"pushed", "retrieved", "dropped"} |-> 0]

Acquire(t) ==
    \/ AcquireFree(t)
    \/ AcquireNone(t)
    \/ DropEarliest(t)
    \/ DropNothing(t)
    \/ ReleaseDropped(t)
    \/ LogDropped(t)
    \/ AcquireAgain(t)
    \/ AcquireNoneAgain(t)

Next == \E t \in Threads :
    \/ Acquire(t)
    \/ LogPushed(t)
    \/ Push(t)
    \/ Poll(t)
    \/ Release(t)

Spec == Init /\ [][Next]_vars

\* Threads that also poll over a stub in use.
SpecWithReuse == Init /\ [][Next \/ \E t \in Threads : PollOver(t)]_vars

-----------------------------------------------------------------------------
(* Properties *)

TypeOK ==
    /\ free \in SUBSET Packets
    /\ queued \in SUBSET Packets
    /\ live \in SUBSET Packets
    /\ ts \in [Packets -> Times]
    /\ pc \in [Threads -> {"idle", "dropping", "releasing", "dropped", "retry",
                           "pushing"}]
    /\ stub \in [Threads -> Packets \cup {NoPacket}]
    /\ kind \in [Threads -> {"fill", "process"}]
    /\ raw \in [Threads -> Packets \cup {NoPacket}]
    /\ events \in [{"pushed", "retrieved", "dropped"} -> Nat]

InStubs == {stub[t] : t \in Threads} \ {NoPacket}
InDrops == {raw[t] : t \in Threads} \ {NoPacket}

\* No packet is ever lost: each is in the pool, in the queue or with a thread
\* that will send it on (PacketToProcess.h:12-13: "automatically discarded in
\* the connected Channel on the destruction of this object").
NothingLost == free \cup queued \cup InStubs \cup InDrops = Packets

\* No packet is in two places or with two threads.
NothingShared ==
    /\ free \cap queued = {}
    /\ \A t \in Threads :
        /\ stub[t] \notin free \cup queued \cup InDrops
        /\ raw[t] \notin free \cup queued
        /\ \A u \in Threads \ {t} :
            /\ stub[t] = stub[u] => stub[t] = NoPacket
            /\ raw[t] = raw[u] => raw[t] = NoPacket

\* The phase of a packet as Packet.h names it.
PhaseOf(p) ==
    CASE p \in free -> "Free"
      [] p \in queued -> "Queued"
      [] p \in InDrops -> "BeingDropped"
      [] \E t \in Threads : stub[t] = p /\ kind[t] = "fill" -> "BeingFilled"
      [] \E t \in Threads : stub[t] = p /\ kind[t] = "process" -> "BeingProcessed"
      [] OTHER -> "Lost"

Life == INSTANCE PacketLife WITH phase <- [p \in Packets |-> PhaseOf(p)]

ImplementsPacketLife == Life!Spec

\* What the tests read from the profiler (StateSchedulingTest.cpp:220-221): a
\* packet that was pushed is retrieved, dropped or still queued.  The three
\* events are logged at different points, so the balance is exact only when no
\* call is in progress, and never shows a packet leaving before it came.
EventsBalance ==
    /\ events.retrieved + events.dropped <= events.pushed
    /\ (\A t \in Threads : pc[t] = "idle") =>
        events.pushed = events.retrieved + events.dropped + Cardinality(queued)

\* No packet is waiting, filled or processed whose data was destructed, by
\* Release or with a stub that it has left (Channel.h:107-131).  The converse
\* fails: TryDroppingPacket releases a raw packet whose data nobody destructs.
DataInUse == queued \cup InStubs \subseteq live
=============================================================================
