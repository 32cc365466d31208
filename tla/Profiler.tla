------------------------------ MODULE Profiler ------------------------------
(***************************************************************************)
(* The profiler of a scheduler: threads log events of channels, and the    *)
(* collector thread, or the owner by hand, gathers them channel by channel *)
(* into buffers and sends each buffer as one datagram.  An aggregate is    *)
(* its log count, as LogAggregate justifies.  A thread is known by its     *)
(* name, which for a worker is the channel whose callback it runs.         *)
(***************************************************************************)
EXTENDS LogFormat

CONSTANTS Workers,       \* threads of the scheduler
          Externals,     \* other threads that push
          Pipeline,      \* pairs of a name and a channel that it pushes into
          Logs,          \* pairs of a channel and an event type that it logs
          kMaxSenders,
          BufferSizes,   \* sizes that a user may choose
          HeaderSize, SendSize, EntrySize,   \* of the parts of a buffer
          MaxPending,    \* bounds the events logged and not yet sent
          MaxInTransit   \* bounds the datagrams on their way

Threads == Workers \cup Externals
End == Len(EventOrder) + 1

ASSUME ProfilerAssumption == kMaxSenders \in Nat /\ Pipeline \subseteq Names \X Channels
                                           /\ Logs \subseteq Channels \X EventTypes

\* Names are cut to 27 characters; the size of ProfileData's own assertion.
ASSUME SizeAssumption ==
    /\ HeaderSize \in 5 .. 32 /\ SendSize \in 5 .. 32 /\ EntrySize \in 37 .. 64
    /\ BufferSizes \subseteq {n \in Nat : n >= 128}

VARIABLES buffer_size_, periodic,      \* periodic: aggregation_time_msec_ # 0
          aggregates_, senders_, serialize_next_,   \* of each ProfileData
          tracking,          \* the name and the channel that a thread is to track
          profile_data_, next_profile_data_, worker_shutdown_,
          phase,             \* where GatherNSend is
          buffer, used,      \* what GatherNSerialize has written, and its size
          thread,            \* where the collector thread is
          manual,            \* the owner is in GatherNSend
          control,           \* where the owner is between Start and Stop
          inTransit,         \* datagrams sent to the destination
          due                \* history: events logged and not yet sent

dataVars == <<aggregates_, senders_, serialize_next_>>
gatherVars == <<next_profile_data_, phase, buffer, used>>
ownerVars == <<profile_data_, worker_shutdown_, control>>
vars == <<buffer_size_, periodic, dataVars, tracking, gatherVars, ownerVars, thread,
          manual, inTransit, due>>

Registered(c) == \E i \in DOMAIN profile_data_ : profile_data_[i] = c
Current == IF next_profile_data_ + 1 \in DOMAIN profile_data_
           THEN profile_data_[next_profile_data_ + 1] ELSE None
NoEvents == [e \in EventTypes |-> 0]
EmptyBuffer == [sender |-> None, counts |-> NoEvents]
Pending == {y \in (Channels \X EventTypes) \X (1 .. MaxPending) : y[2] <= due[y[1]]}

\* Profiler's constructor with a udp: destination, a socket and a buffer of
\* 508 bytes if the user does not say; without one there is no profiler.
Destination == buffer_size_ \in BufferSizes /\ periodic \in BOOLEAN

\* One aggregate per registered event type, and nothing half serialized.
EmptyProfileData == /\ aggregates_ = [x \in Channels \X EventTypes |-> 0]
                    /\ serialize_next_ = [c \in Channels |-> End]

ClearTopSenders == senders_ = [x \in Channels \X Names |-> 0]

NobodyGathers == /\ profile_data_ = <<>> /\ next_profile_data_ = -1
                 /\ worker_shutdown_ = FALSE
                 /\ phase = "none" /\ buffer = EmptyBuffer /\ used = 0
                 /\ thread = "none" /\ manual = FALSE

Init == /\ Destination /\ EmptyProfileData /\ ClearTopSenders /\ NobodyGathers
        /\ tracking = [t \in Threads |-> None]
        /\ control = "stopped"
        /\ inTransit = {}
        /\ due = [x \in Channels \X EventTypes |-> 0]
-----------------------------------------------------------------------------
(* Threads that log *)

\* The name a thread may have: a worker has that of the channel it executes,
\* a thread that was not tagged by hand has none.
Bears(t, n) == IF t \in Workers THEN control = "running" /\ Registered(n) ELSE n = NoName

\* ProfileData::Log by a thread named n, first half: the aggregate.
Log(t, n, c, e) ==
    /\ tracking[t] = None
    /\ Registered(c)
    /\ Bears(t, n)
    /\ Cardinality(Pending) < MaxPending
    /\ aggregates_' = [aggregates_ EXCEPT ![<<c, e>>] = @ + 1]
    /\ due' = [due EXCEPT ![<<c, e>>] = @ + 1]
    /\ <<c, e>> \in Logs
    /\ e = kEventPushed => <<n, c>> \in Pipeline
    /\ tracking' = IF e = kEventPushed THEN [tracking EXCEPT ![t] = <<n, c>>] ELSE tracking
    /\ UNCHANGED <<buffer_size_, periodic, senders_, serialize_next_, gatherVars,
                   ownerVars, thread, manual, inTransit>>

Senders(c) == {n \in Names : senders_[<<c, n>>] > 0}

\* Second half: one of kMaxSenders slots, the thread's or a new one.
TrackSender(t) ==
    /\ tracking[t] # None
    /\ LET n == tracking[t][1]
           c == tracking[t][2]
       IN  senders_' = IF n \in Senders(c) \/ Cardinality(Senders(c)) < kMaxSenders
                       THEN [senders_ EXCEPT ![<<c, n>>] = @ + 1] ELSE senders_
    /\ tracking' = [tracking EXCEPT ![t] = None]
    /\ UNCHANGED <<buffer_size_, periodic, aggregates_, serialize_next_, gatherVars,
                   ownerVars, thread, manual, inTransit, due>>
-----------------------------------------------------------------------------
(* GatherNSend, by whichever thread has set next_profile_data_ *)

\* Mutant of Enter: a store instead of the exchange.
Enter_Stores == /\ next_profile_data_' = 0
                /\ phase' = "next"
                /\ UNCHANGED <<buffer, used>>

\* compare_exchange_strong(-1, 0)
Enter == /\ next_profile_data_ = -1
         /\ next_profile_data_' = 0
         /\ phase' = "next"
         /\ UNCHANGED <<buffer, used>>

TopSenders(c) == IF Senders(c) = {} THEN {NoName}
                 ELSE {n \in Senders(c) : \A m \in Senders(c) :
                                              senders_[<<c, m>>] <= senders_[<<c, n>>]}

\* Mutant of BeginChannel: without a sender the section is left out.
BeginChannel_Shorter ==
    /\ phase = "next" /\ next_profile_data_ < Len(profile_data_)
    /\ serialize_next_[Current] = End
    /\ \E s \in TopSenders(Current) :
           buffer' = [sender |-> IF s = NoName THEN None ELSE s,
                      counts |-> NoEvents]
    /\ used' = HeaderSize + SendSize
    /\ senders_' = [x \in Channels \X Names |->
                        IF x[1] = Current THEN 0 ELSE senders_[x]]
    /\ serialize_next_' = [serialize_next_ EXCEPT ![Current] = 1]
    /\ phase' = "fill"
    /\ UNCHANGED <<buffer_size_, periodic, aggregates_, tracking, next_profile_data_,
                   ownerVars, thread, manual, inTransit, due>>

\* The first buffer of a channel has its name and its top sender, ...
BeginChannel ==
    /\ phase = "next" /\ next_profile_data_ < Len(profile_data_)
    /\ serialize_next_[Current] = End
    /\ \E s \in TopSenders(Current) : buffer' = [sender |-> s, counts |-> NoEvents]
    /\ used' = HeaderSize + SendSize
    /\ senders_' = [x \in Channels \X Names |->
                        IF x[1] = Current THEN 0 ELSE senders_[x]]
    /\ serialize_next_' = [serialize_next_ EXCEPT ![Current] = 1]
    /\ phase' = "fill"
    /\ UNCHANGED <<buffer_size_, periodic, aggregates_, tracking, next_profile_data_,
                   ownerVars, thread, manual, inTransit, due>>

\* ... the others only its name.
ContinueChannel ==
    /\ phase = "next" /\ next_profile_data_ < Len(profile_data_)
    /\ serialize_next_[Current] # End
    /\ buffer' = EmptyBuffer
    /\ used' = HeaderSize
    /\ phase' = "fill"
    /\ UNCHANGED <<buffer_size_, periodic, dataVars, tracking, next_profile_data_,
                   ownerVars, thread, manual, inTransit, due>>

\* Mutants of Fits: no room is kept for the event; that for two is.
Fits_NoReserve == used <= buffer_size_
Fits_TwoReserved == used <= buffer_size_ - 128

Fits == used <= buffer_size_ - 64
More == serialize_next_[Current] # End

\* Mutant of SerializeEvent: the aggregate is not cleared.
SerializeEvent_Keeps ==
    /\ phase = "fill" /\ Fits /\ More
    /\ LET c == Current
           e == EventOrder[serialize_next_[c]]
           count == aggregates_[<<c, e>>]
       IN  /\ buffer' = [sender |-> buffer.sender,
                         counts |-> [buffer.counts EXCEPT ![e] = count]]
           /\ used' = IF count = 0 THEN used ELSE used + EntrySize
           /\ serialize_next_' = [serialize_next_ EXCEPT ![c] = @ + 1]
    /\ UNCHANGED <<buffer_size_, periodic, aggregates_, senders_, tracking,
                   next_profile_data_, phase, ownerVars, thread, manual, inTransit, due>>

\* One event type, serialized and cleared in one critical section; one that
\* was not logged leaves nothing in the buffer.
SerializeEvent ==
    /\ phase = "fill" /\ Fits /\ More
    /\ LET c == Current
           e == EventOrder[serialize_next_[c]]
           count == aggregates_[<<c, e>>]
       IN  /\ buffer' = [sender |-> buffer.sender,
                         counts |-> [buffer.counts EXCEPT ![e] = count]]
           /\ used' = IF count = 0 THEN used ELSE used + EntrySize
           /\ aggregates_' = [aggregates_ EXCEPT ![<<c, e>>] = 0]
           /\ serialize_next_' = [serialize_next_ EXCEPT ![c] = @ + 1]
    /\ UNCHANGED <<buffer_size_, periodic, senders_, tracking, next_profile_data_, phase,
                   ownerVars, thread, manual, inTransit, due>>

\* How often each event was logged does not matter here.
Told(counts) == SelectSeq(EventOrder, LAMBDA e : counts[e] > 0)

Datagram == [group |-> Current, sender |-> buffer.sender, events |-> Told(buffer.counts),
             size |-> used]

\* Mutant of SendBuffer: on to the next channel after any buffer.
SendBuffer_Advances ==
    /\ phase = "fill" /\ ~(Fits /\ More)
    /\ due' = [x \in Channels \X EventTypes |->
                   IF x[1] = Current THEN due[x] - buffer.counts[x[2]] ELSE due[x]]
    /\ next_profile_data_' = next_profile_data_ + 1
    /\ phase' = "next" /\ buffer' = EmptyBuffer /\ used' = 0
    /\ UNCHANGED <<buffer_size_, periodic, dataVars, tracking, ownerVars, thread, manual,
                   inTransit>>

\* A datagram may be lost at once.
SendToUDP(d) == \/ UNCHANGED inTransit
                \/ /\ Cardinality(inTransit) < MaxInTransit
                   /\ inTransit' = inTransit \cup {d}

\* sender_callback_, then on to the next channel if this one is complete.
SendBuffer ==
    /\ phase = "fill" /\ ~(Fits /\ More)
    /\ SendToUDP(Datagram)
    /\ due' = [x \in Channels \X EventTypes |->
                   IF x[1] = Current THEN due[x] - buffer.counts[x[2]] ELSE due[x]]
    /\ next_profile_data_' = IF More THEN next_profile_data_ ELSE next_profile_data_ + 1
    /\ phase' = "next" /\ buffer' = EmptyBuffer /\ used' = 0
    /\ UNCHANGED <<buffer_size_, periodic, dataVars, tracking, ownerVars, thread, manual>>

\* Mutant of Leave: next_profile_data_ is not reset.
Leave_KeepsIndex ==
    /\ phase = "next" /\ next_profile_data_ >= Len(profile_data_)
    /\ phase' = "none"
    /\ manual' = FALSE
    /\ thread' = IF manual THEN thread ELSE "test"
    /\ UNCHANGED <<buffer_size_, periodic, dataVars, tracking, next_profile_data_, buffer,
                   used, ownerVars, inTransit, due>>

Leave ==
    /\ phase = "next" /\ next_profile_data_ >= Len(profile_data_)
    /\ next_profile_data_' = -1
    /\ phase' = "none"
    /\ manual' = FALSE
    /\ thread' = IF manual THEN thread ELSE "test"
    /\ UNCHANGED <<buffer_size_, periodic, dataVars, tracking, buffer, used, ownerVars,
                   inTransit, due>>

GatherNSend == BeginChannel \/ ContinueChannel \/ SerializeEvent \/ SendBuffer \/ Leave
-----------------------------------------------------------------------------
(* The collector thread *)

\* The loop condition, now or after a sleep, then GatherNSend, which returns
\* at once, to sleep again, if another thread is in it: no change.
SleepNWork ==
    /\ thread = "test"
    /\ \/ /\ worker_shutdown_
          /\ thread' = "none" /\ UNCHANGED gatherVars
       \/ /\ ~worker_shutdown_
          /\ thread' = "gathering" /\ Enter
    /\ UNCHANGED <<buffer_size_, periodic, dataVars, tracking, ownerVars, manual, inTransit,
                   due>>

Collector == SleepNWork \/ (thread = "gathering" /\ GatherNSend)
-----------------------------------------------------------------------------
(* The owner, while it is not in GatherNSend itself *)

\* RegisterChannel makes the ProfileData, AddProfileData lists it.
AddProfileData(c) ==
    /\ control = "stopped" /\ ~manual
    /\ next_profile_data_ = -1
    /\ ~Registered(c)
    /\ profile_data_' = Append(profile_data_, c)
    /\ UNCHANGED <<buffer_size_, periodic, dataVars, tracking, gatherVars, worker_shutdown_,
                   control, thread, manual, inTransit, due>>

\* UnregisterChannel: *iter = back(); pop_back(); delete, with all events in
\* it.  Nobody is in a call on the channel (see Lifecycle).
RemoveProfileData(c) ==
    /\ control = "stopped" /\ ~manual
    /\ next_profile_data_ = -1
    /\ \A t \in Threads, n \in Names : tracking[t] # <<n, c>>
    /\ \E i \in DOMAIN profile_data_ :
          /\ profile_data_[i] = c
          /\ LET n == Len(profile_data_)
             IN  profile_data_' = SubSeq([profile_data_ EXCEPT ![i] = profile_data_[n]],
                                         1, n - 1)
    /\ aggregates_' = [x \in Channels \X EventTypes |-> IF x[1] = c THEN 0 ELSE aggregates_[x]]
    /\ due' = [x \in Channels \X EventTypes |-> IF x[1] = c THEN 0 ELSE due[x]]
    /\ senders_' = [x \in Channels \X Names |-> IF x[1] = c THEN 0 ELSE senders_[x]]
    /\ serialize_next_' = [serialize_next_ EXCEPT ![c] = End]
    /\ UNCHANGED <<buffer_size_, periodic, tracking, gatherVars, worker_shutdown_, control,
                   thread, manual, inTransit>>

Start == /\ control = "stopped" /\ ~manual
         /\ worker_shutdown_' = FALSE
         /\ thread' = IF periodic THEN "test" ELSE "none"
         /\ control' = "running"
         /\ UNCHANGED <<buffer_size_, periodic, dataVars, tracking, gatherVars,
                        profile_data_, manual, inTransit, due>>

\* Stop, once the workers are joined, ...
Stop == /\ control = "running" /\ ~manual
        /\ \A w \in Workers : tracking[w] = None
        /\ worker_shutdown_' = TRUE
        /\ control' = "joining"
        /\ UNCHANGED <<buffer_size_, periodic, dataVars, tracking, gatherVars,
                       profile_data_, thread, manual, inTransit, due>>

\* ... joins the collector.
Join == /\ control = "joining"
        /\ thread = "none"
        /\ control' = "stopped"
        /\ UNCHANGED <<buffer_size_, periodic, dataVars, tracking, gatherVars,
                       profile_data_, worker_shutdown_, thread, manual, inTransit, due>>

GatherManually == /\ control # "joining" /\ ~manual
                  /\ Enter
                  /\ manual' = TRUE
                  /\ UNCHANGED <<buffer_size_, periodic, dataVars, tracking, ownerVars,
                                 thread, inTransit, due>>

Owner == \/ \E c \in Channels : AddProfileData(c) \/ RemoveProfileData(c)
         \/ Start \/ Stop \/ Join \/ GatherManually
-----------------------------------------------------------------------------
ProfilerNext ==
    \/ \E t \in Threads, n \in Names, c \in Channels, e \in EventTypes : Log(t, n, c, e)
    \/ \E t \in Threads : TrackSender(t)
    \/ Collector
    \/ manual /\ GatherNSend
    \/ Owner
=============================================================================
