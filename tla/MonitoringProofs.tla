-------------------------- MODULE MonitoringProofs --------------------------
(***************************************************************************)
(* Proofs about Monitoring for every set of channels, threads and event    *)
(* types, every length of list and every size of buffer that the code      *)
(* allows.  What keeps the threads of the profiler apart is one variable,  *)
(* next_profile_data_, which is -1 exactly while nobody gathers: Turns.    *)
(* What keeps the count is that a buffer holds nothing yet of the event    *)
(* types still ahead: NothingAhead.                                        *)
(***************************************************************************)
EXTENDS Monitoring, TLAPS

\* Nobody gathers exactly while next_profile_data_ is -1 (ProfilerImpl.cpp:82-100).
Turns == /\ GatheringUndisturbed
         /\ phase = "none" <=> next_profile_data_ = -1

\* The buffer has nothing of the event types that are still to come
\* (ProfileData.cpp:56-70).
NothingAhead ==
    phase = "fill" => \A i \in DOMAIN EventOrder :
        i >= serialize_next_[Current] => buffer.counts[EventOrder[i]] = 0

\* Where the collector and the owner are, and what they gather.
Gathering == ProfilerTypeOK /\ Turns

\* The inductive invariant.
IInv == Gathering /\ NothingAhead /\ EveryEventCounted /\ ChannelsComplete /\ BufferHolds

\* Channels have at least one event type.
LEMMA EndFact == /\ Len(EventOrder) \in Nat /\ End \in Nat \ {0, 1}
                 /\ DOMAIN EventOrder = 1 .. Len(EventOrder)
                 /\ \A i \in DOMAIN EventOrder : EventOrder[i] \in EventTypes
<1>1. EventOrder \in Seq(EventTypes) /\ EventTypes # {}
    BY FormatAssumption
<1>2. DOMAIN EventOrder = 1 .. Len(EventOrder) /\ Len(EventOrder) \in Nat
    BY <1>1
<1>3. DOMAIN EventOrder # {}
    BY <1>1 DEF EventTypes
<1> QED BY <1>1, <1>2, <1>3 DEF End

\* While a channel is gathered, Current is that channel.
LEMMA CurrentFact ==
    ASSUME Gathering, phase # "none", next_profile_data_ < Len(profile_data_)
    PROVE  Current \in Channels
<1>1. /\ next_profile_data_ \in Nat /\ profile_data_ \in Seq(Channels)
      /\ Len(profile_data_) \in Nat
    BY DEF Gathering, ProfilerTypeOK, Turns
<1>2. next_profile_data_ + 1 \in DOMAIN profile_data_
    BY <1>1
<1> QED BY <1>1, <1>2 DEF Current

\* A buffer has room for a name, a sender and an event.
LEMMA SizeFact ==
    ASSUME ProfilerTypeOK
    PROVE  /\ buffer_size_ \in Nat /\ buffer_size_ >= 128 /\ used \in Nat
           /\ HeaderSize \in 5 .. 32 /\ SendSize \in 5 .. 32 /\ EntrySize \in 37 .. 64
<1>1. buffer_size_ \in {n \in Nat : n >= 128}
    BY SizeAssumption DEF ProfilerTypeOK
<1> QED BY <1>1, SizeAssumption DEF ProfilerTypeOK

\* The profiler starts at rest.
LEMMA InitGathering == Init => Gathering
<1>1. SUFFICES ASSUME Init PROVE Gathering
    OBVIOUS
<1> USE <1>1 DEF Init, Destination, EmptyProfileData, ClearTopSenders, NobodyGathers
<1>2. ProfilerTypeOK
  <2>1. buffer \in [sender : Names \cup {None}, counts : [EventTypes -> Nat]]
      BY DEF EmptyBuffer, NoEvents
  <2>2. serialize_next_ \in [Channels -> 1 .. End]
      BY EndFact
  <2>3. profile_data_ \in Seq(Channels)
      OBVIOUS
  <2>4. /\ aggregates_ \in [Channels \X EventTypes -> Nat]
        /\ senders_ \in [Channels \X Names -> Nat]
        /\ due \in [Channels \X EventTypes -> Nat]
      OBVIOUS
  <2> QED BY <2>1, <2>2, <2>3, <2>4 DEF ProfilerTypeOK
<1>3. Turns
    BY DEF Turns, GatheringUndisturbed
<1> QED BY <1>2, <1>3 DEF Gathering

\* Logging and sender tracking touch nothing that gathering depends on.
LEMMA LogGathering ==
    ASSUME Gathering,
           \/ \E t \in Threads, n \in Names, c \in Channels, e \in EventTypes :
                  Log(t, n, c, e)
           \/ \E t \in Threads : TrackSender(t)
    PROVE  Gathering'
<1>1. ASSUME NEW t \in Threads, NEW n \in Names, NEW c \in Channels, NEW e \in EventTypes,
             Log(t, n, c, e)
      PROVE  Gathering'
  <2> USE <1>1 DEF Log
  <2>1. /\ aggregates_' \in [Channels \X EventTypes -> Nat]
        /\ due' \in [Channels \X EventTypes -> Nat]
      BY DEF Gathering, ProfilerTypeOK
  <2>2. tracking' \in [Threads -> (Names \X Channels) \cup {None}]
      BY DEF Gathering, ProfilerTypeOK
  <2> QED BY <2>1, <2>2 DEF Gathering, ProfilerTypeOK, Turns, GatheringUndisturbed,
                            gatherVars, ownerVars
<1>2. ASSUME NEW t \in Threads, TrackSender(t) PROVE Gathering'
  <2> USE <1>2 DEF TrackSender
  <2>1. senders_' \in [Channels \X Names -> Nat]
      BY DEF Gathering, ProfilerTypeOK
  <2>2. tracking' \in [Threads -> (Names \X Channels) \cup {None}]
      BY DEF Gathering, ProfilerTypeOK
  <2> QED BY <2>1, <2>2 DEF Gathering, ProfilerTypeOK, Turns, GatheringUndisturbed,
                            gatherVars, ownerVars
<1> QED BY <1>1, <1>2

\* The steps of GatherNSend, which only the thread takes that has set
\* next_profile_data_ (ProfilerImpl.cpp:82-100).
LEMMA GatherGathering ==
    ASSUME Gathering, EveryEventCounted, phase # "none", GatherNSend PROVE Gathering'
<1> USE EndFact
<1>1. CASE BeginChannel
  <2> USE <1>1 DEF BeginChannel
  <2>1. Current \in Channels
      BY CurrentFact
  <2>2. senders_' \in [Channels \X Names -> Nat]
      BY DEF Gathering, ProfilerTypeOK
  <2>3. serialize_next_' \in [Channels -> 1 .. End]
      BY <2>1 DEF Gathering, ProfilerTypeOK
  <2>4. buffer' \in [sender : Names \cup {None}, counts : [EventTypes -> Nat]]
      BY DEF TopSenders, Senders, NoEvents, Names
  <2>5. used' \in Nat
      BY SizeAssumption
  <2> QED BY <2>2, <2>3, <2>4, <2>5 DEF Gathering, ProfilerTypeOK, Turns,
                                        GatheringUndisturbed, ownerVars
<1>2. CASE ContinueChannel
  <2> USE <1>2 DEF ContinueChannel
  <2>1. buffer' \in [sender : Names \cup {None}, counts : [EventTypes -> Nat]]
      BY DEF EmptyBuffer, NoEvents
  <2>2. used' \in Nat
      BY SizeAssumption
  <2> QED BY <2>1, <2>2 DEF Gathering, ProfilerTypeOK, Turns, GatheringUndisturbed,
                            ownerVars, dataVars
<1>3. CASE SerializeEvent
  <2> USE <1>3 DEF SerializeEvent
  <2>1. Current \in Channels
      BY CurrentFact DEF Gathering, Turns, GatheringUndisturbed
  <2>2. PICK i \in DOMAIN EventOrder : i = serialize_next_[Current]
      BY <2>1 DEF More, Gathering, ProfilerTypeOK, End
  <2>3. EventOrder[i] \in EventTypes /\ aggregates_[<<Current, EventOrder[i]>>] \in Nat
      BY <2>1, <2>2 DEF Gathering, ProfilerTypeOK
  <2>4. buffer' \in [sender : Names \cup {None}, counts : [EventTypes -> Nat]]
      BY <2>2, <2>3 DEF Gathering, ProfilerTypeOK
  <2>5. used' \in Nat
      BY <2>2, <2>3, SizeAssumption DEF Gathering, ProfilerTypeOK
  <2>6. aggregates_' \in [Channels \X EventTypes -> Nat]
      BY <2>1, <2>2, <2>3 DEF Gathering, ProfilerTypeOK
  <2>7. serialize_next_' \in [Channels -> 1 .. End]
      BY <2>1, <2>2 DEF Gathering, ProfilerTypeOK, End
  <2> QED BY <2>4, <2>5, <2>6, <2>7 DEF Gathering, ProfilerTypeOK, Turns,
                                        GatheringUndisturbed, ownerVars
<1>4. CASE SendBuffer
  <2> USE <1>4 DEF SendBuffer
  <2>1. ASSUME NEW x \in Channels \X EventTypes, x[1] = Current
        PROVE  due[x] - buffer.counts[x[2]] \in Nat
    <3>1. PICK c \in Channels, e \in EventTypes : x = <<c, e>>
        OBVIOUS
    <3>2. due[<<c, e>>] = aggregates_[<<c, e>>] + buffer.counts[e]
        BY <2>1, <3>1 DEF EveryEventCounted
    <3>3. aggregates_[<<c, e>>] \in Nat /\ buffer.counts[e] \in Nat
        BY DEF Gathering, ProfilerTypeOK
    <3> QED BY <3>1, <3>2, <3>3
  <2>2. due' \in [Channels \X EventTypes -> Nat]
      BY <2>1 DEF Gathering, ProfilerTypeOK
  <2>3. buffer' \in [sender : Names \cup {None}, counts : [EventTypes -> Nat]]
      BY DEF EmptyBuffer, NoEvents
  <2>4. next_profile_data_ \in Nat /\ next_profile_data_' \in Nat
      BY DEF Gathering, ProfilerTypeOK, Turns
  <2> QED BY <2>2, <2>3, <2>4 DEF Gathering, ProfilerTypeOK, Turns, GatheringUndisturbed,
                                  ownerVars, dataVars
<1>5. CASE Leave
    BY <1>5 DEF Leave, Gathering, ProfilerTypeOK, Turns, GatheringUndisturbed, ownerVars,
                dataVars
<1> QED BY <1>1, <1>2, <1>3, <1>4, <1>5 DEF GatherNSend

\* The collector and the owner: only one of them enters GatherNSend, and the
\* list changes while nobody is in it (ProfilerImpl.cpp:30-80, 102-109).
LEMMA OwnerGathering ==
    ASSUME Gathering, SleepNWork \/ Owner PROVE Gathering'
<1>1. CASE SleepNWork
  <2> USE <1>1 DEF SleepNWork
  <2>1. UNCHANGED <<buffer_size_, periodic, dataVars, tracking, ownerVars, manual, due>>
      OBVIOUS
  <2>2. CASE thread' = "none" /\ UNCHANGED gatherVars
      BY <2>1, <2>2 DEF gatherVars, ownerVars, dataVars, Gathering, ProfilerTypeOK, Turns,
                        GatheringUndisturbed
  <2>3. CASE thread' = "gathering" /\ Enter
    <3>1. thread = "test" /\ next_profile_data_ = -1
        BY <1>1, <2>3 DEF Enter
    <3>2. phase = "none"
        BY <3>1 DEF Gathering, Turns
    <3>3. ~manual
        BY <3>2 DEF Gathering, Turns, GatheringUndisturbed
    <3>4. control # "stopped"
        BY <3>1 DEF Gathering, Turns, GatheringUndisturbed
    <3>5. /\ thread' = "gathering" /\ phase' = "next" /\ next_profile_data_' = 0
          /\ manual' = manual /\ control' = control
        BY <2>1, <2>3 DEF Enter, ownerVars
    <3>6. Turns'
        BY <3>3, <3>4, <3>5 DEF Turns, GatheringUndisturbed
    <3>7. ProfilerTypeOK'
        BY <2>1, <2>3 DEF Enter, ownerVars, dataVars, Gathering, ProfilerTypeOK
    <3> QED BY <3>6, <3>7 DEF Gathering
  <2> QED BY <2>2, <2>3
<1>2. ASSUME NEW c \in Channels, AddProfileData(c) PROVE Gathering'
  <2> USE <1>2 DEF AddProfileData
  <2>1. profile_data_' \in Seq(Channels)
      BY DEF Gathering, ProfilerTypeOK
  <2> QED BY <2>1 DEF gatherVars, dataVars, Gathering, ProfilerTypeOK, Turns,
                      GatheringUndisturbed
<1>3. ASSUME NEW c \in Channels, RemoveProfileData(c) PROVE Gathering'
  <2> USE <1>3 DEF RemoveProfileData
  <2>1. profile_data_' \in Seq(Channels)
    <3>1. PICK i \in DOMAIN profile_data_ :
              profile_data_' = SubSeq([profile_data_ EXCEPT
                                           ![i] = profile_data_[Len(profile_data_)]],
                                      1, Len(profile_data_) - 1)
        OBVIOUS
    <3>2. [profile_data_ EXCEPT ![i] = profile_data_[Len(profile_data_)]] \in Seq(Channels)
        BY DEF Gathering, ProfilerTypeOK
    <3> QED BY <3>1, <3>2 DEF Gathering, ProfilerTypeOK
  <2>2. /\ aggregates_' \in [Channels \X EventTypes -> Nat]
        /\ due' \in [Channels \X EventTypes -> Nat]
        /\ senders_' \in [Channels \X Names -> Nat]
      BY DEF Gathering, ProfilerTypeOK
  <2>3. serialize_next_' \in [Channels -> 1 .. End]
      BY EndFact DEF Gathering, ProfilerTypeOK
  <2> QED BY <2>1, <2>2, <2>3 DEF gatherVars, Gathering, ProfilerTypeOK, Turns,
                                  GatheringUndisturbed
<1>4. CASE Start \/ Stop \/ Join
  <2> USE <1>4 DEF Start, Stop, Join
  <2>1. ProfilerTypeOK'
      BY DEF gatherVars, dataVars, Gathering, ProfilerTypeOK
  <2>2. UNCHANGED <<phase, next_profile_data_, profile_data_, manual>>
      BY DEF gatherVars
  <2>3. thread' # "gathering" <=> thread # "gathering"
      BY DEF Gathering, Turns, GatheringUndisturbed
  <2>4. control' = "stopped" => thread' = "none"
      OBVIOUS
  <2>5. Turns'
      BY <2>2, <2>3, <2>4 DEF Gathering, Turns, GatheringUndisturbed
  <2> QED BY <2>1, <2>5 DEF Gathering
<1>5. CASE GatherManually
    BY <1>5 DEF GatherManually, Enter, ownerVars, dataVars, Gathering, ProfilerTypeOK, Turns,
                GatheringUndisturbed
<1> QED BY <1>1, <1>2, <1>3, <1>4, <1>5 DEF Owner
-----------------------------------------------------------------------------
(* The count *)

\* The profiler starts with nothing logged and nothing serialized.
LEMMA InitCounts == Init => IInv
<1> SUFFICES ASSUME Init PROVE IInv
    OBVIOUS
<1> USE DEF Init, EmptyProfileData, NobodyGathers
<1>1. Gathering
    BY InitGathering
<1>2. NothingAhead
    BY DEF NothingAhead
<1>3. EveryEventCounted
    BY DEF EveryEventCounted
<1>4. ChannelsComplete
    BY DEF ChannelsComplete
<1>5. BufferHolds
    BY SizeAssumption DEF BufferHolds, Destination
<1> QED BY <1>1, <1>2, <1>3, <1>4, <1>5 DEF IInv

\* A first buffer is empty, so that all events of its channel are still in
\* their aggregates (ProfileData.cpp:48-54).
LEMMA BeginCounts ==
    ASSUME IInv, BeginChannel
    PROVE  NothingAhead' /\ EveryEventCounted' /\ ChannelsComplete' /\ BufferHolds'
<1> USE DEF BeginChannel
<1>1. Current' = Current
    BY DEF Current, ownerVars
<1>2. buffer'.counts = NoEvents
    OBVIOUS
<1>3. NothingAhead'
    BY <1>2, EndFact DEF NothingAhead, NoEvents
<1>4. EveryEventCounted'
    BY <1>2 DEF IInv, EveryEventCounted, NoEvents, Gathering, ProfilerTypeOK
<1>5. ASSUME NEW c \in Channels, serialize_next_'[c] # End PROVE c = Current'
    BY <1>1, <1>5 DEF IInv, ChannelsComplete, Gathering, ProfilerTypeOK
<1>6. ChannelsComplete'
    BY <1>5 DEF ChannelsComplete, End
<1>7. BufferHolds'
  <2>1. used' = HeaderSize + SendSize /\ buffer_size_' = buffer_size_
      OBVIOUS
  <2> HIDE DEF BeginChannel, ContinueChannel
  <2> QED BY <2>1, SizeFact DEF BufferHolds, IInv, Gathering
<1> QED BY <1>3, <1>4, <1>6, <1>7

\* So is a further one.
LEMMA ContinueCounts ==
    ASSUME IInv, ContinueChannel
    PROVE  NothingAhead' /\ EveryEventCounted' /\ ChannelsComplete' /\ BufferHolds'
<1> USE DEF ContinueChannel
<1>1. Current' = Current
    BY DEF Current, ownerVars
<1>2. buffer'.counts = NoEvents
    BY DEF EmptyBuffer
<1>3. NothingAhead'
    BY <1>2, EndFact DEF NothingAhead, NoEvents
<1>4. EveryEventCounted'
    BY <1>2 DEF IInv, EveryEventCounted, NoEvents, Gathering, ProfilerTypeOK, dataVars
<1>5. ChannelsComplete'
    BY <1>1 DEF IInv, ChannelsComplete, dataVars
<1>6. BufferHolds'
  <2>1. used' = HeaderSize /\ buffer_size_' = buffer_size_
      OBVIOUS
  <2> HIDE DEF BeginChannel, ContinueChannel
  <2> QED BY <2>1, SizeFact DEF BufferHolds, IInv, Gathering
<1> QED BY <1>3, <1>4, <1>5, <1>6

\* An event type that is serialized was not in the buffer before, and takes
\* no more than the room kept for it (ProfileData.cpp:56-70).
LEMMA SerializeCounts ==
    ASSUME IInv, SerializeEvent
    PROVE  NothingAhead' /\ EveryEventCounted' /\ ChannelsComplete' /\ BufferHolds'
<1> USE DEF SerializeEvent
<1>1. Current' = Current
    BY DEF Current, ownerVars
<1>2. Current \in Channels
    BY CurrentFact DEF IInv, Gathering, Turns, GatheringUndisturbed
<1>3. PICK i \in DOMAIN EventOrder : i = serialize_next_[Current]
    BY <1>2, EndFact DEF More, IInv, Gathering, ProfilerTypeOK, End
<1> DEFINE e == EventOrder[i]
<1>4. e \in EventTypes /\ aggregates_[<<Current, e>>] \in Nat /\ i \in Nat
    BY <1>2, <1>3, EndFact DEF IInv, Gathering, ProfilerTypeOK
<1>5. buffer.counts \in [EventTypes -> Nat]
    BY DEF IInv, Gathering, ProfilerTypeOK
<1>6. buffer'.counts = [buffer.counts EXCEPT ![e] = aggregates_[<<Current, e>>]]
    BY <1>3
<1>7. buffer.counts[e] = 0
    BY <1>3, <1>4 DEF IInv, NothingAhead
<1>8. NothingAhead'
  <2>1. serialize_next_'[Current] = i + 1
      BY <1>2, <1>3 DEF IInv, Gathering, ProfilerTypeOK
  <2>2. ASSUME NEW j \in DOMAIN EventOrder, j >= i + 1 PROVE buffer'.counts[EventOrder[j]] = 0
    <3>1. j \in Nat /\ j # i /\ j >= i
        BY <1>4, <2>2, EndFact
    <3>2. EventOrder[j] # e
        BY <3>1, FormatAssumption
    <3>3. buffer.counts[EventOrder[j]] = 0
        BY <1>3, <3>1 DEF IInv, NothingAhead
    <3> QED BY <1>5, <1>6, <3>2, <3>3, EndFact
  <2> QED BY <1>1, <2>1, <2>2 DEF NothingAhead
<1>9. EveryEventCounted'
  <2>1. aggregates_' = [aggregates_ EXCEPT ![<<Current, e>>] = 0]
      BY <1>3
  <2>2. SUFFICES ASSUME NEW c \in Channels, NEW f \in EventTypes
                 PROVE  due[<<c, f>>] = aggregates_'[<<c, f>>]
                            + (IF c = Current THEN buffer'.counts[f] ELSE 0)
    <3>1. phase' = "fill" /\ due' = due
        OBVIOUS
    <3> HIDE DEF SerializeEvent
    <3> QED BY <1>1, <3>1 DEF EveryEventCounted
  <2>3. due[<<c, f>>] = aggregates_[<<c, f>>] + (IF c = Current THEN buffer.counts[f] ELSE 0)
      BY DEF IInv, EveryEventCounted
  <2>4. aggregates_ \in [Channels \X EventTypes -> Nat]
      BY DEF IInv, Gathering, ProfilerTypeOK
  <2>5. CASE c = Current /\ f = e
      BY <1>4, <1>5, <1>6, <1>7, <2>1, <2>3, <2>4, <2>5
  <2>6. CASE c # Current \/ f # e
    <3>1. aggregates_'[<<c, f>>] = aggregates_[<<c, f>>]
        BY <2>1, <2>4, <2>6
    <3>2. c = Current => buffer'.counts[f] = buffer.counts[f]
        BY <1>5, <1>6, <2>6
    <3> QED BY <2>3, <3>1, <3>2
  <2> QED BY <2>5, <2>6
<1>10. ChannelsComplete'
    BY <1>1 DEF IInv, ChannelsComplete, Gathering, ProfilerTypeOK
<1>11. BufferHolds'
    BY SizeFact DEF BufferHolds, Fits, IInv, Gathering
<1> QED BY <1>8, <1>9, <1>10, <1>11

\* What a buffer takes along is no longer due, and the next channel is gone on
\* to only when this one is complete (ProfilerImpl.cpp:88-97).
LEMMA SendCounts ==
    ASSUME IInv, SendBuffer
    PROVE  NothingAhead' /\ EveryEventCounted' /\ ChannelsComplete' /\ BufferHolds'
<1> USE DEF SendBuffer
<1>1. NothingAhead'
    BY DEF NothingAhead
<1>2. EveryEventCounted'
  <2>1. SUFFICES ASSUME NEW c \in Channels, NEW e \in EventTypes
                 PROVE  due'[<<c, e>>] = aggregates_[<<c, e>>] + 0
      BY DEF EveryEventCounted, dataVars
  <2>2. due[<<c, e>>] = aggregates_[<<c, e>>] + (IF c = Current THEN buffer.counts[e] ELSE 0)
      BY DEF IInv, EveryEventCounted
  <2>3. aggregates_[<<c, e>>] \in Nat /\ buffer.counts[e] \in Nat
      BY DEF IInv, Gathering, ProfilerTypeOK
  <2>4. due'[<<c, e>>] = IF c = Current THEN due[<<c, e>>] - buffer.counts[e]
                                       ELSE due[<<c, e>>]
      OBVIOUS
  <2> QED BY <2>2, <2>3, <2>4
<1>3. ChannelsComplete'
  <2>1. CASE More
    <3>1. Current' = Current
        BY <2>1 DEF Current, ownerVars
    <3> QED BY <3>1 DEF IInv, ChannelsComplete, dataVars
  <2>2. CASE ~More
      BY <2>2 DEF IInv, ChannelsComplete, dataVars, More
  <2> QED BY <2>1, <2>2
<1>4. BufferHolds'
    BY SizeFact DEF BufferHolds, IInv, Gathering
<1> QED BY <1>1, <1>2, <1>3, <1>4

\* Behind the end of the list no channel is left.
LEMMA LeaveCounts ==
    ASSUME IInv, Leave
    PROVE  NothingAhead' /\ EveryEventCounted' /\ ChannelsComplete' /\ BufferHolds'
<1> USE DEF Leave
<1>1. NothingAhead'
    BY DEF NothingAhead
<1>2. EveryEventCounted'
    BY DEF IInv, EveryEventCounted, dataVars
<1>3. ChannelsComplete'
  <2>1. next_profile_data_ \in Nat /\ Len(profile_data_) \in Nat
      BY DEF IInv, Gathering, ProfilerTypeOK, Turns
  <2>2. Current = None
      BY <2>1 DEF Current, IInv, Gathering, ProfilerTypeOK
  <2>3. \A c \in Channels : serialize_next_[c] = End
      BY <2>2, FormatAssumption DEF IInv, ChannelsComplete, Names
  <2> QED BY <2>3 DEF ChannelsComplete, dataVars
<1>4. BufferHolds'
    BY DEF BufferHolds, IInv
<1> QED BY <1>1, <1>2, <1>3, <1>4

\* What the count depends on, when nobody gathers on.
Undisturbed == UNCHANGED <<buffer_size_, serialize_next_, next_profile_data_, phase,
                           buffer, used, profile_data_>>

\* A step that leaves that alone, and logs as much as becomes due.
LEMMA UndisturbedCounts ==
    ASSUME IInv, Undisturbed,
           \A x \in Channels \X EventTypes : due'[x] - aggregates_'[x] = due[x] - aggregates_[x],
           ProfilerTypeOK'
    PROVE  NothingAhead' /\ EveryEventCounted' /\ ChannelsComplete' /\ BufferHolds'
<1> USE DEF Undisturbed
<1>1. Current' = Current
    BY DEF Current
<1>2. NothingAhead'
    BY <1>1 DEF IInv, NothingAhead
<1>3. ASSUME NEW c \in Channels, NEW e \in EventTypes
      PROVE  due'[<<c, e>>] = aggregates_'[<<c, e>>]
                 + (IF phase = "fill" /\ c = Current THEN buffer.counts[e] ELSE 0)
  <2>1. due[<<c, e>>] = aggregates_[<<c, e>>]
                 + (IF phase = "fill" /\ c = Current THEN buffer.counts[e] ELSE 0)
      BY DEF IInv, EveryEventCounted
  <2>2. due'[<<c, e>>] - aggregates_'[<<c, e>>] = due[<<c, e>>] - aggregates_[<<c, e>>]
      OBVIOUS
  <2>3. /\ due[<<c, e>>] \in Nat /\ aggregates_[<<c, e>>] \in Nat
        /\ due'[<<c, e>>] \in Nat /\ aggregates_'[<<c, e>>] \in Nat
        /\ buffer.counts[e] \in Nat
      BY DEF IInv, Gathering, ProfilerTypeOK
  <2> QED BY <2>1, <2>2, <2>3
<1>4. EveryEventCounted'
    BY <1>1, <1>3 DEF EveryEventCounted
<1>5. ChannelsComplete'
    BY <1>1 DEF IInv, ChannelsComplete
<1>6. BufferHolds'
    BY DEF IInv, BufferHolds
<1> QED BY <1>2, <1>4, <1>5, <1>6

\* Logging, which may come between any two steps of a gathering.
LEMMA LogCounts ==
    ASSUME IInv,
           \/ \E t \in Threads, n \in Names, c \in Channels, e \in EventTypes :
                  Log(t, n, c, e)
           \/ \E t \in Threads : TrackSender(t)
    PROVE  IInv'
<1>1. Gathering'
    BY LogGathering DEF IInv
<1>2. Undisturbed
    BY DEF Log, TrackSender, Undisturbed, gatherVars, ownerVars
<1>3. ASSUME NEW x \in Channels \X EventTypes
      PROVE  due'[x] - aggregates_'[x] = due[x] - aggregates_[x]
  <2>1. /\ aggregates_ \in [Channels \X EventTypes -> Nat]
        /\ due \in [Channels \X EventTypes -> Nat]
      BY DEF IInv, Gathering, ProfilerTypeOK
  <2>2. ASSUME NEW t \in Threads, NEW n \in Names, NEW c \in Channels, NEW e \in EventTypes,
               Log(t, n, c, e)
        PROVE  due'[x] - aggregates_'[x] = due[x] - aggregates_[x]
    <3>1. /\ aggregates_' = [aggregates_ EXCEPT ![<<c, e>>] = @ + 1]
          /\ due' = [due EXCEPT ![<<c, e>>] = @ + 1]
        BY <2>2 DEF Log
    <3>2. CASE x = <<c, e>>
        BY <2>1, <3>1, <3>2
    <3>3. CASE x # <<c, e>>
        BY <2>1, <3>1, <3>3
    <3> QED BY <3>2, <3>3
  <2>3. (\E t \in Threads : TrackSender(t)) => UNCHANGED <<aggregates_, due>>
      BY DEF TrackSender
  <2> QED BY <2>2, <2>3
<1> QED BY <1>1, <1>2, <1>3, UndisturbedCounts DEF IInv, Gathering

\* Entering GatherNSend serializes nothing yet.
LEMMA EnterCounts ==
    ASSUME IInv, Enter, Gathering',
           UNCHANGED <<buffer_size_, dataVars, profile_data_, due>>
    PROVE  NothingAhead' /\ EveryEventCounted' /\ ChannelsComplete' /\ BufferHolds'
<1> USE DEF Enter, dataVars
<1>1. phase = "none" /\ phase' = "next"
    BY DEF IInv, Gathering, Turns
<1>2. \A c \in Channels : serialize_next_[c] = End
    BY <1>1 DEF IInv, ChannelsComplete
<1>3. NothingAhead'
    BY <1>1 DEF NothingAhead
<1>4. EveryEventCounted'
  <2>1. ASSUME NEW c \in Channels, NEW e \in EventTypes
        PROVE  due'[<<c, e>>] = aggregates_'[<<c, e>>] + 0
    <3>1. due[<<c, e>>] = aggregates_[<<c, e>>] + 0
        BY <1>1 DEF IInv, EveryEventCounted
    <3> QED BY <3>1
  <2>2. phase' # "fill"
      BY <1>1
  <2> HIDE DEF Enter
  <2> QED BY ONLY <2>1, <2>2 DEF EveryEventCounted
<1>5. ChannelsComplete'
    BY <1>2 DEF ChannelsComplete
<1>6. BufferHolds'
    BY DEF IInv, BufferHolds
<1> QED BY <1>3, <1>4, <1>5, <1>6

\* While nobody gathers the list may change: no channel is half serialized.
LEMMA RestCounts ==
    ASSUME IInv, phase = "none", phase' = "none", UNCHANGED <<buffer_size_, used>>,
           \A c \in Channels : serialize_next_'[c] = End,
           \A x \in Channels \X EventTypes : due'[x] = aggregates_'[x],
           aggregates_' \in [Channels \X EventTypes -> Nat]
    PROVE  NothingAhead' /\ EveryEventCounted' /\ ChannelsComplete' /\ BufferHolds'
<1>1. NothingAhead' /\ BufferHolds'
    BY DEF IInv, NothingAhead, BufferHolds
<1>2. ASSUME NEW c \in Channels, NEW e \in EventTypes
      PROVE  due'[<<c, e>>] = aggregates_'[<<c, e>>] + 0
    OBVIOUS
<1>3. EveryEventCounted'
    BY ONLY phase' = "none", <1>2 DEF EveryEventCounted
<1>4. ChannelsComplete'
    BY DEF ChannelsComplete
<1> QED BY <1>1, <1>3, <1>4

\* The collector and the owner.
LEMMA OwnerCounts == ASSUME IInv, SleepNWork \/ Owner PROVE IInv'
<1>1. Gathering'
    BY OwnerGathering DEF IInv
<1>2. CASE \E c \in Channels : AddProfileData(c) \/ RemoveProfileData(c)
  <2>1. PICK c \in Channels : AddProfileData(c) \/ RemoveProfileData(c)
      BY <1>2
  <2>2. next_profile_data_ = -1 /\ UNCHANGED <<buffer_size_, gatherVars>>
      BY <2>1 DEF AddProfileData, RemoveProfileData
  <2>3. phase = "none" /\ phase' = "none" /\ UNCHANGED used
      BY <2>2 DEF IInv, Gathering, Turns, gatherVars
  <2>4. /\ \A d \in Channels : serialize_next_[d] = End
        /\ \A x \in Channels \X EventTypes : due[x] = aggregates_[x]
    <3>1. \A d \in Channels : serialize_next_[d] = End
        BY <2>3 DEF IInv, ChannelsComplete
    <3>2. ASSUME NEW d \in Channels, NEW e \in EventTypes
          PROVE  due[<<d, e>>] = aggregates_[<<d, e>>]
        BY <2>3 DEF IInv, EveryEventCounted, Gathering, ProfilerTypeOK
    <3> QED BY <3>1, <3>2
  <2>5. /\ \A d \in Channels : serialize_next_'[d] = End
        /\ \A x \in Channels \X EventTypes : due'[x] = aggregates_'[x]
    <3>1. CASE AddProfileData(c)
        BY <2>4, <3>1 DEF AddProfileData, dataVars
    <3>2. CASE RemoveProfileData(c)
      <4>1. /\ aggregates_' = [x \in Channels \X EventTypes |->
                                  IF x[1] = c THEN 0 ELSE aggregates_[x]]
            /\ due' = [x \in Channels \X EventTypes |-> IF x[1] = c THEN 0 ELSE due[x]]
            /\ serialize_next_' = [serialize_next_ EXCEPT ![c] = End]
          BY <3>2 DEF RemoveProfileData
      <4>2. serialize_next_ \in [Channels -> 1 .. End]
          BY DEF IInv, Gathering, ProfilerTypeOK
      <4> QED BY <2>4, <4>1, <4>2
    <3> QED BY <2>1, <3>1, <3>2
  <2> QED BY <1>1, <2>2, <2>3, <2>5, RestCounts DEF IInv, Gathering, ProfilerTypeOK
<1>3. CASE \/ SleepNWork /\ UNCHANGED gatherVars
           \/ Start \/ Stop \/ Join
  <2>1. Undisturbed /\ UNCHANGED <<aggregates_, due>>
      BY <1>3 DEF SleepNWork, Start, Stop, Join, Undisturbed, gatherVars, ownerVars, dataVars
  <2> QED BY <1>1, <2>1, UndisturbedCounts DEF IInv, Gathering
<1>4. CASE (SleepNWork /\ Enter) \/ GatherManually
  <2>1. Enter /\ UNCHANGED <<buffer_size_, dataVars, profile_data_, due>>
      BY <1>4 DEF SleepNWork, GatherManually, ownerVars
  <2> QED BY <1>1, <2>1, EnterCounts DEF IInv
<1>5. SleepNWork => (SleepNWork /\ UNCHANGED gatherVars) \/ (SleepNWork /\ Enter)
    BY DEF SleepNWork
<1> QED BY <1>2, <1>3, <1>4, <1>5 DEF Owner

\* GatherNSend goes on only where it has begun.
LEMMA GatherCounts == ASSUME IInv, phase # "none", GatherNSend PROVE IInv'
<1>1. Gathering'
    BY GatherGathering DEF IInv
<1>2. NothingAhead' /\ EveryEventCounted' /\ ChannelsComplete' /\ BufferHolds'
    BY BeginCounts, ContinueCounts, SerializeCounts, SendCounts, LeaveCounts DEF GatherNSend
<1> QED BY <1>1, <1>2 DEF IInv

\* Every step keeps the invariant, whatever the link and the analyzer do.
LEMMA NextCounts == ASSUME IInv, [Next]_allVars PROVE IInv'
<1>1. CASE ProfilerNext
  <2>1. CASE \/ \E t \in Threads, n \in Names, c \in Channels, e \in EventTypes :
                    Log(t, n, c, e)
             \/ \E t \in Threads : TrackSender(t)
      BY <2>1, LogCounts
  <2>2. CASE SleepNWork \/ Owner
      BY <2>2, OwnerCounts
  <2>3. CASE (thread = "gathering" \/ manual) /\ GatherNSend
    <3>1. phase # "none"
        BY <2>3 DEF IInv, Gathering, Turns, GatheringUndisturbed
    <3> QED BY <2>3, <3>1, GatherCounts
  <2> QED BY <1>1, <2>1, <2>2, <2>3 DEF ProfilerNext, Collector
<1>2. CASE \/ \E d \in inTransit : Lose(d) \/ Deliver(d)
           \/ UNCHANGED allVars
  <2>1. UNCHANGED <<buffer_size_, periodic, dataVars, tracking, gatherVars, ownerVars,
                    thread, manual, due>>
      BY <1>2 DEF Lose, Deliver, allVars, vars
  <2>2. Gathering'
      BY <2>1 DEF dataVars, gatherVars, ownerVars, IInv, Gathering, ProfilerTypeOK, Turns,
                  GatheringUndisturbed
  <2>3. Undisturbed /\ UNCHANGED <<due, aggregates_>>
      BY <2>1 DEF dataVars, gatherVars, ownerVars, Undisturbed
  <2> QED BY <2>2, <2>3, UndisturbedCounts DEF IInv, Gathering
<1> QED BY <1>1, <1>2 DEF Next

LEMMA AlwaysIInv == Spec => []IInv
<1>1. MonitoringInit => IInv
    BY InitCounts DEF MonitoringInit
<1>2. IInv /\ [Next]_allVars => IInv'
    BY NextCounts
<1> QED BY <1>1, <1>2, PTL DEF Spec
-----------------------------------------------------------------------------
(* What is guaranteed *)

\* The profiler's variables have their types (ProfilerImpl.h:89-96).
THEOREM ProfilerTypesAlwaysOK == Spec => []ProfilerTypeOK
<1>1. IInv => ProfilerTypeOK
    BY DEF IInv, Gathering
<1> QED BY <1>1, AlwaysIInv, PTL

\* However threads log while a channel is serialized piece by piece, no event
\* is lost or sent twice (ProfileData.cpp:31-73).
THEOREM EventsAlwaysCounted == Spec => []EveryEventCounted
<1>1. IInv => EveryEventCounted
    BY DEF IInv
<1> QED BY <1>1, AlwaysIInv, PTL

\* No buffer of at least 128 bytes is written past its end, whatever is logged
\* and however long the names are (ProfileData.cpp:43, 56).
THEOREM BuffersAlwaysHold == Spec => []BufferHolds
<1>1. IInv => BufferHolds
    BY DEF IInv
<1> QED BY <1>1, AlwaysIInv, PTL

\* The collector and the owner gather in turns, on a list that does not change
\* meanwhile (ProfilerImpl.cpp:30-100).
THEOREM GatheringAlwaysUndisturbed == Spec => []GatheringUndisturbed
<1>1. IInv => GatheringUndisturbed
    BY DEF IInv, Gathering, Turns
<1> QED BY <1>1, AlwaysIInv, PTL

\* A gathering leaves no channel half serialized (ProfileData.cpp:51-54).
THEOREM ChannelsAlwaysComplete == Spec => []ChannelsComplete
<1>1. IInv => ChannelsComplete
    BY DEF IInv
<1> QED BY <1>1, AlwaysIInv, PTL

-----------------------------------------------------------------------------
(***************************************************************************)
(* The map that the log analyzer draws is true, for every pipeline and     *)
(* whatever the link loses, repeats or reorders, if all events of a        *)
(* channel fit into one buffer.  A name goes from the thread that pushes   *)
(* (tracking) to the slots of its channel (senders_), to the buffer, into  *)
(* a datagram and onto the map, and at each stage it is one that the       *)
(* pipeline has: these are the parts of Traced.                            *)
(***************************************************************************)

\* A name and a channel that the map may join, or no name.
MayJoin(n, c) == n = NoName \/ <<n, c>> \in Pipeline

\* The buffer has grown by an entry at most for each event type left behind,
\* so that it never fills up before the last (ProfileData.cpp:43-73).
Roomy == phase = "fill" =>
             used <= HeaderSize + SendSize + (serialize_next_[Current] - 1) * EntrySize

\* Then a channel is complete whenever a buffer is sent.
Whole == phase # "fill" => \A c \in Channels : serialize_next_[c] = End

\* Where a name is on its way to the map.
Tracked == \A t \in Threads : tracking[t] # None => tracking[t] \in Pipeline
Slotted == \A c \in Channels, n \in Names : senders_[<<c, n>>] > 0 => <<n, c>> \in Pipeline
Written == phase = "fill" => buffer.sender \in Names /\ MayJoin(buffer.sender, Current)
Sent == \A d \in inTransit : d.sender \in Names /\ MayJoin(d.sender, d.group)
Drawn == channels_map \subseteq Pipeline /\ (alive \/ truncated)

Traced == Tracked /\ Slotted /\ Written /\ Sent /\ Drawn

\* No datagram is larger than the buffers, so that none is cut of buffers that
\* the analyzer reads whole (ProfilerImpl.cpp:95, analyzer_server.py:67).
Sized == /\ \A d \in inTransit : d.size \in Nat /\ d.size <= buffer_size_
         /\ buffer_size_ <= ReceiveSize => ~truncated

MInv == Sized /\ (OneBuffer => Roomy /\ Whole /\ Traced)
-----------------------------------------------------------------------------
(* Sizes *)

LEMMA Product == ASSUME NEW a \in Nat, NEW b \in Nat, NEW e \in Nat, a <= b
                 PROVE  a * e <= b * e /\ a * e \in Nat
    OBVIOUS

LEMMA NextProduct == ASSUME NEW a \in Nat, NEW e \in Nat PROVE (a + 1) * e = a * e + e
    OBVIOUS

\* With room for all events, a buffer is only sent when the channel is complete.
LEMMA FitsFact ==
    ASSUME IInv, OneBuffer, Roomy, phase = "fill", More
    PROVE  Fits
<1>1. /\ Len(EventOrder) \in Nat /\ End = Len(EventOrder) + 1
      /\ Current \in Channels
    BY EndFact, CurrentFact DEF End, IInv, Gathering, Turns, GatheringUndisturbed
<1>2. serialize_next_[Current] \in 1 .. Len(EventOrder)
    BY <1>1 DEF IInv, Gathering, ProfilerTypeOK, More
<1>3. /\ buffer_size_ \in Nat /\ used \in Nat
      /\ HeaderSize \in Nat /\ SendSize \in Nat /\ EntrySize \in Nat
    BY SizeFact DEF IInv, Gathering
<1>4. /\ (serialize_next_[Current] - 1) * EntrySize <= (Len(EventOrder) - 1) * EntrySize
      /\ (serialize_next_[Current] - 1) * EntrySize \in Nat
      /\ (Len(EventOrder) - 1) * EntrySize \in Nat
  <2>1. /\ serialize_next_[Current] - 1 \in Nat /\ Len(EventOrder) - 1 \in Nat
        /\ serialize_next_[Current] - 1 <= Len(EventOrder) - 1
        /\ Len(EventOrder) - 1 <= Len(EventOrder) - 1
      BY <1>1, <1>2
  <2> QED BY <1>3, <2>1, Product
<1> QED BY <1>3, <1>4 DEF OneBuffer, Roomy, Fits
-----------------------------------------------------------------------------
(* The steps, as long as one buffer is enough *)

LEMMA InitMap == ASSUME MonitoringInit PROVE MInv
<1> USE DEF MonitoringInit, Init, AnalyzerInit, NobodyGathers, EmptyProfileData,
            ClearTopSenders
<1>1. Roomy /\ Whole /\ Written
    BY DEF Roomy, Whole, Written
<1>2. Slotted
    BY DEF Slotted
<1>3. Tracked /\ Sent /\ Drawn /\ Sized
    BY DEF Tracked, Sent, Drawn, Sized
<1> QED BY <1>1, <1>2, <1>3 DEF MInv, Traced

\* A thread that pushes has the name of a channel that pushes there.
LEMMA LogMap ==
    ASSUME IInv, Roomy, Whole, Traced,
           \/ \E t \in Threads, n \in Names, c \in Channels, e \in EventTypes :
                  Log(t, n, c, e)
           \/ \E t \in Threads : TrackSender(t)
    PROVE  Roomy' /\ Whole' /\ Tracked' /\ Slotted' /\ Written' /\ UNCHANGED inTransit
<1>1. UNCHANGED <<serialize_next_, gatherVars, ownerVars, inTransit>>
    BY DEF Log, TrackSender
<1>2. Roomy' /\ Whole' /\ Written'
    BY <1>1 DEF gatherVars, ownerVars, Roomy, Whole, Written, Traced, Current
<1>3. ASSUME NEW t \in Threads, NEW n \in Names, NEW c \in Channels, NEW e \in EventTypes,
             Log(t, n, c, e)
      PROVE  Tracked' /\ Slotted'
  <2>1. tracking' = tracking \/ (tracking' = [tracking EXCEPT ![t] = <<n, c>>]
                                 /\ <<n, c>> \in Pipeline)
      BY <1>3 DEF Log
  <2>2. Tracked'
      BY <2>1 DEF Tracked, Traced, IInv, Gathering, ProfilerTypeOK
  <2> QED BY <1>3, <2>2 DEF Log, Slotted, Traced
<1>4. ASSUME NEW t \in Threads, TrackSender(t) PROVE Tracked' /\ Slotted'
  <2>1. Tracked'
      BY <1>4 DEF TrackSender, Tracked, Traced, IInv, Gathering, ProfilerTypeOK
  <2>2. PICK n \in Names, c \in Channels : tracking[t] = <<n, c>>
      BY <1>4 DEF TrackSender, IInv, Gathering, ProfilerTypeOK
  <2>3. <<n, c>> \in Pipeline
      BY <1>4, <2>2 DEF TrackSender, Tracked, Traced
  <2>4. senders_' = senders_ \/ senders_' = [senders_ EXCEPT ![<<c, n>>] = @ + 1]
      BY <1>4, <2>2 DEF TrackSender
  <2>5. Slotted'
      BY <2>3, <2>4 DEF Slotted, Traced, IInv, Gathering, ProfilerTypeOK
  <2> QED BY <2>1, <2>5
<1> QED BY <1>1, <1>2, <1>3, <1>4

\* The buffer begins with a name from the slots, ...
LEMMA BeginMap ==
    ASSUME IInv, Roomy, Whole, Traced, BeginChannel
    PROVE  Roomy' /\ Whole' /\ Tracked' /\ Slotted' /\ Written' /\ UNCHANGED inTransit
<1> USE DEF BeginChannel
<1>1. Current \in Channels /\ Current' = Current
    BY CurrentFact DEF IInv, ownerVars, Current
<1>2. serialize_next_'[Current] = 1
    BY <1>1 DEF IInv, Gathering, ProfilerTypeOK
<1>3. used' = HeaderSize + SendSize
    OBVIOUS
<1>4. /\ HeaderSize \in Nat /\ SendSize \in Nat /\ EntrySize \in Nat
    BY ONLY SizeAssumption
<1>5. (serialize_next_'[Current'] - 1) * EntrySize = 0
  <2>1. serialize_next_'[Current'] - 1 = 0
      BY ONLY <1>1, <1>2
  <2> QED BY ONLY <2>1, <1>4
<1>6. Roomy'
    BY ONLY <1>3, <1>4, <1>5 DEF Roomy
<1>7. Whole' /\ Tracked'
    BY DEF Whole, Tracked, Traced
<1>8. Slotted'
    BY DEF Slotted, Traced
<1>9. PICK s \in TopSenders(Current) : buffer' = [sender |-> s, counts |-> NoEvents]
    OBVIOUS
<1>10. s \in Names /\ MayJoin(s, Current)
    BY <1>1 DEF TopSenders, Senders, Names, MayJoin, Slotted, Traced
<1>11. Written'
    BY <1>1, <1>9, <1>10 DEF Written, MayJoin
<1> QED BY <1>6, <1>7, <1>8, <1>11

\* ... fills, but never up, ...
LEMMA SerializeMap ==
    ASSUME IInv, Roomy, Whole, Traced, SerializeEvent
    PROVE  Roomy' /\ Whole' /\ Tracked' /\ Slotted' /\ Written' /\ UNCHANGED inTransit
<1> USE DEF SerializeEvent
<1>1. Current \in Channels /\ Current' = Current
    BY CurrentFact DEF IInv, Gathering, Turns, GatheringUndisturbed, ownerVars, Current
<1>2. /\ serialize_next_[Current] \in 1 .. End
      /\ serialize_next_'[Current] = serialize_next_[Current] + 1
    BY <1>1 DEF IInv, Gathering, ProfilerTypeOK
<1>3. used \in Nat /\ HeaderSize \in Nat /\ SendSize \in Nat /\ EntrySize \in Nat
    BY SizeFact DEF IInv, Gathering
<1>4. serialize_next_[Current] - 1 \in Nat
    BY <1>2, EndFact
<1>5. /\ (serialize_next_[Current] - 1) * EntrySize \in Nat
      /\ (serialize_next_[Current] - 1 + 1) * EntrySize
             = (serialize_next_[Current] - 1) * EntrySize + EntrySize
    BY <1>3, <1>4, NextProduct, Product
<1>6. used' <= HeaderSize + SendSize + (serialize_next_[Current] - 1 + 1) * EntrySize
  <2>1. used <= HeaderSize + SendSize + (serialize_next_[Current] - 1) * EntrySize
      BY DEF Roomy
  <2>2. used' = used \/ used' = used + EntrySize
      OBVIOUS
  <2> HIDE DEF SerializeEvent
  <2> QED BY <1>3, <1>5, <2>1, <2>2
<1>7. serialize_next_'[Current'] - 1 = serialize_next_[Current] - 1 + 1
    BY <1>1, <1>2, EndFact
<1>8. Roomy'
    BY <1>6, <1>7 DEF Roomy
<1>9. Whole' /\ Tracked' /\ Slotted'
    BY DEF Whole, Tracked, Slotted, Traced
<1>10. Written'
    BY <1>1 DEF Written, Traced, MayJoin
<1> QED BY <1>8, <1>9, <1>10

\* ... and is sent once the channel is complete.
LEMMA SendMap ==
    ASSUME IInv, OneBuffer, Roomy, Whole, Traced, SendBuffer
    PROVE  Roomy' /\ Whole' /\ Tracked' /\ Slotted' /\ Written' /\ Sent'
<1> USE DEF SendBuffer
<1>1. serialize_next_[Current] = End
    BY FitsFact DEF More
<1>2. Whole'
    BY <1>1 DEF Whole, IInv, ChannelsComplete, dataVars
<1>3. Roomy' /\ Written' /\ Tracked' /\ Slotted'
    BY DEF Roomy, Written, Tracked, Slotted, Traced, dataVars
<1>4. Datagram.sender \in Names /\ MayJoin(Datagram.sender, Datagram.group)
  <2>1. Datagram.sender = buffer.sender /\ Datagram.group = Current
      BY DEF Datagram
  <2> QED BY <2>1 DEF Written, Traced
<1>5. inTransit' \subseteq inTransit \cup {Datagram}
    BY DEF SendToUDP
<1>6. Sent'
    BY <1>4, <1>5 DEF Sent, Traced, MayJoin
<1> QED BY <1>2, <1>3, <1>6

LEMMA GatherMap ==
    ASSUME IInv, OneBuffer, Roomy, Whole, Traced, phase # "none", GatherNSend
    PROVE  Roomy' /\ Whole' /\ Tracked' /\ Slotted' /\ Written' /\ Sent'
<1>1. CASE UNCHANGED inTransit /\ Roomy' /\ Whole' /\ Tracked' /\ Slotted' /\ Written'
    BY <1>1 DEF Sent, Traced, MayJoin
<1>2. CASE BeginChannel
    BY <1>1, <1>2, BeginMap
<1>3. CASE ContinueChannel
  <2>1. Current \in Channels
      BY <1>3, CurrentFact DEF IInv, ContinueChannel
  <2> QED BY <1>3, <2>1 DEF ContinueChannel, Whole
<1>4. CASE SerializeEvent
    BY <1>1, <1>4, SerializeMap
<1>5. CASE SendBuffer
    BY <1>5, SendMap
<1>6. CASE Leave
    BY <1>6 DEF Leave, dataVars, Roomy, Whole, Tracked, Slotted, Written, Sent, Traced, MayJoin
<1> QED BY <1>2, <1>3, <1>4, <1>5, <1>6 DEF GatherNSend

\* While nobody gathers, nothing is written.
LEMMA RestMap ==
    ASSUME IInv, Roomy, Whole, Traced, phase = "none", phase' # "fill",
           UNCHANGED <<tracking, inTransit>>,
           \A c \in Channels : serialize_next_'[c] \in {serialize_next_[c], End},
           \A x \in Channels \X Names : senders_'[x] \in {senders_[x], 0}
    PROVE  Roomy' /\ Whole' /\ Tracked' /\ Slotted' /\ Written' /\ Sent'
<1>1. Roomy' /\ Written' /\ Tracked' /\ Sent'
    BY DEF Roomy, Written, Tracked, Sent, Traced, MayJoin
<1>2. Whole'
    BY DEF Whole
<1>3. Slotted'
  <2> SUFFICES ASSUME NEW c \in Channels, NEW n \in Names, senders_'[<<c, n>>] > 0
               PROVE  <<n, c>> \in Pipeline
      BY DEF Slotted
  <2>1. senders_'[<<c, n>>] = senders_[<<c, n>>]
      BY <<c, n>> \in Channels \X Names
  <2> QED BY <2>1 DEF Slotted, Traced
<1> QED BY <1>1, <1>2, <1>3

LEMMA OwnerMap ==
    ASSUME IInv, Roomy, Whole, Traced, SleepNWork \/ Owner
    PROVE  Roomy' /\ Whole' /\ Tracked' /\ Slotted' /\ Written' /\ Sent'
<1> USE DEF IInv, Gathering, Turns
<1>1. CASE UNCHANGED <<gatherVars, dataVars, tracking, inTransit, profile_data_>>
    BY <1>1 DEF gatherVars, dataVars, Roomy, Whole, Tracked, Slotted, Written, Sent, Traced,
                MayJoin, Current
<1>2. CASE SleepNWork
  <2>1. CASE UNCHANGED gatherVars
      BY <1>1, <1>2, <2>1 DEF SleepNWork, ownerVars
  <2>2. CASE Enter
      BY <1>2, <2>2, RestMap DEF SleepNWork, Enter, dataVars
  <2> QED BY <1>2, <2>1, <2>2 DEF SleepNWork
<1>3. ASSUME NEW c \in Channels, AddProfileData(c)
      PROVE  Roomy' /\ Whole' /\ Tracked' /\ Slotted' /\ Written' /\ Sent'
    BY <1>3, RestMap DEF AddProfileData, gatherVars, dataVars
<1>4. ASSUME NEW c \in Channels, RemoveProfileData(c)
      PROVE  Roomy' /\ Whole' /\ Tracked' /\ Slotted' /\ Written' /\ Sent'
  <2>1. /\ phase = "none" /\ phase' = "none"
        /\ UNCHANGED <<tracking, inTransit>>
      BY <1>4 DEF RemoveProfileData, gatherVars
  <2>2. \A d \in Channels : serialize_next_'[d] \in {serialize_next_[d], End}
      BY <1>4 DEF RemoveProfileData, ProfilerTypeOK
  <2>3. \A x \in Channels \X Names : senders_'[x] \in {senders_[x], 0}
      BY <1>4 DEF RemoveProfileData
  <2> QED BY <2>1, <2>2, <2>3, RestMap
<1>5. CASE Start \/ Stop \/ Join
    BY <1>1, <1>5 DEF Start, Stop, Join, ownerVars
<1>6. CASE GatherManually
    BY <1>6, RestMap DEF GatherManually, Enter, dataVars
<1> QED BY <1>2, <1>3, <1>4, <1>5, <1>6 DEF Owner

\* The analyzer draws what a datagram says.
LEMMA LinkMap ==
    ASSUME Roomy, Whole, Traced, NEW d \in inTransit, Lose(d) \/ Deliver(d)
    PROVE  Roomy' /\ Whole' /\ Traced'
<1>1. /\ UNCHANGED <<dataVars, tracking, gatherVars, ownerVars>>
      /\ inTransit' \subseteq inTransit
    BY DEF Lose, Deliver
<1>2. Roomy' /\ Whole' /\ Tracked' /\ Slotted' /\ Written' /\ Sent'
    BY <1>1 DEF gatherVars, dataVars, ownerVars, Roomy, Whole, Tracked, Slotted, Written,
                Sent, Traced, MayJoin, Current
<1>3. Drawn'
  <2>1. CASE Lose(d)
      BY <2>1 DEF Lose, analyzerVars, Drawn, Traced
  <2>2. CASE Deliver(d)
    <3>1. d.sender \in Names /\ d.sender # None /\ MayJoin(d.sender, d.group)
        BY FormatAssumption DEF Sent, Traced
    <3>2. ASSUME NEW p, p.sender = d.sender, p.group = d.group, Add(p)
          PROVE  alive' /\ channels_map' \subseteq Pipeline
      <4>1. Edges(p) \subseteq Pipeline
          BY <3>1, <3>2 DEF Edges, MayJoin
      <4> QED BY <3>1, <3>2, <4>1 DEF Add, Decode, Drawn, Traced
    <3>3. CASE d.size <= ReceiveSize
        BY <2>2, <3>2, <3>3 DEF Deliver, Receive, Drawn
    <3>4. CASE ~(d.size <= ReceiveSize)
      <4>1. AddCut(d) /\ truncated'
          BY <2>2, <3>4 DEF Deliver, Receive
      <4>2. CASE \E n \in 1 .. Len(d.events) - 1 :
                     Add([d EXCEPT !.events = SubSeq(@, 1, n)])
        <5>1. PICK n \in 1 .. Len(d.events) - 1 :
                  Add([d EXCEPT !.events = SubSeq(@, 1, n)])
            BY <4>2
        <5> DEFINE p == [d EXCEPT !.events = SubSeq(@, 1, n)]
        <5>2. p.sender = d.sender /\ p.group = d.group /\ Add(p)
            BY <5>1
        <5> HIDE DEF p
        <5> QED BY <3>2, <4>1, <5>2 DEF Drawn
      <4>3. CASE UNCHANGED channels_map
          BY <4>1, <4>3 DEF Drawn, Traced
      <4> QED BY <4>1, <4>2, <4>3 DEF AddCut
    <3> QED BY <3>3, <3>4
  <2> QED BY <2>1, <2>2
<1> QED BY <1>2, <1>3 DEF Traced

\* Nobody changes the size of the buffer, and only SendBuffer sends.
LEMMA SizesStay ==
    ASSUME [Next]_allVars
    PROVE  /\ UNCHANGED buffer_size_
           /\ inTransit' \subseteq inTransit \/ (SendBuffer /\ UNCHANGED analyzerVars)
    BY DEF Next, ProfilerNext, Log, TrackSender, Collector, SleepNWork, GatherNSend,
           BeginChannel, ContinueChannel, SerializeEvent, SendBuffer, Leave, Owner,
           AddProfileData, RemoveProfileData, Start, Stop, Join, GatherManually, Lose,
           Deliver, allVars, vars

LEMMA NextSized == ASSUME IInv, Sized, [Next]_allVars PROVE Sized'
<1>1. /\ UNCHANGED buffer_size_
      /\ inTransit' \subseteq inTransit \/ (SendBuffer /\ UNCHANGED analyzerVars)
    BY SizesStay
<1>2. ASSUME NEW d \in inTransit' PROVE d.size \in Nat /\ d.size <= buffer_size_'
  <2>1. CASE d \in inTransit
      BY <1>1, <2>1 DEF Sized
  <2>2. CASE d \notin inTransit
    <3>1. SendBuffer
        BY <1>1, <2>2
    <3>2. d = Datagram
        BY <1>2, <2>2, <3>1 DEF SendBuffer, SendToUDP
    <3>3. d.size = used
        BY <3>2 DEF Datagram
    <3> QED BY <1>1, <3>3 DEF IInv, Gathering, ProfilerTypeOK, BufferHolds
  <2> QED BY <2>1, <2>2
<1>3. ASSUME buffer_size_ <= ReceiveSize PROVE UNCHANGED truncated
  <2>1. ASSUME NEW d \in inTransit, Deliver(d) PROVE UNCHANGED truncated
    <3>1. d.size <= ReceiveSize
        BY <1>3, SizeFact, ReceiveAssumption DEF Sized, IInv, Gathering
    <3> QED BY <2>1, <3>1 DEF Deliver, Receive
  <2>2. CASE UNCHANGED analyzerVars
      BY <2>2 DEF analyzerVars
  <2> QED BY <2>1, <2>2 DEF Next, Lose, allVars
<1> QED BY <1>1, <1>2, <1>3 DEF Sized

LEMMA NextMap == ASSUME IInv, MInv, [Next]_allVars PROVE MInv'
<1>0. Sized'
    BY NextSized DEF MInv
<1> SUFFICES ASSUME OneBuffer PROVE Roomy' /\ Whole' /\ Traced'
    BY <1>0, SizesStay DEF MInv, OneBuffer
<1>1. Roomy /\ Whole /\ Traced
    BY DEF MInv
<1>2. CASE ProfilerNext /\ UNCHANGED analyzerVars
  <2>1. Roomy' /\ Whole' /\ Tracked' /\ Slotted' /\ Written' /\ Sent'
    <3>1. CASE \/ \E t \in Threads, n \in Names, c \in Channels, e \in EventTypes :
                      Log(t, n, c, e)
               \/ \E t \in Threads : TrackSender(t)
        BY <1>1, <3>1, LogMap DEF Sent, Traced, MayJoin
    <3>2. CASE SleepNWork \/ Owner
        BY <1>1, <3>2, OwnerMap
    <3>3. CASE (thread = "gathering" \/ manual) /\ GatherNSend
      <4>1. phase # "none"
          BY <3>3 DEF IInv, Gathering, Turns, GatheringUndisturbed
      <4> QED BY <1>1, <3>3, <4>1, GatherMap
    <3> QED BY <1>2, <3>1, <3>2, <3>3 DEF ProfilerNext, Collector
  <2>2. Drawn'
      BY <1>1, <1>2 DEF analyzerVars, Drawn, Traced
  <2> QED BY <2>1, <2>2 DEF Traced
<1>3. CASE \E d \in inTransit : Lose(d) \/ Deliver(d)
    BY <1>1, <1>3, LinkMap
<1>4. CASE UNCHANGED allVars
    BY <1>1, <1>4 DEF allVars, vars, analyzerVars, gatherVars, dataVars, ownerVars, Roomy,
                      Whole, Tracked, Slotted, Written, Sent, Drawn, Traced, MayJoin, Current
<1> QED BY <1>2, <1>3, <1>4 DEF Next

\* Whoever pushes into whichever channel, and whatever the link does to the
\* datagrams, each edge of the map is a push that has happened, as long as all
\* events of a channel fit into one buffer, and the analyzer goes on unless
\* recvfrom cuts a datagram, which it does not if the buffer is not larger than
\* what it reads (channels_manager.py:110-136, analyzer_server.py:67).
THEOREM MapAlwaysTrue == Spec => []MapTrue
<1>1. MonitoringInit => MInv
    BY InitMap
<1>2. IInv /\ MInv /\ [Next]_allVars => MInv'
    BY NextMap
<1>3. MInv => MapTrue
    BY DEF MInv, MapTrue, Traced, Drawn, Sized
<1> QED BY <1>1, <1>2, <1>3, AlwaysIInv, PTL DEF Spec
=============================================================================
