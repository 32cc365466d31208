----------------------------- MODULE Monitoring -----------------------------
(***************************************************************************)
(* The profiler and the log analyzer, joined by a link that loses, repeats *)
(* and reorders the datagrams.                                             *)
(***************************************************************************)
EXTENDS Profiler, Analyzer

allVars == <<vars, analyzerVars>>

MonitoringInit == Init /\ AnalyzerInit

Lose(d) == /\ inTransit' = inTransit \ {d}
           /\ UNCHANGED <<buffer_size_, periodic, dataVars, tracking, gatherVars, ownerVars,
                          thread, manual, due, analyzerVars>>

\* The link may keep a copy.
Deliver(d) == /\ Receive(d)
              /\ inTransit' \in {inTransit, inTransit \ {d}}
              /\ UNCHANGED <<buffer_size_, periodic, dataVars, tracking, gatherVars,
                             ownerVars, thread, manual, due>>

Next == \/ ProfilerNext /\ UNCHANGED analyzerVars
        \/ \E d \in inTransit : Lose(d) \/ Deliver(d)

Spec == MonitoringInit /\ [][Next]_allVars

\* Threads that have started something go on with it, and sleeping ends.
FairSpec == /\ Spec
            /\ WF_vars(Collector)
            /\ WF_vars(manual /\ GatherNSend)
            /\ WF_vars(Join)
-----------------------------------------------------------------------------
(* The profiler *)

\* The profiler's variables have their types.
ProfilerTypeOK ==
    /\ buffer_size_ \in BufferSizes /\ periodic \in BOOLEAN
    /\ aggregates_ \in [Channels \X EventTypes -> Nat]
    /\ senders_ \in [Channels \X Names -> Nat]
    /\ serialize_next_ \in [Channels -> 1 .. End]
    /\ tracking \in [Threads -> (Names \X Channels) \cup {None}]
    /\ profile_data_ \in Seq(Channels)
    /\ next_profile_data_ \in Nat \cup {-1}
    /\ worker_shutdown_ \in BOOLEAN /\ manual \in BOOLEAN
    /\ phase \in {"none", "next", "fill"}
    /\ buffer \in [sender : Names \cup {None}, counts : [EventTypes -> Nat]]
    /\ used \in Nat
    /\ thread \in {"none", "test", "gathering"}
    /\ control \in {"stopped", "running", "joining"}
    /\ due \in [Channels \X EventTypes -> Nat]

\* Every event logged and not yet sent is in its aggregate or in the buffer of
\* its channel, once: serializing piece by piece, with the thread that logs in
\* between, neither loses nor repeats one (ProfileData.cpp:31-73).
EveryEventCounted ==
    \A c \in Channels, e \in EventTypes :
        due[<<c, e>>] = aggregates_[<<c, e>>]
                        + (IF phase = "fill" /\ c = Current THEN buffer.counts[e] ELSE 0)

\* No buffer is written past its end, however long the names: 64 bytes are
\* kept for an event (ProfileData.cpp:43, 56).
BufferHolds == used <= buffer_size_

\* Two threads are never in GatherNSend, the list that it walks is not changed
\* meanwhile, and after a Stop no collector is left (ProfilerImpl.cpp:30-100).
GatheringUndisturbed ==
    /\ ~(thread = "gathering" /\ manual)
    /\ phase = "none" <=> ~(thread = "gathering" \/ manual)
    /\ phase = "fill" => next_profile_data_ < Len(profile_data_)
    /\ control = "stopped" => thread = "none"

\* Between two gatherings no channel is left half serialized, or its next
\* first buffer would have no sender (ProfileData.cpp:51-54).
ChannelsComplete ==
    \A c \in Channels : serialize_next_[c] # End => phase # "none" /\ c = Current

\* What is logged while the scheduler and its collector run is serialized in
\* the end, whatever the owner gathers by hand (ProfilerImpl.cpp:82-109).
EverythingGathered ==
    \A x \in Logs : periodic /\ control = "running" /\ aggregates_[x] > 0
                        ~> aggregates_[x] = 0 \/ control # "running"

\* Stop returns: the collector leaves a gathering it is in, which ends as each
\* buffer takes at least one event (ProfilerImpl.cpp:73-80).
StopReturns == control = "joining" ~> control = "stopped"
-----------------------------------------------------------------------------
(* The analyzer *)

\* All that is logged of a channel fits into one buffer.
OneBuffer == HeaderSize + SendSize + (Len(EventOrder) - 1) * EntrySize
                 <= buffer_size_ - 64

\* If so, each edge of the map is a push that has happened, whatever the link
\* does, and only a datagram that was cut ends the analyzer; none is, of
\* buffers that it reads whole (channels_manager.py:110-136, analyzer_server.py:67).
MapTrue == /\ OneBuffer => channels_map \subseteq Pipeline /\ (alive \/ truncated)
           /\ buffer_size_ <= ReceiveSize => ~truncated

\* "One call fills up one buffer that can be sent through the network."
\* (ProfileData.h:61): the analyzer can read each of them.
AnalyzerSurvives == alive
=============================================================================
