----------------------------- MODULE LogFormat -----------------------------
(***************************************************************************)
(* What the profiler and the log analyzer agree on: names, event types,    *)
(* and a datagram as the group it starts with, the sender of its SEND      *)
(* section if it has one, the types of the events that follow, and size.   *)
(***************************************************************************)
EXTENDS Integers, Sequences, FiniteSets

CONSTANTS Channels,      \* channels, each with a ProfileData of that name
          NoName,        \* "N/A"
          None,          \* no channel; no SEND section
          EventOrder,    \* the registered event types as the map iterates
          kEventPushed

\* SerializeString cuts names; they are taken to differ in what is left.
Names == Channels \cup {NoName}
EventTypes == {EventOrder[i] : i \in DOMAIN EventOrder}

ASSUME FormatAssumption ==
    /\ NoName \notin Channels
    /\ None \notin Names
    /\ EventOrder \in Seq(EventTypes)
    /\ \A i, j \in DOMAIN EventOrder : EventOrder[i] = EventOrder[j] => i = j
    /\ kEventPushed \in EventTypes
=============================================================================
