------------------------------ MODULE Analyzer ------------------------------
(***************************************************************************)
(* The log analyzer at the other end of the profiler's datagrams: decodes  *)
(* each one and keeps the map of the pipeline, which channel pushes into   *)
(* which.  Nothing catches what the decoder raises, which ends the server. *)
(* It reads the first bytes of a datagram: what is longer, it has cut.     *)
(***************************************************************************)
EXTENDS LogFormat

CONSTANT ReceiveSize      \* how much of a datagram is read

\* 512 in the code: two names and at least one event, of 64 bytes, are read.
ASSUME ReceiveAssumption == ReceiveSize \in Nat /\ ReceiveSize >= 128

VARIABLES alive,          \* the server has not ended
          channels_map,   \* pairs of a sender and a receiver
          truncated       \* history: a datagram was cut

analyzerVars == <<alive, channels_map, truncated>>

AnalyzerInit == alive = TRUE /\ channels_map = {} /\ truncated = FALSE

\* The decoder takes what follows the group for its sender, whatever it is.
\* If that is the first event, the values of this one are read as an event
\* without name, one byte too many, which spoils the name of the next; if
\* there is none, reading fails at the end of the datagram.  Before that its
\* log count is decoded as text, which fails for some counts.
Decodable(d) == d.sender # None \/ Len(d.events) >= 2

Decode(d) == IF d.sender # None THEN d
             ELSE [group |-> d.group, sender |-> d.events[1],
                   events |-> SubSeq(d.events, 3, Len(d.events))]

\* Pushes of threads without a name are left out of the map.
Edges(p) == IF p.sender # NoName /\ \E i \in DOMAIN p.events : p.events[i] = kEventPushed
            THEN {<<p.sender, p.group>>} ELSE {}

\* PacketsManager.add, then ChannelsManager.add_packet.
Add(d) == /\ alive
          /\ \/ /\ d.sender = None
                /\ alive' = FALSE /\ UNCHANGED channels_map
             \/ /\ Decodable(d)
                /\ channels_map' = channels_map \cup Edges(Decode(d))
                /\ UNCHANGED alive

\* Where names make the cut fall, between two events or within one, which
\* the decoder cannot read.
AddCut(d) == \/ \E n \in 1 .. Len(d.events) - 1 :
                    Add([d EXCEPT !.events = SubSeq(@, 1, n)])
             \/ alive /\ alive' = FALSE /\ UNCHANGED channels_map

\* recvfrom, and what the server does with what it read.
Receive(d) == IF d.size <= ReceiveSize
              THEN Add(d) /\ UNCHANGED truncated
              ELSE AddCut(d) /\ truncated' = TRUE
=============================================================================
