------------------------------ MODULE Dispatch ------------------------------
(***************************************************************************)
(* What the scheduled side of pipert promises its users, without queues,   *)
(* heaps, locks or threads (Scheduler.h:103-150).  Packets are submitted   *)
(* to channels; every channel serves at most one monitor object, its       *)
(* "state"; the channels without one share the state Stateless (the null   *)
(* pointer of the code).  A packet is begun only when it is the earliest   *)
(* of all the packets whose state is not being served, a state serves one  *)
(* packet at a time, and Stateless serves any number of them at once.      *)
(***************************************************************************)
EXTENDS Integers

CONSTANTS Packets,    \* the packets of all the pools
          StateOf,    \* the state each packet's channel belongs to
          ChannelOf,  \* the channel each packet belongs to
          Times,      \* the timestamps a packet can carry
          Stateless   \* the state of the channels that have no monitor object

VARIABLES queued,     \* packets waiting to be processed
          ts,         \* the timestamp of each packet
          held,       \* packets whose callback is running
          busy        \* states that may not begin another packet

vars == <<queued, ts, held, busy>>

StateOfPacket(p) == StateOf[ChannelOf[p]]

Ready == {p \in queued : StateOfPacket(p) \notin busy}

Init ==
    /\ queued = {}
    /\ ts \in [Packets -> Times]
    /\ held = {}
    /\ busy = {}

Submit(p, t) ==
    /\ p \notin queued \cup held
    /\ queued' = queued \cup {p}
    /\ ts' = [ts EXCEPT ![p] = t]
    /\ UNCHANGED <<held, busy>>

\* A full channel gives up its earliest packet.
Discard(p) ==
    /\ p \in queued
    /\ \A q \in queued : ChannelOf[q] = ChannelOf[p] => ts[p] <= ts[q]
    /\ queued' = queued \ {p}
    /\ UNCHANGED <<ts, held, busy>>

Begin(p) ==
    /\ p \in Ready
    /\ \A q \in Ready : ts[p] <= ts[q]
    /\ queued' = queued \ {p}
    /\ held' = held \cup {p}
    /\ busy' = busy \cup ({StateOfPacket(p)} \ {Stateless})
    /\ UNCHANGED ts

\* The callback returns; the packet goes back to its pool.
Return(p) ==
    /\ p \in held
    /\ held' = held \ {p}
    /\ UNCHANGED <<queued, ts, busy>>

Unblock(s) ==
    /\ s \in busy
    /\ \A p \in held : StateOfPacket(p) # s
    /\ busy' = busy \ {s}
    /\ UNCHANGED <<queued, ts, held>>

Next ==
    \/ \E p \in Packets : \/ \E t \in Times : Submit(p, t)
                          \/ Discard(p)
                          \/ Begin(p)
                          \/ Return(p)
    \/ \E s \in busy : Unblock(s)

Spec == Init /\ [][Next]_vars
=============================================================================
