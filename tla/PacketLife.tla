----------------------------- MODULE PacketLife -----------------------------
(***************************************************************************)
(* The phases a packet of a pool goes through (Packet.h:22-30): it is      *)
(* Free, BeingFilled by the client that acquired it, Queued, BeingProcessed*)
(* by whoever got it from the queue, and Free again; an Acquire that finds *)
(* no free packet may send a queued one straight back to the pool.  There  *)
(* is no other phase and no other way from one to the next.                *)
(***************************************************************************)
CONSTANT Packets

VARIABLE phase

Phases == {"Free", "BeingFilled", "Queued", "BeingProcessed", "BeingDropped"}

Steps == {<<"Free", "BeingFilled">>, <<"BeingFilled", "Queued">>,
          <<"Queued", "BeingProcessed">>, <<"BeingProcessed", "Free">>,
          <<"Queued", "BeingDropped">>, <<"BeingDropped", "Free">>}

Init == phase = [p \in Packets |-> "Free"]

\* One packet takes one step.
Advance(p) ==
    \E step \in Steps : /\ phase[p] = step[1]
                        /\ phase' = [phase EXCEPT ![p] = step[2]]

Next == \E p \in Packets : Advance(p)

Spec == Init /\ [][Next]_phase
=============================================================================
