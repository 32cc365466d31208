----------------------------- MODULE MCChannel -----------------------------
(* Small instances of Channel. *)
EXTENDS Channel, TLC

CONSTANTS p1, p2, p3, t1, t2, t3

\* Slots and threads are interchangeable.
Slots == Permutations(Packets)
Clients == Permutations(Threads)
Interchange == Slots \cup Clients
=============================================================================
