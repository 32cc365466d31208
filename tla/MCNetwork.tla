----------------------------- MODULE MCNetwork -----------------------------
(* A small instance of Network. *)
EXTENDS Network

CONSTANTS p1, p2
=============================================================================
