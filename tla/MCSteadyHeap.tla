---------------------------- MODULE MCSteadyHeap ----------------------------
(* A small instance of SteadyHeap: a tree of three levels, its last one not
   full, so that a path forced up has siblings on every level. *)
EXTENDS SteadyHeap, TLC

CONSTANTS e1, e2, e3, e4, e5

Timestamps == 0 .. 2
=============================================================================
