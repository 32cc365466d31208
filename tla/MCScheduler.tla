---------------------------- MODULE MCScheduler ----------------------------
(* Small instances of Scheduler: which channel serves which monitor object,
   and how the pool slots are spread over the channels. *)
EXTENDS Scheduler, TLC

CONSTANTS w1, w2, w3,      \* workers
          ca, cb, cc,      \* channels
          x, y, nil,       \* monitor objects, nil the null pointer
          p1, p2, p3, p4   \* pool slots

\* ca and cb connect to the same node x, cc to a node of its own.
StatefulNodes == ca :> x @@ cb :> x @@ cc :> y
\* ca and cb connect to the same stateful node, cc to a stateless one.
MixedNodes == ca :> x @@ cb :> x @@ cc :> nil

SharedSlots == p1 :> ca @@ p2 :> ca @@ p3 :> cb @@ p4 :> cc
MixedSlots == p1 :> ca @@ p2 :> cb @@ p3 :> cc @@ p4 :> cc

Threads == Permutations(Workers)
=============================================================================
