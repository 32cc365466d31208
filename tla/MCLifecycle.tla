---------------------------- MODULE MCLifecycle ----------------------------
(* A small instance of Lifecycle: the pools of two channels. *)
EXTENDS Lifecycle, TLC

CONSTANTS f1, f2, f3,   \* front ends
          i1, i2,       \* implementations
          r1, r2,       \* receivers
          p1, p2, p3    \* slots

Pools == p1 :> i1 @@ p2 :> i1 @@ p3 :> i2
=============================================================================
