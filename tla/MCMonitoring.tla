---------------------------- MODULE MCMonitoring ----------------------------
(* A small instance of Monitoring: callbacks of channel c1 push into c2. *)
EXTENDS Monitoring

CONSTANTS c1, c2, w1, executed

Order == <<executed, kEventPushed>>
OneEdge == {<<c1, c2>>}
Both == {<<c2, executed>>, <<c2, kEventPushed>>}
=============================================================================
