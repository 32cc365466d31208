--------------------------- MODULE MCLogAggregate ---------------------------
(* A small instance of LogAggregate, where 1 is the least positive double. *)
EXTENDS LogAggregate

CONSTANTS t1, t2, t3

Measured == {0, 4}
=============================================================================
