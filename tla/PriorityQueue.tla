--------------------------- MODULE PriorityQueue ---------------------------
(***************************************************************************)
(* A queue of elements ordered by keys that may change while an element is *)
(* in the queue.  This is what the Scheduler and Channel models take every *)
(* SteadyHeap of the code for, and what SteadyHeap is shown to implement.  *)
(***************************************************************************)
EXTENDS Integers

CONSTANTS Elements, Keys

VARIABLES members,  \* the elements in the queue
          key       \* their keys, those of the others arbitrary

vars == <<members, key>>

Earliest(e) == \A f \in members : key[e] <= key[f]

Init == members = {} /\ key \in [Elements -> Keys]

Insert(e, k) ==
    /\ e \notin members
    /\ members' = members \cup {e}
    /\ key' = [key EXCEPT ![e] = k]

RemoveFirst(e) ==
    /\ e \in members
    /\ Earliest(e)
    /\ members' = members \ {e}
    /\ UNCHANGED key

Reposition(e, k) ==
    /\ e \in members
    /\ key' = [key EXCEPT ![e] = k]
    /\ UNCHANGED members

\* Only an element whose key has changed is removed from anywhere.
Remove(e, k) ==
    /\ e \in members
    /\ k # key[e]
    /\ members' = members \ {e}
    /\ key' = [key EXCEPT ![e] = k]

Next == \E e \in Elements :
    \/ RemoveFirst(e)
    \/ \E k \in Keys : Insert(e, k) \/ Reposition(e, k) \/ Remove(e, k)

Spec == Init /\ [][Next]_vars
=============================================================================
