----------------------------- MODULE SteadyHeap -----------------------------
(***************************************************************************)
(* The binary heap in an array that all the queues of pipert are           *)
(* (src/SteadyHeap.h), and the way the scheduler uses it: an element whose *)
(* key has changed is forced to the top, popped there and pushed again,    *)
(* while the array is not a heap (SchedulerImpl.cpp:133-168).              *)
(*                                                                         *)
(* Positions count from 1, so the parent of i is i \div 2.  std::push_heap *)
(* and std::pop_heap are those of libstdc++; both move elements along one  *)
(* path of the tree, which is how they are written here.                   *)
(***************************************************************************)
EXTENDS Integers, Sequences, FiniteSetsExt, Functions

CONSTANTS Elements,  \* what the heap holds: packets, channels or states
          Keys       \* what the ordering compares: timestamps

ASSUME SteadyHeapAssumption == Keys # {} /\ Keys \subseteq Nat

VARIABLES heap_,  \* the array
          key     \* the present key of every element

vars == <<heap_, key>>

-----------------------------------------------------------------------------
\* Position i and the positions above it.
PathUp(i) ==
    LET path[n \in 0 .. i] == IF n = 0 THEN {} ELSE {n} \cup path[n \div 2]
    IN  path[i]

\* The element at i moves up to j, those in between one step down each.
MoveUp(h, i, j) ==
    [n \in DOMAIN h |-> IF n = j THEN h[i]
                        ELSE IF n > j /\ n \in PathUp(i) THEN h[n \div 2]
                        ELSE h[n]]

\* Sift up: the element at i passes every parent with a later key.
SiftUp(h, k, i) ==
    MoveUp(h, i, Max({j \in PathUp(i) : j = 1 \/ k[h[j \div 2]] <= k[h[i]]}))

std_push_heap(h, k, e) == SiftUp(Append(h, e), k, Len(h) + 1)

\* Mutant of EarlierChild: the comparison is the wrong way round.
EarlierChild_Later(h, k, i) ==
    IF 2*i + 1 \in DOMAIN h /\ k[h[2*i + 1]] > k[h[2*i]] THEN 2*i + 1 ELSE 2*i

\* The child of i with the earlier key, the right one of two equal ones.
EarlierChild(h, k, i) ==
    IF 2*i + 1 \in DOMAIN h /\ k[h[2*i + 1]] <= k[h[2*i]] THEN 2*i + 1 ELSE 2*i

\* The leaf that the earlier children lead to from the top.
EarlierLeaf(h, k) ==
    CHOOSE i \in DOMAIN h :
        /\ 2*i \notin DOMAIN h
        /\ \A n \in PathUp(i) \ {i} : EarlierChild(h, k, n) \in PathUp(i)

\* The hole at the top sinks to that leaf, as the earlier children move up, and
\* e fills it.
Sink(h, k, e) ==
    LET leaf == EarlierLeaf(h, k)
    IN  [n \in DOMAIN h |-> IF n = leaf THEN e
                            ELSE IF n \in PathUp(leaf) THEN h[EarlierChild(h, k, n)]
                            ELSE h[n]]

\* The last element goes down with the hole and is sifted up from there.
std_pop_heap(h, k) ==
    LET rest == SubSeq(h, 1, Len(h) - 1)
    IN  IF Len(h) = 1 THEN <<>>
        ELSE SiftUp(Sink(rest, k, h[Len(h)]), k, EarlierLeaf(rest, k))

\* Mutant of force_to_top: one swap with the top.
force_to_top_Swap(h, e) ==
    LET i == CHOOSE n \in DOMAIN h : h[n] = e
    IN  [h EXCEPT ![1] = e, ![i] = h[1]]

\* No comparison: the element is swapped with every parent on its way.
force_to_top(h, e) == MoveUp(h, CHOOSE i \in DOMAIN h : h[i] = e, 1)

\* Mutant of force_pop_heap: the element is moved to the top and left there.
force_pop_heap_Keeps(h, k, e) == force_to_top(h, e)

force_pop_heap(h, k, e) == std_pop_heap(force_to_top(h, e), k)

-----------------------------------------------------------------------------
\* push_heap of an element that is not in the heap (JobsArrived, Reenable,
\* ChannelImpl::Push).
Insert(e, n) ==
    /\ e \notin Range(heap_)
    /\ key' = [key EXCEPT ![e] = n]
    /\ heap_' = std_push_heap(heap_, key', e)

\* pop_heap of the front (RunTasks, PopNext).
RemoveFirst ==
    /\ heap_ # <<>>
    /\ heap_' = std_pop_heap(heap_, key)
    /\ UNCHANGED key

\* The key of an element changes, then force_pop_heap and push_heap
\* (JobsUpdated).
Reposition(e, n) ==
    /\ e \in Range(heap_)
    /\ key' = [key EXCEPT ![e] = n]
    /\ heap_' = std_push_heap(force_pop_heap(heap_, key', e), key', e)

\* The key of an element changes, then force_pop_heap alone (JobsDropped).
Remove(e, n) ==
    /\ e \in Range(heap_)
    /\ n # key[e]
    /\ key' = [key EXCEPT ![e] = n]
    /\ heap_' = force_pop_heap(heap_, key', e)

Init == heap_ = <<>> /\ key \in [Elements -> Keys]

Next ==
    \/ RemoveFirst
    \/ \E e \in Elements, n \in Keys :
        Insert(e, n) \/ Reposition(e, n) \/ Remove(e, n)

Spec == Init /\ [][Next]_vars

-----------------------------------------------------------------------------
(* Properties *)

\* The array holds elements, each of them once: a reposition neither loses
\* nor doubles one.
TypeOK ==
    /\ heap_ \in Seq(Elements)
    /\ IsInjective(heap_)
    /\ key \in [Elements -> Keys]

\* No element has an earlier key than its parent, although force_to_top shifts
\* a whole path without looking at a key and the pop that follows compares
\* elements of a heap with a changed one on top (SteadyHeap.h:80-100).
HeapOrdered ==
    \A i \in 2 .. Len(heap_) : key[heap_[i \div 2]] <= key[heap_[i]]

\* The heap is a priority queue: what is removed is the element asked for or
\* the earliest, and nothing else goes with it.
Queue == INSTANCE PriorityQueue WITH members <- Range(heap_)

ImplementsPriorityQueue == Queue!Spec
=============================================================================
