---------------------------- MODULE WakeupProofs ----------------------------
(***************************************************************************)
(* No wake-up of the scheduler is lost, for any number of workers, channels*)
(* and monitor objects, as long as every node is stateful.  The argument   *)
(* counts: a step that queues a state sends a worker on its way or is made *)
(* by one that goes there itself, a worker that takes a job takes its      *)
(* state out of the queue, and a worker falls asleep only while it knows   *)
(* the queue to be empty, which the mutex it holds keeps true.             *)
(***************************************************************************)
EXTENDS SchedulerProofs, FiniteSetTheorems

\* A worker about to wait has seen state_queue_ empty and holds the mutex
\* since (SchedulerImpl.cpp:195-199).
SleepsOnEmpty == \A w \in Workers : pc[w] = "towait" => StateQueueEmpty

Wakeups == SleepsOnEmpty /\ WorkConserving

\* Removing elements from the first of two finite sets and adding to the other
\* keeps the first the smaller.
LEMMA CardinalityKept ==
    ASSUME NEW A, NEW B, NEW A2, NEW B2, IsFiniteSet(A), IsFiniteSet(B2),
           Cardinality(A) <= Cardinality(B), A2 \subseteq A, B \subseteq B2
    PROVE  Cardinality(A2) <= Cardinality(B2)
<1>1. IsFiniteSet(B) /\ Cardinality(B) <= Cardinality(B2)
    BY FS_Subset
<1>2. IsFiniteSet(A2) /\ Cardinality(A2) <= Cardinality(A)
    BY FS_Subset
<1>. QED
    BY <1>1, <1>2, FS_CardinalityType

\* So does adding an element to each.
LEMMA CardinalityBothGrow ==
    ASSUME NEW A, NEW B, NEW A2, NEW B2, NEW s, NEW w,
           IsFiniteSet(A), IsFiniteSet(B2), Cardinality(A) <= Cardinality(B),
           A2 \subseteq A \cup {s}, w \notin B, B \cup {w} \subseteq B2
    PROVE  Cardinality(A2) <= Cardinality(B2)
<1>1. IsFiniteSet(B)
    BY FS_Subset
<1>2. Cardinality(B \cup {w}) = Cardinality(B) + 1
    BY <1>1, FS_AddElement
<1>3. IsFiniteSet(A \cup {s}) /\ Cardinality(A \cup {s}) <= Cardinality(A) + 1
  <2>1. Cardinality(A) \in Nat
      BY FS_CardinalityType
  <2>2. IsFiniteSet(A \cup {s})
        /\ Cardinality(A \cup {s}) \in {Cardinality(A), Cardinality(A) + 1}
      BY FS_AddElement
  <2>. QED BY <2>1, <2>2
<1>4. /\ Cardinality(A) \in Nat /\ Cardinality(B) \in Nat
      /\ Cardinality(A \cup {s}) \in Nat
    BY <1>1, <1>3, FS_CardinalityType
<1>5. Cardinality(A \cup {s}) <= Cardinality(B \cup {w})
    BY <1>2, <1>3, <1>4
<1>. QED
    BY <1>3, <1>5, CardinalityKept

\* So does removing an element from each.
LEMMA CardinalityBothShrink ==
    ASSUME NEW A, NEW B, NEW A2, NEW B2, NEW s \in A, NEW w \in B,
           IsFiniteSet(A), IsFiniteSet(B), Cardinality(A) <= Cardinality(B),
           A2 \subseteq A \ {s}, IsFiniteSet(B2), B \ {w} \subseteq B2
    PROVE  Cardinality(A2) <= Cardinality(B2)
<1>1. /\ IsFiniteSet(A \ {s}) /\ Cardinality(A \ {s}) = Cardinality(A) - 1
      /\ IsFiniteSet(B \ {w}) /\ Cardinality(B \ {w}) = Cardinality(B) - 1
    BY FS_RemoveElement
<1>2. Cardinality(A \ {s}) <= Cardinality(B \ {w})
    BY <1>1, FS_CardinalityType
<1>. QED
    BY <1>1, <1>2, CardinalityKept

\* The sets counted are finite when the workers and monitor objects are.
LEMMA CountsFinite ==
    ASSUME IsFiniteSet(Workers), IsFiniteSet(States)
    PROVE  /\ IsFiniteSet(StatesQueued) /\ IsFiniteSet(Searching)
           /\ IsFiniteSet(StatesQueued') /\ IsFiniteSet(Searching')
BY FS_Subset DEF StatesQueued, Searching

\* What is common to the steps below: workers and states are finite, the
\* invariants proved before hold, and nobody that keeps running falls asleep.
Calm ==
    /\ IsFiniteSet(Workers) /\ IsFiniteSet(States)
    /\ TypeOK /\ QueuesInOrder /\ WorkersOK /\ WorkConserving
    /\ keepRunning' => keepRunning
    /\ Waiting' \subseteq Waiting

\* Steps that queue no state and stop no searching worker.
LEMMA QuietConserves ==
    ASSUME Calm, StatesQueued' \subseteq StatesQueued,
           Searching \subseteq Searching'
    PROVE  WorkConserving'
BY CountsFinite, CardinalityKept DEF Calm, WorkConserving

\* Steps that may queue state s and make worker w search.
LEMMA ArrivalConserves ==
    ASSUME Calm, NEW s, NEW w, StatesQueued' \subseteq StatesQueued \cup {s},
           w \notin Searching, Searching \cup {w} \subseteq Searching'
    PROVE  WorkConserving'
BY CountsFinite, CardinalityBothGrow DEF Calm, WorkConserving

\* Push: whenever the state is queued or moved a sleeper is notified, if any
\* (JobsArrived, JobsUpdated).
LEMMA PushConserves ==
    ASSUME IsFiniteSet(Workers), IsFiniteSet(States), TypeOK, QueuesInOrder,
           WorkersOK, WorkConserving, NEW p \in Packets, NEW t \in Times,
           Push(p, t)
    PROVE  WorkConserving'
<1>. DEFINE s == StateOf[ChannelOf[p]]
<1>1. \/ UNCHANGED <<stateKey, pc>>
      \/ NotifyOne /\ \E k : stateKey' = [stateKey EXCEPT ![s] = k]
    BY DEF Push, JobsArrived, JobsUpdatedByPush
<1>2. \A w \in Workers : \/ pc'[w] = pc[w]
                         \/ pc[w] = "waiting" /\ pc'[w] = "enter"
    BY <1>1, NotifyOneQuiet
<1>3. Calm /\ Searching \subseteq Searching'
    BY <1>2 DEF Calm, Push, Waiting, Searching
<1>4. CASE UNCHANGED <<stateKey, pc>>
    BY <1>3, <1>4, QuietConserves DEF StatesQueued
<1>5. CASE NotifyOne /\ \E k : stateKey' = [stateKey EXCEPT ![s] = k]
  <2>1. StatesQueued' \subseteq StatesQueued \cup {s}
      BY <1>5 DEF StatesQueued, TypeOK
  <2>2. CASE Waiting = {}
      BY <1>3, <2>2 DEF Calm, WorkConserving
  <2>3. CASE Waiting # {}
    <3>1. PICK w \in Waiting : pc' = [pc EXCEPT ![w] = "enter"]
        BY <1>5, <2>3 DEF NotifyOne
    <3>2. w \notin Searching /\ Searching \cup {w} \subseteq Searching'
        BY <1>3, <3>1 DEF Searching, Waiting, TypeOK
    <3>. QED BY <1>3, <2>1, <3>2, ArrivalConserves
  <2>. QED BY <2>2, <2>3
<1>. QED BY <1>1, <1>4, <1>5

\* Drop: a state whose front packet is dropped was in state_queue_ or is
\* disabled, and stays out in the latter case (JobsUpdated, JobsDropped).
LEMMA DropConserves ==
    ASSUME IsFiniteSet(Workers), IsFiniteSet(States), TypeOK, QueuesInOrder,
           WorkersOK, WorkConserving, NEW c \in Channels, Drop(c)
    PROVE  WorkConserving'
<1>. DEFINE s == StateOf[c]
<1>1. PICK p \in FrontPackets(c), top \in FrontChannels(channelKey, s) :
            PopNext(p, top, c, enabled, stateKey)
    BY DEF Drop
<1>2. \/ UNCHANGED stateKey
      \/ enabled[s] /\ \E k : stateKey' = [stateKey EXCEPT ![s] = k]
    BY <1>1 DEF PopNext, JobsDropped, JobsUpdatedByPop, MovesState
<1>3. s \in States
    BY ConstantTypes
<1>4. enabled[s] => s \in StatesQueued
    BY <1>1, <1>3 DEF QueuesInOrder, FrontChannels, StatesQueued
<1>5. StatesQueued' \subseteq StatesQueued
    BY <1>2, <1>4 DEF StatesQueued, TypeOK
<1>6. Calm /\ Searching \subseteq Searching'
    BY DEF Calm, Drop, Waiting, Searching
<1>. QED BY <1>5, <1>6, QuietConserves

\* Take: the worker stops searching and its state leaves state_queue_, which
\* a stateless one would not (SchedulerImpl.cpp:208-214).
LEMMA TakeConserves ==
    ASSUME IsFiniteSet(Workers), IsFiniteSet(States), Stateless \notin States,
           TypeOK, QueuesInOrder, WorkersOK, WorkConserving,
           NEW w \in Workers, Take(w)
    PROVE  WorkConserving'
<1>. PICK s \in FrontStates : \E c \in FrontChannels(channelKey, s) :
        \E p \in FrontPackets(c) : TakeFront(w, s, c, p)
    BY DEF Take
<1>. PICK c \in FrontChannels(channelKey, s) :
        \E p \in FrontPackets(c) : TakeFront(w, s, c, p)
    OBVIOUS
<1>1. PICK p \in FrontPackets(c) : TakeFront(w, s, c, p)
    OBVIOUS
<1>2. s \in StatesQueued /\ s \in States /\ s # Stateless /\ StateOf[c] = s
    BY DEF FrontStates, FrontChannels, ChannelsOf, StatesQueued
<1>3. ~Disabled(s)[s] /\ Dequeued(s) = [stateKey EXCEPT ![s] = kMaxTime]
    BY <1>2 DEF Disabled, Dequeued, TypeOK
<1>4. stateKey' = [stateKey EXCEPT ![s] = kMaxTime]
    BY <1>1, <1>2, <1>3
    DEF TakeFront, PopNext, JobsDropped, JobsUpdatedByPop, MovesState
<1>5. StatesQueued' \subseteq StatesQueued \ {s}
    BY <1>2, <1>4 DEF StatesQueued, TypeOK
<1>6. w \in Searching /\ Searching \ {w} \subseteq Searching'
    BY DEF Take, Goto, Searching, TypeOK
<1>7. Waiting' \subseteq Waiting /\ (keepRunning' => keepRunning)
    BY DEF Take, Goto, Waiting, TypeOK
<1>. QED
    BY <1>2, <1>5, <1>6, <1>7, CountsFinite, CardinalityBothShrink
    DEF WorkConserving

\* Reenable: the worker that queues its state goes for it itself, the reason
\* SchedulerImpl.cpp:232-233 gives for not notifying.
LEMMA ReenableConserves ==
    ASSUME IsFiniteSet(Workers), IsFiniteSet(States), TypeOK, QueuesInOrder,
           WorkersOK, WorkConserving, NEW w \in Workers, Reenable(w)
    PROVE  WorkConserving'
<1>1. Calm
    BY DEF Calm, Reenable, Goto, Waiting, TypeOK
<1>2. StatesQueued' \subseteq StatesQueued \cup {state[w]}
    BY DEF Reenable, StatesQueued, TypeOK
<1>3. w \notin Searching /\ Searching \cup {w} \subseteq Searching'
    BY DEF Reenable, Goto, Searching, TypeOK
<1>. QED BY <1>1, <1>2, <1>3, ArrivalConserves

\* The worker's other steps: it sleeps only on an empty queue and gives up only
\* when told to stop.
LEMMA OtherConserves ==
    ASSUME IsFiniteSet(Workers), IsFiniteSet(States), TypeOK, QueuesInOrder,
           WorkersOK, Wakeups, NEW w \in Workers,
           \/ TestKeepRunning(w) \/ FindNothing(w) \/ Wait(w) \/ GiveUp(w)
           \/ Execute(w) \/ SpuriousWakeup(w)
    PROVE  WorkConserving'
<1>1. CASE FindNothing(w) \/ Wait(w)
  <2>1. StateQueueEmpty /\ UNCHANGED stateKey
      BY <1>1 DEF FindNothing, Wait, Wakeups, SleepsOnEmpty
  <2>2. StatesQueued' = {}
      BY <2>1 DEF StatesQueued, StateQueueEmpty
  <2>3. Cardinality(StatesQueued') = 0 /\ Cardinality(Searching') \in Nat
      BY <2>2, FS_EmptySet, CountsFinite, FS_CardinalityType
  <2>. QED BY <2>3 DEF WorkConserving
<1>2. CASE ~keepRunning /\ UNCHANGED keepRunning
    BY <1>2 DEF WorkConserving
<1>3. CASE /\ keepRunning
           /\ TestKeepRunning(w) \/ Execute(w) \/ SpuriousWakeup(w)
  <2>1. /\ UNCHANGED <<stateKey, keepRunning>>
        /\ \A v \in Workers : v # w => pc'[v] = pc[v]
        /\ pc'[w] # "waiting"
        /\ pc[w] \in {"loop", "enter"} => pc'[w] \in {"loop", "enter"}
      BY <1>3 DEF TestKeepRunning, Execute, SpuriousWakeup, Goto, TypeOK
  <2>2. Calm /\ Searching \subseteq Searching'
      BY <2>1 DEF Calm, Waiting, Searching, Wakeups
  <2>. QED BY <2>1, <2>2, QuietConserves DEF StatesQueued
<1>. QED
    BY <1>1, <1>2, <1>3
    DEF TestKeepRunning, GiveUp, Execute, SpuriousWakeup, TypeOK

\* The owner's steps: nobody sleeps after Start and after notify_all, and
\* nobody has to work after a stop request (SchedulerImpl.cpp:71-106).
LEMMA OwnerConserves ==
    ASSUME IsFiniteSet(Workers), IsFiniteSet(States), TypeOK, QueuesInOrder,
           WorkersOK, WorkConserving, Start \/ Stop \/ UNCHANGED vars
    PROVE  WorkConserving'
<1>1. CASE Start \/ StopNotifyAll
  <2>1. Waiting' = {}
      BY <1>1 DEF Start, StopNotifyAll, Waiting, TypeOK
  <2>. QED BY <2>1 DEF WorkConserving
<1>2. CASE StopRequest
    BY <1>2 DEF StopRequest, WorkConserving
<1>3. CASE StopJoined \/ UNCHANGED vars
    BY <1>3 DEF StopJoined, vars, WorkConserving, Waiting, StatesQueued, Searching
<1>. QED BY <1>1, <1>2, <1>3 DEF Stop

\* While a worker is about to wait it holds the mutex, and no step that
\* touches state_queue_ is possible without it.
LEMMA SleepsStep ==
    ASSUME TypeOK, WorkersOK, SleepsOnEmpty, [Next]_vars
    PROVE  SleepsOnEmpty'
<1>1. CASE \E w \in Workers : Worker(w) \/ SpuriousWakeup(w)
  <2>1. PICK w \in Workers : Worker(w) \/ SpuriousWakeup(w)
      BY <1>1
  <2>2. \A v \in Workers : v # w => pc'[v] = pc[v]
      BY <2>1 DEF Worker, TestKeepRunning, FindNothing, Wait, GiveUp, Take,
                  Execute, Reenable, SpuriousWakeup, Goto, TypeOK
  <2>3. CASE mutex = NoThread
    <3>1. \A v \in Workers : pc[v] # "towait"
        BY <2>3, SchedulerAssumption
        DEF SchedulerAssumption, WorkersOK, WorkersInStep
    <3>2. pc'[w] = "towait" => StateQueueEmpty /\ UNCHANGED stateKey
        BY <2>1, <3>1
        DEF Worker, TestKeepRunning, FindNothing, Wait, GiveUp, Take, Execute,
            Reenable, SpuriousWakeup, Goto, TypeOK
    <3>. QED BY <2>2, <3>1, <3>2 DEF SleepsOnEmpty, StateQueueEmpty
  <2>4. CASE mutex # NoThread
    <3>1. UNCHANGED stateKey /\ pc'[w] # "towait"
        BY <2>1, <2>4
        DEF Worker, TestKeepRunning, FindNothing, Wait, GiveUp, Take, Execute,
            Reenable, SpuriousWakeup, Goto, TypeOK
    <3>. QED BY <2>2, <3>1 DEF SleepsOnEmpty, StateQueueEmpty
  <2>. QED BY <2>3, <2>4
<1>2. CASE Client
  <2>1. mutex = NoThread /\ (NotifyOne \/ UNCHANGED pc)
      BY <1>2 DEF Client, Push, Drop, JobsArrived, JobsUpdatedByPush
  <2>2. \A v \in Workers : pc[v] # "towait"
      BY <2>1, SchedulerAssumption
      DEF SchedulerAssumption, WorkersOK, WorkersInStep
  <2>3. \A v \in Workers : pc'[v] # "towait"
      BY <2>1, <2>2, NotifyOneQuiet
  <2>. QED BY <2>3 DEF SleepsOnEmpty
<1>3. CASE Start \/ Stop \/ UNCHANGED vars
  <2>1. UNCHANGED stateKey
        /\ \A v \in Workers : pc'[v] = "towait" => pc[v] = "towait"
      BY <1>3 DEF Start, Stop, StopRequest, StopNotifyAll, StopJoined, vars
  <2>. QED BY <2>1 DEF SleepsOnEmpty, StateQueueEmpty
<1>. QED BY <1>1, <1>2, <1>3 DEF Next

\* Wakeups is inductive relative to what SchedulerProofs shows.
LEMMA WakeupsStep ==
    ASSUME IsFiniteSet(Workers), IsFiniteSet(States), Stateless \notin States
    PROVE  TypeOK /\ QueuesInOrder /\ WorkersOK /\ Wakeups /\ [Next]_vars => Wakeups'
<1>. SUFFICES ASSUME TypeOK, QueuesInOrder, WorkersOK, Wakeups, [Next]_vars
              PROVE  Wakeups'
    OBVIOUS
<1>1. SleepsOnEmpty'
    BY SleepsStep DEF Wakeups
<1>2. ASSUME NEW w \in Workers, Worker(w) \/ SpuriousWakeup(w)
      PROVE  WorkConserving'
    BY <1>2, TakeConserves, ReenableConserves, OtherConserves
    DEF Worker, Wakeups
<1>3. CASE Client
    BY <1>1, <1>3, PushConserves, DropConserves DEF Client, Wakeups
<1>4. CASE Start \/ Stop \/ UNCHANGED vars
    BY <1>1, <1>4, OwnerConserves DEF Wakeups
<1>. QED BY <1>1, <1>2, <1>3, <1>4 DEF Next, Wakeups

\* With finitely many workers and nodes, all of them stateful, no worker sleeps
\* while more states have work than there are workers on their way to it: the
\* notify_one calls of JobsArrived and JobsUpdated are enough, the one left out
\* at SchedulerImpl.cpp:232-233 included.
THEOREM NoWakeupLost ==
    ASSUME IsFiniteSet(Workers), IsFiniteSet(States), Stateless \notin States
    PROVE  Spec => []WorkConserving
<1>1. Init => Wakeups
    BY DEF Init, Wakeups, SleepsOnEmpty, WorkConserving
<1>2. TypeOK /\ QueuesInOrder /\ WorkersOK /\ Wakeups /\ [Next]_vars => Wakeups'
    BY WakeupsStep
<1>3. Wakeups => WorkConserving
    BY DEF Wakeups
<1>. QED
    BY <1>1, <1>2, <1>3, TypeCorrect, QueuesAlwaysInOrder, WorkersAlwaysOK, PTL
    DEF Spec
=============================================================================
