--------------------------- MODULE SchedulerProofs ---------------------------
(***************************************************************************)
(* Proofs about Scheduler, for any number of workers, channels, monitor    *)
(* objects, packets and timestamps.                                        *)
(***************************************************************************)
EXTENDS Scheduler, WellFoundedInduction, TLAPS

(***************************************************************************)
(* The front of a heap.                                                    *)
(***************************************************************************)

\* A set of naturals that is not empty has a smallest element.
LEMMA MinOfNaturals ==
    ASSUME NEW S \in SUBSET Nat, S # {}
    PROVE  /\ Min(S) \in S
           /\ \A n \in S : Min(S) <= n
<1>1. \E R : /\ IsWellFoundedOn(R, Nat)
             /\ \A m, n \in Nat : m < n => <<m, n>> \in R
  <2>1. \A m, n \in Nat : m < n => <<m, n>> \in OpToRel(<, Nat)
    BY DEF OpToRel
  <2>. QED
    BY <2>1, NatLessThanWellFounded
<1>2. PICK R : /\ IsWellFoundedOn(R, Nat)
               /\ \A m, n \in Nat : m < n => <<m, n>> \in R
    BY <1>1
<1>3. \E m \in S : \A n \in S : <<n, m>> \notin R
  <2>1. IsWellFoundedOn(R, Nat) /\ S \subseteq Nat /\ S # {}
    BY <1>2
  <2>. QED
    BY <2>1, WFMin
<1>4. PICK m \in S : \A n \in S : ~ (n < m)
    BY <1>2, <1>3, Zenon
<1>5. \A n \in S : m <= n
    BY <1>4, SMT
<1>. QED
    BY <1>5 DEF Min

\* The front of a heap has the smallest of its keys; an empty heap has none.
LEMMA FrontKeyFacts ==
    ASSUME NEW K \in SUBSET Keys
    PROVE  /\ FrontKey(K) \in Keys
           /\ FrontKey(K) \in K \cup {kMaxTime}
           /\ \A k \in K : FrontKey(K) <= k
<1>1. /\ K \cup {kMaxTime} \in SUBSET Nat
      /\ K \cup {kMaxTime} # {}
    BY SchedulerAssumption DEF SchedulerAssumption, Keys, kMaxTime
<1>2. /\ FrontKey(K) \in K \cup {kMaxTime}
      /\ \A k \in K \cup {kMaxTime} : FrontKey(K) <= k
    BY <1>1, MinOfNaturals DEF FrontKey
<1>3. kMaxTime \in Keys
    BY SchedulerAssumption DEF SchedulerAssumption, Keys, kMaxTime
<1>. QED
    BY <1>2, <1>3

\* ... and it is the only key with these properties.
LEMMA FrontKeyUnique ==
    ASSUME NEW K \in SUBSET Keys,
           NEW k \in K \cup {kMaxTime}, \A j \in K : k <= j
    PROVE  FrontKey(K) = k
<1>1. /\ FrontKey(K) \in Keys
      /\ FrontKey(K) \in K \cup {kMaxTime}
      /\ \A j \in K : FrontKey(K) <= j
    BY FrontKeyFacts
<1>. QED
    BY <1>1, SchedulerAssumption DEF SchedulerAssumption, Keys, kMaxTime

\* PeekNext of a channel is the smallest timestamp queued in it.
LEMMA PeekNextFacts ==
    ASSUME NEW q \in SUBSET Packets, NEW t \in [Packets -> Times],
           NEW c \in Channels
    PROVE  /\ PeekNext(q, t, c) \in Keys
           /\ PeekNext(q, t, c) = kMaxTime <=> PacketsIn(q, c) = {}
           /\ PeekNext(q, t, c) # kMaxTime =>
                \E p \in PacketsIn(q, c) : PeekNext(q, t, c) = t[p]
           /\ \A p \in PacketsIn(q, c) : PeekNext(q, t, c) <= t[p]
<1>. DEFINE K == {t[p] : p \in PacketsIn(q, c)}
<1>1. K \in SUBSET Times /\ Times \subseteq Keys /\ kMaxTime \notin Times
    BY SchedulerAssumption
    DEF SchedulerAssumption, PacketsIn, Times, Keys, kMaxTime
<1>2. /\ FrontKey(K) \in Keys
      /\ FrontKey(K) \in K \cup {kMaxTime}
      /\ \A k \in K : FrontKey(K) <= k
    BY <1>1, FrontKeyFacts
<1>3. PeekNext(q, t, c) = FrontKey(K)
    BY DEF PeekNext
<1>4. K = {} <=> PacketsIn(q, c) = {}
    OBVIOUS
<1>. HIDE DEF K
<1>5. FrontKey(K) = kMaxTime <=> K = {}
  <2>1. \A k \in K : k < kMaxTime /\ k \in Int /\ FrontKey(K) <= k
    BY <1>1, <1>2, SchedulerAssumption
    DEF SchedulerAssumption, Times, kMaxTime
  <2>2. K # {} => FrontKey(K) # kMaxTime
    BY <2>1, SchedulerAssumption DEF SchedulerAssumption, kMaxTime
  <2>. QED
    BY <1>2, <2>2
<1>6. PeekNext(q, t, c) # kMaxTime => PeekNext(q, t, c) \in K
    BY <1>2, <1>3
<1>. QED
    BY <1>2, <1>3, <1>4, <1>5, <1>6 DEF K

\* The timestamp that is smallest in a channel is its PeekNext.
LEMMA PeekNextIs ==
    ASSUME NEW q \in SUBSET Packets, NEW t \in [Packets -> Times],
           NEW c \in Channels, NEW p \in PacketsIn(q, c),
           \A r \in PacketsIn(q, c) : t[p] <= t[r]
    PROVE  PeekNext(q, t, c) = t[p]
<1>. DEFINE K == {t[r] : r \in PacketsIn(q, c)}
<1>1. K \in SUBSET Keys /\ t[p] \in K /\ \A k \in K : t[p] <= k
    BY SchedulerAssumption
    DEF SchedulerAssumption, PacketsIn, Times, Keys, kMaxTime
<1>2. FrontKey(K) = t[p]
    BY <1>1, FrontKeyUnique
<1>. QED
    BY <1>2 DEF PeekNext

\* Nothing changes for a channel whose packets and timestamps do not change.
LEMMA PeekNextSame ==
    ASSUME NEW q, NEW r, NEW t, NEW u, NEW c,
           PacketsIn(q, c) = PacketsIn(r, c),
           \A p \in PacketsIn(q, c) : t[p] = u[p]
    PROVE  PeekNext(q, t, c) = PeekNext(r, u, c)
<1>1. {t[p] : p \in PacketsIn(q, c)} = {u[p] : p \in PacketsIn(r, c)}
    OBVIOUS
<1>. QED
    BY <1>1 DEF PeekNext

\* HeapKey of a state is the smallest key of its channels.
LEMMA HeapKeyFacts ==
    ASSUME NEW ck \in [Channels -> Keys], NEW s
    PROVE  /\ HeapKey(ck, s) \in Keys
           /\ HeapKey(ck, s) # kMaxTime =>
                \E c \in ChannelsOf(s) : HeapKey(ck, s) = ck[c]
           /\ \A c \in ChannelsOf(s) : HeapKey(ck, s) <= ck[c]
<1>. DEFINE K == {ck[c] : c \in ChannelsOf(s)}
<1>1. K \in SUBSET Keys
    BY DEF ChannelsOf
<1>2. /\ FrontKey(K) \in Keys
      /\ FrontKey(K) \in K \cup {kMaxTime}
      /\ \A k \in K : FrontKey(K) <= k
    BY <1>1, FrontKeyFacts
<1>3. HeapKey(ck, s) = FrontKey(K)
    BY DEF HeapKey
<1>. HIDE DEF K
<1>4. HeapKey(ck, s) # kMaxTime => HeapKey(ck, s) \in K
    BY <1>2, <1>3
<1>. QED
    BY <1>2, <1>3, <1>4 DEF K

\* A smallest key of the channels of a state is its HeapKey.
LEMMA HeapKeyIs ==
    ASSUME NEW ck \in [Channels -> Keys], NEW s, NEW c \in ChannelsOf(s),
           \A d \in ChannelsOf(s) : ck[c] <= ck[d]
    PROVE  HeapKey(ck, s) = ck[c]
<1>. DEFINE K == {ck[d] : d \in ChannelsOf(s)}
<1>1. K \in SUBSET Keys /\ ck[c] \in K /\ \A k \in K : ck[c] <= k
    BY DEF ChannelsOf
<1>2. FrontKey(K) = ck[c]
    BY <1>1, FrontKeyUnique
<1>. QED
    BY <1>2 DEF HeapKey

(***************************************************************************)
(* Types.                                                                  *)
(***************************************************************************)

\* The constants have their types and kMaxTime is later than every timestamp
\* (Timer::kMaxTime stands for an empty heap).
LEMMA ConstantTypes ==
    /\ StateOf \in [Channels -> States]
    /\ ChannelOf \in [Packets -> Channels]
    /\ Times \subseteq Keys
    /\ kMaxTime \in Keys
    /\ kMaxTime \notin Times
    /\ 0 \in Times
    /\ Keys \subseteq Nat
    /\ \A k \in Keys : k <= kMaxTime
BY SchedulerAssumption DEF SchedulerAssumption, Times, Keys, kMaxTime

\* A notification moves at most one worker, to "enter".
LEMMA NotifyOneType ==
    ASSUME pc \in [Workers -> Labels], NotifyOne
    PROVE  pc' \in [Workers -> Labels]
BY DEF NotifyOne, Labels

\* A worker that goes to one of the labels of RunTasks keeps pc typed.
LEMMA GotoType ==
    ASSUME pc \in [Workers -> Labels], NEW w \in Workers, NEW l \in Labels,
           Goto(w, l)
    PROVE  pc' \in [Workers -> Labels]
BY DEF Goto

\* ChannelImpl::Push keeps the types, whatever it tells the scheduler.
LEMMA PushType ==
    ASSUME TypeOK, NEW p \in Packets, NEW t \in Times, Push(p, t)
    PROVE  TypeOK'
<1>. DEFINE c == ChannelOf[p]
<1>1. c \in Channels /\ StateOf[c] \in States /\ t \in Keys
    BY ConstantTypes
<1>2. [channelKey EXCEPT ![c] = t] \in [Channels -> Keys]
    BY <1>1 DEF TypeOK
<1>3. HeapKey([channelKey EXCEPT ![c] = t], StateOf[c]) \in Keys
    BY <1>2, HeapKeyFacts
<1>4. /\ channelKey' \in [Channels -> Keys]
      /\ stateKey' \in [States -> Keys]
      /\ pc' \in [Workers -> Labels]
  <2>1. CASE UNCHANGED <<channelKey, stateKey, pc>>
    BY <2>1 DEF TypeOK
  <2>2. CASE JobsArrived(c, t)
    BY <1>1, <1>2, <1>3, <2>2, NotifyOneType DEF JobsArrived, TypeOK
  <2>3. CASE JobsUpdatedByPush(c, t)
    BY <1>1, <1>2, <1>3, <2>3, NotifyOneType DEF JobsUpdatedByPush, TypeOK
  <2>. QED
    BY <2>1, <2>2, <2>3 DEF Push
<1>. QED
    BY <1>4 DEF Push, TypeOK

\* ChannelImpl::PopNext keeps the types of the queue and of both kinds of keys.
LEMMA PopNextType ==
    ASSUME TypeOK, NEW c \in Channels, NEW p \in Packets, NEW top,
           NEW en, NEW sk \in [States -> Keys],
           PopNext(p, top, c, en, sk)
    PROVE  /\ queued' \in SUBSET Packets
           /\ channelKey' \in [Channels -> Keys]
           /\ stateKey' \in [States -> Keys]
<1>. DEFINE rest == queued \ {p}
            key == PeekNext(rest, ts, c)
<1>1. StateOf[c] \in States /\ rest \in SUBSET Packets /\ kMaxTime \in Keys
    BY ConstantTypes DEF TypeOK
<1>2. key \in Keys
    BY <1>1, PeekNextFacts DEF TypeOK
<1>3. \A k \in Keys :
        /\ [channelKey EXCEPT ![c] = k] \in [Channels -> Keys]
        /\ HeapKey([channelKey EXCEPT ![c] = k], StateOf[c]) \in Keys
  <2>1. \A k \in Keys : [channelKey EXCEPT ![c] = k] \in [Channels -> Keys]
    BY DEF TypeOK
  <2>. QED
    BY <2>1, HeapKeyFacts
<1>. HIDE DEF key
<1>4. CASE JobsDropped(top, c, en, sk)
    BY <1>1, <1>3, <1>4 DEF PopNext, JobsDropped
<1>5. CASE JobsUpdatedByPop(top, c, key, en, sk)
    BY <1>1, <1>2, <1>3, <1>5 DEF PopNext, JobsUpdatedByPop
<1>. QED
    BY <1>4, <1>5 DEF PopNext, key

\* Dropping the earliest packet of a full channel keeps the types.
LEMMA DropType ==
    ASSUME TypeOK, NEW c \in Channels, Drop(c)
    PROVE  TypeOK'
<1>1. PICK p \in FrontPackets(c), top \in FrontChannels(channelKey, StateOf[c]) :
            PopNext(p, top, c, enabled, stateKey)
    BY DEF Drop
<1>2. p \in Packets
    BY DEF FrontPackets, PacketsIn, TypeOK
<1>. QED
    BY <1>1, <1>2, PopNextType DEF Drop, TypeOK

\* Taking the front packet in RunTasks keeps the types.
LEMMA TakeType ==
    ASSUME TypeOK, NEW w \in Workers, Take(w)
    PROVE  TypeOK'
<1>1. PICK s \in FrontStates : \E c \in FrontChannels(channelKey, s) :
        \E p \in FrontPackets(c) : TakeFront(w, s, c, p)
    BY DEF Take
<1>2. PICK c \in FrontChannels(channelKey, s) :
        \E p \in FrontPackets(c) : TakeFront(w, s, c, p)
    BY <1>1
<1>3. PICK p \in FrontPackets(c) : TakeFront(w, s, c, p)
    BY <1>2
<1>4. s \in States /\ c \in Channels /\ p \in Packets
    BY DEF FrontStates, FrontChannels, ChannelsOf, FrontPackets, PacketsIn,
           TypeOK
<1>5. Disabled(s) \in [States -> BOOLEAN] /\ Dequeued(s) \in [States -> Keys]
    BY <1>4, ConstantTypes DEF TypeOK, Disabled, Dequeued
<1>6. PopNext(p, c, c, Disabled(s), Dequeued(s))
    BY <1>3 DEF TakeFront
<1>7. /\ queued' \in SUBSET Packets
      /\ channelKey' \in [Channels -> Keys]
      /\ stateKey' \in [States -> Keys]
    BY <1>4, <1>5, <1>6, PopNextType
<1>8. pc' \in [Workers -> Labels]
    BY GotoType DEF Take, TypeOK, Labels
<1>. QED
    BY <1>3, <1>4, <1>5, <1>7, <1>8 DEF Take, TakeFront, TypeOK

\* Enabling a state again in RunTasks keeps the types.
LEMMA ReenableType ==
    ASSUME TypeOK, NEW w \in Workers, Reenable(w)
    PROVE  TypeOK'
<1>1. HeapKey(channelKey, state[w]) \in Keys
    BY HeapKeyFacts DEF TypeOK
<1>2. pc' \in [Workers -> Labels]
    BY GotoType DEF Reenable, TypeOK, Labels
<1>. QED
    BY <1>1, <1>2 DEF Reenable, TypeOK

\* Every step of a worker in RunTasks keeps the types.
LEMMA WorkerType ==
    ASSUME TypeOK, NEW w \in Workers, Worker(w) \/ SpuriousWakeup(w)
    PROVE  TypeOK'
<1>1. CASE TestKeepRunning(w)
    BY <1>1 DEF TestKeepRunning, Goto, TypeOK, Labels
<1>2. CASE FindNothing(w)
    BY <1>2 DEF FindNothing, Goto, TypeOK, Labels
<1>3. CASE Wait(w)
    BY <1>3 DEF Wait, Goto, TypeOK, Labels
<1>4. CASE GiveUp(w)
    BY <1>4 DEF GiveUp, Goto, TypeOK, Labels
<1>5. CASE Take(w)
    BY <1>5, TakeType
<1>6. CASE Execute(w)
    BY <1>6 DEF Execute, Goto, TypeOK, Labels
<1>7. CASE Reenable(w)
    BY <1>7, ReenableType
<1>8. CASE SpuriousWakeup(w)
    BY <1>8 DEF SpuriousWakeup, Goto, TypeOK, Labels
<1>. QED
    BY <1>1, <1>2, <1>3, <1>4, <1>5, <1>6, <1>7, <1>8 DEF Worker

\* TypeOK is inductive: no call of the scheduler or of a channel breaks it.
LEMMA TypeStep == TypeOK /\ [Next]_vars => TypeOK'
<1>. SUFFICES ASSUME TypeOK, [Next]_vars
              PROVE  TypeOK'
    OBVIOUS
<1>1. CASE \E w \in Workers : Worker(w) \/ SpuriousWakeup(w)
    BY <1>1, WorkerType
<1>2. CASE \E p \in Packets, t \in Times : Push(p, t)
    BY <1>2, PushType
<1>3. CASE \E c \in Channels : Drop(c)
    BY <1>3, DropType
<1>4. CASE Start
    BY <1>4 DEF Start, TypeOK, Labels
<1>5. CASE StopRequest
    BY <1>5 DEF StopRequest, TypeOK
<1>6. CASE StopNotifyAll
    BY <1>6 DEF StopNotifyAll, TypeOK, Labels
<1>7. CASE StopJoined
    BY <1>7 DEF StopJoined, TypeOK
<1>8. CASE UNCHANGED vars
    BY <1>8 DEF vars, TypeOK
<1>. QED
    BY <1>1, <1>2, <1>3, <1>4, <1>5, <1>6, <1>7, <1>8 DEF Next, Client, Stop

\* Every variable keeps its type in every behaviour of the scheduler.
THEOREM TypeCorrect == Spec => []TypeOK
<1>1. Init => TypeOK
    BY ConstantTypes DEF Init, TypeOK, Labels
<1>. QED
    BY <1>1, TypeStep, PTL DEF Spec

(***************************************************************************)
(* The heaps are in order.                                                 *)
(***************************************************************************)

\* The effect of giving channel c the key k on the keys of the states.
LEMMA HeapKeyUpdate ==
    ASSUME NEW ck \in [Channels -> Keys], NEW c \in Channels, NEW k \in Keys,
           NEW dk, dk = [ck EXCEPT ![c] = k]
    PROVE  /\ dk \in [Channels -> Keys]
           /\ \A s \in States : s # StateOf[c] => HeapKey(dk, s) = HeapKey(ck, s)
           /\ k <= ck[c] => HeapKey(dk, StateOf[c]) <= HeapKey(ck, StateOf[c])
<1>1. dk \in [Channels -> Keys]
    OBVIOUS
<1>2. ASSUME NEW s \in States, s # StateOf[c]
      PROVE  HeapKey(dk, s) = HeapKey(ck, s)
  <2>1. \A d \in ChannelsOf(s) : dk[d] = ck[d]
    BY <1>2 DEF ChannelsOf
  <2>2. {dk[d] : d \in ChannelsOf(s)} = {ck[d] : d \in ChannelsOf(s)}
    BY <2>1
  <2>. QED
    BY <2>2 DEF HeapKey
<1>3. ASSUME k <= ck[c]
      PROVE  HeapKey(dk, StateOf[c]) <= HeapKey(ck, StateOf[c])
  <2>. DEFINE s == StateOf[c]
  <2>1. \A d \in ChannelsOf(s) : dk[d] <= ck[d]
    <3>1. \A d \in Channels : ck[d] \in Nat
      BY ConstantTypes
    <3>. QED
      BY <1>3, <3>1 DEF ChannelsOf
  <2>2. /\ HeapKey(dk, s) \in Keys
        /\ \A d \in ChannelsOf(s) : HeapKey(dk, s) <= dk[d]
    BY <1>1, HeapKeyFacts
  <2>3. /\ HeapKey(ck, s) \in Keys
        /\ HeapKey(ck, s) # kMaxTime =>
             \E d \in ChannelsOf(s) : HeapKey(ck, s) = ck[d]
    BY HeapKeyFacts
  <2>4. CASE HeapKey(ck, s) = kMaxTime
    BY <2>2, <2>4, ConstantTypes
  <2>5. CASE HeapKey(ck, s) # kMaxTime
    <3>1. PICK d \in ChannelsOf(s) : HeapKey(ck, s) = ck[d]
      BY <2>3, <2>5
    <3>2. HeapKey(dk, s) <= dk[d] /\ dk[d] <= ck[d]
      BY <2>1, <2>2
    <3>3. HeapKey(dk, s) \in Nat /\ dk[d] \in Nat /\ ck[d] \in Nat
      BY <1>1, <2>2, ConstantTypes DEF ChannelsOf
    <3>. QED
      BY <3>1, <3>2, <3>3
  <2>. QED
    BY <2>4, <2>5
<1>. QED
    BY <1>1, <1>2, <1>3

\* When JobsUpdated leaves an enabled state where it is, its key is the same.
LEMMA NotMoved ==
    ASSUME NEW ck \in [Channels -> Keys], NEW c \in Channels, NEW k \in Keys,
           NEW dk, dk = [ck EXCEPT ![c] = k],
           NEW top \in FrontChannels(ck, StateOf[c]),
           ~MovesState(top, c, dk, TRUE)
    PROVE  HeapKey(dk, StateOf[c]) = HeapKey(ck, StateOf[c])
BY DEF MovesState, FrontChannels, ChannelsOf

\* When the last packet of a channel that is not at the front is dropped, the
\* key of its state is the same.
LEMMA NotDropped ==
    ASSUME NEW ck \in [Channels -> Keys], NEW c \in Channels,
           NEW dk, dk = [ck EXCEPT ![c] = kMaxTime],
           NEW top \in FrontChannels(ck, StateOf[c]), top # c
    PROVE  HeapKey(dk, StateOf[c]) = HeapKey(ck, StateOf[c])
<1>. DEFINE s == StateOf[c]
<1>1. dk \in [Channels -> Keys]
    BY ConstantTypes
<1>2. top \in ChannelsOf(s) /\ ck[top] = HeapKey(ck, s) /\ dk[top] = ck[top]
    BY DEF FrontChannels, ChannelsOf
<1>3. \A d \in ChannelsOf(s) : dk[top] <= dk[d]
  <2>1. \A d \in ChannelsOf(s) : ck[top] <= ck[d]
    BY <1>2, HeapKeyFacts
  <2>. QED
    BY <1>2, <2>1, ConstantTypes DEF ChannelsOf
<1>4. HeapKey(dk, s) = dk[top]
    BY <1>1, <1>2, <1>3, HeapKeyIs
<1>. QED
    BY <1>2, <1>4

\* PopNext leaves the channels and the states in order, given what is enabled
\* and where the states are when it is called.
LEMMA PopNextOrder ==
    ASSUME TypeOK, QueuesInOrder,
           NEW c \in Channels, NEW p \in FrontPackets(c),
           NEW top \in FrontChannels(channelKey, StateOf[c]),
           NEW en \in [States -> BOOLEAN], NEW sk \in [States -> Keys],
           \A s \in States : sk[s] = IF en[s] THEN HeapKey(channelKey, s)
                                     ELSE kMaxTime,
           PopNext(p, top, c, en, sk)
    PROVE  /\ \A d \in Channels : channelKey'[d] = PeekNext(queued', ts, d)
           /\ \A s \in States :
                stateKey'[s] = IF en[s] THEN HeapKey(channelKey', s)
                               ELSE kMaxTime
<1>. DEFINE rest == queued \ {p}
            key == PeekNext(rest, ts, c)
            s == StateOf[c]
<1>1. /\ rest \in SUBSET Packets
      /\ s \in States
      /\ ts \in [Packets -> Times]
      /\ channelKey \in [Channels -> Keys]
      /\ p \in PacketsIn(queued, c)
    BY ConstantTypes DEF TypeOK, FrontPackets
<1>2. key \in Keys /\ (key = kMaxTime <=> PacketsIn(rest, c) = {})
    BY <1>1, PeekNextFacts
<1>3. queued' = rest
    BY DEF PopNext
<1>4. channelKey' = [channelKey EXCEPT ![c] = key]
    BY <1>2 DEF PopNext, JobsDropped, JobsUpdatedByPop
<1>5. \A d \in Channels : channelKey'[d] = PeekNext(queued', ts, d)
  <2>1. channelKey'[c] = key
    BY <1>1, <1>4
  <2>2. ASSUME NEW d \in Channels, d # c
        PROVE  channelKey'[d] = PeekNext(queued', ts, d)
    <3>1. PacketsIn(queued, d) = PacketsIn(rest, d)
      BY <1>1, <2>2 DEF PacketsIn
    <3>2. channelKey'[d] = PeekNext(queued, ts, d)
      BY <1>1, <1>4, <2>2 DEF QueuesInOrder
    <3>. QED
      BY <1>3, <3>1, <3>2 DEF PeekNext
  <2>. QED
    BY <1>3, <2>1, <2>2
<1>. HIDE DEF key
<1>6. \A r \in States : r # s =>
        HeapKey(channelKey', r) = HeapKey(channelKey, r) /\ stateKey'[r] = sk[r]
  <2>1. \A r \in States : r # s => HeapKey(channelKey', r) = HeapKey(channelKey, r)
    <3>1. \A r \in States : r # StateOf[c] =>
            HeapKey([channelKey EXCEPT ![c] = key], r) = HeapKey(channelKey, r)
      BY <1>1, <1>2, HeapKeyUpdate
    <3>. QED
      BY <1>4, <3>1
  <2>2. \A r \in States : r # s => stateKey'[r] = sk[r]
    BY DEF PopNext, JobsDropped, JobsUpdatedByPop
  <2>. QED
    BY <2>1, <2>2
<1>7. stateKey'[s] = IF en[s] THEN HeapKey(channelKey', s) ELSE kMaxTime
  <2>1. CASE ~en[s]
    <3>1. stateKey' = sk
      BY <2>1 DEF PopNext, JobsDropped, JobsUpdatedByPop, MovesState
    <3>. QED
      BY <1>1, <2>1, <3>1
  <2>2. CASE en[s] /\ stateKey' = [sk EXCEPT ![s] = HeapKey(channelKey', s)]
    BY <1>1, <2>2
  <2>3. CASE /\ en[s]
             /\ JobsDropped(top, c, en, sk)
             /\ key = kMaxTime
             /\ top # c
    <3>1. stateKey' = sk
      BY <2>3 DEF JobsDropped
    <3>2. HeapKey(channelKey', s) = HeapKey(channelKey, s)
      BY <1>1, <1>4, <2>3, NotDropped
    <3>. QED
      BY <1>1, <2>3, <3>1, <3>2
  <2>4. CASE /\ en[s]
             /\ JobsUpdatedByPop(top, c, key, en, sk)
             /\ ~MovesState(top, c, channelKey', TRUE)
    <3>1. stateKey' = sk
      BY <1>4, <2>4 DEF JobsUpdatedByPop, MovesState
    <3>2. HeapKey(channelKey', s) = HeapKey(channelKey, s)
      BY <1>1, <1>2, <1>4, <2>4, NotMoved
    <3>. QED
      BY <1>1, <2>4, <3>1, <3>2
  <2>5. CASE JobsDropped(top, c, en, sk) /\ key = kMaxTime
    BY <1>4, <2>1, <2>2, <2>3, <2>5 DEF JobsDropped
  <2>6. CASE JobsUpdatedByPop(top, c, key, en, sk)
    BY <1>4, <2>1, <2>2, <2>4, <2>6 DEF JobsUpdatedByPop, MovesState
  <2>. QED
    BY <1>2, <2>5, <2>6 DEF PopNext, key
<1>. QED
    BY <1>5, <1>6, <1>7

\* Dropping a packet leaves the heaps in order (JobsUpdated or JobsDropped).
LEMMA DropOrder ==
    ASSUME TypeOK, QueuesInOrder, NEW c \in Channels, Drop(c)
    PROVE  QueuesInOrder'
<1>1. PICK p \in FrontPackets(c), top \in FrontChannels(channelKey, StateOf[c]) :
            PopNext(p, top, c, enabled, stateKey)
    BY DEF Drop
<1>2. /\ \A d \in Channels : channelKey'[d] = PeekNext(queued', ts, d)
      /\ \A s \in States :
           stateKey'[s] = IF enabled[s] THEN HeapKey(channelKey', s)
                          ELSE kMaxTime
    BY <1>1, PopNextOrder DEF TypeOK, QueuesInOrder
<1>. QED
    BY <1>2 DEF Drop, QueuesInOrder

\* Taking a packet leaves the heaps in order, with its state disabled and out of
\* state_queue_, or stateless and repositioned (RunTasks).
LEMMA TakeOrder ==
    ASSUME TypeOK, QueuesInOrder, NEW w \in Workers, Take(w)
    PROVE  QueuesInOrder'
<1>1. PICK s \in FrontStates : \E c \in FrontChannels(channelKey, s) :
        \E p \in FrontPackets(c) : TakeFront(w, s, c, p)
    BY DEF Take
<1>2. PICK c \in FrontChannels(channelKey, s) :
        \E p \in FrontPackets(c) : TakeFront(w, s, c, p)
    BY <1>1
<1>3. PICK p \in FrontPackets(c) : TakeFront(w, s, c, p)
    BY <1>2
<1>4. s \in States /\ c \in Channels /\ StateOf[c] = s
    BY DEF FrontStates, FrontChannels, ChannelsOf
<1>5. /\ Disabled(s) \in [States -> BOOLEAN]
      /\ Dequeued(s) \in [States -> Keys]
      /\ \A r \in States :
            Dequeued(s)[r] = IF Disabled(s)[r] THEN HeapKey(channelKey, r)
                             ELSE kMaxTime
    BY <1>4, ConstantTypes DEF TypeOK, QueuesInOrder, Disabled, Dequeued
<1>6. PopNext(p, c, c, Disabled(s), Dequeued(s)) /\ enabled' = Disabled(s)
    BY <1>3 DEF TakeFront
<1>7. /\ \A d \in Channels : channelKey'[d] = PeekNext(queued', ts, d)
      /\ \A r \in States :
           stateKey'[r] = IF Disabled(s)[r] THEN HeapKey(channelKey', r)
                          ELSE kMaxTime
    BY <1>4, <1>5, <1>6, PopNextOrder
<1>. QED
    BY <1>6, <1>7 DEF Take, QueuesInOrder

\* Enabling a state puts it where its front channel belongs (RunTasks).
LEMMA ReenableOrder ==
    ASSUME TypeOK, QueuesInOrder, NEW w \in Workers, Reenable(w)
    PROVE  QueuesInOrder'
BY DEF Reenable, TypeOK, QueuesInOrder

\* Pushing a packet leaves the heaps in order (JobsArrived or JobsUpdated).
LEMMA PushOrder ==
    ASSUME TypeOK, QueuesInOrder, NEW p \in Packets, NEW t \in Times, Push(p, t)
    PROVE  QueuesInOrder'
<1>. DEFINE c == ChannelOf[p]
            s == StateOf[c]
            earliest == PeekNext(queued, ts, c)
            dk == [channelKey EXCEPT ![c] = t]
<1>1. /\ c \in Channels /\ s \in States
      /\ t \in Keys /\ t # kMaxTime
      /\ channelKey \in [Channels -> Keys]
      /\ queued' = queued \cup {p} /\ p \notin queued
      /\ ts' = [ts EXCEPT ![p] = t]
      /\ enabled' = enabled
    BY ConstantTypes DEF TypeOK, Push
<1>2. /\ queued' \in SUBSET Packets /\ ts' \in [Packets -> Times]
      /\ PacketsIn(queued', c) = PacketsIn(queued, c) \cup {p}
      /\ ts'[p] = t
      /\ \A r \in PacketsIn(queued, c) : ts'[r] = ts[r]
    BY <1>1 DEF TypeOK, PacketsIn
<1>3. /\ earliest \in Keys /\ earliest \in Nat /\ t \in Nat
      /\ earliest = kMaxTime <=> PacketsIn(queued, c) = {}
      /\ earliest # kMaxTime =>
            \E r \in PacketsIn(queued, c) : earliest = ts[r]
      /\ \A r \in PacketsIn(queued, c) : earliest <= ts[r]
      /\ channelKey[c] = earliest
    BY <1>1, PeekNextFacts, ConstantTypes DEF TypeOK, QueuesInOrder
<1>4. \A r \in PacketsIn(queued, c) : ts[r] \in Nat
    BY ConstantTypes DEF TypeOK, PacketsIn
<1>5. \A d \in Channels : d # c =>
        PeekNext(queued', ts', d) = PeekNext(queued, ts, d)
  <2>. SUFFICES ASSUME NEW d \in Channels, d # c
                PROVE  PeekNext(queued', ts', d) = PeekNext(queued, ts, d)
    OBVIOUS
  <2>1. PacketsIn(queued, d) = PacketsIn(queued', d)
    BY <1>1 DEF PacketsIn
  <2>2. \A r \in PacketsIn(queued, d) : ts'[r] = ts[r]
    BY <1>1 DEF PacketsIn, TypeOK
  <2>. QED
    BY <2>1, <2>2, PeekNextSame
<1>6. PeekNext(queued', ts', c) = IF t < earliest THEN t ELSE earliest
  <2>1. CASE t < earliest
    <3>1. \A r \in PacketsIn(queued', c) : ts'[p] <= ts'[r]
      BY <1>2, <1>3, <1>4, <2>1
    <3>2. /\ c \in Channels /\ p \in PacketsIn(queued', c)
          /\ queued' \in SUBSET Packets /\ ts' \in [Packets -> Times]
      BY <1>1, <1>2
    <3>3. PeekNext(queued', ts', c) = ts'[p]
      BY <3>1, <3>2, PeekNextIs
    <3>. QED
      BY <1>2, <2>1, <3>3
  <2>2. CASE ~(t < earliest)
    <3>1. earliest # kMaxTime
      BY <1>1, <1>3, <2>2, ConstantTypes
    <3>2. PICK r \in PacketsIn(queued, c) : earliest = ts[r]
      BY <1>3, <3>1
    <3>3. r \in PacketsIn(queued', c) /\ ts'[r] = earliest
      BY <1>2, <3>2
    <3>4. \A o \in PacketsIn(queued', c) : ts'[r] <= ts'[o]
      BY <1>2, <1>3, <1>4, <2>2, <3>3
    <3>5. /\ c \in Channels
          /\ queued' \in SUBSET Packets /\ ts' \in [Packets -> Times]
      BY <1>1, <1>2
    <3>6. PeekNext(queued', ts', c) = ts'[r]
      BY <3>3, <3>4, <3>5, PeekNextIs
    <3>. QED
      BY <2>2, <3>3, <3>6
  <2>. QED
    BY <2>1, <2>2
<1>. HIDE DEF earliest
<1>7. CASE ~(t < earliest)
  <2>1. UNCHANGED <<channelKey, stateKey>>
    BY <1>7 DEF Push, earliest
  <2>2. \A d \in Channels : PeekNext(queued', ts', d) = PeekNext(queued, ts, d)
    BY <1>5, <1>6, <1>7 DEF earliest
  <2>. QED
    BY <1>1, <2>1, <2>2 DEF QueuesInOrder
<1>8. CASE t < earliest
  <2>1. channelKey' = dk
    BY <1>8 DEF Push, JobsArrived, JobsUpdatedByPush, earliest
  <2>2. \A d \in Channels : channelKey'[d] = PeekNext(queued', ts', d)
    BY <1>1, <1>5, <1>6, <1>8, <2>1 DEF QueuesInOrder
  <2>3. /\ \A r \in States : r # s => HeapKey(dk, r) = HeapKey(channelKey, r)
        /\ HeapKey(dk, s) <= HeapKey(channelKey, s)
    <3>1. c \in Channels /\ t \in Keys /\ channelKey \in [Channels -> Keys]
      BY <1>1
    <3>2. t <= channelKey[c]
      BY <1>3, <1>8
    <3>3. \A r \in States : r # StateOf[c] =>
            HeapKey([channelKey EXCEPT ![c] = t], r) = HeapKey(channelKey, r)
      BY <3>1, HeapKeyUpdate
    <3>4. HeapKey([channelKey EXCEPT ![c] = t], StateOf[c])
            <= HeapKey(channelKey, StateOf[c])
      BY <3>1, <3>2, HeapKeyUpdate
    <3>. QED
      BY <3>3, <3>4
  <2>4. HeapKey(dk, s) \in Nat /\ HeapKey(channelKey, s) \in Nat
    BY <1>1, HeapKeyFacts, ConstantTypes
  <2>. HIDE DEF dk
  <2>5. CASE stateKey' = [stateKey EXCEPT ![s] = HeapKey(dk, s)] /\ enabled[s]
    BY <1>1, <2>1, <2>2, <2>3, <2>5 DEF QueuesInOrder, TypeOK
  <2>6. CASE stateKey' = stateKey /\ (enabled[s] => HeapKey(dk, s) = HeapKey(channelKey, s))
    BY <1>1, <2>1, <2>2, <2>3, <2>6 DEF QueuesInOrder, TypeOK
  <2>7. CASE JobsArrived(c, t)
    BY <2>3, <2>4, <2>5, <2>6, <2>7 DEF JobsArrived, dk
  <2>8. CASE JobsUpdatedByPush(c, t)
    <3>1. PICK top \in FrontChannels(channelKey, s) :
            IF MovesState(top, c, dk, enabled[s])
            THEN stateKey' = [stateKey EXCEPT ![s] = HeapKey(dk, s)]
            ELSE stateKey' = stateKey
      BY <2>8 DEF JobsUpdatedByPush, dk
    <3>2. MovesState(top, c, dk, enabled[s]) => enabled[s]
      BY DEF MovesState
    <3>3. enabled[s] /\ ~MovesState(top, c, dk, enabled[s])
            => HeapKey(dk, s) = HeapKey(channelKey, s)
      BY <1>1, <3>1 DEF MovesState, FrontChannels, ChannelsOf, dk
    <3>. QED
      BY <2>5, <2>6, <3>1, <3>2, <3>3
  <2>. QED
    BY <1>8, <2>7, <2>8 DEF Push, earliest
<1>. QED
    BY <1>7, <1>8

\* QueuesInOrder is inductive relative to TypeOK: every step that changes a heap
\* is one of the four above.
LEMMA OrderStep == TypeOK /\ QueuesInOrder /\ [Next]_vars => QueuesInOrder'
<1>. SUFFICES ASSUME TypeOK, QueuesInOrder, [Next]_vars
              PROVE  QueuesInOrder'
    OBVIOUS
<1>1. CASE UNCHANGED <<queued, ts, channelKey, stateKey, enabled>>
    BY <1>1 DEF QueuesInOrder
<1>2. ASSUME NEW w \in Workers, Worker(w) \/ SpuriousWakeup(w)
      PROVE  QueuesInOrder'
  <2>1. CASE Take(w)
    BY <2>1, TakeOrder
  <2>2. CASE Reenable(w)
    BY <2>2, ReenableOrder
  <2>. QED
    BY <1>1, <1>2, <2>1, <2>2
    DEF Worker, TestKeepRunning, FindNothing, Wait, GiveUp, Execute,
        SpuriousWakeup
<1>3. CASE \E p \in Packets, t \in Times : Push(p, t)
    BY <1>3, PushOrder
<1>4. CASE \E c \in Channels : Drop(c)
    BY <1>4, DropOrder
<1>5. CASE Start \/ Stop
    BY <1>1, <1>5 DEF Start, Stop, StopRequest, StopNotifyAll, StopJoined
<1>6. CASE UNCHANGED vars
    BY <1>1, <1>6 DEF vars
<1>. QED
    BY <1>2, <1>3, <1>4, <1>5, <1>6 DEF Next, Client

\* No heap is ever stale, for any number of channels and monitor objects: every
\* reposition JobsArrived, JobsUpdated and JobsDropped leave out is unneeded.
THEOREM QueuesAlwaysInOrder == Spec => []QueuesInOrder
<1>1. Init => QueuesInOrder
  <2>. SUFFICES ASSUME Init
                PROVE  QueuesInOrder
    OBVIOUS
  <2>1. \A c \in Channels : PeekNext(queued, ts, c) = kMaxTime
    <3>1. /\ queued \in SUBSET Packets /\ ts \in [Packets -> Times]
          /\ \A c \in Channels : PacketsIn(queued, c) = {}
      BY ConstantTypes DEF Init, PacketsIn
    <3>. QED
      BY <3>1, PeekNextFacts
  <2>2. \A s \in States : HeapKey(channelKey, s) = kMaxTime
    <3>1. channelKey \in [Channels -> Keys]
      BY ConstantTypes DEF Init
    <3>. QED
      BY <3>1, HeapKeyFacts DEF Init, ChannelsOf
  <2>. QED
    BY <2>1, <2>2 DEF Init, QueuesInOrder
<1>. QED
    BY <1>1, OrderStep, TypeCorrect, PTL DEF Spec

(***************************************************************************)
(* What the workers hold.  MutualExclusion and OnePlace are inductive      *)
(* together with WorkersInStep, once the heaps are known to be in order: a *)
(* worker takes a packet of a state found in state_queue_, which is        *)
(* enabled, so nobody serves it.                                           *)
(***************************************************************************)

HeapsOK == TypeOK /\ QueuesInOrder
WorkersOK == MutualExclusion /\ OnePlace /\ WorkersInStep

Holding(l) == l \in {"exec", "reenable"}

\* Steps that start and end no job, and queue no packet a worker holds.
LEMMA QuietStep ==
    ASSUME TypeOK, MutualExclusion, OnePlace,
           UNCHANGED <<enabled, job, state>>,
           \A w \in Workers : \/ pc'[w] = pc[w]
                              \/ ~Holding(pc[w]) /\ ~Holding(pc'[w]),
           queued' \cap Taken = {}
    PROVE  MutualExclusion' /\ OnePlace'
<1>1. \A w \in Workers : Serving(w)' <=> Serving(w)
    BY DEF Serving, Holding
<1>2. MutualExclusion'
    BY <1>1 DEF MutualExclusion
<1>3. \A w \in Workers : pc'[w] = "exec" <=> pc[w] = "exec"
    BY DEF Holding
<1>4. OnePlace'
    BY <1>3 DEF OnePlace, Taken
<1>. QED
    BY <1>2, <1>4

\* A notification moves nobody but a waiting worker.
LEMMA NotifyOneQuiet ==
    ASSUME TypeOK, NotifyOne \/ UNCHANGED pc
    PROVE  \A w \in Workers : \/ pc'[w] = pc[w]
                              \/ pc[w] = "waiting" /\ pc'[w] = "enter"
BY DEF NotifyOne, Waiting, TypeOK

\* A push gives no worker a packet and takes none away.
LEMMA PushWorkers ==
    ASSUME TypeOK, WorkersOK, NEW p \in Packets, NEW t \in Times, Push(p, t)
    PROVE  WorkersOK'
<1>1. NotifyOne \/ UNCHANGED pc
    BY DEF Push, JobsArrived, JobsUpdatedByPush
<1>2. \A w \in Workers : \/ pc'[w] = pc[w]
                         \/ pc[w] = "waiting" /\ pc'[w] = "enter"
    BY <1>1, NotifyOneQuiet
<1>3. queued' \cap Taken = {} /\ UNCHANGED <<enabled, mutex, job, state, control>>
    BY DEF Push, WorkersOK, OnePlace
<1>4. MutualExclusion' /\ OnePlace'
    BY <1>2, <1>3, QuietStep DEF WorkersOK, Holding
<1>5. WorkersInStep'
    BY <1>2, <1>3 DEF WorkersOK, WorkersInStep
<1>. QED
    BY <1>4, <1>5 DEF WorkersOK

\* A drop takes a packet from the queue, never one that a worker holds.
LEMMA DropWorkers ==
    ASSUME TypeOK, WorkersOK, NEW c \in Channels, Drop(c)
    PROVE  WorkersOK'
<1>1. queued' \subseteq queued /\ UNCHANGED <<enabled, mutex, pc, job, state, control>>
    BY DEF Drop, PopNext
<1>2. MutualExclusion' /\ OnePlace'
    BY <1>1, QuietStep DEF WorkersOK, OnePlace
<1>3. WorkersInStep'
    BY <1>1 DEF WorkersOK, WorkersInStep
<1>. QED
    BY <1>2, <1>3 DEF WorkersOK

\* What Take does, whichever of the equally early packets it is.
LEMMA TakeEffect ==
    ASSUME TypeOK, QueuesInOrder, NEW w \in Workers, Take(w)
    PROVE  \E s \in States, p \in queued :
             /\ s = StateOf[ChannelOf[p]]
             /\ enabled[s]
             /\ \A q \in queued : enabled[StateOf[ChannelOf[q]]] => ts[p] <= ts[q]
             /\ enabled' = Disabled(s)
             /\ queued' = queued \ {p}
             /\ job' = [job EXCEPT ![w] = p]
             /\ state' = [state EXCEPT ![w] = s]
<1>1. PICK s \in FrontStates : \E c \in FrontChannels(channelKey, s) :
        \E p \in FrontPackets(c) : TakeFront(w, s, c, p)
    BY DEF Take
<1>2. PICK c \in FrontChannels(channelKey, s) :
        \E p \in FrontPackets(c) : TakeFront(w, s, c, p)
    BY <1>1
<1>3. PICK p \in FrontPackets(c) : TakeFront(w, s, c, p)
    BY <1>2
<1>4. /\ s \in States /\ c \in Channels /\ StateOf[c] = s
      /\ p \in queued /\ ChannelOf[p] = c
      /\ stateKey[s] # kMaxTime
    BY DEF FrontStates, FrontChannels, ChannelsOf, FrontPackets, PacketsIn
<1>5. enabled[s]
    BY <1>4 DEF QueuesInOrder
<1>6. ts[p] = stateKey[s]
    BY <1>4, <1>5
    DEF QueuesInOrder, FrontPackets, FrontChannels
<1>7. \A r \in States : stateKey[s] <= stateKey[r]
  <2>. DEFINE K == {stateKey[r] : r \in States}
  <2>1. K \in SUBSET Keys
    BY DEF TypeOK
  <2>2. \A k \in K : FrontKey(K) <= k
    BY <2>1, FrontKeyFacts
  <2>. QED
    BY <2>2 DEF FrontStates
<1>8. ASSUME NEW q \in queued, enabled[StateOf[ChannelOf[q]]]
      PROVE  ts[p] <= ts[q]
  <2>. DEFINE d == ChannelOf[q]
              r == StateOf[d]
  <2>1. d \in Channels /\ r \in States /\ q \in PacketsIn(queued, d)
        /\ d \in ChannelsOf(r)
    BY ConstantTypes DEF TypeOK, PacketsIn, ChannelsOf
  <2>2. PeekNext(queued, ts, d) <= ts[q]
    BY <2>1, PeekNextFacts DEF TypeOK
  <2>3. HeapKey(channelKey, r) <= channelKey[d]
    BY <2>1, HeapKeyFacts DEF TypeOK
  <2>4. /\ channelKey[d] = PeekNext(queued, ts, d)
        /\ stateKey[r] = HeapKey(channelKey, r)
    BY <1>8, <2>1 DEF QueuesInOrder
  <2>5. /\ stateKey[s] \in Nat /\ stateKey[r] \in Nat /\ channelKey[d] \in Nat
        /\ ts[q] \in Nat
    BY <1>4, <2>1, ConstantTypes DEF TypeOK
  <2>. HIDE DEF d, r
  <2>6. stateKey[s] <= stateKey[r]
    BY <1>7, <2>1
  <2>. QED
    BY <1>6, <2>2, <2>3, <2>4, <2>5, <2>6
<1>. QED
    BY <1>3, <1>4, <1>5, <1>8 DEF TakeFront, PopNext

\* The worker that takes a packet is alone with it and, unless the state is
\* stateless, alone with the state it disables (RunTasks).
LEMMA TakeWorkers ==
    ASSUME TypeOK, QueuesInOrder, WorkersOK, NEW w \in Workers, Take(w)
    PROVE  WorkersOK'
<1>1. PICK s \in States, p \in queued :
             /\ s = StateOf[ChannelOf[p]]
             /\ enabled[s]
             /\ enabled' = Disabled(s)
             /\ queued' = queued \ {p}
             /\ job' = [job EXCEPT ![w] = p]
             /\ state' = [state EXCEPT ![w] = s]
    BY TakeEffect
<1>2. /\ pc[w] = "enter" /\ pc' = [pc EXCEPT ![w] = "exec"]
      /\ mutex = NoThread /\ UNCHANGED <<mutex, control>>
    BY DEF Take, Goto
<1>3. p \in Packets /\ p # NoPacket /\ job[w] = NoPacket
    BY <1>2, SchedulerAssumption
    DEF SchedulerAssumption, TypeOK, WorkersOK, OnePlace
<1>4. \A v \in Workers : v # w => /\ pc'[v] = pc[v]
                                  /\ job'[v] = job[v]
                                  /\ state'[v] = state[v]
    BY <1>1, <1>2 DEF TypeOK
<1>5. pc'[w] = "exec" /\ job'[w] = p /\ state'[w] = s
    BY <1>1, <1>2 DEF TypeOK
<1>6. \A v \in Workers : Serving(v) => state[v] # s
    BY <1>1 DEF WorkersOK, MutualExclusion
<1>7. /\ \A v \in Workers : v # w => (Serving(v)' <=> Serving(v))
      /\ Serving(w)' <=> s # Stateless
      /\ ~Serving(w)
    BY <1>2, <1>4, <1>5 DEF Serving
<1>8. MutualExclusion'
  <2>1. \A u, v \in Workers :
            Serving(u)' /\ Serving(v)' /\ state'[u] = state'[v] => u = v
    BY <1>4, <1>5, <1>6, <1>7 DEF WorkersOK, MutualExclusion
  <2>2. \A r \in States : ~enabled'[r] <=> \E v \in Workers : Serving(v)'
                                                             /\ state'[v] = r
    <3>1. CASE s = Stateless
      BY <1>1, <1>4, <1>7, <3>1 DEF Disabled, WorkersOK, MutualExclusion
    <3>2. CASE s # Stateless
      <4>1. ASSUME NEW r \in States, r # s
            PROVE  ~enabled'[r] <=> \E v \in Workers : Serving(v)'
                                                       /\ state'[v] = r
        <5>1. enabled'[r] = enabled[r]
          BY <1>1, <3>2, <4>1 DEF Disabled, TypeOK
        <5>2. (\E v \in Workers : Serving(v)' /\ state'[v] = r)
                <=> \E v \in Workers : Serving(v) /\ state[v] = r
          BY <1>4, <1>5, <1>7, <4>1
        <5>. QED
          BY <5>1, <5>2 DEF WorkersOK, MutualExclusion
      <4>2. ~enabled'[s]
        BY <1>1, <3>2 DEF Disabled, TypeOK
      <4>. QED
        BY <1>5, <1>7, <3>2, <4>1, <4>2
    <3>. QED
      BY <3>1, <3>2
  <2>. QED
    BY <2>1, <2>2 DEF MutualExclusion
<1>9. OnePlace'
  <2>1. \A v \in Workers : job[v] # p
    BY <1>1, <1>3 DEF WorkersOK, OnePlace, Taken
  <2>2. \A v \in Workers : job'[v] \notin queued'
    BY <1>1, <1>3, <1>4, <1>5, SchedulerAssumption
    DEF SchedulerAssumption, WorkersOK, OnePlace, Taken, TypeOK
  <2>3. \A u, v \in Workers : job'[u] = job'[v] /\ job'[u] # NoPacket => u = v
    BY <1>4, <1>5, <2>1 DEF WorkersOK, OnePlace
  <2>4. \A v \in Workers : pc'[v] = "exec" <=> job'[v] # NoPacket
    BY <1>3, <1>4, <1>5 DEF WorkersOK, OnePlace
  <2>. QED
    BY <2>2, <2>3, <2>4 DEF OnePlace, Taken
<1>10. WorkersInStep'
    BY <1>1, <1>2, <1>4, <1>5, SchedulerAssumption
    DEF SchedulerAssumption, WorkersOK, WorkersInStep
<1>. QED
    BY <1>8, <1>9, <1>10 DEF WorkersOK

\* After Execute a worker still serves its state and holds no packet.
LEMMA ExecuteWorkers ==
    ASSUME TypeOK, WorkersOK, NEW w \in Workers, Execute(w)
    PROVE  WorkersOK'
<1>1. /\ pc[w] = "exec" /\ job' = [job EXCEPT ![w] = NoPacket]
      /\ UNCHANGED <<queued, enabled, mutex, state, control>>
      /\ \A v \in Workers : v # w => pc'[v] = pc[v] /\ job'[v] = job[v]
      /\ pc'[w] = IF state[w] = Stateless THEN "loop" ELSE "reenable"
      /\ job'[w] = NoPacket
    BY DEF Execute, Goto, TypeOK
<1>2. state[w] \in States
    BY <1>1, ConstantTypes DEF WorkersOK, WorkersInStep, OnePlace, TypeOK
<1>3. \A v \in Workers : Serving(v)' <=> Serving(v)
    BY <1>1 DEF Serving
<1>4. MutualExclusion'
    BY <1>1, <1>3 DEF WorkersOK, MutualExclusion
<1>5. OnePlace'
    BY <1>1 DEF WorkersOK, OnePlace, Taken
<1>6. WorkersInStep'
    BY <1>1, <1>2 DEF WorkersOK, WorkersInStep
<1>. QED
    BY <1>4, <1>5, <1>6 DEF WorkersOK

\* The worker that enables a state is the only one that served it.
LEMMA ReenableWorkers ==
    ASSUME TypeOK, WorkersOK, NEW w \in Workers, Reenable(w)
    PROVE  WorkersOK'
<1>1. /\ pc[w] = "reenable" /\ mutex = NoThread
      /\ enabled' = [enabled EXCEPT ![state[w]] = TRUE]
      /\ UNCHANGED <<queued, mutex, job, control>>
      /\ \A v \in Workers : v # w => pc'[v] = pc[v] /\ state'[v] = state[v]
      /\ pc'[w] = "loop"
    BY DEF Reenable, Goto, TypeOK
<1>2. state[w] \in States /\ state[w] # Stateless
    BY <1>1 DEF WorkersOK, WorkersInStep
<1>3. /\ \A v \in Workers : v # w => (Serving(v)' <=> Serving(v))
      /\ ~Serving(w)'
      /\ Serving(w)
    BY <1>1, <1>2 DEF Serving
<1>4. \A v \in Workers : v # w /\ Serving(v) => state[v] # state[w]
    BY <1>3 DEF WorkersOK, MutualExclusion
<1>5. MutualExclusion'
  <2>1. \A u, v \in Workers :
            Serving(u)' /\ Serving(v)' /\ state'[u] = state'[v] => u = v
    BY <1>1, <1>3 DEF WorkersOK, MutualExclusion
  <2>2. ASSUME NEW r \in States, r # state[w]
        PROVE  ~enabled'[r] <=> \E v \in Workers : Serving(v)' /\ state'[v] = r
    <3>1. enabled'[r] = enabled[r]
      BY <1>1, <2>2 DEF TypeOK
    <3>2. (\E v \in Workers : Serving(v)' /\ state'[v] = r)
            <=> \E v \in Workers : Serving(v) /\ state[v] = r
      BY <1>1, <1>3, <2>2
    <3>. QED
      BY <3>1, <3>2 DEF WorkersOK, MutualExclusion
  <2>3. enabled'[state[w]]
    BY <1>1, <1>2 DEF TypeOK
  <2>4. ~ \E v \in Workers : Serving(v)' /\ state'[v] = state[w]
    BY <1>1, <1>3, <1>4
  <2>. QED
    BY <2>1, <2>2, <2>3, <2>4 DEF MutualExclusion
<1>6. OnePlace'
    BY <1>1 DEF WorkersOK, OnePlace, Taken
<1>7. WorkersInStep'
    BY <1>1, SchedulerAssumption
    DEF SchedulerAssumption, WorkersOK, WorkersInStep
<1>. QED
    BY <1>5, <1>6, <1>7 DEF WorkersOK

\* The steps of a worker that neither start nor end a job.
LEMMA OtherWorkers ==
    ASSUME TypeOK, WorkersOK, NEW w \in Workers,
           \/ TestKeepRunning(w) \/ FindNothing(w) \/ Wait(w) \/ GiveUp(w)
           \/ SpuriousWakeup(w)
    PROVE  WorkersOK'
<1>1. /\ UNCHANGED <<queued, enabled, job, state, control>>
      /\ \A v \in Workers : v # w => pc'[v] = pc[v]
      /\ ~Holding(pc[w]) /\ ~Holding(pc'[w])
      /\ pc[w] # "done"
    BY DEF TestKeepRunning, FindNothing, Wait, GiveUp, SpuriousWakeup, Goto,
           TypeOK, Holding
<1>2. MutualExclusion' /\ OnePlace'
  <2>1. /\ UNCHANGED <<enabled, job, state>>
        /\ \A v \in Workers : \/ pc'[v] = pc[v]
                              \/ ~Holding(pc[v]) /\ ~Holding(pc'[v])
        /\ queued' \cap Taken = {}
    BY <1>1 DEF WorkersOK, OnePlace
  <2>. QED
    BY <2>1, QuietStep DEF WorkersOK
<1>3. \A v \in Workers : mutex' = v <=> pc'[v] = "towait"
    BY <1>1, SchedulerAssumption
    DEF SchedulerAssumption, TestKeepRunning, FindNothing, Wait, GiveUp,
        SpuriousWakeup, Goto, TypeOK, WorkersOK, WorkersInStep
<1>4. WorkersInStep'
    BY <1>1, <1>3 DEF WorkersOK, WorkersInStep, Holding
<1>. QED
    BY <1>2, <1>4 DEF WorkersOK

\* Start and Stop take nothing from a worker; Stop returns when all have ended.
LEMMA OwnerWorkers ==
    ASSUME TypeOK, WorkersOK, Start \/ Stop
    PROVE  WorkersOK'
<1>1. CASE Start
  <2>1. /\ UNCHANGED <<queued, enabled, mutex, job, state>>
        /\ control' = "running"
        /\ \A w \in Workers : pc[w] = "done" /\ pc'[w] = "loop"
    BY <1>1 DEF Start, WorkersOK, WorkersInStep
  <2>2. MutualExclusion' /\ OnePlace'
    BY <2>1, QuietStep DEF WorkersOK, OnePlace, Holding
  <2>3. WorkersInStep'
    BY <2>1 DEF WorkersOK, WorkersInStep
  <2>. QED
    BY <2>2, <2>3 DEF WorkersOK
<1>2. CASE Stop
  <2>1. /\ UNCHANGED <<queued, enabled, mutex, job, state>>
        /\ \A w \in Workers : \/ pc'[w] = pc[w]
                              \/ pc[w] = "waiting" /\ pc'[w] = "enter"
        /\ control' = "stopped" => \A w \in Workers : pc'[w] = "done"
    BY <1>2 DEF Stop, StopRequest, StopNotifyAll, StopJoined
  <2>2. MutualExclusion' /\ OnePlace'
    BY <2>1, QuietStep DEF WorkersOK, OnePlace, Holding
  <2>3. WorkersInStep'
    BY <2>1 DEF WorkersOK, WorkersInStep
  <2>. QED
    BY <2>2, <2>3 DEF WorkersOK
<1>. QED
    BY <1>1, <1>2

\* WorkersOK is inductive relative to HeapsOK, one step per action of RunTasks,
\* the clients and the owner.
LEMMA WorkersStep == HeapsOK /\ WorkersOK /\ [Next]_vars => WorkersOK'
<1>. SUFFICES ASSUME TypeOK, QueuesInOrder, WorkersOK, [Next]_vars
              PROVE  WorkersOK'
    BY DEF HeapsOK
<1>1. ASSUME NEW w \in Workers, Worker(w) \/ SpuriousWakeup(w)
      PROVE  WorkersOK'
    BY <1>1, OtherWorkers, TakeWorkers, ExecuteWorkers, ReenableWorkers
    DEF Worker
<1>2. CASE \E p \in Packets, t \in Times : Push(p, t)
    BY <1>2, PushWorkers
<1>3. CASE \E c \in Channels : Drop(c)
    BY <1>3, DropWorkers
<1>4. CASE Start \/ Stop
    BY <1>4, OwnerWorkers
<1>5. CASE UNCHANGED vars
    BY <1>5 DEF vars, WorkersOK, MutualExclusion, OnePlace, WorkersInStep,
                Serving, Taken
<1>. QED
    BY <1>1, <1>2, <1>3, <1>4, <1>5 DEF Next, Client

\* What the workers hold is consistent in every behaviour (RunTasks).
LEMMA WorkersAlwaysOK == Spec => []WorkersOK
<1>1. Init => WorkersOK
    BY SchedulerAssumption
    DEF SchedulerAssumption, Init, WorkersOK, MutualExclusion, OnePlace,
        WorkersInStep, Serving, Taken
<1>2. Spec => []HeapsOK
    BY TypeCorrect, QueuesAlwaysInOrder, PTL DEF HeapsOK
<1>. QED
    BY <1>1, <1>2, WorkersStep, PTL DEF Spec

\* For any number of workers and any assignment of channels to monitor objects,
\* no two workers are ever inside the same monitor object, and its channels are
\* enabled again once the worker has left it (Scheduler.h:129-145).
THEOREM MutualExclusionHolds == Spec => []MutualExclusion
BY WorkersAlwaysOK, PTL DEF WorkersOK

\* A packet is never handed to two callbacks, nor to one while it is queued.
THEOREM PacketsInOnePlace == Spec => []OnePlace
BY WorkersAlwaysOK, PTL DEF WorkersOK

\* Whenever Stop has returned, nothing is left behind that a later Start would
\* find: no locked mutex, disabled state or packet held (Scheduler.h:189-194).
THEOREM StopLeavesNothing == Spec => []CleanWhenStopped
<1>1. TypeOK /\ WorkersOK => CleanWhenStopped
    BY DEF TypeOK, WorkersOK, WorkersInStep, MutualExclusion, OnePlace,
           Serving, CleanWhenStopped
<1>. QED
    BY <1>1, TypeCorrect, WorkersAlwaysOK, PTL

(***************************************************************************)
(* The scheduler implements Dispatch.                                      *)
(***************************************************************************)

\* A new scheduler holds nothing, as Dispatch starts.
LEMMA RefinesInit == Init => Abstract!Init
BY ConstantTypes DEF Init, Abstract!Init, Taken

\* Steps that change neither the packets nor what is enabled are not seen.
LEMMA RefinesStutter ==
    ASSUME UNCHANGED <<queued, ts, job, enabled>>
    PROVE  UNCHANGED Abstract!vars
BY DEF Abstract!vars, Taken

\* ChannelImpl::Push submits a packet.
LEMMA RefinesPush ==
    ASSUME NEW p \in Packets, NEW t \in Times, Push(p, t)
    PROVE  Abstract!Next
<1>1. Abstract!Submit(p, t)
    BY DEF Push, Abstract!Submit, Taken
<1>. QED
    BY <1>1 DEF Abstract!Next

\* Dropping in a full channel discards its earliest packet.
LEMMA RefinesDrop ==
    ASSUME TypeOK, NEW c \in Channels, Drop(c)
    PROVE  Abstract!Next
<1>1. PICK p \in FrontPackets(c) : queued' = queued \ {p}
    BY DEF Drop, PopNext
<1>2. p \in queued /\ p \in Packets /\ ChannelOf[p] = c
    BY DEF FrontPackets, PacketsIn, TypeOK
<1>3. \A q \in queued : ChannelOf[q] = c => ts[p] <= ts[q]
    BY PeekNextFacts DEF FrontPackets, PacketsIn, TypeOK
<1>4. Abstract!Discard(p)
    BY <1>1, <1>2, <1>3 DEF Drop, Abstract!Discard, Taken
<1>. QED
    BY <1>2, <1>4 DEF Abstract!Next

\* Taking a job begins the earliest packet of the states not being served.
LEMMA RefinesTake ==
    ASSUME TypeOK, QueuesInOrder, WorkersOK, NEW w \in Workers, Take(w)
    PROVE  Abstract!Next
<1>1. PICK s \in States, p \in queued :
             /\ s = StateOf[ChannelOf[p]]
             /\ enabled[s]
             /\ \A q \in queued : enabled[StateOf[ChannelOf[q]]] => ts[p] <= ts[q]
             /\ enabled' = Disabled(s)
             /\ queued' = queued \ {p}
             /\ job' = [job EXCEPT ![w] = p]
    BY TakeEffect
<1>2. p \in Packets /\ UNCHANGED ts
    BY DEF TypeOK, Take
<1>3. job[w] = NoPacket /\ p # NoPacket
    BY <1>2, SchedulerAssumption
    DEF SchedulerAssumption, Take, WorkersOK, OnePlace
<1>4. Taken' = Taken \cup {p}
  <2>1. job'[w] = p /\ \A v \in Workers : v # w => job'[v] = job[v]
    BY <1>1 DEF TypeOK
  <2>. QED
    BY <1>3, <2>1 DEF Taken
<1>5. {r \in States : ~enabled'[r]} =
        {r \in States : ~enabled[r]} \cup ({s} \ {Stateless})
    BY <1>1 DEF Disabled, TypeOK
<1>6. Abstract!Ready \subseteq queued
      /\ \A q \in Abstract!Ready : enabled[StateOf[ChannelOf[q]]]
    BY ConstantTypes DEF Abstract!Ready, Abstract!StateOfPacket, TypeOK
<1>7. p \in Abstract!Ready /\ \A q \in Abstract!Ready : ts[p] <= ts[q]
    BY <1>1, <1>6 DEF Abstract!Ready, Abstract!StateOfPacket
<1>8. Abstract!Begin(p)
    BY <1>1, <1>2, <1>4, <1>5, <1>7
    DEF Abstract!Begin, Abstract!StateOfPacket
<1>. QED
    BY <1>2, <1>8 DEF Abstract!Next

\* The return of a callback returns its packet.
LEMMA RefinesExecute ==
    ASSUME TypeOK, WorkersOK, NEW w \in Workers, Execute(w)
    PROVE  Abstract!Next
<1>1. /\ job[w] \in Packets /\ job[w] # NoPacket
      /\ job' = [job EXCEPT ![w] = NoPacket]
      /\ UNCHANGED <<queued, ts, enabled>>
    BY DEF Execute, TypeOK, WorkersOK, OnePlace
<1>2. Taken' = Taken \ {job[w]}
  <2>1. job'[w] = NoPacket /\ \A v \in Workers : v # w => job'[v] = job[v]
    BY <1>1 DEF TypeOK
  <2>2. \A v \in Workers : v # w => job[v] # job[w]
    BY <1>1 DEF WorkersOK, OnePlace
  <2>. QED
    BY <1>1, <2>1, <2>2 DEF Taken
<1>3. Abstract!Return(job[w])
    BY <1>1, <1>2 DEF Abstract!Return, Taken
<1>. QED
    BY <1>1, <1>3 DEF Abstract!Next

\* Enabling a state unblocks it.
LEMMA RefinesReenable ==
    ASSUME TypeOK, WorkersOK, NEW w \in Workers, Reenable(w)
    PROVE  Abstract!Next
<1>1. PICK s \in States \cup {Stateless} : s = state[w]
    BY DEF TypeOK
<1>2. /\ pc[w] = "reenable"
      /\ enabled' = [enabled EXCEPT ![s] = TRUE]
      /\ UNCHANGED <<queued, ts, job>>
    BY <1>1 DEF Reenable
<1>3. s \in States /\ s # Stateless /\ Serving(w)
    BY <1>1, <1>2 DEF WorkersOK, WorkersInStep, Serving
<1>4. ~enabled[s]
    BY <1>1, <1>3 DEF WorkersOK, MutualExclusion
<1>5. ASSUME NEW p \in Taken
      PROVE  Abstract!StateOfPacket(p) # s
  <2>1. PICK v \in Workers : job[v] = p /\ p # NoPacket
    BY DEF Taken
  <2>2. pc[v] = "exec" /\ state[v] = StateOf[ChannelOf[p]]
    BY <2>1 DEF WorkersOK, OnePlace, WorkersInStep
  <2>3. v # w
    BY <1>2, <2>2
  <2>. QED
    BY <1>1, <1>3, <2>2, <2>3
    DEF WorkersOK, MutualExclusion, Serving, Abstract!StateOfPacket
<1>6. {r \in States : ~enabled'[r]} = {r \in States : ~enabled[r]} \ {s}
    BY <1>2, <1>3 DEF TypeOK
<1>7. Taken' = Taken
    BY <1>2 DEF Taken
<1>8. Abstract!Unblock(s)
    BY <1>2, <1>3, <1>4, <1>5, <1>6, <1>7 DEF Abstract!Unblock
<1>. QED
    BY <1>3, <1>4, <1>8 DEF Abstract!Next

\* Every step of the scheduler is a step of Dispatch or none at all.
LEMMA RefinesNext ==
    ASSUME HeapsOK, WorkersOK, [Next]_vars
    PROVE  [Abstract!Next]_(Abstract!vars)
<1>. USE DEF HeapsOK
<1>1. ASSUME NEW w \in Workers, Worker(w) \/ SpuriousWakeup(w)
      PROVE  [Abstract!Next]_(Abstract!vars)
  <2>1. CASE Take(w)
    BY <2>1, RefinesTake
  <2>2. CASE Execute(w)
    BY <2>2, RefinesExecute
  <2>3. CASE Reenable(w)
    BY <2>3, RefinesReenable
  <2>4. CASE \/ TestKeepRunning(w) \/ FindNothing(w) \/ Wait(w) \/ GiveUp(w)
             \/ SpuriousWakeup(w)
    BY <2>4, RefinesStutter
    DEF TestKeepRunning, FindNothing, Wait, GiveUp, SpuriousWakeup
  <2>. QED
    BY <1>1, <2>1, <2>2, <2>3, <2>4 DEF Worker
<1>2. CASE \E p \in Packets, t \in Times : Push(p, t)
    BY <1>2, RefinesPush
<1>3. CASE \E c \in Channels : Drop(c)
    BY <1>3, RefinesDrop
<1>4. CASE Start \/ Stop
    BY <1>4, RefinesStutter
    DEF Start, Stop, StopRequest, StopNotifyAll, StopJoined
<1>5. CASE UNCHANGED vars
    BY <1>5, RefinesStutter DEF vars
<1>. QED
    BY <1>1, <1>2, <1>3, <1>4, <1>5 DEF Next, Client

\* The heaps, the mutex, the condition variable and the workers implement what
\* Dispatch promises: packets begin in the order of their timestamps among the
\* states nobody serves, one at a time for each state.
THEOREM SchedulerImplementsDispatch == Spec => ImplementsDispatch
<1>1. Spec => [](HeapsOK /\ WorkersOK)
    BY TypeCorrect, QueuesAlwaysInOrder, WorkersAlwaysOK, PTL DEF HeapsOK
<1>. QED
    BY <1>1, RefinesInit, RefinesNext, PTL
    DEF Spec, ImplementsDispatch, Abstract!Spec
=============================================================================
