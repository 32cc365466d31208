--------------------------- MODULE LifecycleProofs ---------------------------
(***************************************************************************)
(* Proofs about Lifecycle for every set of front ends, channels, packets   *)
(* and receivers.  Three invariants, each kept by what the others promise: *)
(* who owns which channel (Owned), where each packet is (Kept), and which  *)
(* receivers may have a thread (Quiet).  Parts of them hold for a careful  *)
(* owner only; as careless only grows, those are kept like the others.     *)
(***************************************************************************)
EXTENDS Lifecycle, TLAPS

Unmoved == "moved over" \notin careless

\* A channel calls its sender through its owner, until that is moved
\* (SenderChannel.h:43).
Callbacks == \A i \in channels :
                 bound[base[i]] = IF kind[i] = "sender" THEN base[i] ELSE User

Owned == /\ OneOwner
         /\ \A i \in channels : base[i] \in Fronts
         /\ Unmoved /\ "moved sender" \notin careless => Callbacks

\* A stub is used through the owner of the packet's channel.
StubsHome == \A s \in stubs : impl[s[2]] = PoolOf[s[1]]

Kept == JobsLive /\ PacketsHome /\ (Unmoved => StubsHome)

\* A receiver without a place in the loop of Stop is stopped and joined.
Quiet == /\ QuietWhenStopped
         /\ pending \subseteq receivers
         /\ control = "stopping" => \A r \in receivers \ pending : thread[r] = "none"
         /\ \A r \in Receivers : thread[r] # "none" => r \in receivers
         /\ \A r \in receivers : target[r] \in Fronts

IInv == TypeOK /\ Owned /\ Kept /\ OnlyLiveUsed /\ Quiet
-----------------------------------------------------------------------------
LEMMA InitIInv == Init => IInv
<1> SUFFICES ASSUME Init PROVE IInv
    OBVIOUS
<1> USE DEF Init
<1>1. TypeOK
  <2>1. /\ valid \in BOOLEAN
        /\ running \in [Receivers -> BOOLEAN]
      OBVIOUS
  <2>2. /\ free \in [Impls -> SUBSET Packets]
        /\ queued \in [Impls -> SUBSET Packets]
      OBVIOUS
  <2>3. broken \in BOOLEAN /\ careless \in SUBSET Faults
      OBVIOUS
  <2> QED BY <2>1, <2>2, <2>3 DEF TypeOK, Kinds
<1>2. Owned
    BY DEF Owned, OneOwner, Callbacks
<1>3. Kept
    BY DEF Kept, JobsLive, PacketsHome, StubsHome
<1>4. Quiet
    BY DEF Quiet, QuietWhenStopped
<1>5. OnlyLiveUsed
    BY DEF OnlyLiveUsed
<1> QED BY <1>1, <1>2, <1>3, <1>4, <1>5 DEF IInv
-----------------------------------------------------------------------------
(* Channels are created, moved and destroyed *)

\* Where a stub leads to.
LEMMA StubFact ==
    ASSUME IInv, Unmoved, NEW p \in Packets, NEW g \in Fronts, <<p, g>> \in stubs
    PROVE  impl[g] = PoolOf[p] /\ impl[g] # NoImpl
<1>1. StubsHome
    BY DEF IInv, Kept
<1>2. impl[g] = PoolOf[p]
    BY <1>1 DEF StubsHome
<1> QED BY <1>2, LifecycleAssumption

\* A front end that is new gets a channel that is new.
LEMMA CreateIInv ==
    ASSUME IInv, NEW f \in Fronts, NEW i \in Impls, NEW k \in Kinds, Create(f, i, k)
    PROVE  IInv'
<1>1. /\ control = "stopped" /\ f \notin alive /\ i \notin channels
      /\ alive' = alive \cup {f}
      /\ impl' = [impl EXCEPT ![f] = i]
      /\ bound' = [bound EXCEPT ![f] = IF k = "sender" THEN f ELSE User]
      /\ channels' = channels \cup {i}
      /\ base' = [base EXCEPT ![i] = f]
      /\ kind' = [kind EXCEPT ![i] = k]
      /\ free' = [free EXCEPT ![i] = SlotsOf(i)]
      /\ queued' = [queued EXCEPT ![i] = {}]
      /\ UNCHANGED <<jobs, stubs, control, pending, receivers, target, running, thread,
                     careless, broken>>
    BY DEF Create, CallbackOf, receiverVars, faultVars
<1>2. valid' \in {valid, FALSE}
    BY DEF Create
<1>3. /\ impl \in [Fronts -> Impls \cup {NoImpl}]
      /\ bound \in [Fronts -> Fronts \cup {NoFront, User}]
      /\ base \in [Impls -> Fronts \cup {NoFront}] /\ kind \in [Impls -> Kinds]
      /\ free \in [Impls -> SUBSET Packets] /\ queued \in [Impls -> SUBSET Packets]
      /\ channels \subseteq Impls /\ stubs \subseteq Packets \X Fronts
      /\ PoolOf \in [Packets -> Impls] /\ NoImpl \notin Impls
    BY LifecycleAssumption DEF IInv, TypeOK
<1>4. TypeOK'
  <2>1. SlotsOf(i) \subseteq Packets
      BY DEF SlotsOf
  <2>2. /\ free' \in [Impls -> SUBSET Packets] /\ queued' \in [Impls -> SUBSET Packets]
      BY <1>1, <1>3, <2>1
  <2>3. valid' \in BOOLEAN /\ broken' \in BOOLEAN
      BY <1>1, <1>2 DEF IInv, TypeOK
  <2>4. /\ impl' \in [Fronts -> Impls \cup {NoImpl}]
        /\ bound' \in [Fronts -> Fronts \cup {NoFront, User}]
        /\ base' \in [Impls -> Fronts \cup {NoFront}] /\ kind' \in [Impls -> Kinds]
        /\ channels' \subseteq Impls /\ alive' \subseteq Fronts
      BY <1>1, <1>3 DEF IInv, TypeOK
  <2> QED BY <1>1, <2>2, <2>3, <2>4 DEF IInv, TypeOK
<1>5. Owned'
  <2>1. impl[f] = NoImpl
      BY <1>1 DEF IInv, Owned, OneOwner
  <2>2. \A g \in Fronts : impl'[g] # NoImpl => /\ g \in alive'
                                              /\ impl'[g] \in channels'
                                              /\ base'[impl'[g]] = g
      BY <1>1, <1>3 DEF IInv, Owned, OneOwner
  <2>3. ASSUME NEW j \in channels'
        PROVE  /\ base'[j] \in Fronts
               /\ Unmoved' => impl'[base'[j]] = j
               /\ Unmoved' /\ "moved sender" \notin careless' =>
                      bound'[base'[j]] = IF kind'[j] = "sender" THEN base'[j] ELSE User
    <3>1. CASE j = i
        BY <1>1, <1>3, <3>1
    <3>2. CASE j # i
      <4>1. j \in channels /\ j \in Impls /\ base[j] \in Fronts
          BY <1>1, <1>3, <3>2 DEF IInv, Owned
      <4>2. Unmoved => impl[base[j]] = j /\ base[j] # f
          BY <1>3, <2>1, <4>1 DEF IInv, Owned, OneOwner, Unmoved
      <4>3. Unmoved /\ "moved sender" \notin careless =>
                bound[base[j]] = IF kind[j] = "sender" THEN base[j] ELSE User
          BY <4>1 DEF IInv, Owned, Callbacks
      <4> QED BY <1>1, <1>3, <3>2, <4>1, <4>2, <4>3 DEF Unmoved
    <3> QED BY <3>1, <3>2
  <2> QED BY <2>2, <2>3 DEF Owned, OneOwner, Callbacks, Unmoved
<1>6. Kept'
  <2>1. Unmoved => \A s \in stubs :
            impl[s[2]] = PoolOf[s[1]] /\ PoolOf[s[1]] # i /\ s[2] # f
    <3>1. ASSUME Unmoved, NEW p \in Packets, NEW g \in Fronts, <<p, g>> \in stubs
          PROVE  impl[g] = PoolOf[p] /\ PoolOf[p] # i /\ g # f
      <4>0. impl[f] = NoImpl
          BY <1>1 DEF IInv, Owned, OneOwner
      <4>1. impl[g] = PoolOf[p] /\ impl[g] # NoImpl
          BY <3>1, StubFact
      <4>2. impl[g] \in channels
          BY <4>1 DEF IInv, Owned, OneOwner
      <4>3. g # f
          BY <4>0, <4>1
      <4> QED BY <1>1, <4>1, <4>2, <4>3
    <3>2. ASSUME Unmoved, NEW s \in stubs
          PROVE  impl[s[2]] = PoolOf[s[1]] /\ PoolOf[s[1]] # i /\ s[2] # f
      <4>1. PICK p \in Packets, g \in Fronts : s = <<p, g>>
          BY <1>3
      <4> QED BY <3>1, <3>2, <4>1
    <3> QED BY <3>2
  <2>2. Unmoved' => StubsHome'
      BY <1>1, <1>3, <2>1 DEF StubsHome, Unmoved
  <2>3. JobsLive'
    <3>1. ~HasWork(i)'
        BY <1>1, <1>3 DEF HasWork
    <3>2. \A j \in channels : j # i /\ (HasWork(j)' <=> HasWork(j))
        BY <1>1, <1>3 DEF HasWork, Scheduled
    <3>3. {j \in channels' : HasWork(j)'} \subseteq jobs'
        BY <1>1, <3>1, <3>2 DEF IInv, Kept, JobsLive
    <3>4. "destroyed with packets" \notin careless' =>
              jobs' \subseteq {j \in channels' : HasWork(j)'}
        BY <1>1, <3>2 DEF IInv, Kept, JobsLive
    <3> QED BY <3>3, <3>4 DEF JobsLive
  <2>4. PacketsHome'
    <3> SUFFICES ASSUME Unmoved PROVE PacketsHome'
        BY <1>1 DEF PacketsHome, Unmoved
    <3>1. ASSUME NEW p \in SlotsOf(i), NEW g \in Fronts PROVE <<p, g>> \notin stubs
        BY <2>1 DEF SlotsOf
    <3>2. \A j \in channels : j # i /\ j \in Impls
        BY <1>1, <1>3
    <3>3. i \in Impls /\ SlotsOf(i)' = SlotsOf(i)
        BY DEF SlotsOf
    <3>4. ASSUME NEW j \in channels'
          PROVE  /\ free'[j] \cup queued'[j] \subseteq SlotsOf(j)
                 /\ free'[j] \cap queued'[j] = {}
                 /\ \A p \in SlotsOf(j) :
                     \/ p \in free'[j] \cup queued'[j] /\ \A g \in Fronts : <<p, g>> \notin stubs'
                     \/ /\ p \notin free'[j] \cup queued'[j]
                        /\ {g \in Fronts : <<p, g>> \in stubs'} = {base'[j]}
      <4>1. CASE j = i
          BY <1>1, <1>3, <3>1, <4>1
      <4>2. CASE j # i
        <5>1. j \in channels /\ j \in Impls
            BY <1>1, <3>2, <4>2
        <5>2. free'[j] = free[j] /\ queued'[j] = queued[j] /\ base'[j] = base[j]
            BY <1>1, <1>3, <4>2, <5>1
        <5> QED BY <1>1, <5>1, <5>2 DEF IInv, Kept, PacketsHome, Unmoved
      <4> QED BY <4>1, <4>2
    <3> QED BY <3>4 DEF PacketsHome, SlotsOf
  <2> QED BY <2>2, <2>3, <2>4 DEF Kept
<1>7. Quiet'
    BY <1>1, <1>2 DEF IInv, Quiet, QuietWhenStopped
<1>8. OnlyLiveUsed'
    BY <1>1 DEF IInv, OnlyLiveUsed
<1> QED BY <1>4, <1>5, <1>6, <1>7, <1>8 DEF IInv

\* Move hands a channel that nobody uses over to another front end.
LEMMA MoveIInv ==
    ASSUME IInv, NEW f \in Fronts, NEW g \in Fronts, Move(f, g)
    PROVE  IInv'
<1> DEFINE i == impl[f]
<1>1. /\ control = "stopped" /\ f \in alive /\ i # NoImpl /\ ~InUse(f) /\ ~broken
      /\ alive' = alive \cup {g}
      /\ impl' = [impl EXCEPT ![g] = i, ![f] = NoImpl]
      /\ bound' = [bound EXCEPT ![g] = bound[f], ![f] = NoFront]
      /\ base' = [base EXCEPT ![i] = g]
      /\ UNCHANGED <<channels, kind, free, queued, jobs, stubs, valid, control, pending,
                     receivers, target, running, thread, broken>>
    BY DEF Move, MoveTo, packetVars, receiverVars
<1>2. /\ impl \in [Fronts -> Impls \cup {NoImpl}]
      /\ bound \in [Fronts -> Fronts \cup {NoFront, User}]
      /\ base \in [Impls -> Fronts \cup {NoFront}] /\ kind \in [Impls -> Kinds]
      /\ free \in [Impls -> SUBSET Packets] /\ queued \in [Impls -> SUBSET Packets]
      /\ channels \subseteq Impls /\ stubs \subseteq Packets \X Fronts
      /\ PoolOf \in [Packets -> Impls] /\ NoImpl \notin Impls
    BY LifecycleAssumption DEF IInv, TypeOK
<1>3. i \in channels /\ i \in Impls /\ base[i] = f
    BY <1>1, <1>2 DEF IInv, Owned, OneOwner
<1>4. /\ careless \subseteq careless' /\ careless' \subseteq Faults
      /\ Unmoved' => Unmoved /\ impl[g] = NoImpl /\ f # g
      /\ "moved sender" \notin careless' =>
             "moved sender" \notin careless /\ kind[i] # "sender"
      /\ "destroyed with packets" \in careless' => "destroyed with packets" \in careless
    BY <1>1 DEF Move, IInv, TypeOK, Faults, Unmoved
<1>5. ASSUME Unmoved' PROVE \A p \in Packets : <<p, f>> \notin stubs /\ <<p, g>> \notin stubs
    BY <1>1, <1>2, <1>4, <1>5 DEF InUse, IInv, Kept, StubsHome
<1> HIDE DEF i
<1>6. TypeOK'
  <2>1. impl' \in [Fronts -> Impls \cup {NoImpl}]
      BY <1>1, <1>2, <1>3
  <2>2. bound' \in [Fronts -> Fronts \cup {NoFront, User}]
      BY <1>1, <1>2
  <2>3. base' \in [Impls -> Fronts \cup {NoFront}]
      BY <1>1, <1>2
  <2> QED BY <1>1, <1>4, <2>1, <2>2, <2>3 DEF IInv, TypeOK
<1>7. Owned'
  <2>1. \A h \in Fronts : impl'[h] # NoImpl => /\ h \in alive'
                                              /\ impl'[h] \in channels'
                                              /\ base'[impl'[h]] = h
    <3>1. ASSUME NEW h \in Fronts, impl'[h] # NoImpl
          PROVE  h \in alive' /\ impl'[h] \in channels' /\ base'[impl'[h]] = h
      <4>1. CASE h = g
          BY <1>1, <1>2, <1>3, <3>1, <4>1
      <4>2. CASE h # g
        <5>1. h # f /\ impl'[h] = impl[h]
            BY <1>1, <1>2, <3>1, <4>2
        <5>2. h \in alive /\ impl[h] \in channels /\ base[impl[h]] = h
            BY <3>1, <5>1 DEF IInv, Owned, OneOwner
        <5> QED BY <1>1, <1>2, <1>3, <5>1, <5>2
      <4> QED BY <4>1, <4>2
    <3> QED BY <3>1
  <2>2. \A j \in channels' : base'[j] \in Fronts
      BY <1>1, <1>2 DEF IInv, Owned
  <2>3. ASSUME Unmoved', NEW j \in channels'
        PROVE  /\ impl'[base'[j]] = j
               /\ "moved sender" \notin careless' =>
                      bound'[base'[j]] = IF kind'[j] = "sender" THEN base'[j] ELSE User
    <3>1. CASE j = i
      <4>1. "moved sender" \notin careless' => bound[f] = User
          BY <1>3, <1>4, <2>3 DEF IInv, Owned, Callbacks
      <4> QED BY <1>1, <1>2, <1>3, <1>4, <2>3, <3>1, <4>1
    <3>2. CASE j # i
      <4>1. /\ j \in channels /\ j \in Impls /\ base[j] \in Fronts /\ impl[base[j]] = j
            /\ "moved sender" \notin careless =>
                   bound[base[j]] = IF kind[j] = "sender" THEN base[j] ELSE User
          BY <1>1, <1>2, <1>4, <2>3 DEF IInv, Owned, OneOwner, Callbacks, Unmoved
      <4>2. base[j] # f /\ base[j] # g
          BY <1>2, <1>4, <2>3, <3>2, <4>1 DEF i
      <4> QED BY <1>1, <1>2, <1>4, <3>2, <4>1, <4>2
    <3> QED BY <3>1, <3>2
  <2> QED BY <2>1, <2>2, <2>3 DEF Owned, OneOwner, Callbacks, Unmoved
<1>8. Kept'
  <2>1. ASSUME Unmoved' PROVE StubsHome'
    <3>1. ASSUME NEW x \in stubs PROVE x[2] \in Fronts \ {f, g} /\ impl[x[2]] = PoolOf[x[1]]
      <4>1. PICK p \in Packets, h \in Fronts : x = <<p, h>>
          BY <1>2
      <4> QED BY <1>4, <1>5, <2>1, <4>1 DEF IInv, Kept, StubsHome
    <3> QED BY <1>1, <1>2, <3>1 DEF StubsHome
  <2>2. JobsLive'
      BY <1>1, <1>4 DEF IInv, Kept, JobsLive, HasWork, Scheduled
  <2>3. ASSUME Unmoved', NEW p \in SlotsOf(i)
        PROVE  p \in free[i] \cup queued[i] /\ \A h \in Fronts : <<p, h>> \notin stubs
    <3>1. p \in Packets
        BY DEF SlotsOf
    <3> QED BY <1>3, <1>4, <1>5, <2>3, <3>1 DEF IInv, Kept, PacketsHome, Unmoved
  <2>4. PacketsHome'
      BY <1>1, <1>2, <1>3, <1>4, <2>3 DEF IInv, Kept, PacketsHome, Unmoved
  <2> QED BY <2>1, <2>2, <2>4 DEF Kept
<1>9. Quiet' /\ OnlyLiveUsed'
    BY <1>1 DEF IInv, Quiet, QuietWhenStopped, OnlyLiveUsed
<1> QED BY <1>6, <1>7, <1>8, <1>9 DEF IInv

\* A front end takes its channel along when it is destroyed.
LEMMA DestroyIInv ==
    ASSUME IInv, NEW f \in Fronts, Destroy(f)
    PROVE  IInv'
<1>1. /\ control = "stopped" /\ f \in alive /\ ~InUse(f) /\ ~broken
      /\ alive' = alive \ {f}
      /\ impl' = [impl EXCEPT ![f] = NoImpl]
      /\ bound' = [bound EXCEPT ![f] = NoFront]
      /\ channels' = channels \ {impl[f]}
      /\ UNCHANGED <<base, kind, free, queued, jobs, stubs, valid, control, pending,
                     receivers, target, running, thread, broken>>
    BY DEF Destroy, Delete, packetVars, receiverVars
<1>2. /\ impl \in [Fronts -> Impls \cup {NoImpl}]
      /\ bound \in [Fronts -> Fronts \cup {NoFront, User}]
      /\ base \in [Impls -> Fronts \cup {NoFront}]
      /\ channels \subseteq Impls /\ stubs \subseteq Packets \X Fronts
      /\ PoolOf \in [Packets -> Impls] /\ NoImpl \notin Impls
    BY LifecycleAssumption DEF IInv, TypeOK
<1>3. /\ careless \subseteq careless' /\ careless' \subseteq Faults
      /\ Unmoved' <=> Unmoved
      /\ "moved sender" \in careless' <=> "moved sender" \in careless
      /\ "destroyed with packets" \notin careless' =>
             /\ "destroyed with packets" \notin careless
             /\ impl[f] # NoImpl => ~HasWork(impl[f])
    BY DEF Destroy, IInv, TypeOK, Faults, Unmoved
<1>4. \A p \in Packets : <<p, f>> \notin stubs
    BY <1>1 DEF InUse
<1>5. \A j \in channels' : j \in channels /\ j \in Impls /\ j # impl[f] /\ base[j] \in Fronts
    BY <1>1, <1>2 DEF IInv, Owned
<1>6. TypeOK'
    BY <1>1, <1>2, <1>3 DEF IInv, TypeOK
<1>7. Owned'
  <2>1. \A h \in Fronts : impl'[h] # NoImpl => /\ h \in alive'
                                              /\ impl'[h] \in channels'
                                              /\ base'[impl'[h]] = h
    <3>1. ASSUME NEW h \in Fronts, impl'[h] # NoImpl PROVE h # f /\ impl'[h] = impl[h]
        BY <1>1, <1>2, <3>1
    <3>2. ASSUME NEW h \in Fronts, h # f, impl[h] # NoImpl
          PROVE  /\ h \in alive /\ impl[h] \in channels /\ base[impl[h]] = h
                 /\ impl[h] # impl[f]
        BY <1>2, <3>2 DEF IInv, Owned, OneOwner
    <3> QED BY <1>1, <3>1, <3>2
  <2>2. ASSUME Unmoved', NEW j \in channels'
        PROVE  /\ impl'[base'[j]] = j
               /\ bound'[base'[j]] = bound[base[j]]
    <3>1. impl[base[j]] = j
        BY <1>3, <1>5, <2>2 DEF IInv, Owned, OneOwner, Unmoved
    <3> QED BY <1>1, <1>2, <1>5, <3>1
  <2>3. Unmoved' /\ "moved sender" \notin careless' => Callbacks'
      BY <1>1, <1>3, <1>5, <2>2 DEF IInv, Owned, Callbacks
  <2> QED BY <1>1, <1>5, <2>1, <2>2, <2>3 DEF Owned, OneOwner, Unmoved
<1>8. Kept'
  <2>1. Unmoved' => StubsHome'
    <3>1. ASSUME Unmoved, NEW p \in Packets, NEW g \in Fronts, <<p, g>> \in stubs
          PROVE  impl'[g] = PoolOf[p]
      <4>1. impl[g] = PoolOf[p] /\ g # f
          BY <1>4, <3>1, StubFact
      <4> QED BY <1>1, <1>2, <4>1
    <3>2. ASSUME Unmoved, NEW s \in stubs PROVE impl'[s[2]] = PoolOf[s[1]]
      <4>1. PICK p \in Packets, g \in Fronts : s = <<p, g>>
          BY <1>2
      <4> QED BY <3>1, <3>2, <4>1
    <3> QED BY <1>1, <1>3, <3>2 DEF StubsHome
  <2>2. JobsLive'
    <3>1. \A j \in channels' : j \in channels /\ (HasWork(j)' <=> HasWork(j))
        BY <1>1, <1>5 DEF HasWork, Scheduled
    <3>2. {j \in channels' : HasWork(j)'} \subseteq jobs'
        BY <1>1, <3>1 DEF IInv, Kept, JobsLive
    <3>3. ASSUME "destroyed with packets" \notin careless', NEW j \in jobs'
          PROVE  j \in channels' /\ HasWork(j)'
      <4>1. j \in channels /\ HasWork(j)
          BY <1>1, <1>3, <3>3 DEF IInv, Kept, JobsLive
      <4>2. j # impl[f]
          BY <1>2, <1>3, <3>3, <4>1
      <4> QED BY <1>1, <3>1, <4>1, <4>2
    <3> QED BY <3>2, <3>3 DEF JobsLive
  <2>3. PacketsHome'
      BY <1>1, <1>3, <1>5 DEF IInv, Kept, PacketsHome, Unmoved
  <2> QED BY <2>1, <2>2, <2>3 DEF Kept
<1>9. Quiet' /\ OnlyLiveUsed'
    BY <1>1 DEF IInv, Quiet, QuietWhenStopped, OnlyLiveUsed
<1> QED BY <1>6, <1>7, <1>8, <1>9 DEF IInv
-----------------------------------------------------------------------------
(* Packets go from place to place *)

\* The owner of a channel.
LEMMA OwnerFact ==
    ASSUME IInv, NEW f \in Fronts, impl[f] # NoImpl
    PROVE  impl[f] \in channels /\ impl[f] \in Impls /\ base[impl[f]] = f
<1>1. impl \in [Fronts -> Impls \cup {NoImpl}]
    BY DEF IInv, TypeOK
<1> QED BY <1>1 DEF IInv, Owned, OneOwner

\* A packet of a channel is not in two places.
LEMMA PlaceFact ==
    ASSUME IInv, Unmoved, NEW i \in channels, NEW p \in Packets
    PROVE  /\ p \in free[i] \cup queued[i] =>
                  PoolOf[p] = i /\ \A g \in Fronts : <<p, g>> \notin stubs
           /\ ~(p \in free[i] /\ p \in queued[i])
           /\ \A g \in Fronts : <<p, g>> \in stubs /\ impl[g] = i =>
                  /\ PoolOf[p] = i /\ g = base[i]
                  /\ p \notin free[i] \cup queued[i]
                  /\ \A h \in Fronts : <<p, h>> \in stubs => h = g
<1>1. p \in free[i] \cup queued[i] => p \in SlotsOf(i)
    BY DEF IInv, Kept, PacketsHome, Unmoved
<1>2. p \in free[i] \cup queued[i] => \A g \in Fronts : <<p, g>> \notin stubs
    BY <1>1 DEF IInv, Kept, PacketsHome, Unmoved
<1>3. ASSUME NEW g \in Fronts, <<p, g>> \in stubs, impl[g] = i
      PROVE  /\ PoolOf[p] = i /\ p \notin free[i] \cup queued[i]
             /\ \A h \in Fronts : <<p, h>> \in stubs => h = g
  <2>1. p \in SlotsOf(i)
      BY <1>3 DEF SlotsOf, IInv, Kept, StubsHome
  <2>2. {h \in Fronts : <<p, h>> \in stubs} = {base[i]}
      BY <1>2, <1>3, <2>1 DEF IInv, Kept, PacketsHome, Unmoved
  <2> QED BY <1>2, <1>3, <2>1, <2>2 DEF SlotsOf
<1>4. ASSUME NEW g \in Fronts, impl[g] = i PROVE g = base[i]
  <2>1. i # NoImpl
      BY LifecycleAssumption DEF IInv, TypeOK
  <2> QED BY <1>4, <2>1 DEF IInv, Owned, OneOwner
<1>5. free[i] \cap queued[i] = {}
    BY DEF IInv, Kept, PacketsHome, Unmoved
<1> QED BY <1>1, <1>2, <1>3, <1>4, <1>5 DEF SlotsOf

\* One packet of channel i goes to the place that it is now in alone.
Moved(i, p) ==
    /\ \A j \in Impls \ {i} : free'[j] = free[j] /\ queued'[j] = queued[j]
    /\ \A q \in Packets \ {p} : /\ q \in free'[i] <=> q \in free[i]
                                /\ q \in queued'[i] <=> q \in queued[i]
                                /\ \A g \in Fronts : <<q, g>> \in stubs' <=> <<q, g>> \in stubs
    /\ \/ /\ p \in free'[i] \cup queued'[i] /\ ~(p \in free'[i] /\ p \in queued'[i])
          /\ \A g \in Fronts : <<p, g>> \notin stubs'
       \/ /\ p \notin free'[i] \cup queued'[i]
          /\ \A g \in Fronts : <<p, g>> \in stubs' <=> g = base[i]

LEMMA MovedKept ==
    ASSUME IInv, TypeOK', UNCHANGED channelVars, Unmoved,
           NEW i \in channels, NEW p \in Packets, PoolOf[p] = i, Moved(i, p)
    PROVE  PacketsHome' /\ StubsHome'
<1>1. UNCHANGED <<impl, channels, base>> /\ i \in Impls /\ impl[base[i]] = i
      /\ base[i] \in Fronts /\ PoolOf \in [Packets -> Impls]
      /\ channels \subseteq Impls
    BY LifecycleAssumption DEF channelVars, IInv, TypeOK, Owned, OneOwner, Unmoved
<1>2. stubs' \subseteq Packets \X Fronts /\ stubs \subseteq Packets \X Fronts
      /\ free' \in [Impls -> SUBSET Packets] /\ queued' \in [Impls -> SUBSET Packets]
    BY DEF IInv, TypeOK
<1>3. StubsHome'
  <2>1. ASSUME NEW q \in Packets, NEW g \in Fronts, <<q, g>> \in stubs'
        PROVE  impl[g] = PoolOf[q]
    <3>1. CASE q = p
        BY <1>1, <2>1, <3>1 DEF Moved
    <3>2. CASE q # p
      <4>1. <<q, g>> \in stubs
          BY <2>1, <3>2 DEF Moved
      <4> QED BY <4>1 DEF IInv, Kept, StubsHome
    <3> QED BY <3>1, <3>2
  <2> QED BY <1>1, <1>2, <2>1 DEF StubsHome
<1>4. ASSUME NEW j \in channels, NEW q \in SlotsOf(j)
      PROVE  \/ q \in free'[j] \cup queued'[j] /\ \A f \in Fronts : <<q, f>> \notin stubs'
             \/ /\ q \notin free'[j] \cup queued'[j]
                /\ {f \in Fronts : <<q, f>> \in stubs'} = {base[j]}
  <2>1. q \in Packets /\ PoolOf[q] = j
      BY DEF SlotsOf
  <2>2. CASE q = p
      BY <1>1, <2>1, <2>2 DEF Moved
  <2>3. CASE q # p
    <3>1. /\ q \in free'[j] \cup queued'[j] <=> q \in free[j] \cup queued[j]
          /\ \A f \in Fronts : <<q, f>> \in stubs' <=> <<q, f>> \in stubs
        BY <1>1, <2>1, <2>3 DEF Moved
    <3> QED BY <3>1 DEF IInv, Kept, PacketsHome, Unmoved
  <2> QED BY <2>2, <2>3
<1>5. ASSUME NEW j \in channels
      PROVE  /\ free'[j] \cup queued'[j] \subseteq SlotsOf(j)
             /\ free'[j] \cap queued'[j] = {}
  <2>1. free[j] \cup queued[j] \subseteq SlotsOf(j) /\ free[j] \cap queued[j] = {}
      BY DEF IInv, Kept, PacketsHome, Unmoved
  <2>2. CASE j = i
      BY <1>1, <1>2, <2>1, <2>2 DEF Moved, SlotsOf
  <2>3. CASE j # i
      BY <1>1, <2>1, <2>3 DEF Moved
  <2> QED BY <2>2, <2>3
<1> QED BY <1>1, <1>3, <1>4, <1>5 DEF PacketsHome

\* A careful owner leaves no channel without work in the heaps, and every one
\* in them can be called.
LEMMA NotStale ==
    ASSUME IInv, careless = {}
    PROVE  ~Stale /\ ~broken /\ \A i \in jobs : Callable(i)
<1>1. ~broken /\ ~Stale /\ \A i \in jobs : i \in channels /\ HasWork(i)
    BY DEF IInv, Kept, JobsLive, OnlyLiveUsed, Stale
<1>2. ASSUME NEW i \in jobs PROVE Callable(i)
  <2>1. i \in channels /\ HasWork(i) /\ base[i] \in Fronts /\ impl[base[i]] = i /\ i # NoImpl
      BY <1>1, LifecycleAssumption DEF IInv, TypeOK, Owned, OneOwner
  <2>2. base[i] \in alive
      BY <2>1 DEF IInv, Owned, OneOwner
  <2>3. bound[base[i]] = IF kind[i] = "sender" THEN base[i] ELSE User
      BY <2>1 DEF IInv, Owned, Callbacks, Unmoved
  <2>4. CASE kind[i] = "sender"
      BY <2>1, <2>2, <2>3, <2>4 DEF Callable, HasWork
  <2>5. CASE kind[i] # "sender"
      BY <2>1, <2>2, <2>3, <2>5 DEF Callable, HasWork
  <2> QED BY <2>4, <2>5
<1> QED BY <1>1, <1>2

\* The scheduler hears of the first packet and of the last.
LEMMA EnqueueJobs ==
    ASSUME IInv, UNCHANGED <<channelVars, careless>>,
           NEW i \in channels, NEW p \in Packets, Enqueue(i, p)
    PROVE  /\ JobsLive' /\ OnlyLiveUsed'
           /\ queued' \in [Impls -> SUBSET Packets] /\ jobs' \in SUBSET Impls
           /\ broken' \in BOOLEAN
<1>1. queued' \in [Impls -> SUBSET Packets] /\ jobs' \in SUBSET Impls /\ broken' \in BOOLEAN
    BY DEF IInv, TypeOK, Enqueue, Compare
<1>2. JobsLive'
  <2>1. /\ UNCHANGED <<channels, kind, careless>> /\ channels \subseteq Impls
        /\ queued' = [queued EXCEPT ![i] = @ \cup {p}] /\ queued \in [Impls -> SUBSET Packets]
      BY DEF channelVars, Enqueue, IInv, TypeOK
  <2>2. \A j \in channels \ {i} : HasWork(j)' <=> HasWork(j)
      BY <2>1 DEF HasWork, Scheduled
  <2>3. HasWork(i)' <=> Scheduled(i)
      BY <2>1 DEF HasWork, Scheduled
  <2>4. jobs' = IF Scheduled(i) /\ queued[i] = {} THEN jobs \cup {i} ELSE jobs
      BY DEF Enqueue
  <2>5. HasWork(i) <=> Scheduled(i) /\ queued[i] # {}
      BY DEF HasWork
  <2>6. {j \in channels' : HasWork(j)'} \subseteq jobs'
      BY <2>1, <2>2, <2>3, <2>4, <2>5 DEF IInv, Kept, JobsLive
  <2>7. ASSUME "destroyed with packets" \notin careless', NEW j \in jobs'
        PROVE  j \in channels' /\ HasWork(j)'
    <3>1. CASE j = i
        BY <2>1, <2>3, <2>4, <2>5, <2>7, <3>1 DEF IInv, Kept, JobsLive
    <3>2. CASE j # i
        BY <2>1, <2>2, <2>4, <2>7, <3>2 DEF IInv, Kept, JobsLive
    <3> QED BY <3>1, <3>2
  <2> QED BY <2>6, <2>7 DEF JobsLive
<1>3. ASSUME careless = {} PROVE ~broken'
  <2>1. ~Stale
      BY <1>3, NotStale
  <2>2. i \in jobs => queued[i] # {}
      BY <2>1 DEF Stale, HasWork
  <2> QED BY <2>1, <2>2 DEF Enqueue, Compare
<1> QED BY <1>1, <1>2, <1>3 DEF OnlyLiveUsed

LEMMA DequeueJobs ==
    ASSUME IInv, UNCHANGED <<channelVars, careless>>,
           NEW i \in channels, NEW p \in queued[i], Dequeue(i, p)
    PROVE  /\ JobsLive' /\ OnlyLiveUsed'
           /\ queued' \in [Impls -> SUBSET Packets] /\ jobs' \in SUBSET Impls
           /\ broken' \in BOOLEAN
<1>1. queued' \in [Impls -> SUBSET Packets] /\ jobs' \in SUBSET Impls /\ broken' \in BOOLEAN
    BY DEF IInv, TypeOK, Dequeue, Compare
<1>2. JobsLive'
  <2>1. /\ UNCHANGED <<channels, kind, careless>> /\ channels \subseteq Impls
        /\ queued' = [queued EXCEPT ![i] = @ \ {p}] /\ queued \in [Impls -> SUBSET Packets]
      BY DEF channelVars, Dequeue, IInv, TypeOK
  <2>2. \A j \in channels \ {i} : HasWork(j)' <=> HasWork(j)
      BY <2>1 DEF HasWork, Scheduled
  <2>3. HasWork(i)' <=> Scheduled(i) /\ queued[i] # {p}
      BY <2>1 DEF HasWork, Scheduled
  <2>4. jobs' = IF Scheduled(i) /\ queued[i] = {p} THEN jobs \ {i} ELSE jobs
      BY DEF Dequeue
  <2>5. HasWork(i) <=> Scheduled(i)
      BY DEF HasWork
  <2>6. {j \in channels' : HasWork(j)'} \subseteq jobs'
      BY <2>1, <2>2, <2>3, <2>4, <2>5 DEF IInv, Kept, JobsLive
  <2>7. ASSUME "destroyed with packets" \notin careless', NEW j \in jobs'
        PROVE  j \in channels' /\ HasWork(j)'
    <3>1. CASE j = i
        BY <2>1, <2>3, <2>4, <2>5, <2>7, <3>1 DEF IInv, Kept, JobsLive
    <3>2. CASE j # i
        BY <2>1, <2>2, <2>4, <2>7, <3>2 DEF IInv, Kept, JobsLive
    <3> QED BY <3>1, <3>2
  <2> QED BY <2>6, <2>7 DEF JobsLive
<1>3. careless = {} => ~broken'
    BY NotStale DEF Dequeue, Compare
<1> QED BY <1>1, <1>2, <1>3 DEF OnlyLiveUsed

\* A step of a receiver's thread that neither starts nor ends it.
LEMMA QuietKept ==
    ASSUME IInv, UNCHANGED <<receivers, target, running, valid, control, pending>>,
           \A r \in Receivers : thread'[r] = "none" <=> thread[r] = "none"
    PROVE  Quiet'
<1>1. control' = "stopped" => \A r \in Receivers : thread'[r] = "none"
    BY DEF IInv, Quiet, QuietWhenStopped
<1>2. control' = "stopping" => \A r \in receivers' \ pending' : ~running'[r]
    BY DEF IInv, Quiet, QuietWhenStopped
<1>3. ~valid' => control' = "stopped"
    BY DEF IInv, Quiet, QuietWhenStopped
<1>4. receivers \subseteq Receivers
    BY DEF IInv, TypeOK
<1>5. /\ pending' \subseteq receivers'
      /\ control' = "stopping" => \A r \in receivers' \ pending' : thread'[r] = "none"
      /\ \A r \in Receivers : thread'[r] # "none" => r \in receivers'
      /\ \A r \in receivers' : target'[r] \in Fronts
    BY <1>4 DEF IInv, Quiet
<1> QED BY <1>1, <1>2, <1>3, <1>5 DEF Quiet, QuietWhenStopped

\* Channels and packets stay as they are.
LEMMA ControlKept ==
    ASSUME IInv, UNCHANGED <<channelVars, packetVars, careless>>
    PROVE  Owned' /\ Kept'
<1>1. Owned'
    BY DEF channelVars, IInv, Owned, OneOwner, Callbacks, Unmoved
<1>2. Kept'
    BY DEF channelVars, packetVars, IInv, Kept, JobsLive, HasWork, Scheduled, PacketsHome,
           StubsHome, Unmoved
<1> QED BY <1>1, <1>2

\* So they do when a step only finds out, or not, that something is gone.
LEMMA BrokenIInv ==
    ASSUME IInv, UNCHANGED <<channelVars, packetVars, careless>>,
           UNCHANGED <<receivers, target, running, valid, control, pending>>,
           thread' \in [Receivers -> {"none", "loop", "body"}],
           \A r \in Receivers : thread'[r] = "none" <=> thread[r] = "none",
           broken' \in BOOLEAN, careless = {} => ~broken'
    PROVE  IInv'
<1>1. TypeOK'
    BY DEF channelVars, packetVars, IInv, TypeOK
<1>2. OnlyLiveUsed'
    BY DEF OnlyLiveUsed
<1> QED BY <1>1, <1>2, ControlKept, QuietKept DEF IInv

\* What a packet step has to show.
LEMMA PacketIInv ==
    ASSUME IInv, UNCHANGED <<channelVars, valid, control, pending, careless>>,
           UNCHANGED receiverVars \/ \E r \in Receivers : Receive(r),
           JobsLive', OnlyLiveUsed', broken' \in BOOLEAN,
           queued' \in [Impls -> SUBSET Packets], jobs' \in SUBSET Impls,
           free' \in [Impls -> SUBSET Packets], stubs' \in SUBSET (Packets \X Fronts),
           Unmoved => \E i \in channels, p \in Packets : PoolOf[p] = i /\ Moved(i, p)
    PROVE  IInv'
<1>1. UNCHANGED <<receivers, target, running>>
    BY DEF receiverVars, Receive
<1>2. /\ thread' \in [Receivers -> {"none", "loop", "body"}]
      /\ \A r \in Receivers : thread'[r] = "none" <=> thread[r] = "none"
    BY DEF receiverVars, Receive, IInv, TypeOK
<1>3. TypeOK'
    BY <1>1, <1>2 DEF channelVars, IInv, TypeOK
<1>4. Owned'
    BY DEF channelVars, IInv, Owned, OneOwner, Callbacks, Unmoved
<1>5. Kept'
  <2>1. Unmoved => PacketsHome' /\ StubsHome'
      BY <1>3, MovedKept
  <2>2. Unmoved' <=> Unmoved
      BY DEF Unmoved
  <2>3. ~Unmoved' => PacketsHome'
      BY DEF Unmoved, PacketsHome
  <2> QED BY <2>1, <2>2, <2>3 DEF Kept
<1>6. Quiet'
    BY <1>1, <1>2, QuietKept
<1> QED BY <1>3, <1>4, <1>5, <1>6 DEF IInv

\* Acquire takes a packet from the pool or, from an empty one, from the queue.
LEMMA AcquireIInv == ASSUME IInv, NEW f \in Fronts, Acquire(f) PROVE IInv'
<1> DEFINE i == impl[f]
<1>1. i # NoImpl /\ UNCHANGED <<channelVars, valid, control, pending, receiverVars, careless>>
    BY DEF Acquire
<1>2. i \in channels /\ i \in Impls /\ base[i] = f
    BY <1>1, OwnerFact
<1>3. /\ free \in [Impls -> SUBSET Packets] /\ queued \in [Impls -> SUBSET Packets]
      /\ stubs \in SUBSET (Packets \X Fronts) /\ jobs \in SUBSET Impls /\ broken \in BOOLEAN
    BY DEF IInv, TypeOK
<1>4. ASSUME NEW p \in free[i], free' = [free EXCEPT ![i] = @ \ {p}],
             stubs' = stubs \cup {<<p, f>>}, UNCHANGED <<queued, jobs, broken>>
      PROVE  IInv'
  <2>1. p \in Packets
      BY <1>2, <1>3
  <2>2. Unmoved =>
            PoolOf[p] = i /\ p \notin queued[i] /\ \A g \in Fronts : <<p, g>> \notin stubs
      BY <1>2, <2>1, PlaceFact
  <2> HIDE DEF i
  <2>3. Unmoved => Moved(i, p)
      BY <1>2, <1>3, <1>4, <2>1, <2>2 DEF Moved
  <2>4. JobsLive' /\ OnlyLiveUsed'
      BY <1>1, <1>4 DEF channelVars, IInv, Kept, JobsLive, HasWork, Scheduled, OnlyLiveUsed
  <2>5. free' \in [Impls -> SUBSET Packets] /\ stubs' \in SUBSET (Packets \X Fronts)
      BY <1>2, <1>3, <1>4, <2>1
  <2> QED BY <1>1, <1>2, <1>3, <1>4, <2>1, <2>2, <2>3, <2>4, <2>5, PacketIInv
<1>5. ASSUME NEW p \in queued[i], Dequeue(i, p),
             stubs' = stubs \cup {<<p, f>>}, UNCHANGED free
      PROVE  IInv'
  <2>1. p \in Packets
      BY <1>2, <1>3
  <2>2. Unmoved =>
            PoolOf[p] = i /\ p \notin free[i] /\ \A g \in Fronts : <<p, g>> \notin stubs
      BY <1>2, <2>1, PlaceFact
  <2> HIDE DEF i
  <2>3. Unmoved => Moved(i, p)
      BY <1>2, <1>3, <1>5, <2>1, <2>2 DEF Moved, Dequeue
  <2>4. /\ JobsLive' /\ OnlyLiveUsed' /\ broken' \in BOOLEAN
        /\ queued' \in [Impls -> SUBSET Packets] /\ jobs' \in SUBSET Impls
      BY <1>1, <1>2, <1>5, DequeueJobs
  <2>5. free' \in [Impls -> SUBSET Packets] /\ stubs' \in SUBSET (Packets \X Fronts)
      BY <1>3, <1>5, <2>1
  <2> QED BY <1>1, <1>2, <1>5, <2>1, <2>2, <2>3, <2>4, <2>5, PacketIInv
<1> QED BY <1>4, <1>5 DEF Acquire

\* Filling puts a packet into the queue of its own channel.
LEMMA FillIInv ==
    ASSUME IInv, NEW f \in Fronts, NEW p \in Packets, Fill(p, f) PROVE IInv'
<1> DEFINE i == impl[f]
<1>1. /\ i # NoImpl /\ <<p, f>> \in stubs /\ Enqueue(i, p) /\ stubs' = stubs \ {<<p, f>>}
      /\ UNCHANGED <<free, channelVars, valid, control, pending, receiverVars, careless>>
    BY DEF Fill
<1>2. i \in channels /\ i \in Impls /\ base[i] = f
    BY <1>1, OwnerFact
<1>3. /\ free \in [Impls -> SUBSET Packets] /\ queued \in [Impls -> SUBSET Packets]
      /\ stubs \in SUBSET (Packets \X Fronts)
    BY DEF IInv, TypeOK
<1>4. Unmoved => /\ PoolOf[p] = i /\ p \notin free[i] \cup queued[i]
                 /\ \A g \in Fronts : <<p, g>> \in stubs => g = f
    BY <1>1, <1>2, PlaceFact
<1> HIDE DEF i
<1>5. Unmoved => Moved(i, p)
    BY <1>1, <1>2, <1>3, <1>4 DEF Moved, Enqueue
<1>6. /\ JobsLive' /\ OnlyLiveUsed' /\ broken' \in BOOLEAN
      /\ queued' \in [Impls -> SUBSET Packets] /\ jobs' \in SUBSET Impls
    BY <1>1, <1>2, EnqueueJobs
<1>7. free' \in [Impls -> SUBSET Packets] /\ stubs' \in SUBSET (Packets \X Fronts)
    BY <1>1, <1>3
<1> QED BY <1>1, <1>2, <1>4, <1>5, <1>6, <1>7, PacketIInv

\* A packet processed goes back into the pool that it is from.
LEMMA ProcessIInv ==
    ASSUME IInv, NEW i \in channels, NEW h \in Impls, Unmoved => h = i,
           NEW p \in queued[i], Dequeue(i, p),
           free' = [free EXCEPT ![h] = @ \cup {p}],
           UNCHANGED <<stubs, channelVars, valid, control, pending, receiverVars, careless>>
    PROVE  IInv'
<1>1. /\ free \in [Impls -> SUBSET Packets] /\ queued \in [Impls -> SUBSET Packets]
      /\ stubs \in SUBSET (Packets \X Fronts) /\ i \in Impls
    BY DEF IInv, TypeOK
<1>2. p \in Packets
    BY <1>1
<1>3. Unmoved => PoolOf[p] = i /\ \A g \in Fronts : <<p, g>> \notin stubs
    BY <1>2, PlaceFact
<1>4. Unmoved => Moved(i, p)
    BY <1>1, <1>2, <1>3 DEF Moved, Dequeue
<1>5. /\ JobsLive' /\ OnlyLiveUsed' /\ broken' \in BOOLEAN
      /\ queued' \in [Impls -> SUBSET Packets] /\ jobs' \in SUBSET Impls
    BY DequeueJobs
<1>6. free' \in [Impls -> SUBSET Packets] /\ stubs' \in SUBSET (Packets \X Fronts)
    BY <1>1, <1>2
<1> QED BY <1>2, <1>3, <1>4, <1>5, <1>6, PacketIInv

\* Poll and the workers do that; a worker finds the channel as its base's.
LEMMA PollIInv ==
    ASSUME IInv,
           (\E f \in Fronts : PollAndRelease(f)) \/ (\E i \in Impls : Execute(i))
    PROVE  IInv'
<1>1. ASSUME NEW f \in Fronts, PollAndRelease(f) PROVE IInv'
  <2>1. impl[f] # NoImpl
      BY <1>1 DEF PollAndRelease
  <2>2. impl[f] \in channels /\ impl[f] \in Impls
      BY <2>1, OwnerFact
  <2> QED BY <1>1, <2>2, ProcessIInv DEF PollAndRelease
<1>2. ASSUME NEW i \in Impls, Execute(i) PROVE IInv'
  <2>1. i \in jobs /\ UNCHANGED <<stubs, channelVars, valid, control, pending, receiverVars,
                                  careless>>
      BY <1>2 DEF Execute
  <2>2. CASE Callable(i)
    <3>1. /\ i \in channels /\ impl[base[i]] # NoImpl
          /\ \E p \in queued[i] : /\ Dequeue(i, p)
                                  /\ free' = [free EXCEPT ![impl[base[i]]] = @ \cup {p}]
        BY <1>2, <2>2 DEF Execute, Callable, HasWork
    <3>2. base[i] \in Fronts /\ impl[base[i]] \in Impls
        BY <3>1 DEF IInv, TypeOK, Owned
    <3>3. Unmoved => impl[base[i]] = i
        BY <3>1 DEF IInv, Owned, OneOwner, Unmoved
    <3> QED BY <2>1, <3>1, <3>2, <3>3, ProcessIInv
  <2>3. CASE ~Callable(i)
    <3>1. broken' = TRUE /\ careless # {} /\ UNCHANGED <<free, queued, jobs>>
        BY <1>2, <2>1, <2>3, NotStale DEF Execute
    <3>2. UNCHANGED <<channelVars, packetVars, valid, control, pending, receiverVars, careless>>
        BY <2>1, <3>1 DEF packetVars
    <3>3. UNCHANGED <<receivers, target, running, thread>>
          /\ thread \in [Receivers -> {"none", "loop", "body"}]
        BY <3>2 DEF receiverVars, IInv, TypeOK
    <3> QED BY <3>1, <3>2, <3>3, BrokenIInv
  <2> QED BY <2>2, <2>3
<1> QED BY <1>1, <1>2

\* A receiver pushes into the channel of the front end that it was given.
LEMMA ReceiveIInv == ASSUME IInv, NEW r \in Receivers, Receive(r) PROVE IInv'
<1> DEFINE i == impl[target[r]]
<1>1. /\ i # NoImpl
      /\ UNCHANGED <<receivers, target, running, channelVars, valid, control, pending,
                     careless>>
      /\ thread' = [thread EXCEPT ![r] = "loop"] /\ thread[r] = "body"
    BY DEF Receive
<1>2. target[r] \in Fronts \cup {NoFront} /\ stubs \in SUBSET (Packets \X Fronts)
      /\ free \in [Impls -> SUBSET Packets] /\ queued \in [Impls -> SUBSET Packets]
    BY DEF IInv, TypeOK
<1>3. ASSUME UNCHANGED packetVars, UNCHANGED broken \/ Compare(i) PROVE IInv'
  <2>1. /\ thread' \in [Receivers -> {"none", "loop", "body"}]
        /\ \A q \in Receivers : thread'[q] = "none" <=> thread[q] = "none"
      BY <1>1 DEF IInv, TypeOK
  <2>2. broken' \in BOOLEAN /\ (careless = {} => ~broken')
    <3>1. CASE UNCHANGED broken
        BY <3>1, NotStale DEF IInv, TypeOK
    <3>2. CASE Compare(i)
      <4> HIDE DEF i
      <4>1. broken' \in IF Scheduled(i) /\ Stale THEN BOOLEAN ELSE {FALSE}
          BY <3>2 DEF Compare
      <4>2. broken' \in BOOLEAN /\ (~Stale => ~broken')
          BY <4>1
      <4> QED BY <4>2, NotStale
    <3> QED BY <1>3, <3>1, <3>2
  <2> QED BY <1>1, <1>3, <2>1, <2>2, BrokenIInv
<1>4. ASSUME NEW p \in free[i], free' = [free EXCEPT ![i] = @ \ {p}], Enqueue(i, p),
             UNCHANGED stubs
      PROVE  IInv'
  <2>1. r \in receivers /\ target[r] \in Fronts
      BY <1>1 DEF IInv, Quiet
  <2>2. i \in channels /\ i \in Impls
      BY <1>1, <2>1, OwnerFact
  <2>3. p \in Packets
      BY <1>2, <2>2
  <2>4. Unmoved =>
            PoolOf[p] = i /\ p \notin queued[i] /\ \A g \in Fronts : <<p, g>> \notin stubs
      BY <2>2, <2>3, PlaceFact
  <2> HIDE DEF i
  <2>5. Unmoved => Moved(i, p)
      BY <1>2, <1>4, <2>2, <2>3, <2>4 DEF Moved, Enqueue
  <2>6. /\ JobsLive' /\ OnlyLiveUsed' /\ broken' \in BOOLEAN
        /\ queued' \in [Impls -> SUBSET Packets] /\ jobs' \in SUBSET Impls
      BY <1>1, <1>4, <2>2, <2>3, EnqueueJobs
  <2>7. free' \in [Impls -> SUBSET Packets] /\ stubs' \in SUBSET (Packets \X Fronts)
      BY <1>2, <1>4, <2>2
  <2> QED BY <1>1, <2>2, <2>3, <2>4, <2>5, <2>6, <2>7, PacketIInv
<1> QED BY <1>3, <1>4 DEF Receive
-----------------------------------------------------------------------------
(* Receivers and the owner: channels and packets stay as they are *)

\* What the lemmas below know of the state before.
LEMMA QuietFact ==
    ASSUME IInv
    PROVE  /\ control = "stopped" => \A r \in Receivers : thread[r] = "none"
           /\ control = "stopping" => \A r \in receivers \ pending :
                                          ~running[r] /\ thread[r] = "none"
           /\ ~valid => control = "stopped"
           /\ pending \subseteq receivers /\ receivers \subseteq Receivers
           /\ \A r \in Receivers : thread[r] # "none" => r \in receivers
           /\ \A r \in receivers : target[r] \in Fronts
           /\ running \in [Receivers -> BOOLEAN]
           /\ thread \in [Receivers -> {"none", "loop", "body"}]
           /\ target \in [Receivers -> Fronts \cup {NoFront}]
    BY DEF IInv, TypeOK, Quiet, QuietWhenStopped

\* A receiver is added, or the scheduler becomes invalid, while it is stopped.
LEMMA CreateReceiverIInv ==
    ASSUME IInv, NEW r \in Receivers, NEW f \in Fronts, CreateReceiver(r, f)
    PROVE  IInv'
<1>1. /\ control = "stopped" /\ UNCHANGED <<thread, channelVars, packetVars, control, pending, faultVars>>
      /\ \/ UNCHANGED <<receivers, target>>
         \/ receivers' = receivers \cup {r} /\ target' = [target EXCEPT ![r] = f]
      /\ running' \in [Receivers -> BOOLEAN]
    BY QuietFact DEF CreateReceiver
<1>2. valid' \in BOOLEAN
    BY DEF CreateReceiver, IInv, TypeOK
<1>3. TypeOK'
    BY <1>1, <1>2 DEF channelVars, packetVars, faultVars, IInv, TypeOK
<1>4. \A q \in receivers' : target'[q] \in Fronts
    BY <1>1, QuietFact
<1>5. Quiet'
    BY <1>1, <1>4, QuietFact DEF Quiet, QuietWhenStopped
<1> QED BY <1>1, <1>3, <1>5, ControlKept DEF faultVars, OnlyLiveUsed, IInv

\* The loop condition: the thread ends, or goes on.
LEMMA TestRunningIInv == ASSUME IInv, NEW r \in Receivers, TestRunning(r) PROVE IInv'
<1>1. /\ UNCHANGED <<receivers, target, running, channelVars, packetVars, valid, control,
                     pending, faultVars>>
      /\ thread[r] = "loop" /\ \A q \in Receivers \ {r} : thread'[q] = thread[q]
      /\ thread' \in [Receivers -> {"none", "loop", "body"}]
    BY QuietFact DEF TestRunning
<1>2. TypeOK'
    BY <1>1 DEF channelVars, packetVars, faultVars, IInv, TypeOK
<1>3. r \in receivers /\ control # "stopped" /\ (control = "stopping" => r \in pending)
    BY <1>1, QuietFact
<1>4. Quiet'
  <2>1. control' # "stopped" /\ (~valid' => control' = "stopped")
      BY <1>1, <1>3, QuietFact
  <2>2. control' = "stopping" => \A q \in receivers' \ pending' :
                                     ~running'[q] /\ thread'[q] = "none"
      BY <1>1, <1>3, QuietFact
  <2>3. /\ pending' \subseteq receivers'
        /\ \A q \in Receivers : thread'[q] # "none" => q \in receivers'
        /\ \A q \in receivers' : target'[q] \in Fronts
      BY <1>1, <1>3, QuietFact
  <2> QED BY <2>1, <2>2, <2>3 DEF Quiet, QuietWhenStopped
<1> QED BY <1>1, <1>2, <1>4, ControlKept DEF faultVars, OnlyLiveUsed, IInv

\* Start and Stop begin with all receivers ahead, and return with none.
LEMMA OwnerIInv ==
    ASSUME IInv, Start \/ StartReturns \/ Stop \/ StopReturns PROVE IInv'
<1>1. /\ UNCHANGED <<channelVars, packetVars, valid, receivers, target, running, thread,
                     faultVars>>
      /\ pending' \in {pending, receivers}
    BY DEF Start, StartReturns, Stop, StopReturns, receiverVars
<1>2. control' \in {"stopped", "starting", "running", "stopping"}
    BY DEF Start, StartReturns, Stop, StopReturns
<1>3. TypeOK'
    BY <1>1, <1>2 DEF channelVars, packetVars, faultVars, IInv, TypeOK
<1>4. Quiet'
  <2>1. ~valid' => control' = "stopped"
      BY <1>1, QuietFact DEF Start, StartReturns, Stop, StopReturns
  <2>2. control' = "stopped" => \A r \in Receivers : thread'[r] = "none"
    <3>1. control' = "stopped" => control = "stopping" /\ pending = {}
        BY DEF Start, StartReturns, Stop, StopReturns
    <3> QED BY <1>1, <3>1, QuietFact
  <2>3. control' = "stopping" => receivers' \ pending' = {}
    <3>1. control' = "stopping" => pending' = receivers
        BY DEF Start, StartReturns, Stop, StopReturns
    <3> QED BY <1>1, <3>1
  <2>4. /\ pending' \subseteq receivers'
        /\ \A r \in Receivers : thread'[r] # "none" => r \in receivers'
        /\ \A r \in receivers' : target'[r] \in Fronts
      BY <1>1, QuietFact
  <2> QED BY <2>1, <2>2, <2>3, <2>4 DEF Quiet, QuietWhenStopped
<1> QED BY <1>1, <1>3, <1>4, ControlKept DEF faultVars, OnlyLiveUsed, IInv

\* The steps of Start and Stop for one receiver.
LEMMA ReceiverIInv ==
    ASSUME IInv, NEW r \in Receivers,
           StartReceiver(r) \/ StopReceiver(r) \/ JoinReceiver(r)
    PROVE  IInv'
<1>1. /\ UNCHANGED <<channelVars, packetVars, valid, control, receivers, target, faultVars>>
      /\ r \in pending /\ pending' \in {pending, pending \ {r}}
      /\ control = "starting" \/ control = "stopping"
    BY DEF StartReceiver, StopReceiver, JoinReceiver, receiverVars
<1>2. /\ running' \in [Receivers -> BOOLEAN]
      /\ thread' \in [Receivers -> {"none", "loop", "body"}]
      /\ \A q \in Receivers \ {r} : running'[q] = running[q] /\ thread'[q] = thread[q]
    BY QuietFact DEF StartReceiver, StopReceiver, JoinReceiver, receiverVars
<1>3. TypeOK'
    BY <1>1, <1>2 DEF channelVars, packetVars, faultVars, IInv, TypeOK
<1>4. r \in receivers
    BY <1>1, QuietFact
<1>5. control = "stopping" =>
          \/ r \in pending'
          \/ ~running'[r] /\ thread'[r] = "none"
    BY <1>1 DEF StartReceiver, StopReceiver, JoinReceiver, receiverVars
<1>6. Quiet'
  <2>1. control' # "stopped" /\ (~valid' => control' = "stopped")
      BY <1>1, QuietFact
  <2>2. control' = "stopping" => \A q \in receivers' \ pending' :
                                     ~running'[q] /\ thread'[q] = "none"
      BY <1>1, <1>2, <1>5, QuietFact
  <2>3. /\ pending' \subseteq receivers'
        /\ \A q \in Receivers : thread'[q] # "none" => q \in receivers'
        /\ \A q \in receivers' : target'[q] \in Fronts
      BY <1>1, <1>2, <1>4, QuietFact
  <2> QED BY <2>1, <2>2, <2>3 DEF Quiet, QuietWhenStopped
<1> QED BY <1>1, <1>3, <1>6, ControlKept DEF faultVars, OnlyLiveUsed, IInv

LEMMA AlwaysIInv == Spec => []IInv
<1>1. Init => IInv
    BY InitIInv
<1>2. IInv /\ [Next]_vars => IInv'
  <2>1. SUFFICES ASSUME IInv, [Next]_vars PROVE IInv'
      OBVIOUS
  <2>2. CASE Setup
      BY <2>1, <2>2, CreateIInv, MoveIInv, DestroyIInv, CreateReceiverIInv DEF Setup
  <2>3. CASE Client
      BY <2>1, <2>3, AcquireIInv, FillIInv, PollIInv DEF Client
  <2>4. CASE \E i \in Impls : Execute(i)
      BY <2>1, <2>4, PollIInv
  <2>5. CASE \E r \in Receivers : Receiver(r)
      BY <2>1, <2>5, TestRunningIInv, ReceiveIInv DEF Receiver
  <2>6. CASE Start \/ Stop \/ Control
      BY <2>1, <2>6, OwnerIInv, ReceiverIInv DEF Control
  <2>7. CASE UNCHANGED vars
    <3>1. UNCHANGED <<channelVars, packetVars, valid, control, pending, receivers, target,
                      running, thread, careless, broken>>
        BY <2>7 DEF vars, receiverVars, faultVars
    <3>2. TypeOK'
        BY <2>1, <3>1 DEF channelVars, packetVars, IInv, TypeOK
    <3> QED BY <2>1, <3>1, <3>2, ControlKept, QuietKept DEF OnlyLiveUsed, IInv
  <2> QED BY <2>1, <2>2, <2>3, <2>4, <2>5, <2>6, <2>7 DEF Next
<1> QED BY <1>1, <1>2, PTL DEF Spec
-----------------------------------------------------------------------------
(* What is guaranteed *)

\* All variables have their types.
THEOREM LifecycleTypesAlwaysOK == Spec => []TypeOK
<1>1. IInv => TypeOK
    BY DEF IInv
<1> QED BY <1>1, AlwaysIInv, PTL

\* Moves never leave a channel with two owners, nor with none until a front end
\* that owns one is moved over (ChannelBase.cpp:9-16, 78-83).
THEOREM AlwaysOneOwner == Spec => []OneOwner
<1>1. IInv => OneOwner
    BY DEF IInv, Owned
<1> QED BY <1>1, AlwaysIInv, PTL

\* The heaps hold all channels with work, and no other until one is destroyed
\* with packets (ChannelImpl.cpp:76-83, 116-122; SchedulerImpl.cpp:52-64).
THEOREM JobsAlwaysLive == Spec => []JobsLive
<1>1. IInv => JobsLive
    BY DEF IInv, Kept
<1> QED BY <1>1, AlwaysIInv, PTL

\* No packet gets into the pool of another channel as long as no front end that
\* owns one is moved over (Channel.h:117-131).
THEOREM PacketsAlwaysHome == Spec => []PacketsHome
<1>1. IInv => PacketsHome
    BY DEF IInv, Kept
<1> QED BY <1>1, AlwaysIInv, PTL

\* When Stop has returned all threads of receivers have ended, and an invalid
\* scheduler never starts (Receiver.h:75-83, SchedulerImpl.cpp:71-106).
THEOREM AlwaysQuietWhenStopped == Spec => []QuietWhenStopped
<1>1. IInv => QuietWhenStopped
    BY DEF IInv, Quiet
<1> QED BY <1>1, AlwaysIInv, PTL

\* Workers and heaps never use what is gone if no owner was careless
\* (ChannelImpl.cpp:135-142, ScheduledChannel.h:63-72, SenderChannel.h:39-44).
THEOREM AlwaysOnlyLiveUsed == Spec => []OnlyLiveUsed
<1>1. IInv => OnlyLiveUsed
    BY DEF IInv
<1> QED BY <1>1, AlwaysIInv, PTL
=============================================================================
