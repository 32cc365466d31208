--------------------------- MODULE ChannelProofs ---------------------------
(***************************************************************************)
(* Proofs about Channel for every pool, every number of threads and every  *)
(* bound.  A packet's place is decided by three variables, free, queued    *)
(* and stub, and for the length of a drop by raw; pc tells which of stub   *)
(* and raw a thread may hold.  That is the inductive invariant: TypeOK,    *)
(* NothingLost, NothingShared and HandsInStep.                             *)
(***************************************************************************)
EXTENDS Channel, FiniteSetTheorems, TLAPS

\* A thread holds a dropped packet only between taking it from the queue and
\* releasing it, no stub while it is acquiring (ChannelImpl.cpp:50-66), and a
\* filled one while it is pushing (ChannelImpl.cpp:68-84).
HandsInStep ==
    \A t \in Threads :
        /\ raw[t] # NoPacket <=> pc[t] = "releasing"
        /\ pc[t] \in {"dropping", "releasing", "dropped", "retry"}
           => stub[t] = NoPacket
        /\ pc[t] = "pushing" => stub[t] # NoPacket /\ kind[t] = "fill"

IInv == TypeOK /\ NothingLost /\ NothingShared /\ HandsInStep

\* The pool starts full and the threads empty-handed (ChannelImpl.cpp:30-34).
LEMMA InitIInv == Init => IInv
<1>1. SUFFICES ASSUME Init PROVE IInv
    OBVIOUS
<1>2. TypeOK
    BY <1>1, ChannelAssumption DEF Init, TypeOK, Times
<1>3. NothingLost
    BY <1>1 DEF Init, NothingLost, InStubs, InDrops
<1>4. NothingShared
    BY <1>1, ChannelAssumption DEF Init, NothingShared, InDrops
<1>5. HandsInStep
    BY <1>1 DEF Init, HandsInStep
<1> QED BY <1>2, <1>3, <1>4, <1>5 DEF IInv

\* The packet Acquire hands out was free, so nobody holds it
\* (ChannelImpl.cpp:53-57, Channel.h:107-115).
LEMMA FillIInv ==
    ASSUME IInv, NEW t \in Threads, pc[t] \in {"idle", "retry"},
           stub[t] = NoPacket, NEW p \in free, NEW time \in Times,
           Fill(t, p, time)
    PROVE  IInv'
<1> USE ChannelAssumption DEF Fill, Goto
<1>1. TypeOK'
    BY DEF IInv, TypeOK
<1>2. InStubs' = InStubs \cup {p} /\ InDrops' = InDrops
    BY DEF IInv, TypeOK, InStubs, InDrops
<1>3. NothingLost'
    BY <1>2 DEF IInv, NothingLost
<1>4. NothingShared'
    BY <1>2 DEF IInv, TypeOK, NothingShared, InDrops
<1>5. HandsInStep'
    BY DEF IInv, TypeOK, HandsInStep
<1> QED BY <1>1, <1>3, <1>4, <1>5 DEF IInv

\* A step that moves only a thread's pc between labels that allow it the same
\* hands, and perhaps logs an event.
LEMMA QuietIInv ==
    ASSUME IInv, NEW t \in Threads,
           NEW label \in {"idle", "dropping", "dropped", "retry", "pushing"},
           Goto(t, label), pc[t] # "releasing",
           label \in {"dropping", "dropped", "retry"} => stub[t] = NoPacket,
           label = "pushing" => stub[t] # NoPacket /\ kind[t] = "fill",
           UNCHANGED <<free, queued, live, ts, stub, kind, raw>>,
           events' \in [{"pushed", "retrieved", "dropped"} -> Nat]
    PROVE  IInv'
<1>1. TypeOK'
    BY DEF IInv, TypeOK, Goto
<1>2. InStubs' = InStubs /\ InDrops' = InDrops
    BY DEF InStubs, InDrops
<1>3. NothingLost' /\ NothingShared'
    BY <1>2 DEF IInv, NothingLost, NothingShared
<1>4. HandsInStep'
    BY DEF IInv, TypeOK, HandsInStep, Goto
<1> QED BY <1>1, <1>3, <1>4 DEF IInv

\* Logging an event keeps the counts natural numbers.
LEMMA LoggedType ==
    ASSUME TypeOK, NEW e \in {"pushed", "retrieved", "dropped"}, Logged(e)
    PROVE  events' \in [{"pushed", "retrieved", "dropped"} -> Nat]
BY DEF TypeOK, Logged

\* No step of a thread loses or shares a packet: one lemma step per action of
\* ChannelImpl and of the stubs.
LEMMA NextIInv == IInv /\ [Next]_vars => IInv'
<1>1. SUFFICES ASSUME IInv, [Next]_vars PROVE IInv'
    OBVIOUS
<1> USE <1>1
<1>2. CASE UNCHANGED vars
    BY <1>2 DEF vars, IInv, TypeOK, NothingLost, NothingShared, HandsInStep,
                InStubs, InDrops
<1>3. ASSUME NEW t \in Threads, AcquireFree(t) PROVE IInv'
    BY <1>3, FillIInv DEF AcquireFree
<1>4. ASSUME NEW t \in Threads, AcquireNone(t) PROVE IInv'
    BY <1>4, QuietIInv DEF AcquireNone, IInv, TypeOK
<1>5. ASSUME NEW t \in Threads, DropEarliest(t) PROVE IInv'
  <2>1. PICK p \in Earliest : queued' = queued \ {p}
                              /\ raw' = [raw EXCEPT ![t] = p]
      BY <1>5 DEF DropEarliest
  <2> USE <1>5, <2>1, ChannelAssumption DEF DropEarliest, Goto, Earliest
  <2>2. TypeOK'
      BY DEF IInv, TypeOK
  <2>3. InStubs' = InStubs /\ InDrops' = InDrops \cup {p}
      BY DEF IInv, TypeOK, InStubs, InDrops, HandsInStep
  <2>4. NothingLost'
      BY <2>3 DEF IInv, NothingLost
  <2>5. NothingShared'
      BY <2>3 DEF IInv, TypeOK, NothingShared, InDrops
  <2>6. HandsInStep'
      BY DEF IInv, TypeOK, HandsInStep
  <2> QED BY <2>2, <2>4, <2>5, <2>6 DEF IInv
<1>6. ASSUME NEW t \in Threads, DropNothing(t) PROVE IInv'
    BY <1>6, QuietIInv DEF DropNothing, IInv, TypeOK
<1>7. ASSUME NEW t \in Threads, ReleaseDropped(t) PROVE IInv'
  <2> USE <1>7, ChannelAssumption DEF ReleaseDropped, Goto
  <2>1. raw[t] \in Packets
      BY DEF IInv, TypeOK, HandsInStep
  <2>2. TypeOK'
      BY <2>1 DEF IInv, TypeOK
  <2>3. InStubs' = InStubs /\ InDrops' = InDrops \ {raw[t]}
      BY <2>1 DEF IInv, TypeOK, InStubs, InDrops, NothingShared
  <2>4. NothingLost'
      BY <2>1, <2>3 DEF IInv, NothingLost, InDrops
  <2>5. NothingShared'
      BY <2>1, <2>3 DEF IInv, TypeOK, NothingShared, InDrops
  <2>6. HandsInStep'
      BY DEF IInv, TypeOK, HandsInStep
  <2> QED BY <2>2, <2>4, <2>5, <2>6 DEF IInv
<1>8. ASSUME NEW t \in Threads, LogDropped(t) PROVE IInv'
  <2>1. stub[t] = NoPacket
      BY <1>8 DEF LogDropped, IInv, HandsInStep
  <2> QED BY <1>8, <2>1, QuietIInv, LoggedType DEF LogDropped, IInv
<1>9. ASSUME NEW t \in Threads, AcquireAgain(t) PROVE IInv'
  <2>1. stub[t] = NoPacket
      BY <1>9 DEF AcquireAgain, IInv, HandsInStep
  <2> QED BY <1>9, <2>1, FillIInv DEF AcquireAgain
<1>10. ASSUME NEW t \in Threads, AcquireNoneAgain(t) PROVE IInv'
    BY <1>10, QuietIInv DEF AcquireNoneAgain, IInv, TypeOK
<1>11. ASSUME NEW t \in Threads, LogPushed(t) PROVE IInv'
    BY <1>11, QuietIInv, LoggedType DEF LogPushed, IInv
<1>12. ASSUME NEW t \in Threads, Push(t) PROVE IInv'
  <2> USE <1>12, ChannelAssumption DEF Push, Goto
  <2>1. stub[t] \in Packets
      BY DEF IInv, TypeOK, HandsInStep
  <2>2. TypeOK'
      BY <2>1 DEF IInv, TypeOK
  <2>3. InStubs' = InStubs \ {stub[t]} /\ InDrops' = InDrops
      BY <2>1 DEF IInv, TypeOK, InStubs, InDrops, NothingShared
  <2>4. NothingLost'
      BY <2>1, <2>3 DEF IInv, NothingLost, InStubs
  <2>5. NothingShared'
    <3>1. stub[t] \notin free /\ stub[t] \notin InDrops
        BY DEF IInv, NothingShared
    <3>2. \A u \in Threads : stub'[u] # NoPacket => u # t /\ stub'[u] = stub[u]
        BY DEF IInv, TypeOK
    <3> QED BY <2>1, <2>3, <3>1, <3>2 DEF IInv, TypeOK, NothingShared, InDrops
  <2>6. HandsInStep'
      BY DEF IInv, TypeOK, HandsInStep
  <2> QED BY <2>2, <2>4, <2>5, <2>6 DEF IInv
<1>13. ASSUME NEW t \in Threads, Poll(t) PROVE IInv'
  <2>1. PICK p \in Earliest : queued' = queued \ {p}
                              /\ stub' = [stub EXCEPT ![t] = p]
      BY <1>13 DEF Poll
  <2> USE <1>13, <2>1, ChannelAssumption DEF Poll, Earliest
  <2>2. TypeOK'
      BY LoggedType DEF IInv, TypeOK
  <2>3. InStubs' = InStubs \cup {p} /\ InDrops' = InDrops
      BY DEF IInv, TypeOK, InStubs, InDrops
  <2>4. NothingLost'
      BY <2>3 DEF IInv, NothingLost
  <2>5. NothingShared'
      BY <2>3 DEF IInv, TypeOK, NothingShared, InDrops
  <2>6. HandsInStep'
      BY DEF IInv, TypeOK, HandsInStep
  <2> QED BY <2>2, <2>4, <2>5, <2>6 DEF IInv
<1>14. ASSUME NEW t \in Threads, Release(t) PROVE IInv'
  <2> USE <1>14, ChannelAssumption DEF Release
  <2>1. stub[t] \in Packets
      BY DEF IInv, TypeOK
  <2>2. TypeOK'
      BY <2>1 DEF IInv, TypeOK
  <2>3. InStubs' = InStubs \ {stub[t]} /\ InDrops' = InDrops
      BY <2>1 DEF IInv, TypeOK, InStubs, InDrops, NothingShared
  <2>4. NothingLost'
      BY <2>1, <2>3 DEF IInv, NothingLost, InStubs
  <2>5. NothingShared'
      BY <2>1, <2>3 DEF IInv, TypeOK, NothingShared, InDrops
  <2>6. HandsInStep'
      BY DEF IInv, TypeOK, HandsInStep
  <2> QED BY <2>2, <2>4, <2>5, <2>6 DEF IInv
<1> QED
    BY <1>2, <1>3, <1>4, <1>5, <1>6, <1>7, <1>8, <1>9, <1>10, <1>11, <1>12,
       <1>13, <1>14 DEF Next, Acquire

\* The invariant holds in every behaviour of the channel and its threads.
LEMMA InductiveInvariant == Spec => []IInv
<1> QED BY InitIInv, NextIInv, PTL DEF Spec

\* The variables of the channel keep their types, a released null pointer
\* among what is excluded (TryDroppingPacket tests it, ChannelImpl.cpp:180).
THEOREM TypeCorrect == Spec => []TypeOK
<1>1. IInv => TypeOK
    BY DEF IInv
<1> QED BY <1>1, InductiveInvariant, PTL

\* A packet is always in the pool, in the queue or in one thread's hands, as
\* long as no stub in use is assigned to (PacketStub.h:105-110).
THEOREM PacketsNeverLost == Spec => []NothingLost
<1>1. IInv => NothingLost
    BY DEF IInv
<1> QED BY <1>1, InductiveInvariant, PTL

\* A packet is never in two places: what Acquire, Poll and a drop hand out has
\* left the list it was in (ChannelImpl.cpp:53-57, 111-116).
THEOREM PacketsNeverShared == Spec => []NothingShared
<1>1. IInv => NothingShared
    BY DEF IInv
<1> QED BY <1>1, InductiveInvariant, PTL

-----------------------------------------------------------------------------
(* The data of packets, and the events *)

\* The pool starts with no data constructed and no packet used.
LEMMA InitDataInUse == Init => DataInUse
BY DEF Init, DataInUse, InStubs

\* Data is constructed with the stub that Acquire returns and destructed as
\* Release empties one; a drop touches no data (Channel.h:107-131).
LEMMA NextDataInUse == IInv /\ DataInUse /\ [Next]_vars => DataInUse'
<1>1. SUFFICES ASSUME IInv, DataInUse, [Next]_vars PROVE DataInUse'
    OBVIOUS
<1> USE <1>1, ChannelAssumption
<1>2. CASE UNCHANGED <<queued, stub, live>>
    BY <1>2 DEF DataInUse, InStubs
<1>3. ASSUME NEW t \in Threads, AcquireFree(t) \/ AcquireAgain(t) PROVE DataInUse'
    BY <1>3 DEF AcquireFree, AcquireAgain, Fill, DataInUse, InStubs, IInv, TypeOK
<1>4. ASSUME NEW t \in Threads, DropEarliest(t) PROVE DataInUse'
    BY <1>4 DEF DropEarliest, DataInUse, InStubs
<1>5. ASSUME NEW t \in Threads, Push(t) PROVE DataInUse'
  <2>1. stub[t] \in InStubs
      BY <1>5 DEF Push, InStubs, IInv, HandsInStep
  <2>2. InStubs' \subseteq InStubs
      BY <1>5 DEF Push, InStubs, IInv, TypeOK
  <2> QED BY <1>5, <2>1, <2>2 DEF Push, DataInUse
<1>6. ASSUME NEW t \in Threads, Poll(t) PROVE DataInUse'
  <2>1. PICK p \in queued : queued' = queued \ {p} /\ stub' = [stub EXCEPT ![t] = p]
      BY <1>6 DEF Poll, Earliest
  <2>2. InStubs' \subseteq InStubs \cup {p}
      BY <2>1 DEF InStubs, IInv, TypeOK
  <2> QED BY <1>6, <2>1, <2>2 DEF Poll, DataInUse
<1>7. ASSUME NEW t \in Threads, Release(t) PROVE DataInUse'
  <2>1. stub[t] \notin queued
      BY <1>7 DEF IInv, NothingShared
  <2>2. InStubs' \subseteq InStubs \ {stub[t]}
      BY <1>7 DEF Release, InStubs, IInv, TypeOK, NothingShared
  <2> QED BY <1>7, <2>1, <2>2 DEF Release, DataInUse
<1>8. ASSUME NEW t \in Threads,
             \/ AcquireNone(t) \/ DropNothing(t) \/ ReleaseDropped(t) \/ LogDropped(t)
             \/ AcquireNoneAgain(t) \/ LogPushed(t)
      PROVE  UNCHANGED <<queued, stub, live>>
    BY <1>8 DEF AcquireNone, DropNothing, ReleaseDropped, LogDropped, AcquireNoneAgain,
                LogPushed
<1>9. UNCHANGED vars => UNCHANGED <<queued, stub, live>>
    BY DEF vars
<1> QED BY <1>2, <1>3, <1>4, <1>5, <1>6, <1>7, <1>8, <1>9 DEF Next, Acquire

\* Nobody waits for, fills or processes a packet whose data is destructed.
THEOREM DataAlwaysInUse == Spec => []DataInUse
<1> QED BY InitDataInUse, NextDataInUse, InductiveInvariant, PTL DEF Spec

\* The packets pushed and not yet retrieved or dropped, as far as the events
\* tell: those queued, those whose push was logged ahead of it and those whose
\* drop was not logged yet.
Pushing == {t \in Threads : pc[t] = "pushing"}
Dropping == {t \in Threads : pc[t] \in {"releasing", "dropped"}}

Balance ==
    /\ IsFiniteSet(queued) /\ IsFiniteSet(Pushing) /\ IsFiniteSet(Dropping)
    /\ events.pushed = events.retrieved + events.dropped + Cardinality(queued)
                           + Cardinality(Pushing) + Cardinality(Dropping)

\* All three sets start empty.
LEMMA InitBalance == Init => Balance
<1>1. SUFFICES ASSUME Init PROVE Balance
    OBVIOUS
<1>2. queued = {} /\ Pushing = {} /\ Dropping = {}
    BY <1>1 DEF Init, Pushing, Dropping
<1> QED BY <1>1, <1>2, FS_EmptySet DEF Init, Balance

\* Each step of a call moves one packet from one set to another, or logs it
\* as it enters or leaves them (ChannelImpl.cpp:68-84, 176-185).
LEMMA NextBalance == IInv /\ Balance /\ [Next]_vars => Balance'
<1>1. SUFFICES ASSUME IInv, Balance, [Next]_vars PROVE Balance'
    OBVIOUS
<1> USE <1>1
<1>a. /\ events \in [{"pushed", "retrieved", "dropped"} -> Nat]
      /\ Cardinality(queued) \in Nat /\ Cardinality(Pushing) \in Nat
      /\ Cardinality(Dropping) \in Nat
    BY FS_CardinalityType DEF IInv, TypeOK, Balance
<1>2. CASE UNCHANGED <<queued, events, pc>>
    BY <1>2 DEF Balance, Pushing, Dropping
<1>3. ASSUME NEW t \in Threads,
             \/ AcquireFree(t) \/ AcquireAgain(t) \/ AcquireNone(t) \/ DropNothing(t)
             \/ ReleaseDropped(t) \/ AcquireNoneAgain(t) \/ Release(t)
      PROVE  Balance'
  <2>1. UNCHANGED <<queued, events>>
      BY <1>3 DEF AcquireFree, AcquireAgain, AcquireNone, DropNothing, ReleaseDropped,
                  AcquireNoneAgain, Release, Fill
  <2>2. Pushing' = Pushing /\ Dropping' = Dropping
      BY <1>3 DEF AcquireFree, AcquireAgain, AcquireNone, DropNothing, ReleaseDropped,
                  AcquireNoneAgain, Release, Fill, Goto, Pushing, Dropping, IInv, TypeOK
  <2> QED BY <2>1, <2>2 DEF Balance
<1>4. ASSUME NEW t \in Threads, DropEarliest(t) PROVE Balance'
  <2>1. PICK p \in queued : queued' = queued \ {p}
      BY <1>4 DEF DropEarliest, Earliest
  <2>2. Pushing' = Pushing /\ Dropping' = Dropping \cup {t} /\ t \notin Dropping
      BY <1>4 DEF DropEarliest, Goto, Pushing, Dropping, IInv, TypeOK
  <2>3. IsFiniteSet(queued') /\ Cardinality(queued') = Cardinality(queued) - 1
      BY <2>1, FS_RemoveElement DEF Balance
  <2>4. IsFiniteSet(Dropping') /\ Cardinality(Dropping') = Cardinality(Dropping) + 1
      BY <2>2, FS_AddElement DEF Balance
  <2>5. events' = events
      BY <1>4 DEF DropEarliest
  <2> QED BY <1>a, <2>2, <2>3, <2>4, <2>5 DEF Balance
<1>5. ASSUME NEW t \in Threads, LogDropped(t) PROVE Balance'
  <2>1. Pushing' = Pushing /\ Dropping' = Dropping \ {t} /\ t \in Dropping
      BY <1>5 DEF LogDropped, Goto, Pushing, Dropping, IInv, TypeOK
  <2>2. IsFiniteSet(Dropping') /\ Cardinality(Dropping') = Cardinality(Dropping) - 1
      BY <2>1, FS_RemoveElement DEF Balance
  <2>3. /\ queued' = queued /\ events'.dropped = events.dropped + 1
        /\ events'.pushed = events.pushed /\ events'.retrieved = events.retrieved
      BY <1>5, <1>a DEF LogDropped, Logged
  <2> QED BY <1>a, <2>1, <2>2, <2>3 DEF Balance
<1>6. ASSUME NEW t \in Threads, LogPushed(t) PROVE Balance'
  <2>1. Dropping' = Dropping /\ Pushing' = Pushing \cup {t} /\ t \notin Pushing
      BY <1>6 DEF LogPushed, Goto, Pushing, Dropping, IInv, TypeOK
  <2>2. IsFiniteSet(Pushing') /\ Cardinality(Pushing') = Cardinality(Pushing) + 1
      BY <2>1, FS_AddElement DEF Balance
  <2>3. /\ queued' = queued /\ events'.pushed = events.pushed + 1
        /\ events'.dropped = events.dropped /\ events'.retrieved = events.retrieved
      BY <1>6, <1>a DEF LogPushed, Logged
  <2> QED BY <1>a, <2>1, <2>2, <2>3 DEF Balance
<1>7. ASSUME NEW t \in Threads, Push(t) PROVE Balance'
  <2>1. Dropping' = Dropping /\ Pushing' = Pushing \ {t} /\ t \in Pushing
      BY <1>7 DEF Push, Goto, Pushing, Dropping, IInv, TypeOK
  <2>2. stub[t] \notin queued
      BY DEF IInv, NothingShared
  <2>3. IsFiniteSet(Pushing') /\ Cardinality(Pushing') = Cardinality(Pushing) - 1
      BY <2>1, FS_RemoveElement DEF Balance
  <2>4. IsFiniteSet(queued') /\ Cardinality(queued') = Cardinality(queued) + 1
      BY <1>7, <2>2, FS_AddElement DEF Balance, Push
  <2>5. events' = events
      BY <1>7 DEF Push
  <2> QED BY <1>a, <2>1, <2>3, <2>4, <2>5 DEF Balance
<1>8. ASSUME NEW t \in Threads, Poll(t) PROVE Balance'
  <2>1. PICK p \in queued : queued' = queued \ {p}
      BY <1>8 DEF Poll, Earliest
  <2>2. IsFiniteSet(queued') /\ Cardinality(queued') = Cardinality(queued) - 1
      BY <2>1, FS_RemoveElement DEF Balance
  <2>3. Pushing' = Pushing /\ Dropping' = Dropping
      BY <1>8 DEF Poll, Pushing, Dropping
  <2>4. /\ events'.retrieved = events.retrieved + 1
        /\ events'.dropped = events.dropped /\ events'.pushed = events.pushed
      BY <1>8, <1>a DEF Poll, Logged
  <2> QED BY <1>a, <2>2, <2>3, <2>4 DEF Balance
<1>9. UNCHANGED vars => UNCHANGED <<queued, events, pc>>
    BY DEF vars
<1> QED BY <1>2, <1>3, <1>4, <1>5, <1>6, <1>7, <1>8, <1>9 DEF Next, Acquire

\* Dropped and retrieved packets add up to the pushed ones whenever no call is
\* in progress, and are never more (StateSchedulingTest.cpp:220-221).
THEOREM EventsAlwaysBalance == Spec => []EventsBalance
<1>1. ASSUME IInv, Balance PROVE EventsBalance
  <2>1. /\ events \in [{"pushed", "retrieved", "dropped"} -> Nat]
        /\ Cardinality(queued) \in Nat /\ Cardinality(Pushing) \in Nat
        /\ Cardinality(Dropping) \in Nat
      BY <1>1, FS_CardinalityType DEF IInv, TypeOK, Balance
  <2>2. events.retrieved + events.dropped <= events.pushed
      BY <1>1, <2>1 DEF Balance
  <2>3. ASSUME \A t \in Threads : pc[t] = "idle"
        PROVE  events.pushed = events.retrieved + events.dropped + Cardinality(queued)
    <3>1. Pushing = {} /\ Dropping = {}
        BY <2>3 DEF Pushing, Dropping
    <3>2. Cardinality(Pushing) = 0 /\ Cardinality(Dropping) = 0
        BY <3>1, FS_EmptySet
    <3> QED BY <1>1, <2>1, <3>2 DEF Balance
  <2> QED BY <2>2, <2>3 DEF EventsBalance
<1> QED BY <1>1, InitBalance, NextBalance, InductiveInvariant, PTL DEF Spec

-----------------------------------------------------------------------------
(* Channel implements PacketLife *)

\* Where a packet is says which phase it is in.
PhaseFacts ==
    \A p \in Packets :
        /\ p \in free => PhaseOf(p) = "Free"
        /\ p \in queued => PhaseOf(p) = "Queued"
        /\ \A t \in Threads :
            /\ raw[t] = p => PhaseOf(p) = "BeingDropped"
            /\ stub[t] = p => PhaseOf(p) = IF kind[t] = "fill" THEN "BeingFilled"
                                          ELSE "BeingProcessed"

\* The phases are those of Packet.h:22-30, as no packet is in two places.
LEMMA PhasesKnown == IInv => PhaseFacts
<1>1. SUFFICES ASSUME IInv, NEW p \in Packets
               PROVE  /\ p \in free => PhaseOf(p) = "Free"
                      /\ p \in queued => PhaseOf(p) = "Queued"
                      /\ \A t \in Threads :
                          /\ raw[t] = p => PhaseOf(p) = "BeingDropped"
                          /\ stub[t] = p => PhaseOf(p) = IF kind[t] = "fill" THEN "BeingFilled"
                                                        ELSE "BeingProcessed"
    BY DEF PhaseFacts
<1> USE <1>1, ChannelAssumption
<1>2. p \in free => PhaseOf(p) = "Free"
  <2>1. HAVE p \in free
  <2>2. p \notin queued /\ p \notin InDrops /\ \A t \in Threads : stub[t] # p
      BY <2>1 DEF IInv, NothingShared, InDrops
  <2> QED BY <2>1, <2>2 DEF PhaseOf
<1>3. p \in queued => PhaseOf(p) = "Queued"
  <2>1. HAVE p \in queued
  <2>2. p \notin free /\ p \notin InDrops /\ \A t \in Threads : stub[t] # p
      BY <2>1 DEF IInv, NothingShared, InDrops
  <2> QED BY <2>1, <2>2 DEF PhaseOf
<1>4. ASSUME NEW t \in Threads, raw[t] = p PROVE PhaseOf(p) = "BeingDropped"
  <2>1. p \notin free /\ p \notin queued /\ p \in InDrops
      BY <1>4 DEF IInv, NothingShared, InDrops
  <2>2. \A u \in Threads : stub[u] # p
      BY <2>1 DEF IInv, NothingShared
  <2> QED BY <2>1, <2>2 DEF PhaseOf
<1>5. ASSUME NEW t \in Threads, stub[t] = p
      PROVE  PhaseOf(p) = IF kind[t] = "fill" THEN "BeingFilled"
                          ELSE "BeingProcessed"
  <2>1. p \notin free /\ p \notin queued /\ p \notin InDrops
      BY <1>5 DEF IInv, NothingShared
  <2>2. \A u \in Threads : stub[u] = p => u = t
      BY <1>5 DEF IInv, NothingShared
  <2>3. kind[t] \in {"fill", "process"}
      BY DEF IInv, TypeOK
  <2> QED BY <1>5, <2>1, <2>2, <2>3 DEF PhaseOf
<1> QED BY <1>2, <1>3, <1>4, <1>5

\* Nothing that decides the phase of q changes.
SamePlace(q) ==
    /\ q \in free' <=> q \in free
    /\ q \in queued' <=> q \in queued
    /\ q \in InDrops' <=> q \in InDrops
    /\ \A k \in {"fill", "process"} :
        (\E t \in Threads : stub'[t] = q /\ kind'[t] = k)
        <=> (\E t \in Threads : stub[t] = q /\ kind[t] = k)

\* A packet that stays where it is stays in its phase.
LEMMA SamePhase == ASSUME NEW q, SamePlace(q) PROVE PhaseOf(q)' = PhaseOf(q)
<1>1. (\E t \in Threads : stub'[t] = q /\ kind'[t] = "fill")
      <=> (\E t \in Threads : stub[t] = q /\ kind[t] = "fill")
    BY DEF SamePlace
<1>2. (\E t \in Threads : stub'[t] = q /\ kind'[t] = "process")
      <=> (\E t \in Threads : stub[t] = q /\ kind[t] = "process")
    BY DEF SamePlace
<1> QED BY <1>1, <1>2 DEF PhaseOf, SamePlace

\* One packet moves on and the others stay: a step of PacketLife.
LEMMA OneMoves ==
    ASSUME NEW p \in Packets, \A q \in Packets \ {p} : SamePlace(q),
           <<PhaseOf(p), PhaseOf(p)'>> \in Life!Steps
    PROVE  Life!Next
<1>1. [q \in Packets |-> PhaseOf(q)]' =
          [[q \in Packets |-> PhaseOf(q)] EXCEPT ![p] = PhaseOf(p)']
    BY SamePhase
<1>2. Life!Advance(p)
    BY <1>1 DEF Life!Advance
<1> QED BY <1>2 DEF Life!Next

\* All packets stay: a stutter of PacketLife.
LEMMA NoneMoves ==
    ASSUME \A q \in Packets : SamePlace(q)
    PROVE  UNCHANGED [q \in Packets |-> PhaseOf(q)]
BY SamePhase

\* The pool starts with every packet free.
LEMMA InitLife == Init => Life!Init
<1>1. SUFFICES ASSUME Init, NEW p \in Packets PROVE PhaseOf(p) = "Free"
    BY DEF Life!Init
<1>2. IInv
    BY <1>1, InitIInv
<1> QED BY <1>1, <1>2, PhasesKnown DEF PhaseFacts, Init

\* Every step of a thread moves one packet to its next phase or none: acquire,
\* push, poll, release, and the two steps of a drop.
LEMMA NextLife ==
    IInv /\ PhaseFacts /\ IInv' /\ PhaseFacts' /\ [Next]_vars
    => [Life!Next]_[p \in Packets |-> PhaseOf(p)]
<1>1. SUFFICES ASSUME IInv, PhaseFacts, IInv', PhaseFacts', [Next]_vars
               PROVE  Life!Next \/ UNCHANGED [p \in Packets |-> PhaseOf(p)]
    OBVIOUS
<1> USE <1>1, ChannelAssumption
<1>2. CASE UNCHANGED <<free, queued, stub, kind, raw>>
  <2>1. \A q \in Packets : SamePlace(q)
      BY <1>2 DEF SamePlace, InDrops
  <2> QED BY <2>1, NoneMoves
<1>3. ASSUME NEW t \in Threads, AcquireFree(t) \/ AcquireAgain(t)
      PROVE  Life!Next
  <2>1. PICK p \in free, time \in Times : Fill(t, p, time)
      BY <1>3 DEF AcquireFree, AcquireAgain
  <2>2. stub[t] = NoPacket
      BY <1>3 DEF AcquireFree, AcquireAgain, IInv, HandsInStep
  <2>3. \A q \in Packets \ {p} : SamePlace(q)
      BY <2>1, <2>2 DEF Fill, SamePlace, InDrops, IInv, TypeOK
  <2>4. PhaseOf(p) = "Free" /\ PhaseOf(p)' = "BeingFilled"
      BY <2>1 DEF PhaseFacts, Fill, IInv, TypeOK
  <2> QED BY <2>3, <2>4, OneMoves DEF Life!Steps, IInv, TypeOK
<1>4. ASSUME NEW t \in Threads, DropEarliest(t) PROVE Life!Next
  <2>1. PICK p \in Earliest : queued' = queued \ {p}
                              /\ raw' = [raw EXCEPT ![t] = p]
      BY <1>4 DEF DropEarliest
  <2>2. raw[t] = NoPacket
      BY <1>4 DEF DropEarliest, IInv, HandsInStep
  <2>3. \A q \in Packets \ {p} : SamePlace(q)
      BY <1>4, <2>1, <2>2 DEF DropEarliest, SamePlace, InDrops, IInv, TypeOK
  <2>4. PhaseOf(p) = "Queued" /\ PhaseOf(p)' = "BeingDropped"
      BY <2>1 DEF PhaseFacts, Earliest, IInv, TypeOK
  <2> QED BY <2>1, <2>3, <2>4, OneMoves DEF Life!Steps, Earliest, IInv, TypeOK
<1>5. ASSUME NEW t \in Threads, ReleaseDropped(t) PROVE Life!Next
  <2>1. PICK p \in Packets : p = raw[t]
      BY <1>5 DEF ReleaseDropped, IInv, TypeOK, HandsInStep
  <2>2. \A q \in Packets \ {p} : SamePlace(q)
      BY <1>5, <2>1 DEF ReleaseDropped, SamePlace, InDrops, IInv, TypeOK
  <2>3. PhaseOf(p) = "BeingDropped" /\ PhaseOf(p)' = "Free"
      BY <1>5, <2>1 DEF ReleaseDropped, PhaseFacts
  <2> QED BY <2>1, <2>2, <2>3, OneMoves DEF Life!Steps
<1>6. ASSUME NEW t \in Threads, Push(t) PROVE Life!Next
  <2>1. PICK p \in Packets : p = stub[t] /\ kind[t] = "fill"
      BY <1>6 DEF Push, IInv, TypeOK, HandsInStep
  <2>2. \A q \in Packets \ {p} : SamePlace(q)
      BY <1>6, <2>1 DEF Push, SamePlace, InDrops, IInv, TypeOK
  <2>3. PhaseOf(p) = "BeingFilled" /\ PhaseOf(p)' = "Queued"
      BY <1>6, <2>1 DEF Push, PhaseFacts
  <2> QED BY <2>1, <2>2, <2>3, OneMoves DEF Life!Steps
<1>7. ASSUME NEW t \in Threads, Poll(t) PROVE Life!Next
  <2>1. PICK p \in Earliest : queued' = queued \ {p}
                              /\ stub' = [stub EXCEPT ![t] = p]
      BY <1>7 DEF Poll
  <2>2. \A q \in Packets \ {p} : SamePlace(q)
      BY <1>7, <2>1 DEF Poll, SamePlace, InDrops, IInv, TypeOK
  <2>3. PhaseOf(p) = "Queued" /\ PhaseOf(p)' = "BeingProcessed"
      BY <1>7, <2>1 DEF Poll, PhaseFacts, Earliest, IInv, TypeOK
  <2> QED BY <2>1, <2>2, <2>3, OneMoves DEF Life!Steps, Earliest, IInv, TypeOK
<1>8. ASSUME NEW t \in Threads, Release(t) PROVE Life!Next
  <2>1. PICK p \in Packets : p = stub[t] /\ kind[t] = "process"
      BY <1>8 DEF Release, IInv, TypeOK
  <2>2. \A q \in Packets \ {p} : SamePlace(q)
      BY <1>8, <2>1 DEF Release, SamePlace, InDrops, IInv, TypeOK
  <2>3. PhaseOf(p) = "BeingProcessed" /\ PhaseOf(p)' = "Free"
      BY <1>8, <2>1 DEF Release, PhaseFacts
  <2> QED BY <2>1, <2>2, <2>3, OneMoves DEF Life!Steps
<1>9. ASSUME NEW t \in Threads,
             \/ AcquireNone(t) \/ DropNothing(t) \/ LogDropped(t)
             \/ AcquireNoneAgain(t) \/ LogPushed(t)
      PROVE  UNCHANGED <<free, queued, stub, kind, raw>>
    BY <1>9 DEF AcquireNone, DropNothing, LogDropped, AcquireNoneAgain, LogPushed
<1>10. UNCHANGED vars => UNCHANGED <<free, queued, stub, kind, raw>>
    BY DEF vars
<1> QED
    BY <1>2, <1>3, <1>4, <1>5, <1>6, <1>7, <1>8, <1>9, <1>10 DEF Next, Acquire

\* Every packet of the pool only ever takes the steps of its documented life
\* (Packet.h:22-30), whatever the threads do to the others.
THEOREM ChannelImplementsPacketLife == Spec => ImplementsPacketLife
<1>1. Init => Life!Init
    BY InitLife
<1>2. IInv => PhaseFacts
    BY PhasesKnown
<1>3. IInv /\ PhaseFacts /\ IInv' /\ PhaseFacts' /\ [Next]_vars
      => [Life!Next]_[p \in Packets |-> PhaseOf(p)]
    BY NextLife
<1> QED
    BY <1>1, <1>2, <1>3, InductiveInvariant, PTL
    DEF Spec, ImplementsPacketLife, Life!Spec
=============================================================================
