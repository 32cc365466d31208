---------------------------- MODULE NetworkProofs ----------------------------
(***************************************************************************)
(* Proofs about Network for every set of packets, every capacity and every *)
(* bound on the copies.  The copies of a datagram are accounted for one by *)
(* one, the copy that the handshake consumes included (Accounted), and a   *)
(* slot is told from all later ones by its number (Numbered).              *)
(***************************************************************************)
EXTENDS Network, FiniteSetTheorems, TLAPS

InHand(d) == IF pc = "push" /\ datagram = d THEN 1 ELSE 0
Compared(d) == IF d = Properties /\ receiver = "added" /\ connected THEN 1 ELSE 0

\* Each copy is on its way, in the receiver's hand, pushed, or compared in the
\* handshake, or it was lost (Receiver.h:85-94, Protocol.h:91-103).
Accounted == \A d \in Datagrams :
                 pushed[d] + inTransit[d] + InHand(d) + Compared(d) <= copies[d]

\* What the receiver has done shows how its handshake went.
Handshaken == /\ pc # "none" \/ running \/ (\E d \in Datagrams : pushed[d] > 0)
                     => receiver = "added"
              /\ receiver = "added" => compatible \/ ~connected
              /\ ~connected => pc # "push" /\ \A d \in Datagrams : pushed[d] = 0

\* A packet in the channel has a number that was given out.
Numbered == \A q \in queued \cup held : q.nr < pushed[q.as]

\* Nothing answers a question that was not compared.
Answered == AnswersTrue /\ (receiver = "new" => answers = {})

Finite == IsFiniteSet(queued) /\ IsFiniteSet(held)

IInv == /\ TypeOK /\ Accounted /\ Handshaken /\ Answered
        /\ Numbered /\ Finite /\ WithinCapacity
-----------------------------------------------------------------------------
(* The actions in three groups, by what they leave alone *)

\* The link and the sender's process.
Outside == \/ \E d \in Datagrams : Duplicate(d) \/ Lose(d)
           \/ LoseAnswer
           \/ SendProperties \/ ReadAnswer \/ RestartSender
           \/ \E p \in Packets : SendPacket(p)

\* The receiver's handshake, Start and Stop.
Inside == \/ \E d \in Datagrams : Compare(d)
          \/ CompareNothing \/ StartReceiver \/ StopReceiver \/ EndThread
          \/ \E d \in Datagrams : PollReceive(d)

\* What changes the channel.
Writing == \/ Acquire
           \/ \E q \in queued : Take(q)
           \/ \E q \in held : Release(q)

LEMMA Groups == Next => Outside \/ Inside \/ Writing
    BY DEF Next, Thread, Outside, Inside, Writing

LEMMA InitIInv == Init => IInv
<1> SUFFICES ASSUME Init PROVE IInv
    OBVIOUS
<1> USE DEF Init, SenderSocket, ReceiverSocket
<1>1. TypeOK
  <2>1. [d \in Datagrams |-> 0] \in [Datagrams -> 0 .. MaxCopies] /\ Properties \in Datagrams
      BY NetworkAssumption DEF Datagrams
  <2> QED BY <2>1 DEF TypeOK
<1>2. Accounted
    BY DEF Accounted, InHand, Compared
<1>3. Handshaken /\ Answered /\ Numbered
    BY DEF Handshaken, Answered, AnswersTrue, Numbered
<1>4. Finite
    BY FS_EmptySet DEF Finite
<1>5. Cardinality({}) = 0
    BY FS_EmptySet
<1>6. WithinCapacity
    BY <1>5, NetworkAssumption DEF WithinCapacity
<1> QED BY <1>1, <1>2, <1>3, <1>4, <1>6 DEF IInv

\* Sending and losing: the copies on their way grow no faster than all copies.
LEMMA OutsideIInv == ASSUME IInv, Outside PROVE IInv'
<1>1. UNCHANGED <<compatible, connected, receiver, running, running_, threadVars, channelVars>>
    BY DEF Outside, Duplicate, Lose, LoseAnswer, SendProperties, ReadAnswer, NotBlocked,
           RestartSender, SendPacket
<1> USE <1>1 DEF threadVars, channelVars
<1>2. /\ inTransit \in [Datagrams -> 0 .. MaxCopies] /\ copies \in [Datagrams -> 0 .. MaxCopies]
      /\ pushed \in [Datagrams -> 0 .. MaxCopies] /\ MaxCopies \in Nat
    BY NetworkAssumption DEF IInv, TypeOK
<1>3. \A d \in Datagrams : inTransit[d] <= copies[d]
    BY <1>2 DEF IInv, Accounted, InHand, Compared
<1>4. /\ inTransit' \in [Datagrams -> 0 .. MaxCopies]
      /\ copies' \in [Datagrams -> 0 .. MaxCopies]
      /\ \A d \in Datagrams : copies'[d] - inTransit'[d] >= copies[d] - inTransit[d]
  <2>1. ASSUME NEW d \in Datagrams, Send(d)
        PROVE  /\ inTransit' \in [Datagrams -> 0 .. MaxCopies]
               /\ copies' \in [Datagrams -> 0 .. MaxCopies]
               /\ \A e \in Datagrams : copies'[e] - inTransit'[e] >= copies[e] - inTransit[e]
    <3>1. copies[d] < MaxCopies /\ inTransit[d] < MaxCopies
        BY <1>2, <1>3, <2>1 DEF Send
    <3> QED BY <1>2, <2>1, <3>1 DEF Send, Add
  <2>2. ASSUME NEW d \in Datagrams, Lose(d)
        PROVE  /\ inTransit' \in [Datagrams -> 0 .. MaxCopies]
               /\ copies' \in [Datagrams -> 0 .. MaxCopies]
               /\ \A e \in Datagrams : copies'[e] - inTransit'[e] >= copies[e] - inTransit[e]
      BY <1>2, <2>2 DEF Lose
  <2>3. CASE UNCHANGED <<inTransit, copies>>
      BY <1>2, <2>3
  <2>4. \/ \E d \in Datagrams : Send(d) \/ Lose(d)
        \/ UNCHANGED <<inTransit, copies>>
      BY DEF Outside, Duplicate, LoseAnswer, SendProperties, ReadAnswer, RestartSender,
             SendPacket, Datagrams
  <2> QED BY <2>1, <2>2, <2>3, <2>4
<1>5. answers' \subseteq answers
    BY DEF Outside, Duplicate, Lose, LoseAnswer, SendProperties, ReadAnswer, NotBlocked,
           RestartSender, SendPacket
<1>6. sender' \in {"new", "asked", "valid", "invalid"}
    BY DEF Outside, Duplicate, Lose, LoseAnswer, SendProperties, ReadAnswer, NotBlocked,
           RestartSender, SendPacket, senderVars, IInv, TypeOK
<1>7. TypeOK'
    BY <1>4, <1>5, <1>6 DEF IInv, TypeOK
<1>8. Accounted'
  <2>1. ASSUME NEW d \in Datagrams
        PROVE  pushed[d] + inTransit'[d] + InHand(d) + Compared(d) <= copies'[d]
    <3>1. pushed[d] + inTransit[d] + InHand(d) + Compared(d) <= copies[d]
        BY DEF IInv, Accounted
    <3>2. InHand(d) \in Nat /\ Compared(d) \in Nat
        BY DEF InHand, Compared
    <3> QED BY <1>2, <1>4, <3>1, <3>2
  <2>2. \A d \in Datagrams : InHand(d)' = InHand(d) /\ Compared(d)' = Compared(d)
      BY DEF InHand, Compared
  <2> QED BY <2>1, <2>2 DEF Accounted
<1>9. Answered'
    BY <1>5 DEF IInv, Answered, AnswersTrue
<1>10. Handshaken' /\ Numbered' /\ Finite' /\ WithinCapacity'
    BY DEF IInv, Handshaken, Numbered, Finite, WithinCapacity
<1> QED BY <1>7, <1>8, <1>9, <1>10 DEF IInv

\* Reading a datagram takes one copy from the socket.
LEMMA ReceiveFact ==
    ASSUME TypeOK, NEW d \in Datagrams, Receive(d)
    PROVE  /\ connected
           /\ inTransit' \in [Datagrams -> 0 .. MaxCopies]
           /\ inTransit'[d] = inTransit[d] - 1
           /\ \A e \in Datagrams \ {d} : inTransit'[e] = inTransit[e]
<1>1. inTransit \in [Datagrams -> 0 .. MaxCopies] /\ MaxCopies \in Nat
    BY NetworkAssumption DEF TypeOK
<1>2. inTransit' = [inTransit EXCEPT ![d] = @ - 1] /\ inTransit[d] > 0 /\ connected
    BY DEF Receive, Poll
<1> QED BY <1>1, <1>2

\* The handshake is compared once, and only then is anything pushed.
LEMMA CompareIInv == ASSUME IInv, NEW d \in Datagrams, Compare(d) PROVE IInv'
<1> USE DEF Compare
<1>1. /\ inTransit' \in [Datagrams -> 0 .. MaxCopies]
      /\ inTransit'[d] = inTransit[d] - 1
      /\ \A e \in Datagrams \ {d} : inTransit'[e] = inTransit[e]
      /\ connected
    BY ReceiveFact DEF IInv
<1>2. /\ UNCHANGED <<compatible, connected, copies, sender, running, running_, pc, datagram, pushed,
                     queued, held>>
      /\ receiver = "new" /\ receiver' \in {"added", "invalid"}
      /\ receiver' = "added" => d = Properties /\ compatible
    BY DEF senderVars, threadVars, channelVars, Equal
<1>3. /\ answers = {}
      /\ answers' = {IF receiver' = "added" THEN kHandshakeSuccessMsg ELSE kHandshakeErrorMsg}
    BY DEF IInv, Answered
<1> HIDE DEF Compare
<1>4. TypeOK'
    BY <1>1, <1>2, <1>3 DEF IInv, TypeOK, Answers
<1>5. Accounted'
  <2>1. SUFFICES ASSUME NEW e \in Datagrams
                 PROVE  pushed[e] + inTransit'[e] + InHand(e) + Compared(e)' <= copies[e]
      BY <1>2 DEF Accounted, InHand
  <2>2. pushed[e] + inTransit[e] + InHand(e) + Compared(e) <= copies[e]
      BY DEF IInv, Accounted
  <2>3. Compared(e) = 0 /\ Compared(e)' \in {0, 1} /\ (Compared(e)' = 1 => e = d)
      BY <1>2 DEF Compared
  <2>4. /\ pushed[e] \in Nat /\ inTransit[e] \in Nat /\ copies[e] \in Nat
        /\ InHand(e) \in Nat /\ inTransit'[e] \in Nat
      BY <1>1, NetworkAssumption DEF InHand, IInv, TypeOK
  <2>5. CASE e = d
      BY <1>1, <2>2, <2>3, <2>4, <2>5
  <2>6. CASE e # d
      BY <1>1, <2>2, <2>3, <2>4, <2>6
  <2> QED BY <2>5, <2>6
<1>6. Handshaken'
    BY <1>1, <1>2 DEF IInv, Handshaken
<1>7. Answered'
    BY <1>2, <1>3 DEF Answered, AnswersTrue, kHandshakeSuccessMsg, kHandshakeErrorMsg
<1>8. Numbered' /\ Finite' /\ WithinCapacity'
    BY <1>2 DEF IInv, Numbered, Finite, WithinCapacity
<1> QED BY <1>4, <1>5, <1>6, <1>7, <1>8 DEF IInv

\* A datagram read goes from the socket into the receiver's hand.
LEMMA PollReceiveIInv == ASSUME IInv, NEW d \in Datagrams, PollReceive(d) PROVE IInv'
<1> USE DEF PollReceive
<1>1. /\ inTransit' \in [Datagrams -> 0 .. MaxCopies]
      /\ inTransit'[d] = inTransit[d] - 1
      /\ \A e \in Datagrams \ {d} : inTransit'[e] = inTransit[e]
      /\ connected
    BY ReceiveFact DEF IInv
<1>2. /\ UNCHANGED <<compatible, connected, copies, answers, sender, receiver, running, running_,
                     pushed, queued, held>>
      /\ pc = "poll" /\ pc' = "push" /\ datagram' = d
    BY DEF senderVars, channelVars
<1> HIDE DEF PollReceive
<1>3. TypeOK'
    BY <1>1, <1>2 DEF IInv, TypeOK
<1>4. Accounted'
  <2>1. SUFFICES ASSUME NEW e \in Datagrams
                 PROVE  pushed[e] + inTransit'[e] + InHand(e)' + Compared(e) <= copies[e]
      BY <1>2 DEF Accounted, Compared
  <2>2. pushed[e] + inTransit[e] + InHand(e) + Compared(e) <= copies[e]
      BY DEF IInv, Accounted
  <2>3. InHand(e) = 0 /\ InHand(e)' = IF e = d THEN 1 ELSE 0
      BY <1>2 DEF InHand
  <2>4. /\ pushed[e] \in Nat /\ inTransit[e] \in Nat /\ copies[e] \in Nat
        /\ Compared(e) \in Nat /\ inTransit'[e] \in Nat
      BY <1>1, NetworkAssumption DEF Compared, IInv, TypeOK
  <2>5. CASE e = d
      BY <1>1, <2>2, <2>3, <2>4, <2>5
  <2>6. CASE e # d
      BY <1>1, <2>2, <2>3, <2>4, <2>6
  <2> QED BY <2>5, <2>6
<1>5. Handshaken'
    BY <1>1, <1>2 DEF IInv, Handshaken
<1>6. Answered' /\ Numbered' /\ Finite' /\ WithinCapacity'
    BY <1>2 DEF IInv, Answered, AnswersTrue, Numbered, Finite, WithinCapacity
<1> QED BY <1>3, <1>4, <1>5, <1>6 DEF IInv

\* Start, Stop and the end of the thread; a comparison without a socket.
LEMMA ControlIInv ==
    ASSUME IInv, CompareNothing \/ StartReceiver \/ StopReceiver \/ EndThread PROVE IInv'
<1>1. UNCHANGED <<compatible, connected, inTransit, copies, sender, datagram, answers,
                  pushed, queued, held>>
    BY DEF CompareNothing, StartReceiver, StopReceiver, EndThread, senderVars, threadVars,
           channelVars
<1> USE DEF MakeThread
<1>2. /\ pc' = "push" <=> pc = "push"
      /\ pc' \in {"none", "poll", "push"}
      /\ running_' \in BOOLEAN
    BY DEF CompareNothing, StartReceiver, StopReceiver, EndThread, threadVars, IInv, TypeOK
<1>3. /\ running' \in BOOLEAN
      /\ running' => running \/ receiver' = "added"
      /\ pc' # "none" => pc # "none" \/ receiver' = "added"
  <2>1. \/ running' = running
        \/ running' = FALSE
        \/ running' = TRUE /\ receiver' = "added"
      BY DEF CompareNothing, StartReceiver, StopReceiver, EndThread
  <2>2. pc' # "none" => pc # "none" \/ receiver' = "added"
      BY DEF CompareNothing, StartReceiver, StopReceiver, EndThread, threadVars
  <2>3. running \in BOOLEAN
      BY DEF IInv, TypeOK
  <2>4. running' \in BOOLEAN
      BY <2>1, <2>3
  <2>5. running' => running \/ receiver' = "added"
      BY ONLY <2>1
  <2> QED BY <2>2, <2>4, <2>5
<1>4. \/ UNCHANGED receiver
      \/ receiver = "new" /\ receiver' \in {"added", "invalid"} /\ ~connected
    BY DEF CompareNothing, StartReceiver, StopReceiver, EndThread
<1>5. TypeOK'
    BY <1>1, <1>2, <1>3, <1>4 DEF IInv, TypeOK
<1>6. Accounted'
  <2>1. \A d \in Datagrams : InHand(d)' = InHand(d) /\ Compared(d)' = Compared(d)
      BY <1>1, <1>2, <1>3, <1>4 DEF InHand, Compared
  <2> QED BY <1>1, <2>1 DEF IInv, Accounted
<1>7. Handshaken'
    BY <1>1, <1>2, <1>3, <1>4 DEF IInv, Handshaken
<1>8. Answered'
    BY <1>1, <1>2, <1>3, <1>4 DEF IInv, Answered, AnswersTrue
<1>9. Numbered' /\ Finite' /\ WithinCapacity'
    BY <1>1, <1>2, <1>3, <1>4 DEF IInv, Numbered, Finite, WithinCapacity
<1> QED BY <1>5, <1>6, <1>7, <1>8, <1>9 DEF IInv

\* A slot written is new, and takes the place of another when the pool is full.
LEMMA AcquireChannel ==
    ASSUME IInv, Acquire
    PROVE  /\ pushed' \in [Datagrams -> 0 .. MaxCopies]
           /\ queued' \subseteq Slots
           /\ Numbered' /\ Finite' /\ WithinCapacity'
           /\ \/ UNCHANGED pushed
              \/ pushed' = [pushed EXCEPT ![datagram] = @ + 1]
<1> DEFINE full == Cardinality(queued) + Cardinality(held) >= capacity_
           slot == [as |-> datagram, nr |-> pushed[datagram]]
<1>1. /\ datagram \in Datagrams /\ pushed \in [Datagrams -> 0 .. MaxCopies]
      /\ copies \in [Datagrams -> 0 .. MaxCopies] /\ inTransit \in [Datagrams -> 0 .. MaxCopies]
      /\ MaxCopies \in Nat /\ capacity_ \in Nat
      /\ queued \subseteq Slots /\ held \subseteq Slots
    BY NetworkAssumption DEF IInv, TypeOK
<1>2. pushed[datagram] + 1 <= MaxCopies
  <2>1. pc = "push"
      BY DEF Acquire
  <2>2. pushed[datagram] + inTransit[datagram] + 1 + Compared(datagram) <= copies[datagram]
      BY <1>1, <2>1 DEF IInv, Accounted, InHand
  <2>3. Compared(datagram) \in Nat
      BY DEF Compared
  <2> QED BY <1>1, <2>2, <2>3
<1>3. slot \in Slots /\ slot \notin queued \cup held
  <2>1. slot.nr = pushed[slot.as]
      OBVIOUS
  <2>2. \A q \in queued \cup held : q.nr < pushed[q.as] /\ pushed[q.as] \in Nat /\ q.nr \in Nat
      BY <1>1 DEF IInv, Numbered, Slots
  <2>3. slot \in Slots
      BY <1>1, <1>2 DEF Slots
  <2> QED BY <2>1, <2>2, <2>3
<1>4. /\ IsFiniteSet(queued) /\ IsFiniteSet(held)
      /\ Cardinality(queued) \in Nat /\ Cardinality(held) \in Nat
      /\ queued \cap held = {}
      /\ Cardinality(queued) + Cardinality(held) <= capacity_
    BY FS_CardinalityType DEF IInv, Finite, WithinCapacity
<1>5. CASE UNCHANGED <<queued, pushed>>
  <2>1. UNCHANGED held
      BY DEF Acquire
  <2> QED BY <1>1, <1>5, <2>1 DEF IInv, Numbered, Finite, WithinCapacity
<1>6. CASE /\ pushed' = Add(pushed, datagram)
           /\ \E old \in SUBSET queued :
                  /\ queued' = (queued \ old) \cup {slot}
                  /\ IF full THEN \E q \in queued : old = {q} ELSE old = {}
  <2>1. PICK old \in SUBSET queued :
                  /\ queued' = (queued \ old) \cup {slot}
                  /\ IF full THEN \E q \in queued : old = {q} ELSE old = {}
      BY <1>6
  <2>2. /\ pushed' \in [Datagrams -> 0 .. MaxCopies]
        /\ pushed'[datagram] = pushed[datagram] + 1
        /\ pushed' = [pushed EXCEPT ![datagram] = @ + 1]
        /\ \A d \in Datagrams : pushed'[d] >= pushed[d]
      BY <1>1, <1>2, <1>6 DEF Add
  <2>3. UNCHANGED held
      BY DEF Acquire
  <2>4. queued' \subseteq Slots /\ queued' \cap held = {}
      BY <1>1, <1>3, <1>4, <2>1
  <2>5. Numbered'
    <3>1. ASSUME NEW q \in queued \cup held PROVE q.nr < pushed'[q.as]
      <4>1. q.nr < pushed[q.as] /\ q \in Slots
          BY <1>1 DEF IInv, Numbered
      <4>2. q.as \in Datagrams /\ q.nr \in Nat
          BY <4>1 DEF Slots
      <4>3. pushed[q.as] \in Nat /\ pushed'[q.as] \in Nat /\ pushed'[q.as] >= pushed[q.as]
          BY <1>1, <2>2, <4>2
      <4> QED BY <4>1, <4>2, <4>3
    <3>2. slot.nr < pushed'[slot.as]
        BY <1>1, <2>2
    <3>3. queued' \cup held' \subseteq queued \cup held \cup {slot}
        BY <2>1, <2>3
    <3> QED BY <3>1, <3>2, <3>3 DEF Numbered
  <2>6. IsFiniteSet(queued \ old) /\ IsFiniteSet(queued')
    <3>1. IsFiniteSet(queued \ old)
        BY <1>4, FS_Difference
    <3>2. IsFiniteSet((queued \ old) \cup {slot})
        BY <3>1, FS_AddElement
    <3> QED BY <2>1, <3>1, <3>2
  <2>7. Cardinality(queued') = Cardinality(queued \ old) + 1
      BY <1>3, <2>1, <2>6, FS_AddElement
  <2>8. Cardinality(queued') + Cardinality(held) <= capacity_
    <3>1. CASE full
      <4>1. PICK q \in queued : old = {q}
          BY <2>1, <3>1
      <4>2. Cardinality(queued \ old) = Cardinality(queued) - 1
          BY <1>4, <4>1, FS_RemoveElement
      <4> HIDE DEF full
      <4> QED BY <1>1, <1>4, <2>7, <4>2
    <3>2. CASE ~full
      <4>1. queued \ old = queued
          BY <2>1, <3>2
      <4> QED BY <1>1, <1>4, <2>7, <3>2, <4>1
    <3> QED BY <3>1, <3>2
  <2> QED BY <1>4, <2>2, <2>3, <2>4, <2>5, <2>6, <2>8 DEF Finite, WithinCapacity
<1>7. \/ UNCHANGED <<queued, pushed>>
      \/ /\ pushed' = Add(pushed, datagram)
         /\ \E old \in SUBSET queued :
                  /\ queued' = (queued \ old) \cup {slot}
                  /\ IF full THEN \E q \in queued : old = {q} ELSE old = {}
  <2>1. CASE full /\ queued = {}
      BY <2>1 DEF Acquire
  <2>2. CASE full /\ queued # {}
    <3>1. PICK q \in queued : queued' = (queued \ {q}) \cup {slot}
        BY <2>2 DEF Acquire
    <3>2. pushed' = Add(pushed, datagram)
        BY <2>2 DEF Acquire
    <3>3. {q} \in SUBSET queued
        OBVIOUS
    <3> QED BY <2>2, <3>1, <3>2, <3>3
  <2>3. CASE ~full
    <3>1. queued' = queued \cup {slot} /\ pushed' = Add(pushed, datagram)
        BY <2>3 DEF Acquire
    <3>2. {} \in SUBSET queued /\ queued \ {} = queued
        OBVIOUS
    <3> HIDE DEF slot, full
    <3> QED BY <2>3, <3>1, <3>2
  <2> QED BY <2>1, <2>2, <2>3
<1> QED BY <1>5, <1>6, <1>7

\* Acquire turns the copy in the receiver's hand into a pushed one, or drops it.
LEMMA AcquireIInv == ASSUME IInv, Acquire PROVE IInv'
<1>1. /\ UNCHANGED <<compatible, connected, inTransit, copies, answers, sender, receiver,
                     running, running_, datagram, held>>
      /\ pc = "push" /\ pc' = "poll"
    BY DEF Acquire, senderVars
<1>2. /\ pushed' \in [Datagrams -> 0 .. MaxCopies]
      /\ queued' \subseteq Slots
      /\ Numbered' /\ Finite' /\ WithinCapacity'
      /\ \/ UNCHANGED pushed
         \/ pushed' = [pushed EXCEPT ![datagram] = @ + 1]
    BY AcquireChannel
<1>3. TypeOK'
    BY <1>1, <1>2 DEF IInv, TypeOK
<1>4. Accounted'
  <2>1. SUFFICES ASSUME NEW d \in Datagrams
                 PROVE  pushed'[d] + inTransit[d] + InHand(d)' + Compared(d) <= copies[d]
      BY <1>1 DEF Accounted, Compared
  <2>2. pushed[d] + inTransit[d] + InHand(d) + Compared(d) <= copies[d]
      BY DEF IInv, Accounted
  <2>3. InHand(d)' = 0 /\ InHand(d) = IF datagram = d THEN 1 ELSE 0
      BY <1>1 DEF InHand
  <2>4. /\ pushed[d] \in Nat /\ inTransit[d] \in Nat /\ copies[d] \in Nat
        /\ Compared(d) \in Nat
      BY NetworkAssumption DEF Compared, IInv, TypeOK
  <2>5. pushed'[d] <= pushed[d] + (IF datagram = d THEN 1 ELSE 0) /\ pushed'[d] \in Nat
      BY <1>2, <2>4 DEF IInv, TypeOK
  <2> QED BY <2>2, <2>3, <2>4, <2>5
<1>5. Handshaken'
  <2>1. connected /\ receiver = "added"
      BY <1>1 DEF IInv, Handshaken, TypeOK
  <2> QED BY <1>1, <2>1 DEF IInv, Handshaken
<1>6. Answered'
    BY <1>1 DEF IInv, Answered, AnswersTrue
<1> QED BY <1>2, <1>3, <1>4, <1>5, <1>6 DEF IInv

\* Workers take packets from the queue and give them back.
LEMMA WorkerIInv ==
    ASSUME IInv, (\E q \in queued : Take(q)) \/ (\E q \in held : Release(q)) PROVE IInv'
<1>1. UNCHANGED <<compatible, connected, inTransit, copies, answers, sender, receiver,
                  running, running_, pc, datagram, pushed>>
    BY DEF Take, Release, senderVars, threadVars
<1>2. /\ IsFiniteSet(queued) /\ IsFiniteSet(held)
      /\ Cardinality(queued) \in Nat /\ Cardinality(held) \in Nat
      /\ queued \cap held = {} /\ capacity_ \in Nat
      /\ Cardinality(queued) + Cardinality(held) <= capacity_
    BY FS_CardinalityType, NetworkAssumption DEF IInv, Finite, WithinCapacity
<1>3. queued' \cup held' \subseteq queued \cup held
    BY DEF Take, Release
<1>4. Finite' /\ WithinCapacity'
  <2>1. ASSUME NEW q \in queued, Take(q) PROVE Finite' /\ WithinCapacity'
    <3>1. queued' = queued \ {q} /\ held' = held \cup {q}
        BY <2>1 DEF Take
    <3>2. /\ IsFiniteSet(queued') /\ IsFiniteSet(held')
          /\ Cardinality(queued') = Cardinality(queued) - 1
          /\ Cardinality(held') = Cardinality(held) + 1
        BY <1>2, <3>1, FS_AddElement, FS_RemoveElement
    <3> QED BY <1>2, <3>1, <3>2 DEF Finite, WithinCapacity
  <2>2. ASSUME NEW q \in held, Release(q) PROVE Finite' /\ WithinCapacity'
    <3>1. queued' = queued /\ held' = held \ {q}
        BY <2>2 DEF Release
    <3>2. /\ IsFiniteSet(held')
          /\ Cardinality(held') = Cardinality(held) - 1
        BY <1>2, <3>1, FS_RemoveElement
    <3> QED BY <1>2, <3>1, <3>2 DEF Finite, WithinCapacity
  <2> QED BY <2>1, <2>2
<1>5. TypeOK'
    BY <1>1, <1>3 DEF IInv, TypeOK
<1>6. Accounted' /\ Handshaken' /\ Answered'
    BY <1>1 DEF IInv, Accounted, InHand, Compared, Handshaken, Answered, AnswersTrue
<1>7. Numbered'
    BY <1>1, <1>3 DEF IInv, Numbered
<1> QED BY <1>4, <1>5, <1>6, <1>7 DEF IInv

LEMMA AlwaysIInv == Spec => []IInv
<1>1. Init => IInv
    BY InitIInv
<1>2. IInv /\ [Next]_vars => IInv'
  <2>1. SUFFICES ASSUME IInv, [Next]_vars PROVE IInv'
      OBVIOUS
  <2>2. CASE Outside
      BY <2>1, <2>2, OutsideIInv
  <2>3. CASE Inside
      BY <2>1, <2>3, CompareIInv, PollReceiveIInv, ControlIInv DEF Inside
  <2>4. CASE Writing
      BY <2>1, <2>4, AcquireIInv, WorkerIInv DEF Writing
  <2>5. CASE UNCHANGED vars
      BY <2>1, <2>5 DEF vars, senderVars, threadVars, channelVars, IInv, TypeOK, Accounted,
                        InHand, Compared, Handshaken, Answered, AnswersTrue, Numbered, Finite,
                        WithinCapacity
  <2> QED BY <2>1, <2>2, <2>3, <2>4, <2>5, Groups
<1> QED BY <1>1, <1>2, PTL DEF Spec
-----------------------------------------------------------------------------
(* What is guaranteed *)

\* All variables have their types.
THEOREM NetworkTypesAlwaysOK == Spec => []TypeOK
<1>1. IInv => TypeOK
    BY DEF IInv
<1> QED BY <1>1, AlwaysIInv, PTL

\* No packet is pushed that was not sent, nor more often than it has copies
\* (Receiver.h:85-94).
THEOREM NothingEverInvented == Spec => []NothingInvented
<1>1. IInv => NothingInvented
  <2>1. SUFFICES ASSUME IInv, NEW d \in Datagrams
                 PROVE  pushed[d] + inTransit[d] + InHand(d) <= copies[d]
      BY DEF NothingInvented, InHand
  <2>2. pushed[d] + inTransit[d] + InHand(d) + Compared(d) <= copies[d]
      BY <2>1 DEF IInv, Accounted
  <2>3. /\ pushed[d] \in Nat /\ inTransit[d] \in Nat /\ copies[d] \in Nat
        /\ InHand(d) \in Nat /\ Compared(d) \in Nat
      BY <2>1, NetworkAssumption DEF InHand, Compared, IInv, TypeOK
  <2> QED BY <2>2, <2>3
<1> QED BY <1>1, AlwaysIInv, PTL

\* Only packets of a compatible sender get into the channel (Receiver.h:54-63).
THEOREM AlwaysOnlyCompatible == Spec => []OnlyCompatible
<1>1. IInv => OnlyCompatible
    BY DEF IInv, Handshaken, OnlyCompatible
<1> QED BY <1>1, AlwaysIInv, PTL

\* A handshake that was sent once is never taken for a packet (Protocol.h:91-103).
THEOREM HandshakeNeverPushed == Spec => []HandshakeNotPushed
<1>1. IInv => HandshakeNotPushed
  <2>1. SUFFICES ASSUME IInv, copies[Properties] <= 1 PROVE pushed[Properties] = 0
      BY DEF HandshakeNotPushed
  <2>2. Properties \in Datagrams
      BY DEF Datagrams
  <2>3. /\ pushed[Properties] + inTransit[Properties] + InHand(Properties)
             + Compared(Properties) <= copies[Properties]
        /\ pushed[Properties] > 0 => Compared(Properties) = 1
      BY <2>1, <2>2 DEF IInv, Accounted, Handshaken, Compared, TypeOK
  <2>4. /\ pushed[Properties] \in Nat /\ inTransit[Properties] \in Nat
        /\ copies[Properties] \in Nat /\ InHand(Properties) \in Nat
        /\ Compared(Properties) \in Nat
      BY <2>1, <2>2, NetworkAssumption DEF InHand, Compared, IInv, TypeOK
  <2> QED BY <2>1, <2>3, <2>4
<1> QED BY <1>1, AlwaysIInv, PTL

\* Answers tell the truth, whichever of them get lost (Protocol.h:96-102).
THEOREM AnswersAlwaysTrue == Spec => []AnswersTrue
<1>1. IInv => AnswersTrue
    BY DEF IInv, Answered
<1> QED BY <1>1, AlwaysIInv, PTL

\* The channel stays within its capacity (ChannelImpl.cpp:50-66).
THEOREM AlwaysWithinCapacity == Spec => []WithinCapacity
<1>1. IInv => WithinCapacity
    BY DEF IInv
<1> QED BY <1>1, AlwaysIInv, PTL
=============================================================================
