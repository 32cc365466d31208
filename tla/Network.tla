------------------------------ MODULE Network ------------------------------
(***************************************************************************)
(* A sender channel of one process and a receiver of another, over UDP:    *)
(* the handshake at their construction, then the packets.  The link loses, *)
(* duplicates and reorders.  A packet is its timestamp.  The queue side of *)
(* the channel that is written is Channel's; here it only has a capacity.  *)
(***************************************************************************)
EXTENDS Naturals, FiniteSets

CONSTANTS Packets,     \* what the sender channel is given to send
          Properties,  \* the handshake datagram: what CompatibilityChecker holds
          capacity_,   \* of the channel that is written
          MaxCopies    \* bounds the times one datagram is sent or duplicated

ASSUME NetworkAssumption == /\ Properties \notin Packets
                            /\ capacity_ \in Nat \ {0}
                            /\ MaxCopies \in Nat

Datagrams == Packets \cup {Properties}
kHandshakeSuccessMsg == "CONN_EST"
kHandshakeErrorMsg == "CONN_ERR"
Answers == {kHandshakeSuccessMsg, kHandshakeErrorMsg}

VARIABLES compatible,  \* both sides have the same sizes and alignments
          connected,   \* the receiver's socket could be opened and bound
          inTransit,   \* copies of each datagram on their way or in the socket
          copies,      \* history: copies there have ever been
          answers,     \* answers on their way to the sender's socket
          sender,      \* how far CreateSenderChannel and Start have come
          receiver,    \* how far the Receiver's constructor has come
          running,     \* is the receiver's scheduler running?
          running_,    \* the receiver's own flag, which nothing initialises
          pc, datagram,   \* the receiver's thread and its network_packet
          queued, held,   \* the channel's packets: waiting, being processed
          pushed          \* history: how often each datagram was pushed

senderVars == <<sender>>
channelVars == <<queued, held, pushed>>
threadVars == <<pc, datagram>>
vars == <<compatible, connected, inTransit, copies, answers, senderVars, receiver,
          running, running_, threadVars, channelVars>>

\* An address that is no address leaves the sender without a socket, which is
\* as if the link lost all it sends.
SenderSocket == /\ answers = {}
                /\ inTransit = [d \in Datagrams |-> 0]

\* A port that is taken leaves the receiver without a socket.
ReceiverSocket == connected \in BOOLEAN

Init == /\ compatible \in BOOLEAN
        /\ SenderSocket /\ ReceiverSocket
        /\ copies = [d \in Datagrams |-> 0]
        /\ sender = "new"
        /\ receiver = "new"
        /\ running = FALSE /\ running_ \in BOOLEAN
        /\ pc = "none" /\ datagram = Properties
        /\ queued = {} /\ held = {} /\ pushed = [d \in Datagrams |-> 0]
-----------------------------------------------------------------------------
(* UDPConnection and the network *)

Add(f, d) == [f EXCEPT ![d] = @ + 1]

\* Whether sendto failed or the datagram is lost later makes no difference.
Send(d) == /\ copies[d] < MaxCopies
           /\ copies' = Add(copies, d)
           /\ inTransit' = Add(inTransit, d)

Duplicate(d) == /\ inTransit[d] > 0
                /\ Send(d)
                /\ UNCHANGED <<compatible, connected, answers, senderVars, receiver,
                               running, running_, threadVars, channelVars>>

Lose(d) == /\ inTransit[d] > 0
           /\ inTransit' = [inTransit EXCEPT ![d] = @ - 1]
           /\ UNCHANGED <<compatible, connected, copies, answers, senderVars, receiver,
                          running, running_, threadVars, channelVars>>

LoseAnswer == /\ \E a \in answers : answers' = answers \ {a}
              /\ UNCHANGED <<compatible, connected, inTransit, copies, senderVars,
                             receiver, running, running_, threadVars, channelVars>>

\* A poll or a blocking recvfrom at the receiver finds that d has come.
Poll(d) == connected /\ inTransit[d] > 0

\* recvfrom: any datagram that has come, whatever it is.
Receive(d) == /\ Poll(d)
              /\ inTransit' = [inTransit EXCEPT ![d] = @ - 1]
-----------------------------------------------------------------------------
(* The sender's process *)

\* SenderSideHandshake, first half.
SendProperties == /\ sender = "new"
                  /\ Send(Properties)
                  /\ sender' = "asked"
                  /\ UNCHANGED <<compatible, connected, answers, receiver, running,
                                 running_, threadVars, channelVars>>

\* SetBlockingMode(false) was called: recvfrom may return at once, and the
\* buffer keeps what the stack happened to hold.
NotBlocked == sender' \in {"invalid", "valid"} /\ UNCHANGED answers

\* Second half.
ReadAnswer ==
    /\ sender = "asked"
    /\ \/ \E a \in answers :
            /\ sender' = IF a = kHandshakeErrorMsg THEN "invalid" ELSE "valid"
            /\ answers' = answers \ {a}
       \/ NotBlocked
    /\ UNCHANGED <<compatible, connected, inTransit, copies, receiver, running, running_,
                   threadVars, channelVars>>

\* The scheduler starts only if no handshake made it invalid; its workers
\* then call SendPacket for whatever is pushed into the sender channel.
SendPacket(p) == /\ sender = "valid"
                 /\ p \in Packets /\ copies[p] = 0
                 /\ Send(p)
                 /\ UNCHANGED <<compatible, connected, answers, senderVars, receiver,
                                running, running_, threadVars, channelVars>>

\* The process ends and is started again, with a new socket.
RestartSender == /\ sender \in {"valid", "invalid"}
                 /\ copies[Properties] < MaxCopies
                 /\ sender' = "new"
                 /\ answers' = {}
                 /\ UNCHANGED <<compatible, connected, inTransit, copies, receiver,
                                running, running_, threadVars, channelVars>>
-----------------------------------------------------------------------------
(* The receiver's process *)

\* CompatibilityChecker's ==, on what was read into remote_properties.
Equal(d) == d = Properties /\ compatible

\* Mutant of Compare: the datagram is only peeked at.
Compare_Peeks(d) ==
    /\ receiver = "new"
    /\ Poll(d)
    /\ receiver' = IF Equal(d) THEN "added" ELSE "invalid"
    /\ UNCHANGED <<compatible, connected, inTransit, copies, answers, senderVars, running,
                   running_, threadVars, channelVars>>

\* ReceiverSideHandshake: a datagram that is not the sender's properties, or
\* is unlike the local ones, is refused.  The constructor waits until one comes.
Compare(d) ==
    /\ receiver = "new"
    /\ Receive(d)
    /\ IF Equal(d)
       THEN /\ receiver' = "added"
            /\ answers' = answers \cup {kHandshakeSuccessMsg}
       ELSE /\ receiver' = "invalid"
            /\ answers' = answers \cup {kHandshakeErrorMsg}
    /\ UNCHANGED <<compatible, connected, copies, senderVars, running, running_,
                   threadVars, channelVars>>

\* Without a socket Receive returns at once, and the properties that are
\* compared are what the stack happened to hold.
CompareNothing ==
    /\ receiver = "new"
    /\ ~connected
    /\ receiver' \in {"added", "invalid"}
    /\ UNCHANGED <<compatible, connected, inTransit, copies, answers, senderVars, running,
                   running_, threadVars, channelVars>>

\* Receiver::Start: with running_ set, which it may be from the start, it
\* returns without making the thread.
MakeThread == IF running_ THEN UNCHANGED <<pc, running_>>
                          ELSE pc' = "poll" /\ running_' = TRUE

\* Mutant of StartReceiver: the validity of the scheduler is not tested.
StartReceiver_Unchecked ==
    /\ receiver # "new"
    /\ ~running /\ pc = "none"
    /\ running' = TRUE
    /\ MakeThread
    /\ UNCHANGED <<compatible, connected, inTransit, copies, answers, senderVars,
                   receiver, datagram, channelVars>>

\* SchedulerImpl::Start, which does nothing in an invalid state.
StartReceiver == /\ receiver = "added"
                 /\ ~running /\ pc = "none"
                 /\ running' = TRUE
                 /\ MakeThread
                 /\ UNCHANGED <<compatible, connected, inTransit, copies, answers,
                                senderVars, receiver, datagram, channelVars>>

\* Receiver::Stop clears running_, set since the Start, and joins the thread,
\* if there is one (EndThread).
StopReceiver == /\ running
                /\ running' = FALSE /\ running_' = FALSE
                /\ UNCHANGED <<compatible, connected, inTransit, copies, answers,
                               senderVars, receiver, threadVars, channelVars>>

EndThread == /\ pc = "poll" /\ ~running_
             /\ pc' = "none"
             /\ UNCHANGED <<compatible, connected, inTransit, copies, answers, senderVars,
                            receiver, running, running_, datagram, channelVars>>

\* running_ was read before poll: Stop may come in between.
PollReceive(d) == /\ pc = "poll"
                  /\ Receive(d)
                  /\ datagram' = d
                  /\ pc' = "push"
                  /\ UNCHANGED <<compatible, connected, copies, answers, senderVars,
                                 receiver, running, running_, channelVars>>

\* Mutant of Acquire: when a packet was dropped the new one is pushed again.
Acquire_Repeats ==
    /\ pc = "push"
    /\ LET full == Cardinality(queued) + Cardinality(held) >= capacity_
           slot == [as |-> datagram, nr |-> pushed[datagram]]
       IN  /\ pushed' = Add(pushed, datagram)
           /\ pc' = IF full THEN "push" ELSE "poll"
           /\ IF full /\ queued # {}
              THEN \E old \in queued : queued' = (queued \ {old}) \cup {slot}
              ELSE queued' = queued \cup {slot}
    /\ pushed[datagram] < MaxCopies + 1
    /\ UNCHANGED <<compatible, connected, inTransit, copies, answers, senderVars,
                   receiver, running, running_, datagram, held>>

\* Mutant of Acquire: packets that are being processed are not counted.
Acquire_IgnoresHeld ==
    /\ pc = "push"
    /\ pc' = "poll"
    /\ pushed' = Add(pushed, datagram)
    /\ LET slot == [as |-> datagram, nr |-> pushed[datagram]]
       IN  IF Cardinality(queued) >= capacity_
           THEN \E old \in queued : queued' = (queued \ {old}) \cup {slot}
           ELSE queued' = queued \cup {slot}
    /\ UNCHANGED <<compatible, connected, inTransit, copies, answers, senderVars,
                   receiver, running, running_, datagram, held>>

\* Mutant of Acquire: without a slot the thread ends.
Acquire_Ends ==
    /\ pc = "push"
    /\ LET full == Cardinality(queued) + Cardinality(held) >= capacity_
           slot == [as |-> datagram, nr |-> pushed[datagram]]
       IN  IF full THEN pc' = "none" /\ UNCHANGED <<queued, pushed>>
           ELSE /\ pc' = "poll"
                /\ pushed' = Add(pushed, datagram)
                /\ queued' = queued \cup {slot}
    /\ UNCHANGED <<compatible, connected, inTransit, copies, answers, senderVars,
                   receiver, running, running_, datagram, held>>

\* Acquire pushes what was read as if it were a packet.  With no free slot a
\* queued packet is dropped, the earliest in the code, any one here; with none
\* queued, the new one is.
Acquire ==
    /\ pc = "push"
    /\ pc' = "poll"
    /\ LET full == Cardinality(queued) + Cardinality(held) >= capacity_
           slot == [as |-> datagram, nr |-> pushed[datagram]]
       IN  /\ IF full /\ queued = {}
              THEN UNCHANGED <<queued, pushed>>
              ELSE /\ pushed' = Add(pushed, datagram)
                   /\ IF full
                      THEN \E old \in queued : queued' = (queued \ {old}) \cup {slot}
                      ELSE queued' = queued \cup {slot}
    /\ UNCHANGED <<compatible, connected, inTransit, copies, answers, senderVars,
                   receiver, running, running_, datagram, held>>

\* A worker of the receiver's scheduler takes a packet, and releases it later.
Take(q) == /\ running /\ q \in queued
           /\ queued' = queued \ {q}
           /\ held' = held \cup {q}
           /\ UNCHANGED <<compatible, connected, inTransit, copies, answers, senderVars,
                          receiver, running, running_, threadVars, pushed>>

Release(q) == /\ q \in held
              /\ held' = held \ {q}
              /\ UNCHANGED <<compatible, connected, inTransit, copies, answers,
                             senderVars, receiver, running, running_, threadVars, queued,
                             pushed>>

Thread == EndThread \/ Acquire \/ \E d \in Datagrams : PollReceive(d)

Next == \/ \E d \in Datagrams : Duplicate(d) \/ Lose(d) \/ Compare(d)
        \/ LoseAnswer
        \/ SendProperties \/ ReadAnswer \/ RestartSender
        \/ \E p \in Packets : SendPacket(p)
        \/ CompareNothing \/ StartReceiver \/ StopReceiver \/ Thread
        \/ \E q \in queued : Take(q)
        \/ \E q \in held : Release(q)

Spec == Init /\ [][Next]_vars

\* The receiver's thread runs: poll has a timeout and Acquire never blocks.
FairSpec == Spec /\ WF_vars(Thread)
-----------------------------------------------------------------------------
Slots == [as : Datagrams, nr : 0 .. MaxCopies]

\* The variables have their types.
TypeOK == /\ compatible \in BOOLEAN /\ connected \in BOOLEAN
          /\ running \in BOOLEAN /\ running_ \in BOOLEAN
          /\ inTransit \in [Datagrams -> 0 .. MaxCopies]
          /\ copies \in [Datagrams -> 0 .. MaxCopies]
          /\ pushed \in [Datagrams -> 0 .. MaxCopies]
          /\ answers \subseteq Answers
          /\ sender \in {"new", "asked", "valid", "invalid"}
          /\ receiver \in {"new", "added", "invalid"}
          /\ pc \in {"none", "poll", "push"} /\ datagram \in Datagrams
          /\ queued \subseteq Slots /\ held \subseteq Slots

\* Each copy of a datagram is pushed at most once, and none is invented: what
\* was pushed, is about to be and is on its way has been sent (Receiver.h:85-94).
NothingInvented ==
    \A d \in Datagrams :
        pushed[d] + inTransit[d] + (IF pc = "push" /\ datagram = d THEN 1 ELSE 0)
            <= copies[d]

\* Packets of a sender whose types differ never get into the channel, however
\* the link behaves: they are taken for the handshake, which fails, and the
\* scheduler that it makes invalid never starts (Receiver.h:54-63, Protocol.h:91-103).
OnlyCompatible ==
    (pc # "none" \/ running \/ \E d \in Datagrams : pushed[d] > 0)
        => receiver = "added" /\ (compatible \/ ~connected)

\* The handshake itself is pushed as a packet only if there was more than one
\* copy of it: the link duplicated it or the sender was started again.
HandshakeNotPushed == copies[Properties] <= 1 => pushed[Properties] = 0

\* An answer on its way tells what the receiver decided (Protocol.h:96-102).
AnswersTrue == \A a \in answers :
    receiver = IF a = kHandshakeSuccessMsg THEN "added" ELSE "invalid"

\* The channel is never over its capacity, and a slot is queued or processed.
WithinCapacity == /\ Cardinality(queued) + Cardinality(held) <= capacity_
                  /\ queued \cap held = {}

\* What has come is read in the end, if the receiver stays started, its flag
\* was clear at some time, and the sender and the link rest (Receiver.h:66-94).
\* A flag that is set from the start, as ReceiverBase.h:36 may leave it, is
\* first cleared by a Stop: until then no thread reads.
SocketDrains ==
    (/\ <>[](running /\ connected)
     /\ <>~running_
     /\ <>[][\A d \in Datagrams : copies'[d] = copies[d]]_vars)
        => <>[](\A d \in Datagrams : inTransit[d] = 0)

\* "Sender side handshake function which sends the collected data of the local
\* properties and waits for the answer about the success of the handshake."
\* (Protocol.h:36-38): a sender that goes on was accepted.
HandshakeAnswered == sender = "valid" => receiver = "added"
=============================================================================
