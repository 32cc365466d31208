---------------------------- MODULE LogAggregate ----------------------------
(***************************************************************************)
(* The statistics of one event type of one channel, written by all threads *)
(* that log and emptied by the profiler's: the fields change one by one,   *)
(* under an AdaptiveSpinLock.                                              *)
(***************************************************************************)
EXTENDS AdaptiveSpinLock, Integers, Sequences, FiniteSetsExt

CONSTANTS Values,          \* what may be logged
          kDoubleMin,      \* numeric_limits<double>::min(): the least above 0
          kDoubleMax,      \* numeric_limits<double>::max()
          MaxWindow        \* bounds the events between two gatherings

ASSUME ValueAssumption ==
    /\ Values \subseteq Int
    /\ kDoubleMin \in Int /\ kDoubleMax \in Int
    /\ MaxWindow \in Nat

VARIABLES log_count_, min_, max_, sum_,
          pc,        \* where each thread is in Log or SerializeNClear
          value,     \* the argument of Log, 0 when there is none
          report,    \* what was serialized last
          window     \* history: the values logged since the last Clear

fields == <<log_count_, min_, max_, sum_>>
vars == <<lockVars, fields, pc, value, report, window>>

\* What the values of s add up to.
Total(s) ==
    LET total[n \in 0 .. Len(s)] == IF n = 0 THEN 0 ELSE total[n - 1] + s[n]
    IN  total[Len(s)]

\* What Log makes of the values s after Clear.  It compares them with extremes
\* that start at kDoubleMax and kDoubleMin; as the latter is above 0, it is
\* kept as the maximum of values that are all 0 or less, which is not the
\* "maximal value logged" of LogAggregate.h:64.
Lowest(s) == Min({kDoubleMax} \cup {s[i] : i \in DOMAIN s})
Highest(s) == Max({kDoubleMin} \cup {s[i] : i \in DOMAIN s})
Summary(s) ==
    [log_count |-> Len(s), min |-> Lowest(s), max |-> Highest(s), sum |-> Total(s)]

Current == [log_count |-> log_count_, min |-> min_, max |-> max_, sum |-> sum_]

Logging == {"count", "sum", "min", "max"}
Gathering == {"serialize", "clear"}

Init == /\ LockInit
        /\ log_count_ = 0 /\ min_ = kDoubleMax /\ max_ = kDoubleMin /\ sum_ = 0
        /\ pc = [t \in Threads |-> "idle"]
        /\ value = [t \in Threads |-> 0]
        /\ report = Summary(<<>>)
        /\ window = <<>>

Goto(t, label) == pc' = [pc EXCEPT ![t] = label]

\* A thread calls Log or SerializeNClear and starts to wait for the lock.
CallLog(t, v) == /\ pc[t] = "idle"
                 /\ Len(window) + Cardinality({u \in Threads : pc[u] = "lock Log"})
                        < MaxWindow
                 /\ value' = [value EXCEPT ![t] = v]
                 /\ CallLock(t)
                 /\ Goto(t, "lock Log")
                 /\ UNCHANGED <<fields, report, window>>

CallGather(t) == /\ pc[t] = "idle"
                 /\ CallLock(t)
                 /\ Goto(t, "lock Gather")
                 /\ UNCHANGED <<fields, value, report, window>>

Lock(t) == /\ pc[t] \in {"lock Log", "lock Gather"}
           /\ \/ /\ Granted(t)
                 /\ Goto(t, IF pc[t] = "lock Log" THEN "count" ELSE "serialize")
              \/ Refused(t) /\ UNCHANGED pc
           /\ UNCHANGED <<fields, value, report, window>>

Count(t) == /\ pc[t] = "count"
            /\ log_count_' = log_count_ + 1
            /\ window' = Append(window, value[t])
            /\ Goto(t, "sum")
            /\ UNCHANGED <<lockVars, min_, max_, sum_, value, report>>

Sum(t) == /\ pc[t] = "sum"
          /\ sum_' = sum_ + value[t]
          /\ Goto(t, "min")
          /\ UNCHANGED <<lockVars, log_count_, min_, max_, value, report, window>>

Minimum(t) == /\ pc[t] = "min"
              /\ min_' = IF value[t] < min_ THEN value[t] ELSE min_
              /\ Goto(t, "max")
              /\ UNCHANGED <<lockVars, log_count_, max_, sum_, value, report, window>>

Maximum(t) == /\ pc[t] = "max"
              /\ max_' = IF value[t] > max_ THEN value[t] ELSE max_
              /\ Goto(t, "unlock")
              /\ UNCHANGED <<lockVars, log_count_, min_, sum_, value, report, window>>

\* Mutant of Serialize: it locks for itself, and Clear is left without lock.
Serialize_Unlocks(t) == /\ pc[t] = "serialize"
                        /\ report' = Current
                        /\ Unlock(t)
                        /\ Goto(t, "clear")
                        /\ UNCHANGED <<fields, value, window>>

\* The average is written as sum and count, which determine it.
Serialize(t) == /\ pc[t] = "serialize"
                /\ report' = Current
                /\ Goto(t, "clear")
                /\ UNCHANGED <<lockVars, fields, value, window>>

\* Mutant of Clear: the sum is kept.
Clear_NotSum(t) == /\ pc[t] = "clear"
                   /\ log_count_' = 0 /\ min_' = kDoubleMax /\ max_' = kDoubleMin
                   /\ window' = <<>>
                   /\ Goto(t, "unlock")
                   /\ UNCHANGED <<lockVars, sum_, value, report>>

Clear(t) == /\ pc[t] = "clear"
            /\ log_count_' = 0 /\ min_' = kDoubleMax /\ max_' = kDoubleMin /\ sum_' = 0
            /\ window' = <<>>
            /\ Goto(t, "unlock")
            /\ UNCHANGED <<lockVars, value, report>>

Return(t) == /\ pc[t] = "unlock"
             /\ Unlock(t)
             /\ value' = [value EXCEPT ![t] = 0]
             /\ Goto(t, "idle")
             /\ UNCHANGED <<fields, report, window>>

Inside(t) == \/ Count(t) \/ Sum(t) \/ Minimum(t) \/ Maximum(t)
             \/ Serialize(t) \/ Clear(t) \/ Return(t)

Next == \E t \in Threads : \/ \E v \in Values : CallLog(t, v)
                           \/ CallGather(t)
                           \/ Lock(t) \/ Inside(t)

Spec == Init /\ [][Next]_vars

\* A thread that has called goes on; nobody has to call.
FairSpec == Spec /\ \A t \in Threads : WF_vars(Lock(t) \/ Inside(t))
-----------------------------------------------------------------------------
Waiting(t) == pc[t] \in {"lock Log", "lock Gather"}
InSection(t) == pc[t] \in Logging \cup Gathering \cup {"unlock"}

\* The fields have their types (LogAggregate.h:73-78).
TypeOK == /\ LockTypeOK
          /\ log_count_ \in Nat /\ min_ \in Int /\ max_ \in Int /\ sum_ \in Int
          /\ pc \in [Threads -> {"idle", "lock Log", "lock Gather", "unlock"}
                                    \cup Logging \cup Gathering]
          /\ value \in [Threads -> Values \cup {0}]
          /\ window \in Seq(Values)

\* At most one thread is between lock and unlock, and then the flag is set:
\* nobody clears it for another thread (AdaptiveSpinLock.cpp:13-29).
OneInSection ==
    /\ \A t, u \in Threads : InSection(t) /\ InSection(u) => t = u
    /\ mutex_ <=> \E t \in Threads : InSection(t)

\* Whenever the lock is free, the fields are what one Log after another makes
\* of the values logged since they were last cleared, no event half counted
\* nor counted into two windows (LogAggregate.cpp:12-33).
FieldsAgree == ~mutex_ => Current = Summary(window)

\* No event is cleared that was not in the report written before: none slips
\* in between Serialize and Clear (LogAggregate.cpp:20-25).
NothingClearedUnreported ==
    [][window' = <<>> /\ window # <<>> => report = Summary(window)]_vars

\* Whoever waits, somebody gets the lock (AdaptiveSpinLock.cpp:13-21).
SomebodyServed ==
    (\E t \in Threads : Waiting(t)) ~> (\E t \in Threads : InSection(t))

\* A thread gets the lock if the others stop asking for it.  Without that
\* hypothesis it may wait for ever: this is the fairness that the liveness
\* properties of the scheduler are stated with.
ServedWhenAlone ==
    \A t \in Threads : <>[](\A u \in Threads \ {t} : pc[u] = "idle")
                           => (Waiting(t) ~> InSection(t))
=============================================================================
