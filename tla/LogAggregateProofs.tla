------------------------- MODULE LogAggregateProofs -------------------------
(***************************************************************************)
(* Proofs about LogAggregate for every set of threads, any number of spins *)
(* and every set of values.  The lock lets one thread in, although nothing *)
(* but the callers' discipline ties the flag to a thread; the fields are   *)
(* those of the window once that thread has done what it still has to do.  *)
(***************************************************************************)
EXTENDS LogAggregate, WellFoundedInduction, TLAPS

\* Between the increment of the count and the comparison with the maximum.
Comparing(t) == pc[t] \in {"sum", "min", "max"}

Lower(v, m) == IF v < m THEN v ELSE m
Higher(v, m) == IF v > m THEN v ELSE m

\* The fields as they will be when t has added and compared its value.
SumAfter(t) == IF pc[t] = "sum" THEN sum_ + value[t] ELSE sum_
MinAfter(t) == IF pc[t] \in {"sum", "min"} THEN Lower(value[t], min_) ELSE min_
MaxAfter(t) == IF Comparing(t) THEN Higher(value[t], max_) ELSE max_

Seen(s) == {s[i] : i \in DOMAIN s}
IsLowest(m, s) == /\ m \in {kDoubleMax} \cup Seen(s)
                  /\ \A v \in {kDoubleMax} \cup Seen(s) : m <= v
IsHighest(m, s) == /\ m \in {kDoubleMin} \cup Seen(s)
                   /\ \A v \in {kDoubleMin} \cup Seen(s) : m >= v

\* A sum and extremes that are those of the window.
Agreed(sum, min, max) ==
    sum = Total(window) /\ IsLowest(min, window) /\ IsHighest(max, window)

\* A thread that logs has a value to log.
Arguments == \A t \in Threads : pc[t] \in {"lock Log"} \cup Logging => value[t] \in Values

\* The fields lag behind the window by what one thread still has to do.
FieldsFollow ==
    /\ log_count_ = Len(window)
    /\ (\A t \in Threads : ~Comparing(t)) => Agreed(sum_, min_, max_)
    /\ \A t \in Threads : Comparing(t) => Agreed(SumAfter(t), MinAfter(t), MaxAfter(t))

\* What is about to be cleared has been written.
Reported == \A t \in Threads : pc[t] = "clear" => report = Current

IInv == TypeOK /\ OneInSection /\ Arguments /\ FieldsFollow /\ Reported
-----------------------------------------------------------------------------
\* What is logged can be compared.
LEMMA ValuesFact == \A v \in Values : v \in Int
    BY ValueAssumption

\* A set of naturals that is not empty has a smallest element.
LEMMA LeastNatural ==
    ASSUME NEW S \in SUBSET Nat, S # {} PROVE \E m \in S : \A n \in S : m <= n
<1>1. PICK R : IsWellFoundedOn(R, Nat) /\ \A m, n \in Nat : m < n => <<m, n>> \in R
  <2>1. \A m, n \in Nat : m < n => <<m, n>> \in OpToRel(<, Nat)
      BY DEF OpToRel
  <2> QED BY <2>1, NatLessThanWellFounded
<1>2. PICK m \in S : \A n \in S : <<n, m>> \notin R
  <2>1. IsWellFoundedOn(R, Nat) /\ S \subseteq Nat /\ S # {}
      BY <1>1
  <2> QED BY <2>1, WFMin
<1>3. \A n \in S : ~(n < m)
    BY <1>1, <1>2, Zenon
<1>4. \A n \in S : m <= n
    BY <1>3
<1> QED BY <1>4

\* f holds the totals of the first values of s, up to n of them.
Totals(f, s, n) == f = [i \in 0 .. n |-> IF i = 0 THEN 0 ELSE f[i - 1] + s[i]]

\* There are such totals, of any number of values: those of one more extend
\* those of one less.
LEMMA TotalsExist ==
    ASSUME NEW s, NEW n \in Nat PROVE \E f : Totals(f, s, n)
<1> DEFINE Without == {k \in Nat : ~\E f : Totals(f, s, k)}
<1> SUFFICES ASSUME Without # {} PROVE FALSE
    OBVIOUS
<1>1. PICK m \in Without : \A k \in Without : m <= k
  <2> HIDE DEF Without
  <2>1. Without \in SUBSET Nat
      BY DEF Without
  <2> QED BY <2>1, LeastNatural
<1>2. CASE m = 0
  <2>1. Totals([i \in 0 .. 0 |-> 0], s, 0)
      BY DEF Totals
  <2> QED BY <1>1, <1>2, <2>1
<1>3. CASE m # 0
  <2>1. m - 1 \in Nat /\ m - 1 \notin Without
      BY <1>1, <1>3
  <2>2. PICK f : Totals(f, s, m - 1)
      BY <2>1
  <2> DEFINE g == [i \in 0 .. m |-> IF i = m THEN f[m - 1] + s[m] ELSE f[i]]
  <2>3. \A i \in 0 .. m - 1 : f[i] = IF i = 0 THEN 0 ELSE f[i - 1] + s[i]
      BY <2>2 DEF Totals
  <2>4. \A i \in 0 .. m : g[i] = IF i = 0 THEN 0 ELSE g[i - 1] + s[i]
    <3> SUFFICES ASSUME NEW i \in 0 .. m
                 PROVE  g[i] = IF i = 0 THEN 0 ELSE g[i - 1] + s[i]
        OBVIOUS
    <3>1. CASE i = m
      <4>1. g[i] = f[m - 1] + s[m] /\ g[i - 1] = f[m - 1]
          BY <1>3, <2>1, <3>1
      <4> QED BY <1>3, <3>1, <4>1
    <3>2. CASE i # m
      <4>1. i \in 0 .. m - 1
          BY <2>1, <3>2
      <4>2. g[i] = f[i] /\ (i # 0 => g[i - 1] = f[i - 1])
          BY <3>2, <4>1
      <4> QED BY <2>3, <4>1, <4>2
    <3> QED BY <3>1, <3>2
  <2>5. Totals(g, s, m)
    <3>1. [i \in 0 .. m |-> IF i = 0 THEN 0 ELSE g[i - 1] + s[i]] = [i \in 0 .. m |-> g[i]]
        BY <2>4
    <3>2. g = [i \in 0 .. m |-> g[i]]
        OBVIOUS
    <3> QED BY <3>1, <3>2 DEF Totals
  <2> QED BY <1>1, <2>5
<1> QED BY <1>2, <1>3

\* They are determined by the values, whatever follows these.
LEMMA TotalsUnique ==
    ASSUME NEW s, NEW r, NEW n \in Nat, NEW l \in Nat, n <= l,
           \A i \in 1 .. n : r[i] = s[i],
           NEW f, Totals(f, s, n), NEW g, Totals(g, r, l)
    PROVE  g[n] = f[n]
<1> DEFINE Differ == {k \in 0 .. n : g[k] # f[k]}
<1> SUFFICES ASSUME Differ # {} PROVE FALSE
    OBVIOUS
<1>1. PICK m \in Differ : \A k \in Differ : m <= k
  <2>1. Differ \in SUBSET Nat
      OBVIOUS
  <2> HIDE DEF Differ
  <2> QED BY <2>1, LeastNatural
<1>2. \A k \in 0 .. n : f[k] = IF k = 0 THEN 0 ELSE f[k - 1] + s[k]
    BY DEF Totals
<1>3. \A k \in 0 .. l : g[k] = IF k = 0 THEN 0 ELSE g[k - 1] + r[k]
    BY DEF Totals
<1>4. m \in 0 .. n /\ m \in 0 .. l /\ g[m] # f[m]
    BY <1>1
<1>5. m # 0
    BY <1>2, <1>3, <1>4
<1>6. m - 1 \in 0 .. n /\ m - 1 \notin Differ /\ m \in 1 .. n
    BY <1>1, <1>4, <1>5
<1>7. g[m - 1] = f[m - 1] /\ r[m] = s[m]
    BY <1>6
<1> QED BY <1>2, <1>3, <1>4, <1>5, <1>7

\* Total is what it says: nothing for no value, and one more value adds itself.
LEMMA TotalFacts ==
    /\ Total(<<>>) = 0
    /\ \A s \in Seq(Values), v \in Values : Total(Append(s, v)) = Total(s) + v
<1>1. ASSUME NEW s, Len(s) \in Nat
      PROVE  \E f : Totals(f, s, Len(s)) /\ Total(s) = f[Len(s)]
  <2>1. PICK f : Totals(f, s, Len(s))
      BY <1>1, TotalsExist
  <2> DEFINE chosen == CHOOSE h : Totals(h, s, Len(s))
  <2>2. Totals(chosen, s, Len(s))
      BY <2>1
  <2>3. Total(s) = chosen[Len(s)]
      BY DEF Total, Totals
  <2> QED BY <2>2, <2>3
<1>2. Total(<<>>) = 0
  <2>1. Len(<<>>) = 0
      OBVIOUS
  <2>2. PICK f : Totals(f, <<>>, 0) /\ Total(<<>>) = f[0]
      BY <1>1, <2>1
  <2>3. f[0] = 0
      BY <2>2 DEF Totals
  <2> QED BY <2>2, <2>3
<1>3. ASSUME NEW s \in Seq(Values), NEW v \in Values PROVE Total(Append(s, v)) = Total(s) + v
  <2> DEFINE r == Append(s, v)
             n == Len(s)
  <2>1. /\ n \in Nat /\ Len(r) = n + 1
        /\ r[n + 1] = v
        /\ \A i \in 1 .. n : r[i] = s[i]
      OBVIOUS
  <2>2. PICK f : Totals(f, s, n) /\ Total(s) = f[n]
      BY <1>1, <2>1
  <2>3. PICK g : Totals(g, r, n + 1) /\ Total(r) = g[n + 1]
    <3>1. n + 1 \in Nat
        BY <2>1
    <3> HIDE DEF r, n
    <3> QED BY <1>1, <2>1, <3>1
  <2> HIDE DEF r, n
  <2>4. g[n] = f[n]
    <3>1. n + 1 \in Nat /\ n <= n + 1
        BY <2>1
    <3> QED BY <2>1, <2>2, <2>3, <3>1, TotalsUnique
  <2>5. g[n + 1] = g[n] + r[n + 1]
    <3>1. n + 1 \in 0 .. n + 1 /\ n + 1 # 0 /\ (n + 1) - 1 = n
        BY <2>1
    <3>2. g[n + 1] = IF n + 1 = 0 THEN 0 ELSE g[(n + 1) - 1] + r[n + 1]
        BY <2>3, <3>1 DEF Totals
    <3> QED BY <3>1, <3>2
  <2>6. Total(r) = Total(s) + v
      BY <2>1, <2>2, <2>3, <2>4, <2>5
  <2> QED BY <2>6 DEF r
<1> QED BY <1>2, <1>3

LEMMA InitIInv == Init => IInv
<1> SUFFICES ASSUME Init PROVE IInv
    OBVIOUS
<1> USE DEF Init, LockInit
<1>1. TypeOK
  <2>1. LockTypeOK
    <3>1. countdown \in [Threads -> 0 .. spins_before_yield]
        BY SpinAssumption
    <3>2. mutex_ \in BOOLEAN
        OBVIOUS
    <3>3. holder \in SUBSET Threads
        OBVIOUS
    <3> QED BY <3>1, <3>2, <3>3 DEF LockTypeOK
  <2>2. log_count_ \in Nat /\ min_ \in Int /\ max_ \in Int /\ sum_ \in Int
      BY ValueAssumption
  <2>3. value \in [Threads -> Values \cup {0}] /\ window \in Seq(Values)
      OBVIOUS
  <2> QED BY <2>1, <2>2, <2>3 DEF TypeOK
<1>2. OneInSection
    BY DEF OneInSection, InSection, Logging, Gathering
<1>3. Arguments
    BY DEF Arguments, Logging
<1>4. FieldsFollow
  <2>1. Len(window) = 0 /\ DOMAIN window = {}
      OBVIOUS
  <2>2. Seen(window) = {}
      BY <2>1 DEF Seen
  <2>3. kDoubleMax <= kDoubleMax /\ kDoubleMin >= kDoubleMin
      BY ValueAssumption
  <2>4. Agreed(sum_, min_, max_)
      BY <2>2, <2>3, TotalFacts DEF Agreed, IsLowest, IsHighest
  <2>5. \A t \in Threads : ~Comparing(t)
      BY DEF Comparing
  <2> QED BY <2>1, <2>4, <2>5 DEF FieldsFollow
<1>5. Reported
    BY DEF Reported
<1> QED BY <1>1, <1>2, <1>3, <1>4, <1>5 DEF IInv

\* Lock and Unlock keep the types of the flag and the spins.
LEMMA LockTypes ==
    ASSUME LockTypeOK, NEW t \in Threads,
           CallLock(t) \/ Granted(t) \/ Refused(t) \/ Unlock(t) \/ UNCHANGED lockVars
    PROVE  LockTypeOK'
<1>1. spins_before_yield \in Nat \ {0}
    BY SpinAssumption
<1>2. countdown' \in [Threads -> 0 .. spins_before_yield]
    BY <1>1 DEF LockTypeOK, CallLock, Granted, Refused, Unlock, lockVars
<1>3. holder' \in SUBSET Threads
    BY DEF LockTypeOK, CallLock, Granted, Refused, Unlock, lockVars
<1>4. mutex_' \in BOOLEAN
    BY DEF LockTypeOK, CallLock, Granted, Refused, Unlock, lockVars
<1> QED BY <1>2, <1>3, <1>4 DEF LockTypeOK

LEMMA TypesKept ==
    ASSUME IInv, NEW t \in Threads,
           (\E v \in Values : CallLog(t, v)) \/ CallGather(t) \/ Lock(t) \/ Inside(t)
    PROVE  TypeOK'
<1> USE DEF IInv, TypeOK
<1>1. LockTypeOK'
  <2>1. CallLock(t) \/ Granted(t) \/ Refused(t) \/ Unlock(t) \/ UNCHANGED lockVars
      BY DEF CallLog, CallGather, Lock, Inside, Count, Sum, Minimum, Maximum, Serialize,
             Clear, Return
  <2> QED BY <2>1, LockTypes
<1>2. pc' \in [Threads -> {"idle", "lock Log", "lock Gather", "unlock"}
                              \cup Logging \cup Gathering]
    BY DEF CallLog, CallGather, Lock, Inside, Count, Sum, Minimum, Maximum, Serialize, Clear,
           Return, Goto, Logging, Gathering
<1>3. value' \in [Threads -> Values \cup {0}]
    BY DEF CallLog, CallGather, Lock, Inside, Count, Sum, Minimum, Maximum, Serialize, Clear,
           Return
<1> HIDE DEF IInv, TypeOK
<1>4. window' \in Seq(Values)
  <2>1. window \in Seq(Values)
      BY DEF IInv, TypeOK
  <2>2. CASE Count(t)
    <3>1. value[t] \in Values
        BY <2>2 DEF Count, IInv, Arguments, Logging
    <3>2. window' = Append(window, value[t])
        BY <2>2 DEF Count
    <3> QED BY <2>1, <3>1, <3>2
  <2>3. CASE ~Count(t)
    <3>1. window' = window \/ window' = <<>>
        BY <2>3 DEF CallLog, CallGather, Lock, Inside, Sum, Minimum, Maximum, Serialize,
                    Clear, Return
    <3>2. <<>> \in Seq(Values)
        OBVIOUS
    <3> QED BY <2>1, <3>1, <3>2
  <2> QED BY <2>2, <2>3
<1>5. /\ log_count_ \in Nat /\ min_ \in Int /\ max_ \in Int /\ sum_ \in Int
      /\ value[t] \in Int /\ kDoubleMin \in Int /\ kDoubleMax \in Int
  <2>1. value[t] \in Values \cup {0}
      BY DEF IInv, TypeOK
  <2>2. value[t] \in Int
      BY <2>1, ValuesFact
  <2>3. log_count_ \in Nat /\ min_ \in Int /\ max_ \in Int /\ sum_ \in Int
      BY DEF IInv, TypeOK
  <2> QED BY <2>2, <2>3, ValueAssumption
<1>6. log_count_' \in Nat /\ min_' \in Int /\ max_' \in Int /\ sum_' \in Int
  <2>1. /\ log_count_' \in {log_count_, log_count_ + 1, 0}
        /\ min_' \in {min_, value[t], kDoubleMax}
        /\ max_' \in {max_, value[t], kDoubleMin}
        /\ sum_' \in {sum_, sum_ + value[t], 0}
      BY DEF CallLog, CallGather, Lock, Inside, Count, Sum, Minimum, Maximum, Serialize,
             Clear, Return, fields
  <2> QED BY <1>5, <2>1
<1> QED BY <1>1, <1>2, <1>3, <1>4, <1>6 DEF TypeOK

\* A thread enters when the flag is clear, and the one inside clears it.
LEMMA SectionKept ==
    ASSUME IInv, NEW t \in Threads,
           (\E v \in Values : CallLog(t, v)) \/ CallGather(t) \/ Lock(t) \/ Inside(t)
    PROVE  OneInSection'
<1> USE DEF InSection, Logging, Gathering
<1>1. pc \in [Threads -> {"idle", "lock Log", "lock Gather", "unlock"}
                             \cup Logging \cup Gathering]
    BY DEF IInv, TypeOK
<1>2. \A u \in Threads \ {t} : pc'[u] = pc[u]
    BY <1>1 DEF CallLog, CallGather, Lock, Inside, Count, Sum, Minimum, Maximum, Serialize,
                Clear, Return, Goto
<1>3. CASE mutex_' = mutex_ /\ (InSection(t)' <=> InSection(t))
    BY <1>2, <1>3 DEF IInv, OneInSection
<1>4. CASE ~mutex_ /\ mutex_' = TRUE /\ InSection(t)'
    BY <1>2, <1>4 DEF IInv, OneInSection
<1>5. CASE mutex_' = FALSE /\ InSection(t) /\ ~InSection(t)'
    BY <1>2, <1>5 DEF IInv, OneInSection
<1>6. CASE (\E v \in Values : CallLog(t, v)) \/ CallGather(t) \/ (Lock(t) /\ Refused(t))
  <2>1. mutex_' = mutex_ /\ ~InSection(t) /\ ~InSection(t)'
      BY <1>1, <1>6 DEF CallLog, CallGather, Lock, Goto, CallLock, Refused, Granted
  <2> QED BY <1>3, <2>1
<1>7. CASE Lock(t) /\ Granted(t)
  <2>1. ~mutex_ /\ mutex_' = TRUE /\ InSection(t)'
      BY <1>1, <1>7 DEF Lock, Goto, Granted, Refused
  <2> QED BY <1>4, <2>1
<1>8. CASE Return(t)
  <2>1. mutex_' = FALSE /\ InSection(t) /\ ~InSection(t)'
      BY <1>1, <1>8 DEF Return, Goto, Unlock
  <2> QED BY <1>5, <2>1
<1>9. CASE Count(t) \/ Sum(t) \/ Minimum(t) \/ Maximum(t) \/ Serialize(t) \/ Clear(t)
  <2>1. mutex_' = mutex_ /\ InSection(t) /\ InSection(t)'
      BY <1>1, <1>9 DEF Count, Sum, Minimum, Maximum, Serialize, Clear, Goto, lockVars
  <2> QED BY <1>3, <2>1
<1>10. Lock(t) => Granted(t) \/ Refused(t)
    BY DEF Lock
<1> QED BY <1>6, <1>7, <1>8, <1>9, <1>10 DEF Inside

LEMMA ArgumentsKept ==
    ASSUME IInv, NEW t \in Threads,
           (\E v \in Values : CallLog(t, v)) \/ CallGather(t) \/ Lock(t) \/ Inside(t)
    PROVE  Arguments'
<1>1. /\ pc \in [Threads -> {"idle", "lock Log", "lock Gather", "unlock"}
                                \cup Logging \cup Gathering]
      /\ value \in [Threads -> Values \cup {0}]
    BY DEF IInv, TypeOK
<1>2. \A u \in Threads \ {t} : pc'[u] = pc[u] /\ value'[u] = value[u]
    BY <1>1 DEF CallLog, CallGather, Lock, Inside, Count, Sum, Minimum, Maximum, Serialize,
                Clear, Return, Goto
<1>3. pc'[t] \in {"lock Log"} \cup Logging => value'[t] \in Values
    BY <1>1 DEF CallLog, CallGather, Lock, Inside, Count, Sum, Minimum, Maximum, Serialize,
                Clear, Return, Goto, IInv, Arguments, Logging
<1> QED BY <1>2, <1>3 DEF IInv, Arguments

\* Two threads are never between lock and unlock, so that only the step's own
\* thread may be comparing.
LEMMA OnlyOne ==
    ASSUME IInv, NEW t \in Threads, InSection(t)
    PROVE  \A u \in Threads \ {t} : ~InSection(u) /\ ~Comparing(u)
    BY DEF IInv, OneInSection, InSection, Comparing, Logging

\* A value that is counted is the last one of the window.
LEMMA Counted ==
    ASSUME IInv, NEW v \in Values, window' = Append(window, v), Agreed(sum_, min_, max_)
    PROVE  /\ Len(window') = Len(window) + 1
           /\ sum_ + v = Total(window')
           /\ IsLowest(Lower(v, min_), window')
           /\ IsHighest(Higher(v, max_), window')
<1>1. window \in Seq(Values) /\ sum_ \in Int /\ min_ \in Int /\ max_ \in Int
    BY DEF IInv, TypeOK
<1>2. Len(window') = Len(window) + 1 /\ Total(window') = Total(window) + v
    BY <1>1, TotalFacts
<1>3. Seen(window') = Seen(window) \cup {v}
  <2>1. /\ DOMAIN window' = 1 .. Len(window) + 1 /\ DOMAIN window = 1 .. Len(window)
        /\ Len(window) \in Nat
        /\ window'[Len(window) + 1] = v
        /\ \A i \in 1 .. Len(window) : window'[i] = window[i]
      BY <1>1
  <2> QED BY <2>1 DEF Seen
<1>4. \A w \in {v, kDoubleMin, kDoubleMax} \cup Seen(window) : w \in Int
  <2>1. Seen(window) \subseteq Values
      BY <1>1 DEF Seen
  <2> QED BY <2>1, ValuesFact, ValueAssumption
<1>5. IsLowest(Lower(v, min_), window')
  <2> DEFINE before == {kDoubleMax} \cup Seen(window)
             after == {kDoubleMax} \cup Seen(window')
  <2>1. /\ min_ \in before /\ \A w \in before : min_ <= w
        /\ \A w \in before : w \in Int
        /\ after = before \cup {v}
        /\ v \in Int /\ min_ \in Int
      BY <1>1, <1>3, <1>4 DEF Agreed, IsLowest
  <2> HIDE DEF before, after
  <2>2. Lower(v, min_) \in after /\ \A w \in after : Lower(v, min_) <= w
      BY <2>1 DEF Lower
  <2> QED BY <2>2 DEF IsLowest, before, after
<1>6. IsHighest(Higher(v, max_), window')
  <2> DEFINE before == {kDoubleMin} \cup Seen(window)
             after == {kDoubleMin} \cup Seen(window')
  <2>1. /\ max_ \in before /\ \A w \in before : max_ >= w
        /\ \A w \in before : w \in Int
        /\ after = before \cup {v}
        /\ v \in Int /\ max_ \in Int
      BY <1>1, <1>3, <1>4 DEF Agreed, IsHighest
  <2> HIDE DEF before, after
  <2>2. Higher(v, max_) \in after /\ \A w \in after : Higher(v, max_) >= w
      BY <2>1 DEF Higher
  <2> QED BY <2>2 DEF IsHighest, before, after
<1> QED BY <1>2, <1>5, <1>6 DEF Agreed

LEMMA FieldsKept ==
    ASSUME IInv, NEW t \in Threads,
           (\E v \in Values : CallLog(t, v)) \/ CallGather(t) \/ Lock(t) \/ Inside(t)
    PROVE  FieldsFollow'
<1>1. /\ pc \in [Threads -> {"idle", "lock Log", "lock Gather", "unlock"}
                                \cup Logging \cup Gathering]
      /\ value \in [Threads -> Values \cup {0}]
    BY DEF IInv, TypeOK
<1>2. \A u \in Threads \ {t} : pc'[u] = pc[u] /\ value'[u] = value[u]
    BY <1>1 DEF CallLog, CallGather, Lock, Inside, Count, Sum, Minimum, Maximum, Serialize,
                Clear, Return, Goto
<1>3. \A u \in Threads \ {t} : Comparing(u)' <=> Comparing(u)
    BY <1>2 DEF Comparing
<1>4. CASE \/ \E v \in Values : CallLog(t, v)
           \/ CallGather(t) \/ Lock(t) \/ Serialize(t) \/ Return(t)
  <2>1. UNCHANGED <<window, fields>>
      BY <1>4 DEF CallLog, CallGather, Lock, Serialize, Return
  <2>2. ~Comparing(t) /\ ~Comparing(t)'
      BY <1>1, <1>4 DEF CallLog, CallGather, Lock, Serialize, Return, Goto, Comparing
  <2>3. (\A u \in Threads : ~Comparing(u)') => Agreed(sum_, min_, max_)'
    <3>1. (\A u \in Threads : ~Comparing(u)') => \A u \in Threads : ~Comparing(u)
        BY <1>3, <2>2
    <3> QED BY <2>1, <3>1 DEF IInv, FieldsFollow, Agreed, IsLowest, IsHighest, fields
  <2>4. ASSUME NEW u \in Threads, Comparing(u)'
        PROVE  Agreed(SumAfter(u), MinAfter(u), MaxAfter(u))'
    <3>1. Comparing(u) /\ u # t
        BY <1>3, <2>2, <2>4
    <3>2. Agreed(SumAfter(u), MinAfter(u), MaxAfter(u))
        BY <3>1 DEF IInv, FieldsFollow
    <3>3. UNCHANGED <<SumAfter(u), MinAfter(u), MaxAfter(u)>>
        BY <1>2, <2>1, <3>1 DEF SumAfter, MinAfter, MaxAfter, fields, Comparing
    <3> QED BY <2>1, <3>2, <3>3 DEF Agreed, IsLowest, IsHighest
  <2>5. log_count_' = Len(window')
      BY <2>1 DEF IInv, FieldsFollow, fields
  <2> QED BY <2>3, <2>4, <2>5 DEF FieldsFollow
<1>5. ASSUME InSection(t), log_count_' = Len(window'),
             Comparing(t)' => Agreed(SumAfter(t), MinAfter(t), MaxAfter(t))',
             ~Comparing(t)' => Agreed(sum_, min_, max_)'
      PROVE  FieldsFollow'
  <2>1. \A u \in Threads \ {t} : ~Comparing(u)'
      BY <1>3, <1>5, OnlyOne
  <2> QED BY <1>5, <2>1 DEF FieldsFollow
<1>6. CASE Count(t)
  <2>1. /\ window' = Append(window, value[t]) /\ log_count_' = log_count_ + 1
        /\ UNCHANGED <<sum_, min_, max_, value>>
        /\ pc'[t] = "sum" /\ Comparing(t)' /\ ~Comparing(t) /\ InSection(t)
      BY <1>1, <1>6 DEF Count, Goto, Comparing, InSection, Logging
  <2>2. \A u \in Threads : ~Comparing(u)
      BY <2>1, OnlyOne
  <2>3. Agreed(sum_, min_, max_) /\ log_count_ = Len(window)
      BY <2>2 DEF IInv, FieldsFollow
  <2>4. value[t] \in Values
      BY <1>6 DEF Count, Logging, IInv, Arguments
  <2>5. /\ Len(window') = Len(window) + 1
        /\ sum_ + value[t] = Total(window')
        /\ IsLowest(Lower(value[t], min_), window')
        /\ IsHighest(Higher(value[t], max_), window')
      BY <2>1, <2>3, <2>4, Counted
  <2>6. /\ SumAfter(t)' = sum_ + value[t]
        /\ MinAfter(t)' = Lower(value[t], min_) /\ MaxAfter(t)' = Higher(value[t], max_)
      BY <2>1 DEF SumAfter, MinAfter, MaxAfter, Comparing
  <2>7. Agreed(SumAfter(t), MinAfter(t), MaxAfter(t))'
      BY <2>5, <2>6 DEF Agreed, IsLowest, IsHighest
  <2> QED BY <1>5, <2>1, <2>3, <2>5, <2>7
<1>7. CASE Sum(t) \/ Minimum(t) \/ Maximum(t)
  <2>1. /\ UNCHANGED <<window, log_count_, value>>
        /\ InSection(t) /\ Comparing(t)
      BY <1>7 DEF Sum, Minimum, Maximum, InSection, Comparing, Logging
  <2>2. /\ Agreed(SumAfter(t), MinAfter(t), MaxAfter(t))
        /\ log_count_' = Len(window')
      BY <2>1 DEF IInv, FieldsFollow
  <2>3. CASE Sum(t) \/ Minimum(t)
    <3>1. Comparing(t)'
        BY <1>1, <2>3 DEF Sum, Minimum, Goto, Comparing
    <3>2. UNCHANGED <<SumAfter(t), MinAfter(t), MaxAfter(t)>>
        BY <1>1, <2>3 DEF Sum, Minimum, Goto, SumAfter, MinAfter, MaxAfter, Comparing, Lower
    <3>3. Agreed(SumAfter(t), MinAfter(t), MaxAfter(t))'
        BY <2>1, <2>2, <3>2 DEF Agreed, IsLowest, IsHighest
    <3> QED BY <1>5, <2>1, <2>2, <3>1, <3>3
  <2>4. CASE Maximum(t)
    <3>1. ~Comparing(t)' /\ pc'[t] = "unlock"
        BY <1>1, <2>4 DEF Maximum, Goto, Comparing
    <3>2. sum_' = SumAfter(t) /\ min_' = MinAfter(t) /\ max_' = MaxAfter(t)
        BY <1>1, <2>4 DEF Maximum, SumAfter, MinAfter, MaxAfter, Comparing, Higher
    <3>3. Agreed(sum_, min_, max_)'
        BY <2>1, <2>2, <3>2 DEF Agreed, IsLowest, IsHighest
    <3> QED BY <1>5, <2>1, <2>2, <3>1, <3>3
  <2> QED BY <1>7, <2>3, <2>4
<1>8. CASE Clear(t)
  <2>1. /\ window' = <<>> /\ log_count_' = 0
        /\ sum_' = 0 /\ min_' = kDoubleMax /\ max_' = kDoubleMin
        /\ InSection(t) /\ ~Comparing(t)' /\ pc'[t] = "unlock"
      BY <1>1, <1>8 DEF Clear, Goto, Comparing, InSection, Gathering
  <2>2. Len(window') = 0 /\ DOMAIN window' = {}
      BY <2>1
  <2>3. Seen(window)' = {}
      BY <2>2 DEF Seen
  <2>4. kDoubleMax <= kDoubleMax /\ kDoubleMin >= kDoubleMin
      BY ValueAssumption
  <2>5. Agreed(sum_, min_, max_)'
      BY <2>1, <2>3, <2>4, TotalFacts DEF Agreed, IsLowest, IsHighest
  <2> QED BY <1>5, <2>1, <2>2, <2>5
<1> QED BY <1>4, <1>6, <1>7, <1>8 DEF Inside

\* Nobody touches the fields between Serialize and Clear.
LEMMA ReportedKept ==
    ASSUME IInv, NEW t \in Threads,
           (\E v \in Values : CallLog(t, v)) \/ CallGather(t) \/ Lock(t) \/ Inside(t)
    PROVE  Reported'
<1>1. pc \in [Threads -> {"idle", "lock Log", "lock Gather", "unlock"}
                             \cup Logging \cup Gathering]
    BY DEF IInv, TypeOK
<1>2. \A u \in Threads \ {t} : pc'[u] = pc[u]
    BY <1>1 DEF CallLog, CallGather, Lock, Inside, Count, Sum, Minimum, Maximum, Serialize,
                Clear, Return, Goto
<1> SUFFICES ASSUME NEW u \in Threads, pc'[u] = "clear" PROVE (report = Current)'
    BY DEF Reported
<1>3. CASE Serialize(t)
    BY <1>3 DEF Serialize, Current, fields
<1>4. CASE ~Serialize(t)
  <2>1. pc'[t] # "clear"
      BY <1>1, <1>4 DEF CallLog, CallGather, Lock, Inside, Count, Sum, Minimum, Maximum,
                        Clear, Return, Goto
  <2>2. u # t /\ pc[u] = "clear"
      BY <1>2, <2>1
  <2>3. InSection(u)
      BY <2>2 DEF InSection, Gathering
  <2>4. ~InSection(t)
      BY <2>2, <2>3, OnlyOne
  <2>5. UNCHANGED <<report, fields>>
      BY <1>4, <2>4 DEF CallLog, CallGather, Lock, Inside, Count, Sum, Minimum, Maximum,
                        Clear, Return, InSection, Logging, Gathering
  <2>6. report = Current
      BY <2>2 DEF IInv, Reported
  <2> QED BY <2>5, <2>6 DEF Current, fields
<1> QED BY <1>3, <1>4

LEMMA AlwaysIInv == Spec => []IInv
<1>1. Init => IInv
    BY InitIInv
<1>2. IInv /\ [Next]_vars => IInv'
  <2>1. SUFFICES ASSUME IInv, [Next]_vars PROVE IInv'
      OBVIOUS
  <2>2. CASE Next
      BY <2>1, <2>2, TypesKept, SectionKept, ArgumentsKept, FieldsKept, ReportedKept
         DEF IInv, Next
  <2>3. CASE UNCHANGED vars
    <3>1. OneInSection' /\ LockTypeOK'
        BY <2>1, <2>3 DEF vars, lockVars, IInv, TypeOK, LockTypeOK, OneInSection, InSection
    <3>2. TypeOK' /\ Arguments'
        BY <2>1, <2>3, <3>1 DEF vars, fields, IInv, TypeOK, Arguments
    <3>3. FieldsFollow'
        BY <2>1, <2>3 DEF vars, fields, IInv, FieldsFollow, Agreed, IsLowest, IsHighest,
                          SumAfter, MinAfter, MaxAfter, Comparing
    <3>4. Reported'
        BY <2>1, <2>3 DEF vars, fields, IInv, Reported, Current
    <3> QED BY <3>1, <3>2, <3>3, <3>4 DEF IInv
  <2> QED BY <2>1, <2>2, <2>3
<1> QED BY <1>1, <1>2, PTL DEF Spec
-----------------------------------------------------------------------------
(* What is guaranteed *)

\* The fields have their types (LogAggregate.h:73-78).
THEOREM AggregateTypesAlwaysOK == Spec => []TypeOK
<1>1. IInv => TypeOK
    BY DEF IInv
<1> QED BY <1>1, AlwaysIInv, PTL

\* The spin lock excludes, whoever spins or yields (AdaptiveSpinLock.cpp:13-29).
THEOREM AlwaysOneInSection == Spec => []OneInSection
<1>1. IInv => OneInSection
    BY DEF IInv
<1> QED BY <1>1, AlwaysIInv, PTL

\* Extremes are unique, so that what is agreed is the summary of the window.
LEMMA AgreedSummary ==
    ASSUME IInv, \A t \in Threads : ~Comparing(t)
    PROVE  Current = Summary(window)
<1>1. log_count_ = Len(window) /\ Agreed(sum_, min_, max_)
    BY DEF IInv, FieldsFollow
<1>2. \A v \in {kDoubleMin, kDoubleMax} \cup Seen(window) : v \in Int
  <2>1. window \in Seq(Values)
      BY DEF IInv, TypeOK
  <2>2. Seen(window) \subseteq Values
      BY <2>1 DEF Seen
  <2> QED BY <2>2, ValuesFact, ValueAssumption
<1>3. min_ = Lowest(window)
  <2>1. ASSUME NEW m, IsLowest(m, window) PROVE m = min_
    <3>1. min_ \in Int /\ m \in Int
        BY <1>1, <1>2, <2>1 DEF Agreed, IsLowest
    <3>2. m <= min_ /\ min_ <= m
        BY <1>1, <2>1 DEF Agreed, IsLowest
    <3> QED BY <3>1, <3>2
  <2>2. IsLowest(min_, window)
      BY <1>1 DEF Agreed
  <2>3. Lowest(window) = CHOOSE m : IsLowest(m, window)
      BY DEF Lowest, Min, IsLowest, Seen
  <2> QED BY <2>1, <2>2, <2>3
<1>4. max_ = Highest(window)
  <2>1. ASSUME NEW m, IsHighest(m, window) PROVE m = max_
    <3>1. max_ \in Int /\ m \in Int
        BY <1>1, <1>2, <2>1 DEF Agreed, IsHighest
    <3>2. m >= max_ /\ max_ >= m
        BY <1>1, <2>1 DEF Agreed, IsHighest
    <3> QED BY <3>1, <3>2
  <2>2. IsHighest(max_, window)
      BY <1>1 DEF Agreed
  <2>3. Highest(window) = CHOOSE m : IsHighest(m, window)
      BY DEF Highest, Max, IsHighest, Seen
  <2> QED BY <2>1, <2>2, <2>3
<1> QED BY <1>1, <1>3, <1>4 DEF Current, Summary, Agreed

\* Whenever the lock is free, the fields are what Log makes of the values since
\* they were last cleared, one after another (LogAggregate.cpp:12-33).
THEOREM FieldsAlwaysAgree == Spec => []FieldsAgree
<1>1. IInv => FieldsAgree
  <2>1. SUFFICES ASSUME IInv, ~mutex_ PROVE Current = Summary(window)
      BY DEF FieldsAgree
  <2>2. \A t \in Threads : ~Comparing(t)
      BY <2>1 DEF IInv, OneInSection, InSection, Comparing, Logging
  <2> QED BY <2>1, <2>2, AgreedSummary
<1> QED BY <1>1, AlwaysIInv, PTL

\* What is cleared is what the report before it says: no event slips in between
\* Serialize and Clear (LogAggregate.cpp:20-25).
THEOREM NothingEverClearedUnreported == Spec => NothingClearedUnreported
<1>1. IInv /\ [Next]_vars => [window' = <<>> /\ window # <<>> => report = Summary(window)]_vars
  <2>1. SUFFICES ASSUME IInv, Next, window' = <<>>, window # <<>>
                 PROVE  report = Summary(window)
      BY DEF vars
  <2>2. PICK t \in Threads : Clear(t)
    <3>1. \A t \in Threads : Count(t) => window' # <<>>
      <4>1. window \in Seq(Values)
          BY <2>1 DEF IInv, TypeOK
      <4>2. \A t \in Threads : Count(t) => value[t] \in Values
          BY <2>1 DEF Count, Logging, IInv, Arguments
      <4>3. \A v \in Values : Len(Append(window, v)) = Len(window) + 1 /\ Len(window) \in Nat
          BY <4>1
      <4>4. \A v \in Values : Append(window, v) # <<>>
        <5>1. Len(<<>>) = 0
            OBVIOUS
        <5> QED BY <4>3, <5>1
      <4> QED BY <4>2, <4>4 DEF Count
    <3> QED BY <2>1, <3>1 DEF Next, CallLog, CallGather, Lock, Inside, Sum, Minimum, Maximum,
                              Serialize, Return
  <2>3. pc[t] = "clear" /\ report = Current
      BY <2>1, <2>2 DEF Clear, IInv, Reported
  <2>4. InSection(t) /\ ~Comparing(t)
      BY <2>3 DEF InSection, Gathering, Comparing
  <2>5. \A u \in Threads : ~Comparing(u)
      BY <2>1, <2>4, OnlyOne
  <2> QED BY <2>1, <2>3, <2>5, AgreedSummary
<1> QED BY <1>1, AlwaysIInv, PTL DEF Spec, NothingClearedUnreported

=============================================================================
