-------------------------- MODULE AdaptiveSpinLock --------------------------
(***************************************************************************)
(* The lock under every critical section of the library.  lock() tries     *)
(* test_and_set until it succeeds and yields after spins_before_yield_     *)
(* failures; nothing queues the threads that wait.                         *)
(***************************************************************************)
EXTENDS Naturals

CONSTANTS Threads,
          spins_before_yield  \* argument of the constructor, 256 by default

ASSUME SpinAssumption == spins_before_yield \in Nat \ {0}

VARIABLES mutex_,     \* the atomic flag
          holder,     \* which thread set it, if any: the code does not know
          countdown   \* per thread: the local of lock(), 0 outside of it

lockVars == <<mutex_, holder, countdown>>

LockTypeOK == /\ mutex_ \in BOOLEAN
              /\ holder \in SUBSET Threads
              /\ countdown \in [Threads -> 0 .. spins_before_yield]

LockInit == /\ mutex_ = FALSE
            /\ holder = {}
            /\ countdown = [t \in Threads |-> 0]

CallLock(t) == /\ countdown[t] = 0
               /\ countdown' = [countdown EXCEPT ![t] = spins_before_yield]
               /\ UNCHANGED <<mutex_, holder>>

\* Mutant of Granted: the flag is set without a test.
Granted_Untested(t) == /\ countdown[t] > 0
                       /\ mutex_' = TRUE
                       /\ holder' = holder \cup {t}
                       /\ countdown' = [countdown EXCEPT ![t] = 0]

\* test_and_set finds the flag clear: lock() returns.
Granted(t) == /\ countdown[t] > 0
              /\ ~mutex_
              /\ mutex_' = TRUE
              /\ holder' = holder \cup {t}
              /\ countdown' = [countdown EXCEPT ![t] = 0]

\* Mutant of Refused: no new spins after the last.
Refused_GivesUp(t) == /\ countdown[t] > 0
                      /\ mutex_
                      /\ countdown' = [countdown EXCEPT ![t] = @ - 1]
                      /\ UNCHANGED <<mutex_, holder>>

\* It finds the flag set: one spin less, or a yield and all of them again.
Refused(t) == /\ countdown[t] > 0
              /\ mutex_
              /\ countdown' = [countdown EXCEPT
                                   ![t] = IF @ = 1 THEN spins_before_yield ELSE @ - 1]
              /\ UNCHANGED <<mutex_, holder>>

\* Mutant of Unlock: the flag stays set.
Unlock_StaysSet(t) == /\ holder' = holder \ {t}
                      /\ UNCHANGED <<mutex_, countdown>>

Unlock(t) == /\ mutex_' = FALSE
             /\ holder' = holder \ {t}
             /\ UNCHANGED countdown
=============================================================================
