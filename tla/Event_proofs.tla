----------------------------- MODULE Event_proofs -----------------------------
(***************************************************************************)
(* What TLAPS proves of Event, for every set of threads, every max_timeout *)
(* and every set of timeouts.  The inductive invariant is                  *)
(*     IInv == TypeOK /\ MutexInv /\ NoLostWakeup:                         *)
(* a thread that has decided to sleep still owns the mutex, so a setter    *)
(* that already owns the mutex cannot be the one whose notification it     *)
(* relies on; NoLostWakeup alone does not survive SetNotify.               *)
(***************************************************************************)
EXTENDS Event, TLAPS

IInv == TypeOK /\ MutexInv /\ NoLostWakeup

(* Every step keeps the types.                                             *)
LEMMA TypeStep == TypeOK /\ [Next]_vars => TypeOK'
<1> SUFFICES ASSUME TypeOK, [Next]_vars PROVE TypeOK'
  OBVIOUS
<1> USE TimeoutAssumption DEF TypeOK, Places, Setting, Waiting
<1>1. ASSUME NEW t \in Threads, Clear(t) PROVE TypeOK'
  BY <1>1 DEF Clear
<1>2. ASSUME NEW t \in Threads, SetExchange(t) PROVE TypeOK'
  BY <1>2 DEF SetExchange, Goto
<1>3. ASSUME NEW t \in Threads, SetLock(t) PROVE TypeOK'
  BY <1>3 DEF SetLock, Lock, Free, Goto
<1>4. ASSUME NEW t \in Threads, SetNotify(t) PROVE TypeOK'
  BY <1>4 DEF SetNotify
<1>5. ASSUME NEW t \in Threads, WaitCall(t) PROVE TypeOK'
  BY <1>5 DEF WaitCall, Goto
<1>6. ASSUME NEW t \in Threads, WaitLock(t) PROVE TypeOK'
  BY <1>6 DEF WaitLock, Lock, Free, Goto
<1>7. ASSUME NEW t \in Threads, WaitCheck(t) PROVE TypeOK'
  BY <1>7 DEF WaitCheck, Is_set, Return, Goto
<1>8. ASSUME NEW t \in Threads, Park(t) PROVE TypeOK'
  BY <1>8 DEF Park, Goto
<1>9. ASSUME NEW t \in Threads, TimedOut(t) PROVE TypeOK'
  BY <1>9 DEF TimedOut, Goto
<1>10. ASSUME NEW t \in Threads, SpuriousWakeup(t) PROVE TypeOK'
  BY <1>10 DEF SpuriousWakeup, Goto
<1>11. ASSUME NEW t \in Threads, Relock(t) PROVE TypeOK'
  BY <1>11 DEF Relock, Lock, Free, Goto
<1>12. ASSUME NEW t \in Threads, WaitReturn(t) PROVE TypeOK'
  BY <1>12 DEF WaitReturn, Return, Is_set, Goto
<1>13. CASE UNCHANGED vars
  BY <1>13 DEF vars
<1> QED
  BY <1>1, <1>2, <1>3, <1>4, <1>5, <1>6, <1>7, <1>8, <1>9, <1>10, <1>11, <1>12, <1>13 DEF Next

(* Every step keeps the mutual exclusion.                                  *)
LEMMA MutexStep == IInv /\ [Next]_vars => MutexInv'
<1> SUFFICES ASSUME IInv, [Next]_vars PROVE MutexInv'
  OBVIOUS
<1> USE NoThreadAssumption DEF IInv, TypeOK, MutexInv, Owning, Places, Setting, Waiting
<1>1. ASSUME NEW t \in Threads, Clear(t) PROVE MutexInv'
  BY <1>1 DEF Clear
<1>2. ASSUME NEW t \in Threads, SetExchange(t) PROVE MutexInv'
  BY <1>2 DEF SetExchange, Goto
<1>3. ASSUME NEW t \in Threads, SetLock(t) PROVE MutexInv'
  BY <1>3 DEF SetLock, Lock, Free, Goto
<1>4. ASSUME NEW t \in Threads, SetNotify(t) PROVE MutexInv'
  BY <1>4 DEF SetNotify
<1>5. ASSUME NEW t \in Threads, WaitCall(t) PROVE MutexInv'
  BY <1>5 DEF WaitCall, Goto
<1>6. ASSUME NEW t \in Threads, WaitLock(t) PROVE MutexInv'
  BY <1>6 DEF WaitLock, Lock, Free, Goto
<1>7. ASSUME NEW t \in Threads, WaitCheck(t) PROVE MutexInv'
  BY <1>7 DEF WaitCheck, Is_set, Return, Goto
<1>8. ASSUME NEW t \in Threads, Park(t) PROVE MutexInv'
  BY <1>8 DEF Park, Goto
<1>9. ASSUME NEW t \in Threads, TimedOut(t) PROVE MutexInv'
  BY <1>9 DEF TimedOut, Goto
<1>10. ASSUME NEW t \in Threads, SpuriousWakeup(t) PROVE MutexInv'
  BY <1>10 DEF SpuriousWakeup, Goto
<1>11. ASSUME NEW t \in Threads, Relock(t) PROVE MutexInv'
  BY <1>11 DEF Relock, Lock, Free, Goto
<1>12. ASSUME NEW t \in Threads, WaitReturn(t) PROVE MutexInv'
  BY <1>12 DEF WaitReturn, Return, Is_set, Goto
<1>13. CASE UNCHANGED vars
  BY <1>13 DEF vars
<1> QED
  BY <1>1, <1>2, <1>3, <1>4, <1>5, <1>6, <1>7, <1>8, <1>9, <1>10, <1>11, <1>12, <1>13 DEF Next

(* Every step keeps a setter on its way to every thread that sleeps while  *)
(* the flag is up.                                                         *)
LEMMA WakeupStep == IInv /\ [Next]_vars => NoLostWakeup'
<1> SUFFICES ASSUME IInv, [Next]_vars PROVE NoLostWakeup'
  OBVIOUS
<1> USE DEF IInv, TypeOK, MutexInv, NoLostWakeup, Owning, Places, Setting, Waiting
<1>1. ASSUME NEW t \in Threads, Clear(t) PROVE NoLostWakeup'
  BY <1>1 DEF Clear
<1>2. ASSUME NEW t \in Threads, SetExchange(t) PROVE NoLostWakeup'
  BY <1>2 DEF SetExchange, Goto
<1>3. ASSUME NEW t \in Threads, SetLock(t) PROVE NoLostWakeup'
  BY <1>3 DEF SetLock, Lock, Free, Goto
<1>4. ASSUME NEW t \in Threads, SetNotify(t) PROVE NoLostWakeup'
  BY <1>4 DEF SetNotify
<1>5. ASSUME NEW t \in Threads, WaitCall(t) PROVE NoLostWakeup'
  BY <1>5 DEF WaitCall, Goto
<1>6. ASSUME NEW t \in Threads, WaitLock(t) PROVE NoLostWakeup'
  BY <1>6 DEF WaitLock, Lock, Free, Goto
<1>7. ASSUME NEW t \in Threads, WaitCheck(t) PROVE NoLostWakeup'
  BY <1>7 DEF WaitCheck, Is_set, Return, Goto
<1>8. ASSUME NEW t \in Threads, Park(t) PROVE NoLostWakeup'
  BY <1>8 DEF Park, Goto
<1>9. ASSUME NEW t \in Threads, TimedOut(t) PROVE NoLostWakeup'
  BY <1>9 DEF TimedOut, Goto
<1>10. ASSUME NEW t \in Threads, SpuriousWakeup(t) PROVE NoLostWakeup'
  BY <1>10 DEF SpuriousWakeup, Goto
<1>11. ASSUME NEW t \in Threads, Relock(t) PROVE NoLostWakeup'
  BY <1>11 DEF Relock, Lock, Free, Goto
<1>12. ASSUME NEW t \in Threads, WaitReturn(t) PROVE NoLostWakeup'
  BY <1>12 DEF WaitReturn, Return, Is_set, Goto
<1>13. CASE UNCHANGED vars
  BY <1>13 DEF vars
<1> QED
  BY <1>1, <1>2, <1>3, <1>4, <1>5, <1>6, <1>7, <1>8, <1>9, <1>10, <1>11, <1>12, <1>13 DEF Next

(* The initial state satisfies the invariant: nobody is in a call.         *)
LEMMA InitIInv == Init => IInv
<1> SUFFICES ASSUME Init PROVE IInv
  OBVIOUS
<1>1. TypeOK
  <2>1. isSet \in BOOLEAN /\ mutex \in Threads \union {NoThread}
    BY DEF Init
  <2>2. pc \in [Threads -> Places]
    BY DEF Init, Places
  <2>3. asked \in [Threads -> Int]
    BY DEF Init
  <2>4. result \in [Threads -> BOOLEAN]
    BY Zenon DEF Init
  <2>5. \A t \in Threads : pc[t] \notin Waiting => asked[t] = 0
    BY DEF Init
  <2>6. max_timeout \in MaxTimeouts
    BY DEF Init
  <2> QED
    BY <2>1, <2>2, <2>3, <2>4, <2>5, <2>6 DEF TypeOK
<1>2. MutexInv
  BY NoThreadAssumption DEF Init, MutexInv, Owning
<1>3. NoLostWakeup
  BY DEF Init, NoLostWakeup
<1> QED
  BY <1>1, <1>2, <1>3 DEF IInv

(* The invariant is inductive.                                             *)
LEMMA StepIInv == IInv /\ [Next]_vars => IInv'
BY TypeStep, MutexStep, WakeupStep DEF IInv

THEOREM Invariance == Spec => []IInv
BY InitIInv, StepIInv, PTL DEF Spec

(* set(), clear() and wait() keep the event well typed (event.cpp:33-79).  *)
THEOREM TypeCorrect == Spec => []TypeOK
<1>1. IInv => TypeOK
  BY DEF IInv
<1> QED
  BY <1>1, Invariance, PTL

(* The critical sections of set() and wait() exclude each other            *)
(* (event.cpp:41, 58), for any number of threads.                          *)
THEOREM MutualExclusion == Spec => []MutexInv
<1>1. IInv => MutexInv
  BY DEF IInv
<1> QED
  BY <1>1, Invariance, PTL

(* For any number of threads, timeouts and clear()s, a thread that sleeps  *)
(* while the flag is up has a notification on its way (event.cpp:37-44,    *)
(* 67-74).                                                                 *)
THEOREM WakeupSafety == Spec => []NoLostWakeup
<1>1. IInv => NoLostWakeup
  BY DEF IInv
<1> QED
  BY <1>1, Invariance, PTL

-----------------------------------------------------------------------------
Inside == {t \in Threads : pc[t] \in Waiting}

(* A step that leaves the flag, the answers and the set of waiters alone   *)
(* is a stutter of the promise.                                            *)
LEMMA Stutter ==
  ASSUME UNCHANGED <<isSet, result>>, Inside' = Inside
  PROVE  UNCHANGED Promise!vars
BY DEF Promise!vars, Inside

(* Every step of Event is a step of its promise or a stutter.              *)
LEMMA PromiseStep == TypeOK /\ [Next]_vars => [Promise!Next]_(Promise!vars)
<1> SUFFICES ASSUME TypeOK, [Next]_vars PROVE Promise!Next \/ UNCHANGED Promise!vars
  OBVIOUS
<1> USE DEF TypeOK, Goto, Inside, Waiting
<1>1. ASSUME NEW t \in Threads, Clear(t) PROVE Promise!Clear(t)
  BY <1>1 DEF Clear, Promise!Clear
<1>2. ASSUME NEW t \in Threads, SetExchange(t) PROVE Promise!Set(t)
  BY <1>2 DEF SetExchange, Promise!Set
<1>3. ASSUME NEW t \in Threads, SetLock(t) PROVE UNCHANGED Promise!vars
  <2>1. UNCHANGED <<isSet, result>> /\ Inside' = Inside
    BY <1>3 DEF SetLock, Lock, Free
  <2> QED
    BY <2>1, Stutter
<1>4. ASSUME NEW t \in Threads, SetNotify(t) PROVE UNCHANGED Promise!vars
  <2>1. UNCHANGED <<isSet, result>> /\ Inside' = Inside
    BY <1>4 DEF SetNotify
  <2> QED
    BY <2>1, Stutter
<1>5. ASSUME NEW t \in Threads, WaitCall(t) PROVE Promise!Enter(t)
  BY <1>5 DEF WaitCall, Promise!Enter
<1>6. ASSUME NEW t \in Threads, WaitLock(t) PROVE UNCHANGED Promise!vars
  <2>1. UNCHANGED <<isSet, result>> /\ Inside' = Inside
    BY <1>6 DEF WaitLock, Lock, Free
  <2> QED
    BY <2>1, Stutter
<1>7. ASSUME NEW t \in Threads, WaitCheck(t)
      PROVE Promise!Leave(t) \/ UNCHANGED Promise!vars
  <2>1. CASE isSet
    BY <1>7, <2>1 DEF WaitCheck, Return, Is_set, Promise!Leave
  <2>2. CASE ~isSet
    <3>1. UNCHANGED <<isSet, result>> /\ Inside' = Inside
      BY <1>7, <2>2 DEF WaitCheck, Is_set
    <3> QED
      BY <3>1, Stutter
  <2> QED
    BY <2>1, <2>2
<1>8. ASSUME NEW t \in Threads, Park(t) PROVE UNCHANGED Promise!vars
  <2>1. UNCHANGED <<isSet, result>> /\ Inside' = Inside
    BY <1>8 DEF Park
  <2> QED
    BY <2>1, Stutter
<1>9. ASSUME NEW t \in Threads, TimedOut(t) PROVE UNCHANGED Promise!vars
  <2>1. UNCHANGED <<isSet, result>> /\ Inside' = Inside
    BY <1>9 DEF TimedOut
  <2> QED
    BY <2>1, Stutter
<1>10. ASSUME NEW t \in Threads, SpuriousWakeup(t) PROVE UNCHANGED Promise!vars
  <2>1. UNCHANGED <<isSet, result>> /\ Inside' = Inside
    BY <1>10 DEF SpuriousWakeup
  <2> QED
    BY <2>1, Stutter
<1>11. ASSUME NEW t \in Threads, Relock(t) PROVE UNCHANGED Promise!vars
  <2>1. UNCHANGED <<isSet, result>> /\ Inside' = Inside
    BY <1>11 DEF Relock, Lock, Free
  <2> QED
    BY <2>1, Stutter
<1>12. ASSUME NEW t \in Threads, WaitReturn(t) PROVE Promise!Leave(t)
  BY <1>12 DEF WaitReturn, Return, Is_set, Promise!Leave
<1>13. CASE UNCHANGED vars
  <2>1. UNCHANGED <<isSet, result>> /\ Inside' = Inside
    BY <1>13 DEF vars
  <2> QED
    BY <2>1, Stutter
<1> QED
  BY <1>1, <1>2, <1>3, <1>4, <1>5, <1>6, <1>7, <1>8, <1>9, <1>10, <1>11, <1>12, <1>13 DEF Next, Promise!Next

(* The initial state of Event is the initial state of its promise.         *)
LEMMA PromiseInit == Init => Promise!Init
BY DEF Init, Promise!Init, Waiting

(* Event implements the atomic flag-and-wait of EventSpec: every call      *)
(* takes effect in one step (safety part; who leaves when is checked by    *)
(* TLC).                                                                   *)
THEOREM Implementation == Spec => CallsAreAtomic
<1>1. TypeOK /\ [Next]_vars => [Promise!Next]_(Promise!vars)
  BY PromiseStep
<1> QED
  BY <1>1, PromiseInit, TypeCorrect, PTL DEF Spec, CallsAreAtomic, Promise!SafeSpec
==============================================================================
