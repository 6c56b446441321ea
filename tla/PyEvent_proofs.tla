---------------------------- MODULE PyEvent_proofs ----------------------------
(***************************************************************************)
(* What TLAPS proves of PyEvent, for all sets of waiters and setters, all  *)
(* timeouts and every mode (signals that raise, a sync_fn() that raises,   *)
(* threads that call clear()).                                             *)
(*                                                                         *)
(* Two inductive invariants.  Attended is AwareUndisturbed without its     *)
(* premise that somebody waits: a waiter that arrives when the flag is     *)
(* already down and nobody is on the way would break it, so nobody may be  *)
(* missing even while no one waits.  NoOnlyWhenOver says what a call knows *)
(* when it is about to answer: a result that is not yes, an unwritten one  *)
(* included, is there only because the time is over.                       *)
(***************************************************************************)
EXTENDS PyEvent, TLAPS

\* While what is waited for is there and the flag is down, somebody sets the
\* event or asks again.
Busy == \E p \in Procs : pc[p] \in {"set", "sync", "setBack"}
Attended == disturbed \/ (ready /\ ~flag => Busy)

\* Event::wait() has answered when the signals are let in, and the loop ends
\* with yes or with its time over.
NoOnlyWhenOver ==
  \A w \in Waiters : /\ pc[w] = "signals" => waitResult[w] # "unset"
                     /\ pc[w] = "done" /\ waitResult[w] # "true" => Over(w)

IInv == TypeOK /\ Attended /\ NoOnlyWhenOver

USE ProcsAssumption, TimeoutsAssumption, ModeAssumption

-----------------------------------------------------------------------------
(* Types.                                                                  *)

\* The event does not change the types of its own variables; whoever blocks
\* or leaves is a waiter.
LEMMA TypeStep == TypeOK /\ [Next]_vars => TypeOK'
  <1> SUFFICES ASSUME TypeOK, [Next]_vars PROVE TypeOK'
    OBVIOUS
  <1> USE DEF TypeOK, Goto, Return, Procs, Inside, event
  <1>1. ASSUME NEW w \in Waiters, Aware(w) PROVE TypeOK'
    <2>1. /\ pc' = [pc EXCEPT ![w] = "sync"] /\ pc[w] = "idle"
          /\ waiting' = waiting /\ answer' = answer
          /\ {flag', ready'} \subseteq BOOLEAN
      BY <1>1 DEF Aware, Enter, Trigger!Clear
    <2>2. waiting' = {v \in Waiters : pc'[v] = "blocked"}
      BY <2>1
    <2>3. /\ timeout' \in [Waiters -> Timeouts \union {NoTimeout}]
          /\ elapsed' \in [Waiters -> 0 .. MaxClock]
          /\ waitResult' \in [Waiters -> {"unset", "true", "false"}]
          /\ returned' \in [Waiters -> {"none", "true", "false", "error"}]
          /\ disturbed' \in BOOLEAN
      BY <1>1 DEF Aware, Enter
    <2> QED
      BY <2>1, <2>2, <2>3
  <1>2. ASSUME NEW w \in Waiters, Wait(w) PROVE TypeOK'
    BY <1>2 DEF Wait, Enter
  <1>3. ASSUME NEW w \in Waiters, Sync(w) PROVE TypeOK'
    <2>1. /\ UNCHANGED <<event, ready, timeout, waitResult>>
          /\ elapsed' = [elapsed EXCEPT ![w] = 0]
      BY <1>3 DEF Sync
    <2>5. elapsed' \in [Waiters -> 0 .. MaxClock]
      BY <2>1
    <2>6. returned' \in [Waiters -> {"none", "true", "false", "error"}]
      BY <1>3 DEF Sync
    <2>7. disturbed' \in BOOLEAN
      BY <1>3 DEF Sync
    <2>2. PICK place \in {"setBack", "loop", "idle"} : pc' = [pc EXCEPT ![w] = place]
      BY <1>3 DEF Sync
    <2>3. pc[w] = "sync"
      BY <1>3 DEF Sync
    <2>4. waiting' = {v \in Waiters : pc'[v] = "blocked"}
      BY <2>1, <2>2, <2>3
    <2> QED
      BY <2>1, <2>2, <2>4, <2>5, <2>6, <2>7
  <1>4. ASSUME NEW w \in Waiters, SetBack(w) PROVE TypeOK'
    BY <1>4 DEF SetBack, SetAgain, Trigger!Set
  <1>5. ASSUME NEW w \in Waiters, Loop(w) PROVE TypeOK'
    BY <1>5 DEF Loop
  <1>6. ASSUME NEW w \in Waiters, EnterEvent(w) PROVE TypeOK'
    BY <1>6 DEF EnterEvent, Trigger!Enter
  <1>7. ASSUME NEW w \in Waiters, LeaveEvent(w) PROVE TypeOK'
    BY <1>7 DEF LeaveEvent, Trigger!Leave
  <1>8. ASSUME NEW w \in Waiters, Signals(w) PROVE TypeOK'
    BY <1>8 DEF Signals
  <1>9. ASSUME NEW w \in Waiters, Done(w) PROVE TypeOK'
    BY <1>9 DEF Done
  <1>10. ASSUME NEW w \in Waiters, Tick(w) PROVE TypeOK'
    BY <1>10 DEF Tick
  <1>11. ASSUME NEW s \in Setters, Come(s) PROVE TypeOK'
    BY <1>11 DEF Come
  <1>12. ASSUME NEW s \in Setters, Set(s) PROVE TypeOK'
    BY <1>12 DEF Set, Trigger!Set
  <1>13. ASSUME NEW s \in Setters, GoAway(s) PROVE TypeOK'
    BY <1>13 DEF GoAway
  <1>14. ASSUME NEW s \in Setters, Clear(s) PROVE TypeOK'
    BY <1>14 DEF Clear, Trigger!Clear
  <1>15. CASE UNCHANGED vars
    BY <1>15 DEF vars
  <1> QED
    BY <1>1, <1>2, <1>3, <1>4, <1>5, <1>6, <1>7, <1>8, <1>9, <1>10, <1>11, <1>12,
       <1>13, <1>14, <1>15 DEF Next, CallStep

-----------------------------------------------------------------------------
(* awareness_wait() and what it waits for.                                 *)

\* A step of p that p was not needed for, and that leaves the flag and what
\* is waited for, keeps everybody else on the way.
LEMMA OthersStayBusy ==
  ASSUME TypeOK, Attended, UNCHANGED <<flag, ready, disturbed>>,
         NEW p \in Procs, pc[p] \notin {"set", "sync", "setBack"},
         NEW place, pc' = [pc EXCEPT ![p] = place]
  PROVE  Attended'
  BY DEF Attended, Busy, TypeOK

LEMMA AttendedStep == TypeOK /\ Attended /\ [Next]_vars => Attended'
  <1> SUFFICES ASSUME TypeOK, Attended, [Next]_vars PROVE Attended'
    OBVIOUS
  <1> USE DEF Goto, Procs, event
  <1>1. ASSUME NEW w \in Waiters, Aware(w) PROVE Attended'
    BY <1>1 DEF Aware, Enter, Attended, Busy, TypeOK
  <1>2. ASSUME NEW w \in Waiters, Wait(w) PROVE Attended'
    BY <1>2, OthersStayBusy DEF Wait, Enter
  <1>3. ASSUME NEW w \in Waiters, Sync(w) PROVE Attended'
    BY <1>3 DEF Sync, Sync_fn, Attended, Busy, TypeOK
  <1>4. ASSUME NEW w \in Waiters, SetBack(w) PROVE Attended'
    BY <1>4 DEF SetBack, SetAgain, Trigger!Set, Attended
  <1>5. ASSUME NEW w \in Waiters, Loop(w) PROVE Attended'
    BY <1>5, OthersStayBusy DEF Loop
  <1>6. ASSUME NEW w \in Waiters, EnterEvent(w) PROVE Attended'
    BY <1>6, OthersStayBusy DEF EnterEvent, Trigger!Enter
  <1>7. ASSUME NEW w \in Waiters, LeaveEvent(w) PROVE Attended'
    BY <1>7, OthersStayBusy DEF LeaveEvent, Trigger!Leave
  <1>8. ASSUME NEW w \in Waiters, Signals(w) PROVE Attended'
    BY <1>8, OthersStayBusy DEF Signals, Return
  <1>9. ASSUME NEW w \in Waiters, Done(w) PROVE Attended'
    BY <1>9, OthersStayBusy DEF Done, Return
  <1>10. ASSUME NEW w \in Waiters, Tick(w) PROVE Attended'
    BY <1>10 DEF Tick, Attended, Busy
  <1>11. ASSUME NEW s \in Setters, Come(s) PROVE Attended'
    BY <1>11 DEF Come, Attended, Busy, TypeOK
  <1>12. ASSUME NEW s \in Setters, Set(s) PROVE Attended'
    BY <1>12 DEF Set, Trigger!Set, Attended
  <1>13. ASSUME NEW s \in Setters, GoAway(s) PROVE Attended'
    BY <1>13 DEF GoAway, Attended
  <1>14. ASSUME NEW s \in Setters, Clear(s) PROVE Attended'
    BY <1>14 DEF Clear, Attended
  <1>15. CASE UNCHANGED vars
    BY <1>15 DEF vars, Attended, Busy
  <1> QED
    BY <1>1, <1>2, <1>3, <1>4, <1>5, <1>6, <1>7, <1>8, <1>9, <1>10, <1>11, <1>12,
       <1>13, <1>14, <1>15 DEF Next, CallStep

-----------------------------------------------------------------------------
(* wait() and its timeout.                                                 *)

LEMMA OverStep == TypeOK /\ NoOnlyWhenOver /\ [Next]_vars => NoOnlyWhenOver'
  <1> SUFFICES ASSUME TypeOK, NoOnlyWhenOver, [Next]_vars PROVE NoOnlyWhenOver'
    OBVIOUS
  <1> USE DEF TypeOK, NoOnlyWhenOver, Over, Goto, Return, Procs
  <1>1. ASSUME NEW w \in Waiters, Aware(w) PROVE NoOnlyWhenOver'
    BY <1>1 DEF Aware, Enter
  <1>2. ASSUME NEW w \in Waiters, Wait(w) PROVE NoOnlyWhenOver'
    BY <1>2 DEF Wait, Enter
  <1>3. ASSUME NEW w \in Waiters, Sync(w) PROVE NoOnlyWhenOver'
    BY <1>3 DEF Sync, Sync_fn
  <1>4. ASSUME NEW w \in Waiters, SetBack(w) PROVE NoOnlyWhenOver'
    BY <1>4 DEF SetBack
  <1>5. ASSUME NEW w \in Waiters, Loop(w) PROVE NoOnlyWhenOver'
    BY <1>5 DEF Loop
  <1>6. ASSUME NEW w \in Waiters, EnterEvent(w) PROVE NoOnlyWhenOver'
    BY <1>6 DEF EnterEvent
  <1>7. ASSUME NEW w \in Waiters, LeaveEvent(w) PROVE NoOnlyWhenOver'
    BY <1>7 DEF LeaveEvent
  <1>8. ASSUME NEW w \in Waiters, Signals(w) PROVE NoOnlyWhenOver'
    BY <1>8 DEF Signals, Again
  <1>9. ASSUME NEW w \in Waiters, Done(w) PROVE NoOnlyWhenOver'
    BY <1>9 DEF Done
  <1>10. ASSUME NEW w \in Waiters, Tick(w) PROVE NoOnlyWhenOver'
    <2>1. /\ UNCHANGED <<pc, waitResult, timeout>>
          /\ elapsed' = [elapsed EXCEPT ![w] = @ + 1]
      BY <1>10 DEF Tick
    <2>2. ASSUME NEW v \in Waiters, Over(v) PROVE Over(v)'
      <3>1. timeout[v] \in Int
        <4>1. NoTimeout \in Int
          BY DEF NoTimeout
        <4>2. timeout[v] \in 0 .. MaxClock \union {NoTimeout}
          OBVIOUS
        <4> QED
          BY <4>1, <4>2
      <3>2. elapsed[v] \in Int
        OBVIOUS
      <3>3. elapsed'[v] >= elapsed[v]
        BY <2>1, <3>2
      <3>4. elapsed'[v] \in Int
        BY <2>1, <3>2
      <3> QED
        BY <2>1, <2>2, <3>1, <3>2, <3>3, <3>4
    <2> QED
      BY <2>1, <2>2
  <1>11. ASSUME NEW s \in Setters, Come(s) \/ Set(s) \/ GoAway(s) \/ Clear(s)
         PROVE  NoOnlyWhenOver'
    BY <1>11 DEF Come, Set, GoAway, Clear
  <1>12. CASE UNCHANGED vars
    BY <1>12 DEF vars
  <1> QED
    BY <1>1, <1>2, <1>3, <1>4, <1>5, <1>6, <1>7, <1>8, <1>9, <1>10, <1>11, <1>12
       DEF Next, CallStep

-----------------------------------------------------------------------------
(* The theorems.                                                           *)

LEMMA InitHolds == Init => IInv
  <1> SUFFICES ASSUME Init PROVE IInv
    OBVIOUS
  <1>1. TypeOK
    <2>1. /\ {flag, ready} \subseteq BOOLEAN
          /\ waiting = {w \in Waiters : pc[w] = "blocked"}
          /\ answer \in [Procs -> BOOLEAN]
      BY DEF Init, Trigger!Init, Procs
    <2>2. /\ pc \in [Procs -> Inside \union {"idle", "sync", "setBack", "set"}]
          /\ timeout \in [Waiters -> Timeouts \union {NoTimeout}]
          /\ elapsed \in [Waiters -> 0 .. MaxClock]
      BY DEF Init
    <2>3. /\ waitResult \in [Waiters -> {"unset", "true", "false"}]
          /\ returned \in [Waiters -> {"none", "true", "false", "error"}]
          /\ disturbed \in BOOLEAN
      BY DEF Init
    <2> QED
      BY <2>1, <2>2, <2>3 DEF TypeOK
  <1>2. Attended /\ NoOnlyWhenOver
    BY DEF Init, Attended, NoOnlyWhenOver, Procs
  <1> QED
    BY <1>1, <1>2 DEF IInv

(* IInv is inductive.                                                      *)
THEOREM Invariance == Spec => []IInv
  <1>1. IInv /\ [Next]_vars => IInv'
    BY TypeStep, AttendedStep, OverStep DEF IInv
  <1> QED
    BY InitHolds, <1>1, PTL DEF Spec

(* The variables keep their types, and the event's waiters are the calls   *)
(* that are inside Event::wait().                                          *)
THEOREM TypeCorrect == Spec => []TypeOK
  BY Invariance, PTL DEF IInv

(* Nobody sleeps over what has come: while it is there and the flag is     *)
(* down, a thread that sets the event or asks sync_fn() again is on its    *)
(* way, until a sync_fn() raises or somebody calls clear().                *)
THEOREM Awareness == Spec => []AwareUndisturbed
  <1>1. IInv => AwareUndisturbed
    BY DEF IInv, Attended, Busy, AwareUndisturbed, AwareOfReady
  <1> QED
    BY <1>1, Invariance, PTL

(* wait() answers no only when its timeout is over.                        *)
THEOREM Punctual == Spec => NeverEarly
  <1> DEFINE InTime == \A w \in Waiters : Done(w) /\ returned'[w] = "false"
                         => timeout[w] > 0 /\ elapsed[w] >= timeout[w]
  <1>1. IInv => InTime
    BY DEF IInv, NoOnlyWhenOver, TypeOK, Over, Done, Return
  <1>2. IInv /\ [Next]_vars => [InTime]_vars
    BY <1>1
  <1> HIDE DEF InTime
  <1>3. [][Next]_vars /\ []IInv => [][InTime]_vars
    BY <1>2, PTL
  <1> QED
    BY <1>3, Invariance, PTL DEF Spec, NeverEarly, InTime

=============================================================================
