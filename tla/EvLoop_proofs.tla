----------------------------- MODULE EvLoop_proofs -----------------------------
(***************************************************************************)
(* What TLAPS proves of EvLoop, for any number of notifiers, stoppers,     *)
(* loop threads, events and stops, from Python and from C++ threads.       *)
(*                                                                         *)
(* Two threads can be inside the loop when one starts it while the other   *)
(* has been told to stop (the run EvLoopTwice); then callbacks are called  *)
(* twice and the trigger is cleared under a sleeper.  So the theorems are  *)
(* about programs that do not do that: either one thread runs the loop, or *)
(* nobody stops it.  Under this hypothesis Alone is an invariant, and the  *)
(* rest follows from who may do what while the loop is where it is.        *)
(***************************************************************************)
EXTENDS EvLoop, FiniteSetTheorems, SequenceTheorems, TLAPS

\* The programs whose loop has one thread at a time.
OneThread(s) == \A l, m \in s.loops : l = m
NeverStops(s) == s.max_stops = 0 /\ ~s.may_raise
Serial == \A s \in Setups : OneThread(s) \/ NeverStops(s)

\* The programs in which no C++ thread calls stop_loop() when the loop has
\* looked for the last time.
StopsOnce(s) == s.max_stops <= 1 /\ ~s.may_raise
Waited == \A s \in Setups : s.under_gil \/ s.immediate_stop \/ StopsOnce(s)

-----------------------------------------------------------------------------
(* The inductive invariant.                                                *)

\* A callback that is about to be called is one.
Types == TypeOK /\ \A l \in Loops : pc[l] = "call" => cur[l] > 0

\* Where a loop in each of its modes can be.
Modes == \A l \in Loops :
  /\ pc[l] \in {"idle", "born", "test", "wait", "sleep", "woken"} => mode[l] = "loop"
  /\ pc[l] = "exit" => mode[l] # "once"

\* Only the program's loop threads run, and a loop that nobody can stop runs.
Threaded == \A l \in Loops : pc[l] # "idle" => l \in setup.loops
RunsOn == /\ \A s \in Stoppers : pc[s] \notin {"stopClear", "stopSet"}
          /\ \A l \in Loops : /\ pc[l] \notin {"raiseClear", "raiseSet", "exit"}
                              /\ mode[l] # "drain" /\ told[l] = "never"
                              /\ InLoop(l) /\ mode[l] = "loop" => running
Unstopped == NeverStops(setup) => RunsOn
Alone == \A l, m \in Loops : InLoop(l) /\ InLoop(m) => l = m

\* last_event is behind the callback that is being called, and at the last
\* one that was called if there is none.
InCall == {"callback", "raiseClear", "raiseSet", "advance"}
Called == /\ \A l \in Loops : pc[l] \in InCall \union {"call"} => cur[l] = lastEvent + 1
          /\ \A l \in Loops : pc[l] \in InCall => Len(executed) = lastEvent + 1
          /\ (\A l \in Loops : pc[l] \notin InCall) => Len(executed) = lastEvent

\* A thread without the interpreter lock is in one of these places.
Unlocked == {"idle", "born", "callback", "sleep", "woken"}
LockHeld == setup.under_gil => \A p \in Procs : pc[p] \notin Unlocked => gil = p

\* An item that is not linked has its notify() at work.
AppendsGoOn == \A k \in 1 .. Len(events) :
                 events[k] = "appended" => \E n \in Notifiers : pc[n] = "link" /\ cur[n] = k

\* A loop that was told to stop does not wait again.
ToldStops ==
  setup.under_gil =>
    \A l \in Loops : told[l] = "inside" /\ mode[l] = "loop" =>
      \/ pc[l] = "exit"
      \/ ~running /\ pc[l] \in InCall \union {"test", "sleep", "woken"}

\* The callbacks that are owed can be reached, and a loop that has drained
\* the queue has called them.
OwedReachable == \A k \in owed : \A j \in 1 .. k : events[j] # "appended"
Drained == ~setup.immediate_stop => \A l \in Loops : pc[l] = "exit" =>
             \A k \in owed : k <= lastEvent

\* In C++ threads, the only stop is over when the loop sees it.
OneStop ==
  StopsOnce(setup) =>
    /\ \A s \in Stoppers : pc[s] = "stopClear" => stops = 1
    /\ \A s, t \in Stoppers : pc[s] = "stopClear" /\ pc[t] = "stopClear" => s = t
    /\ \A l \in Loops : pc[l] \notin {"raiseClear", "raiseSet"}
    /\ \A l \in Loops : InLoop(l) /\ mode[l] # "once" /\ (~running \/ mode[l] = "drain" \/ pc[l] = "exit")
         => stops = 1 /\ \A s \in Stoppers : pc[s] # "stopClear"

IInv == /\ Types /\ Modes /\ Threaded /\ Unstopped /\ Alone
        /\ Called /\ CalledInOrder
        /\ LockHeld /\ AppendsGoOn /\ NoLostEvent
        /\ ToldStops /\ StopForcesWakeup

\* What DrainsWhatIsOwed needs besides.
Owed == OwedReachable /\ Drained /\ OneStop

USE ProcsAssumption, BoundsAssumption, SetupAssumption

-----------------------------------------------------------------------------
(* Types.                                                                  *)

LEMMA ChangedEvent ==
  ASSUME NEW S, NEW s \in Seq(S), NEW i, NEW e \in S
  PROVE  [s EXCEPT ![i] = e] \in Seq(S) /\ Len([s EXCEPT ![i] = e]) = Len(s)
  <1>1. PICK n \in Nat : s \in [1 .. n -> S] /\ Len(s) = n
    OBVIOUS
  <1> DEFINE f == [s EXCEPT ![i] = e]
  <1>2. f \in [1 .. n -> S]
    BY <1>1
  <1> HIDE DEF f
  <1>3. f \in Seq(S) /\ Len(f) = n
    BY <1>2
  <1> QED
    BY <1>1, <1>3 DEF f

LEMMA TypesStep ==
  ASSUME Types, [Next]_vars
  PROVE  Types'
  <1> USE DEF Types, TypeOK, Goto, trigger, counters, history, Procs, Places,
     Acquire, Release
  <1>0. /\ pc \in [Procs -> Places] /\ cur \in [Procs -> 0 .. Len(events)]
        /\ mode \in [Loops -> {"loop", "drain", "once"}]
        /\ told \in [Loops -> {"never", "before", "inside"}]
        /\ running \in BOOLEAN /\ started \in BOOLEAN
        /\ gil \in Procs \union {NoProc} /\ Loops \subseteq Procs
        /\ Len(events) \in Nat /\ lastEvent \in 0 .. Len(events)
    OBVIOUS
  <1>1. ASSUME NEW n \in Notifiers, Notify(n) PROVE Types'
    BY <1>1 DEF Notify
  <1>2. ASSUME NEW n \in Notifiers, NotifyAppend(n) PROVE Types'
    BY <1>2 DEF NotifyAppend, At
  <1>3. ASSUME NEW n \in Notifiers, NotifyLink(n) PROVE Types'
    <2> DEFINE States == {"appended", "linked", "notified"}
    <2>1. events \in Seq(States) /\ events' = [events EXCEPT ![cur[n]] = "linked"]
      BY <1>3 DEF NotifyLink
    <2>2. "linked" \in States
      OBVIOUS
    <2> HIDE DEF States
    <2>3. events' \in Seq(States) /\ Len(events') = Len(events)
      BY ONLY <2>1, <2>2, ChangedEvent
    <2> QED
      BY <1>3, <2>3 DEF NotifyLink, At, States
  <1>4. ASSUME NEW n \in Notifiers, NotifySet(n) PROVE Types'
    <2> DEFINE States == {"appended", "linked", "notified"}
    <2>1. events \in Seq(States) /\ events' = [events EXCEPT ![cur[n]] = "notified"]
      BY <1>4 DEF NotifySet
    <2>2. "notified" \in States
      OBVIOUS
    <2> HIDE DEF States
    <2>3. events' \in Seq(States) /\ Len(events') = Len(events)
      BY ONLY <2>1, <2>2, ChangedEvent
    <2> QED
      BY <1>4, <2>3 DEF NotifySet, At, Raise, Trigger!Set, States
  <1>5. ASSUME NEW s \in Stoppers, Stop(s) PROVE Types'
    BY <1>5 DEF Stop
  <1>6. ASSUME NEW s \in Stoppers, StopClear(s) PROVE Types'
    BY <1>6 DEF StopClear, At, ClearRunning
  <1>7. ASSUME NEW s \in Stoppers, StopSet(s) PROVE Types'
    BY <1>7 DEF StopSet, At, Raise, Trigger!Set
  <1>8. ASSUME NEW l \in Loops, StartThread(l) PROVE Types'
    BY <1>8 DEF StartThread
  <1>9. ASSUME NEW l \in Loops, ProcessEvent(l) PROVE Types'
    BY <1>9 DEF ProcessEvent
  <1>10. ASSUME NEW l \in Loops, ProcessReturn(l) PROVE Types'
    BY <1>10 DEF ProcessReturn, At
  <1>11. ASSUME NEW l \in Loops, StartLoop(l) PROVE Types'
    <2>1. pc' \in [Procs -> Places] /\ \A m \in Loops : pc'[m] = "call" => pc[m] = "call"
      BY ONLY <1>0, <1>11 DEF StartLoop, Goto, Places
    <2>2. /\ told' \in [Loops -> {"never", "before", "inside"}]
          /\ gil' \in Procs \union {NoProc} /\ running' = TRUE /\ started' \in BOOLEAN
      BY ONLY <1>0, <1>11 DEF StartLoop, Acquire
    <2>3. UNCHANGED <<setup, events, lastEvent, trigger, cur, mode, counters, executed, owed>>
      BY ONLY <1>11 DEF StartLoop
    <2> QED
      BY <2>1, <2>2, <2>3
  <1>12. ASSUME NEW l \in Loops, Test(l) PROVE Types'
    <2>1. /\ pc' \in [Procs -> Places] /\ \A m \in Loops : pc'[m] = "call" => pc[m] = "call"
          /\ running' = TRUE /\ mode' \in [Loops -> {"loop", "drain", "once"}]
      BY ONLY <1>0, <1>12 DEF Test, Goto, Places
    <2>2. UNCHANGED <<setup, events, lastEvent, started, trigger, gil, cur, counters, history>>
      BY ONLY <1>12 DEF Test
    <2> QED
      BY <2>1, <2>2
  <1>13. ASSUME NEW l \in Loops, Pull(l) PROVE Types'
    <2>1. UNCHANGED <<setup, events, lastEvent, running, started, trigger, gil, mode,
                      counters, history>>
      BY ONLY <1>13 DEF Pull
    <2>2. pc' \in [Procs -> Places]
      BY ONLY <1>0, <1>13 DEF Pull, Goto, Places
    <2>3. \/ pc'[l] # "call" /\ cur' = cur
          \/ /\ lastEvent + 1 \in 1 .. Len(events)
             /\ cur' = [cur EXCEPT ![l] = lastEvent + 1]
      BY ONLY <1>0, <1>13 DEF Pull, NextEvent, Reachable, Goto
    <2>4. /\ cur' \in [Procs -> 0 .. Len(events)]
          /\ pc'[l] = "call" => cur'[l] > 0
          /\ \A m \in Loops : m # l => cur'[m] = cur[m]
      BY ONLY <1>0, <2>3, l \in Procs
    <2>5. \A m \in Loops : m # l => pc'[m] = pc[m]
      BY ONLY <1>0, <1>13 DEF Pull, Goto
    <2>6. \A m \in Loops : pc'[m] = "call" => cur'[m] > 0
      BY <2>4, <2>5
    <2> QED
      BY <2>1, <2>2, <2>4, <2>6
  <1>14. ASSUME NEW l \in Loops, Call(l) PROVE Types'
    BY <1>14 DEF Call, At
  <1>15. ASSUME NEW l \in Loops, CallReturns(l) PROVE Types'
    <2>1. pc' \in [Procs -> Places] /\ \A m \in Loops : pc'[m] = "call" => pc[m] = "call"
      BY ONLY <1>0, <1>15 DEF CallReturns, Goto, Places
    <2>2. /\ gil' \in Procs \union {NoProc}
          /\ UNCHANGED <<setup, events, lastEvent, running, started, trigger, cur, mode,
                          counters, history>>
      BY ONLY <1>0, <1>15 DEF CallReturns, Acquire
    <2> QED
      BY <2>1, <2>2
  <1>16. ASSUME NEW l \in Loops, RaiseClear(l) PROVE Types'
    BY <1>16 DEF RaiseClear, At, ClearRunning
  <1>17. ASSUME NEW l \in Loops, RaiseSet(l) PROVE Types'
    BY <1>17 DEF RaiseSet, At, Raise, Trigger!Set
  <1>18. ASSUME NEW l \in Loops, Advance(l) PROVE Types'
    BY <1>18 DEF Advance, At
  <1>19. ASSUME NEW l \in Loops, ClearTrigger(l) PROVE Types'
    BY <1>19 DEF ClearTrigger, At, Trigger!Clear
  <1>20. ASSUME NEW l \in Loops, HasNext(l) PROVE Types'
    BY <1>20 DEF HasNext, At, Has_next, Reachable
  <1>21. ASSUME NEW l \in Loops, Wait(l) PROVE Types'
    BY <1>21 DEF Wait, At, Trigger!Enter
  <1>22. ASSUME NEW l \in Loops, WakeUp(l) PROVE Types'
    BY <1>22 DEF WakeUp, Trigger!Leave
  <1>23. ASSUME NEW l \in Loops, Resume(l) PROVE Types'
    BY <1>23 DEF Resume
  <1>24. ASSUME NEW l \in Loops, Exit(l) PROVE Types'
    BY <1>24 DEF Exit, At
  <1>25. CASE UNCHANGED vars
    BY <1>25 DEF vars
  <1> QED
    BY <1>1, <1>2, <1>3, <1>4, <1>5, <1>6, <1>7, <1>8, <1>9, <1>10, <1>11,
       <1>12, <1>13, <1>14, <1>15, <1>16, <1>17, <1>18, <1>19, <1>20, <1>21,
       <1>22, <1>23, <1>24, <1>25 DEF Next, NotifyStep, StopStep, LoopStep,
       LockStep

LEMMA ModesStep ==
  ASSUME Types, Modes, [Next]_vars
  PROVE  Modes'
  <1> USE DEF Modes, Goto, Procs
  <1>0. /\ pc \in [Procs -> Places] /\ cur \in [Procs -> Nat]
        /\ mode \in [Loops -> {"loop", "drain", "once"}]
        /\ told \in [Loops -> {"never", "before", "inside"}]
        /\ running \in BOOLEAN
    BY DEF Types, TypeOK
  <1>1. ASSUME NEW l \in Loops, StartLoop(l) PROVE Modes'
    BY <1>0, <1>1 DEF StartLoop
  <1>2. ASSUME NEW l \in Loops, Test(l) PROVE Modes'
    BY <1>0, <1>2 DEF Test, At, Immediate_stop
  <1>3. ASSUME NEW l \in Loops, Advance(l) PROVE Modes'
    BY <1>0, <1>3 DEF Advance, At
  <1>4. ASSUME NEW l \in Loops, HasNext(l) PROVE Modes'
    BY <1>0, <1>4 DEF HasNext, At, Has_next
  <1>5. ASSUME NEW n \in Notifiers,
                Notify(n) \/ NotifyAppend(n) \/ NotifyLink(n) \/
                NotifySet(n)
         PROVE  Modes'
    BY <1>0, <1>5 DEF Notify, NotifyAppend, At, NotifyLink, NotifySet, Raise,
       Trigger!Set
  <1>6. ASSUME NEW s \in Stoppers,
                Stop(s) \/ StopClear(s) \/ StopSet(s)
         PROVE  Modes'
    BY <1>0, <1>6 DEF Stop, StopClear, At, ClearRunning, StopSet, Raise,
       Trigger!Set
  <1>7. ASSUME NEW l \in Loops,
                StartThread(l) \/ ProcessEvent(l) \/ ProcessReturn(l) \/
                Pull(l) \/ Call(l) \/ CallReturns(l)
         PROVE  Modes'
    BY <1>0, <1>7 DEF StartThread, ProcessEvent, ProcessReturn, At, Pull,
       NextEvent, Call, CallReturns
  <1>8. ASSUME NEW l \in Loops,
                RaiseClear(l) \/ RaiseSet(l) \/ ClearTrigger(l) \/ Wait(l)
                \/ WakeUp(l) \/ Resume(l)
         PROVE  Modes'
    BY <1>0, <1>8 DEF RaiseClear, At, ClearRunning, RaiseSet, Raise,
       Trigger!Set, ClearTrigger, Trigger!Clear, Wait, Trigger!Enter, WakeUp,
       Trigger!Leave, Resume
  <1>9. ASSUME NEW l \in Loops, Exit(l) PROVE Modes'
    BY <1>0, <1>9 DEF Exit, At
  <1>10. CASE UNCHANGED vars
    BY <1>10 DEF vars
  <1> QED
    BY <1>1, <1>2, <1>3, <1>4, <1>5, <1>6, <1>7, <1>8, <1>9, <1>10 DEF Next,
       NotifyStep, StopStep, LoopStep, LockStep

LEMMA SetupStays == [Next]_vars => setup' = setup
  BY DEF Next, NotifyStep, StopStep, LoopStep, LockStep, vars, Notify, NotifyAppend, NotifyLink, NotifySet, Stop, StopClear,
         StopSet, StartThread, ProcessEvent, ProcessReturn, StartLoop,
         Test, Pull, Call, CallReturns, RaiseClear, RaiseSet, Advance,
         ClearTrigger, HasNext, Wait, WakeUp, Resume, Exit

LEMMA ThreadedStep ==
  ASSUME Types, Threaded, [Next]_vars
  PROVE  Threaded'
  <1> USE DEF Threaded, Goto, Procs
  <1>0. /\ pc \in [Procs -> Places] /\ cur \in [Procs -> Nat]
        /\ mode \in [Loops -> {"loop", "drain", "once"}]
        /\ told \in [Loops -> {"never", "before", "inside"}]
        /\ running \in BOOLEAN
    BY DEF Types, TypeOK
  <1>1. ASSUME NEW l \in Loops, StartThread(l) PROVE Threaded'
    BY <1>0, <1>1 DEF StartThread
  <1>2. ASSUME NEW n \in Notifiers,
                Notify(n) \/ NotifyAppend(n) \/ NotifyLink(n) \/
                NotifySet(n)
         PROVE  Threaded'
    BY <1>0, <1>2 DEF Notify, NotifyAppend, At, NotifyLink, NotifySet, Raise,
       Trigger!Set
  <1>3. ASSUME NEW s \in Stoppers,
                Stop(s) \/ StopClear(s) \/ StopSet(s)
         PROVE  Threaded'
    BY <1>0, <1>3 DEF Stop, StopClear, At, ClearRunning, StopSet, Raise,
       Trigger!Set
  <1>4. ASSUME NEW l \in Loops,
                ProcessEvent(l) \/ ProcessReturn(l) \/ StartLoop(l) \/
                Test(l) \/ Pull(l) \/ Call(l)
         PROVE  Threaded'
    BY <1>0, <1>4 DEF ProcessEvent, ProcessReturn, At, StartLoop, Test,
       Immediate_stop, Pull, NextEvent, Call
  <1>5. ASSUME NEW l \in Loops,
                CallReturns(l) \/ RaiseClear(l) \/ RaiseSet(l) \/ Advance(l)
                \/ ClearTrigger(l) \/ HasNext(l)
         PROVE  Threaded'
    BY <1>0, <1>5 DEF CallReturns, RaiseClear, At, ClearRunning, RaiseSet,
       Raise, Trigger!Set, Advance, ClearTrigger, Trigger!Clear, HasNext,
       Has_next
  <1>6. ASSUME NEW l \in Loops,
                Wait(l) \/ WakeUp(l) \/ Resume(l) \/ Exit(l)
         PROVE  Threaded'
    BY <1>0, <1>6 DEF Wait, At, Trigger!Enter, WakeUp, Trigger!Leave, Resume,
       Exit
  <1>7. CASE UNCHANGED vars
    BY <1>7 DEF vars
  <1> QED
    BY <1>1, <1>2, <1>3, <1>4, <1>5, <1>6, <1>7 DEF Next, NotifyStep, StopStep,
       LoopStep, LockStep

LEMMA RunsOnStep ==
  ASSUME Types, Modes, NeverStops(setup), RunsOn, [Next]_vars
  PROVE  RunsOn'
  <1> USE DEF Modes, RunsOn, InLoop, Goto, Procs, history
  <1>0. /\ pc \in [Procs -> Places] /\ cur \in [Procs -> Nat]
        /\ mode \in [Loops -> {"loop", "drain", "once"}]
        /\ told \in [Loops -> {"never", "before", "inside"}]
        /\ running \in BOOLEAN
    BY DEF Types, TypeOK
  <1>1. ASSUME NEW l \in Loops, StartThread(l) PROVE RunsOn'
    BY <1>0, <1>1 DEF StartThread
  <1>2. ASSUME NEW l \in Loops, ProcessEvent(l) PROVE RunsOn'
    BY <1>0, <1>2 DEF ProcessEvent
  <1>3. ASSUME NEW l \in Loops, ProcessReturn(l) PROVE RunsOn'
    BY <1>0, <1>3 DEF ProcessReturn, At
  <1>4. ASSUME NEW l \in Loops, StartLoop(l) PROVE RunsOn'
    BY <1>0, <1>4 DEF StartLoop
  <1>5. ASSUME NEW l \in Loops, Test(l) PROVE RunsOn'
    BY <1>0, <1>5 DEF Test, At, Immediate_stop
  <1>6. ASSUME NEW l \in Loops, Pull(l) PROVE RunsOn'
    BY <1>0, <1>6 DEF Pull, At, NextEvent
  <1>7. ASSUME NEW l \in Loops, Call(l) PROVE RunsOn'
    BY <1>0, <1>7 DEF Call, At
  <1>8. ASSUME NEW l \in Loops, CallReturns(l) PROVE RunsOn'
    BY <1>0, <1>8 DEF CallReturns, NeverStops
  <1>9. ASSUME NEW l \in Loops, RaiseClear(l) PROVE RunsOn'
    BY <1>0, <1>9 DEF RaiseClear, At, ClearRunning
  <1>10. ASSUME NEW l \in Loops, RaiseSet(l) PROVE RunsOn'
    BY <1>0, <1>10 DEF RaiseSet, At, Raise, Trigger!Set
  <1>11. ASSUME NEW l \in Loops, Advance(l) PROVE RunsOn'
    BY <1>0, <1>11 DEF Advance, At
  <1>12. ASSUME NEW l \in Loops, ClearTrigger(l) PROVE RunsOn'
    BY <1>0, <1>12 DEF ClearTrigger, At, Trigger!Clear
  <1>13. ASSUME NEW l \in Loops, HasNext(l) PROVE RunsOn'
    BY <1>0, <1>13 DEF HasNext, At, Has_next
  <1>14. ASSUME NEW l \in Loops, Wait(l) PROVE RunsOn'
    BY <1>0, <1>14 DEF Wait, At, Trigger!Enter
  <1>15. ASSUME NEW l \in Loops, WakeUp(l) PROVE RunsOn'
    BY <1>0, <1>15 DEF WakeUp, Trigger!Leave
  <1>16. ASSUME NEW l \in Loops, Resume(l) PROVE RunsOn'
    BY <1>0, <1>16 DEF Resume
  <1>17. ASSUME NEW l \in Loops, Exit(l) PROVE RunsOn'
    BY <1>0, <1>17 DEF Exit, At
  <1>18. ASSUME NEW s \in Stoppers, Stop(s) PROVE RunsOn'
    BY <1>18 DEF Stop, NeverStops, Types, TypeOK
  <1>19. ASSUME NEW s \in Stoppers, StopClear(s) PROVE RunsOn'
    BY <1>0, <1>19 DEF StopClear, At, ClearRunning
  <1>20. ASSUME NEW s \in Stoppers, StopSet(s) PROVE RunsOn'
    BY <1>0, <1>20 DEF StopSet, At, Raise, Trigger!Set
  <1>21. ASSUME NEW n \in Notifiers,
                Notify(n) \/ NotifyAppend(n) \/ NotifyLink(n) \/
                NotifySet(n)
         PROVE  RunsOn'
    BY <1>0, <1>21 DEF Notify, NotifyAppend, At, NotifyLink, NotifySet, Raise,
       Trigger!Set
  <1>22. CASE UNCHANGED vars
    BY <1>22 DEF vars
  <1> QED
    BY <1>1, <1>2, <1>3, <1>4, <1>5, <1>6, <1>7, <1>8, <1>9, <1>10, <1>11,
       <1>12, <1>13, <1>14, <1>15, <1>16, <1>17, <1>18, <1>19, <1>20, <1>21,
       <1>22 DEF Next, NotifyStep, StopStep, LoopStep, LockStep

LEMMA UnstoppedStep ==
  ASSUME Types, Modes, Unstopped, [Next]_vars
  PROVE  Unstopped'
  BY RunsOnStep, SetupStays DEF Unstopped

LEMMA AloneStep ==
  ASSUME Serial, Types, Threaded, Unstopped, Alone, [Next]_vars
  PROVE  Alone'
  <1> USE DEF Alone, InLoop, Goto, Procs
  <1>0. /\ pc \in [Procs -> Places] /\ cur \in [Procs -> Nat]
        /\ mode \in [Loops -> {"loop", "drain", "once"}]
        /\ told \in [Loops -> {"never", "before", "inside"}]
        /\ running \in BOOLEAN
    BY DEF Types, TypeOK
  <1>1. ASSUME NEW n \in Notifiers, Notify(n) PROVE Alone'
    BY <1>0, <1>1 DEF Notify
  <1>2. ASSUME NEW n \in Notifiers, NotifyAppend(n) PROVE Alone'
    BY <1>0, <1>2 DEF NotifyAppend, At
  <1>3. ASSUME NEW n \in Notifiers, NotifyLink(n) PROVE Alone'
    BY <1>0, <1>3 DEF NotifyLink, At
  <1>4. ASSUME NEW n \in Notifiers, NotifySet(n) PROVE Alone'
    BY <1>0, <1>4 DEF NotifySet, At, Raise, Trigger!Set
  <1>5. ASSUME NEW l \in Loops, ProcessEvent(l) PROVE Alone'
    BY <1>0, <1>5 DEF ProcessEvent
  <1>6. ASSUME NEW l \in Loops, StartLoop(l) PROVE Alone'
    <2>1. CASE running
      BY <1>0, <1>6, <2>1 DEF StartLoop
    <2>2. CASE ~running /\ OneThread(setup)
      <3>1. \A m \in Loops : pc[m] # "idle" => m = l
        BY <1>6, <2>2 DEF StartLoop, Threaded, OneThread
      <3> QED
        BY <1>0, <1>6, <3>1 DEF StartLoop
    <2>3. CASE ~running /\ NeverStops(setup)
      <3>1. \A m \in Loops : ~InLoop(m)
        BY <1>0, <1>6, <2>3 DEF StartLoop, Unstopped, RunsOn
      <3> QED
        BY <1>0, <1>6, <3>1 DEF StartLoop
    <2> QED
      BY <2>1, <2>2, <2>3 DEF Serial, Types, TypeOK
  <1>7. ASSUME NEW s \in Stoppers,
                Stop(s) \/ StopClear(s) \/ StopSet(s)
         PROVE  Alone'
    BY <1>0, <1>7 DEF Stop, StopClear, At, ClearRunning, StopSet, Raise,
       Trigger!Set
  <1>8. ASSUME NEW l \in Loops,
                StartThread(l) \/ ProcessReturn(l) \/ Test(l) \/ Pull(l) \/
                Call(l) \/ CallReturns(l)
         PROVE  Alone'
    BY <1>0, <1>8 DEF StartThread, ProcessReturn, At, Test, Immediate_stop,
       Pull, NextEvent, Call, CallReturns
  <1>9. ASSUME NEW l \in Loops,
                RaiseClear(l) \/ RaiseSet(l) \/ Advance(l) \/
                ClearTrigger(l) \/ HasNext(l) \/ Wait(l)
         PROVE  Alone'
    BY <1>0, <1>9 DEF RaiseClear, At, ClearRunning, RaiseSet, Raise,
       Trigger!Set, Advance, ClearTrigger, Trigger!Clear, HasNext, Has_next,
       Wait, Trigger!Enter
  <1>10. ASSUME NEW l \in Loops,
                WakeUp(l) \/ Resume(l) \/ Exit(l)
         PROVE  Alone'
    BY <1>0, <1>10 DEF WakeUp, Trigger!Leave, Resume, Exit, At
  <1>11. CASE UNCHANGED vars
    BY <1>11 DEF vars
  <1> QED
    BY <1>1, <1>2, <1>3, <1>4, <1>5, <1>6, <1>7, <1>8, <1>9, <1>10, <1>11 DEF
       Next, NotifyStep, StopStep, LoopStep, LockStep

-----------------------------------------------------------------------------
(* Calls of callbacks.                                                     *)

LEMMA CalledStep ==
  ASSUME Types, Alone, Called, [Next]_vars
  PROVE  Called'
  <1> USE DEF Alone, InLoop, InCall, Called, Goto, Procs, history
  <1>0. /\ pc \in [Procs -> Places] /\ cur \in [Procs -> Nat]
        /\ mode \in [Loops -> {"loop", "drain", "once"}]
        /\ told \in [Loops -> {"never", "before", "inside"}]
        /\ running \in BOOLEAN
    BY DEF Types, TypeOK
  <1>1. ASSUME NEW l \in Loops, Pull(l) PROVE Called'
    BY <1>0, <1>1 DEF Pull, At, NextEvent
  <1>2. ASSUME NEW l \in Loops, Call(l) PROVE Called'
    <2>1. Len(executed') = Len(executed) + 1 /\ lastEvent \in Nat
      BY <1>2 DEF Call, Types, TypeOK
    <2> QED
      BY <1>0, <1>2, <2>1 DEF Call, At
  <1>3. ASSUME NEW l \in Loops, CallReturns(l) PROVE Called'
    BY <1>0, <1>3 DEF CallReturns
  <1>4. ASSUME NEW l \in Loops, RaiseClear(l) PROVE Called'
    BY <1>0, <1>4 DEF RaiseClear, At, ClearRunning
  <1>5. ASSUME NEW l \in Loops, RaiseSet(l) PROVE Called'
    BY <1>0, <1>5 DEF RaiseSet, At, Raise, Trigger!Set
  <1>6. ASSUME NEW l \in Loops, Advance(l) PROVE Called'
    BY <1>0, <1>6 DEF Advance, At
  <1>7. ASSUME NEW n \in Notifiers,
                Notify(n) \/ NotifyAppend(n) \/ NotifyLink(n) \/
                NotifySet(n)
         PROVE  Called'
    BY <1>0, <1>7 DEF Notify, NotifyAppend, At, NotifyLink, NotifySet, Raise,
       Trigger!Set
  <1>8. ASSUME NEW s \in Stoppers,
                Stop(s) \/ StopClear(s) \/ StopSet(s)
         PROVE  Called'
    BY <1>0, <1>8 DEF Stop, StopClear, At, ClearRunning, StopSet, Raise,
       Trigger!Set
  <1>9. ASSUME NEW l \in Loops,
                StartThread(l) \/ ProcessEvent(l) \/ ProcessReturn(l) \/
                StartLoop(l) \/ Test(l) \/ ClearTrigger(l)
         PROVE  Called'
    BY <1>0, <1>9 DEF StartThread, ProcessEvent, ProcessReturn, At, StartLoop,
       Test, Immediate_stop, ClearTrigger, Trigger!Clear
  <1>10. ASSUME NEW l \in Loops,
                HasNext(l) \/ Wait(l) \/ WakeUp(l) \/ Resume(l) \/ Exit(l)
         PROVE  Called'
    BY <1>0, <1>10 DEF HasNext, At, Has_next, Wait, Trigger!Enter, WakeUp,
       Trigger!Leave, Resume, Exit
  <1>11. CASE UNCHANGED vars
    BY <1>11 DEF vars
  <1> QED
    BY <1>1, <1>2, <1>3, <1>4, <1>5, <1>6, <1>7, <1>8, <1>9, <1>10, <1>11 DEF
       Next, NotifyStep, StopStep, LoopStep, LockStep

LEMMA CalledInOrderStep ==
  ASSUME Types, Alone, Called, CalledInOrder, [Next]_vars
  PROVE  CalledInOrder'
  <1>1. executed \in Seq(Nat)
    BY DEF Types, TypeOK
  <1>2. ASSUME NEW l \in Loops, Call(l) PROVE CalledInOrder'
    <2>1. executed' = Append(executed, cur[l]) /\ cur[l] = lastEvent + 1
      BY <1>2 DEF Call, At, Called
    <2>2. Len(executed) = lastEvent
      BY <1>2 DEF Call, At, Called, Alone, InLoop, InCall
    <2>3. lastEvent \in Nat /\ cur[l] \in Nat
      BY <2>1 DEF Types, TypeOK
    <2> QED
      BY <1>1, <2>1, <2>2, <2>3 DEF CalledInOrder
  <1>3. CASE UNCHANGED executed
    BY <1>3 DEF CalledInOrder
  <1>4. (\E l \in Loops : Call(l)) \/ UNCHANGED executed
    BY DEF Next, NotifyStep, StopStep, LoopStep, LockStep, vars, history, Notify, NotifyAppend, NotifyLink, NotifySet, Stop, StopClear,
         StopSet, StartThread, ProcessEvent, ProcessReturn, StartLoop,
         Test, Pull, CallReturns, RaiseClear, RaiseSet, Advance,
         ClearTrigger, HasNext, Wait, WakeUp, Resume, Exit
  <1> QED
    BY <1>2, <1>3, <1>4

-----------------------------------------------------------------------------
(* Sleeping and waking up.                                                 *)

LEMMA LockHeldStep ==
  ASSUME Types, LockHeld, [Next]_vars
  PROVE  LockHeld'
  <1> USE DEF LockHeld, Unlocked, Goto, Procs
  <1>0. /\ pc \in [Procs -> Places] /\ cur \in [Procs -> Nat]
        /\ mode \in [Loops -> {"loop", "drain", "once"}]
        /\ told \in [Loops -> {"never", "before", "inside"}]
        /\ running \in BOOLEAN
    BY DEF Types, TypeOK
  <1>1. ASSUME NEW n \in Notifiers, Notify(n) PROVE LockHeld'
    BY <1>0, <1>1 DEF Notify, Acquire
  <1>2. ASSUME NEW n \in Notifiers, NotifyAppend(n) PROVE LockHeld'
    BY <1>0, <1>2 DEF NotifyAppend, At
  <1>3. ASSUME NEW n \in Notifiers, NotifyLink(n) PROVE LockHeld'
    BY <1>0, <1>3 DEF NotifyLink, At
  <1>4. ASSUME NEW n \in Notifiers, NotifySet(n) PROVE LockHeld'
    BY <1>0, <1>4 DEF NotifySet, At, Raise, Trigger!Set, Release
  <1>5. ASSUME NEW s \in Stoppers, Stop(s) PROVE LockHeld'
    BY <1>0, <1>5 DEF Stop, Acquire
  <1>6. ASSUME NEW s \in Stoppers, StopClear(s) PROVE LockHeld'
    BY <1>0, <1>6 DEF StopClear, At, ClearRunning
  <1>7. ASSUME NEW s \in Stoppers, StopSet(s) PROVE LockHeld'
    BY <1>0, <1>7 DEF StopSet, At, Raise, Trigger!Set, Release
  <1>8. ASSUME NEW l \in Loops,
                StartThread(l) \/ ProcessEvent(l) \/ ProcessReturn(l) \/
                StartLoop(l) \/ Test(l) \/ Pull(l)
         PROVE  LockHeld'
    BY <1>0, <1>8 DEF StartThread, ProcessEvent, Acquire, ProcessReturn, At,
       Release, StartLoop, Test, Immediate_stop, Pull, NextEvent
  <1>9. ASSUME NEW l \in Loops,
                Call(l) \/ CallReturns(l) \/ RaiseClear(l) \/ RaiseSet(l) \/
                Advance(l) \/ ClearTrigger(l)
         PROVE  LockHeld'
    BY <1>0, <1>9 DEF Call, At, Release, CallReturns, Acquire, RaiseClear,
       ClearRunning, RaiseSet, Raise, Trigger!Set, Advance, ClearTrigger,
       Trigger!Clear
  <1>10. ASSUME NEW l \in Loops,
                HasNext(l) \/ Wait(l) \/ WakeUp(l) \/ Resume(l) \/ Exit(l)
         PROVE  LockHeld'
    BY <1>0, <1>10 DEF HasNext, At, Has_next, Wait, Trigger!Enter, Release,
       WakeUp, Trigger!Leave, Resume, Acquire, Exit
  <1>11. CASE UNCHANGED vars
    BY <1>11 DEF vars
  <1> QED
    BY <1>1, <1>2, <1>3, <1>4, <1>5, <1>6, <1>7, <1>8, <1>9, <1>10, <1>11 DEF
       Next, NotifyStep, StopStep, LoopStep, LockStep

LEMMA AppendsGoOnStep ==
  ASSUME Types, AppendsGoOn, [Next]_vars
  PROVE  AppendsGoOn'
  <1> USE DEF AppendsGoOn, Goto, Procs
  <1>0. /\ pc \in [Procs -> Places] /\ cur \in [Procs -> 0 .. Len(events)]
        /\ events \in Seq({"appended", "linked", "notified"}) /\ Len(events) \in Nat
    BY DEF Types, TypeOK
  <1>1. ASSUME NEW n \in Notifiers, NotifyAppend(n) PROVE AppendsGoOn'
    BY <1>0, <1>1 DEF NotifyAppend, At
  <1>2. ASSUME NEW n \in Notifiers, NotifyLink(n) PROVE AppendsGoOn'
    BY <1>0, <1>2 DEF NotifyLink, At
  <1>3. ASSUME NEW n \in Notifiers, NotifySet(n) PROVE AppendsGoOn'
    BY <1>0, <1>3 DEF NotifySet, At, Raise, Trigger!Set
  <1>4. ASSUME NEW n \in Notifiers, Notify(n) PROVE AppendsGoOn'
    BY <1>0, <1>4 DEF Notify
  <1>5. ASSUME NEW s \in Stoppers,
                Stop(s) \/ StopClear(s) \/ StopSet(s)
         PROVE  AppendsGoOn'
    BY <1>0, <1>5 DEF Stop, StopClear, At, ClearRunning, StopSet, Raise,
       Trigger!Set
  <1>6. ASSUME NEW l \in Loops,
                StartThread(l) \/ ProcessEvent(l) \/ ProcessReturn(l) \/
                StartLoop(l) \/ Test(l) \/ Pull(l)
         PROVE  AppendsGoOn'
    BY <1>0, <1>6 DEF StartThread, ProcessEvent, ProcessReturn, At, StartLoop,
       Test, Immediate_stop, Pull, NextEvent
  <1>7. ASSUME NEW l \in Loops,
                Call(l) \/ CallReturns(l) \/ RaiseClear(l) \/ RaiseSet(l) \/
                Advance(l) \/ ClearTrigger(l)
         PROVE  AppendsGoOn'
    BY <1>0, <1>7 DEF Call, At, CallReturns, RaiseClear, ClearRunning,
       RaiseSet, Raise, Trigger!Set, Advance, ClearTrigger, Trigger!Clear
  <1>8. ASSUME NEW l \in Loops,
                HasNext(l) \/ Wait(l) \/ WakeUp(l) \/ Resume(l) \/ Exit(l)
         PROVE  AppendsGoOn'
    BY <1>0, <1>8 DEF HasNext, At, Has_next, Wait, Trigger!Enter, WakeUp,
       Trigger!Leave, Resume, Exit
  <1>9. CASE UNCHANGED vars
    BY <1>9 DEF vars
  <1> QED
    BY <1>1, <1>2, <1>3, <1>4, <1>5, <1>6, <1>7, <1>8, <1>9 DEF Next,
       NotifyStep, StopStep, LoopStep, LockStep

LEMMA NoLostEventStep ==
  ASSUME Types, Alone, AppendsGoOn, NoLostEvent, [Next]_vars
  PROVE  NoLostEvent'
  <1> USE DEF NoLostEvent, Alone, InLoop, Goto, Procs, trigger
  <1>0. /\ pc \in [Procs -> Places]
        /\ mode \in [Loops -> {"loop", "drain", "once"}]
        /\ events \in Seq({"appended", "linked", "notified"}) /\ Len(events) \in Nat
        /\ lastEvent \in 0 .. Len(events)
    BY DEF Types, TypeOK
  <1>1. ASSUME NEW n \in Notifiers, NotifyAppend(n) PROVE NoLostEvent'
    BY <1>0, <1>1 DEF NotifyAppend, At
  <1>2. ASSUME NEW n \in Notifiers, NotifyLink(n) PROVE NoLostEvent'
    BY <1>0, <1>2 DEF NotifyLink, At
  <1>3. ASSUME NEW n \in Notifiers, NotifySet(n) PROVE NoLostEvent'
    BY <1>0, <1>3 DEF NotifySet, At, Raise, Trigger!Set
  <1>4. ASSUME NEW l \in Loops, HasNext(l) PROVE NoLostEvent'
    <2>1. /\ pc[l] = "hasNext" /\ UNCHANGED <<events, lastEvent, flag, mode>>
          /\ \A p \in Procs : p # l => pc'[p] = pc[p]
          /\ pc'[l] \in {"wait", "sleep"} => ~Reachable
      BY <1>0, <1>4 DEF HasNext, At, Has_next
    <2>2. ASSUME lastEvent < Len(events), ~Reachable
          PROVE  \E n \in Notifiers : pc'[n] \in {"link", "set"}
      <3>1. lastEvent + 1 \in 1 .. Len(events) /\ events[lastEvent + 1] = "appended"
        BY <1>0, <2>2 DEF Reachable
      <3>2. PICK n \in Notifiers : pc[n] = "link"
        BY <3>1 DEF AppendsGoOn
      <3> QED
        BY <2>1, <3>2
    <2>3. \A m \in Loops : m # l => pc[m] \notin {"wait", "sleep"}
      BY <2>1
    <2> QED
      BY <2>1, <2>2, <2>3
  <1>5. ASSUME NEW n \in Notifiers, Notify(n) PROVE NoLostEvent'
    BY <1>0, <1>5 DEF Notify
  <1>6. ASSUME NEW s \in Stoppers,
                Stop(s) \/ StopClear(s) \/ StopSet(s)
         PROVE  NoLostEvent'
    BY <1>0, <1>6 DEF Stop, StopClear, At, ClearRunning, StopSet, Raise,
       Trigger!Set
  <1>7. ASSUME NEW l \in Loops,
                StartThread(l) \/ ProcessEvent(l) \/ ProcessReturn(l) \/
                StartLoop(l) \/ Test(l) \/ Pull(l)
         PROVE  NoLostEvent'
    BY <1>0, <1>7 DEF StartThread, ProcessEvent, ProcessReturn, At, StartLoop,
       Test, Immediate_stop, Pull, NextEvent, Reachable
  <1>8. ASSUME NEW l \in Loops,
                Call(l) \/ CallReturns(l) \/ RaiseClear(l) \/ RaiseSet(l) \/
                Advance(l) \/ ClearTrigger(l)
         PROVE  NoLostEvent'
    BY <1>0, <1>8 DEF Call, At, CallReturns, RaiseClear, ClearRunning,
       RaiseSet, Raise, Trigger!Set, Advance, ClearTrigger, Trigger!Clear
  <1>9. ASSUME NEW l \in Loops,
                Wait(l) \/ WakeUp(l) \/ Resume(l) \/ Exit(l)
         PROVE  NoLostEvent'
    BY <1>0, <1>9 DEF Wait, At, Trigger!Enter, WakeUp, Trigger!Leave, Resume,
       Exit
  <1>10. CASE UNCHANGED vars
    BY <1>10 DEF vars
  <1> QED
    BY <1>1, <1>2, <1>3, <1>4, <1>5, <1>6, <1>7, <1>8, <1>9, <1>10 DEF Next,
       NotifyStep, StopStep, LoopStep, LockStep

LEMMA ToldStopsStep ==
  ASSUME Types, Modes, Threaded, Unstopped, Serial, Alone, LockHeld, ToldStops, [Next]_vars
  PROVE  ToldStops'
  <1> USE DEF ToldStops, Alone, InLoop, InCall, Goto, Procs, history
  <1>0. /\ pc \in [Procs -> Places] /\ cur \in [Procs -> Nat]
        /\ mode \in [Loops -> {"loop", "drain", "once"}]
        /\ told \in [Loops -> {"never", "before", "inside"}]
        /\ running \in BOOLEAN
    BY DEF Types, TypeOK
  <1>1. ASSUME NEW n \in Notifiers, Notify(n) PROVE ToldStops'
    BY <1>0, <1>1 DEF Notify
  <1>2. ASSUME NEW n \in Notifiers, NotifyAppend(n) PROVE ToldStops'
    BY <1>0, <1>2 DEF NotifyAppend, At
  <1>3. ASSUME NEW n \in Notifiers, NotifyLink(n) PROVE ToldStops'
    BY <1>0, <1>3 DEF NotifyLink, At
  <1>4. ASSUME NEW n \in Notifiers, NotifySet(n) PROVE ToldStops'
    BY <1>0, <1>4 DEF NotifySet, At, Raise, Trigger!Set
  <1>5. ASSUME NEW l \in Loops, StartThread(l) PROVE ToldStops'
    BY <1>0, <1>5 DEF StartThread
  <1>6. ASSUME NEW l \in Loops, ProcessReturn(l) PROVE ToldStops'
    BY <1>0, <1>6 DEF ProcessReturn, At
  <1>7. ASSUME NEW l \in Loops, Pull(l) PROVE ToldStops'
    BY <1>0, <1>7 DEF Pull, At, NextEvent
  <1>8. ASSUME NEW l \in Loops, Call(l) PROVE ToldStops'
    BY <1>0, <1>8 DEF Call, At
  <1>9. ASSUME NEW s \in Stoppers, StopClear(s) PROVE ToldStops'
    <2>1. /\ UNCHANGED <<mode, setup>> /\ running' = FALSE
          /\ setup.under_gil => gil = s
          /\ \A m \in Loops : pc'[m] = pc[m] /\ m # s
      BY <1>0, <1>9, ProcsAssumption DEF StopClear, ClearRunning, At
    <2>2. \A m \in Loops : told'[m] = "inside" => told[m] = "inside" \/ pc[m] \notin {"idle", "born"}
      BY <1>0, <1>9 DEF StopClear, ClearRunning
    <2>3. \A m \in Loops : setup.under_gil => pc[m] \in Unlocked
      BY <2>1 DEF LockHeld
    <2> QED
      BY <2>1, <2>2, <2>3 DEF Unlocked
  <1>10. ASSUME NEW l \in Loops, ProcessEvent(l) PROVE ToldStops'
    BY <1>0, <1>10 DEF ProcessEvent
  <1>11. ASSUME NEW l \in Loops, StartLoop(l) PROVE ToldStops'
    <2>1. CASE running
      <3>1. /\ UNCHANGED <<mode, setup>> /\ running' = TRUE /\ pc[l] = "born"
            /\ \A m \in Loops : m # l => pc'[m] = pc[m] /\ told'[m] = told[m]
            /\ told'[l] = "never"
        BY <1>0, <1>11, <2>1 DEF StartLoop
      <3> QED
        BY <2>1, <3>1
    <2>2. CASE ~running
      <3>1. UNCHANGED <<mode, setup, told>> /\ pc[l] = "born"
        BY <1>11, <2>2 DEF StartLoop
      <3>2. CASE OneThread(setup)
        <4>1. \A m \in Loops : pc[m] # "idle" => m = l
          BY <3>1, <3>2 DEF Threaded, OneThread
        <4>2. setup.under_gil => ~(told[l] = "inside" /\ mode[l] = "loop")
          BY <3>1
        <4>3. \A m \in Loops : setup.under_gil /\ told[m] = "inside" /\ mode[m] = "loop" => pc[m] # "idle"
          OBVIOUS
        <4> QED
          BY <3>1, <4>1, <4>2, <4>3
      <3>3. CASE NeverStops(setup)
        BY <3>1, <3>3 DEF Unstopped, RunsOn
      <3> QED
        BY <3>2, <3>3 DEF Serial, Types, TypeOK
    <2> QED
      BY <2>1, <2>2, <1>0
  <1>12. ASSUME NEW l \in Loops, Test(l) PROVE ToldStops'
    BY <1>0, <1>12 DEF Test, At, Immediate_stop
  <1>13. ASSUME NEW l \in Loops, CallReturns(l) PROVE ToldStops'
    BY <1>0, <1>13 DEF CallReturns
  <1>14. ASSUME NEW l \in Loops, RaiseClear(l) PROVE ToldStops'
    BY <1>0, <1>14 DEF RaiseClear, At, ClearRunning
  <1>15. ASSUME NEW l \in Loops, RaiseSet(l) PROVE ToldStops'
    BY <1>0, <1>15 DEF RaiseSet, At, Raise, Trigger!Set
  <1>16. ASSUME NEW l \in Loops, Advance(l) PROVE ToldStops'
    BY <1>0, <1>16 DEF Advance, At
  <1>17. ASSUME NEW l \in Loops, HasNext(l) PROVE ToldStops'
    BY <1>0, <1>17 DEF HasNext, At, Has_next
  <1>18. ASSUME NEW l \in Loops, Exit(l) PROVE ToldStops'
    BY <1>0, <1>18 DEF Exit, At
  <1>19. ASSUME NEW s \in Stoppers,
                Stop(s) \/ StopSet(s)
         PROVE  ToldStops'
    BY <1>0, <1>19 DEF Stop, StopSet, At, Raise, Trigger!Set
  <1>20. ASSUME NEW l \in Loops,
                ClearTrigger(l) \/ Wait(l) \/ WakeUp(l) \/ Resume(l)
         PROVE  ToldStops'
    BY <1>0, <1>20 DEF ClearTrigger, At, Trigger!Clear, Wait, Trigger!Enter,
       WakeUp, Trigger!Leave, Resume
  <1>21. CASE UNCHANGED vars
    BY <1>21 DEF vars
  <1> QED
    BY <1>1, <1>2, <1>3, <1>4, <1>5, <1>6, <1>7, <1>8, <1>9, <1>10, <1>11,
       <1>12, <1>13, <1>14, <1>15, <1>16, <1>17, <1>18, <1>19, <1>20, <1>21 DEF
       Next, NotifyStep, StopStep, LoopStep, LockStep

LEMMA StopForcesWakeupStep ==
  ASSUME Types, Modes, Alone, ToldStops, StopForcesWakeup, [Next]_vars
  PROVE  StopForcesWakeup'
  <1> USE DEF StopForcesWakeup, Modes, Alone, InLoop, InCall, Goto, Procs,
     trigger, history
  <1>0. /\ pc \in [Procs -> Places] /\ cur \in [Procs -> Nat]
        /\ mode \in [Loops -> {"loop", "drain", "once"}]
        /\ told \in [Loops -> {"never", "before", "inside"}]
        /\ running \in BOOLEAN
    BY DEF Types, TypeOK
  <1>1. ASSUME NEW n \in Notifiers, Notify(n) PROVE StopForcesWakeup'
    BY <1>0, <1>1 DEF Notify
  <1>2. ASSUME NEW n \in Notifiers, NotifyAppend(n) PROVE StopForcesWakeup'
    BY <1>0, <1>2 DEF NotifyAppend, At
  <1>3. ASSUME NEW n \in Notifiers, NotifyLink(n) PROVE StopForcesWakeup'
    BY <1>0, <1>3 DEF NotifyLink, At
  <1>4. ASSUME NEW n \in Notifiers, NotifySet(n) PROVE StopForcesWakeup'
    BY <1>0, <1>4 DEF NotifySet, At, Raise, Trigger!Set
  <1>5. ASSUME NEW s \in Stoppers, StopClear(s) PROVE StopForcesWakeup'
    BY <1>0, <1>5 DEF StopClear, At, ClearRunning
  <1>6. ASSUME NEW s \in Stoppers, StopSet(s) PROVE StopForcesWakeup'
    BY <1>0, <1>6 DEF StopSet, At, Raise, Trigger!Set
  <1>7. ASSUME NEW l \in Loops, Call(l) PROVE StopForcesWakeup'
    BY <1>0, <1>7 DEF Call, At
  <1>8. ASSUME NEW l \in Loops, CallReturns(l) PROVE StopForcesWakeup'
    BY <1>0, <1>8 DEF CallReturns
  <1>9. ASSUME NEW l \in Loops, RaiseSet(l) PROVE StopForcesWakeup'
    BY <1>0, <1>9 DEF RaiseSet, At, Raise, Trigger!Set
  <1>10. ASSUME NEW l \in Loops, RaiseClear(l) PROVE StopForcesWakeup'
    BY <1>0, <1>10 DEF RaiseClear, At, ClearRunning
  <1>11. ASSUME NEW l \in Loops, Wait(l) PROVE StopForcesWakeup'
    <2>1. /\ pc[l] = "wait" /\ UNCHANGED <<setup, told, flag>>
          /\ \A p \in Procs : p # l => pc'[p] = pc[p]
          /\ pc'[l] = "sleep"
      BY <1>0, <1>11 DEF Wait, At, Trigger!Enter
    <2>2. setup.under_gil => told[l] # "inside"
      BY <2>1 DEF ToldStops
    <2> QED
      BY <2>1, <2>2
  <1>12. ASSUME NEW s \in Stoppers, Stop(s) PROVE StopForcesWakeup'
    BY <1>0, <1>12 DEF Stop
  <1>13. ASSUME NEW l \in Loops,
                StartThread(l) \/ ProcessEvent(l) \/ ProcessReturn(l) \/
                StartLoop(l) \/ Test(l) \/ Pull(l)
         PROVE  StopForcesWakeup'
    BY <1>0, <1>13 DEF StartThread, ProcessEvent, ProcessReturn, At, StartLoop,
       Test, Immediate_stop, Pull, NextEvent
  <1>14. ASSUME NEW l \in Loops,
                Advance(l) \/ ClearTrigger(l) \/ HasNext(l) \/ WakeUp(l) \/
                Resume(l) \/ Exit(l)
         PROVE  StopForcesWakeup'
    BY <1>0, <1>14 DEF Advance, At, ClearTrigger, Trigger!Clear, HasNext,
       Has_next, WakeUp, Trigger!Leave, Resume, Exit
  <1>15. CASE UNCHANGED vars
    BY <1>15 DEF vars
  <1> QED
    BY <1>1, <1>2, <1>3, <1>4, <1>5, <1>6, <1>7, <1>8, <1>9, <1>10, <1>11,
       <1>12, <1>13, <1>14, <1>15 DEF Next, NotifyStep, StopStep, LoopStep,
       LockStep

LEMMA OwedReachableStep ==
  ASSUME Types, OwedReachable, [Next]_vars
  PROVE  OwedReachable'
  <1> USE DEF OwedReachable, Goto, Procs, history
  <1>0. /\ events \in Seq({"appended", "linked", "notified"}) /\ Len(events) \in Nat
        /\ owed \subseteq 1 .. Len(events)
    BY DEF Types, TypeOK
  <1>1. ASSUME NEW n \in Notifiers, NotifyAppend(n) PROVE OwedReachable'
    BY <1>0, <1>1 DEF NotifyAppend, At
  <1>2. ASSUME NEW n \in Notifiers, NotifyLink(n) PROVE OwedReachable'
    BY <1>0, <1>2 DEF NotifyLink, At
  <1>3. ASSUME NEW n \in Notifiers, NotifySet(n) PROVE OwedReachable'
    BY <1>0, <1>3 DEF NotifySet, At, Raise, Trigger!Set
  <1>4. ASSUME NEW s \in Stoppers, StopClear(s) PROVE OwedReachable'
    BY <1>0, <1>4 DEF StopClear, At, ClearRunning
  <1>5. ASSUME NEW l \in Loops, RaiseClear(l) PROVE OwedReachable'
    BY <1>0, <1>5 DEF RaiseClear, At, ClearRunning
  <1>6. ASSUME NEW n \in Notifiers, Notify(n) PROVE OwedReachable'
    BY <1>0, <1>6 DEF Notify
  <1>7. ASSUME NEW s \in Stoppers,
                Stop(s) \/ StopSet(s)
         PROVE  OwedReachable'
    BY <1>0, <1>7 DEF Stop, StopSet, At, Raise, Trigger!Set
  <1>8. ASSUME NEW l \in Loops,
                StartThread(l) \/ ProcessEvent(l) \/ ProcessReturn(l) \/
                StartLoop(l) \/ Test(l) \/ Pull(l)
         PROVE  OwedReachable'
    BY <1>0, <1>8 DEF StartThread, ProcessEvent, ProcessReturn, At, StartLoop,
       Test, Immediate_stop, Pull, NextEvent
  <1>9. ASSUME NEW l \in Loops,
                Call(l) \/ CallReturns(l) \/ RaiseSet(l) \/ Advance(l) \/
                ClearTrigger(l) \/ HasNext(l)
         PROVE  OwedReachable'
    BY <1>0, <1>9 DEF Call, At, CallReturns, RaiseSet, Raise, Trigger!Set,
       Advance, ClearTrigger, Trigger!Clear, HasNext, Has_next
  <1>10. ASSUME NEW l \in Loops,
                Wait(l) \/ WakeUp(l) \/ Resume(l) \/ Exit(l)
         PROVE  OwedReachable'
    BY <1>0, <1>10 DEF Wait, At, Trigger!Enter, WakeUp, Trigger!Leave, Resume,
       Exit
  <1>11. CASE UNCHANGED vars
    BY <1>11 DEF vars
  <1> QED
    BY <1>1, <1>2, <1>3, <1>4, <1>5, <1>6, <1>7, <1>8, <1>9, <1>10, <1>11 DEF
       Next, NotifyStep, StopStep, LoopStep, LockStep

LEMMA OneStopStep ==
  ASSUME Types, Modes, Threaded, Unstopped, Serial, Alone, OneStop, [Next]_vars
  PROVE  OneStop'
  <1> USE DEF OneStop, StopsOnce, Modes, Alone, InLoop, Goto, Procs, counters
  <1>0. /\ pc \in [Procs -> Places] /\ cur \in [Procs -> Nat]
        /\ mode \in [Loops -> {"loop", "drain", "once"}]
        /\ told \in [Loops -> {"never", "before", "inside"}]
        /\ running \in BOOLEAN
    BY DEF Types, TypeOK
  <1>1. ASSUME NEW n \in Notifiers, Notify(n) PROVE OneStop'
    BY <1>0, <1>1 DEF Notify
  <1>2. ASSUME NEW n \in Notifiers, NotifyAppend(n) PROVE OneStop'
    BY <1>0, <1>2 DEF NotifyAppend, At
  <1>3. ASSUME NEW n \in Notifiers, NotifyLink(n) PROVE OneStop'
    BY <1>0, <1>3 DEF NotifyLink, At
  <1>4. ASSUME NEW n \in Notifiers, NotifySet(n) PROVE OneStop'
    BY <1>0, <1>4 DEF NotifySet, At, Raise, Trigger!Set
  <1>5. ASSUME NEW s \in Stoppers, Stop(s) PROVE OneStop'
    <2>1. /\ stops < setup.max_stops /\ stops' = stops + 1 /\ pc[s] = "idle"
          /\ UNCHANGED <<setup, running, mode>> /\ pc'[s] = "stopClear"
          /\ \A p \in Procs : p # s => pc'[p] = pc[p]
      BY <1>0, <1>5 DEF Stop
    <2>2. stops \in Nat /\ setup.max_stops \in Nat
      BY DEF Types, TypeOK
    <2>3. StopsOnce(setup) => stops = 0 /\ stops' = 1
      BY <2>1, <2>2
    <2> QED
      BY <2>1, <2>3
  <1>6. ASSUME NEW s \in Stoppers, StopClear(s) PROVE OneStop'
    BY <1>0, <1>6 DEF StopClear, At, ClearRunning
  <1>7. ASSUME NEW s \in Stoppers, StopSet(s) PROVE OneStop'
    BY <1>0, <1>7 DEF StopSet, At, Raise, Trigger!Set
  <1>8. ASSUME NEW l \in Loops, StartThread(l) PROVE OneStop'
    BY <1>0, <1>8 DEF StartThread
  <1>9. ASSUME NEW l \in Loops, ProcessEvent(l) PROVE OneStop'
    BY <1>0, <1>9 DEF ProcessEvent
  <1>10. ASSUME NEW l \in Loops, ProcessReturn(l) PROVE OneStop'
    BY <1>0, <1>10 DEF ProcessReturn, At
  <1>11. ASSUME NEW l \in Loops, StartLoop(l) PROVE OneStop'
    BY <1>0, <1>11 DEF StartLoop
  <1>12. ASSUME NEW l \in Loops, Test(l) PROVE OneStop'
    BY <1>0, <1>12 DEF Test, At, Immediate_stop
  <1>13. ASSUME NEW l \in Loops, Pull(l) PROVE OneStop'
    BY <1>0, <1>13 DEF Pull, At, NextEvent
  <1>14. ASSUME NEW l \in Loops, Call(l) PROVE OneStop'
    BY <1>0, <1>14 DEF Call, At
  <1>15. ASSUME NEW l \in Loops, CallReturns(l) PROVE OneStop'
    BY <1>0, <1>15 DEF CallReturns
  <1>16. ASSUME NEW l \in Loops, RaiseClear(l) PROVE OneStop'
    BY <1>0, <1>16 DEF RaiseClear, At, ClearRunning
  <1>17. ASSUME NEW l \in Loops, RaiseSet(l) PROVE OneStop'
    BY <1>0, <1>17 DEF RaiseSet, At, Raise, Trigger!Set
  <1>18. ASSUME NEW l \in Loops, Advance(l) PROVE OneStop'
    BY <1>0, <1>18 DEF Advance, At
  <1>19. ASSUME NEW l \in Loops, ClearTrigger(l) PROVE OneStop'
    BY <1>0, <1>19 DEF ClearTrigger, At, Trigger!Clear
  <1>20. ASSUME NEW l \in Loops, HasNext(l) PROVE OneStop'
    BY <1>0, <1>20 DEF HasNext, At, Has_next
  <1>21. ASSUME NEW l \in Loops, Wait(l) PROVE OneStop'
    BY <1>0, <1>21 DEF Wait, At, Trigger!Enter
  <1>22. ASSUME NEW l \in Loops, WakeUp(l) PROVE OneStop'
    BY <1>0, <1>22 DEF WakeUp, Trigger!Leave
  <1>23. ASSUME NEW l \in Loops, Resume(l) PROVE OneStop'
    BY <1>0, <1>23 DEF Resume
  <1>24. ASSUME NEW l \in Loops, Exit(l) PROVE OneStop'
    BY <1>0, <1>24 DEF Exit, At
  <1>25. CASE UNCHANGED vars
    BY <1>25 DEF vars
  <1> QED
    BY <1>1, <1>2, <1>3, <1>4, <1>5, <1>6, <1>7, <1>8, <1>9, <1>10, <1>11,
       <1>12, <1>13, <1>14, <1>15, <1>16, <1>17, <1>18, <1>19, <1>20, <1>21,
       <1>22, <1>23, <1>24, <1>25 DEF Next, NotifyStep, StopStep, LoopStep,
       LockStep

LEMMA DrainedStep ==
  ASSUME Types, Modes, Threaded, Unstopped, Serial, Waited, Alone, Called, LockHeld, OwedReachable, OneStop, Drained, [Next]_vars
  PROVE  Drained'
  <1> USE DEF Drained, Alone, InLoop, Goto, Procs, history
  <1>0. /\ pc \in [Procs -> Places] /\ cur \in [Procs -> Nat]
        /\ mode \in [Loops -> {"loop", "drain", "once"}]
        /\ told \in [Loops -> {"never", "before", "inside"}]
        /\ running \in BOOLEAN
    BY DEF Types, TypeOK
  <1>1. ASSUME NEW n \in Notifiers, Notify(n) PROVE Drained'
    BY <1>0, <1>1 DEF Notify
  <1>2. ASSUME NEW n \in Notifiers, NotifyAppend(n) PROVE Drained'
    BY <1>0, <1>2 DEF NotifyAppend, At
  <1>3. ASSUME NEW n \in Notifiers, NotifyLink(n) PROVE Drained'
    BY <1>0, <1>3 DEF NotifyLink, At
  <1>4. ASSUME NEW n \in Notifiers, NotifySet(n) PROVE Drained'
    BY <1>0, <1>4 DEF NotifySet, At, Raise, Trigger!Set
  <1>5. ASSUME NEW s \in Stoppers, Stop(s) PROVE Drained'
    BY <1>0, <1>5 DEF Stop
  <1>6. ASSUME NEW s \in Stoppers, StopClear(s) PROVE Drained'
    <2>1. /\ UNCHANGED <<setup, lastEvent>> /\ pc[s] = "stopClear"
          /\ setup.under_gil => gil = s
          /\ \A m \in Loops : pc'[m] = pc[m] /\ m # s
      BY <1>0, <1>6, ProcsAssumption DEF StopClear, At
    <2>2. ASSUME NEW m \in Loops, pc[m] = "exit" PROVE setup.immediate_stop
      <3>1. ~setup.under_gil
        BY <2>1, <2>2 DEF LockHeld, Unlocked
      <3>2. ~StopsOnce(setup)
        BY <2>1, <2>2 DEF OneStop, Modes
      <3> QED
        BY <3>1, <3>2 DEF Waited, Types, TypeOK
    <2> QED
      BY <2>1, <2>2
  <1>7. ASSUME NEW s \in Stoppers, StopSet(s) PROVE Drained'
    BY <1>0, <1>7 DEF StopSet, At, Raise, Trigger!Set
  <1>8. ASSUME NEW l \in Loops, ProcessEvent(l) PROVE Drained'
    BY <1>0, <1>8 DEF ProcessEvent
  <1>9. ASSUME NEW l \in Loops, StartLoop(l) PROVE Drained'
    BY <1>0, <1>9 DEF StartLoop
  <1>10. ASSUME NEW l \in Loops, Test(l) PROVE Drained'
    BY <1>0, <1>10 DEF Test, At, Immediate_stop
  <1>11. ASSUME NEW l \in Loops, CallReturns(l) PROVE Drained'
    BY <1>0, <1>11 DEF CallReturns
  <1>12. ASSUME NEW l \in Loops, RaiseClear(l) PROVE Drained'
    BY <1>0, <1>12 DEF RaiseClear, At, ClearRunning
  <1>13. ASSUME NEW l \in Loops, RaiseSet(l) PROVE Drained'
    BY <1>0, <1>13 DEF RaiseSet, At, Raise, Trigger!Set
  <1>14. ASSUME NEW l \in Loops, Advance(l) PROVE Drained'
    BY <1>0, <1>14 DEF Advance, At
  <1>15. ASSUME NEW l \in Loops, HasNext(l) PROVE Drained'
    <2>1. /\ UNCHANGED <<setup, lastEvent, owed>>
          /\ \A m \in Loops : m # l => pc'[m] = pc[m]
          /\ pc'[l] = "exit" => ~Reachable
      BY <1>0, <1>15 DEF HasNext, At, Has_next
    <2>2. ASSUME ~Reachable, NEW k \in owed PROVE k <= lastEvent
      <3>1. k \in 1 .. Len(events) /\ lastEvent \in Nat /\ Len(events) \in Nat
        BY DEF Types, TypeOK
      <3>2. SUFFICES ASSUME lastEvent < k PROVE FALSE
        BY <3>1
      <3>3. lastEvent + 1 \in 1 .. k /\ lastEvent < Len(events)
        BY <3>1, <3>2
      <3> QED
        BY <2>2, <3>3 DEF OwedReachable, Reachable
    <2> QED
      BY <2>1, <2>2
  <1>16. ASSUME NEW l \in Loops, Exit(l) PROVE Drained'
    BY <1>0, <1>16 DEF Exit, At
  <1>17. ASSUME NEW l \in Loops,
                StartThread(l) \/ ProcessReturn(l) \/ Pull(l) \/ Call(l) \/
                ClearTrigger(l) \/ Wait(l)
         PROVE  Drained'
    BY <1>0, <1>17 DEF StartThread, ProcessReturn, At, Pull, NextEvent, Call,
       ClearTrigger, Trigger!Clear, Wait, Trigger!Enter
  <1>18. ASSUME NEW l \in Loops,
                WakeUp(l) \/ Resume(l)
         PROVE  Drained'
    BY <1>0, <1>18 DEF WakeUp, Trigger!Leave, Resume
  <1>19. CASE UNCHANGED vars
    BY <1>19 DEF vars
  <1> QED
    BY <1>1, <1>2, <1>3, <1>4, <1>5, <1>6, <1>7, <1>8, <1>9, <1>10, <1>11,
       <1>12, <1>13, <1>14, <1>15, <1>16, <1>17, <1>18, <1>19 DEF Next,
       NotifyStep, StopStep, LoopStep, LockStep

-----------------------------------------------------------------------------
(* The theorems.                                                           *)

LEMMA InitHolds == Init => IInv /\ Owed
  <1> SUFFICES ASSUME Init PROVE IInv /\ Owed
    OBVIOUS
  <1>1. Types
    <2>1. setup \in Setups /\ setup.max_stops \in Nat
      BY DEF Init
    <2>2. /\ events = <<>> /\ Len(events) = 0 /\ executed = <<>> /\ owed = {}
          /\ lastEvent = 0 /\ stops = 0 /\ starts = 0
      BY DEF Init
    <2>3. /\ events \in Seq({"appended", "linked", "notified"})
          /\ executed \in Seq(1 .. Len(events)) /\ owed \subseteq 1 .. Len(events)
      BY <2>2
    <2>4. /\ lastEvent \in 0 .. Len(events) /\ stops \in 0 .. setup.max_stops
          /\ starts \in 0 .. MaxStarts
      BY <2>1, <2>2
    <2>5. /\ running \in BOOLEAN /\ started \in BOOLEAN /\ flag \in BOOLEAN
          /\ waiting \subseteq Loops /\ answer \in [Procs -> BOOLEAN]
          /\ gil \in Procs \union {NoProc}
      BY DEF Init, Trigger!Init
    <2>6. /\ pc \in [Procs -> Places] /\ mode \in [Loops -> {"loop", "drain", "once"}]
          /\ told \in [Loops -> {"never", "before", "inside"}]
          /\ \A l \in Loops : pc[l] # "call"
      BY DEF Init, Places, Procs
    <2>7. cur \in [Procs -> 0 .. Len(events)]
      BY <2>2 DEF Init
    <2> QED
      BY <2>1, <2>3, <2>4, <2>5, <2>6, <2>7 DEF Types, TypeOK
  <1>2. Modes /\ Threaded /\ Unstopped /\ Alone
    BY DEF Init, Modes, Threaded, Unstopped, RunsOn, Alone, InLoop, Procs
  <1>3. Called /\ CalledInOrder /\ LockHeld /\ AppendsGoOn
    BY DEF Init, Called, CalledInOrder, InCall, LockHeld, Unlocked, AppendsGoOn, Procs
  <1>4. NoLostEvent /\ ToldStops /\ StopForcesWakeup
    BY DEF Init, NoLostEvent, ToldStops, StopForcesWakeup, Procs
  <1>5. Owed
    BY DEF Init, Owed, OwedReachable, OneStop, Drained, InLoop, Procs
  <1> QED
    BY <1>1, <1>2, <1>3, <1>4, <1>5 DEF IInv

LEMMA NextKeeps ==
  ASSUME Serial, IInv, [Next]_vars
  PROVE  IInv'
  <1> USE DEF IInv
  <1>1. Types' /\ Modes' /\ Threaded' /\ Unstopped' /\ Alone'
    BY TypesStep, ModesStep, ThreadedStep, UnstoppedStep, AloneStep
  <1>2. Called' /\ CalledInOrder'
    BY CalledStep, CalledInOrderStep
  <1>3. LockHeld' /\ AppendsGoOn' /\ NoLostEvent'
    BY LockHeldStep, AppendsGoOnStep, NoLostEventStep
  <1>4. ToldStops' /\ StopForcesWakeup'
    BY ToldStopsStep, StopForcesWakeupStep
  <1> QED
    BY <1>1, <1>2, <1>3, <1>4

LEMMA NextKeepsOwed ==
  ASSUME Serial, Waited, IInv, Owed, [Next]_vars
  PROVE  Owed'
  BY OwedReachableStep, OneStopStep, DrainedStep DEF IInv, Owed

(* Every variable keeps its type, whatever the program.                    *)
THEOREM TypeCorrect == Spec => []TypeOK
  <1>1. Init => Types
    BY InitHolds DEF IInv
  <1>2. Types /\ [Next]_vars => Types'
    BY TypesStep
  <1>3. Types => TypeOK
    BY DEF Types
  <1> QED
    BY <1>1, <1>2, <1>3, PTL DEF Spec

\* Of a program whose loop has one thread at a time, IInv is an invariant.
THEOREM Invariance == ASSUME Serial PROVE Spec => []IInv
  <1>1. Init => IInv
    BY InitHolds
  <1>2. IInv /\ [Next]_vars => IInv'
    BY NextKeeps
  <1> QED
    BY <1>1, <1>2, PTL DEF Spec

(* start_loop() lets one thread into the loop if no two threads start it,  *)
(* or if nobody stops it (ev_loop.cpp:42-49).                              *)
THEOREM OneAtATime == ASSUME Serial PROVE Spec => []OneLoop
  <1>1. IInv => OneLoop
    <2> SUFFICES ASSUME IInv PROVE OneLoop
      OBVIOUS
    <2> DEFINE Inside == {l \in Loops : InLoop(l)}
    <2>1. CASE Inside = {}
      BY <2>1, FS_EmptySet DEF OneLoop
    <2>2. ASSUME NEW l \in Inside PROVE OneLoop
      <3>1. {m \in Loops : InLoop(m)} = {l}
        BY <2>2 DEF IInv, Alone
      <3>2. Cardinality({l}) = 1
        BY FS_Singleton
      <3>3. Cardinality({m \in Loops : InLoop(m)}) = 1
        BY <3>1, <3>2
      <3> QED
        BY <3>3 DEF OneLoop
    <2> QED
      BY <2>1, <2>2
  <1> QED
    BY <1>1, Invariance, PTL

(* Callbacks are called in the order of their notify(), none twice and     *)
(* none left out, over any number of stops and starts (ev_loop.hpp:94-112).*)
THEOREM OrderOfCalls == ASSUME Serial PROVE Spec => []CalledInOrder
  <1>1. IInv => CalledInOrder
    BY DEF IInv
  <1> QED
    BY <1>1, Invariance, PTL

(* The loop never sleeps over a callback that nobody is about to announce  *)
(* (ev_loop.hpp:94-100).                                                   *)
THEOREM NothingIsLost == ASSUME Serial PROVE Spec => []NoLostEvent
  <1>1. IInv => NoLostEvent
    BY DEF IInv
  <1> QED
    BY <1>1, Invariance, PTL

(* Once a stop_loop() from Python has returned, the loop does not sleep on *)
(* a trigger that is down (ev_loop.cpp:62-65).                             *)
THEOREM StopIsHeard == ASSUME Serial PROVE Spec => []StopForcesWakeup
  <1>1. IInv => StopForcesWakeup
    BY DEF IInv
  <1> QED
    BY <1>1, Invariance, PTL

(* A loop without immediate_stop that returns has called every callback it *)
(* owed to the last stop_loop() (ev_loop.cpp:55-57).                       *)
THEOREM OwedIsPaid == ASSUME Serial, Waited PROVE Spec => DrainsWhatIsOwed
  <1> DEFINE Paid == \A l \in Loops : Exit(l) /\ ~setup.immediate_stop
                       => owed \subseteq {executed[i] : i \in 1 .. Len(executed)}
             All == IInv /\ Owed
  <1>1. Init => All
    BY InitHolds
  <1>2. All /\ [Next]_vars => All'
    BY NextKeeps, NextKeepsOwed
  <1>3. All => Paid
    <2> SUFFICES ASSUME All, NEW l \in Loops, Exit(l), ~setup.immediate_stop, NEW k \in owed
                 PROVE  k \in {executed[i] : i \in 1 .. Len(executed)}
      OBVIOUS
    <2>1. pc[l] = "exit"
      BY DEF Exit, At
    <2>2. k \in Nat \ {0} /\ k <= lastEvent
      BY <2>1 DEF IInv, Types, TypeOK, Owed, Drained
    <2>3. Len(executed) = lastEvent
      BY <2>1 DEF IInv, Called, InCall, Alone, InLoop
    <2>4. lastEvent \in Nat
      BY DEF IInv, Types, TypeOK
    <2>5. k \in 1 .. Len(executed) /\ executed[k] = k
      BY <2>2, <2>3, <2>4 DEF IInv, CalledInOrder
    <2> QED
      BY <2>5
  <1>4. All /\ [Next]_vars => [Paid]_vars
    BY <1>3
  <1> HIDE DEF Paid, All
  <1>5. [][Next]_vars /\ []All => [][Paid]_vars
    BY <1>4, PTL
  <1>6. Spec => []All
    BY <1>1, <1>2, PTL DEF Spec
  <1> QED
    BY <1>5, <1>6, PTL DEF Spec, DrainsWhatIsOwed, Paid

================================================================================
