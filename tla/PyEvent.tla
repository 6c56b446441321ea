-------------------------------- MODULE PyEvent --------------------------------
(***************************************************************************)
(* WPThreadEvent.wait() (_threads/event_wrapper.cpp:107-163) and           *)
(* awareness_wait() (_threads/module_functions.h:21-87), the two Python    *)
(* calls that wait for an Event.  wait() is a loop around Event::wait()    *)
(* that lets signals in and subtracts the time that has passed;            *)
(* awareness_wait() clears the event, asks sync_fn() whether what the      *)
(* caller waits for is already there, and then sets the event again or     *)
(* waits for it.                                                           *)
(*                                                                         *)
(* The Event is its promise, EventSpec.  Time is counted in units; a       *)
(* Python timeout of None is NoTimeout, and one that is rounded down to 0  *)
(* milliseconds is 0.  The code between two calls that release the         *)
(* interpreter lock is one step or is split further: the lock is not       *)
(* needed for what is shown here.                                          *)
(***************************************************************************)
EXTENDS Integers

CONSTANTS Waiters, Setters,
          Calls,         \* "wait" and "awareness_wait": what waiters call
          Timeouts,      \* the timeouts they pass
          Polls,         \* is the event's max_timeout positive?
          MayInterrupt,  \* can a signal handler raise an exception?
          MayRaise,      \* can sync_fn() raise one?
          MayClear,      \* do other threads call clear()?
          MaxClock       \* bound: the time a call can notice

NoTimeout == -1
Procs == Waiters \union Setters

ASSUME ProcsAssumption == Waiters \intersect Setters = {}
ASSUME CallsAssumption == Calls \subseteq {"wait", "awareness_wait"}
ASSUME TimeoutsAssumption == /\ MaxClock \in Nat
                             /\ Timeouts \subseteq 0 .. MaxClock \union {NoTimeout}
ASSUME ModeAssumption == {Polls, MayInterrupt, MayRaise, MayClear} \subseteq BOOLEAN

VARIABLES
  flag, waiting, answer,   \* the event, see EventSpec
  ready,        \* what sync_fn() looks at
  pc,
  timeout,      \* c_timeout
  elapsed,      \* steady_clock::now() - clock
  waitResult,   \* wait_result; "unset" until it is written
  returned,     \* what the call has returned
  disturbed     \* history: has a sync_fn() raised, or clear() been called?

event == <<flag, waiting, answer>>
vars == <<event, ready, pc, timeout, elapsed, waitResult, returned, disturbed>>

Trigger == INSTANCE EventSpec WITH Threads <- Procs

Inside == {"loop", "enter", "blocked", "signals", "done"}

TypeOK == /\ {flag, ready} \subseteq BOOLEAN
          /\ waiting = {w \in Waiters : pc[w] = "blocked"}
          /\ answer \in [Procs -> BOOLEAN]
          /\ pc \in [Procs -> Inside \union {"idle", "sync", "setBack", "set"}]
          /\ timeout \in [Waiters -> Timeouts \union {NoTimeout}]
          /\ elapsed \in [Waiters -> 0 .. MaxClock]
          /\ waitResult \in [Waiters -> {"unset", "true", "false"}]
          /\ returned \in [Waiters -> {"none", "true", "false", "error"}]
          /\ disturbed \in BOOLEAN

Init == /\ Trigger!Init
        /\ ready = FALSE
        /\ pc = [p \in Procs |-> "idle"]
        /\ timeout = [w \in Waiters |-> NoTimeout]
        /\ elapsed = [w \in Waiters |-> 0]
        /\ waitResult = [w \in Waiters |-> "unset"]
        /\ returned = [w \in Waiters |-> "none"]
        /\ disturbed = FALSE

-----------------------------------------------------------------------------
Goto(p, place) == pc' = [pc EXCEPT ![p] = place]

Enter(w, name, place) == /\ pc[w] = "idle"
                         /\ name \in Calls
                         /\ \E t \in Timeouts : timeout' = [timeout EXCEPT ![w] = t]
                         /\ elapsed' = [elapsed EXCEPT ![w] = 0]
                         /\ waitResult' = [waitResult EXCEPT ![w] = "unset"]
                         /\ returned' = [returned EXCEPT ![w] = "none"]
                         /\ Goto(w, place)
                         /\ UNCHANGED <<ready, disturbed>>

Return(w, value) == /\ returned' = [returned EXCEPT ![w] = value]
                    /\ Goto(w, "idle")

-----------------------------------------------------------------------------
(* awareness_wait().                                                       *)
Aware(w) == /\ Enter(w, "awareness_wait", "sync")
            /\ Trigger!Clear(w)

Sync_fn == ready

\* sync_fn() says yes or no, or raises.
Sync(w) == /\ pc[w] = "sync"
           /\ \/ /\ Goto(w, IF Sync_fn THEN "setBack" ELSE "loop")
                 /\ UNCHANGED <<returned, disturbed>>
              \/ MayRaise /\ Return(w, "error") /\ disturbed' = TRUE
           /\ elapsed' = [elapsed EXCEPT ![w] = 0]
           /\ UNCHANGED <<event, ready, timeout, waitResult>>

\* Mutant: nothing is set again.
LeaveCleared(w) == UNCHANGED event
SetAgain(w) == Trigger!Set(w)

SetBack(w) == /\ pc[w] = "setBack"
              /\ SetAgain(w)
              /\ Return(w, "true")
              /\ UNCHANGED <<ready, timeout, elapsed, waitResult, disturbed>>

-----------------------------------------------------------------------------
(* wait().                                                                 *)
\* Mutant: the waiter blocks before the event knows of it.
WaitUnseen(w) == Enter(w, "wait", "blocked") /\ UNCHANGED event
Wait(w) == Enter(w, "wait", "loop") /\ UNCHANGED event

\* Mutant: the time that has passed is forgotten at each turn of the loop.
NeverOver(w) == FALSE
Over(w) == timeout[w] > 0 /\ elapsed[w] >= timeout[w]

\* The time left, if there is a timeout; break when there is none left.
Loop(w) == /\ pc[w] = "loop"
           /\ Goto(w, IF Over(w) THEN "done" ELSE "enter")
           /\ UNCHANGED <<event, ready, timeout, elapsed, waitResult, returned,
                          disturbed>>

EnterEvent(w) == /\ pc[w] = "enter"
                 /\ Trigger!Enter(w)
                 /\ Goto(w, "blocked")
                 /\ UNCHANGED <<ready, timeout, elapsed, waitResult, returned, disturbed>>

LeaveEvent(w) == /\ pc[w] = "blocked"
                 /\ Trigger!Leave(w)
                 /\ waitResult' = [waitResult EXCEPT ![w] = IF flag THEN "true" ELSE "false"]
                 /\ Goto(w, "signals")
                 /\ UNCHANGED <<ready, timeout, elapsed, returned, disturbed>>

\* Mutant: one call of Event::wait() is enough.
NotAgain(w) == FALSE
Again(w) == waitResult[w] = "false"

\* PyErr_CheckSignals() and the end of the loop.
Signals(w) == /\ pc[w] = "signals"
              /\ \/ Goto(w, IF Again(w) THEN "loop" ELSE "done") /\ UNCHANGED returned
                 \/ MayInterrupt /\ Return(w, "error")
              /\ UNCHANGED <<event, ready, timeout, elapsed, waitResult, disturbed>>

\* A wait_result that was never written has any value.
Done(w) == /\ pc[w] = "done"
           /\ IF waitResult[w] = "unset" THEN Return(w, "true") \/ Return(w, "false")
                                         ELSE Return(w, waitResult[w])
           /\ UNCHANGED <<event, ready, timeout, elapsed, waitResult, disturbed>>

Tick(w) == /\ pc[w] \in Inside
           /\ timeout[w] > 0
           /\ elapsed[w] < MaxClock
           /\ elapsed' = [elapsed EXCEPT ![w] = @ + 1]
           /\ UNCHANGED <<event, ready, pc, timeout, waitResult, returned, disturbed>>

-----------------------------------------------------------------------------
(* The other threads: what the waiters wait for comes, then the event is   *)
(* set; it goes away again; somebody clears the event.                     *)
Come(s) == /\ pc[s] = "idle"
           /\ ready' = TRUE
           /\ Goto(s, "set")
           /\ UNCHANGED <<event, timeout, elapsed, waitResult, returned, disturbed>>

Set(s) == /\ pc[s] = "set"
          /\ Trigger!Set(s)
          /\ Goto(s, "idle")
          /\ UNCHANGED <<ready, timeout, elapsed, waitResult, returned, disturbed>>

GoAway(s) == /\ pc[s] = "idle"
             /\ ready
             /\ ready' = FALSE
             /\ UNCHANGED <<event, pc, timeout, elapsed, waitResult, returned, disturbed>>

Clear(s) == /\ MayClear
            /\ pc[s] = "idle"
            /\ Trigger!Clear(s)
            /\ disturbed' = TRUE
            /\ UNCHANGED <<ready, pc, timeout, elapsed, waitResult, returned>>

CallStep(w) == Sync(w) \/ SetBack(w) \/ Loop(w) \/ EnterEvent(w) \/ Signals(w) \/ Done(w)

Next == \/ \E w \in Waiters : \/ Aware(w) \/ Wait(w) \/ CallStep(w)
                              \/ LeaveEvent(w) \/ Tick(w)
        \/ \E s \in Setters : Come(s) \/ Set(s) \/ GoAway(s) \/ Clear(s)

(* A call goes on, time passes, and Event::wait() returns when it has a    *)
(* deadline or the flag stays up (TimedWaitReturns, WaitersLeave).         *)
Deadline(w) == Polls \/ timeout[w] >= 0
Fairness == \A w \in Waiters : /\ WF_vars(CallStep(w))
                               /\ WF_vars(Tick(w))
                               /\ WF_vars((flag \/ Deadline(w)) /\ LeaveEvent(w))

Spec == Init /\ [][Next]_vars /\ Fairness
-----------------------------------------------------------------------------
(* wait() does not give up early: it answers no only after its timeout,    *)
(* although Event::wait() comes back with no every time the poll timeout   *)
(* expires, on a spurious wakeup and when the flag is cleared before the   *)
(* waiter runs; without a timeout it never answers no                      *)
(* (event_wrapper.cpp:133-151).                                            *)
NeverEarly == [][\A w \in Waiters : Done(w) /\ returned'[w] = "false"
                   => timeout[w] > 0 /\ elapsed[w] >= timeout[w]]_vars

(* wait() with a timeout returns, although it may enter Event::wait() many *)
(* times (event_wrapper.cpp:136-142).                                      *)
TimedCallEnds == \A w \in Waiters :
  (pc[w] \in Inside /\ timeout[w] > 0) ~> (pc[w] = "idle")

(* Every wait() with a timeout ends, one of 0 too: WPThreadEvent is a      *)
(* "class that behave the same way as threading.Event does"                *)
(* (threads_module.c:59), and "if t == 0: just check and do not wait"      *)
(* (event.cpp:52).                                                         *)
EveryTimedCallEnds == \A w \in Waiters :
  (pc[w] \in Inside /\ timeout[w] # NoTimeout) ~> (pc[w] = "idle")

(* awareness_wait() never sleeps over what has come: while it waits and    *)
(* the flag is down, a thread that has to set the event, or to ask         *)
(* sync_fn() again, is on its way.  The event is cleared before sync_fn()  *)
(* "to prevent a race condition" (module_functions.h:47-48), and with two  *)
(* waiters one of them clears the flag the other one waits for.            *)
AwareOfReady ==
  ready /\ ~flag /\ (\E w \in Waiters : pc[w] \in Inside /\ waitResult[w] # "true")
    => \E p \in Procs : pc[p] \in {"set", "sync", "setBack"}

(* The same, while no sync_fn() has raised and nobody called clear().      *)
AwareUndisturbed == disturbed \/ AwareOfReady

=============================================================================
