-------------------------------- MODULE Event --------------------------------
(***************************************************************************)
(* wasp::threads::Event (_threads/event.hpp, _threads/event.cpp): an       *)
(* atomic flag, a mutex and a condition variable.  set() raises the flag   *)
(* with a compare-and-exchange BEFORE it takes the mutex and only the      *)
(* thread that wins the exchange notifies; wait() tests the flag under the *)
(* mutex.  Every atomic access and every mutex or condition-variable call  *)
(* is a step of its own.                                                   *)
(*                                                                         *)
(* Time is abstract: a wait with a positive timeout may time out at any    *)
(* moment, one with a negative timeout never does.                         *)
(***************************************************************************)
EXTENDS Integers

CONSTANTS Threads,       \* the threads that share the event
          NoThread,      \* the owner of a free mutex
          MaxTimeouts,   \* the values of the constructor's max_timeout (ms)
          WaitTimeouts   \* the timeouts wait() is called with (ms)

ASSUME NoThreadAssumption == NoThread \notin Threads
ASSUME TimeoutAssumption == MaxTimeouts \subseteq Int /\ WaitTimeouts \subseteq Int

VARIABLES isSet,    \* __is_set
          mutex,    \* the owner of mutex
          pc,       \* where each thread is
          asked,    \* the timeout its wait() was called with (0 outside wait)
          result,   \* what its last wait() returned
          max_timeout   \* <= 0: none

vars == <<isSet, mutex, pc, asked, result, max_timeout>>

(* setLock    won the exchange in set(), is about to lock the mutex        *)
(* setNotify  owns the mutex in set()                                      *)
(* waitLock   entered wait(), is about to lock the mutex                   *)
(* waitCheck  owns the mutex, is about to test the flag                    *)
(* park       owns the mutex, found the flag down, is about to block       *)
(* blocked    sleeps in the condition variable                             *)
(* wake       left the condition variable, is about to relock the mutex    *)
(* recheck    owns the mutex, is about to read the result and return       *)
Owning == {"setNotify", "waitCheck", "park", "recheck"}
Waiting == {"waitLock", "waitCheck", "park", "blocked", "wake", "recheck"}
Setting == {"setLock", "setNotify"}
Places == {"idle"} \union Setting \union Waiting

TypeOK == /\ isSet \in BOOLEAN
          /\ mutex \in Threads \union {NoThread}
          /\ pc \in [Threads -> Places]
          /\ asked \in [Threads -> Int]
          /\ result \in [Threads -> BOOLEAN]
          /\ max_timeout \in MaxTimeouts
          /\ \A t \in Threads : pc[t] \notin Waiting => asked[t] = 0

\* Mutant: max_timeout is forgotten.
AskedTimeout(t) == asked[t]

(* The timeout wait() uses: max_timeout, when it is positive, replaces a   *)
(* longer timeout and every timeout that is zero or negative.              *)
Timeout(t) == IF max_timeout > 0 /\ (asked[t] <= 0 \/ max_timeout < asked[t])
                THEN max_timeout
                ELSE asked[t]

Init == /\ isSet = FALSE
        /\ mutex = NoThread
        /\ pc = [t \in Threads |-> "idle"]
        /\ asked = [t \in Threads |-> 0]
        /\ result = [t \in Threads |-> FALSE]
        /\ max_timeout \in MaxTimeouts

Goto(t, place) == pc' = [pc EXCEPT ![t] = place]

\* Mutant: a lock() that does not wait.
AlwaysFree == TRUE
Free == mutex = NoThread

Lock(t, from, to) == /\ pc[t] = from
                     /\ Free
                     /\ mutex' = t
                     /\ Goto(t, to)
                     /\ UNCHANGED <<max_timeout, isSet, asked, result>>

\* Mutant: a wait() that takes every wakeup for a set().
TakenForSet == TRUE
Is_set == isSet

\* The end of wait(): the answer is read and the mutex unlocked.
\* Mutant: the timeout of the call survives it.
ReturnKeepingTimeout(t) == /\ result' = [result EXCEPT ![t] = Is_set]
                           /\ mutex' = NoThread
                           /\ Goto(t, "idle")
                           /\ UNCHANGED asked
Return(t) == /\ result' = [result EXCEPT ![t] = Is_set]
             /\ mutex' = NoThread
             /\ asked' = [asked EXCEPT ![t] = 0]
             /\ Goto(t, "idle")

-----------------------------------------------------------------------------
Clear(t) == /\ pc[t] = "idle"
            /\ isSet' = FALSE
            /\ UNCHANGED <<max_timeout, mutex, pc, asked, result>>

\* set(): the exchange succeeds only on a flag that is down; a thread that
\* finds it up returns at once.
SetExchange(t) == /\ pc[t] = "idle"
                  /\ isSet' = TRUE
                  /\ IF isSet THEN UNCHANGED pc ELSE Goto(t, "setLock")
                  /\ UNCHANGED <<max_timeout, mutex, asked, result>>

SetLock(t) == Lock(t, "setLock", "setNotify")

\* Mutant: notify_one().
NotifyOne(t) == /\ pc[t] = "setNotify"
                /\ \E u \in Threads :
                     /\ pc[u] = "blocked" \/ \A v \in Threads : pc[v] # "blocked"
                     /\ pc' = [pc EXCEPT ![u] = IF @ = "blocked" THEN "wake" ELSE @,
                                         ![t] = "idle"]
                /\ mutex' = NoThread
                /\ UNCHANGED <<max_timeout, isSet, asked, result>>

\* notify_all() moves every sleeper; leaving the block unlocks the mutex.
SetNotify(t) == /\ pc[t] = "setNotify"
                /\ pc' = [u \in Threads |-> CASE u = t -> "idle"
                                              [] pc[u] = "blocked" -> "wake"
                                              [] OTHER -> pc[u]]
                /\ mutex' = NoThread
                /\ UNCHANGED <<max_timeout, isSet, asked, result>>

WaitCall(t) == /\ pc[t] = "idle"
               /\ \E timeout \in WaitTimeouts : asked' = [asked EXCEPT ![t] = timeout]
               /\ Goto(t, "waitLock")
               /\ UNCHANGED <<max_timeout, isSet, mutex, result>>

WaitLock(t) == Lock(t, "waitLock", "waitCheck")

\* The first test of the flag: return, read it again (timeout 0), or block.
WaitCheck(t) == /\ pc[t] = "waitCheck"
                /\ \/ Is_set /\ Return(t)
                   \/ /\ ~Is_set
                      /\ Goto(t, IF Timeout(t) = 0 THEN "recheck" ELSE "park")
                      /\ UNCHANGED <<mutex, asked, result>>
                /\ UNCHANGED <<max_timeout, isSet>>

\* The condition variable unlocks the mutex and blocks in one step.
Park(t) == /\ pc[t] = "park"
           /\ mutex' = NoThread
           /\ Goto(t, "blocked")
           /\ UNCHANGED <<max_timeout, isSet, asked, result>>

TimedOut(t) == /\ pc[t] = "blocked"
               /\ Timeout(t) > 0
               /\ Goto(t, "wake")
               /\ UNCHANGED <<max_timeout, isSet, mutex, asked, result>>

\* C++ lets a condition variable wake its waiters without a notification.
SpuriousWakeup(t) == /\ pc[t] = "blocked"
                     /\ Goto(t, "wake")
                     /\ UNCHANGED <<max_timeout, isSet, mutex, asked, result>>

Relock(t) == Lock(t, "wake", "recheck")

WaitReturn(t) == pc[t] = "recheck" /\ Return(t) /\ UNCHANGED <<max_timeout, isSet>>

Next == \E t \in Threads :
          \/ Clear(t) \/ SetExchange(t) \/ SetLock(t) \/ SetNotify(t)
          \/ WaitCall(t) \/ WaitLock(t) \/ WaitCheck(t) \/ Park(t)
          \/ TimedOut(t) \/ SpuriousWakeup(t) \/ Relock(t) \/ WaitReturn(t)

(* A running thread keeps running, a timer fires, and a mutex that is      *)
(* freed again and again is in the end granted to each thread that asks.   *)
(* Nobody has to call anything, and no wakeup is spurious by duty.         *)
Fairness == \A t \in Threads :
              /\ WF_vars(SetNotify(t) \/ WaitCheck(t) \/ Park(t)
                           \/ TimedOut(t) \/ WaitReturn(t))
              /\ SF_vars(SetLock(t) \/ WaitLock(t) \/ Relock(t))

Spec == Init /\ [][Next]_vars /\ Fairness
-----------------------------------------------------------------------------
(* The mutex works as a mutex: its owner, and nobody else, is inside a     *)
(* critical section of set() or wait() (event.cpp:41, 58).                 *)
MutexInv == \A t \in Threads : pc[t] \in Owning <=> mutex = t

(* No wakeup is lost: as long as the flag is up and a thread sleeps, or    *)
(* has decided to sleep, some set() has still to notify.  set() raises the *)
(* flag outside the mutex (event.cpp:40) and a second set() returns        *)
(* without notifying, so this rests on the order of three steps of three   *)
(* threads.                                                                *)
NoLostWakeup == isSet /\ (\E w \in Threads : pc[w] \in {"park", "blocked"})
                  => \E s \in Threads : pc[s] \in Setting

(* A set() wakes everyone: whoever sleeps while the flag is up leaves the  *)
(* condition variable, even if the flag is cleared before the notification.*)
SleeperWakes == \A t \in Threads : (pc[t] = "blocked" /\ isSet) ~> (pc[t] # "blocked")

(* wait() returns whenever the call or the event has a deadline, even if   *)
(* nobody ever calls set() and whatever timeout is asked for               *)
(* (event.cpp:60-65, 74-76).                                               *)
TimedWaitReturns == \A t \in Threads :
  (pc[t] \in Waiting /\ (max_timeout > 0 \/ asked[t] >= 0)) ~> (pc[t] = "idle")

(* The calls of Event as calls of its promise.                             *)
Promise == INSTANCE EventSpec
             WITH flag <- isSet,
                  waiting <- {t \in Threads : pc[t] \in Waiting},
                  answer <- result

(* Every step of set(), clear() and wait() is one atomic step of the       *)
(* promise or none at all (event.cpp:33-79).                               *)
CallsAreAtomic == Promise!SafeSpec

(* No waiter stays inside wait() while the flag stays up.                  *)
WaitersLeave == Promise!WakeUp
=============================================================================
