-------------------------------- MODULE EvLoop --------------------------------
(***************************************************************************)
(* wasp::ev_loop (_ev_loop/ev_loop.hpp, ev_loop.cpp, ev_loop_wrapper.cpp): *)
(* an event loop that is the only subscriber of a CMCQueue of callbacks    *)
(* and sleeps on an Event, its trigger.  notify() pushes a callback and    *)
(* raises the trigger; the loop lowers the trigger when it finds nothing,  *)
(* looks once more and sleeps; stop_loop() clears is_running and raises    *)
(* the trigger.                                                            *)
(*                                                                         *)
(* The trigger is the promise of EventSpec, which Event implements; a      *)
(* waiter may leave it at any time, as the poll timeout makes it do.  The  *)
(* queue is the list of LinkedFifo with its one reader.  As in CMCQueue,   *)
(* a setup chooses between PyEventLoop, whose calls keep the interpreter   *)
(* lock except during a callback and during a wait, and C++ threads.       *)
(* A loop thread calls start_loop() or, once, process_event().             *)
(* A callback's own calls of notify() and stop_loop() are those of another *)
(* thread that runs while the loop is in the callback.                     *)
(***************************************************************************)
EXTENDS Integers, Sequences, FiniteSets

CONSTANTS Notifiers, Stoppers,   \* threads that call notify(), stop_loop()
          Loops,                 \* threads whose target is start_loop()
          NoProc,                \* the owner of a free interpreter lock
          Setups,                \* the programs that may use the loop, see SetupAssumption
          MaxStarts              \* bound: calls of start_loop()

Procs == Notifiers \union Stoppers \union Loops

ASSUME ProcsAssumption == /\ Notifiers \intersect Stoppers = {}
                          /\ (Notifiers \union Stoppers) \intersect Loops = {}
                          /\ NoProc \notin Procs
ASSUME BoundsAssumption == MaxStarts \in Nat

(* A program calls from Python or from C++ threads, chooses the            *)
(* constructor's immediate_stop, runs the loop in some threads and has     *)
(* callbacks that raise exceptions or not; max_stops bounds the calls of   *)
(* stop_loop() and max_events those of notify().                           *)
ASSUME SetupAssumption ==
  Setups \subseteq [under_gil : BOOLEAN, immediate_stop : BOOLEAN, may_raise : BOOLEAN,
                    loops : SUBSET Loops, max_stops : Nat, max_events : Nat]

VARIABLES
  events,      \* the callbacks in the order of their appends: how far each is
  lastEvent,   \* last_event: the position in events, 0 is the subscription
  setup,       \* the program's choice, fixed at the start
  running,     \* is_running
  started,     \* __is_started
  flag, waiting, answer,   \* the trigger, see EventSpec
  gil, pc,
  cur,         \* each loop's next_event, each notifier's callback
  mode,        \* each loop's first while, second while, or process_event()
  executed,    \* history: the callbacks that were called, in that order
  stops, starts,
  told,        \* history: where each loop was when stop_loop() was called
  owed         \* history: the callbacks it was owed by then

trigger == <<flag, waiting, answer>>
counters == <<stops, starts>>
history == <<executed, told, owed>>
vars == <<setup, events, lastEvent, running, started, trigger, gil, pc, cur, mode,
          executed, stops, starts, told, owed>>

Trigger == INSTANCE EventSpec WITH Threads <- Procs

Places == {"idle", "append", "link", "set", "stopClear", "stopSet",
           "born", "test", "pull", "call", "callback", "raiseClear", "raiseSet",
           "advance", "clear", "hasNext", "wait", "sleep", "woken", "exit",
           "processed"}

TypeOK == /\ events \in Seq({"appended", "linked", "notified"})
          /\ lastEvent \in 0 .. Len(events)
          /\ setup \in Setups
          /\ running \in BOOLEAN /\ started \in BOOLEAN /\ flag \in BOOLEAN
          /\ waiting \subseteq Loops
          /\ answer \in [Procs -> BOOLEAN]
          /\ gil \in Procs \union {NoProc}
          /\ pc \in [Procs -> Places]
          /\ cur \in [Procs -> 0 .. Len(events)]
          /\ mode \in [Loops -> {"loop", "drain", "once"}]
          /\ executed \in Seq(1 .. Len(events))
          /\ stops \in 0 .. setup.max_stops /\ starts \in 0 .. MaxStarts
          /\ told \in [Loops -> {"never", "before", "inside"}]
          /\ owed \subseteq 1 .. Len(events)

Init == /\ events = <<>> /\ lastEvent = 0
        /\ setup \in Setups
        /\ running = FALSE /\ started = FALSE
        /\ Trigger!Init
        /\ gil = NoProc
        /\ pc = [p \in Procs |-> "idle"]
        /\ cur = [p \in Procs |-> 0]
        /\ mode = [l \in Loops |-> "loop"]
        /\ executed = <<>>
        /\ stops = 0 /\ starts = 0
        /\ told = [l \in Loops |-> "never"]
        /\ owed = {}

-----------------------------------------------------------------------------
At(p, place) == pc[p] = place /\ (setup.under_gil => gil = p)
Goto(p, place) == pc' = [pc EXCEPT ![p] = place]

\* Wait for the interpreter lock, or give it back.
Acquire(p) == gil = NoProc /\ gil' = IF setup.under_gil THEN p ELSE NoProc
Release == gil' = NoProc

\* Mutant: nobody is told.
KeepsQuiet(p) == UNCHANGED trigger
Raise(p) == Trigger!Set(p)

InLoop(l) == pc[l] \notin {"idle", "born"}

\* What next() finds behind last_event.
Reachable == lastEvent < Len(events) /\ events[lastEvent + 1] # "appended"

\* Mutants: the newest callback first; one callback is skipped.
NewestEvent == Len(events)
SecondEvent == lastEvent + 2
NextEvent == lastEvent + 1

\* Mutant: the loop does not look again.
NoSecondLook == FALSE
Has_next == Reachable

\* Mutant: a loop that always stops at once.
AlwaysImmediate == TRUE
Immediate_stop == setup.immediate_stop

-----------------------------------------------------------------------------
(* notify(): push() appends the callback and links it, then the trigger is *)
(* raised.                                                                 *)
Notify(n) == /\ pc[n] = "idle"
             /\ Len(events) + Cardinality({m \in Notifiers : pc[m] = "append"}) < setup.max_events
             /\ Acquire(n)
             /\ Goto(n, "append")
             /\ UNCHANGED <<setup, events, lastEvent, running, started, trigger, cur,
                            mode, counters, history>>

NotifyAppend(n) == /\ At(n, "append")
                   /\ events' = Append(events, "appended")
                   /\ cur' = [cur EXCEPT ![n] = Len(events) + 1]
                   /\ Goto(n, "link")
                   /\ UNCHANGED <<setup, lastEvent, running, started, trigger, gil, mode,
                                  counters, history>>

NotifyLink(n) == /\ At(n, "link")
                 /\ events' = [events EXCEPT ![cur[n]] = "linked"]
                 /\ Goto(n, "set")
                 /\ UNCHANGED <<setup, lastEvent, running, started, trigger, gil, cur,
                                mode, counters, history>>

NotifySet(n) == /\ At(n, "set")
                /\ Raise(n)
                /\ events' = [events EXCEPT ![cur[n]] = "notified"]
                /\ cur' = [cur EXCEPT ![n] = 0]
                /\ Release
                /\ Goto(n, "idle")
                /\ UNCHANGED <<setup, lastEvent, running, started, mode, counters,
                               history>>

-----------------------------------------------------------------------------
(* stop_loop(), from another thread or after an exception in a callback.   *)
ClearRunning ==
  /\ running' = FALSE
  /\ told' = [l \in Loops |-> IF told[l] # "never" \/ pc[l] = "idle" THEN told[l]
                              ELSE IF pc[l] = "born" THEN "before" ELSE "inside"]
  /\ owed' = {k \in 1 .. Len(events) : /\ events[k] = "notified"
                                        /\ \A j \in 1 .. k : events[j] # "appended"}

Stop(s) == /\ pc[s] = "idle"
           /\ stops < setup.max_stops
           /\ stops' = stops + 1
           /\ Acquire(s)
           /\ Goto(s, "stopClear")
           /\ UNCHANGED <<setup, events, lastEvent, running, started, trigger, cur, mode,
                          starts, history>>

StopClear(s) == /\ At(s, "stopClear")
                /\ ClearRunning
                /\ Goto(s, "stopSet")
                /\ UNCHANGED <<setup, events, lastEvent, started, trigger, gil, cur, mode,
                               counters, executed>>

StopSet(s) == /\ At(s, "stopSet")
              /\ Raise(s)
              /\ Release
              /\ Goto(s, "idle")
              /\ UNCHANGED <<setup, events, lastEvent, running, started, cur, mode,
                             counters, history>>

-----------------------------------------------------------------------------
\* A thread is created; it has not made its call yet.
StartThread(l) == /\ l \in setup.loops
                  /\ pc[l] = "idle"
                  /\ gil = NoProc
                  /\ starts < MaxStarts
                  /\ starts' = starts + 1
                  /\ Goto(l, "born")
                  /\ UNCHANGED <<setup, events, lastEvent, running, started, trigger, gil,
                                 cur, mode, stops, history>>

\* A call of process_event().  The program does not process events from two
\* threads at a time.
ProcessEvent(l) == /\ pc[l] = "born"
                   /\ \A m \in Loops : ~InLoop(m)
                   /\ Acquire(l)
                   /\ mode' = [mode EXCEPT ![l] = "once"]
                   /\ Goto(l, "pull")
                   /\ UNCHANGED <<setup, events, lastEvent, running, started, trigger,
                                  cur, counters, history>>

ProcessReturn(l) == /\ At(l, "processed")
                    /\ mode' = [mode EXCEPT ![l] = "loop"]
                    /\ told' = [told EXCEPT ![l] = "never"]
                    /\ Release
                    /\ Goto(l, "idle")
                    /\ UNCHANGED <<setup, events, lastEvent, running, started, trigger,
                                   cur, counters, executed, owed>>

\* start_loop() returns at once if the loop is running.
StartLoop(l) == /\ pc[l] = "born"
                /\ \A m \in Loops : mode[m] # "once"
                /\ running' = TRUE
                /\ \/ /\ running
                      /\ started' = FALSE
                      /\ gil = NoProc
                      /\ told' = [told EXCEPT ![l] = "never"]
                      /\ Goto(l, "idle")
                      /\ UNCHANGED gil
                   \/ /\ ~running
                      /\ started' = TRUE
                      /\ Acquire(l)
                      /\ Goto(l, "test")
                      /\ UNCHANGED told
                /\ UNCHANGED <<setup, events, lastEvent, trigger, cur, mode, counters,
                               executed, owed>>

\* The head of the loop sets is_running and looks whether it was set.
Test(l) == /\ At(l, "test")
           /\ running' = TRUE
           /\ \/ running /\ Goto(l, "pull") /\ UNCHANGED mode
              \/ ~running /\ Immediate_stop /\ Goto(l, "exit") /\ UNCHANGED mode
              \/ /\ ~running /\ ~Immediate_stop
                 /\ mode' = [mode EXCEPT ![l] = "drain"]
                 /\ Goto(l, "pull")
           /\ UNCHANGED <<setup, events, lastEvent, started, trigger, gil, cur, counters,
                          history>>

\* process_event().  pull() also frees the callback before; what its
\* destructor lets happen can happen at the start of the call as well.
Pull(l) == /\ At(l, "pull")
           /\ \/ /\ Reachable
                 /\ cur' = [cur EXCEPT ![l] = NextEvent]
                 /\ Goto(l, "call")
              \/ ~Reachable /\ Goto(l, "clear") /\ UNCHANGED cur
           /\ UNCHANGED <<setup, events, lastEvent, running, started, trigger, gil, mode,
                          counters, history>>

Call(l) == /\ At(l, "call")
           /\ executed' = Append(executed, cur[l])
           /\ Release
           /\ Goto(l, "callback")
           /\ UNCHANGED <<setup, events, lastEvent, running, started, trigger, cur, mode,
                          counters, told, owed>>

CallReturns(l) == /\ pc[l] = "callback"
                  /\ Acquire(l)
                  /\ \/ Goto(l, "advance")
                     \/ setup.may_raise /\ Goto(l, "raiseClear")
                  /\ UNCHANGED <<setup, events, lastEvent, running, started, trigger, cur,
                                 mode, counters, history>>

RaiseClear(l) == /\ At(l, "raiseClear")
                 /\ ClearRunning
                 /\ Goto(l, "raiseSet")
                 /\ UNCHANGED <<setup, events, lastEvent, started, trigger, gil, cur,
                                mode, counters, executed>>

RaiseSet(l) == /\ At(l, "raiseSet")
               /\ Raise(l)
               /\ Goto(l, "advance")
               /\ UNCHANGED <<setup, events, lastEvent, running, started, gil, cur, mode,
                              counters, history>>

\* last_event is updated after the call only.
Advance(l) == /\ At(l, "advance")
              /\ lastEvent' = cur[l]
              /\ cur' = [cur EXCEPT ![l] = 0]
              /\ Goto(l, CASE mode[l] = "loop" -> "test"
                           [] mode[l] = "drain" -> "pull"
                           [] mode[l] = "once" -> "processed")
              /\ UNCHANGED <<setup, events, running, started, trigger, gil, mode,
                             counters, history>>

ClearTrigger(l) == /\ At(l, "clear")
                   /\ Trigger!Clear(l)
                   /\ Goto(l, "hasNext")
                   /\ UNCHANGED <<setup, events, lastEvent, running, started, gil, cur,
                                  mode, counters, history>>

HasNext(l) == /\ At(l, "hasNext")
              /\ Goto(l, CASE Has_next -> "pull"
                           [] ~Has_next /\ mode[l] = "loop" -> "wait"
                           [] ~Has_next /\ mode[l] = "drain" -> "exit"
                           [] ~Has_next /\ mode[l] = "once" -> "processed")
              /\ UNCHANGED <<setup, events, lastEvent, running, started, trigger, gil,
                             cur, mode, counters, history>>

Wait(l) == /\ At(l, "wait")
           /\ Trigger!Enter(l)
           /\ Release
           /\ Goto(l, "sleep")
           /\ UNCHANGED <<setup, events, lastEvent, running, started, cur, mode, counters,
                          history>>

WakeUp(l) == /\ pc[l] = "sleep"
             /\ Trigger!Leave(l)
             /\ Goto(l, "woken")
             /\ UNCHANGED <<setup, events, lastEvent, running, started, gil, cur, mode,
                            counters, history>>

Resume(l) == /\ pc[l] = "woken"
             /\ Acquire(l)
             /\ Goto(l, "test")
             /\ UNCHANGED <<setup, events, lastEvent, running, started, trigger, cur,
                            mode, counters, history>>

Exit(l) == /\ At(l, "exit")
           /\ running' = FALSE
           /\ started' = FALSE
           /\ mode' = [mode EXCEPT ![l] = "loop"]
           /\ told' = [told EXCEPT ![l] = "never"]
           /\ Release
           /\ Goto(l, "idle")
           /\ UNCHANGED <<setup, events, lastEvent, trigger, cur, counters, executed,
                          owed>>

-----------------------------------------------------------------------------
NotifyStep(n) == NotifyAppend(n) \/ NotifyLink(n) \/ NotifySet(n)
StopStep(s) == StopClear(s) \/ StopSet(s)
LoopStep(l) == \/ Test(l) \/ Pull(l) \/ Call(l) \/ RaiseClear(l) \/ RaiseSet(l)
               \/ Advance(l) \/ ClearTrigger(l) \/ HasNext(l) \/ Wait(l) \/ Exit(l)
               \/ ProcessReturn(l)
LockStep(l) == StartLoop(l) \/ CallReturns(l) \/ Resume(l)

Next == \/ \E n \in Notifiers : Notify(n) \/ NotifyStep(n)
        \/ \E s \in Stoppers : Stop(s) \/ StopStep(s)
        \/ \E l \in Loops : \/ StartThread(l) \/ ProcessEvent(l)
                          \/ LockStep(l) \/ LoopStep(l) \/ WakeUp(l)

(* A thread inside a call goes on, callbacks return, and a thread that     *)
(* wants the interpreter lock gets it.  A sleeper is only sure to wake up  *)
(* while the trigger is raised: nothing relies on the poll timeout.        *)
Fairness == /\ \A n \in Notifiers : WF_vars(NotifyStep(n))
            /\ \A s \in Stoppers : WF_vars(StopStep(s))
            /\ \A l \in Loops : /\ WF_vars(LoopStep(l))
                                /\ SF_vars(LockStep(l))
                                /\ WF_vars(flag /\ WakeUp(l))

Spec == Init /\ [][Next]_vars /\ Fairness
-----------------------------------------------------------------------------
(* The loop does not sleep over an event: if callbacks are in the queue    *)
(* and the trigger is down, a notify() has still to raise it.  The trigger *)
(* is lowered after a pull() that found nothing and before the second look *)
(* (ev_loop.hpp:94-100), and a callback may be in the queue but behind one *)
(* whose append is not finished.                                           *)
NoLostEvent ==
  \A l \in Loops : pc[l] \in {"wait", "sleep"} /\ ~flag /\ lastEvent < Len(events)
                     => \E n \in Notifiers : pc[n] \in {"link", "set"}

(* Callbacks are called in the order of their notify(), none twice and     *)
(* none left out, over any number of stops and starts of the loop          *)
(* (ev_loop.hpp:94-112).                                                   *)
CalledInOrder == \A i \in 1 .. Len(executed) : executed[i] = i

(* A loop without immediate_stop calls, before start_loop() returns, every *)
(* callback whose notify() had returned when stop_loop() was called        *)
(* (ev_loop.cpp:55-57; ev_loop_test.py:58-65), unless it is behind one     *)
(* whose append a C++ thread has not finished.                             *)
DrainsWhatIsOwed ==
  [][\A l \in Loops : Exit(l) /\ ~setup.immediate_stop
        => owed \subseteq {executed[i] : i \in 1 .. Len(executed)}]_vars

(* Every callback is called in the end if nobody stops the loop, without   *)
(* the help of the poll timeout.                                           *)
MostEvents == CHOOSE n \in {s.max_events : s \in Setups} :
                \A s \in Setups : s.max_events <= n
EventsAreCalled == \A k \in 1 .. MostEvents :
  (Len(events) >= k /\ \E l \in Loops : InLoop(l))
    ~> (Len(executed) >= k \/ \A l \in Loops : ~InLoop(l))

(* From Python, stop_loop() ends a loop that has entered start_loop(),     *)
(* wherever it is, without the help of the poll timeout: the lock is kept  *)
(* from the test of is_running to the sleep.  A stop by a C++ thread       *)
(* between that test and the second look (ev_loop.cpp:49, ev_loop.hpp:96)  *)
(* waits for the poll timeout.                                             *)
StopEndsLoop == \A l \in Loops :
  (setup.under_gil /\ told[l] = "inside") ~> (pc[l] = "idle")

(* "force loop to stop waiting" (ev_loop.cpp:64): once a stop_loop() from  *)
(* Python has returned, the loop does not sleep on a trigger that is down. *)
StopForcesWakeup ==
  setup.under_gil =>
    \A l \in Loops : told[l] = "inside" /\ pc[l] = "sleep" /\ ~flag
                       => \E p \in Procs : pc[p] = "stopSet"

(* "unable to start twice" (ev_loop.cpp:45): two threads are never inside  *)
(* the loop.                                                               *)
OneLoop == Cardinality({l \in Loops : InLoop(l)}) <= 1

=============================================================================
