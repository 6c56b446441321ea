# A verification of wasp-c-extensions

TLA+ models of the C and C++ core of `wasp_c_extensions`, what TLC checks of
them and what TLAPS proves. Paths are relative to the repository; `W/` stands
for `src/wasp_c_extensions/`.

## 1. The system

`wasp_c_extensions` is a set of CPython extension modules: an event, a counter,
two multi-consumer queues and an event loop. Half of it is plain C++ (namespace
`wasp`) that knows nothing of Python; thin wrappers turn the C++ classes into
Python types.

| component | files | state | operations |
|---|---|---|---|
| Event | `W/_threads/event.{hpp,cpp}` | atomic flag, mutex, condition variable, `max_timeout` | `set`, `clear`, `is_set`, `wait` |
| WPThreadEvent, `awareness_wait()` | `W/_threads/event_wrapper.*`, `module_functions.h` | an Event, the poll timeout, the locals of one call | `wait` (a loop of short `Event::wait`s with signal checks), `set`, `clear`, `awareness_wait` |
| WAtomicCounter | `W/_threads/atomic.*` | a Python integer, the sign rule | `__init__`, `__int__`, `increase_counter`, `set`, `test_and_set`, `compare_and_set` |
| StretchedBuffer | `W/_cmcqueue/cmcqueue.*` | a zero node, `tail`, `next_item` of every item | `append`, `next`, `head` (any thread), `reduce` (one thread) |
| CMCBaseQueue / CMCQueue | `W/_cmcqueue/cmcqueue.*` | a StretchedBuffer of messages and (un)subscriptions, `reads` of each item, `oldest_subscribes`, `newest_subscribes`, `__messages`, `is_cleaning` | `push`, `subscribe`, `unsubscribe`, `pull`, `acknowledge`, `has_next`, `messages`, `cleanup` |
| WCMCQueue, WCMCQueueItem | `W/_cmcqueue/cmcqueue_wrapper.*` | a token's `__last_item`, `__next_iterator`, `manual_acknowledge` | the Python calls around the queue |
| Event loop | `W/_ev_loop/ev_loop.*` | `is_running`, the queue, the trigger (an Event), `last_event`, `immediate_stop` | `notify`, `start_loop`, `process_event`, `wait_event`, `stop_loop` |
| WEventLoop | `W/_ev_loop/ev_loop_wrapper.*` | `__is_started`, the interpreter lock | the Python calls, the lock released around callbacks and waits |
| WMultipleConsumersQueue | `W/_queue/mcqueue.*` | a list of (message, readers left), `__index_delta`, `__subscribers` | `subscribe`, `unsubscribe`, `push`, `pop`, `has` |
| WMCQueueSubscriber | `W/_queue/subscriber.*` | `__msg_index` | construction, `next`, `has_next`, `unsubscribe`, deallocation |
| Priority queue, garbage collector | `W/_pqueue`, `W/_cgc` | none that is used | stubs |
| Module definitions, headers, build, tests | the rest | none after import | - |

How they interact. WPThreadEvent polls Event. The event loop is the one
subscriber of a CMCQueue and sleeps on an Event; a notifier pushes and then
raises the event. CMCBaseQueue keeps its items in a StretchedBuffer and frees
them when all tokens have gone past; freeing a payload runs a Python destructor,
which may call back or let other threads run. WMCQueueSubscriber drives
WMultipleConsumersQueue by index. WAtomicCounter stands alone.

What is hard here. Event and StretchedBuffer are lock-free or half lock-free and
are correct only because of the order of single accesses. CMCBaseQueue decides
what to free from counters that other threads change. The event loop lowers its
trigger outside any lock. The Python callers are serialised by the interpreter
lock *except* where it is released, or where a destructor, a signal handler or
a callback lets others in. Nothing is persistent and nothing is sent: there are
no crashes to recover from and no messages to lose.

What makes each part correct:

- Event: no wakeup is lost; a call is atomic; a wait with a deadline returns.
- WPThreadEvent: a "no" comes only after the timeout, a call with a timeout ends;
  `awareness_wait` does not sleep over what has come.
- WAtomicCounter: an increase adds to the present value, a non-negative counter
  stays non-negative, and no integer is freed that something refers to.
- StretchedBuffer: it is a list, in the order of its appends, although addresses
  are reused and links come late.
- CMCBaseQueue: every subscribed token gets every message once and in order;
  nothing unread is freed and nothing read is kept; `messages()` is exact.
- Event loop: every callback is called once and in order; the loop does not
  sleep over a callback; `stop_loop()` stops it, and without `immediate_stop`
  only after what was notified before.
- WMultipleConsumersQueue: counters are exact, indices stay in the list, the list
  is trimmed at its head only, and `has_next()` keeps its promise.

`PROJECT.json` lists the places where this can go wrong, with their lines.

## 2. Plan

The order is that of dependence: what others rest on comes first.

Done:

1. `EventSpec`, `Event`, `Event_proofs`: everything that sleeps uses it.
2. `LinkedFifo`, `StretchedBuffer`, `StretchedBuffer_proofs`: the list under the
   queue.
3. `Multicast`, `CMCQueue`, `CMCQueue_proofs`, `CMCQueueKept_proofs`: the queue over
   the list, with its Python calls.
4. `EvLoop`, `EvLoop_proofs`: the loop over the queue's list and the promised event.
5. `MCQueue`, `MCQueue_proofs`: the older queue, against the same `Multicast`.
6. `PyEvent`, `PyEvent_proofs`: the polling wait and `awareness_wait` over the
   promised event.
7. `AtomicCounter`, `AtomicCounter_proofs`: references and the sign rule.
8. One instance for Python and C++ threads together in `CMCQueue` and `EvLoop`, and
   `process_event()` as a call of its own.

All of it is written, and every safety property, action property and refinement of a
passing run is proved; what TLC alone checks is listed at the end of section 7.

## 3. The modules

**EventSpec** is what an event promises: one flag, a set of waiters, each call
one step. A waiter may leave at any time (timeout, spurious wakeup) and takes
the flag of that moment as its answer. `WakeUp`: nobody stays while the flag
stays up.

**Event** has one step per atomic access and per mutex or condition-variable
call. `SetExchange` is the compare-and-exchange of `set()`, outside the mutex;
`SetLock` and `SetNotify` follow only if it succeeded. `WaitLock`, `WaitCheck`,
`Park`, then `TimedOut`, `SpuriousWakeup` or somebody's `SetNotify`, then
`Relock` and `WaitReturn` are `wait()`. `Clear` is one store. Time is abstract:
a positive timeout may expire at any moment. `max_timeout` is chosen at the
construction and never changes.

**PyEvent** models `WPThreadEvent.wait()` turn by turn (`Loop`: the time left,
`EnterEvent`/`LeaveEvent`: one `Event::wait`, `Signals`: `PyErr_CheckSignals` and
the end of the turn, `Done`: the answer) and `awareness_wait()` (`Aware`: clear,
`Sync`: `sync_fn()`, `SetBack` when it says yes, else the same loop), over
EventSpec. `elapsed` is a clock per call that stops at `MaxClock`. A variable
that was never written has any value. `Come`, `GoAway` and `Clear` are the
program around it. `disturbed` remembers that a `sync_fn()` has raised or somebody
called `clear()`: from then on the flag says nothing of what has come, and
`AwareUndisturbed` claims nothing.

**AtomicCounter** has one step per Python call, because `atomic.c` keeps the
interpreter lock, with one exception: `__init__()` and `increase_counter()` release
the old integer before they store the new one (`Replace`), and an integer of a
subclass with a destructor (`Finalizable`) lets other threads run there. The call
then waits in `inside` until `Resume`. Integers are objects with a number and a
reference count: two objects may have the same number and two counters may share
one object. `held` is one variable of each thread, the source of arguments and
the place of results. While a call waits, its counter still refers to the integer it
has released (`released`), and nothing in `atomic.c` keeps other threads from the
counter: a second `increase_counter()` or `__init__()` releases the integer again, and
`set()` and the like give it away as if the counter still owned it. `GiveUp` counts
both in `twice`: each makes the reference count one too low. `lost` counts the
references that are never given back: that of a refused increase, that of a counter
kept by a failed `test_and_set()` (`kept`), and what a waiting call overwrites when it
stores at last. `again` is the set of counters that were initialised twice. The four
are history variables. With `refs` 0 an integer has been freed; what a call does that
uses it all the same is undefined, and the model does not take such a call (`Usable`,
`Given`, the guards of `Receive` and `Resume`). All others go on, on other integers
and on the same counter once it has a new one.

**StretchedBuffer** has one step per atomic access of `append()` and `reduce()`.
Items are addresses: `Append_Call` may take any address that is free, so a
pointer read earlier can be that of a new item (ABA). A failed exchange overwrites
the pointer it compared (`reduced`), as `compare_exchange_strong` does; a failed last
one makes `reduce()` return the item that an append has just linked, and not the one
it has removed. Its only caller, `cleanup()`, is modelled as far as it takes part in
this: it has read the head before (`cleaned`, the `item_ptr` of the code), ignores what
`reduce()` returns and deletes what it has read. `log` and `removed` are
history variables. **LinkedFifo** is the list it implements: an append is a swap
of the tail and, later, a link; the head leaves once its successor can be
reached or does not exist.

**CMCQueue** has one step per atomic access of CMCBaseQueue, over LinkedFifo's
list, with the wrapper's calls around them. `items` is every item ever appended,
in the order of the swaps, so a pointer is a position in it and an item is freed
when its position is at most `removed` (less one while its destructor runs).
`Scan` merges the loads of the head, of its `reads` and of `oldest_subscribes`:
only the owner of `is_cleaning` changes the head and `oldest_subscribes`, and
`reads` only grows, so reading them together loses no behaviour that frees less.
`setup` is chosen at the start and says how the class is used: from Python a call
keeps the interpreter lock except while a payload's destructor runs (`Delete`,
`Resume`); from C++ threads there is no lock. When a thread would use a freed item
the behaviour ends with `corrupt`: what happens then is undefined. In Python this
is reached too (section 6), so what the run CMCQueue shows holds up to the
first use of a freed item. **Multicast** is what both queues promise: each
subscribed token has a list of unread messages; it is stated once and refined
by CMCQueue (from Python; `Seen` shows it an idle queue otherwise) and by MCQueue.

**EvLoop** composes the loop with EventSpec (the trigger) and with the list as
LinkedFifo lets it be used: an event is `appended`, `linked`, then `notified`.
`Test` is the `test_and_set` at the head of the loop, `Pull`, `Call`, `Advance`,
`ClearTrigger` and `HasNext` are `process_event()`, `Wait`, `WakeUp` and `Resume`
are `wait_event()`. `mode` says which of the two loops of `start_loop()` calls
`process_event()`, or that it was called by itself (`ProcessEvent`, `ProcessReturn`),
which takes one callback or lowers the trigger. A callback that calls `notify()` or
`stop_loop()` is another thread that runs while the loop is in `callback`. `setup`
chooses between Python and C++ threads, the stop mode, the loop threads and
whether callbacks raise. `told`, `owed` and `executed` are history variables;
`owed` leaves out a callback behind an append whose link is still to come: no
reader of the list can reach it yet.

**MCQueue** has one step per Python call, because `mcqueue.c` and `subscriber.c`
keep the interpreter lock from the first line to the last (but see the plan).
`Clean` keeps the code's arguments and its early stop, `Unsubscribe` its
reading of everything from the caller's place on.

The `MC*` modules give sets and symmetries to TLC. Next to a definition there is
sometimes a second one marked *Mutant*: the same definition with a plausible
mistake. It is used by nothing; with it in place of the original the property
named in `PROJECT.json` fails.

## 4. What is checked

Sizes are the distinct states TLC reports on these instances. The runs of
CMCQueue, EvLoop and AtomicCounter switch the deadlock check off: the bounds on
pushes, subscriptions, starts and stops run out, after which every thread may be
idle for good; a behaviour that is `corrupt` has no next step, and in AtomicCounter
a thread whose variable holds an integer that was freed has none. PyEventRaise and PyEventZero check it,
as the others do.

| run | instance | shows |
|---|---|---|
| Event | 3 threads; timeouts none, 0, 20; max_timeout none, 10; 94,712 states | `MutexInv`, `NoLostWakeup`, `CallsAreAtomic` (Event implements EventSpec), and under fairness `SleeperWakes`, `WaitersLeave`, `TimedWaitReturns` |
| PyEvent | 2 waiters in either call, 2 setters, no timeout or 2 ticks, signals, exceptions and clears; 185,035 states | `AwareUndisturbed`, `NeverEarly`, `TimedCallEnds` |
| StretchedBuffer | 3 appenders, 4 appends, 3 addresses; 508,735 states | `ListIsInOrder`, `MemoryIsExact`, `ReturnsOldOrNewHead`, `LinksItsPredecessor`, `ImplementsFifo`, `ReduceReturns` |
| CMCQueue | 1 publisher, 2 tokens, 2 messages; Python with either acknowledgement mode and 3 subscriptions, C++ threads with automatic acknowledgement and 2; 1,836,282 states up to symmetry | `UnreadKept`, `MessagesExact`, `UsesListAsFifo`; from Python also `NoGarbage` and `DeliversInOrder` (CMCQueue implements Multicast); all up to the first use of a freed item |
| EvLoop | 2 notifiers, 2 starts. Python: 3 callbacks that may raise, 2 stops, both stop modes. C++: 2 loop threads and 3 callbacks without a stop, or 1 loop thread, 2 callbacks and 1 stop in both stop modes; 146,476 states | `CalledInOrder`, `NoLostEvent`, `DrainsWhatIsOwed`, `EventsAreCalled`; from Python also `StopForcesWakeup` and `StopEndsLoop` |
| MCQueue | 3 subscribers that come and go, 4 messages; 222,856 states up to symmetry | `CountersExact`, `InOrder`, `HeadIsWanted`, `PromiseKept`, `DeliversToAll` (MCQueue implements Multicast) |
| AtomicCounter | 2 threads, 2 counters, integers -1, 0, 1 and a second 1 that has a destructor, increments of -1 and 1; 291,573 states up to symmetry | `RefsExact`, `NonNegative` |
| PyEventRaise, PyEventZero, CMCQueuePointer, EvLoopTwice, AtomicIncrease | small | the disagreements of section 6 |

Why the bounds are enough. Event needs two sleepers and a setter to tell
`notify_all` from `notify_one`, and two setters and a sleeper for the set that
returns without notifying. StretchedBuffer has fewer addresses than appends, so
every address is used again while an old pointer to it may be alive, and up to
three appends are without a link at once. CMCQueue needs two
tokens at different places, a subscription that comes after a message and one
that is made again after an unsubscription; two messages tell a repetition and a
wrong order from the right one. `SizeMod` is 16, above any count of the
instance, so that a counter below zero is seen as a large number, as with `size_t`.
The loop needs two notifiers for an append that blocks another
one's event. MCQueue needs a third subscriber so that `unsubscribe()` meets
counters of one, two and three in one list.
PyEvent needs a waiter that clears the flag another one waits for, and a second
setter so that what is awaited goes away and comes back in between.
AtomicCounter needs two objects of one number, since counters are compared by
number and share by object; an integer below zero, to be refused and to be
reached from above; and a second thread that runs inside the first one's
release: it uses the counter, releases the integer again, waits in the same destructor
and stores before or after the first. `MaxLost` of 1 bounds, for each integer, the
references that are lost and those given up twice. One more lost reference changes no
guard and adds one to both sides of `RefsExact`; one more given up twice is one use
more of an integer that has no reference left.

## 5. Fairness

*Event*: a thread that runs goes on, a timer that can expire expires (weak), and
a mutex that is freed again and again is granted to each thread that asks
(strong: this is what a scheduler and a mutex that starves nobody give; the
C++ standard promises no more than "in the end", so a mutex that starves a
waiter for ever is excluded by assumption). No thread has to call anything and
no spurious wakeup is owed.
*PyEvent*: calls go on, time passes, and `Event::wait` returns when it has a
deadline or the flag stays up. These are `TimedWaitReturns` and `WaitersLeave`,
which the run Event checks of the implementation. *StretchedBuffer*, *CMCQueue*:
an operation that was begun goes on. *EvLoop*: the same, callbacks return, the
interpreter lock is given to each thread that asks again and again (strong), and
a sleeper leaves only while the trigger is up. The poll timeout would wake it
anyway; leaving it out makes the liveness properties say that the trigger is
enough.

## 6. Where the code disagrees with what is said about it

- `PyEventRaise`: when `sync_fn()` raises, `awareness_wait()` returns
  with the event cleared. A `set()` of another thread is lost with it, and a
  second waiter sleeps on although what it waits for is there
  (`W/_threads/module_functions.h:47-55`). Without exceptions `AwareOfReady` holds.
- `CMCQueuePointer`: an unsubscription item is freed one reader too early
  (`W/_cmcqueue/cmcqueue.cpp:245`), although the `last_item` of a live token may
  point to it; the next `pull()` follows a freed item.
- `EvLoopTwice`: a `start_loop()` between a `stop_loop()` and the loop's next
  test starts a second loop on the same token (`W/_ev_loop/ev_loop.cpp:42, 63`).
- `PyEventZero`: `WPThreadEvent.wait(0)` neither tests the flag once nor has a
  deadline: it polls until the event is set
  (`W/_threads/event_wrapper.cpp:136, 151`; `threads_module.c:59`, `event.cpp:52`).
- `AtomicIncrease`: `increase_counter()` releases the old integer before it stores
  its sum; a destructor lets another thread change the counter, and the change
  is overwritten (`W/_threads/atomic.c:216`; `atomic.c:105`).

One more is shown without a run of its own. `reduce()` is to "remove the oldest item
from this buffer and return it" (`W/_cmcqueue/cmcqueue.hpp:49-50`). If an append links
its item to the zero node between the reset of the tail and that of the head, the
failed exchange of `cmcqueue.cpp:99-101` overwrites `reduced_node_ptr`, and `reduce()`
returns the new, live item. `cleanup()` ignores what is returned (`cmcqueue.cpp:260`),
so nothing comes of it; `ReturnsOldOrNewHead` says exactly what may be returned, and
with a `cleanup()` that deletes what `reduce()` returns `MemoryIsExact` fails (its
mutant).

Further ones were met while modelling and are described as hazards only:
a deadline that has passed before the first poll leaves `wait_result` unwritten
(`event_wrapper.cpp:141, 158`; `Done` models it as any value); `Event::wait(0)`
waits for `max_timeout` if there is one (`event.cpp:60-69`); a `stop_loop()` before
the new thread's first test has no effect (`ev_loop.cpp:63`, which is why
`StopEndsLoop` is about threads inside the loop); in C++ threads the loop can lower
the trigger `stop_loop()` has raised (`ev_loop.hpp:96`), so `StopForcesWakeup` and
`StopEndsLoop` are stated for callers from Python only: TLC refutes them for C++
threads; a repeated `__init__()` of a counter, even one that is refused, leaves a
non-negative counter negative (`atomic.c:145`, the exception in `NonNegative`); a
refused increase and a failed `test_and_set()` keep a reference for good
(`atomic.c:211, 283`, the `lost` of `RefsExact`); two overlapping calls of
`increase_counter()` or `__init__()` release the same old integer twice, and a `set()`
that overlaps one gives away an integer that is being destroyed (`atomic.c:158, 216`,
the `twice` of `RefsExact`), after which somebody may use it when it is freed; packed messages are never
released (`mcqueue.c:343, 360`).

## 7. What is proved

`Event_proofs` proves, for every set of threads, every `max_timeout` and every set
of timeouts, and from `NoThreadAssumption` and `TimeoutAssumption` alone:

- `TypeCorrect`: `Spec => []TypeOK`
- `MutualExclusion`: `Spec => []MutexInv`
- `WakeupSafety`: `Spec => []NoLostWakeup`
- `Implementation`: `Spec => CallsAreAtomic`, the safety part of EventSpec.

The inductive invariant is `IInv == TypeOK /\ MutexInv /\ NoLostWakeup`.
`NoLostWakeup` says that while the flag is up and a thread sleeps or has decided
to, some thread is between its exchange and its notification. By itself it is
not inductive: `SetNotify` ends that thread's call, and a thread at `park` is not
woken by it. `MutexInv` excludes this: a thread at `park` owns the mutex and so
does one at `setNotify`. The other step that matters is the one into `park`:
`WaitCheck` goes there only with the flag down, and only a `SetExchange` raises it
afterwards, which makes its thread the setter the invariant asks for.
There is one step per action in each lemma. The refinement maps `isSet`,
`result` and the set of threads inside `wait()`; `Clear`, `SetExchange`,
`WaitCall` and the returning steps map to the promise's actions, all others
to a stutter.

`AtomicCounter_proofs` proves, for every set of threads, counters and integers, from
`ObjectsAssumption` and `NumberAssumption`:

- `SignRule`: `Spec => []NonNegative`
- `EveryReferenceCounts`: `Spec => []RefsExact`
- `TypeCorrect`: `Spec => []TypeOK`; a part of it is that a counter refers to an
  integer it has released only while a call waits for that release.
- `FreedIsUnused`: an integer whose count is 0 is in no variable, no waiting call and no
  counter that has not released it, unless it was given up twice.

These hold up to the first use of an integer that was freed, where the behaviours
of the model end for that thread; that no count falls below zero before it is due to
this and no merit of the code.

The sign rule's inductive invariant is `IInv == Types /\ NonNegative /\
PendingIsValid`. `NonNegative` alone is not inductive: a call that waits for a
destructor has checked its integer before and stores it at `Resume`, whatever has
happened to the counter since. `PendingIsValid` says that the counter of such a
call still exists and that its mode admits the pending integer, unless the counter
was initialised again. It is kept because a mode changes only in `New`, on a counter
that does not exist, and in `Reinit`, which puts the counter into `again`; and because
`Dealloc` waits for the calls that use the counter. `StoreKeeps`, `WaitKeeps` and
`ReplaceKeeps` say this once for all calls.

For the references, `RInv` adds the types of the counts, `RefsExact` itself and
`ReleasedWait`: a counter that has released its integer exists and a call waits for it.
A *slot* is a place that can have a reference: a counter, a variable, the destructor,
the stored and the returned integer of a waiting call, the module. `Referent` says
what each slot has (nothing, for a counter that has released its integer),
`ReferencesAreSlots` that counting slots is counting references, and `SlotTakes` (with
`SlotsTake2`, `SlotsTake5`) what one, two or five slots that change do to the counts;
`GiveUpCounts` says that a counter that gives up what it does not have any more adds
as much to `twice`. Each call is then a change of slots and an equal change of `refs`,
`lost` and `twice`, whoever else waits on the same counter. `ReleasedWait` is needed at
`New` and `Dealloc`: what they create or take away has released nothing.

`MCQueue_proofs` proves, for every set of subscribers and every number of messages,
from `SubscribersAssumption` and `PushesAssumption`:

- `TypeCorrect`: `Spec => []TypeOK`
- `Counting`: `Spec => []CountersExact`
- `PlacesStayInside`: `Spec => []InOrder`
- `NothingIsKept`: `Spec => []HeadIsWanted`
- `PromisesAreKept`: `Spec => []PromiseKept`
- `Implementation`: `Spec => DeliversToAll`, all of Multicast.

These hold together only: the inductive invariant is their conjunction with
`AcceptedWerePushed` (the list ends at or before the last pushed message). A counter
is the number of live subscribers at or before its message (`CountersExact`), so
counters never fall along the list, and a counter of 1 says that its reader is
alone behind it. With `HeadIsWanted` such a reader stands at the head: what `pop()`
and `unsubscribe()` take off is a part of the head of the list, the places of the
others shift by as much as the list does, and nobody else's message is among it.
The refinement gives each subscriber the messages from its place on; `push`, `pop`,
`subscribe` and `unsubscribe` are steps of the promise, the rest are none.

`PyEvent_proofs` proves, for every set of waiters and setters and all timeouts, from
`ProcsAssumption`, `TimeoutsAssumption` and `ModeAssumption`:

- `TypeCorrect`: `Spec => []TypeOK`
- `Awareness`: `Spec => []AwareUndisturbed`
- `Punctual`: `Spec => NeverEarly`, an action property.

The inductive invariant adds `Attended`, which is `AwareUndisturbed` without its
premise that somebody waits (with the premise it is not inductive: a thread that
begins to wait would owe the rest), and `NoOnlyWhenOver`: a call that is about to
answer no has had its time.

`StretchedBuffer_proofs` proves, for every set of appenders and addresses and every
number of appends, from `PointerAssumption` and `BoundAssumption`:

- `TypeCorrect`: `Spec => []TypeOK`
- `OrderIsKept`: `Spec => []ListIsInOrder`
- `MemoryIsKept`: `Spec => []MemoryIsExact`
- `AnswerIsKnown`: `Spec => []ReturnsOldOrNewHead`
- `LinkIsPlaced`: `Spec => []LinksItsPredecessor`
- `Implementation`: `Spec => ImplementsFifo`.

The inductive invariant says which node each pointer is: the items of the list have
addresses of their own that are allocated (`InUse`, `Distinct`), the tail pointer is
the last append (`TailIsLast`), each node's link is its successor or not set yet, but
for the zero node while `reduce()` has still to clear it (`Pointers`), a running
append has its own item, which is in no list before the swap and after it is the one
that its predecessor does not link yet (`OwnItems`, `Fresh`, `Linking`), and every
missing link is one of those (`Pending`). What `cleanup()` holds is the first item,
linked, and `reduce()` its successor (`Held`); once the item is removed it is in no
list and nobody else's until `cleanup()` deletes it (`Gone`). What `reduce()` returns
is that item, or, when its exchange of the zero node's link failed, the item appended
meanwhile, which is then the head (`Answer`). `Memory` is `MemoryIsExact` address by
address. Nothing is said of a tail that was read and is about to be compared: it may
be freed or be a new item at the same address. The comparison itself makes it good,
and this is why the ABA of the code does no harm.

`EvLoop_proofs` proves, for all notifiers, stoppers, loop threads and bounds, from
`ProcsAssumption`, `BoundsAssumption` and `SetupAssumption`:

- `TypeCorrect`: `Spec => []TypeOK`
- `OneAtATime`: `Spec => []OneLoop`, if `Serial`
- `OrderOfCalls`: `Spec => []CalledInOrder`, if `Serial`
- `NothingIsLost`: `Spec => []NoLostEvent`, if `Serial`
- `StopIsHeard`: `Spec => []StopForcesWakeup`, if `Serial`
- `OwedIsPaid`: `Spec => []DrainsWhatIsOwed`, if `Serial` and `Waited`.

`Serial` says of each setup that it has one loop thread or is never stopped. It is a
fact about the program around the loop, and is needed: `EvLoopTwice` is a stop
followed by a start from another thread, and has two threads inside the loop.
`Waited` says of each setup that it is used from Python, stops at once, or is
stopped at most once with callbacks that do not raise: a second stop by a C++ thread
after the loop's last look would owe callbacks that this loop no longer calls. The
setups of the run EvLoop meet both.

The inductive invariant ties the loop's place to the list: `Alone` (one thread
inside; in the setups without a stop `Unstopped` says that the one that came first
goes on running), `Called` (from the call to `Advance` one callback more is executed
than `lastEvent` says, otherwise as many), `LockHeld` (from Python a thread is without
the interpreter lock only in a callback and around the sleep, so nobody has a step
between the loop's test and its sleep), `AppendsGoOn` (an item without its link
belongs to a `notify()` that will still raise the trigger; with it the loop may sleep
before a list it cannot read to its end), and `ToldStops` (a loop that was told from
Python to stop does not pass its next test). For `DrainsWhatIsOwed` it adds `Owed`:
what is owed can be reached (`OwedReachable`), a loop on its way out has called it
(`Drained`), and from C++ threads the only stop is over when the loop sees it
(`OneStop`).

`CMCQueue_proofs` proves, for all publishers, tokens, setups and bounds, under the
interpreter lock and without it, from `ProcsAssumption` and `BoundsAssumption`:

- `CountsMessages`: `Spec => []MessagesExact`
- `UsesTheList`: `Spec => UsesListAsFifo`, a refinement.

`CMCQueueKept_proofs` goes on to:

- `TypeCorrect`: `Spec => []TypeOK`
- `KeepsTheUnread`: `Spec => []UnreadKept`
- `LeavesNoGarbage`: `Spec => []NoGarbage`
- `Delivers`: `Spec => DeliversInOrder`, all of Multicast.

The model stops at the first use of a freed item (section 6), and so do the theorems.
The first module's invariant `IInv` has a part for each thing a step relies on:
`Shapes` (the types, without the sign of the two counters of subscriptions), `Modes`
(which call is at which step), `OneCleaner` (one thread between the two stores to
`is_cleaning`), `Owns` (an append has an item that no other call has, and nobody else
links it), `HeadIsThere` (what `reduce()` is about to take is a linked head), `Positions`
(where a token stands, and where an unsubscription has come to on its way to its own
item), `NewestCounted` (`newest_subscribes` is the number of tokens that have entered
`subscribe()` and not left) and `MessagesCounted`. A lemma named after its action,
`XIs`, says once what each action changes; the proofs of the parts use these instead
of the actions. Every step is one thread's (`SomebodySteps`, `StepsAlone`), and all but
five actions leave the list's links and its length alone (`StepsAreMinor`).

`UnreadKept` is far from inductive. `cleanup()` compares the `reads` of the head with
`oldest_subscribes`, and neither says who has read: the queue does not keep the
subscriptions that were there when an item was appended. The invariant `Explained`
says that there is a history of them: sets `M[k]`, the tokens subscribed after item
`k` was appended, and `R[k]`, those that have marked it, such that

- each item changes `M` as its type says, and the last `M` are the tokens that are
  subscribed now (`History`),
- `R[k]` has as many members as item `k` has `reads`, and nobody marks an item before or
  after whose append he was subscribed (`Marks`),
- a token is in `M` and not in `R` from where it stands to the end of the list, and one
  that is leaving from where it has come to (`Standing`),
- `oldest_subscribes` is the number of members of `M` at the last item that was or is
  about to be removed (`OldestIs`).

`oldest_subscribes` is then the size of a set and cannot be negative, and a payload with
at least as many `reads` as `oldest_subscribes` was marked by everybody in its `M`: so all
who still stand are past it (`HeadWasRead`, `Passed`). An append extends `M` by one
set (`ExplainedAppends`), a mark extends one `R` by the token that then moves on
(`ExplainedMarks`), `Scan` moves `oldest_subscribes` to the next `M` (`ScanCounts`), and
every other step leaves both (`ExplainedStays`). Nothing in this depends on the
interpreter lock.

`NoGarbage` is the converse and does depend on it. `LockHeld` (a thread inside a call
owns the lock, but at `resume`) makes every other thread idle or waiting for the lock
while one steps (`OthersRest`), and `Caught` adds to the history that whoever is in `M`
around an item and has not marked it still has it ahead, as a subscribed token or in
its unsubscription: C++ threads do pass an item unmarked, when an unsubscription meets
a link that is not stored yet, and under the lock every link is (`LinksDone`,
`WalkMoves`). So an item with too few `reads` to be freed is one that a token still
points to or stands before (`DirtyIsMissed`). `Tidy` says that the head of the list is such an
item, or that some call has marked an item and is on its way to `cleanup()` or in it:
the one that finds `is_cleaning` set returns, and leaves the work to a thread that waits
for the lock in the middle of its own (`SomeoneCleans`). An append may end an empty list
without a call that works: then somebody is subscribed and wants the new item
(`PushHeard`, `SomebodyListens`, `WantedIsDirty`).

`DeliversInOrder` maps the place of an item to the number of messages up to it (`Num`),
so what a token has still to read is the row of numbers between its own and the
list's (`Rest`). The invariant adds `AllRead`: a call that looks for a message has walked
past none (`Reads`, its last clause), `next()` keeps a place only with manual
acknowledgement and at or behind `last_item`, and `acknowledge()` has reset it. The
lock comes in where a call meets the end of the list: it may answer "no message" only
if the list really ends there, and under the lock no append is between its two
steps while another call looks, so every link is stored (`EndOfList`, `TokenFinds`). Then each step is a step of Multicast or
none: the swap of the tail is its `Push`, `Subscribe` or `Unsubscribe`
(`AppendsPromised`), entering `acknowledge()` is `Forget`, and the load or mark that ends the
walk is `Pull`, `Acknowledge` or `LookNext` (`FindsPromised`). For all else, and for
everybody else, the numbers stay (`StepKeeps`, `OthersKeep`): a mark, a removal or a
return moves nothing that Multicast sees. C++ threads are mapped to a Multicast in
which nothing happens (`ThreadsAreUnseen`), so the theorem says nothing of them.

Model-checked only:

- Liveness: `SleeperWakes`, `WaitersLeave`, `TimedWaitReturns`, `TimedCallEnds`,
  `ReduceReturns`, `EventsAreCalled`, `StopEndsLoop`. Fairness is defined through
  ENABLED, which the prover does not handle.

## 8. What is not modelled, and why

- Destructors of Event, StretchedBuffer, the queue and the loop: destroying an
  object that somebody still uses is the caller's error, and Python keeps the
  queue alive as long as it has tokens.
- `is_set()` of Event and `has_next()` of CMCQueue: a single load. The first is
  the operator `Is_set`, the second is used by the loop (`Has_next`).
- Tokens that two threads share, and a `process_event()` called while another one
  is at work, from a callback or a second thread: nothing in the repository says
  what they should do. The hazards name the lines.
- Reference counts of payloads and of packed messages: that one is never released
  is seen from the function alone and depends on no order of calls.
- A garbage collection in the middle of a `mcqueue.c` call: since CPython 3.12 a
  collection never starts inside one; with older interpreters the finalizers it
  runs may let other threads in, and MCQueue does not cover that.
- A destructor that lets others run when a caller's variable, not a counter,
  gives up the last reference (AtomicCounter): the counter is not touched there.
- What a call does with an integer that a second release has freed (AtomicCounter):
  a use of freed memory has no defined outcome, so the call is not taken.
- Memory orders: the code uses sequentially consistent atomics throughout.
- Failing allocations, argument errors, type definitions, method tables, build.
- The priority queue and the garbage collector: their methods have no bodies.
