----------------------------- MODULE AtomicCounter -----------------------------
(***************************************************************************)
(* WAtomicCounter (_threads/atomic.c): a Python integer that is replaced   *)
(* by the calls, and a sign rule.  A call keeps the interpreter lock, so   *)
(* it is one step, with one exception: __init__() and increase_counter()   *)
(* release the old integer before they store the new one.  If that was the *)
(* last reference and the integer is an instance of a subclass with a      *)
(* destructor, other threads run while the counter still refers to it, and *)
(* nothing keeps them from using the counter, releasing the same integer   *)
(* again or giving it to their caller as if it still were the counter's.   *)
(* What a use of an integer that does not exist any more does is           *)
(* undefined: a call that would use one is not taken.  A stale pointer may *)
(* lead to a new object at the same place.                                 *)
(*                                                                         *)
(* Integers are objects with a reference count.  An object has a fixed     *)
(* number and two objects may have the same one; for a number the          *)
(* interpreter makes a new plain object or gives out one that exists.      *)
(* The increment of increase_counter() is only read and is a number here.  *)
(* Each thread of the program has one variable; a result overwrites it.    *)
(***************************************************************************)
EXTENDS Integers, FiniteSets

CONSTANTS Threads,       \* threads of the program
          Counters,      \* WAtomicCounter objects
          Objects,       \* bound: the integer objects
          Number,        \* the value of each of them
          Finalizable,   \* those whose destructor lets other threads run
          Zero,          \* __zero
          None,          \* no object
          Increments,    \* what increase_counter() is called with
          MaxLost        \* bound: how often a reference to an integer is never
                         \* released, and how often one is given up twice

ASSUME ObjectsAssumption == /\ IsFiniteSet(Threads) /\ IsFiniteSet(Counters)
                            /\ None \notin Objects \union Counters
ASSUME NumberAssumption == /\ Number \in [Objects -> Int]
                           /\ Zero \in Objects /\ Number[Zero] = 0
                           /\ Finalizable \subseteq Objects \ {Zero}
ASSUME BoundsAssumption == Increments \subseteq Int /\ MaxLost \in Nat

VARIABLES
  refs,       \* the reference count of each object; with 0 it does not exist
  int_value,  \* __int_value of each counter, None if there is no such counter
  negative,   \* __negative
  held,       \* each thread's variable
  inside,     \* each thread's call that waits for a destructor, or Outside
  lost,       \* history: the references to each object that nobody releases
  released,   \* history: counters that refer to an integer they have released
  twice,      \* history: how often such a counter released each object again
              \* or gave it away
  kept,       \* history: counters that test_and_set() keeps a reference to
  again       \* history: counters whose __init__() was called a second time

history == <<lost, released, twice, kept, again>>
vars == <<refs, int_value, negative, held, inside, history>>

Outside == [counter |-> None, old |-> None, new |-> None, by |-> 0, returns |-> FALSE]
Call == [counter : Counters, old : Finalizable, new : Objects, by : Increments \union {0},
         returns : BOOLEAN]

Alive == {c \in Counters : int_value[c] # None}
Value(c) == Number[int_value[c]]
Waiting(c) == \E t \in Threads : inside[t].counter = c

TypeOK == /\ refs \in [Objects -> Nat]
          /\ int_value \in [Counters -> Objects \union {None}]
          /\ negative \in [Counters -> BOOLEAN]
          /\ held \in [Threads -> Objects \union {None}]
          /\ inside \in [Threads -> Call \union {Outside}]
          /\ {lost, twice} \subseteq [Objects -> Nat]
          /\ {kept, again} \subseteq SUBSET Counters
          /\ released \subseteq {c \in Alive : Waiting(c)}

Init == /\ refs = [o \in Objects |-> IF o = Zero THEN 1 ELSE 0]
        /\ int_value = [c \in Counters |-> None]
        /\ negative = [c \in Counters |-> TRUE]
        /\ held = [t \in Threads |-> None]
        /\ inside = [t \in Threads |-> Outside]
        /\ lost = [o \in Objects |-> 0]
        /\ twice = [o \in Objects |-> 0]
        /\ released = {} /\ kept = {} /\ again = {}

-----------------------------------------------------------------------------
(* References.                                                             *)
Incref(r, o) == IF o = None THEN r ELSE [r EXCEPT ![o] = @ + 1]
Decref(r, o) == IF o = None THEN r ELSE [r EXCEPT ![o] = @ - 1]

\* Does releasing o, with the counts r, run a destructor that lets other
\* threads in?  The destructor has that reference while it runs.
LastReference(r, o) == o \in Finalizable /\ r[o] = 1

\* A result overwrites the variable of t; r are the counts after the call.
Receive(t, r, o) == /\ held[t] # None => r[held[t]] > 0
                    /\ held' = [held EXCEPT ![t] = o]
                    /\ refs' = Decref(r, held[t])

MayLose == \A o \in Objects : lost[o] < MaxLost

\* A call may begin with what exists: a counter that refers to an integer,
\* and the integer in the variable.
Outer(t) == inside[t] = Outside
Usable(c) == c \in Alive /\ refs[int_value[c]] > 0
Given(t) == held[t] # None /\ refs[held[t]] > 0

-----------------------------------------------------------------------------
(* The program: an integer comes into a variable, or leaves it.            *)
NewInt(t) == /\ Outer(t)
             /\ \E o \in Objects : /\ o \in Finalizable => refs[o] = 0
                                   /\ Receive(t, Incref(refs, o), o)
             /\ UNCHANGED <<int_value, negative, inside, history>>

DropInt(t) == /\ Outer(t)
              /\ held[t] # None
              /\ Receive(t, refs, None)
              /\ UNCHANGED <<int_value, negative, inside, history>>

-----------------------------------------------------------------------------
\* valid_value(): the sign rule.
Valid_value(v, mode) == mode \/ v >= 0

\* __new__() and __init__() of a new counter.  When the value is refused the
\* new object is deallocated and nothing has changed.
New(t, c) ==
  /\ Outer(t)
  /\ c \notin Alive
  /\ \E value \in {held[t], Zero} \ {None}, mode \in BOOLEAN :
       /\ refs[value] > 0
       /\ Valid_value(Number[value], mode)
       /\ int_value' = [int_value EXCEPT ![c] = value]
       /\ negative' = [negative EXCEPT ![c] = mode]
       /\ refs' = Incref(refs, value)
  /\ UNCHANGED <<held, inside, history>>

\* The program drops its last reference to c.  A counter that test_and_set()
\* has kept stays for ever, and its integer with it.  A call that waits has a
\* reference to its counter.
Dealloc(c) ==
  /\ Usable(c)
  /\ ~Waiting(c)
  /\ IF c \in kept
       THEN /\ MayLose
            /\ lost' = Incref(lost, int_value[c])
            /\ UNCHANGED refs
       ELSE refs' = Decref(refs, int_value[c]) /\ UNCHANGED lost
  /\ int_value' = [int_value EXCEPT ![c] = None]
  /\ negative' = [negative EXCEPT ![c] = TRUE]
  /\ kept' = kept \ {c} /\ again' = again \ {c}
  /\ UNCHANGED <<held, inside, released, twice>>

\* The counter gives up its reference to its integer, which it may have
\* released before.
GiveUp(c) == IF c \in released
               THEN twice[int_value[c]] < MaxLost /\ twice' = Incref(twice, int_value[c])
               ELSE UNCHANGED twice

Store(c, o) == /\ int_value' = [int_value EXCEPT ![c] = o]
               /\ released' = released \ {c}

\* __init__() and increase_counter() release the old integer, then store
\* the new one; r are the counts before the release.  The call waits in
\* between if the release runs a destructor that lets others in.
Replace(t, c, r, new, by, returns) ==
  LET old == int_value[c] IN
  /\ GiveUp(c)
  /\ \/ /\ LastReference(r, old)
        /\ inside' = [inside EXCEPT ![t] = [counter |-> c, old |-> old, new |-> new,
                                            by |-> by, returns |-> returns]]
        /\ released' = released \union {c}
        /\ refs' = r
        /\ UNCHANGED <<int_value, held>>
     \/ /\ Store(c, new)
        /\ IF returns THEN Receive(t, Decref(r, old), new)
                      ELSE refs' = Decref(r, old) /\ UNCHANGED held
        /\ UNCHANGED inside

\* A repeated __init__() sets the mode before it looks at the value, which
\* may be missing or refused.
Reinit(t, c) ==
  /\ Outer(t)
  /\ Usable(c)
  /\ again' = again \union {c}
  /\ \E mode \in BOOLEAN :
       /\ negative' = [negative EXCEPT ![c] = mode]
       /\ \/ /\ Given(t)
             /\ Valid_value(Number[held[t]], mode)
             /\ Replace(t, c, Incref(refs, held[t]), held[t], 0, FALSE)
          \/ UNCHANGED <<refs, int_value, held, inside, released, twice>>
  /\ UNCHANGED <<lost, kept>>

\* Mutant: the integer is returned without a reference.
BorrowedInt(t, c) == /\ Outer(t)
                     /\ Usable(c)
                     /\ Receive(t, refs, int_value[c])
                     /\ UNCHANGED <<int_value, negative, inside, history>>
\* __int__()
Int_(t, c) == /\ Outer(t)
              /\ Usable(c)
              /\ Receive(t, Incref(refs, int_value[c]), int_value[c])
              /\ UNCHANGED <<int_value, negative, inside, history>>

\* The result is stored and returned: two references.  When it is refused,
\* one of the two is never released.
Increase_counter(t, c, by) ==
  /\ Outer(t)
  /\ Usable(c)
  /\ \E sum \in Objects \ Finalizable :
       /\ Number[sum] = Value(c) + by
       /\ \/ /\ Valid_value(Number[sum], negative[c])
             /\ Replace(t, c, Incref(Incref(refs, sum), sum), sum, by, TRUE)
             /\ UNCHANGED lost
          \/ /\ ~Valid_value(Number[sum], negative[c])
             /\ MayLose
             /\ lost' = Incref(lost, sum)
             /\ refs' = Incref(refs, sum)
             /\ UNCHANGED <<int_value, held, inside, released, twice>>
  /\ UNCHANGED <<negative, kept, again>>

\* Mutant: the call returns without storing.
ResumeUnstored(t) ==
  LET call == inside[t] IN
  /\ call # Outside
  /\ refs[call.old] > 0
  /\ inside' = [inside EXCEPT ![t] = Outside]
  /\ refs' = Decref(refs, call.old)
  /\ UNCHANGED <<int_value, negative, held, history>>

\* The destructor has ended.  What the counter holds now is overwritten; if
\* another call has stored it, its reference is never released.
Resume(t) ==
  LET call == inside[t]
      c == call.counter
  IN
  /\ call # Outside
  /\ refs[call.old] > 0
  /\ inside' = [inside EXCEPT ![t] = Outside]
  /\ IF c \in released THEN UNCHANGED lost
                       ELSE MayLose /\ lost' = Incref(lost, int_value[c])
  /\ Store(c, call.new)
  /\ LET r == Decref(refs, call.old)
     IN IF call.returns THEN Receive(t, r, call.new) ELSE refs' = r /\ UNCHANGED held
  /\ UNCHANGED <<negative, twice, kept, again>>

\* The counter takes o, one reference more; the program gets the old integer
\* with the counter's reference.
Exchange(t, c, o) == /\ GiveUp(c)
                     /\ Store(c, o)
                     /\ Receive(t, Incref(refs, o), int_value[c])

Set(t, c) == /\ Outer(t)
             /\ Usable(c)
             /\ Given(t)
             /\ Valid_value(Number[held[t]], negative[c])
             /\ Exchange(t, c, held[t])
             /\ UNCHANGED <<negative, inside, lost, kept, again>>

\* Mutant: the rule of the other counter.
AcceptedByOther(c, other) == Valid_value(Value(other), negative[other])
Accepted(c, other) == Valid_value(Value(other), negative[c])

Tests == {"LT", "LE", "EQ", "NE", "GT", "GE"}
Compare(test, a, b) == CASE test = "LT" -> a < b [] test = "LE" -> a <= b
                         [] test = "EQ" -> a = b [] test = "NE" -> a # b
                         [] test = "GT" -> a > b [] test = "GE" -> a >= b

\* A test that fails keeps its reference to the other counter.
Test_and_set(t, c, other) ==
  /\ Outer(t)
  /\ Usable(c) /\ Usable(other)
  /\ Accepted(c, other)
  /\ \E passed \in {Compare(test, Value(c), Value(other)) : test \in Tests} :
       \/ /\ passed
          /\ Exchange(t, c, int_value[other])
          /\ UNCHANGED kept
       \/ /\ ~passed
          /\ kept' = kept \union {other}
          /\ UNCHANGED <<refs, int_value, held, released, twice>>
  /\ UNCHANGED <<negative, inside, lost, again>>

Compare_and_set(t, c, expected, new) ==
  /\ Outer(t)
  /\ \A d \in {c, expected, new} : Usable(d)
  /\ Accepted(c, new)
  /\ Value(c) = Value(expected)
  /\ Exchange(t, c, int_value[new])
  /\ UNCHANGED <<negative, inside, lost, kept, again>>

Next == \/ \E t \in Threads : NewInt(t) \/ DropInt(t) \/ Resume(t)
        \/ \E c \in Counters : Dealloc(c)
        \/ \E t \in Threads, c \in Counters :
             \/ New(t, c) \/ Reinit(t, c) \/ Int_(t, c) \/ Set(t, c)
             \/ \E by \in Increments : Increase_counter(t, c, by)
             \/ \E d \in Counters : Test_and_set(t, c, d)
             \/ \E d, e \in Counters : Compare_and_set(t, c, d, e)

Spec == Init /\ [][Next]_vars
-----------------------------------------------------------------------------
\* Who has a reference to o: counters (one that has released its integer
\* has none), variables, calls that wait, the module.
References(o) ==
  {<<"counter", c>> : c \in {d \in Alive \ released : int_value[d] = o}}
    \union {<<"variable", t>> : t \in {u \in Threads : held[u] = o}}
    \union {<<"destructor", t>> : t \in {u \in Threads : inside[u].old = o}}
    \union {<<"stored", t>> : t \in {u \in Threads : inside[u].new = o}}
    \union {<<"returned", t>> : t \in {u \in Threads : inside[u].new = o
                                                        /\ inside[u].returns}}
    \union {<<"module", Zero>> : z \in {Zero} \intersect {o}}

(* The count of an integer is the number of its references, but for two    *)
(* leaks and one fault.  Lost are the references that failed calls keep    *)
(* (atomic.c:210-213, 270-284) and those to what a call overwrites that    *)
(* waited for a destructor.  Given up twice, so that the count is too low  *)
(* and the integer may be freed under somebody, are exactly the integers   *)
(* whose counter was changed while they were in its release                *)
(* (atomic.c:158-159, 216-217): sharing an integer, comparing a counter    *)
(* with itself and initialising it again are all counted right.            *)
RefsExact == \A o \in Objects :
               refs[o] + twice[o] = Cardinality(References(o)) + lost[o]

(* A counter that was created as non-negative is never below zero,         *)
(* whatever other counters it is tested against or takes its value from    *)
(* (atomic.c:152, 211, 249, 272, 304), unless its __init__() is called     *)
(* again: that sets the mode before it looks at the value (atomic.c:145).  *)
NonNegative == \A c \in Alive \ again : negative[c] \/ Value(c) >= 0

(* "Counter with atomic increase operation" (atomic.c:105): a call of      *)
(* increase_counter() adds its increment to what the counter holds when    *)
(* the result is stored.                                                   *)
IncreaseIsAtomic ==
  [][\A t \in Threads : Resume(t) /\ inside[t].returns =>
       Number[inside[t].new] = Value(inside[t].counter) + inside[t].by]_vars

=============================================================================
