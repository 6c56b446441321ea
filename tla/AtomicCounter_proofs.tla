------------------------- MODULE AtomicCounter_proofs -------------------------
(***************************************************************************)
(* The sign rule and the reference counts of AtomicCounter, for every set  *)
(* of threads, counters and integers.  NonNegative is not inductive: the   *)
(* call that waits for a destructor has checked its new integer before and *)
(* stores it later, so the invariant says of each such call that its       *)
(* counter still exists and still admits that integer.  RefsExact needs    *)
(* that a counter has released its integer only while a call waits for it: *)
(* what is created or deallocated has not.                                 *)
(***************************************************************************)
EXTENDS AtomicCounter, FiniteSetTheorems, TLAPS

Types == /\ int_value \in [Counters -> Objects \union {None}]
         /\ negative \in [Counters -> BOOLEAN]
         /\ held \in [Threads -> Objects \union {None}]
         /\ inside \in [Threads -> Call \union {Outside}]
         /\ again \in SUBSET Counters

PendingIsValid ==
  \A t \in Threads : inside[t] # Outside =>
    LET c == inside[t].counter
    IN /\ c \in Alive
       /\ c \in again \/ negative[c] \/ Number[inside[t].new] >= 0

IInv == Types /\ NonNegative /\ PendingIsValid

USE ObjectsAssumption, NumberAssumption

-----------------------------------------------------------------------------
\* A waiting call is a Call, and Outside is none.
LEMMA CallFields ==
  ASSUME NEW t \in Threads, Types, inside[t] # Outside
  PROVE /\ inside[t].counter \in Counters
        /\ inside[t].new \in Objects
        /\ inside[t].old \in Objects
  BY DEF Types, Call

LEMMA OutsideHasNoCounter == Outside.counter = None /\ None \notin Counters
  BY DEF Outside

\* No counter exists at the start.
LEMMA InitHolds == Init => IInv
  <1> SUFFICES ASSUME Init PROVE IInv
    OBVIOUS
  <1>1. Types
    BY DEF Init, Types, Call
  <1>2. NonNegative
    BY DEF Init, NonNegative, Alive
  <1>3. PendingIsValid
    BY DEF Init, PendingIsValid
  <1> QED
    BY <1>1, <1>2, <1>3 DEF IInv

\* A counter takes an integer that its mode admits, or is one that was
\* initialised again; calls that wait stay as they are.
LEMMA StoreKeeps ==
  ASSUME IInv, NEW c \in Alive, NEW o \in Objects,
         int_value' = [int_value EXCEPT ![c] = o],
         held' \in [Threads -> Objects \union {None}],
         c \in again' \/ negative'[c] \/ Number[o] >= 0,
         again' \in SUBSET Counters, again \subseteq again',
         negative' \in [Counters -> BOOLEAN],
         \A d \in Counters \ {c} : negative'[d] = negative[d],
         c \in again' \/ negative'[c] = negative[c],
         inside' \in [Threads -> Call \union {Outside}],
         \A t \in Threads : inside'[t] \in {inside[t], Outside}
  PROVE IInv'
  <1>1. Types'
    BY DEF IInv, Types, Alive
  <1>2. NonNegative'
    BY <1>1 DEF IInv, Types, NonNegative, Alive, Value
  <1>3. PendingIsValid'
    <2> SUFFICES ASSUME NEW t \in Threads, inside'[t] # Outside
                 PROVE /\ inside'[t].counter \in Alive'
                       /\ \/ inside'[t].counter \in again'
                          \/ negative'[inside'[t].counter]
                          \/ Number[inside'[t].new] >= 0
      BY DEF PendingIsValid
    <2>1. inside'[t] = inside[t]
      OBVIOUS
    <2>2. /\ inside[t].counter \in Alive
          /\ \/ inside[t].counter \in again
             \/ negative[inside[t].counter]
             \/ Number[inside[t].new] >= 0
      BY <2>1 DEF IInv, PendingIsValid
    <2> QED
      BY <2>1, <2>2, <1>1 DEF IInv, Types, Alive
  <1> QED
    BY <1>1, <1>2, <1>3 DEF IInv

\* A call begins to wait with an integer that the counter's mode admits, or
\* for a counter that was initialised again.
LEMMA WaitKeeps ==
  ASSUME IInv, NEW t \in Threads, NEW c \in Alive, NEW call \in Call,
         call.counter = c,
         inside' = [inside EXCEPT ![t] = call],
         UNCHANGED <<int_value, held>>,
         c \in again' \/ negative'[c] \/ Number[call.new] >= 0,
         again' \in SUBSET Counters, again \subseteq again',
         negative' \in [Counters -> BOOLEAN],
         \A d \in Counters \ {c} : negative'[d] = negative[d],
         c \in again' \/ negative'[c] = negative[c]
  PROVE IInv'
  <1>1. Types'
    BY DEF IInv, Types
  <1>2. NonNegative'
    BY <1>1 DEF IInv, Types, NonNegative, Alive, Value
  <1>3. PendingIsValid'
    <2> SUFFICES ASSUME NEW u \in Threads, inside'[u] # Outside
                 PROVE /\ inside'[u].counter \in Alive'
                       /\ \/ inside'[u].counter \in again'
                          \/ negative'[inside'[u].counter]
                          \/ Number[inside'[u].new] >= 0
      BY DEF PendingIsValid
    <2>1. CASE u = t
      BY <2>1 DEF IInv, Types, Alive
    <2>2. CASE u # t
      <3>1. inside'[u] = inside[u]
        BY <2>2 DEF IInv, Types
      <3>2. /\ inside[u].counter \in Alive
            /\ \/ inside[u].counter \in again
               \/ negative[inside[u].counter]
               \/ Number[inside[u].new] >= 0
        BY <3>1 DEF IInv, PendingIsValid
      <3> QED
        BY <3>1, <3>2 DEF IInv, Types, Alive
    <2> QED
      BY <2>1, <2>2
  <1> QED
    BY <1>1, <1>2, <1>3 DEF IInv

\* The variable of a thread takes an integer.
LEMMA ReceiveKeepsTypes ==
  ASSUME Types, NEW t \in Threads, NEW r, NEW o \in Objects \union {None},
         Receive(t, r, o)
  PROVE held' \in [Threads -> Objects \union {None}]
  BY DEF Types, Receive

\* release-then-store, with a valid integer.
LEMMA ReplaceKeeps ==
  ASSUME IInv, NEW t \in Threads, NEW c \in Alive, NEW r, NEW new \in Objects,
         NEW by \in Increments \union {0}, NEW returns \in BOOLEAN,
         Replace(t, c, r, new, by, returns),
         c \in again' \/ negative'[c] \/ Number[new] >= 0,
         again' \in SUBSET Counters, again \subseteq again',
         negative' \in [Counters -> BOOLEAN],
         \A d \in Counters \ {c} : negative'[d] = negative[d],
         c \in again' \/ negative'[c] = negative[c]
  PROVE IInv'
  <1> DEFINE old == int_value[c]
             call == [counter |-> c, old |-> old, new |-> new, by |-> by,
                      returns |-> returns]
  <1>1. CASE /\ LastReference(r, old)
             /\ inside' = [inside EXCEPT ![t] = call]
             /\ UNCHANGED <<int_value, held>>
    <2>1. call \in Call /\ call.counter = c /\ call.new = new
      BY <1>1 DEF LastReference, Call, Alive
    <2> HIDE DEF call
    <2> QED
      BY <1>1, <2>1, WaitKeeps
  <1>2. CASE /\ Store(c, new) /\ UNCHANGED inside
             /\ IF returns THEN Receive(t, Decref(r, old), new) ELSE UNCHANGED held
    <2>1. int_value' = [int_value EXCEPT ![c] = new] /\ UNCHANGED inside
      BY <1>2 DEF Store
    <2>2. held' \in [Threads -> Objects \union {None}]
      <3>1. CASE returns
        BY <1>2, <3>1, ReceiveKeepsTypes DEF IInv
      <3>2. CASE ~returns
        BY <1>2, <3>2 DEF IInv, Types
      <3> QED
        BY <3>1, <3>2
    <2>3. /\ inside' \in [Threads -> Call \union {Outside}]
          /\ \A u \in Threads : inside'[u] \in {inside[u], Outside}
      BY <2>1 DEF IInv, Types
    <2> QED
      BY <2>1, <2>2, <2>3, StoreKeeps
  <1> QED
    BY <1>1, <1>2 DEF Replace

\* store-then-give, with a valid integer.
LEMMA ExchangeKeeps ==
  ASSUME IInv, NEW t \in Threads, NEW c \in Alive, NEW o \in Objects,
         Exchange(t, c, o), negative[c] \/ Number[o] >= 0,
         UNCHANGED <<negative, inside, again>>
  PROVE IInv'
  <1>1. int_value' = [int_value EXCEPT ![c] = o]
    BY DEF Exchange, Store
  <1>2. int_value[c] \in Objects \union {None}
    BY DEF IInv, Types, Alive
  <1>3. held' \in [Threads -> Objects \union {None}]
    BY <1>2, ReceiveKeepsTypes DEF Exchange, IInv
  <1>4. /\ again' \in SUBSET Counters /\ again \subseteq again'
        /\ negative' \in [Counters -> BOOLEAN]
        /\ inside' \in [Threads -> Call \union {Outside}]
    BY DEF IInv, Types
  <1> QED
    BY <1>1, <1>3, <1>4, StoreKeeps

\* Steps that touch neither a counter nor a waiting call.
LEMMA VariableKeeps ==
  ASSUME IInv, held' \in [Threads -> Objects \union {None}],
         UNCHANGED <<int_value, negative, inside, again>>
  PROVE IInv'
  BY DEF IInv, Types, NonNegative, PendingIsValid, Alive, Value

LEMMA NewKeeps ==
  ASSUME IInv, NEW t \in Threads, NEW c \in Counters, New(t, c)
  PROVE IInv'
  <1>1. PICK value \in {held[t], Zero} \ {None}, mode \in BOOLEAN :
          /\ Valid_value(Number[value], mode)
          /\ int_value' = [int_value EXCEPT ![c] = value]
          /\ negative' = [negative EXCEPT ![c] = mode]
    BY DEF New
  <1>2. c \notin Alive /\ UNCHANGED <<held, inside, again>>
    BY DEF New, history
  <1>3. value \in Objects
    BY DEF IInv, Types
  <1>4. Types'
    BY <1>1, <1>2, <1>3 DEF IInv, Types
  <1>5. NonNegative'
    BY <1>1, <1>2, <1>3, <1>4 DEF IInv, Types, NonNegative, Alive, Value, Valid_value
  <1>6. PendingIsValid'
    BY <1>1, <1>2, <1>3, <1>4, CallFields DEF IInv, Types, PendingIsValid, Alive
  <1> QED
    BY <1>4, <1>5, <1>6 DEF IInv

\* A counter that a call waits for has a user and is not deallocated.
LEMMA DeallocKeeps ==
  ASSUME IInv, NEW c \in Counters, Dealloc(c)
  PROVE IInv'
  <1>1. /\ c \in Alive /\ ~Waiting(c)
        /\ int_value' = [int_value EXCEPT ![c] = None]
        /\ negative' = [negative EXCEPT ![c] = TRUE]
        /\ again' = again \ {c}
        /\ UNCHANGED <<held, inside>>
    BY DEF Dealloc, Usable
  <1>2. Types'
    BY <1>1 DEF IInv, Types
  <1>3. NonNegative'
    BY <1>1, <1>2 DEF IInv, Types, NonNegative, Alive, Value
  <1>4. PendingIsValid'
    BY <1>1, <1>2, CallFields DEF IInv, Types, PendingIsValid, Alive, Waiting
  <1> QED
    BY <1>2, <1>3, <1>4 DEF IInv

\* Whatever the mode and the value, the counter is initialised again.
LEMMA ReinitKeeps ==
  ASSUME IInv, NEW t \in Threads, NEW c \in Counters, Reinit(t, c)
  PROVE IInv'
  <1>1. /\ c \in Alive /\ again' = again \union {c}
        /\ negative' \in [Counters -> BOOLEAN]
        /\ \A d \in Counters \ {c} : negative'[d] = negative[d]
    BY DEF Reinit, Usable, IInv, Types
  <1>2. again' \in SUBSET Counters /\ again \subseteq again' /\ c \in again'
    BY <1>1 DEF IInv, Types
  <1>3. CASE held[t] # None /\ \E r : Replace(t, c, r, held[t], 0, FALSE)
    BY <1>1, <1>2, <1>3, ReplaceKeeps DEF IInv, Types
  <1>4. CASE UNCHANGED <<int_value, held, inside>>
    <2>1. Types'
      BY <1>1, <1>2, <1>4 DEF IInv, Types
    <2>2. NonNegative'
      BY <1>1, <1>2, <1>4 DEF IInv, Types, NonNegative, Alive, Value
    <2>3. PendingIsValid'
      BY <1>1, <1>2, <1>4, CallFields DEF IInv, Types, PendingIsValid, Alive
    <2> QED
      BY <2>1, <2>2, <2>3 DEF IInv
  <1> QED
    BY <1>3, <1>4 DEF Reinit, Given

LEMMA IncreaseKeeps ==
  ASSUME IInv, NEW t \in Threads, NEW c \in Counters, NEW by \in Increments,
         Increase_counter(t, c, by)
  PROVE IInv'
  <1>1. c \in Alive /\ UNCHANGED <<negative, again>>
    BY DEF Increase_counter, Usable
  <1>2. PICK sum \in Objects \ Finalizable :
          \/ /\ Valid_value(Number[sum], negative[c])
             /\ Replace(t, c, Incref(Incref(refs, sum), sum), sum, by, TRUE)
          \/ UNCHANGED <<int_value, held, inside>>
    BY DEF Increase_counter
  <1>3. CASE UNCHANGED <<int_value, held, inside>>
    BY <1>1, <1>3, VariableKeeps DEF IInv, Types
  <1>4. CASE /\ Valid_value(Number[sum], negative[c])
             /\ Replace(t, c, Incref(Incref(refs, sum), sum), sum, by, TRUE)
    <2>1. negative[c] \/ Number[sum] >= 0
      BY <1>4 DEF Valid_value
    <2>2. /\ negative' \in [Counters -> BOOLEAN]
          /\ again' \in SUBSET Counters /\ again \subseteq again'
      BY <1>1 DEF IInv, Types
    <2> QED
      BY <1>1, <1>4, <2>1, <2>2, ReplaceKeeps
  <1> QED
    BY <1>2, <1>3, <1>4

\* The integer was checked when the call began to wait.
LEMMA ResumeKeeps ==
  ASSUME IInv, NEW t \in Threads, Resume(t)
  PROVE IInv'
  <1> DEFINE call == inside[t]
  <1>1. /\ call # Outside
        /\ inside' = [inside EXCEPT ![t] = Outside]
        /\ int_value' = [int_value EXCEPT ![call.counter] = call.new]
        /\ UNCHANGED <<negative, again>>
    BY DEF Resume, Store
  <1>2. /\ call.counter \in Alive /\ call.new \in Objects
        /\ call.counter \in again \/ negative[call.counter] \/ Number[call.new] >= 0
    BY <1>1, CallFields DEF IInv, PendingIsValid
  <1>3. held' \in [Threads -> Objects \union {None}]
    <2>1. CASE call.returns
      BY <1>2, <2>1, ReceiveKeepsTypes DEF Resume, IInv
    <2>2. CASE ~call.returns
      BY <2>2 DEF Resume, IInv, Types
    <2> QED
      BY <2>1, <2>2
  <1>4. /\ again' \in SUBSET Counters /\ again \subseteq again'
        /\ negative' \in [Counters -> BOOLEAN]
        /\ inside' \in [Threads -> Call \union {Outside}]
        /\ \A u \in Threads : inside'[u] \in {inside[u], Outside}
    BY <1>1 DEF IInv, Types
  <1> HIDE DEF call
  <1> QED
    BY <1>1, <1>2, <1>3, <1>4, StoreKeeps

LEMMA NextKeeps == IInv /\ [Next]_vars => IInv'
  <1> SUFFICES ASSUME IInv, [Next]_vars PROVE IInv'
    OBVIOUS
  <1>1. ASSUME NEW t \in Threads, NewInt(t) PROVE IInv'
    <2>1. PICK o \in Objects : Receive(t, Incref(refs, o), o)
      BY <1>1 DEF NewInt
    <2>2. held' \in [Threads -> Objects \union {None}]
      BY <2>1, ReceiveKeepsTypes DEF IInv
    <2> QED
      BY <1>1, <2>2, VariableKeeps DEF NewInt, history
  <1>2. ASSUME NEW t \in Threads, DropInt(t) PROVE IInv'
    <2>1. held' \in [Threads -> Objects \union {None}]
      BY <1>2, ReceiveKeepsTypes DEF DropInt, IInv
    <2> QED
      BY <1>2, <2>1, VariableKeeps DEF DropInt, history
  <1>3. ASSUME NEW t \in Threads, Resume(t) PROVE IInv'
    BY <1>3, ResumeKeeps
  <1>4. ASSUME NEW c \in Counters, Dealloc(c) PROVE IInv'
    BY <1>4, DeallocKeeps
  <1>5. ASSUME NEW t \in Threads, NEW c \in Counters, New(t, c) PROVE IInv'
    BY <1>5, NewKeeps
  <1>6. ASSUME NEW t \in Threads, NEW c \in Counters, Reinit(t, c) PROVE IInv'
    BY <1>6, ReinitKeeps
  <1>7. ASSUME NEW t \in Threads, NEW c \in Counters, Int_(t, c) PROVE IInv'
    <2>1. int_value[c] \in Objects \union {None}
      BY <1>7 DEF IInv, Types
    <2>2. held' \in [Threads -> Objects \union {None}]
      BY <1>7, <2>1, ReceiveKeepsTypes DEF Int_, IInv
    <2> QED
      BY <1>7, <2>2, VariableKeeps DEF Int_, history
  <1>8. ASSUME NEW t \in Threads, NEW c \in Counters, Set(t, c) PROVE IInv'
    <2>1. /\ held[t] \in Objects /\ c \in Alive
          /\ negative[c] \/ Number[held[t]] >= 0
          /\ Exchange(t, c, held[t]) /\ UNCHANGED <<negative, inside, again>>
      BY <1>8 DEF Set, Usable, Given, Valid_value, IInv, Types
    <2> QED
      BY <2>1, ExchangeKeeps
  <1>9. ASSUME NEW t \in Threads, NEW c \in Counters, NEW by \in Increments,
               Increase_counter(t, c, by)
        PROVE IInv'
    BY <1>9, IncreaseKeeps
  <1>10. ASSUME NEW t \in Threads, NEW c \in Counters, NEW d \in Counters,
                Test_and_set(t, c, d)
         PROVE IInv'
    <2>1. /\ int_value[d] \in Objects /\ c \in Alive
          /\ negative[c] \/ Number[int_value[d]] >= 0
          /\ UNCHANGED <<negative, inside, again>>
      BY <1>10 DEF Test_and_set, Usable, Accepted, Valid_value, Value, Alive, IInv, Types
    <2>2. CASE Exchange(t, c, int_value[d])
      BY <2>1, <2>2, ExchangeKeeps
    <2>3. CASE UNCHANGED <<int_value, held>>
      BY <2>1, <2>3, VariableKeeps DEF IInv, Types
    <2> QED
      BY <1>10, <2>2, <2>3 DEF Test_and_set
  <1>11. ASSUME NEW t \in Threads, NEW c \in Counters, NEW d \in Counters,
                NEW e \in Counters, Compare_and_set(t, c, d, e)
         PROVE IInv'
    <2>1. /\ int_value[e] \in Objects /\ c \in Alive
          /\ negative[c] \/ Number[int_value[e]] >= 0
          /\ Exchange(t, c, int_value[e]) /\ UNCHANGED <<negative, inside, again>>
      BY <1>11 DEF Compare_and_set, Usable, Accepted, Valid_value, Value, Alive, IInv,
                   Types
    <2> QED
      BY <2>1, ExchangeKeeps
  <1>12. CASE UNCHANGED vars
    BY <1>12, VariableKeeps DEF vars, history, IInv, Types
  <1> QED
    BY <1>1, <1>2, <1>3, <1>4, <1>5, <1>6, <1>7, <1>8, <1>9, <1>10, <1>11, <1>12
       DEF Next

-----------------------------------------------------------------------------
(* A counter that was created as non-negative is never below zero unless   *)
(* its __init__() is called again (atomic.c:145-160, 211, 249, 272, 304).  *)
THEOREM SignRule == Spec => []NonNegative
  <1>1. IInv => NonNegative
    BY DEF IInv
  <1> QED
    BY <1>1, InitHolds, NextKeeps, PTL DEF Spec

-----------------------------------------------------------------------------
(* The references.  A slot is a place that can have a reference to an      *)
(* integer, and Referent says which integer it has.  Counting slots is     *)
(* counting references, and every step changes a few slots.                *)

Things == Objects \union {None}
Counter(c) == <<"counter", c>>
Variable(t) == <<"variable", t>>
Destructor(t) == <<"destructor", t>>
Stored(t) == <<"stored", t>>
Returned(t) == <<"returned", t>>
Module == <<"module", Zero>>

Slots == ({"counter"} \X Counters) \union ({"variable"} \X Threads)
           \union ({"destructor"} \X Threads) \union ({"stored"} \X Threads)
           \union ({"returned"} \X Threads) \union {Module}

CounterHas(c) == IF c \in released THEN None ELSE int_value[c]
ReturnedHas(t) == IF inside[t].returns THEN inside[t].new ELSE None
Referent == [s \in Slots |-> CASE s[1] = "counter" -> CounterHas(s[2])
                               [] s[1] = "variable" -> held[s[2]]
                               [] s[1] = "destructor" -> inside[s[2]].old
                               [] s[1] = "stored" -> inside[s[2]].new
                               [] s[1] = "returned" -> ReturnedHas(s[2])
                               [] s[1] = "module" -> Zero]

\* The slot s takes p instead of what it had.
Put(f, s, p) == [f EXCEPT ![s] = p]
Count(f, o) == Cardinality({s \in Slots : f[s] = o})
One(o, p) == IF o = p THEN 1 ELSE 0

RefTypes == /\ refs \in [Objects -> Nat] /\ lost \in [Objects -> Nat]
            /\ twice \in [Objects -> Nat] /\ kept \in SUBSET Counters

\* A counter has released its integer only while a call waits for it.
ReleasedWait == released \subseteq {c \in Alive : Waiting(c)}

Counted == RefTypes /\ ReleasedWait /\ RefsExact
RInv == IInv /\ Counted

\* Slots of different places are different.
LEMMA SlotsDiffer ==
  /\ \A c, d \in Counters : Counter(c) = Counter(d) => c = d
  /\ \A t, u \in Threads : /\ Variable(t) = Variable(u) => t = u
                           /\ Destructor(t) = Destructor(u) => t = u
                           /\ Stored(t) = Stored(u) => t = u
                           /\ Returned(t) = Returned(u) => t = u
                           /\ Variable(t) # Destructor(u) /\ Variable(t) # Stored(u)
                           /\ Variable(t) # Returned(u) /\ Destructor(t) # Stored(u)
                           /\ Destructor(t) # Returned(u) /\ Stored(t) # Returned(u)
                           /\ Variable(t) # Module /\ Destructor(t) # Module
                           /\ Stored(t) # Module /\ Returned(t) # Module
  /\ \A c \in Counters : Counter(c) # Module
  /\ \A c \in Counters, t \in Threads :
       /\ Counter(c) # Variable(t) /\ Counter(c) # Destructor(t)
       /\ Counter(c) # Stored(t) /\ Counter(c) # Returned(t)
  BY DEF Counter, Variable, Destructor, Stored, Returned, Module

LEMMA SlotsAre ==
  /\ \A c \in Counters : Counter(c) \in Slots
  /\ \A t \in Threads : /\ Variable(t) \in Slots /\ Destructor(t) \in Slots
                        /\ Stored(t) \in Slots /\ Returned(t) \in Slots
  /\ Module \in Slots
  /\ \A s \in Slots : \/ \E c \in Counters : s = Counter(c)
                      \/ \E t \in Threads : s \in {Variable(t), Destructor(t), Stored(t),
                                                   Returned(t)}
                      \/ s = Module
  BY DEF Slots, Counter, Variable, Destructor, Stored, Returned

LEMMA SlotsAreFinite == IsFiniteSet(Slots)
  <1>1. \A k : IsFiniteSet({k} \X Counters) /\ IsFiniteSet({k} \X Threads)
    BY FS_Singleton, FS_Product
  <1>2. IsFiniteSet({Module})
    BY FS_Singleton
  <1>3. \A S, T : IsFiniteSet(S) /\ IsFiniteSet(T) => IsFiniteSet(S \union T)
    BY FS_Union
  <1> QED
    BY <1>1, <1>2, <1>3 DEF Slots

\* Two functions on Slots are the same if they agree everywhere.
LEMMA SameOnSlots ==
  ASSUME NEW f \in [Slots -> Things], NEW g \in [Slots -> Things],
         \A c \in Counters : f[Counter(c)] = g[Counter(c)],
         \A t \in Threads : /\ f[Variable(t)] = g[Variable(t)]
                            /\ f[Destructor(t)] = g[Destructor(t)]
                            /\ f[Stored(t)] = g[Stored(t)]
                            /\ f[Returned(t)] = g[Returned(t)],
         f[Module] = g[Module]
  PROVE  f = g
  BY SlotsAre

\* What each slot has.
Shows(f) == /\ f \in [Slots -> Things]
            /\ \A c \in Counters : f[Counter(c)] = CounterHas(c)
            /\ \A t \in Threads : /\ f[Variable(t)] = held[t]
                                  /\ f[Destructor(t)] = inside[t].old
                                  /\ f[Stored(t)] = inside[t].new
                                  /\ f[Returned(t)] = ReturnedHas(t)
            /\ f[Module] = Zero

LEMMA ReferentShows == /\ Types => Shows(Referent)
                       /\ Types' => Shows(Referent)'
  <1>1. ASSUME Types PROVE Shows(Referent)
    <2>1. \A t \in Threads : /\ held[t] \in Things
                             /\ inside[t].old \in Things
                             /\ inside[t].new \in Things
                             /\ ReturnedHas(t) \in Things
      BY <1>1 DEF Things, Types, Call, Outside, ReturnedHas
    <2>2. \A c \in Counters : CounterHas(c) \in Things
      BY <1>1 DEF Things, Types, CounterHas
    <2>3. /\ \A c \in Counters : Referent[Counter(c)] = CounterHas(c)
          /\ \A t \in Threads : /\ Referent[Variable(t)] = held[t]
                                /\ Referent[Destructor(t)] = inside[t].old
                                /\ Referent[Stored(t)] = inside[t].new
                                /\ Referent[Returned(t)] = ReturnedHas(t)
          /\ Referent[Module] = Zero
      BY SlotsAre DEF Referent, Counter, Variable, Destructor, Stored, Returned, Module
    <2>4. ASSUME NEW s \in Slots PROVE Referent[s] \in Things
      BY <2>1, <2>2, <2>3, SlotsAre DEF Things
    <2>5. Referent \in [Slots -> Things]
      BY <2>4 DEF Referent
    <2> QED
      BY <2>3, <2>5 DEF Shows
  <1>2. ASSUME Types' PROVE Shows(Referent)'
    <2>1. \A t \in Threads : /\ held'[t] \in Things
                             /\ inside'[t].old \in Things
                             /\ inside'[t].new \in Things
                             /\ ReturnedHas(t)' \in Things
      BY <1>2 DEF Things, Types, Call, Outside, ReturnedHas
    <2>2. \A c \in Counters : CounterHas(c)' \in Things
      BY <1>2 DEF Things, Types, CounterHas
    <2>3. /\ \A c \in Counters : Referent'[Counter(c)] = CounterHas(c)'
          /\ \A t \in Threads : /\ Referent'[Variable(t)] = held'[t]
                                /\ Referent'[Destructor(t)] = inside'[t].old
                                /\ Referent'[Stored(t)] = inside'[t].new
                                /\ Referent'[Returned(t)] = ReturnedHas(t)'
          /\ Referent'[Module] = Zero
      BY SlotsAre DEF Referent, Counter, Variable, Destructor, Stored, Returned, Module
    <2>4. ASSUME NEW s \in Slots PROVE Referent'[s] \in Things
      BY <2>1, <2>2, <2>3, SlotsAre DEF Things
    <2>5. Referent' \in [Slots -> Things]
      BY <2>4 DEF Referent
    <2> QED
      BY <2>3, <2>5 DEF Shows
  <1> QED
    BY <1>1, <1>2

LEMMA PutIs ==
  ASSUME NEW f \in [Slots -> Things], NEW s \in Slots, NEW p \in Things
  PROVE  /\ Put(f, s, p) \in [Slots -> Things]
         /\ Put(f, s, p)[s] = p
         /\ \A u \in Slots : u # s => Put(f, s, p)[u] = f[u]
  BY DEF Put

\* The count of p grows by one, that of what the slot had falls by one.
LEMMA CountOfPut ==
  ASSUME NEW f \in [Slots -> Things], NEW s \in Slots, NEW p \in Things, NEW o
  PROVE  /\ Count(f, o) \in Nat
         /\ Count(Put(f, s, p), o) = Count(f, o) + One(o, p) - One(o, f[s])
  <1> DEFINE g == Put(f, s, p)
  <1>1. /\ g \in [Slots -> Things] /\ g[s] = p
        /\ \A u \in Slots : u # s => g[u] = f[u]
    BY PutIs
  <1> HIDE DEF g
  <1> DEFINE F == {u \in Slots : f[u] = o}
             G == {u \in Slots : g[u] = o}
  <1>2. IsFiniteSet(F) /\ Cardinality(F) \in Nat
    BY SlotsAreFinite, FS_Subset, FS_CardinalityType
  <1>3. Count(f, o) = Cardinality(F) /\ Count(g, o) = Cardinality(G)
    BY DEF Count
  <1>4. CASE p = o /\ f[s] = o
    <2>1. F = G
      BY <1>1, <1>4
    <2> HIDE DEF F, G
    <2>2. One(o, p) = 1 /\ One(o, f[s]) = 1
      BY <1>4 DEF One
    <2> QED
      BY <1>2, <1>3, <2>1, <2>2 DEF g
  <1>5. CASE p = o /\ f[s] # o
    <2>1. G = F \union {s} /\ s \notin F
      BY <1>1, <1>5
    <2> HIDE DEF F, G
    <2>2. Cardinality(G) = Cardinality(F) + 1
      BY <1>2, <2>1, FS_AddElement
    <2> QED
      BY <1>2, <1>3, <1>5, <2>2 DEF One, g
  <1>6. CASE p # o /\ f[s] = o
    <2>1. G = F \ {s} /\ s \in F
      BY <1>1, <1>6
    <2> HIDE DEF F, G
    <2>2. Cardinality(G) = Cardinality(F) - 1
      BY <1>2, <2>1, FS_RemoveElement
    <2> QED
      BY <1>2, <1>3, <1>6, <2>2 DEF One, g
  <1>7. CASE p # o /\ f[s] # o
    <2>1. F = G
      BY <1>1, <1>7
    <2> HIDE DEF F, G
    <2> QED
      BY <1>2, <1>3, <1>7, <2>1 DEF One, g
  <1> QED
    BY <1>4, <1>5, <1>6, <1>7 DEF g

\* The references of RefsExact are the slots.
LEMMA ReferencesAre ==
  /\ Types => \A o \in Objects : References(o) = {s \in Slots : Referent[s] = o}
  /\ Types' => \A o \in Objects : References(o)' = {s \in Slots : Referent'[s] = o}
  <1>1. ASSUME Types, NEW o \in Objects
        PROVE  References(o) = {s \in Slots : Referent[s] = o}
    <2>1. Shows(Referent)
      BY <1>1, ReferentShows
    <2>2. \A s : s \in References(o) <=>
            \/ \E c \in Counters : s = Counter(c) /\ CounterHas(c) = o
            \/ \E t \in Threads : \/ s = Variable(t) /\ held[t] = o
                                  \/ s = Destructor(t) /\ inside[t].old = o
                                  \/ s = Stored(t) /\ inside[t].new = o
                                  \/ s = Returned(t) /\ ReturnedHas(t) = o
            \/ s = Module /\ Zero = o
      BY DEF References, Counter, Variable, Destructor, Stored, Returned, Module,
             CounterHas, ReturnedHas, Alive
    <2> HIDE DEF References
    <2> QED
      BY <2>1, <2>2, SlotsAre DEF Shows
  <1>2. ASSUME Types', NEW o \in Objects
        PROVE  References(o)' = {s \in Slots : Referent'[s] = o}
    <2>1. Shows(Referent)'
      BY <1>2, ReferentShows
    <2>2. \A s : s \in References(o)' <=>
            \/ \E c \in Counters : s = Counter(c) /\ CounterHas(c)' = o
            \/ \E t \in Threads : \/ s = Variable(t) /\ held'[t] = o
                                  \/ s = Destructor(t) /\ inside'[t].old = o
                                  \/ s = Stored(t) /\ inside'[t].new = o
                                  \/ s = Returned(t) /\ ReturnedHas(t)' = o
            \/ s = Module /\ Zero = o
      BY DEF References, Counter, Variable, Destructor, Stored, Returned, Module,
             CounterHas, ReturnedHas, Alive
    <2> HIDE DEF References
    <2> QED
      BY <2>1, <2>2, SlotsAre DEF Shows
  <1> QED
    BY <1>1, <1>2

LEMMA ReferencesAreSlots ==
  /\ Types => \A o \in Objects : Cardinality(References(o)) = Count(Referent, o)
  /\ Types' => \A o \in Objects : Cardinality(References(o)') = Count(Referent', o)
  BY ReferencesAre DEF Count

\* Py_INCREF and Py_DECREF, of nothing too.
LEMMA IncrefCounts ==
  ASSUME NEW r \in [Objects -> Nat], NEW p \in Things
  PROVE  /\ Incref(r, p) \in [Objects -> Nat]
         /\ \A o \in Objects : Incref(r, p)[o] = r[o] + One(o, p)
  BY DEF Things, Incref, One

LEMMA DecrefCounts ==
  ASSUME NEW r \in [Objects -> Nat], NEW p \in Things, p # None => r[p] > 0
  PROVE  /\ Decref(r, p) \in [Objects -> Nat]
         /\ \A o \in Objects : Decref(r, p)[o] = r[o] - One(o, p)
  BY DEF Things, Decref, One

LEMMA OneIs == /\ \A o, p : One(o, p) \in {0, 1}
               /\ \A o \in Objects : One(o, None) = 0
  BY DEF One

LEMMA BalancedBefore ==
  ASSUME RInv, NEW o \in Objects
  PROVE  /\ refs[o] + twice[o] = Count(Referent, o) + lost[o]
         /\ refs[o] \in Nat /\ lost[o] \in Nat /\ twice[o] \in Nat
         /\ Count(Referent, o) \in Nat
  <1>1. Cardinality(References(o)) = Count(Referent, o)
    BY ReferencesAreSlots DEF RInv, IInv
  <1>2. IsFiniteSet({s \in Slots : Referent[s] = o})
    BY SlotsAreFinite, FS_Subset
  <1>3. Count(Referent, o) \in Nat
    BY <1>2, FS_CardinalityType DEF Count
  <1> QED
    BY <1>1, <1>3 DEF RInv, Counted, RefTypes, RefsExact

\* A step that changes the slots and the counts alike keeps RefsExact.
LEMMA BalancedAfter ==
  ASSUME Types',
         \A o \in Objects : refs'[o] + twice'[o] = Count(Referent', o) + lost'[o]
  PROVE  RefsExact'
  <1>1. \A o \in Objects : Cardinality(References(o)') = Count(Referent', o)
    BY ReferencesAreSlots
  <1> QED
    BY <1>1 DEF RefsExact

\* Referent' is what shows the slots after the step.
LEMMA ReferentAfter ==
  ASSUME Types', NEW f, f \in [Slots -> Things],
         \A c \in Counters : f[Counter(c)] = CounterHas(c)',
         \A t \in Threads : /\ f[Variable(t)] = held'[t]
                            /\ f[Destructor(t)] = inside'[t].old
                            /\ f[Stored(t)] = inside'[t].new
                            /\ f[Returned(t)] = ReturnedHas(t)',
         f[Module] = Zero
  PROVE  Referent' = f
  <1>1. Shows(Referent)'
    BY ReferentShows
  <1>2. /\ Referent' \in [Slots -> Things]
        /\ \A c \in Counters : Referent'[Counter(c)] = f[Counter(c)]
        /\ \A t \in Threads : /\ Referent'[Variable(t)] = f[Variable(t)]
                              /\ Referent'[Destructor(t)] = f[Destructor(t)]
                              /\ Referent'[Stored(t)] = f[Stored(t)]
                              /\ Referent'[Returned(t)] = f[Returned(t)]
        /\ Referent'[Module] = f[Module]
    BY <1>1 DEF Shows
  <1> QED
    BY <1>2, SameOnSlots

LEMMA ReceiveCounts ==
  ASSUME Types, NEW t \in Threads, NEW r \in [Objects -> Nat],
         NEW o \in Things, Receive(t, r, o)
  PROVE  /\ held' = [held EXCEPT ![t] = o]
         /\ refs' \in [Objects -> Nat]
         /\ \A x \in Objects : refs'[x] = r[x] - One(x, held[t])
  <1>1. /\ held[t] \in Things /\ refs' = Decref(r, held[t])
        /\ held[t] # None => r[held[t]] > 0
    BY DEF Things, Types, Receive
  <1> QED
    BY <1>1, DecrefCounts DEF Receive

\* What the counter gives up, less what it still had, is given up twice.
LEMMA GiveUpCounts ==
  ASSUME RInv, NEW c \in Alive, GiveUp(c)
  PROVE  /\ twice' \in [Objects -> Nat]
         /\ \A x \in Objects : twice'[x] = twice[x] + One(x, int_value[c])
                                             - One(x, CounterHas(c))
  <1>1. /\ int_value[c] \in Things /\ twice \in [Objects -> Nat]
        /\ \A x, y : One(x, y) \in {0, 1}
        /\ \A x \in Objects : One(x, None) = 0
    BY OneIs DEF RInv, IInv, Types, Counted, RefTypes, Alive, Things
  <1>2. CASE c \in released
    <2>1. twice' = Incref(twice, int_value[c]) /\ CounterHas(c) = None
      BY <1>2 DEF GiveUp, CounterHas
    <2>2. /\ twice' \in [Objects -> Nat]
          /\ \A x \in Objects : twice'[x] = twice[x] + One(x, int_value[c])
      BY <1>1, <2>1, IncrefCounts
    <2> QED
      BY <1>1, <2>1, <2>2
  <1>3. CASE c \notin released
    <2>1. twice' = twice /\ CounterHas(c) = int_value[c]
      BY <1>3 DEF GiveUp, CounterHas
    <2> QED
      BY <1>1, <2>1
  <1> QED
    BY <1>2, <1>3

\* An integer comes into a variable.
LEMMA VariableCounted ==
  ASSUME RInv, IInv', NEW t \in Threads, NEW p \in Things,
         Receive(t, Incref(refs, p), p), UNCHANGED <<int_value, inside, history>>
  PROVE  Counted'
  <1>1. /\ Types /\ Types' /\ RefTypes /\ ReleasedWait /\ Shows(Referent)
        /\ UNCHANGED <<lost, twice, released, kept>>
    BY ReferentShows DEF RInv, Counted, IInv, history
  <1>2. /\ Incref(refs, p) \in [Objects -> Nat]
        /\ \A x \in Objects : Incref(refs, p)[x] = refs[x] + One(x, p)
    BY <1>1, IncrefCounts DEF RefTypes
  <1>3. /\ held' = [held EXCEPT ![t] = p] /\ refs' \in [Objects -> Nat]
        /\ \A x \in Objects : refs'[x] = Incref(refs, p)[x] - One(x, held[t])
    BY <1>1, <1>2, ReceiveCounts
  <1> DEFINE f == Put(Referent, Variable(t), p)
  <1>4. Variable(t) \in Slots /\ Referent[Variable(t)] = held[t]
    BY <1>1, SlotsAre DEF Shows
  <1>5. /\ Referent \in [Slots -> Things] /\ f \in [Slots -> Things]
        /\ f[Variable(t)] = p /\ \A s \in Slots : s # Variable(t) => f[s] = Referent[s]
    BY <1>1, <1>4, PutIs DEF Shows
  <1>6. Referent' = f
    <2>1. /\ \A c \in Counters : CounterHas(c)' = CounterHas(c)
          /\ \A u \in Threads : ReturnedHas(u)' = ReturnedHas(u)
      BY <1>1 DEF CounterHas, ReturnedHas
    <2>2. /\ \A c \in Counters : f[Counter(c)] = CounterHas(c)'
          /\ f[Module] = Zero
          /\ \A u \in Threads : /\ f[Variable(u)] = held'[u]
                                /\ f[Destructor(u)] = inside'[u].old
                                /\ f[Stored(u)] = inside'[u].new
                                /\ f[Returned(u)] = ReturnedHas(u)'
      BY <1>1, <1>3, <1>5, <2>1, SlotsAre, SlotsDiffer DEF Shows, Types
    <2> HIDE DEF f
    <2> QED
      BY <1>1, <1>5, <2>2, ReferentAfter
  <1> HIDE DEF f
  <1>7. RefTypes' /\ ReleasedWait'
    BY <1>1, <1>3 DEF RefTypes, ReleasedWait, Alive, Waiting
  <1>8. ASSUME NEW x \in Objects
        PROVE  refs'[x] + twice'[x] = Count(Referent', x) + lost'[x]
    <2>1. /\ Count(Referent', x) = Count(Referent, x) + One(x, p) - One(x, held[t])
          /\ Count(Referent, x) \in Nat
      BY <1>4, <1>5, <1>6, CountOfPut DEF f
    <2>2. /\ refs'[x] = Incref(refs, p)[x] - One(x, held[t])
          /\ Incref(refs, p)[x] = refs[x] + One(x, p)
          /\ lost'[x] = lost[x] /\ twice'[x] = twice[x]
          /\ One(x, p) \in Int /\ One(x, held[t]) \in Int
      BY <1>1, <1>2, <1>3, OneIs
    <2>3. /\ refs[x] + twice[x] = Count(Referent, x) + lost[x]
          /\ refs[x] \in Nat /\ lost[x] \in Nat /\ twice[x] \in Nat
      BY BalancedBefore
    <2> QED
      BY ONLY <2>1, <2>2, <2>3
  <1> QED
    BY <1>1, <1>7, <1>8, BalancedAfter DEF Counted

\* Nobody gets or gives a reference.
LEMMA NothingCounted ==
  ASSUME RInv, IInv', kept' \in SUBSET Counters,
         UNCHANGED <<refs, int_value, held, inside, lost, released, twice>>
  PROVE  Counted'
  <1>1. /\ RefTypes /\ ReleasedWait /\ RefsExact /\ Types /\ Types'
        /\ Shows(Referent)
    BY ReferentShows DEF RInv, Counted, IInv
  <1>2. /\ \A c \in Counters : CounterHas(c)' = CounterHas(c)
        /\ \A u \in Threads : ReturnedHas(u)' = ReturnedHas(u)
    BY DEF CounterHas, ReturnedHas
  <1>3. Referent' = Referent
    BY <1>1, <1>2, ReferentAfter DEF Shows
  <1>4. RefTypes' /\ ReleasedWait'
    BY <1>1 DEF RefTypes, ReleasedWait, Alive, Waiting
  <1>5. \A o \in Objects : Cardinality(References(o)') = Cardinality(References(o))
    BY <1>1, <1>3, ReferencesAreSlots
  <1>6. RefsExact'
    BY <1>1, <1>5 DEF RefsExact
  <1> QED
    BY <1>4, <1>6 DEF Counted

\* An integer comes into a counter that did not exist.
LEMMA NewCounted ==
  ASSUME RInv, IInv', NEW t \in Threads, NEW c \in Counters, New(t, c)
  PROVE  Counted'
  <1>1. /\ Types /\ Types' /\ RefTypes /\ ReleasedWait /\ Shows(Referent)
        /\ int_value[c] = None /\ c \notin Alive /\ c \notin released
        /\ UNCHANGED <<held, inside, lost, released, twice, kept>>
    BY ReferentShows DEF RInv, Counted, IInv, New, history, ReleasedWait, Alive
  <1>2. PICK p \in Objects : int_value' = [int_value EXCEPT ![c] = p] /\ refs' = Incref(refs, p)
    <2>1. PICK value \in {held[t], Zero} \ {None} :
            int_value' = [int_value EXCEPT ![c] = value] /\ refs' = Incref(refs, value)
      BY DEF New
    <2>2. value \in Objects
      BY <1>1 DEF Types
    <2> QED
      BY <2>1, <2>2
  <1>3. /\ refs' \in [Objects -> Nat]
        /\ \A x \in Objects : refs'[x] = refs[x] + One(x, p)
    BY <1>1, <1>2, IncrefCounts DEF RefTypes, Things
  <1> DEFINE f == Put(Referent, Counter(c), p)
  <1>5. /\ Counter(c) \in Slots /\ Referent[Counter(c)] = None /\ p \in Things
        /\ Referent \in [Slots -> Things] /\ f \in [Slots -> Things]
        /\ f[Counter(c)] = p /\ \A s \in Slots : s # Counter(c) => f[s] = Referent[s]
    BY <1>1, SlotsAre, PutIs DEF Shows, CounterHas, Things
  <1>6. Referent' = f
    <2>1. /\ \A d \in Counters : CounterHas(d)' = IF d = c THEN p ELSE CounterHas(d)
          /\ \A u \in Threads : ReturnedHas(u)' = ReturnedHas(u)
      BY <1>1, <1>2 DEF CounterHas, ReturnedHas, Types
    <2>2. /\ \A d \in Counters : f[Counter(d)] = CounterHas(d)'
          /\ f[Module] = Zero
          /\ \A u \in Threads : /\ f[Variable(u)] = held'[u]
                                /\ f[Destructor(u)] = inside'[u].old
                                /\ f[Stored(u)] = inside'[u].new
                                /\ f[Returned(u)] = ReturnedHas(u)'
      BY <1>1, <1>5, <2>1, SlotsAre, SlotsDiffer DEF Shows
    <2> HIDE DEF f
    <2> QED
      BY <1>1, <1>5, <2>2, ReferentAfter
  <1> HIDE DEF f
  <1>7. RefTypes' /\ ReleasedWait'
    BY <1>1, <1>2, <1>3 DEF RefTypes, ReleasedWait, Alive, Waiting, Types
  <1>8. ASSUME NEW x \in Objects
        PROVE  refs'[x] + twice'[x] = Count(Referent', x) + lost'[x]
    <2>1. Count(Referent', x) = Count(Referent, x) + One(x, p) - One(x, None)
      BY <1>5, <1>6, CountOfPut DEF f
    <2>2. /\ refs'[x] = refs[x] + One(x, p) /\ lost'[x] = lost[x] /\ twice'[x] = twice[x]
          /\ One(x, p) \in Int /\ One(x, None) = 0
      BY <1>1, <1>3, OneIs
    <2>3. /\ refs[x] + twice[x] = Count(Referent, x) + lost[x]
          /\ refs[x] \in Nat /\ lost[x] \in Nat /\ twice[x] \in Nat
          /\ Count(Referent, x) \in Nat
      BY BalancedBefore
    <2> QED
      BY ONLY <2>1, <2>2, <2>3
  <1> QED
    BY <1>1, <1>7, <1>8, BalancedAfter DEF Counted

\* A counter goes and gives its integer back, or is kept with it for ever.
LEMMA DeallocCounted ==
  ASSUME RInv, IInv', NEW c \in Counters, Dealloc(c)
  PROVE  Counted'
  <1> DEFINE p == int_value[c]
  <1>1. /\ Types /\ Types' /\ RefTypes /\ ReleasedWait /\ Shows(Referent)
        /\ p \in Objects /\ refs[p] > 0 /\ c \notin released
        /\ int_value' = [int_value EXCEPT ![c] = None]
        /\ UNCHANGED <<held, inside, released, twice>> /\ kept' = kept \ {c}
    BY ReferentShows DEF RInv, Counted, IInv, Dealloc, Usable, Alive, Types, ReleasedWait
  <1>2. \/ lost' = Incref(lost, p) /\ refs' = refs
        \/ lost' = lost /\ refs' = Decref(refs, p)
    BY DEF Dealloc
  <1>3. /\ refs' \in [Objects -> Nat] /\ lost' \in [Objects -> Nat]
        /\ \A x \in Objects : refs'[x] - lost'[x] = refs[x] - lost[x] - One(x, p)
    <2>1. refs \in [Objects -> Nat] /\ lost \in [Objects -> Nat] /\ p \in Objects /\ refs[p] > 0
      BY <1>1 DEF RefTypes
    <2>2. CASE lost' = Incref(lost, p) /\ refs' = refs
      BY <2>1, <2>2 DEF Incref, One
    <2>3. CASE lost' = lost /\ refs' = Decref(refs, p)
      BY <2>1, <2>3 DEF Decref, One
    <2> QED
      BY <1>2, <2>2, <2>3
  <1> DEFINE f == Put(Referent, Counter(c), None)
  <1>5. /\ Counter(c) \in Slots /\ Referent[Counter(c)] = p /\ None \in Things
        /\ Referent \in [Slots -> Things] /\ f \in [Slots -> Things]
        /\ f[Counter(c)] = None /\ \A s \in Slots : s # Counter(c) => f[s] = Referent[s]
    BY <1>1, SlotsAre, PutIs DEF Shows, CounterHas, Things
  <1>6. Referent' = f
    <2>1. /\ \A d \in Counters : CounterHas(d)' = IF d = c THEN None ELSE CounterHas(d)
          /\ \A u \in Threads : ReturnedHas(u)' = ReturnedHas(u)
      BY <1>1 DEF CounterHas, ReturnedHas, Types
    <2>2. /\ \A d \in Counters : f[Counter(d)] = CounterHas(d)'
          /\ f[Module] = Zero
          /\ \A u \in Threads : /\ f[Variable(u)] = held'[u]
                                /\ f[Destructor(u)] = inside'[u].old
                                /\ f[Stored(u)] = inside'[u].new
                                /\ f[Returned(u)] = ReturnedHas(u)'
      BY <1>1, <1>5, <2>1, SlotsAre, SlotsDiffer DEF Shows
    <2> HIDE DEF f
    <2> QED
      BY <1>1, <1>5, <2>2, ReferentAfter
  <1> HIDE DEF f, p
  <1>7. RefTypes' /\ ReleasedWait'
    BY <1>1, <1>3 DEF RefTypes, ReleasedWait, Alive, Waiting, Types
  <1>8. ASSUME NEW x \in Objects
        PROVE  refs'[x] + twice'[x] = Count(Referent', x) + lost'[x]
    <2>1. Count(Referent', x) = Count(Referent, x) + One(x, None) - One(x, p)
      BY <1>5, <1>6, CountOfPut DEF f
    <2>2. /\ refs'[x] - lost'[x] = refs[x] - lost[x] - One(x, p)
          /\ One(x, p) \in Int /\ One(x, None) = 0 /\ refs'[x] \in Int /\ lost'[x] \in Int
          /\ twice'[x] = twice[x]
      BY <1>1, <1>3, OneIs
    <2>3. /\ refs[x] + twice[x] = Count(Referent, x) + lost[x]
          /\ refs[x] \in Nat /\ lost[x] \in Nat /\ twice[x] \in Nat
          /\ Count(Referent, x) \in Nat
      BY BalancedBefore
    <2> QED
      BY ONLY <2>1, <2>2, <2>3
  <1> QED
    BY <1>1, <1>7, <1>8, BalancedAfter DEF Counted

\* The slot s of f takes p, and the counts follow.
Takes(f, s, p, g) ==
  /\ g \in [Slots -> Things] /\ g[s] = p
  /\ \A x \in Slots : x # s => g[x] = f[x]
  /\ \A o \in Objects : /\ Count(f, o) \in Nat
                        /\ Count(g, o) = Count(f, o) + One(o, p) - One(o, f[s])

LEMMA SlotTakes ==
  ASSUME NEW f \in [Slots -> Things], NEW s \in Slots, NEW p \in Things
  PROVE  \E g \in [Slots -> Things] : Takes(f, s, p, g)
  <1>1. /\ Put(f, s, p) \in [Slots -> Things] /\ Put(f, s, p)[s] = p
        /\ \A x \in Slots : x # s => Put(f, s, p)[x] = f[x]
    BY PutIs
  <1>2. \A o \in Objects : /\ Count(f, o) \in Nat
                           /\ Count(Put(f, s, p), o) = Count(f, o) + One(o, p) - One(o, f[s])
    BY CountOfPut
  <1>3. Takes(f, s, p, Put(f, s, p))
    BY <1>1, <1>2 DEF Takes
  <1> QED
    BY <1>1, <1>3

\* Two slots change at once.
Take2(f, a, p, b, q, g) ==
  /\ g \in [Slots -> Things] /\ g[a] = p /\ g[b] = q
  /\ \A x \in Slots : x # a /\ x # b => g[x] = f[x]
  /\ \A o \in Objects : /\ Count(f, o) \in Nat
                        /\ Count(g, o) = Count(f, o) + One(o, p) + One(o, q)
                                           - One(o, f[a]) - One(o, f[b])

LEMMA SlotsTake2 ==
  ASSUME NEW f \in [Slots -> Things], NEW a \in Slots, NEW b \in Slots, a # b,
         NEW p \in Things, NEW q \in Things
  PROVE  \E g \in [Slots -> Things] : Take2(f, a, p, b, q, g)
  <1>1. PICK h \in [Slots -> Things] : Takes(f, a, p, h)
    BY SlotTakes
  <1>2. PICK g \in [Slots -> Things] : Takes(h, b, q, g)
    BY SlotTakes
  <1>3. /\ g[a] = p /\ g[b] = q
        /\ \A x \in Slots : x # a /\ x # b => g[x] = f[x]
        /\ h[b] = f[b]
    BY <1>1, <1>2 DEF Takes
  <1>4. ASSUME NEW o \in Objects
        PROVE  /\ Count(f, o) \in Nat
               /\ Count(g, o) = Count(f, o) + One(o, p) + One(o, q)
                                  - One(o, f[a]) - One(o, f[b])
    <2>1. /\ Count(f, o) \in Nat
          /\ Count(h, o) = Count(f, o) + One(o, p) - One(o, f[a])
          /\ Count(g, o) = Count(h, o) + One(o, q) - One(o, f[b])
      BY <1>1, <1>2, <1>3 DEF Takes
    <2>2. /\ One(o, p) \in Int /\ One(o, q) \in Int
          /\ One(o, f[a]) \in Int /\ One(o, f[b]) \in Int
      BY OneIs
    <2> QED
      BY <2>1, <2>2
  <1> QED
    BY <1>3, <1>4 DEF Take2

\* Five slots change at once.
Take5(f, a, p, b, q, c, r, d, t, e, v, g) ==
  /\ g \in [Slots -> Things]
  /\ g[a] = p /\ g[b] = q /\ g[c] = r /\ g[d] = t /\ g[e] = v
  /\ \A x \in Slots : x # a /\ x # b /\ x # c /\ x # d /\ x # e => g[x] = f[x]
  /\ \A o \in Objects :
       /\ Count(f, o) \in Nat
       /\ Count(g, o) = Count(f, o)
            + One(o, p) + One(o, q) + One(o, r) + One(o, t) + One(o, v)
            - One(o, f[a]) - One(o, f[b]) - One(o, f[c]) - One(o, f[d]) - One(o, f[e])

LEMMA SlotsTake5 ==
  ASSUME NEW f \in [Slots -> Things], NEW a \in Slots, NEW b \in Slots,
         NEW c \in Slots, NEW d \in Slots, NEW e \in Slots,
         a # b, a # c, a # d, a # e, b # c, b # d, b # e, c # d, c # e, d # e,
         NEW p \in Things, NEW q \in Things, NEW r \in Things, NEW t \in Things,
         NEW v \in Things
  PROVE  \E g \in [Slots -> Things] : Take5(f, a, p, b, q, c, r, d, t, e, v, g)
  <1>1. PICK h \in [Slots -> Things] : Take2(f, a, p, b, q, h)
    BY SlotsTake2
  <1>2. PICK k \in [Slots -> Things] : Take2(h, c, r, d, t, k)
    BY SlotsTake2
  <1>3. PICK g \in [Slots -> Things] : Takes(k, e, v, g)
    BY SlotTakes
  <1>4. /\ h[a] = p /\ h[b] = q /\ h[c] = f[c] /\ h[d] = f[d] /\ h[e] = f[e]
        /\ \A x \in Slots : x # a /\ x # b => h[x] = f[x]
    BY <1>1 DEF Take2
  <1>5. /\ k[a] = p /\ k[b] = q /\ k[c] = r /\ k[d] = t /\ k[e] = f[e]
        /\ \A x \in Slots : x # a /\ x # b /\ x # c /\ x # d => k[x] = f[x]
    BY <1>2, <1>4 DEF Take2
  <1>6. /\ g[a] = p /\ g[b] = q /\ g[c] = r /\ g[d] = t /\ g[e] = v
        /\ \A x \in Slots : x # a /\ x # b /\ x # c /\ x # d /\ x # e => g[x] = f[x]
    BY <1>3, <1>5 DEF Takes
  <1>7. ASSUME NEW o \in Objects
        PROVE  /\ Count(f, o) \in Nat
               /\ Count(g, o) = Count(f, o)
                    + One(o, p) + One(o, q) + One(o, r) + One(o, t) + One(o, v)
                    - One(o, f[a]) - One(o, f[b]) - One(o, f[c]) - One(o, f[d]) - One(o, f[e])
    <2>1. /\ Count(f, o) \in Nat
          /\ Count(h, o) = Count(f, o) + One(o, p) + One(o, q) - One(o, f[a]) - One(o, f[b])
      BY <1>1 DEF Take2
    <2>2. /\ Count(h, o) \in Nat
          /\ Count(k, o) = Count(h, o) + One(o, r) + One(o, t) - One(o, f[c]) - One(o, f[d])
      BY <1>2, <1>4 DEF Take2
    <2>3. /\ Count(k, o) \in Nat
          /\ Count(g, o) = Count(k, o) + One(o, v) - One(o, f[e])
      BY <1>3, <1>5 DEF Takes
    <2>4. \A x : One(o, x) \in Int
      BY OneIs
    <2> QED
      BY <2>1, <2>2, <2>3, <2>4
  <1> QED
    BY <1>6, <1>7 DEF Take5

\* __init__() or increase_counter() stores its integer at once.
LEMMA ReplaceAtOnceCounted ==
  ASSUME RInv, IInv', NEW t \in Threads, NEW c \in Alive, NEW new \in Objects,
         NEW returns \in BOOLEAN, NEW r \in [Objects -> Nat], NEW old, old = int_value[c],
         refs[old] > 0, GiveUp(c), Store(c, new),
         \A x \in Objects : r[x] = refs[x] + One(x, new)
                                     + One(x, IF returns THEN new ELSE None),
         IF returns THEN Receive(t, Decref(r, old), new)
                    ELSE refs' = Decref(r, old) /\ UNCHANGED held,
         UNCHANGED <<inside, lost, kept>>
  PROVE  Counted'
  <1> DEFINE last == IF returns THEN new ELSE None
             mine == IF returns THEN new ELSE held[t]
             had == IF returns THEN held[t] ELSE None
             has == CounterHas(c)
  <1>1. /\ Types /\ Types' /\ RefTypes /\ ReleasedWait /\ Shows(Referent)
        /\ c \in Counters /\ old \in Objects /\ new \in Things /\ mine \in Things
        /\ had \in Things /\ int_value' = [int_value EXCEPT ![c] = new]
        /\ released' = released \ {c}
    BY ReferentShows DEF RInv, Counted, IInv, Alive, Types, Things, Store
  <1>2. /\ Decref(r, old) \in [Objects -> Nat]
        /\ \A x \in Objects : Decref(r, old)[x] = r[x] - One(x, old)
    <2>1. r[old] >= refs[old] /\ refs[old] \in Nat
      BY <1>1, OneIs DEF RefTypes
    <2>2. r[old] > 0
      BY <1>1, <2>1
    <2> QED
      BY <1>1, <2>2, DecrefCounts DEF Things
  <1>3. /\ held' = [held EXCEPT ![t] = mine] /\ refs' \in [Objects -> Nat]
        /\ \A x \in Objects : refs'[x] = Decref(r, old)[x] - One(x, had)
    <2>1. CASE returns
      BY <1>1, <1>2, <2>1, ReceiveCounts
    <2>2. CASE ~returns
      <3>1. /\ refs' = Decref(r, old) /\ had = None /\ mine = held[t]
            /\ held' = held /\ held = [held EXCEPT ![t] = held[t]]
        BY <1>1, <2>2 DEF Types
      <3>2. ASSUME NEW x \in Objects PROVE refs'[x] = Decref(r, old)[x] - One(x, had)
        <4>1. One(x, had) = 0 /\ Decref(r, old)[x] \in Nat
          BY <1>2, <3>1, OneIs
        <4> QED
          BY <3>1, <4>1
      <3> QED
        BY <1>2, <3>1, <3>2
    <2> QED
      BY <2>1, <2>2
  <1>4. /\ Counter(c) \in Slots /\ Variable(t) \in Slots /\ Counter(c) # Variable(t)
        /\ Referent[Counter(c)] = has /\ Referent[Variable(t)] = held[t]
        /\ Referent \in [Slots -> Things]
    BY <1>1, SlotsAre, SlotsDiffer DEF Shows
  <1>5. PICK f \in [Slots -> Things] : Take2(Referent, Counter(c), new, Variable(t), mine, f)
    BY <1>1, <1>4, SlotsTake2
  <1>6. /\ f[Counter(c)] = new /\ f[Variable(t)] = mine
        /\ \A s \in Slots : s # Counter(c) /\ s # Variable(t) => f[s] = Referent[s]
        /\ \A o \in Objects :
             /\ Count(Referent, o) \in Nat
             /\ Count(f, o) = Count(Referent, o) + One(o, new) + One(o, mine)
                                - One(o, has) - One(o, held[t])
    BY <1>4, <1>5 DEF Take2
  <1>7. Referent' = f
    <2>1. /\ \A d \in Counters : CounterHas(d)' = IF d = c THEN new ELSE CounterHas(d)
          /\ \A u \in Threads : ReturnedHas(u)' = ReturnedHas(u)
      BY <1>1 DEF CounterHas, ReturnedHas, Types
    <2>2. /\ \A d \in Counters : f[Counter(d)] = CounterHas(d)'
          /\ f[Module] = Zero
      BY <1>1, <1>4, <1>6, <2>1, SlotsAre, SlotsDiffer DEF Shows
    <2>3. ASSUME NEW u \in Threads
          PROVE  /\ f[Variable(u)] = held'[u]
                 /\ f[Destructor(u)] = inside'[u].old
                 /\ f[Stored(u)] = inside'[u].new
                 /\ f[Returned(u)] = ReturnedHas(u)'
      <3>1. held'[u] = IF u = t THEN mine ELSE held[u]
        BY <1>1, <1>3 DEF Types
      <3> HIDE DEF mine
      <3> QED
        BY <1>1, <1>4, <1>6, <2>1, <3>1, SlotsAre, SlotsDiffer DEF Shows
    <2> QED
      BY <1>1, <1>6, <2>2, <2>3, ReferentAfter
  <1>8. /\ twice' \in [Objects -> Nat]
        /\ \A x \in Objects : twice'[x] = twice[x] + One(x, old) - One(x, has)
    BY GiveUpCounts
  <1>9. RefTypes' /\ ReleasedWait'
    <2>1. RefTypes'
      BY ONLY <1>1, <1>3, <1>8, UNCHANGED <<inside, lost, kept>> DEF RefTypes
    <2>2. ReleasedWait'
      BY <1>1 DEF ReleasedWait, Alive, Waiting, Types
    <2> QED
      BY <2>1, <2>2
  <1>10. ASSUME NEW x \in Objects
         PROVE  refs'[x] + twice'[x] = Count(Referent', x) + lost'[x]
    <2>1. Count(Referent', x) = Count(Referent, x) + One(x, new) + One(x, mine)
                                  - One(x, has) - One(x, held[t])
      BY <1>6, <1>7
    <2>2. /\ refs'[x] = r[x] - One(x, old) - One(x, had) /\ lost'[x] = lost[x]
          /\ r[x] = refs[x] + One(x, new) + One(x, last)
          /\ twice'[x] = twice[x] + One(x, old) - One(x, has)
      BY <1>2, <1>3, <1>8
    <2>3. One(x, mine) - One(x, held[t]) = One(x, last) - One(x, had)
      <3>1. One(x, None) = 0 /\ \A y : One(x, y) \in Int
        BY OneIs
      <3> QED
        BY <3>1
    <2>4. /\ One(x, new) \in Int /\ One(x, mine) \in Int /\ One(x, old) \in Int
          /\ One(x, held[t]) \in Int /\ One(x, last) \in Int /\ One(x, had) \in Int
          /\ One(x, has) \in Int
      BY OneIs
    <2>5. /\ refs[x] + twice[x] = Count(Referent, x) + lost[x]
          /\ refs[x] \in Nat /\ lost[x] \in Nat /\ twice[x] \in Nat
          /\ Count(Referent, x) \in Nat
      BY BalancedBefore
    <2> HIDE DEF mine, last, had, has
    <2> QED
      BY ONLY <2>1, <2>2, <2>3, <2>4, <2>5
  <1> QED
    BY <1>1, <1>9, <1>10, BalancedAfter DEF Counted

\* The call waits for a destructor, which has the counter's reference now.
LEMMA WaitCounted ==
  ASSUME RInv, IInv', NEW t \in Threads, NEW c \in Alive, NEW new \in Objects,
         NEW by, NEW returns \in BOOLEAN, NEW old \in Objects, old = int_value[c],
         inside[t] = Outside, GiveUp(c), released' = released \union {c},
         inside' = [inside EXCEPT ![t] = [counter |-> c, old |-> old, new |-> new,
                                          by |-> by, returns |-> returns]],
         refs' \in [Objects -> Nat],
         \A x \in Objects : refs'[x] = refs[x] + One(x, new)
                                         + One(x, IF returns THEN new ELSE None),
         UNCHANGED <<int_value, held, lost, kept>>
  PROVE  Counted'
  <1> DEFINE last == IF returns THEN new ELSE None
             has == CounterHas(c)
  <1>1. /\ Types /\ Types' /\ RefTypes /\ ReleasedWait /\ Shows(Referent)
        /\ c \in Counters /\ None \in Things /\ old \in Things /\ new \in Things
        /\ last \in Things /\ held[t] \in Things
    BY ReferentShows DEF RInv, Counted, IInv, Alive, Types, Things
  <1>2. /\ Outside.counter = None /\ Outside.old = None /\ Outside.new = None
        /\ Outside.returns = FALSE
    BY DEF Outside
  <1>3. /\ inside'[t].counter = c /\ inside'[t].old = old /\ inside'[t].new = new
        /\ inside'[t].returns = returns
        /\ \A u \in Threads \ {t} : inside'[u] = inside[u]
    BY <1>1 DEF Types
  <1>4. /\ Counter(c) \in Slots /\ Variable(t) \in Slots /\ Destructor(t) \in Slots
        /\ Stored(t) \in Slots /\ Returned(t) \in Slots
        /\ Counter(c) # Destructor(t) /\ Counter(c) # Stored(t) /\ Counter(c) # Returned(t)
        /\ Counter(c) # Variable(t) /\ Destructor(t) # Stored(t)
        /\ Destructor(t) # Returned(t) /\ Destructor(t) # Variable(t)
        /\ Stored(t) # Returned(t) /\ Stored(t) # Variable(t) /\ Returned(t) # Variable(t)
    BY <1>1, SlotsAre, SlotsDiffer
  <1>5. /\ Referent \in [Slots -> Things] /\ Referent[Counter(c)] = has
        /\ Referent[Destructor(t)] = None /\ Referent[Stored(t)] = None
        /\ Referent[Returned(t)] = None /\ Referent[Variable(t)] = held[t]
    BY <1>1, <1>2 DEF Shows, ReturnedHas
  <1> HIDE DEF last, has
  <1>6. PICK f \in [Slots -> Things] :
          Take5(Referent, Counter(c), None, Destructor(t), old, Stored(t), new,
                Returned(t), last, Variable(t), held[t], f)
    BY <1>1, <1>4, <1>5, SlotsTake5
  <1>7. /\ f[Counter(c)] = None /\ f[Destructor(t)] = old /\ f[Stored(t)] = new
        /\ f[Returned(t)] = last /\ f[Variable(t)] = held[t]
        /\ \A x \in Slots : /\ x # Counter(c) /\ x # Destructor(t) /\ x # Stored(t)
                            /\ x # Returned(t) /\ x # Variable(t)
                            => f[x] = Referent[x]
        /\ \A o \in Objects :
             /\ Count(Referent, o) \in Nat
             /\ Count(f, o) = Count(Referent, o) + One(o, None) + One(o, old) + One(o, new)
                  + One(o, last) + One(o, held[t]) - One(o, has) - One(o, None)
                  - One(o, None) - One(o, None) - One(o, held[t])
    BY <1>5, <1>6 DEF Take5
  <1>8. Referent' = f
    <2>2. \A d \in Counters : CounterHas(d)' = IF d = c THEN None ELSE CounterHas(d)
      BY <1>1 DEF CounterHas
    <2>3. \A u \in Threads : ReturnedHas(u)' = IF u = t THEN last ELSE ReturnedHas(u)
      BY <1>3 DEF ReturnedHas, last
    <2>4. /\ \A d \in Counters : f[Counter(d)] = CounterHas(d)'
          /\ f[Module] = Zero
      BY <1>1, <1>7, <2>2, SlotsAre, SlotsDiffer DEF Shows
    <2>5. ASSUME NEW u \in Threads
          PROVE  /\ f[Variable(u)] = held'[u]
                 /\ f[Destructor(u)] = inside'[u].old
                 /\ f[Stored(u)] = inside'[u].new
                 /\ f[Returned(u)] = ReturnedHas(u)'
      <3>1. CASE u = t
        BY <1>3, <1>7, <2>3, <3>1
      <3>2. CASE u # t
        <4>1. /\ f[Variable(u)] = Referent[Variable(u)]
              /\ f[Destructor(u)] = Referent[Destructor(u)]
              /\ f[Stored(u)] = Referent[Stored(u)]
              /\ f[Returned(u)] = Referent[Returned(u)]
          BY <1>1, <1>7, <3>2, SlotsAre, SlotsDiffer
        <4> QED
          BY <1>1, <1>3, <2>3, <3>2, <4>1 DEF Shows
      <3> QED
        BY <3>1, <3>2
    <2> QED
      BY <1>1, <2>4, <2>5, ReferentAfter
  <1>9. /\ twice' \in [Objects -> Nat]
        /\ \A x \in Objects : twice'[x] = twice[x] + One(x, old) - One(x, has)
    BY GiveUpCounts DEF has
  <1>10. RefTypes'
    BY <1>1, <1>9 DEF RefTypes
  <1>11. ReleasedWait'
    <2>1. \A d \in Counters : Waiting(d) => inside[t].counter # d
      BY <1>2, OutsideHasNoCounter
    <2>2. \A d \in Counters : Waiting(d) \/ d = c => Waiting(d)'
      BY <1>3, <2>1 DEF Waiting
    <2> QED
      BY <1>1, <2>2 DEF ReleasedWait, Alive
  <1>12. ASSUME NEW x \in Objects
         PROVE  refs'[x] + twice'[x] = Count(Referent', x) + lost'[x]
    <2>1. \A y : One(x, y) \in Int
      BY OneIs
    <2>2. Count(Referent', x) = Count(Referent, x) + One(x, old) - One(x, has)
                                  + One(x, new) + One(x, last)
      <3>1. One(x, None) = 0 /\ Count(Referent, x) \in Nat
        BY <1>7, OneIs
      <3>2. Count(Referent', x) = Count(Referent, x) + One(x, None) + One(x, old) + One(x, new)
              + One(x, last) + One(x, held[t]) - One(x, has) - One(x, None)
              - One(x, None) - One(x, None) - One(x, held[t])
        BY <1>7, <1>8
      <3> QED
        BY ONLY <2>1, <3>1, <3>2
    <2>3. /\ refs[x] + twice[x] = Count(Referent, x) + lost[x]
          /\ refs[x] \in Nat /\ lost[x] \in Nat /\ twice[x] \in Nat
          /\ Count(Referent, x) \in Nat
      BY BalancedBefore
    <2>4. /\ refs'[x] = refs[x] + One(x, new) + One(x, last) /\ lost'[x] = lost[x]
          /\ twice'[x] = twice[x] + One(x, old) - One(x, has)
      BY <1>9 DEF last
    <2> QED
      BY ONLY <2>1, <2>2, <2>3, <2>4
  <1> QED
    BY <1>1, <1>10, <1>11, <1>12, BalancedAfter DEF Counted

\* release-then-store: r has the references of what is stored and returned.
LEMMA ReplaceCounted ==
  ASSUME RInv, IInv', NEW t \in Threads, NEW c \in Counters, Usable(c), NEW new \in Objects,
         NEW by, NEW returns \in BOOLEAN, NEW r \in [Objects -> Nat],
         \A x \in Objects : r[x] = refs[x] + One(x, new)
                                     + One(x, IF returns THEN new ELSE None),
         inside[t] = Outside, Replace(t, c, r, new, by, returns),
         UNCHANGED <<lost, kept>>
  PROVE  Counted'
  <1>1. PICK old : old = int_value[c]
    OBVIOUS
  <1>2. c \in Alive /\ refs[old] > 0 /\ GiveUp(c)
    BY <1>1 DEF Replace, Usable
  <1>3. CASE /\ LastReference(r, old)
             /\ inside' = [inside EXCEPT ![t] = [counter |-> c, old |-> old, new |-> new,
                                                 by |-> by, returns |-> returns]]
             /\ released' = released \union {c}
             /\ refs' = r
             /\ UNCHANGED <<int_value, held>>
    <2>1. old \in Objects
      BY <1>3 DEF LastReference
    <2> QED
      BY <1>1, <1>2, <1>3, <2>1, WaitCounted
  <1>4. CASE /\ Store(c, new)
             /\ IF returns THEN Receive(t, Decref(r, old), new)
                           ELSE refs' = Decref(r, old) /\ UNCHANGED held
             /\ UNCHANGED inside
    BY <1>1, <1>2, <1>4, ReplaceAtOnceCounted
  <1> QED
    BY <1>1, <1>3, <1>4 DEF Replace

LEMMA ReinitCounted ==
  ASSUME RInv, IInv', NEW t \in Threads, NEW c \in Counters, Reinit(t, c)
  PROVE  Counted'
  <1>1. /\ inside[t] = Outside /\ Usable(c) /\ UNCHANGED <<lost, kept>>
        /\ Types /\ RefTypes
    BY DEF Reinit, Outer, RInv, IInv, Counted
  <1>2. \/ held[t] # None /\ Replace(t, c, Incref(refs, held[t]), held[t], 0, FALSE)
        \/ UNCHANGED <<refs, int_value, held, inside, released, twice>>
    BY DEF Reinit, Given
  <1>3. CASE held[t] # None /\ Replace(t, c, Incref(refs, held[t]), held[t], 0, FALSE)
    <2>1. held[t] \in Objects
      BY <1>1, <1>3 DEF Types
    <2>2. /\ Incref(refs, held[t]) \in [Objects -> Nat]
          /\ \A x \in Objects : Incref(refs, held[t])[x] = refs[x] + One(x, held[t])
      BY <1>1, <2>1, IncrefCounts DEF RefTypes, Things
    <2>3. \A x \in Objects : Incref(refs, held[t])[x] = refs[x] + One(x, held[t])
                               + One(x, IF FALSE THEN held[t] ELSE None)
      <3>1. ASSUME NEW x \in Objects
            PROVE  Incref(refs, held[t])[x] = refs[x] + One(x, held[t]) + One(x, None)
        <4>1. One(x, None) = 0 /\ One(x, held[t]) \in Int /\ refs[x] \in Nat
          BY <1>1, OneIs DEF RefTypes
        <4> QED
          BY <2>2, <4>1
      <3> QED
        BY <3>1
    <2> QED
      BY <1>1, <1>3, <2>1, <2>2, <2>3, ReplaceCounted
  <1>4. CASE UNCHANGED <<refs, int_value, held, inside, released, twice>>
    BY <1>1, <1>4, NothingCounted DEF RefTypes
  <1> QED
    BY <1>2, <1>3, <1>4

LEMMA IncreaseCounted ==
  ASSUME RInv, IInv', NEW t \in Threads, NEW c \in Counters, NEW by \in Increments,
         Increase_counter(t, c, by)
  PROVE  Counted'
  <1>1. /\ inside[t] = Outside /\ Usable(c) /\ UNCHANGED kept
        /\ Types /\ Types' /\ RefTypes /\ ReleasedWait /\ Shows(Referent)
    BY ReferentShows DEF Increase_counter, Outer, RInv, IInv, Counted
  <1>2. PICK sum \in Objects :
          \/ /\ Replace(t, c, Incref(Incref(refs, sum), sum), sum, by, TRUE)
             /\ UNCHANGED lost
          \/ /\ lost' = Incref(lost, sum) /\ refs' = Incref(refs, sum)
             /\ UNCHANGED <<int_value, held, inside, released, twice>>
    BY DEF Increase_counter
  <1>3. /\ Incref(refs, sum) \in [Objects -> Nat]
        /\ \A x \in Objects : Incref(refs, sum)[x] = refs[x] + One(x, sum)
    BY <1>1, IncrefCounts DEF RefTypes, Things
  <1>4. CASE /\ Replace(t, c, Incref(Incref(refs, sum), sum), sum, by, TRUE)
             /\ UNCHANGED lost
    <2> DEFINE r == Incref(Incref(refs, sum), sum)
    <2>1. /\ r \in [Objects -> Nat]
          /\ \A x \in Objects : r[x] = Incref(refs, sum)[x] + One(x, sum)
      BY <1>3, IncrefCounts DEF Things
    <2> HIDE DEF r
    <2>2. \A x \in Objects : r[x] = refs[x] + One(x, sum)
                                      + One(x, IF TRUE THEN sum ELSE None)
      BY <1>3, <2>1
    <2>3. Replace(t, c, r, sum, by, TRUE)
      BY <1>4 DEF r
    <2> QED
      BY <1>1, <1>4, <2>1, <2>2, <2>3, ReplaceCounted
  <1>5. CASE /\ lost' = Incref(lost, sum) /\ refs' = Incref(refs, sum)
             /\ UNCHANGED <<int_value, held, inside, released, twice>>
    <2>1. /\ lost' \in [Objects -> Nat]
          /\ \A x \in Objects : lost'[x] = lost[x] + One(x, sum)
      BY <1>1, <1>5 DEF RefTypes, Incref, One
    <2>2. /\ \A d \in Counters : CounterHas(d)' = CounterHas(d)
          /\ \A u \in Threads : ReturnedHas(u)' = ReturnedHas(u)
      BY <1>5 DEF CounterHas, ReturnedHas
    <2>3. Referent' = Referent
      BY <1>1, <1>5, <2>2, ReferentAfter DEF Shows
    <2>4. RefTypes' /\ ReleasedWait'
      BY <1>1, <1>3, <1>5, <2>1 DEF RefTypes, ReleasedWait, Alive, Waiting
    <2>5. ASSUME NEW x \in Objects
          PROVE  refs'[x] + twice'[x] = Count(Referent', x) + lost'[x]
      <3>1. One(x, sum) \in Int
        BY OneIs
      <3>2. /\ refs'[x] = refs[x] + One(x, sum) /\ lost'[x] = lost[x] + One(x, sum)
            /\ twice'[x] = twice[x] /\ Count(Referent', x) = Count(Referent, x)
        BY <1>3, <1>5, <2>1, <2>3
      <3>3. /\ refs[x] + twice[x] = Count(Referent, x) + lost[x]
            /\ refs[x] \in Nat /\ lost[x] \in Nat /\ twice[x] \in Nat
            /\ Count(Referent, x) \in Nat
        BY BalancedBefore
      <3> QED
        BY ONLY <3>1, <3>2, <3>3
    <2> QED
      BY <1>1, <2>4, <2>5, BalancedAfter DEF Counted
  <1> QED
    BY <1>2, <1>4, <1>5

\* The counter takes an integer and the program gets the old one, with the
\* counter's reference if it still has one.
LEMMA ExchangeCounted ==
  ASSUME RInv, IInv', NEW t \in Threads, NEW c \in Alive, NEW p \in Objects,
         Exchange(t, c, p), UNCHANGED <<inside, lost, kept>>
  PROVE  Counted'
  <1> DEFINE old == int_value[c]
             has == CounterHas(c)
  <1>1. /\ Types /\ Types' /\ RefTypes /\ ReleasedWait /\ Shows(Referent)
        /\ c \in Counters /\ None \in Things /\ old \in Things /\ p \in Things
        /\ held[t] \in Things
    BY ReferentShows DEF RInv, Counted, IInv, Alive, Types, Things
  <1>2. /\ int_value' = [int_value EXCEPT ![c] = p]
        /\ released' = released \ {c}
        /\ GiveUp(c) /\ Receive(t, Incref(refs, p), old)
    BY DEF Exchange, Store
  <1>3. /\ Incref(refs, p) \in [Objects -> Nat]
        /\ \A x \in Objects : Incref(refs, p)[x] = refs[x] + One(x, p)
    BY <1>1, IncrefCounts DEF RefTypes
  <1>4. /\ held' = [held EXCEPT ![t] = old] /\ refs' \in [Objects -> Nat]
        /\ \A x \in Objects : refs'[x] = Incref(refs, p)[x] - One(x, held[t])
    BY <1>1, <1>2, <1>3, ReceiveCounts
  <1>5. /\ twice' \in [Objects -> Nat]
        /\ \A x \in Objects : twice'[x] = twice[x] + One(x, old) - One(x, has)
    BY <1>2, GiveUpCounts
  <1>6. /\ Counter(c) \in Slots /\ Variable(t) \in Slots /\ Counter(c) # Variable(t)
        /\ Referent[Counter(c)] = has /\ Referent[Variable(t)] = held[t]
        /\ Referent \in [Slots -> Things]
    BY <1>1, SlotsAre, SlotsDiffer DEF Shows
  <1> HIDE DEF old, has
  <1>7. PICK f \in [Slots -> Things] : Take2(Referent, Counter(c), p, Variable(t), old, f)
    BY <1>1, <1>6, SlotsTake2
  <1>8. /\ f[Counter(c)] = p /\ f[Variable(t)] = old
        /\ \A s \in Slots : s # Counter(c) /\ s # Variable(t) => f[s] = Referent[s]
        /\ \A o \in Objects :
             Count(f, o) = Count(Referent, o) + One(o, p) + One(o, old)
                             - One(o, has) - One(o, held[t])
    BY <1>6, <1>7 DEF Take2
  <1>9. Referent' = f
    <2>1. /\ \A d \in Counters : CounterHas(d)' = IF d = c THEN p ELSE CounterHas(d)
          /\ \A u \in Threads : ReturnedHas(u)' = ReturnedHas(u)
      BY <1>1, <1>2 DEF CounterHas, ReturnedHas, Types
    <2>2. /\ \A d \in Counters : f[Counter(d)] = CounterHas(d)'
          /\ f[Module] = Zero
      BY <1>1, <1>8, <2>1, SlotsAre, SlotsDiffer DEF Shows
    <2>3. ASSUME NEW u \in Threads
          PROVE  /\ f[Variable(u)] = held'[u]
                 /\ f[Destructor(u)] = inside'[u].old
                 /\ f[Stored(u)] = inside'[u].new
                 /\ f[Returned(u)] = ReturnedHas(u)'
      <3>1. held'[u] = IF u = t THEN old ELSE held[u]
        BY <1>1, <1>4 DEF Types
      <3> QED
        BY <1>1, <1>8, <2>1, <3>1, SlotsAre, SlotsDiffer DEF Shows
    <2> QED
      BY <1>1, <2>2, <2>3, ReferentAfter
  <1>10. RefTypes' /\ ReleasedWait'
    <2>1. RefTypes'
      BY ONLY <1>1, <1>4, <1>5, UNCHANGED <<inside, lost, kept>> DEF RefTypes
    <2>2. ReleasedWait'
      BY <1>1, <1>2 DEF ReleasedWait, Alive, Waiting, Types
    <2> QED
      BY <2>1, <2>2
  <1>11. ASSUME NEW x \in Objects
         PROVE  refs'[x] + twice'[x] = Count(Referent', x) + lost'[x]
    <2>1. Count(Referent', x) = Count(Referent, x) + One(x, p) + One(x, old)
                                  - One(x, has) - One(x, held[t])
      BY <1>8, <1>9
    <2>2. /\ refs'[x] = Incref(refs, p)[x] - One(x, held[t])
          /\ Incref(refs, p)[x] = refs[x] + One(x, p)
          /\ twice'[x] = twice[x] + One(x, old) - One(x, has) /\ lost'[x] = lost[x]
      BY <1>3, <1>4, <1>5
    <2>3. /\ refs[x] + twice[x] = Count(Referent, x) + lost[x]
          /\ refs[x] \in Nat /\ lost[x] \in Nat /\ twice[x] \in Nat
          /\ Count(Referent, x) \in Nat
      BY BalancedBefore
    <2>4. /\ One(x, p) \in Int /\ One(x, old) \in Int /\ One(x, has) \in Int
          /\ One(x, held[t]) \in Int
      BY OneIs
    <2> QED
      BY ONLY <2>1, <2>2, <2>3, <2>4
  <1> QED
    BY <1>1, <1>10, <1>11, BalancedAfter DEF Counted

\* The destructor has ended: its reference, those of the call and that of
\* the variable go, and the counter and the variable take the result.  What
\* the counter had got in the meantime is lost.
LEMMA ResumeCounted ==
  ASSUME RInv, IInv', NEW t \in Threads, Resume(t)
  PROVE  Counted'
  <1> DEFINE call == inside[t]
             c == call.counter
             old == call.old
             new == call.new
             has == CounterHas(c)
             last == ReturnedHas(t)
             mine == IF call.returns THEN new ELSE held[t]
             had == IF call.returns THEN held[t] ELSE None
  <1>1. /\ Types /\ Types' /\ RefTypes /\ ReleasedWait /\ Shows(Referent)
        /\ PendingIsValid
    BY ReferentShows DEF RInv, Counted, IInv
  <1>2. /\ call # Outside /\ refs[old] > 0 /\ inside' = [inside EXCEPT ![t] = Outside]
        /\ int_value' = [int_value EXCEPT ![c] = new]
        /\ released' = released \ {c}
        /\ IF c \in released THEN UNCHANGED lost ELSE lost' = Incref(lost, int_value[c])
        /\ IF call.returns THEN Receive(t, Decref(refs, old), new)
                           ELSE refs' = Decref(refs, old) /\ UNCHANGED held
        /\ UNCHANGED <<twice, kept>>
    BY DEF Resume, Store
  <1>3. /\ c \in Counters /\ c \in Alive /\ new \in Objects /\ old \in Objects
        /\ call.returns \in BOOLEAN
    BY <1>1, <1>2, CallFields DEF PendingIsValid, Types, Call
  <1>4. /\ None \in Things /\ None \notin Counters /\ old \in Things /\ new \in Things
        /\ last \in Things /\ held[t] \in Things /\ mine \in Things /\ had \in Things
        /\ int_value[c] \in Things
    BY <1>1, <1>3 DEF Things, ReturnedHas, Types
  <1>5. /\ Decref(refs, old) \in [Objects -> Nat]
        /\ \A x \in Objects : Decref(refs, old)[x] = refs[x] - One(x, old)
    BY <1>1, <1>2, <1>4, DecrefCounts DEF RefTypes
  <1>6. /\ held' = [held EXCEPT ![t] = mine] /\ refs' \in [Objects -> Nat]
        /\ \A x \in Objects : refs'[x] = Decref(refs, old)[x] - One(x, had)
    <2>1. CASE call.returns
      BY <1>1, <1>2, <1>4, <1>5, <2>1, ReceiveCounts
    <2>2. CASE ~call.returns
      <3>1. /\ refs' = Decref(refs, old) /\ had = None /\ mine = held[t]
            /\ held' = held /\ held = [held EXCEPT ![t] = held[t]]
        BY <1>1, <1>2, <2>2 DEF Types
      <3>2. ASSUME NEW x \in Objects PROVE refs'[x] = Decref(refs, old)[x] - One(x, had)
        <4>1. One(x, had) = 0 /\ Decref(refs, old)[x] \in Nat
          BY <1>5, <3>1, OneIs
        <4> QED
          BY <3>1, <4>1
      <3> QED
        BY <1>5, <3>1, <3>2
    <2> QED
      BY <1>3, <2>1, <2>2
  <1>7. /\ lost' \in [Objects -> Nat]
        /\ \A x \in Objects : lost'[x] = lost[x] + One(x, has)
    <2>1. CASE c \in released
      <3>1. has = None /\ lost' = lost /\ lost \in [Objects -> Nat]
        BY <1>1, <1>2, <2>1 DEF CounterHas, RefTypes
      <3>2. \A x \in Objects : One(x, has) = 0
        BY <3>1, OneIs
      <3> QED
        BY ONLY <3>1, <3>2
    <2>2. CASE c \notin released
      <3>1. /\ has = int_value[c] /\ lost' = Incref(lost, int_value[c])
            /\ lost \in [Objects -> Nat]
        BY <1>1, <1>2, <2>2 DEF CounterHas, RefTypes
      <3> QED
        BY <1>4, <3>1, IncrefCounts
    <2> QED
      BY <2>1, <2>2
  <1>8. /\ inside'[t] = Outside /\ \A u \in Threads \ {t} : inside'[u] = inside[u]
        /\ Outside.counter = None /\ Outside.old = None /\ Outside.new = None
        /\ Outside.returns = FALSE
    BY <1>1, <1>2 DEF Types, Outside
  <1>9. /\ Counter(c) \in Slots /\ Variable(t) \in Slots /\ Destructor(t) \in Slots
        /\ Stored(t) \in Slots /\ Returned(t) \in Slots
        /\ Counter(c) # Destructor(t) /\ Counter(c) # Stored(t) /\ Counter(c) # Returned(t)
        /\ Counter(c) # Variable(t) /\ Destructor(t) # Stored(t)
        /\ Destructor(t) # Returned(t) /\ Destructor(t) # Variable(t)
        /\ Stored(t) # Returned(t) /\ Stored(t) # Variable(t) /\ Returned(t) # Variable(t)
    BY <1>3, SlotsAre, SlotsDiffer
  <1>10. /\ Referent \in [Slots -> Things] /\ Referent[Counter(c)] = has
         /\ Referent[Destructor(t)] = old /\ Referent[Stored(t)] = new
         /\ Referent[Returned(t)] = last /\ Referent[Variable(t)] = held[t]
    BY <1>1, <1>3 DEF Shows
  <1>11. RefTypes'
    BY <1>1, <1>2, <1>6, <1>7 DEF RefTypes
  <1>12. ReleasedWait'
    <2>1. ASSUME NEW d \in Counters, d \in released, d # c
          PROVE  d \in Alive' /\ Waiting(d)'
      <3>1. PICK u \in Threads : inside[u].counter = d
        BY <1>1, <2>1 DEF ReleasedWait, Waiting
      <3>2. inside'[u].counter = d
        BY <1>8, <2>1, <3>1
      <3>3. d \in Alive'
        BY <1>1, <1>2, <2>1 DEF ReleasedWait, Alive, Types
      <3> QED
        BY <3>2, <3>3 DEF Waiting
    <2>2. released \subseteq Counters
      BY <1>1 DEF ReleasedWait, Alive
    <2> HIDE DEF c
    <2> QED
      BY <1>2, <2>1, <2>2 DEF ReleasedWait
  <1>13. ASSUME NEW x \in Objects
         PROVE  One(x, mine) - One(x, held[t]) = One(x, last) - One(x, had)
    <2>1. One(x, None) = 0 /\ \A y : One(x, y) \in Int
      BY OneIs
    <2>2. \/ call.returns /\ mine = new /\ had = held[t] /\ last = new
          \/ ~call.returns /\ mine = held[t] /\ had = None /\ last = None
      BY <1>3 DEF ReturnedHas
    <2> HIDE DEF mine, had, last, new
    <2> QED
      BY <2>1, <2>2
  <1> HIDE DEF mine, had, last, new, old, c, has
  <1>14. PICK f \in [Slots -> Things] :
           Take5(Referent, Counter(c), new, Destructor(t), None, Stored(t), None,
                 Returned(t), None, Variable(t), mine, f)
    BY <1>4, <1>9, <1>10, SlotsTake5
  <1>15. /\ f[Counter(c)] = new /\ f[Destructor(t)] = None /\ f[Stored(t)] = None
         /\ f[Returned(t)] = None /\ f[Variable(t)] = mine
         /\ \A x \in Slots : /\ x # Counter(c) /\ x # Destructor(t) /\ x # Stored(t)
                             /\ x # Returned(t) /\ x # Variable(t)
                             => f[x] = Referent[x]
         /\ \A o \in Objects :
              Count(f, o) = Count(Referent, o) + One(o, new) + One(o, None) + One(o, None)
                   + One(o, None) + One(o, mine) - One(o, has) - One(o, old)
                   - One(o, new) - One(o, last) - One(o, held[t])
    BY <1>10, <1>14 DEF Take5
  <1>16. Referent' = f
    <2>1. \A d \in Counters : CounterHas(d)' = IF d = c THEN new ELSE CounterHas(d)
      BY <1>1, <1>2, <1>3 DEF CounterHas, Types
    <2>2. \A u \in Threads : ReturnedHas(u)' = IF u = t THEN None ELSE ReturnedHas(u)
      BY <1>8 DEF ReturnedHas
    <2>3. /\ \A d \in Counters : f[Counter(d)] = CounterHas(d)'
          /\ f[Module] = Zero
      BY <1>1, <1>3, <1>15, <2>1, SlotsAre, SlotsDiffer DEF Shows
    <2>4. ASSUME NEW u \in Threads
          PROVE  /\ f[Variable(u)] = held'[u]
                 /\ f[Destructor(u)] = inside'[u].old
                 /\ f[Stored(u)] = inside'[u].new
                 /\ f[Returned(u)] = ReturnedHas(u)'
      <3>1. held'[u] = IF u = t THEN mine ELSE held[u]
        BY <1>1, <1>6 DEF Types
      <3>2. CASE u = t
        BY <1>8, <1>15, <2>2, <3>1, <3>2
      <3>3. CASE u # t
        <4>1. /\ f[Variable(u)] = Referent[Variable(u)]
              /\ f[Destructor(u)] = Referent[Destructor(u)]
              /\ f[Stored(u)] = Referent[Stored(u)]
              /\ f[Returned(u)] = Referent[Returned(u)]
          BY <1>3, <1>15, <3>3, SlotsAre, SlotsDiffer
        <4> QED
          BY <1>1, <1>8, <2>2, <3>1, <3>3, <4>1 DEF Shows
      <3> QED
        BY <3>2, <3>3
    <2> QED
      BY <1>1, <2>3, <2>4, ReferentAfter
  <1>17. ASSUME NEW x \in Objects
         PROVE  refs'[x] + twice'[x] = Count(Referent', x) + lost'[x]
    <2>1. Count(Referent', x) = Count(Referent, x) + One(x, new) + One(x, None) + One(x, None)
            + One(x, None) + One(x, mine) - One(x, has) - One(x, old)
            - One(x, new) - One(x, last) - One(x, held[t])
      BY <1>15, <1>16
    <2>2. /\ refs'[x] = refs[x] - One(x, old) - One(x, had)
          /\ lost'[x] = lost[x] + One(x, has) /\ twice'[x] = twice[x]
      BY <1>2, <1>5, <1>6, <1>7
    <2>3. One(x, mine) - One(x, held[t]) = One(x, last) - One(x, had)
      BY <1>13
    <2>4. /\ refs[x] + twice[x] = Count(Referent, x) + lost[x]
          /\ refs[x] \in Nat /\ lost[x] \in Nat /\ twice[x] \in Nat
          /\ Count(Referent, x) \in Nat
      BY BalancedBefore
    <2>5. /\ One(x, None) = 0 /\ One(x, new) \in Int /\ One(x, mine) \in Int
          /\ One(x, has) \in Int /\ One(x, old) \in Int /\ One(x, last) \in Int
          /\ One(x, held[t]) \in Int /\ One(x, had) \in Int
      BY OneIs
    <2> QED
      BY ONLY <2>1, <2>2, <2>3, <2>4, <2>5
  <1> QED
    BY <1>1, <1>11, <1>12, <1>17, BalancedAfter DEF Counted

\* At the start the module has the only reference, to zero.
LEMMA InitCounted == Init => Counted
  <1> SUFFICES ASSUME Init PROVE Counted
    OBVIOUS
  <1>1. /\ Types /\ Shows(Referent) /\ released = {}
        /\ lost = [o \in Objects |-> 0] /\ twice = [o \in Objects |-> 0]
    BY InitHolds, ReferentShows DEF IInv, Init
  <1>2. /\ \A t \in Threads : inside[t] = Outside /\ held[t] = None
        /\ \A c \in Counters : int_value[c] = None
        /\ Outside.old = None /\ Outside.new = None /\ Outside.returns = FALSE
    BY DEF Init, Outside
  <1>3. /\ RefTypes /\ \A o \in Objects : refs[o] = IF o = Zero THEN 1 ELSE 0
    <2>1. /\ refs = [o \in Objects |-> IF o = Zero THEN 1 ELSE 0]
          /\ lost = [o \in Objects |-> 0] /\ twice = [o \in Objects |-> 0] /\ kept = {}
      BY DEF Init
    <2>2. /\ refs \in [Objects -> Nat] /\ lost \in [Objects -> Nat]
          /\ twice \in [Objects -> Nat]
          /\ \A o \in Objects : refs[o] = IF o = Zero THEN 1 ELSE 0
      BY ONLY <2>1
    <2> QED
      BY <2>1, <2>2 DEF RefTypes
  <1>4. ReleasedWait
    BY <1>1 DEF ReleasedWait
  <1>5. \A s \in Slots : Referent[s] = IF s = Module THEN Zero ELSE None
    <2>1. /\ \A c \in Counters : Referent[Counter(c)] = None
          /\ \A t \in Threads : /\ Referent[Variable(t)] = None
                                /\ Referent[Destructor(t)] = None
                                /\ Referent[Stored(t)] = None
                                /\ Referent[Returned(t)] = None
          /\ Referent[Module] = Zero
      BY <1>1, <1>2 DEF Shows, CounterHas, ReturnedHas
    <2> QED
      BY <2>1, SlotsAre, SlotsDiffer
  <1>6. ASSUME NEW o \in Objects
        PROVE  refs[o] + twice[o] = Cardinality(References(o)) + lost[o]
    <2>1. Cardinality(References(o)) = Count(Referent, o) /\ lost[o] = 0 /\ twice[o] = 0
      BY <1>1, ReferencesAreSlots
    <2>2. CASE o = Zero
      <3>1. {s \in Slots : Referent[s] = o} = {Module}
        BY <1>5, <2>2, SlotsAre
      <3>2. Count(Referent, o) = 1
        BY <3>1, FS_Singleton DEF Count
      <3> QED
        BY <1>3, <2>1, <2>2, <3>2
    <2>3. CASE o # Zero
      <3>1. {s \in Slots : Referent[s] = o} = {}
        BY <1>5, <2>3
      <3>2. Count(Referent, o) = 0
        BY <3>1, FS_EmptySet DEF Count
      <3> QED
        BY <1>3, <2>1, <2>3, <3>2
    <2> QED
      BY <2>2, <2>3
  <1>7. RefsExact
    BY <1>6 DEF RefsExact
  <1> QED
    BY <1>3, <1>4, <1>7 DEF Counted

LEMMA NextCounted == RInv /\ IInv' /\ [Next]_vars => Counted'
  <1> SUFFICES ASSUME RInv, IInv', [Next]_vars PROVE Counted'
    OBVIOUS
  <1>1. ASSUME NEW t \in Threads, NewInt(t) PROVE Counted'
    <2>1. PICK o \in Objects : Receive(t, Incref(refs, o), o)
      BY <1>1 DEF NewInt
    <2> QED
      BY <1>1, <2>1, VariableCounted DEF NewInt, Things
  <1>2. ASSUME NEW t \in Threads, DropInt(t) PROVE Counted'
    <2>1. Receive(t, Incref(refs, None), None) /\ None \in Things
      BY <1>2 DEF DropInt, Incref, Things
    <2> QED
      BY <1>2, <2>1, VariableCounted DEF DropInt
  <1>3. ASSUME NEW t \in Threads, Resume(t) PROVE Counted'
    BY <1>3, ResumeCounted
  <1>4. ASSUME NEW c \in Counters, Dealloc(c) PROVE Counted'
    BY <1>4, DeallocCounted
  <1>5. ASSUME NEW t \in Threads, NEW c \in Counters, New(t, c) PROVE Counted'
    BY <1>5, NewCounted
  <1>6. ASSUME NEW t \in Threads, NEW c \in Counters, Reinit(t, c) PROVE Counted'
    BY <1>6, ReinitCounted
  <1>7. ASSUME NEW t \in Threads, NEW c \in Counters, Int_(t, c) PROVE Counted'
    <2>1. int_value[c] \in Things
      BY <1>7 DEF RInv, IInv, Types, Things
    <2> QED
      BY <1>7, <2>1, VariableCounted DEF Int_
  <1>8. ASSUME NEW t \in Threads, NEW c \in Counters, Set(t, c) PROVE Counted'
    <2>1. /\ held[t] \in Objects /\ c \in Alive
          /\ Exchange(t, c, held[t]) /\ UNCHANGED <<inside, lost, kept>>
      BY <1>8 DEF Set, Usable, Given, RInv, IInv, Types
    <2> QED
      BY <2>1, ExchangeCounted
  <1>9. ASSUME NEW t \in Threads, NEW c \in Counters, NEW by \in Increments,
               Increase_counter(t, c, by)
        PROVE  Counted'
    BY <1>9, IncreaseCounted
  <1>10. ASSUME NEW t \in Threads, NEW c \in Counters, NEW d \in Counters,
                Test_and_set(t, c, d)
         PROVE  Counted'
    <2>1. /\ int_value[d] \in Objects /\ c \in Alive
          /\ UNCHANGED <<inside, lost>>
      BY <1>10 DEF Test_and_set, Usable, Alive, RInv, IInv, Types
    <2>2. \/ Exchange(t, c, int_value[d]) /\ UNCHANGED kept
          \/ kept' = kept \union {d} /\ UNCHANGED <<refs, int_value, held, released, twice>>
      BY <1>10 DEF Test_and_set
    <2>3. CASE Exchange(t, c, int_value[d]) /\ UNCHANGED kept
      BY <2>1, <2>3, ExchangeCounted
    <2>4. CASE kept' = kept \union {d} /\ UNCHANGED <<refs, int_value, held, released, twice>>
      <3>1. kept' \in SUBSET Counters
        BY <2>4 DEF RInv, Counted, RefTypes
      <3> QED
        BY <2>1, <2>4, <3>1, NothingCounted
    <2> QED
      BY <2>2, <2>3, <2>4
  <1>11. ASSUME NEW t \in Threads, NEW c \in Counters, NEW d \in Counters,
                NEW e \in Counters, Compare_and_set(t, c, d, e)
         PROVE  Counted'
    <2>1. /\ int_value[e] \in Objects /\ c \in Alive
          /\ Exchange(t, c, int_value[e]) /\ UNCHANGED <<inside, lost, kept>>
      BY <1>11 DEF Compare_and_set, Usable, Alive, RInv, IInv, Types
    <2> QED
      BY <2>1, ExchangeCounted
  <1>12. CASE UNCHANGED vars
    <2>1. UNCHANGED <<refs, int_value, held, inside, lost, released, twice, kept>>
      BY <1>12 DEF vars, history
    <2>2. kept' \in SUBSET Counters
      BY <2>1 DEF RInv, Counted, RefTypes
    <2> QED
      BY <2>1, <2>2, NothingCounted
  <1> QED
    BY <1>1, <1>2, <1>3, <1>4, <1>5, <1>6, <1>7, <1>8, <1>9, <1>10, <1>11, <1>12
       DEF Next

LEMMA RInvariance == Spec => []RInv
  <1>1. Init => RInv
    BY InitHolds, InitCounted DEF RInv
  <1>2. RInv /\ [Next]_vars => RInv'
    BY NextKeeps, NextCounted DEF RInv
  <1> QED
    BY <1>1, <1>2, PTL DEF Spec

-----------------------------------------------------------------------------
(* Whatever calls overlap, each integer's count is the number of its       *)
(* references and of those that failed or overwritten calls have left      *)
(* behind, less the times that a counter gave up an integer it had already *)
(* released: there is no other leak and no other way to free an integer    *)
(* under somebody (atomic.c:151-160, 199-218, 248-326).                    *)
THEOREM EveryReferenceCounts == Spec => []RefsExact
  <1>1. RInv => RefsExact
    BY DEF RInv, Counted
  <1> QED
    BY <1>1, RInvariance, PTL

(* A counter that refers to an integer it has released is one that a call  *)
(* waits for in __init__() or increase_counter() (atomic.c:158, 216): it   *)
(* exists, and the first store ends it.  No count falls below zero before  *)
(* the first use of an integer that was freed, and the other parts of the  *)
(* state are what they are declared as.                                    *)
THEOREM TypeCorrect == Spec => []TypeOK
  <1>1. RInv => TypeOK
    BY DEF RInv, IInv, Counted, Types, RefTypes, ReleasedWait, TypeOK
  <1> QED
    BY <1>1, RInvariance, PTL

(* Unless a counter gave it up twice, an integer that the interpreter has  *)
(* freed is in no variable, no call and no counter but those that have     *)
(* released it (atomic.c:151-160, 174, 199-218, 248-326).                  *)
THEOREM FreedIsUnused ==
  Spec => [](\A o \in Objects : refs[o] = 0 /\ twice[o] = 0 => References(o) = {})
  <1>1. ASSUME RInv, NEW o \in Objects, refs[o] = 0, twice[o] = 0
        PROVE  References(o) = {}
    <2>1. References(o) = {s \in Slots : Referent[s] = o}
      BY <1>1, ReferencesAre DEF RInv, IInv
    <2>2. IsFiniteSet(References(o))
      BY <2>1, SlotsAreFinite, FS_Subset
    <2>3. /\ Cardinality(References(o)) = Count(Referent, o)
          /\ Count(Referent, o) = 0
      <3>1. /\ refs[o] + twice[o] = Count(Referent, o) + lost[o]
            /\ lost[o] \in Nat /\ Count(Referent, o) \in Nat
        BY <1>1, BalancedBefore
      <3> QED
        BY <1>1, <2>1, <3>1 DEF Count
    <2> QED
      BY <2>2, <2>3, FS_EmptySet
  <1>2. RInv => \A o \in Objects : refs[o] = 0 /\ twice[o] = 0 => References(o) = {}
    BY <1>1
  <1> QED
    BY <1>2, RInvariance, PTL

=============================================================================
