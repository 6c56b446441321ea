---------------------------- MODULE CMCQueue_proofs ----------------------------
(***************************************************************************)
(* Proofs about CMCQueue: where every call and every token stands, the     *)
(* type correctness but for the signs of the two counters, the count of    *)
(* the messages, and that the queue uses its list as LinkedFifo allows.    *)
(* CMCQueueKept_proofs goes on to what is kept for whom.                   *)
(***************************************************************************)
EXTENDS CMCQueue, FiniteSetTheorems, SequenceTheorems, TLAPS

USE ProcsAssumption, BoundsAssumption
-----------------------------------------------------------------------------
(* The invariant, part by part.                                            *)

\* The types, without the bounds from below of the two counters.
Shapes == /\ items \in Seq(Item)
          /\ removed \in 0 .. Len(items)
          /\ oldest \in Int /\ newest \in Int
          /\ messages \in 0 .. SizeMod - 1
          /\ cleaning \in BOOLEAN /\ corrupt \in BOOLEAN
          /\ gil \in Procs \union {NoProc}
          /\ pc \in [Procs -> Places] /\ op \in [Procs -> Ops]
          /\ cur \in [Procs -> Pointer] /\ nxt \in [Procs -> Pointer]
          /\ own \in [Procs -> Pointer]
          /\ last \in [Tokens -> Pointer] /\ iter \in [Tokens -> Pointer]
          /\ answer \in [Tokens -> Nat]
          /\ setup \in Setups

\* Where each call can be.
Appending == {"append", "link", "count"}
Reading == {"pull", "acknowledge", "next"}
ModeOf(p) == /\ op[p] = "none" <=> pc[p] = "idle"
             /\ op[p] \in {"push", "subscribe"} => pc[p] \in Appending
             /\ op[p] = "unsubscribe" => pc[p] \notin {"load", "ack"}
             /\ op[p] \in Reading => pc[p] \in {"load", "ack"} \union Finishing
             /\ op[p] = "next" => pc[p] \in {"load", "return"}
             /\ p \in Publishers => op[p] \in {"none", "push"}
             /\ p \in Tokens =>
                  /\ op[p] # "push"
                  /\ op[p] = "subscribe" => last[p] = 0
                  /\ op[p] \in {"unsubscribe"} \union Reading => last[p] # 0
                  /\ op[p] \in Reading /\ pc[p] \notin {"load", "return"} => Marking(p)
Modes == \A p \in Procs : ModeOf(p)

\* One thread cleans.
Cleaning == {"scan", "reduce", "uncount", "delete", "resume", "unclean"}
OneCleaner == /\ \A p, q \in Procs : pc[p] \in Cleaning /\ pc[q] \in Cleaning => p = q
              /\ \A p \in Procs : pc[p] \in Cleaning => cleaning

\* An append has an item of its own, and only its call links it.
Holding == {"link", "count", "mark", "walk", "markOwn"}
Owns == /\ \A p, q \in Procs : own[p] # 0 /\ own[p] = own[q] => p = q
        /\ \A p \in Procs : pc[p] \in Holding => own[p] # 0
        /\ \A p \in Procs : pc[p] = "link" => ~items[own[p]].linked

\* The item that is about to leave the list is its head.
HeadIsThere == \A t \in Tokens : pc[t] = "reduce" =>
                 removed < Len(items) /\ items[removed + 1].linked

\* Where a token stands, and where the unsubscription of one has come to.
Pos(t) == IF op[t] = "subscribe" THEN own[t] ELSE IF Marking(t) THEN cur[t] ELSE last[t]
Leaving(t) == op[t] = "unsubscribe" /\ pc[t] \in Holding
From(t) == CASE pc[t] = "walk" -> cur[t] + 1
             [] pc[t] = "markOwn" -> own[t]
             [] pc[t] \notin {"walk", "markOwn"} -> cur[t]
Moving(t) == op[t] \in Reading /\ Marking(t) /\ pc[t] \in {"load", "ack"}
Placed(t) ==
  /\ Live(t) => Pos(t) > 0
  /\ op[t] = "unsubscribe" /\ pc[t] = "append" => cur[t] = last[t]
  /\ Leaving(t) => From(t) \in 1 .. own[t]
  /\ Leaving(t) /\ pc[t] # "markOwn" => cur[t] \in 1 .. own[t] - 1
  /\ pc[t] = "ack" => nxt[t] = cur[t] + 1
  /\ Moving(t) => /\ last[t] <= cur[t]
                  /\ \A k \in last[t] + 1 .. cur[t] : ~IsPayload(k)
Positions == \A t \in Tokens : Placed(t)

\* newest_subscribes counts the tokens that have entered and not left.
Entered(t) == \/ op[t] = "subscribe"
              \/ last[t] # 0 /\ (op[t] = "unsubscribe" => pc[t] \notin Finishing)
Subscribed == {t \in Tokens : Entered(t)}
NewestCounted == IsFiniteSet(Subscribed) /\ newest = Cardinality(Subscribed)

\* The sets that MessagesExact counts.
Added == {p \in Procs : pc[p] \in {"link", "count"}}
Uncounted == {p \in Procs : pc[p] = "uncount"}
MessagesCounted == IsFiniteSet(Added) /\ IsFiniteSet(Uncounted) /\ MessagesExact

-----------------------------------------------------------------------------
(* Arithmetic modulo the width of size_t.                                  *)

LEMMA ModRange == ASSUME NEW x \in Int PROVE x % SizeMod \in 0 .. SizeMod - 1
  OBVIOUS

LEMMA ModDef ==
  ASSUME NEW n \in Nat \ {0}, NEW x \in Int
  PROVE  x = (n * (x \div n)) + (x % n) /\ x \div n \in Int /\ x % n \in 0 .. n - 1
  OBVIOUS

\* Two remainders whose difference is a multiple of n are the same.
LEMMA SameRemainder ==
  ASSUME NEW n \in Nat \ {0}, NEW d \in Int,
         NEW r \in 0 .. n - 1, NEW s \in 0 .. n - 1, s - r = n * d
  PROVE  r = s
  <1>1. d <= 0
    <2>1. SUFFICES ASSUME d >= 1 PROVE FALSE
      OBVIOUS
    <2>2. n * d >= n
      BY <2>1
    <2> QED
      BY <2>2
  <1>2. d >= 0
    <2>1. SUFFICES ASSUME d <= -1 PROVE FALSE
      OBVIOUS
    <2>2. n * d <= -n
      BY <2>1
    <2> QED
      BY <2>2
  <1> QED
    BY <1>1, <1>2

LEMMA ModIs ==
  ASSUME NEW n \in Nat \ {0}, NEW x \in Int, NEW q \in Int, NEW r \in 0 .. n - 1,
         x = (n * q) + r
  PROVE  x % n = r
  <1>1. x = (n * (x \div n)) + (x % n) /\ x \div n \in Int /\ x % n \in 0 .. n - 1
    BY ModDef
  <1>2. PICK y : y = x % n
    OBVIOUS
  <1>3. PICK p : p = x \div n
    OBVIOUS
  <1>4. (n * q) + r = (n * p) + y /\ p \in Int /\ y \in 0 .. n - 1
    BY <1>1, <1>2, <1>3
  <1>5. y - r = n * (q - p)
    BY <1>4
  <1>6. PICK d \in Int : d = q - p
    BY <1>4
  <1>7. y - r = n * d
    BY <1>5, <1>6
  <1>8. r = y
    BY <1>4, <1>7, SameRemainder
  <1> QED
    BY <1>2, <1>8

LEMMA ModShift ==
  ASSUME NEW n \in Nat \ {0}, NEW x \in Int
  PROVE  /\ ((x % n) + 1) % n = (x + 1) % n
         /\ ((x % n) - 1) % n = (x - 1) % n
  <1>1. PICK q \in Int, r \in 0 .. n - 1 : x = (n * q) + r /\ x % n = r
    BY ModDef
  <1>2. (r + 1) % n = (x + 1) % n
    <2>1. CASE r + 1 < n
      <3>1. /\ x + 1 = (n * q) + (r + 1) /\ x + 1 \in Int
            /\ r + 1 \in 0 .. n - 1 /\ r + 1 \in Int
        BY <1>1, <2>1
      <3>2. (x + 1) % n = r + 1
        BY <3>1, ModIs
      <3>3. r + 1 = (n * 0) + (r + 1) /\ 0 \in Int
        OBVIOUS
      <3>4. (r + 1) % n = r + 1
        BY <3>1, <3>3, ModIs
      <3> QED
        BY <3>2, <3>4
    <2>2. CASE r + 1 = n
      <3>1. /\ x + 1 = (n * (q + 1)) + 0 /\ x + 1 \in Int
            /\ 0 \in 0 .. n - 1 /\ q + 1 \in Int /\ r + 1 \in Int
        BY <1>1, <2>2
      <3>2. (x + 1) % n = 0
        BY <3>1, ModIs
      <3>3. r + 1 = (n * 1) + 0 /\ 1 \in Int
        BY <2>2
      <3>4. (r + 1) % n = 0
        BY <3>1, <3>3, ModIs
      <3> QED
        BY <3>2, <3>4
    <2> QED
      BY <2>1, <2>2
  <1>3. (r - 1) % n = (x - 1) % n
    <2>1. CASE r > 0
      <3>1. /\ x - 1 = (n * q) + (r - 1) /\ x - 1 \in Int
            /\ r - 1 \in 0 .. n - 1 /\ r - 1 \in Int
        BY <1>1, <2>1
      <3>2. (x - 1) % n = r - 1
        BY <3>1, ModIs
      <3>3. r - 1 = (n * 0) + (r - 1) /\ 0 \in Int
        OBVIOUS
      <3>4. (r - 1) % n = r - 1
        BY <3>1, <3>3, ModIs
      <3> QED
        BY <3>2, <3>4
    <2>2. CASE r = 0
      <3>1. /\ x - 1 = (n * (q - 1)) + (n - 1) /\ x - 1 \in Int
            /\ n - 1 \in 0 .. n - 1 /\ q - 1 \in Int /\ r - 1 \in Int
        BY <1>1, <2>2
      <3>2. (x - 1) % n = n - 1
        BY <3>1, ModIs
      <3>3. r - 1 = (n * (-1)) + (n - 1) /\ -1 \in Int
        BY <2>2
      <3>4. (r - 1) % n = n - 1
        BY <3>1, <3>3, ModIs
      <3> QED
        BY <3>2, <3>4
    <2> QED
      BY <2>1, <2>2
  <1> QED
    BY <1>1, <1>2, <1>3

-----------------------------------------------------------------------------
(* What each step changes.                                                 *)

\* The thread p is at its next place and its locals are these; nobody else's
\* have changed.
Others(p) == \A q \in Procs \ {p} : /\ pc'[q] = pc[q] /\ op'[q] = op[q]
                                    /\ cur'[q] = cur[q] /\ nxt'[q] = nxt[q]
                                    /\ own'[q] = own[q]
Now(p, place, name, c, n, o) == /\ pc'[p] = place /\ op'[p] = name
                                /\ cur'[p] = c /\ nxt'[p] = n /\ own'[p] = o
                                /\ Others(p)

\* A step that follows the pointer to a freed item changes nothing else.
Still == UNCHANGED <<shared, local, token>>

LEMMA PushIs ==
  ASSUME Shapes, NEW p \in Publishers, Push(p)
  PROVE  /\ pc[p] = "idle" /\ Now(p, "append", "push", cur[p], nxt[p], own[p])
         /\ UNCHANGED <<shared, token>>
  BY DEF Push, Enter, Goto, Shapes, Now, Others, Procs

LEMMA SubscribeIs ==
  ASSUME Shapes, NEW t \in Tokens, Subscribe(t)
  PROVE  /\ pc[t] = "idle" /\ last[t] = 0
         /\ Now(t, "append", "subscribe", cur[t], nxt[t], own[t])
         /\ newest' = newest + 1
         /\ UNCHANGED <<items, removed, oldest, messages, cleaning, setup, token>>
  BY DEF Subscribe, Enter, Goto, Shapes, Now, Others, Procs

LEMMA UnsubscribeIs ==
  ASSUME Shapes, NEW t \in Tokens, Unsubscribe(t)
  PROVE  /\ pc[t] = "idle" /\ last[t] # 0
         /\ Now(t, "append", "unsubscribe", last[t], nxt[t], own[t])
         /\ UNCHANGED <<shared, token>>
  BY DEF Unsubscribe, Enter, Goto, Shapes, Now, Others, Procs

LEMMA LookIs ==
  ASSUME Shapes, NEW t \in Tokens, Pull(t) \/ Acknowledge(t) \/ LookNext(t)
  PROVE  /\ pc[t] = "idle" /\ last[t] # 0
         /\ \/ \E name \in {"pull", "acknowledge"} :
                 Now(t, "load", name, last[t], nxt[t], own[t])
            \/ \E c : setup.manual_acknowledge /\ Now(t, "load", "next", c, nxt[t], own[t])
         /\ UNCHANGED <<shared, last>>
  BY DEF Pull, Acknowledge, LookNext, EnterPull, Enter, Goto, Shapes, Now, Others, Procs

LEMMA AppendItemIs ==
  ASSUME Shapes, NEW p \in Procs, AppendItem(p)
  PROVE  /\ pc[p] = "append"
         /\ Now(p, "link", op[p], cur[p], nxt[p], Len(items) + 1)
         /\ items' = Append(items, [type |-> ItemType[op[p]], reads |-> 0, linked |-> FALSE])
         /\ UNCHANGED <<removed, oldest, newest, messages, cleaning, setup, token>>
  BY DEF AppendItem, At, Goto, Shapes, Now, Others

LEMMA LinkIs ==
  ASSUME Shapes, NEW p \in Procs, Link(p)
  PROVE  /\ pc[p] = "link" /\ Now(p, "count", op[p], cur[p], nxt[p], own[p])
         /\ items' = [items EXCEPT ![own[p]].linked = TRUE]
         /\ UNCHANGED <<removed, oldest, newest, messages, cleaning, setup, token>>
  BY DEF Link, At, Goto, Shapes, Now, Others

LEMMA CountIs ==
  ASSUME Shapes, NEW p \in Procs, Count(p)
  PROVE  /\ pc[p] = "count" /\ messages' = (messages + 1) % SizeMod
         /\ \/ op[p] = "push" /\ Now(p, "idle", "none", 0, 0, 0) /\ UNCHANGED last
            \/ /\ op[p] = "subscribe" /\ Now(p, "idle", "none", 0, 0, 0)
               /\ last' = [last EXCEPT ![p] = own[p]]
            \/ /\ op[p] \notin {"push", "subscribe"}
               /\ Now(p, "mark", op[p], cur[p], nxt[p], own[p]) /\ UNCHANGED last
         /\ UNCHANGED <<items, removed, oldest, newest, cleaning, setup>>
  BY DEF Count, At, Goto, Exit, Shapes, Now, Others

LEMMA MarkItemIs ==
  ASSUME Shapes, NEW t \in Tokens, MarkItem(t)
  PROVE  \/ Still
         \/ /\ pc[t] = "mark" /\ Now(t, "walk", op[t], cur[t], nxt[t], own[t])
            /\ Mark(cur[t])
            /\ UNCHANGED <<removed, oldest, newest, messages, cleaning, setup, token>>
  BY DEF MarkItem, At, Goto, Using, Shapes, Now, Others, Procs, Still

LEMMA WalkIs ==
  ASSUME Shapes, NEW t \in Tokens, Walk(t)
  PROVE  \/ Still
         \/ /\ pc[t] = "walk"
            /\ \/ Now(t, "markOwn", op[t], NextOf(cur[t]), nxt[t], own[t])
               \/ /\ NextOf(cur[t]) \notin {0, own[t]}
                  /\ Now(t, "mark", op[t], NextOf(cur[t]), nxt[t], own[t])
            /\ UNCHANGED <<shared, token>>
  BY DEF Walk, At, Goto, Using, Shapes, Now, Others, Procs, Still

LEMMA MarkOwnIs ==
  ASSUME Shapes, NEW t \in Tokens, MarkOwn(t)
  PROVE  \/ Still
         \/ /\ pc[t] = "markOwn" /\ Now(t, "leave", op[t], cur[t], nxt[t], own[t])
            /\ Mark(own[t])
            /\ UNCHANGED <<removed, oldest, newest, messages, cleaning, setup, token>>
  BY DEF MarkOwn, At, Goto, Using, Shapes, Now, Others, Procs, Still

LEMMA LeaveQueueIs ==
  ASSUME Shapes, NEW t \in Tokens, LeaveQueue(t)
  PROVE  /\ pc[t] = "leave" /\ Now(t, "clean", op[t], cur[t], nxt[t], own[t])
         /\ newest' = newest - 1
         /\ UNCHANGED <<items, removed, oldest, messages, cleaning, setup, token>>
  BY DEF LeaveQueue, At, Goto, Shapes, Now, Others, Procs

\* At the end of the list, at a message, at another item.
LEMMA LoadIs ==
  ASSUME Shapes, NEW t \in Tokens, Load(t)
  PROVE  \/ Still
         \/ /\ pc[t] = "load" /\ UNCHANGED <<shared, token>>
            /\ LET n == NextOf(cur[t])
                   end == IF Marking(t) THEN "clean" ELSE "return"
               IN \/ /\ n = 0 /\ Now(t, end, op[t], cur[t], 0, own[t])
                  \/ /\ n # 0 /\ Marking(t) /\ Now(t, "ack", op[t], cur[t], n, own[t])
                  \/ /\ n # 0 /\ ~Marking(t)
                     /\ \E place \in {"load", "return"} : Now(t, place, op[t], n, 0, own[t])
  BY DEF Load, Arrive, At, Goto, Using, Shapes, Now, Others, Procs, Still

LEMMA AckIs ==
  ASSUME Shapes, NEW t \in Tokens, Ack(t)
  PROVE  \/ Still
         \/ /\ pc[t] = "ack" /\ Mark(cur[t])
            /\ UNCHANGED <<removed, oldest, newest, messages, cleaning, setup, token>>
            /\ LET n == nxt[t]
                   end == IF Marking(t) THEN "clean" ELSE "return"
               IN \/ /\ n = 0 /\ Now(t, end, op[t], cur[t], 0, own[t])
                  \/ /\ n # 0 /\ items[n].type = "payload"
                     /\ Now(t, end, op[t], n, 0, own[t])
                  \/ /\ n # 0 /\ items[n].type # "payload"
                     /\ Now(t, "load", op[t], n, 0, own[t])
  BY DEF Ack, Arrive, At, Goto, Using, Shapes, Now, Others, Procs, Still

LEMMA ReturnIs ==
  ASSUME Shapes, NEW t \in Tokens, Return(t)
  PROVE  \/ Still
         \/ /\ pc[t] = "return" /\ Now(t, "idle", "none", 0, 0, 0) /\ UNCHANGED shared
            /\ \/ op[t] = "unsubscribe" /\ last' = [last EXCEPT ![t] = 0]
               \/ /\ op[t] \in {"pull", "acknowledge"}
                  /\ last' = [last EXCEPT ![t] = IF Marking(t) THEN cur[t] ELSE last[t]]
               \/ op[t] = "next" /\ UNCHANGED last
  BY DEF Return, At, Goto, Exit, Using, Shapes, Now, Others, Procs, Still

LEMMA CleanEnterIs ==
  ASSUME Shapes, NEW t \in Tokens, CleanEnter(t)
  PROVE  /\ pc[t] = "clean" /\ cleaning'
         /\ \/ cleaning /\ Now(t, "return", op[t], cur[t], nxt[t], own[t])
            \/ ~cleaning /\ Now(t, "scan", op[t], cur[t], nxt[t], own[t])
         /\ UNCHANGED <<items, removed, oldest, newest, messages, setup, token>>
  BY DEF CleanEnter, At, Goto, Shapes, Now, Others, Procs

LEMMA ScanIs ==
  ASSUME Shapes, NEW t \in Tokens, Scan(t)
  PROVE  /\ pc[t] = "scan"
         /\ \/ /\ HeadItem = 0 \/ Dirty(HeadItem)
               /\ Now(t, "unclean", op[t], cur[t], nxt[t], own[t]) /\ UNCHANGED oldest
            \/ /\ HeadItem # 0 /\ ~Dirty(HeadItem)
               /\ Now(t, "reduce", op[t], cur[t], nxt[t], own[t])
               /\ oldest' = oldest + Shift(items[HeadItem].type)
         /\ UNCHANGED <<items, removed, newest, messages, cleaning, setup, token>>
  BY DEF Scan, At, Goto, Shapes, Now, Others, Procs

LEMMA ReduceIs ==
  ASSUME Shapes, NEW t \in Tokens, Reduce(t)
  PROVE  /\ pc[t] = "reduce" /\ Now(t, "uncount", op[t], cur[t], nxt[t], own[t])
         /\ removed' = removed + 1 /\ MayReduce
         /\ UNCHANGED <<items, oldest, newest, messages, cleaning, setup, token>>
  BY DEF Reduce, At, Goto, Shapes, Now, Others, Procs

LEMMA UncountIs ==
  ASSUME Shapes, NEW t \in Tokens, Uncount(t)
  PROVE  /\ pc[t] = "uncount" /\ Now(t, "delete", op[t], cur[t], nxt[t], own[t])
         /\ messages' = (messages - 1) % SizeMod
         /\ UNCHANGED <<items, removed, oldest, newest, cleaning, setup, token>>
  BY DEF Uncount, Decremented, At, Goto, Shapes, Now, Others, Procs

LEMMA DeleteIs ==
  ASSUME Shapes, NEW t \in Tokens, Delete(t)
  PROVE  /\ pc[t] = "delete" /\ UNCHANGED <<shared, token>>
         /\ \E place \in {"scan", "resume"} : Now(t, place, op[t], cur[t], nxt[t], own[t])
  BY DEF Delete, At, Goto, Shapes, Now, Others, Procs

LEMMA ResumeIs ==
  ASSUME Shapes, NEW t \in Tokens, Resume(t)
  PROVE  /\ pc[t] = "resume" /\ Now(t, "scan", op[t], cur[t], nxt[t], own[t])
         /\ UNCHANGED <<shared, token>>
  BY DEF Resume, Goto, Shapes, Now, Others, Procs

LEMMA CleanExitIs ==
  ASSUME Shapes, NEW t \in Tokens, CleanExit(t)
  PROVE  /\ pc[t] = "unclean" /\ Now(t, "return", op[t], cur[t], nxt[t], own[t])
         /\ cleaning' = FALSE
         /\ UNCHANGED <<items, removed, oldest, newest, messages, setup, token>>
  BY DEF CleanExit, At, Goto, Shapes, Now, Others, Procs

-----------------------------------------------------------------------------
(* The list of items.                                                      *)

LEMMA AppendedItem ==
  ASSUME NEW s \in Seq(Item), NEW e \in Item
  PROVE  /\ Append(s, e) \in Seq(Item) /\ Len(Append(s, e)) = Len(s) + 1
         /\ \A k \in 1 .. Len(s) : Append(s, e)[k] = s[k]
         /\ Append(s, e)[Len(s) + 1] = e
  OBVIOUS

LEMMA ReplacedItem ==
  ASSUME NEW s \in Seq(Item), NEW k \in 1 .. Len(s), NEW e \in Item, NEW r,
         r = [s EXCEPT ![k] = e]
  PROVE  /\ r \in Seq(Item) /\ Len(r) = Len(s)
         /\ r[k] = e /\ \A j \in 1 .. Len(s) : j # k => r[j] = s[j]
  OBVIOUS

\* An append adds an item that nobody has marked or linked.
LEMMA ItemsGrow ==
  ASSUME Shapes, NEW p \in Procs, op[p] \in {"push", "subscribe", "unsubscribe"},
         items' = Append(items, [type |-> ItemType[op[p]], reads |-> 0, linked |-> FALSE])
  PROVE  /\ items' \in Seq(Item) /\ Len(items') = Len(items) + 1 /\ Len(items) \in Nat
         /\ \A k \in 1 .. Len(items) : items'[k] = items[k]
         /\ items'[Len(items) + 1].type = ItemType[op[p]]
         /\ items'[Len(items) + 1].reads = 0 /\ ~items'[Len(items) + 1].linked
  <1> DEFINE e == [type |-> ItemType[op[p]], reads |-> 0, linked |-> FALSE]
  <1>1. e \in Item
    BY DEF Item, ItemType, Types
  <1>2. e.type = ItemType[op[p]] /\ e.reads = 0 /\ ~e.linked /\ items \in Seq(Item)
    BY DEF Shapes
  <1> HIDE DEF e
  <1>3. items' = Append(items, e)
    BY DEF e
  <1> QED
    BY <1>1, <1>2, <1>3, AppendedItem

\* Marking and linking change one field of one item.
LEMMA ItemMarked ==
  ASSUME Shapes, NEW k \in 1 .. Len(items), Mark(k)
  PROVE  /\ items' \in Seq(Item) /\ Len(items') = Len(items)
         /\ \A j \in 1 .. Len(items) : /\ j # k => items'[j] = items[j]
                                       /\ items'[j].type = items[j].type
                                       /\ items'[j].linked = items[j].linked
         /\ items'[k].reads = items[k].reads + 1 /\ items[k].reads \in Nat
  <1>1. items \in Seq(Item) /\ items[k] \in Item
    BY DEF Shapes
  <1> DEFINE e == [items[k] EXCEPT !.reads = @ + 1]
  <1>2. e \in Item /\ e.type = items[k].type /\ e.linked = items[k].linked
        /\ e.reads = items[k].reads + 1 /\ items[k].reads \in Nat
    BY <1>1 DEF Item
  <1>3. items' = [items EXCEPT ![k] = e]
    BY DEF Mark
  <1> HIDE DEF e
  <1>4. /\ items' \in Seq(Item) /\ Len(items') = Len(items) /\ items'[k] = e
        /\ \A j \in 1 .. Len(items) : j # k => items'[j] = items[j]
    BY ONLY <1>1, <1>2, <1>3, ReplacedItem, k \in 1 .. Len(items)
  <1> QED
    BY ONLY <1>2, <1>4

LEMMA ItemLinked ==
  ASSUME Shapes, NEW k \in 1 .. Len(items), items' = [items EXCEPT ![k].linked = TRUE]
  PROVE  /\ items' \in Seq(Item) /\ Len(items') = Len(items)
         /\ \A j \in 1 .. Len(items) : /\ j # k => items'[j] = items[j]
                                       /\ items'[j].type = items[j].type
                                       /\ items'[j].reads = items[j].reads
         /\ items'[k].linked = TRUE
  <1>1. items \in Seq(Item) /\ items[k] \in Item
    BY DEF Shapes
  <1> DEFINE e == [items[k] EXCEPT !.linked = TRUE]
  <1>2. e \in Item /\ e.type = items[k].type /\ e.linked = TRUE /\ e.reads = items[k].reads
    BY <1>1 DEF Item
  <1>3. items' = [items EXCEPT ![k] = e]
    BY DEF e
  <1> HIDE DEF e
  <1>4. /\ items' \in Seq(Item) /\ Len(items') = Len(items) /\ items'[k] = e
        /\ \A j \in 1 .. Len(items) : j # k => items'[j] = items[j]
    BY ONLY <1>1, <1>2, <1>3, ReplacedItem, k \in 1 .. Len(items)
  <1> QED
    BY ONLY <1>2, <1>4

-----------------------------------------------------------------------------
(* Types.                                                                  *)

\* A pointer stays one when items are added.
LEMMA ShapesStay ==
  ASSUME Shapes, items' \in Seq(Item), Len(items') >= Len(items),
         removed' \in 0 .. Len(items'), oldest' \in Int, newest' \in Int,
         messages' \in 0 .. SizeMod - 1, cleaning' \in BOOLEAN, corrupt' \in BOOLEAN,
         gil' \in Procs \union {NoProc}, setup' = setup,
         pc' \in [Procs -> Places], op' \in [Procs -> Ops],
         cur' \in [Procs -> Pointer'], nxt' \in [Procs -> Pointer'],
         own' \in [Procs -> Pointer'],
         last' \in [Tokens -> Pointer'], iter' \in [Tokens -> Pointer'],
         answer' \in [Tokens -> Nat]
  PROVE  Shapes'
  BY DEF Shapes

LEMMA StillShapes == ASSUME Shapes, Still, corrupt' \in BOOLEAN, UNCHANGED gil
                     PROVE  Shapes'
  BY DEF Shapes, Still, shared, local, token, Pointer

LEMMA NextPoints == ASSUME Shapes, NEW k \in Nat PROVE NextOf(k) \in Pointer
  <1>1. Len(items) \in Nat
    BY DEF Shapes
  <1> QED
    BY <1>1 DEF NextOf, Pointer

LEMMA NumberIsNat == ASSUME NEW k \in Nat PROVE Number(k) \in Nat
  <1>1. IsFiniteSet(1 .. k)
    BY FS_Interval
  <1>2. IsFiniteSet({j \in 1 .. k : IsPayload(j)})
    BY <1>1, FS_Subset
  <1> QED
    BY <1>2, FS_CardinalityType DEF Number

\* Who marks or links an item has one.
LEMMA LinkPlaced ==
  ASSUME Shapes, Owns, NEW p \in Procs, pc[p] = "link"
  PROVE  own[p] \in 1 .. Len(items) /\ Len(items) \in Nat
  BY DEF Owns, Holding, Shapes, Pointer

LEMMA MarkItemPlaced ==
  ASSUME Shapes, Modes, Owns, Positions, NEW t \in Tokens, pc[t] = "mark"
  PROVE  /\ Leaving(t) /\ Len(items) \in Nat /\ own[t] \in 1 .. Len(items)
         /\ cur[t] \in 1 .. own[t] - 1 /\ cur[t] \in 1 .. Len(items)
  <1>1. Leaving(t)
    BY DEF Modes, ModeOf, Shapes, Ops, Appending, Reading, Finishing, Procs, Leaving,
       Holding
  <1>2. own[t] \in 1 .. Len(items) /\ Len(items) \in Nat
    BY DEF Owns, Holding, Shapes, Pointer, Procs
  <1> QED
    BY <1>1, <1>2 DEF Positions, Placed

LEMMA MarkOwnPlaced ==
  ASSUME Shapes, Modes, Owns, NEW t \in Tokens, pc[t] = "markOwn"
  PROVE  /\ Leaving(t) /\ Len(items) \in Nat /\ own[t] \in 1 .. Len(items)
  <1>1. Leaving(t)
    BY DEF Modes, ModeOf, Shapes, Ops, Appending, Reading, Finishing, Procs, Leaving,
       Holding
  <1> QED
    BY <1>1 DEF Owns, Holding, Shapes, Pointer, Procs

LEMMA AckPlaced ==
  ASSUME Shapes, Modes, Positions, NEW t \in Tokens, pc[t] = "ack"
  PROVE  /\ op[t] \in {"pull", "acknowledge"} /\ Marking(t) /\ last[t] # 0 /\ Live(t)
         /\ Moving(t)
         /\ Len(items) \in Nat /\ cur[t] \in 1 .. Len(items) - 1 /\ nxt[t] = cur[t] + 1
         /\ cur[t] \in 1 .. Len(items)
  <1>1. /\ op[t] \in {"pull", "acknowledge"} /\ Marking(t) /\ last[t] # 0
    BY DEF Modes, ModeOf, Shapes, Ops, Appending, Reading, Finishing, Procs
  <1>2. Live(t) /\ Moving(t) /\ Pos(t) = cur[t]
    BY <1>1 DEF Live, Moving, Reading, Pos
  <1>3. cur[t] # 0 /\ nxt[t] = cur[t] + 1
    BY <1>2 DEF Positions, Placed
  <1> QED
    BY <1>1, <1>2, <1>3 DEF Shapes, Pointer, Procs

LEMMA ShapesKept ==
  ASSUME Shapes, Modes, Owns, HeadIsThere, Positions, [Next]_vars
  PROVE  Shapes'
  <1>1. ASSUME NEW p \in Publishers, Push(p) PROVE Shapes'
    BY <1>1 DEF Push, At, Goto, Enter, Exit, shared, local, token, Shapes, Pointer,
       Places, Ops, Finishing, Procs, HeadIsThere
  <1>2. ASSUME NEW t \in Tokens, Subscribe(t) PROVE Shapes'
    BY <1>2 DEF Subscribe, At, Goto, Enter, Exit, shared, local, token, Shapes, Pointer,
       Places, Ops, Finishing, Procs, HeadIsThere
  <1>3. ASSUME NEW t \in Tokens, Unsubscribe(t) PROVE Shapes'
    BY <1>3 DEF Unsubscribe, At, Goto, Enter, Exit, shared, local, token, Shapes, Pointer,
       Places, Ops, Finishing, Procs, HeadIsThere
  <1>4. ASSUME NEW t \in Tokens, Pull(t) PROVE Shapes'
    BY <1>4 DEF Pull, EnterPull, At, Goto, Enter, Exit, shared, local, token, Shapes,
       Pointer, Places, Ops, Finishing, Procs, HeadIsThere
  <1>5. ASSUME NEW t \in Tokens, Acknowledge(t) PROVE Shapes'
    BY <1>5 DEF Acknowledge, EnterPull, At, Goto, Enter, Exit, shared, local, token,
       Shapes, Pointer, Places, Ops, Finishing, Procs, HeadIsThere
  <1>6. ASSUME NEW t \in Tokens, LookNext(t) PROVE Shapes'
    BY <1>6 DEF LookNext, EnterPull, At, Goto, Enter, Exit, shared, local, token, Shapes,
       Pointer, Places, Ops, Finishing, Procs, HeadIsThere
  <1>7. ASSUME NEW p \in Procs, AppendItem(p) PROVE Shapes'
    <2>1. op[p] \in {"push", "subscribe", "unsubscribe"}
      BY <1>7, AppendItemIs DEF Modes, ModeOf, Reading, Finishing, Shapes, Ops
    <2>2. /\ items' \in Seq(Item) /\ Len(items') = Len(items) + 1 /\ Len(items) \in Nat
      BY <1>7, <2>1, AppendItemIs, ItemsGrow
    <2>3. /\ removed' \in 0 .. Len(items') /\ oldest' \in Int /\ newest' \in Int
          /\ messages' \in 0 .. SizeMod - 1 /\ cleaning' \in BOOLEAN /\ corrupt' \in BOOLEAN
          /\ gil' \in Procs \union {NoProc} /\ setup' = setup
          /\ pc' \in [Procs -> Places] /\ op' \in [Procs -> Ops]
          /\ cur' \in [Procs -> Pointer'] /\ nxt' \in [Procs -> Pointer']
          /\ own' \in [Procs -> Pointer']
          /\ last' \in [Tokens -> Pointer'] /\ iter' \in [Tokens -> Pointer']
          /\ answer' \in [Tokens -> Nat]
      BY <1>7, <2>2, SMTT(30) DEF AppendItem, At, Goto, Enter, Exit, shared, local, token,
         Shapes, Pointer, Places, Ops, Finishing, Procs
    <2> QED
      BY <2>2, <2>3, ShapesStay
  <1>8. ASSUME NEW p \in Procs, Link(p) PROVE Shapes'
    <2>1. own[p] \in 1 .. Len(items) /\ Len(items) \in Nat
      BY <1>8, LinkIs, LinkPlaced
    <2>2. items' \in Seq(Item) /\ Len(items') = Len(items)
      BY <1>8, <2>1, LinkIs, ItemLinked
    <2>3. /\ removed' \in 0 .. Len(items') /\ oldest' \in Int /\ newest' \in Int
          /\ messages' \in 0 .. SizeMod - 1 /\ cleaning' \in BOOLEAN /\ corrupt' \in BOOLEAN
          /\ gil' \in Procs \union {NoProc} /\ setup' = setup
          /\ pc' \in [Procs -> Places] /\ op' \in [Procs -> Ops]
          /\ cur' \in [Procs -> Pointer'] /\ nxt' \in [Procs -> Pointer']
          /\ own' \in [Procs -> Pointer']
          /\ last' \in [Tokens -> Pointer'] /\ iter' \in [Tokens -> Pointer']
          /\ answer' \in [Tokens -> Nat]
      BY <1>8, <2>1, <2>2 DEF Link, At, Goto, Enter, Exit, shared, local, token, Shapes,
         Pointer, Places, Ops, Finishing, Procs
    <2> QED
      BY <2>1, <2>2, <2>3, ShapesStay
  <1>9. ASSUME NEW p \in Procs, Count(p) PROVE Shapes'
    <2>1. messages' \in 0 .. SizeMod - 1
      <3>1. messages + 1 \in Int
        BY DEF Shapes
      <3> QED
        BY <1>9, <3>1, CountIs, ModRange
    <2>2. CASE op[p] = "push"
      <3>1. /\ Exit(p)
            /\ UNCHANGED <<setup, items, removed, oldest, newest, cleaning, token, corrupt>>
        BY <1>9, <2>2 DEF Count, token
      <3> QED
        BY <2>1, <3>1 DEF At, Goto, Enter, Exit, shared, local, token, Shapes, Pointer,
           Places, Ops, Finishing, Procs
    <2>3. CASE op[p] = "subscribe"
      <3>1. p \in Tokens /\ own[p] \in Pointer
        BY <2>3 DEF Modes, ModeOf, Procs, Shapes
      <3>2. /\ Exit(p) /\ last' = [last EXCEPT ![p] = own[p]]
            /\ UNCHANGED <<setup, items, removed, oldest, newest, cleaning, iter, answer, corrupt>>
        BY <1>9, <2>3 DEF Count
      <3> QED
        BY <2>1, <3>1, <3>2, SMTT(30) DEF At, Goto, Enter, Exit, shared, local, token,
           Shapes, Pointer, Places, Ops, Finishing, Procs
    <2>4. CASE op[p] \notin {"push", "subscribe"}
      BY <1>9, <2>1, <2>4 DEF Count, At, Goto, Enter, Exit, shared, local, token, Shapes,
         Pointer, Places, Ops, Finishing, Procs
    <2> QED
      BY <2>2, <2>3, <2>4
  <1>10. ASSUME NEW t \in Tokens, MarkItem(t) PROVE Shapes'
    <2>1. CASE Still /\ UNCHANGED gil /\ corrupt'
      BY <2>1, StillShapes
    <2>2. CASE /\ At(t, "mark") /\ Mark(cur[t])
               /\ Goto(t, "walk")
               /\ UNCHANGED <<setup, removed, oldest, newest, messages, cleaning, op, cur, nxt,
                              own, token, gil, corrupt>>
      <3>1. cur[t] \in 1 .. Len(items) /\ Len(items) \in Nat
        BY <2>2, MarkItemPlaced DEF At
      <3>2. items' \in Seq(Item) /\ Len(items') = Len(items)
        BY <2>2, <3>1, ItemMarked
      <3>3. /\ removed' \in 0 .. Len(items') /\ oldest' \in Int /\ newest' \in Int
            /\ messages' \in 0 .. SizeMod - 1 /\ cleaning' \in BOOLEAN
            /\ corrupt' \in BOOLEAN
            /\ gil' \in Procs \union {NoProc} /\ setup' = setup
            /\ pc' \in [Procs -> Places] /\ op' \in [Procs -> Ops]
            /\ cur' \in [Procs -> Pointer'] /\ nxt' \in [Procs -> Pointer']
            /\ own' \in [Procs -> Pointer']
            /\ last' \in [Tokens -> Pointer'] /\ iter' \in [Tokens -> Pointer']
            /\ answer' \in [Tokens -> Nat]
        BY <2>2, <3>1, <3>2 DEF At, Goto, Enter, Exit, shared, local, token, Shapes,
           Pointer, Places, Ops, Finishing, Procs
      <3> QED
        BY <3>1, <3>2, <3>3, ShapesStay
    <2> QED
      BY <1>10, <2>1, <2>2 DEF MarkItem, Using, Still, shared, local
  <1>11. ASSUME NEW t \in Tokens, Walk(t) PROVE Shapes'
    <2>1. NextOf(cur[t]) \in Pointer
      BY NextPoints DEF Shapes, Pointer, Procs
    <2>2. CASE Still /\ UNCHANGED gil /\ corrupt'
      BY <2>2, StillShapes
    <2>3. CASE /\ cur' = [cur EXCEPT ![t] = NextOf(cur[t])]
               /\ \E place \in {"mark", "markOwn"} : Goto(t, place)
               /\ UNCHANGED <<shared, op, nxt, own, token, gil, corrupt>>
      BY <2>1, <2>3 DEF At, Goto, shared, local, token, Shapes, Pointer, Places,
         Finishing, Procs
    <2> QED
      BY <1>11, <2>2, <2>3 DEF Walk, Using, Still
  <1>12. ASSUME NEW t \in Tokens, MarkOwn(t) PROVE Shapes'
    <2>1. CASE Still /\ UNCHANGED gil /\ corrupt'
      BY <2>1, StillShapes
    <2>2. CASE /\ At(t, "markOwn") /\ Mark(own[t])
               /\ Goto(t, "leave")
               /\ UNCHANGED <<setup, removed, oldest, newest, messages, cleaning, op, cur, nxt,
                              own, token, gil, corrupt>>
      <3>1. own[t] \in 1 .. Len(items) /\ Len(items) \in Nat
        BY <2>2, MarkOwnPlaced DEF At
      <3>2. items' \in Seq(Item) /\ Len(items') = Len(items)
        BY <2>2, <3>1, ItemMarked
      <3>3. /\ removed' \in 0 .. Len(items') /\ oldest' \in Int /\ newest' \in Int
            /\ messages' \in 0 .. SizeMod - 1 /\ cleaning' \in BOOLEAN
            /\ corrupt' \in BOOLEAN
            /\ gil' \in Procs \union {NoProc} /\ setup' = setup
            /\ pc' \in [Procs -> Places] /\ op' \in [Procs -> Ops]
            /\ cur' \in [Procs -> Pointer'] /\ nxt' \in [Procs -> Pointer']
            /\ own' \in [Procs -> Pointer']
            /\ last' \in [Tokens -> Pointer'] /\ iter' \in [Tokens -> Pointer']
            /\ answer' \in [Tokens -> Nat]
        BY <2>2, <3>1, <3>2 DEF At, Goto, Enter, Exit, shared, local, token, Shapes,
           Pointer, Places, Ops, Finishing, Procs
      <3> QED
        BY <3>1, <3>2, <3>3, ShapesStay
    <2> QED
      BY <1>12, <2>1, <2>2 DEF MarkOwn, Using, Still, shared, local
  <1>13. ASSUME NEW t \in Tokens, LeaveQueue(t) PROVE Shapes'
    BY <1>13 DEF LeaveQueue, At, Goto, Enter, Exit, shared, local, token, Shapes, Pointer,
       Places, Ops, Finishing, Procs, HeadIsThere
  <1>14. ASSUME NEW t \in Tokens, Load(t) PROVE Shapes'
    <2>1. NextOf(cur[t]) \in Pointer
      BY NextPoints DEF Shapes, Pointer, Procs
    <2>2. CASE Still /\ UNCHANGED gil /\ corrupt'
      BY <2>2, StillShapes
    <2>3. CASE /\ \/ cur' = cur \/ cur' = [cur EXCEPT ![t] = cur[t]]
                  \/ cur' = [cur EXCEPT ![t] = NextOf(cur[t])]
               /\ \E n \in {0, NextOf(cur[t])} : nxt' = [nxt EXCEPT ![t] = n]
               /\ \E place \in {"load", "ack", "clean", "return"} : Goto(t, place)
               /\ UNCHANGED <<shared, op, own, token, gil, corrupt>>
      <3>1. Pointer' = Pointer /\ items' = items /\ cur[t] \in Pointer /\ 0 \in Pointer
        BY <2>3 DEF shared, Pointer, Shapes, Procs
      <3>2. cur' \in [Procs -> Pointer'] /\ nxt' \in [Procs -> Pointer']
        <4>1. cur \in [Procs -> Pointer] /\ nxt \in [Procs -> Pointer]
          BY DEF Shapes
        <4>2. \E n \in Pointer : nxt' = [nxt EXCEPT ![t] = n]
          BY <2>1, <2>3, <3>1
        <4>3. cur' = cur \/ \E c \in Pointer : cur' = [cur EXCEPT ![t] = c]
          BY <2>1, <2>3, <3>1
        <4> QED
          BY ONLY <3>1, <4>1, <4>2, <4>3
      <3>3. pc' \in [Procs -> Places]
        BY <2>3 DEF Goto, Shapes, Places, Finishing
      <3> QED
        BY <2>3, <3>1, <3>2, <3>3 DEF shared, token, Shapes
    <2> QED
      BY <1>14, <2>2, <2>3 DEF Load, Arrive, Using, Still
  <1>15. ASSUME NEW t \in Tokens, Ack(t) PROVE Shapes'
    <2>1. CASE Still /\ UNCHANGED gil /\ corrupt'
      BY <2>1, StillShapes
    <2>2. CASE /\ At(t, "ack") /\ Mark(cur[t]) /\ Arrive(t, nxt[t])
               /\ UNCHANGED <<setup, removed, oldest, newest, messages, cleaning, op,
                              own, token, gil, corrupt>>
      <3>1. cur[t] \in 1 .. Len(items) /\ Len(items) \in Nat
        BY <2>2, AckPlaced DEF At
      <3>2. items' \in Seq(Item) /\ Len(items') = Len(items)
        BY <2>2, <3>1, ItemMarked
      <3>3. /\ removed' \in 0 .. Len(items') /\ oldest' \in Int /\ newest' \in Int
            /\ messages' \in 0 .. SizeMod - 1 /\ cleaning' \in BOOLEAN
            /\ corrupt' \in BOOLEAN
            /\ gil' \in Procs \union {NoProc} /\ setup' = setup
            /\ pc' \in [Procs -> Places] /\ op' \in [Procs -> Ops]
            /\ cur' \in [Procs -> Pointer'] /\ nxt' \in [Procs -> Pointer']
            /\ own' \in [Procs -> Pointer']
            /\ last' \in [Tokens -> Pointer'] /\ iter' \in [Tokens -> Pointer']
            /\ answer' \in [Tokens -> Nat]
        <4>1. /\ \E c \in {cur[t], nxt[t]} : cur' = [cur EXCEPT ![t] = c]
              /\ nxt' = [nxt EXCEPT ![t] = 0]
              /\ \E place \in {"load", "clean", "return"} : Goto(t, place)
          BY <2>2 DEF Arrive
        <4>2. Pointer' = Pointer
          BY <3>2 DEF Pointer
        <4> QED
          BY <2>2, <3>1, <3>2, <4>1, <4>2 DEF At, Goto, Enter, Exit, shared, local, token,
             Shapes, Pointer, Places, Ops, Finishing, Procs
      <3> QED
        BY <3>1, <3>2, <3>3, ShapesStay
    <2> QED
      BY <1>15, <2>1, <2>2 DEF Ack, Using, Still, shared, local
  <1>16. ASSUME NEW t \in Tokens, Return(t) PROVE Shapes'
    <2>1. Message(t) \in Nat
      BY NumberIsNat DEF Message, Shapes, Pointer, Procs
    <2>2. CASE Still /\ UNCHANGED gil /\ corrupt'
      BY <2>2, StillShapes
    <2>3. CASE /\ Exit(t) /\ UNCHANGED <<shared, corrupt>>
               /\ last' = last \/ \E k \in {0, cur[t], last[t]} : last' = [last EXCEPT ![t] = k]
               /\ iter' = iter \/ \E k \in {0, cur[t]} : iter' = [iter EXCEPT ![t] = k]
               /\ \/ answer' = answer
                  \/ \E m \in {answer[t], Message(t)} : answer' = [answer EXCEPT ![t] = m]
      <3>1. /\ Pointer' = Pointer /\ items' = items /\ cur[t] \in Pointer
            /\ 0 \in Pointer /\ last[t] \in Pointer /\ answer[t] \in Nat
        BY <2>3 DEF shared, Pointer, Shapes, Procs
      <3>2. /\ last' \in [Tokens -> Pointer'] /\ iter' \in [Tokens -> Pointer']
            /\ answer' \in [Tokens -> Nat]
        <4>1. /\ last \in [Tokens -> Pointer] /\ iter \in [Tokens -> Pointer]
              /\ answer \in [Tokens -> Nat]
          BY DEF Shapes
        <4>2. last' = last \/ \E k \in Pointer : last' = [last EXCEPT ![t] = k]
          BY <2>3, <3>1
        <4>3. iter' = iter \/ \E k \in Pointer : iter' = [iter EXCEPT ![t] = k]
          BY <2>3, <3>1
        <4>4. answer' = answer \/ \E m \in Nat : answer' = [answer EXCEPT ![t] = m]
          BY <2>1, <2>3, <3>1
        <4> QED
          BY ONLY <3>1, <4>1, <4>2, <4>3, <4>4
      <3>3. /\ pc' \in [Procs -> Places] /\ op' \in [Procs -> Ops]
            /\ gil' \in Procs \union {NoProc}
            /\ cur' \in [Procs -> Pointer'] /\ nxt' \in [Procs -> Pointer']
            /\ own' \in [Procs -> Pointer']
        BY <2>3, <3>1 DEF Exit, Goto, Shapes, Places, Ops, Procs
      <3> QED
        BY <2>3, <3>1, <3>2, <3>3 DEF shared, Shapes
    <2>4. CASE op[t] = "unsubscribe"
      BY <1>16, <2>2, <2>3, <2>4 DEF Return
    <2>5. CASE op[t] \in {"pull", "acknowledge"}
      BY <1>16, <2>2, <2>3, <2>5 DEF Return, Using, Still
    <2>6. CASE op[t] = "next"
      BY <1>16, <2>2, <2>3, <2>6 DEF Return, Using, Still
    <2> QED
      BY <1>16, <2>4, <2>5, <2>6 DEF Return
  <1>17. ASSUME NEW t \in Tokens, CleanEnter(t) PROVE Shapes'
    BY <1>17 DEF CleanEnter, At, Goto, Enter, Exit, shared, local, token, Shapes, Pointer,
       Places, Ops, Finishing, Procs, HeadIsThere
  <1>18. ASSUME NEW t \in Tokens, Scan(t) PROVE Shapes'
    <2>1. oldest' \in Int
      <3>1. CASE UNCHANGED oldest
        BY <3>1 DEF Shapes
      <3>2. CASE HeadItem # 0 /\ oldest' = oldest + Shift(items[HeadItem].type)
        <4>1. HeadItem \in 1 .. Len(items)
          <5>1. NextOf(removed) \in Pointer /\ HeadItem = NextOf(removed)
            BY NextPoints DEF Shapes, HeadItem
          <5> QED
            BY <3>2, <5>1 DEF Pointer
        <4>2. items[HeadItem].type \in Types
          <5>1. items[HeadItem] \in Item
            BY <4>1 DEF Shapes
          <5> QED
            BY <5>1 DEF Item
        <4>3. Shift(items[HeadItem].type) \in Int
          BY <4>2 DEF Shift, Types
        <4> QED
          BY <3>2, <4>3 DEF Shapes
      <3> QED
        BY <1>18, <3>1, <3>2, ScanIs
    <2> QED
      BY <1>18, <2>1 DEF Scan, At, Goto, shared, local, token, Shapes, Pointer, Places,
         Finishing, Procs
  <1>19. ASSUME NEW t \in Tokens, Reduce(t) PROVE Shapes'
    BY <1>19, SMTT(30) DEF Reduce, At, Goto, Enter, Exit, shared, local, token, Shapes,
       Pointer, Places, Ops, Finishing, Procs, HeadIsThere
  <1>20. ASSUME NEW t \in Tokens, Uncount(t) PROVE Shapes'
    <2>1. messages' \in 0 .. SizeMod - 1
      <3>1. messages - 1 \in Int
        BY DEF Shapes
      <3> QED
        BY <1>20, <3>1, UncountIs, ModRange
    <2> QED
      BY <1>20, <2>1 DEF Uncount, At, Goto, shared, local, token, Shapes, Pointer, Places,
         Finishing, Procs
  <1>21. ASSUME NEW t \in Tokens, Delete(t) PROVE Shapes'
    BY <1>21 DEF Delete, At, Goto, Enter, Exit, shared, local, token, Shapes, Pointer,
       Places, Ops, Finishing, Procs, HeadIsThere
  <1>22. ASSUME NEW t \in Tokens, Resume(t) PROVE Shapes'
    BY <1>22 DEF Resume, At, Goto, Enter, Exit, shared, local, token, Shapes, Pointer,
       Places, Ops, Finishing, Procs, HeadIsThere
  <1>23. ASSUME NEW t \in Tokens, CleanExit(t) PROVE Shapes'
    BY <1>23 DEF CleanExit, At, Goto, Enter, Exit, shared, local, token, Shapes, Pointer,
       Places, Ops, Finishing, Procs, HeadIsThere
  <1>24. CASE UNCHANGED vars
    BY <1>24 DEF vars, shared, local, token, Shapes, Pointer, Places
  <1> QED
    BY <1>1, <1>2, <1>3, <1>4, <1>5, <1>6, <1>7, <1>8, <1>9, <1>10, <1>11, <1>12, <1>13,
       <1>14, <1>15, <1>16, <1>17, <1>18, <1>19, <1>20, <1>21, <1>22, <1>23, <1>24
       DEF Next, AppendStep, CallStep, CleanStep

-----------------------------------------------------------------------------
(* Every step is a step of one thread, or follows a pointer to a freed     *)
(* item and changes nothing that matters here.                             *)

Step(p) == \/ p \in Publishers /\ Push(p)
           \/ AppendStep(p)
           \/ /\ p \in Tokens
              /\ \/ Subscribe(p) \/ Unsubscribe(p)
                 \/ Pull(p) \/ Acknowledge(p) \/ LookNext(p)
                 \/ CallStep(p)

LEMMA SomebodySteps ==
  ASSUME [Next]_vars
  PROVE  Still \/ \E p \in Procs : Step(p) /\ ~Still
  BY DEF Next, Step, Procs, vars, Still

\* The other threads and their tokens stay where they are.
Alone(p) == /\ Others(p) /\ setup' = setup
            /\ \A t \in Tokens \ {p} : last'[t] = last[t]

LEMMA StepsAlone ==
  ASSUME Shapes, NEW p \in Procs, Step(p), ~Still
  PROVE  Alone(p)
  <1>1. ASSUME p \in Publishers, Push(p) PROVE Alone(p)
    BY <1>1, PushIs DEF Alone, Now, shared, token, Shapes
  <1>2. ASSUME p \in Tokens, Subscribe(p) PROVE Alone(p)
    BY <1>2, SubscribeIs DEF Alone, Now, shared, token, Shapes
  <1>3. ASSUME p \in Tokens, Unsubscribe(p) PROVE Alone(p)
    BY <1>3, UnsubscribeIs DEF Alone, Now, shared, token, Shapes
  <1>4. ASSUME p \in Tokens, Pull(p) PROVE Alone(p)
    BY <1>4, LookIs DEF Alone, Now, shared, token, Shapes
  <1>5. ASSUME p \in Tokens, Acknowledge(p) PROVE Alone(p)
    BY <1>5, LookIs DEF Alone, Now, shared, token, Shapes
  <1>6. ASSUME p \in Tokens, LookNext(p) PROVE Alone(p)
    BY <1>6, LookIs DEF Alone, Now, shared, token, Shapes
  <1>7. ASSUME AppendItem(p) PROVE Alone(p)
    BY <1>7, AppendItemIs DEF Alone, Now, shared, token, Shapes
  <1>8. ASSUME Link(p) PROVE Alone(p)
    BY <1>8, LinkIs DEF Alone, Now, shared, token, Shapes
  <1>9. ASSUME Count(p) PROVE Alone(p)
    BY <1>9, CountIs DEF Alone, Now, shared, token, Shapes
  <1>10. ASSUME p \in Tokens, MarkItem(p) PROVE Alone(p)
    BY <1>10, MarkItemIs DEF Alone, Now, shared, token, Shapes
  <1>11. ASSUME p \in Tokens, Walk(p) PROVE Alone(p)
    BY <1>11, WalkIs DEF Alone, Now, shared, token, Shapes
  <1>12. ASSUME p \in Tokens, MarkOwn(p) PROVE Alone(p)
    BY <1>12, MarkOwnIs DEF Alone, Now, shared, token, Shapes
  <1>13. ASSUME p \in Tokens, LeaveQueue(p) PROVE Alone(p)
    BY <1>13, LeaveQueueIs DEF Alone, Now, shared, token, Shapes
  <1>14. ASSUME p \in Tokens, Load(p) PROVE Alone(p)
    BY <1>14, LoadIs DEF Alone, Now, shared, token, Shapes
  <1>15. ASSUME p \in Tokens, Ack(p) PROVE Alone(p)
    BY <1>15, AckIs DEF Alone, Now, shared, token, Shapes
  <1>16. ASSUME p \in Tokens, Return(p) PROVE Alone(p)
    BY <1>16, ReturnIs DEF Alone, Now, shared, token, Shapes
  <1>17. ASSUME p \in Tokens, CleanEnter(p) PROVE Alone(p)
    BY <1>17, CleanEnterIs DEF Alone, Now, shared, token, Shapes
  <1>18. ASSUME p \in Tokens, Scan(p) PROVE Alone(p)
    BY <1>18, ScanIs DEF Alone, Now, shared, token, Shapes
  <1>19. ASSUME p \in Tokens, Reduce(p) PROVE Alone(p)
    BY <1>19, ReduceIs DEF Alone, Now, shared, token, Shapes
  <1>20. ASSUME p \in Tokens, Uncount(p) PROVE Alone(p)
    BY <1>20, UncountIs DEF Alone, Now, shared, token, Shapes
  <1>21. ASSUME p \in Tokens, Delete(p) PROVE Alone(p)
    BY <1>21, DeleteIs DEF Alone, Now, shared, token, Shapes
  <1>22. ASSUME p \in Tokens, Resume(p) PROVE Alone(p)
    BY <1>22, ResumeIs DEF Alone, Now, shared, token, Shapes
  <1>23. ASSUME p \in Tokens, CleanExit(p) PROVE Alone(p)
    BY <1>23, CleanExitIs DEF Alone, Now, shared, token, Shapes
  <1> QED
    BY <1>1, <1>2, <1>3, <1>4, <1>5, <1>6, <1>7, <1>8, <1>9, <1>10, <1>11, <1>12, <1>13,
       <1>14, <1>15, <1>16, <1>17, <1>18, <1>19, <1>20, <1>21, <1>22, <1>23 DEF Step,
       AppendStep, CallStep, CleanStep

-----------------------------------------------------------------------------
(* Where the calls are.                                                    *)

LEMMA ModeStays ==
  ASSUME NEW p \in Procs, Alone(p), NEW q \in Procs \ {p}, ModeOf(q)
  PROVE  ModeOf(q)'
  BY DEF ModeOf, Alone, Others, Marking

LEMMA ModeKept ==
  ASSUME Shapes, Modes, NEW p \in Procs, Step(p), ~Still, Alone(p)
  PROVE  ModeOf(p)'
  <1> ModeOf(p)
    BY DEF Modes
  <1>1. ASSUME p \in Publishers, Push(p) PROVE ModeOf(p)'
    BY <1>1, PushIs DEF Now, ModeOf, Reading, Finishing, Appending, Marking, shared,
       token, Procs, Shapes, Ops
  <1>2. ASSUME p \in Tokens, Subscribe(p) PROVE ModeOf(p)'
    BY <1>2, SubscribeIs DEF Now, ModeOf, Reading, Finishing, Appending, Marking, shared,
       token, Procs, Shapes, Ops
  <1>3. ASSUME p \in Tokens, Unsubscribe(p) PROVE ModeOf(p)'
    BY <1>3, UnsubscribeIs DEF Now, ModeOf, Reading, Finishing, Appending, Marking,
       shared, token, Procs, Shapes, Ops
  <1>4. ASSUME p \in Tokens, Pull(p) PROVE ModeOf(p)'
    BY <1>4, LookIs DEF Now, ModeOf, Reading, Finishing, Appending, Marking, shared,
       token, Procs, Shapes, Ops
  <1>5. ASSUME p \in Tokens, Acknowledge(p) PROVE ModeOf(p)'
    BY <1>5, LookIs DEF Now, ModeOf, Reading, Finishing, Appending, Marking, shared,
       token, Procs, Shapes, Ops
  <1>6. ASSUME p \in Tokens, LookNext(p) PROVE ModeOf(p)'
    BY <1>6, LookIs DEF Now, ModeOf, Reading, Finishing, Appending, Marking, shared,
       token, Procs, Shapes, Ops
  <1>7. ASSUME AppendItem(p) PROVE ModeOf(p)'
    BY <1>7, AppendItemIs DEF Now, ModeOf, Reading, Finishing, Appending, Marking, shared,
       token, Procs, Shapes, Ops
  <1>8. ASSUME Link(p) PROVE ModeOf(p)'
    BY <1>8, LinkIs DEF Now, ModeOf, Reading, Finishing, Appending, Marking, shared,
       token, Procs, Shapes, Ops
  <1>9. ASSUME Count(p) PROVE ModeOf(p)'
    BY <1>9, CountIs DEF Now, ModeOf, Reading, Finishing, Appending, Marking, shared,
       token, Procs, Shapes, Ops
  <1>10. ASSUME p \in Tokens, MarkItem(p) PROVE ModeOf(p)'
    BY <1>10, MarkItemIs DEF Now, ModeOf, Reading, Finishing, Appending, Marking, shared,
       token, Procs, Shapes, Ops
  <1>11. ASSUME p \in Tokens, Walk(p) PROVE ModeOf(p)'
    BY <1>11, WalkIs DEF Now, ModeOf, Reading, Finishing, Appending, Marking, shared,
       token, Procs, Shapes, Ops
  <1>12. ASSUME p \in Tokens, MarkOwn(p) PROVE ModeOf(p)'
    BY <1>12, MarkOwnIs DEF Now, ModeOf, Reading, Finishing, Appending, Marking, shared,
       token, Procs, Shapes, Ops
  <1>13. ASSUME p \in Tokens, LeaveQueue(p) PROVE ModeOf(p)'
    BY <1>13, LeaveQueueIs DEF Now, ModeOf, Reading, Finishing, Appending, Marking,
       shared, token, Procs, Shapes, Ops
  <1>14. ASSUME p \in Tokens, Load(p) PROVE ModeOf(p)'
    BY <1>14, LoadIs DEF Now, ModeOf, Reading, Finishing, Appending, Marking, shared,
       token, Procs, Shapes, Ops
  <1>15. ASSUME p \in Tokens, Ack(p) PROVE ModeOf(p)'
    BY <1>15, AckIs DEF Now, ModeOf, Reading, Finishing, Appending, Marking, shared,
       token, Procs, Shapes, Ops
  <1>16. ASSUME p \in Tokens, Return(p) PROVE ModeOf(p)'
    BY <1>16, ReturnIs DEF Now, ModeOf, Reading, Finishing, Appending, Marking, shared,
       token, Procs, Shapes, Ops
  <1>17. ASSUME p \in Tokens, CleanEnter(p) PROVE ModeOf(p)'
    BY <1>17, CleanEnterIs DEF Now, ModeOf, Reading, Finishing, Appending, Marking,
       shared, token, Procs, Shapes, Ops
  <1>18. ASSUME p \in Tokens, Scan(p) PROVE ModeOf(p)'
    BY <1>18, ScanIs DEF Now, ModeOf, Reading, Finishing, Appending, Marking, shared,
       token, Procs, Shapes, Ops
  <1>19. ASSUME p \in Tokens, Reduce(p) PROVE ModeOf(p)'
    BY <1>19, ReduceIs DEF Now, ModeOf, Reading, Finishing, Appending, Marking, shared,
       token, Procs, Shapes, Ops
  <1>20. ASSUME p \in Tokens, Uncount(p) PROVE ModeOf(p)'
    BY <1>20, UncountIs DEF Now, ModeOf, Reading, Finishing, Appending, Marking, shared,
       token, Procs, Shapes, Ops
  <1>21. ASSUME p \in Tokens, Delete(p) PROVE ModeOf(p)'
    BY <1>21, DeleteIs DEF Now, ModeOf, Reading, Finishing, Appending, Marking, shared,
       token, Procs, Shapes, Ops
  <1>22. ASSUME p \in Tokens, Resume(p) PROVE ModeOf(p)'
    BY <1>22, ResumeIs DEF Now, ModeOf, Reading, Finishing, Appending, Marking, shared,
       token, Procs, Shapes, Ops
  <1>23. ASSUME p \in Tokens, CleanExit(p) PROVE ModeOf(p)'
    BY <1>23, CleanExitIs DEF Now, ModeOf, Reading, Finishing, Appending, Marking, shared,
       token, Procs, Shapes, Ops
  <1> QED
    BY <1>1, <1>2, <1>3, <1>4, <1>5, <1>6, <1>7, <1>8, <1>9, <1>10, <1>11, <1>12, <1>13,
       <1>14, <1>15, <1>16, <1>17, <1>18, <1>19, <1>20, <1>21, <1>22, <1>23 DEF Step,
       AppendStep, CallStep, CleanStep

LEMMA ModesKept == ASSUME Shapes, Modes, [Next]_vars PROVE Modes'
  <1>1. CASE Still
    BY <1>1 DEF Modes, ModeOf, Marking, Still, shared, local, token
  <1>2. ASSUME NEW p \in Procs, Step(p), ~Still PROVE Modes'
    <2>1. Alone(p)
      BY <1>2, StepsAlone
    <2>2. ASSUME NEW q \in Procs PROVE ModeOf(q)'
      <3>1. CASE q = p
        BY <1>2, <2>1, <3>1, ModeKept
      <3>2. CASE q # p
        BY <2>1, <3>2, ModeStays DEF Modes
      <3> QED
        BY <3>1, <3>2
    <2> QED
      BY <2>2 DEF Modes
  <1> QED
    BY <1>1, <1>2, SomebodySteps

-----------------------------------------------------------------------------
(* One thread cleans.                                                      *)

CleansOn(p) == /\ pc'[p] \in Cleaning => cleaning' /\ (pc[p] \in Cleaning \/ ~cleaning)
               /\ (cleaning => cleaning') \/ (pc[p] \in Cleaning /\ pc'[p] \notin Cleaning)

LEMMA StepsCleanOn ==
  ASSUME Shapes, OneCleaner, NEW p \in Procs, Step(p), ~Still
  PROVE  CleansOn(p)
  <1>1. ASSUME p \in Publishers, Push(p) PROVE CleansOn(p)
    BY <1>1, PushIs DEF Now, shared, Cleaning, CleansOn, OneCleaner
  <1>2. ASSUME p \in Tokens, Subscribe(p) PROVE CleansOn(p)
    BY <1>2, SubscribeIs DEF Now, shared, Cleaning, CleansOn, OneCleaner
  <1>3. ASSUME p \in Tokens, Unsubscribe(p) PROVE CleansOn(p)
    BY <1>3, UnsubscribeIs DEF Now, shared, Cleaning, CleansOn, OneCleaner
  <1>4. ASSUME p \in Tokens, Pull(p) PROVE CleansOn(p)
    BY <1>4, LookIs DEF Now, shared, Cleaning, CleansOn, OneCleaner
  <1>5. ASSUME p \in Tokens, Acknowledge(p) PROVE CleansOn(p)
    BY <1>5, LookIs DEF Now, shared, Cleaning, CleansOn, OneCleaner
  <1>6. ASSUME p \in Tokens, LookNext(p) PROVE CleansOn(p)
    BY <1>6, LookIs DEF Now, shared, Cleaning, CleansOn, OneCleaner
  <1>7. ASSUME AppendItem(p) PROVE CleansOn(p)
    BY <1>7, AppendItemIs DEF Now, shared, Cleaning, CleansOn, OneCleaner
  <1>8. ASSUME Link(p) PROVE CleansOn(p)
    BY <1>8, LinkIs DEF Now, shared, Cleaning, CleansOn, OneCleaner
  <1>9. ASSUME Count(p) PROVE CleansOn(p)
    BY <1>9, CountIs DEF Now, shared, Cleaning, CleansOn, OneCleaner
  <1>10. ASSUME p \in Tokens, MarkItem(p) PROVE CleansOn(p)
    BY <1>10, MarkItemIs DEF Now, shared, Cleaning, CleansOn, OneCleaner
  <1>11. ASSUME p \in Tokens, Walk(p) PROVE CleansOn(p)
    BY <1>11, WalkIs DEF Now, shared, Cleaning, CleansOn, OneCleaner
  <1>12. ASSUME p \in Tokens, MarkOwn(p) PROVE CleansOn(p)
    BY <1>12, MarkOwnIs DEF Now, shared, Cleaning, CleansOn, OneCleaner
  <1>13. ASSUME p \in Tokens, LeaveQueue(p) PROVE CleansOn(p)
    BY <1>13, LeaveQueueIs DEF Now, shared, Cleaning, CleansOn, OneCleaner
  <1>14. ASSUME p \in Tokens, Load(p) PROVE CleansOn(p)
    BY <1>14, LoadIs DEF Now, shared, Cleaning, CleansOn, OneCleaner
  <1>15. ASSUME p \in Tokens, Ack(p) PROVE CleansOn(p)
    BY <1>15, AckIs DEF Now, shared, Cleaning, CleansOn, OneCleaner
  <1>16. ASSUME p \in Tokens, Return(p) PROVE CleansOn(p)
    BY <1>16, ReturnIs DEF Now, shared, Cleaning, CleansOn, OneCleaner
  <1>17. ASSUME p \in Tokens, CleanEnter(p) PROVE CleansOn(p)
    BY <1>17, CleanEnterIs DEF Now, shared, Cleaning, CleansOn, OneCleaner
  <1>18. ASSUME p \in Tokens, Scan(p) PROVE CleansOn(p)
    BY <1>18, ScanIs DEF Now, shared, Cleaning, CleansOn, OneCleaner
  <1>19. ASSUME p \in Tokens, Reduce(p) PROVE CleansOn(p)
    BY <1>19, ReduceIs DEF Now, shared, Cleaning, CleansOn, OneCleaner
  <1>20. ASSUME p \in Tokens, Uncount(p) PROVE CleansOn(p)
    BY <1>20, UncountIs DEF Now, shared, Cleaning, CleansOn, OneCleaner
  <1>21. ASSUME p \in Tokens, Delete(p) PROVE CleansOn(p)
    BY <1>21, DeleteIs DEF Now, shared, Cleaning, CleansOn, OneCleaner
  <1>22. ASSUME p \in Tokens, Resume(p) PROVE CleansOn(p)
    BY <1>22, ResumeIs DEF Now, shared, Cleaning, CleansOn, OneCleaner
  <1>23. ASSUME p \in Tokens, CleanExit(p) PROVE CleansOn(p)
    BY <1>23, CleanExitIs DEF Now, shared, Cleaning, CleansOn, OneCleaner
  <1> QED
    BY <1>1, <1>2, <1>3, <1>4, <1>5, <1>6, <1>7, <1>8, <1>9, <1>10, <1>11, <1>12, <1>13,
       <1>14, <1>15, <1>16, <1>17, <1>18, <1>19, <1>20, <1>21, <1>22, <1>23 DEF Step,
       AppendStep, CallStep, CleanStep

LEMMA OneCleanerKept == ASSUME Shapes, OneCleaner, [Next]_vars PROVE OneCleaner'
  <1>1. CASE Still
    BY <1>1 DEF OneCleaner, Still, shared, local
  <1>2. ASSUME NEW p \in Procs, Others(p), CleansOn(p) PROVE OneCleaner'
    BY <1>2 DEF OneCleaner, Others, CleansOn
  <1> QED
    BY <1>1, <1>2, SomebodySteps, StepsAlone, StepsCleanOn DEF Alone

-----------------------------------------------------------------------------
(* Most steps leave the list and its length as they are.                   *)

SameLinks == /\ Len(items') = Len(items)
             /\ \A k \in 1 .. Len(items) : /\ items'[k].type = items[k].type
                                           /\ items'[k].linked = items[k].linked
Minor(p) == /\ UNCHANGED <<removed, messages>> /\ SameLinks
            /\ own'[p] \in {0, own[p]}
            /\ pc'[p] \in Holding => pc[p] \in Holding /\ own'[p] = own[p]
            /\ pc[p] \notin {"link", "count", "uncount"}
            /\ pc'[p] \notin {"link", "count", "uncount"}
Major(p) == \/ AppendItem(p) \/ Link(p) \/ Count(p)
            \/ p \in Tokens /\ (Reduce(p) \/ Uncount(p))

LEMMA StepsAreMinor ==
  ASSUME Shapes, Modes, Owns, Positions, NEW p \in Procs, Step(p), ~Still
  PROVE  Minor(p) \/ Major(p)
  <1>1. ASSUME p \in Publishers, Push(p) PROVE Minor(p) \/ Major(p)
    BY <1>1, PushIs DEF Now, Minor, SameLinks, Holding, shared
  <1>2. ASSUME p \in Tokens, Subscribe(p) PROVE Minor(p) \/ Major(p)
    BY <1>2, SubscribeIs DEF Now, Minor, SameLinks, Holding, shared
  <1>3. ASSUME p \in Tokens, Unsubscribe(p) PROVE Minor(p) \/ Major(p)
    BY <1>3, UnsubscribeIs DEF Now, Minor, SameLinks, Holding, shared
  <1>4. ASSUME p \in Tokens, Pull(p) PROVE Minor(p) \/ Major(p)
    BY <1>4, LookIs DEF Now, Minor, SameLinks, Holding, shared
  <1>5. ASSUME p \in Tokens, Acknowledge(p) PROVE Minor(p) \/ Major(p)
    BY <1>5, LookIs DEF Now, Minor, SameLinks, Holding, shared
  <1>6. ASSUME p \in Tokens, LookNext(p) PROVE Minor(p) \/ Major(p)
    BY <1>6, LookIs DEF Now, Minor, SameLinks, Holding, shared
  <1>7. ASSUME AppendItem(p) PROVE Minor(p) \/ Major(p)
    BY <1>7 DEF Major
  <1>8. ASSUME Link(p) PROVE Minor(p) \/ Major(p)
    BY <1>8 DEF Major
  <1>9. ASSUME Count(p) PROVE Minor(p) \/ Major(p)
    BY <1>9 DEF Major
  <1>10. ASSUME p \in Tokens, MarkItem(p) PROVE Minor(p) \/ Major(p)
    <2>1. /\ pc[p] = "mark" /\ Mark(cur[p])
          /\ UNCHANGED <<removed, messages>> /\ own'[p] = own[p]
          /\ pc'[p] \notin {"link", "count", "uncount"}
          /\ pc'[p] \in Holding => pc[p] \in Holding
      BY <1>10, MarkItemIs DEF Now, Holding
    <2>2. cur[p] \in 1 .. Len(items)
      BY <1>10, <2>1, MarkItemPlaced
    <2>3. SameLinks
      BY <2>1, <2>2, ItemMarked DEF SameLinks
    <2> QED
      BY <2>1, <2>3 DEF Minor
  <1>11. ASSUME p \in Tokens, Walk(p) PROVE Minor(p) \/ Major(p)
    BY <1>11, WalkIs DEF Now, Minor, SameLinks, Holding, shared
  <1>12. ASSUME p \in Tokens, MarkOwn(p) PROVE Minor(p) \/ Major(p)
    <2>1. /\ pc[p] = "markOwn" /\ Mark(own[p])
          /\ UNCHANGED <<removed, messages>> /\ own'[p] = own[p]
          /\ pc'[p] \notin {"link", "count", "uncount"}
          /\ pc'[p] \in Holding => pc[p] \in Holding
      BY <1>12, MarkOwnIs DEF Now, Holding
    <2>2. own[p] \in 1 .. Len(items)
      BY <1>12, <2>1, MarkOwnPlaced
    <2>3. SameLinks
      BY <2>1, <2>2, ItemMarked DEF SameLinks
    <2> QED
      BY <2>1, <2>3 DEF Minor
  <1>13. ASSUME p \in Tokens, LeaveQueue(p) PROVE Minor(p) \/ Major(p)
    BY <1>13, LeaveQueueIs DEF Now, Minor, SameLinks, Holding, shared
  <1>14. ASSUME p \in Tokens, Load(p) PROVE Minor(p) \/ Major(p)
    BY <1>14, LoadIs DEF Now, Minor, SameLinks, Holding, shared
  <1>15. ASSUME p \in Tokens, Ack(p) PROVE Minor(p) \/ Major(p)
    <2>1. /\ pc[p] = "ack" /\ Mark(cur[p])
          /\ UNCHANGED <<removed, messages>> /\ own'[p] = own[p]
          /\ pc'[p] \notin {"link", "count", "uncount"}
          /\ pc'[p] \in Holding => pc[p] \in Holding
      BY <1>15, AckIs DEF Now, Holding
    <2>2. cur[p] \in 1 .. Len(items)
      BY <1>15, <2>1, AckPlaced
    <2>3. SameLinks
      BY <2>1, <2>2, ItemMarked DEF SameLinks
    <2> QED
      BY <2>1, <2>3 DEF Minor
  <1>16. ASSUME p \in Tokens, Return(p) PROVE Minor(p) \/ Major(p)
    BY <1>16, ReturnIs DEF Now, Minor, SameLinks, Holding, shared
  <1>17. ASSUME p \in Tokens, CleanEnter(p) PROVE Minor(p) \/ Major(p)
    BY <1>17, CleanEnterIs DEF Now, Minor, SameLinks, Holding, shared
  <1>18. ASSUME p \in Tokens, Scan(p) PROVE Minor(p) \/ Major(p)
    BY <1>18, ScanIs DEF Now, Minor, SameLinks, Holding, shared
  <1>19. ASSUME p \in Tokens, Reduce(p) PROVE Minor(p) \/ Major(p)
    BY <1>19 DEF Major
  <1>20. ASSUME p \in Tokens, Uncount(p) PROVE Minor(p) \/ Major(p)
    BY <1>20 DEF Major
  <1>21. ASSUME p \in Tokens, Delete(p) PROVE Minor(p) \/ Major(p)
    BY <1>21, DeleteIs DEF Now, Minor, SameLinks, Holding, shared
  <1>22. ASSUME p \in Tokens, Resume(p) PROVE Minor(p) \/ Major(p)
    BY <1>22, ResumeIs DEF Now, Minor, SameLinks, Holding, shared
  <1>23. ASSUME p \in Tokens, CleanExit(p) PROVE Minor(p) \/ Major(p)
    BY <1>23, CleanExitIs DEF Now, Minor, SameLinks, Holding, shared
  <1> QED
    BY <1>1, <1>2, <1>3, <1>4, <1>5, <1>6, <1>7, <1>8, <1>9, <1>10, <1>11, <1>12, <1>13,
       <1>14, <1>15, <1>16, <1>17, <1>18, <1>19, <1>20, <1>21, <1>22, <1>23 DEF Step,
       AppendStep, CallStep, CleanStep

\* An append and the store of its link.
LEMMA AppendItemGrows ==
  ASSUME Shapes, Modes, NEW p \in Procs, AppendItem(p)
  PROVE  /\ items' \in Seq(Item) /\ Len(items') = Len(items) + 1 /\ Len(items) \in Nat
         /\ \A k \in 1 .. Len(items) : items'[k] = items[k]
         /\ items'[Len(items) + 1].type = ItemType[op[p]]
         /\ items'[Len(items) + 1].reads = 0 /\ ~items'[Len(items) + 1].linked
         /\ op[p] \in {"push", "subscribe", "unsubscribe"}
  <1>1. op[p] \in {"push", "subscribe", "unsubscribe"}
    BY AppendItemIs DEF Modes, ModeOf, Reading, Finishing, Shapes, Ops
  <1>2. items' = Append(items, [type |-> ItemType[op[p]], reads |-> 0, linked |-> FALSE])
    BY AppendItemIs
  <1> QED
    BY <1>1, <1>2, ItemsGrow

LEMMA LinkLinks ==
  ASSUME Shapes, Owns, NEW p \in Procs, Link(p)
  PROVE  /\ own[p] \in 1 .. Len(items) /\ ~items[own[p]].linked
         /\ items' \in Seq(Item) /\ Len(items') = Len(items) /\ Len(items) \in Nat
         /\ \A j \in 1 .. Len(items) : /\ j # own[p] => items'[j] = items[j]
                                       /\ items'[j].type = items[j].type
                                       /\ items'[j].reads = items[j].reads
         /\ items'[own[p]].linked = TRUE
  <1>1. /\ own[p] \in 1 .. Len(items) /\ Len(items) \in Nat /\ pc[p] = "link"
        /\ items' = [items EXCEPT ![own[p]].linked = TRUE]
    BY LinkIs, LinkPlaced
  <1>2. ~items[own[p]].linked
    BY <1>1 DEF Owns
  <1> QED
    BY <1>1, <1>2, ItemLinked

\* The list only grows.
Grown == /\ Len(items) \in Nat /\ Len(items') \in Nat /\ Len(items') >= Len(items)
         /\ \A k \in 1 .. Len(items) : /\ items'[k].type = items[k].type
                                       /\ items[k].linked => items'[k].linked

LEMMA ListGrows == ASSUME Shapes, Modes, Owns, Positions, [Next]_vars PROVE Grown
  <1>1. Len(items) \in Nat
    BY DEF Shapes
  <1>2. CASE items' = items
    BY <1>1, <1>2 DEF Grown
  <1>3. CASE SameLinks
    BY <1>1, <1>3 DEF Grown, SameLinks
  <1>4. ASSUME NEW p \in Procs, AppendItem(p) PROVE Grown
    <2>1. /\ Len(items') = Len(items) + 1
          /\ \A k \in 1 .. Len(items) : items'[k] = items[k]
      BY <1>4, AppendItemGrows
    <2> QED
      BY <1>1, <2>1 DEF Grown
  <1>5. ASSUME NEW p \in Procs, Link(p) PROVE Grown
    <2>1. /\ Len(items') = Len(items) /\ own[p] \in 1 .. Len(items)
          /\ \A j \in 1 .. Len(items) : /\ j # own[p] => items'[j] = items[j]
                                        /\ items'[j].type = items[j].type
          /\ items'[own[p]].linked = TRUE
      BY <1>5, LinkLinks
    <2> QED
      BY <1>1, <2>1 DEF Grown
  <1>6. ASSUME NEW p \in Procs, Count(p) \/ (p \in Tokens /\ (Reduce(p) \/ Uncount(p)))
        PROVE  items' = items
    BY <1>6, CountIs, ReduceIs, UncountIs
  <1>7. Still => items' = items
    BY DEF Still, shared
  <1> QED
    BY <1>2, <1>3, <1>4, <1>5, <1>6, <1>7, SomebodySteps, StepsAreMinor DEF Minor, Major

-----------------------------------------------------------------------------
(* Who appends has an item of its own.                                     *)

LEMMA OwnsStays ==
  ASSUME Shapes, Owns, NEW p \in Procs, Others(p), Len(items) \in Nat,
         own'[p] \in {0, own[p], Len(items) + 1},
         pc'[p] \in Holding => own'[p] # 0,
         pc'[p] = "link" => ~items'[own'[p]].linked,
         \A j \in 1 .. Len(items) : j # own[p] => items'[j].linked = items[j].linked
  PROVE  Owns'
  <1>1. \A q \in Procs : own[q] \in 0 .. Len(items)
    BY DEF Shapes, Pointer
  <1>2. ASSUME NEW q \in Procs \ {p} PROVE pc'[q] = pc[q] /\ own'[q] = own[q]
    BY DEF Others
  <1>3. ASSUME NEW q \in Procs, NEW r \in Procs, own'[q] # 0, own'[q] = own'[r] PROVE q = r
    BY <1>1, <1>2, <1>3 DEF Owns
  <1>4. ASSUME NEW q \in Procs, pc'[q] \in Holding PROVE own'[q] # 0
    BY <1>2, <1>4 DEF Owns
  <1>5. ASSUME NEW q \in Procs, pc'[q] = "link" PROVE ~items'[own'[q]].linked
    <2>1. CASE q = p
      BY <1>5, <2>1
    <2>2. CASE q # p
      <3>1. pc[q] = "link" /\ own'[q] = own[q]
        BY <1>2, <1>5, <2>2
      <3>2. own[q] # 0 /\ own[q] # own[p] /\ ~items[own[q]].linked
        BY <3>1, <2>2 DEF Owns, Holding
      <3> QED
        BY <1>1, <3>1, <3>2
    <2> QED
      BY <2>1, <2>2
  <1> QED
    BY <1>3, <1>4, <1>5 DEF Owns

LEMMA OwnsKept == ASSUME Shapes, Modes, Owns, Positions, [Next]_vars PROVE Owns'
  <1>1. CASE Still
    BY <1>1 DEF Owns, Still, shared, local
  <1>2. ASSUME NEW p \in Procs, Others(p), Minor(p) PROVE Owns'
    <2>1. \A j \in 1 .. Len(items) : items'[j].linked = items[j].linked
      BY <1>2 DEF Minor, SameLinks
    <2>2. /\ own'[p] \in {0, own[p]} /\ pc'[p] # "link"
          /\ pc'[p] \in Holding => own'[p] # 0
      BY <1>2 DEF Minor, Owns
    <2>3. Len(items) \in Nat
      BY DEF Shapes
    <2> QED
      BY <1>2, <2>1, <2>2, <2>3, OwnsStays
  <1>3. ASSUME NEW p \in Procs, Others(p), AppendItem(p) PROVE Owns'
    <2>1. /\ Len(items) \in Nat
          /\ \A k \in 1 .. Len(items) : items'[k] = items[k]
          /\ ~items'[Len(items) + 1].linked
      BY <1>3, AppendItemGrows
    <2>2. own'[p] = Len(items) + 1
      BY <1>3, AppendItemIs DEF Now
    <2>3. \A j \in 1 .. Len(items) : j # own[p] => items'[j].linked = items[j].linked
      BY <2>1
    <2>4. own'[p] # 0 /\ ~items'[own'[p]].linked
      BY <2>1, <2>2
    <2> QED
      BY <1>3, <2>1, <2>2, <2>3, <2>4, OwnsStays
  <1>4. ASSUME NEW p \in Procs, Others(p), Link(p) PROVE Owns'
    <2>1. /\ Len(items) \in Nat /\ own[p] \in 1 .. Len(items)
          /\ \A j \in 1 .. Len(items) : j # own[p] => items'[j] = items[j]
      BY <1>4, LinkLinks
    <2>2. own'[p] = own[p] /\ pc'[p] = "count"
      BY <1>4, LinkIs DEF Now
    <2>3. \A j \in 1 .. Len(items) : j # own[p] => items'[j].linked = items[j].linked
      BY <2>1
    <2>4. own'[p] # 0 /\ pc'[p] # "link"
      BY <2>1, <2>2
    <2> QED
      BY <1>4, <2>1, <2>2, <2>3, <2>4, OwnsStays
  <1>5. ASSUME NEW p \in Procs, Others(p), Count(p) PROVE Owns'
    <2>1. items' = items /\ own'[p] \in {0, own[p]} /\ pc'[p] # "link"
      BY <1>5, CountIs DEF Now
    <2>2. pc'[p] \in Holding => own'[p] # 0
      BY <1>5, CountIs DEF Now, Owns, Holding
    <2>3. Len(items) \in Nat
      BY DEF Shapes
    <2> QED
      BY <1>5, <2>1, <2>2, <2>3, OwnsStays
  <1>6. ASSUME NEW p \in Tokens, Others(p), Reduce(p) \/ Uncount(p) PROVE Owns'
    <2>1. items' = items /\ own'[p] = own[p] /\ pc'[p] \notin Holding /\ p \in Procs
      BY <1>6, ReduceIs, UncountIs DEF Now, Holding, Procs
    <2>2. Len(items) \in Nat /\ pc'[p] # "link"
      BY <2>1 DEF Shapes, Holding
    <2> QED
      BY <1>6, <2>1, <2>2, OwnsStays
  <1> QED
    BY <1>1, <1>2, <1>3, <1>4, <1>5, <1>6, SomebodySteps, StepsAlone, StepsAreMinor
       DEF Alone, Major

-----------------------------------------------------------------------------
(* What is about to leave the list is in it.                               *)

LEMMA OnlyScanFinds ==
  ASSUME Shapes, NEW p \in Procs, Step(p), ~Still
  PROVE  \/ pc'[p] # "reduce" /\ removed' = removed
         \/ p \in Tokens /\ (Scan(p) \/ Reduce(p))
  <1>1. ASSUME p \in Publishers, Push(p) PROVE pc'[p] # "reduce" /\ removed' = removed
    BY <1>1, PushIs DEF Now, shared
  <1>2. ASSUME p \in Tokens, Subscribe(p) PROVE pc'[p] # "reduce" /\ removed' = removed
    BY <1>2, SubscribeIs DEF Now, shared
  <1>3. ASSUME p \in Tokens, Unsubscribe(p) PROVE pc'[p] # "reduce" /\ removed' = removed
    BY <1>3, UnsubscribeIs DEF Now, shared
  <1>4. ASSUME p \in Tokens, Pull(p) PROVE pc'[p] # "reduce" /\ removed' = removed
    BY <1>4, LookIs DEF Now, shared
  <1>5. ASSUME p \in Tokens, Acknowledge(p) PROVE pc'[p] # "reduce" /\ removed' = removed
    BY <1>5, LookIs DEF Now, shared
  <1>6. ASSUME p \in Tokens, LookNext(p) PROVE pc'[p] # "reduce" /\ removed' = removed
    BY <1>6, LookIs DEF Now, shared
  <1>7. ASSUME AppendItem(p) PROVE pc'[p] # "reduce" /\ removed' = removed
    BY <1>7, AppendItemIs DEF Now, shared
  <1>8. ASSUME Link(p) PROVE pc'[p] # "reduce" /\ removed' = removed
    BY <1>8, LinkIs DEF Now, shared
  <1>9. ASSUME Count(p) PROVE pc'[p] # "reduce" /\ removed' = removed
    BY <1>9, CountIs DEF Now, shared
  <1>10. ASSUME p \in Tokens, MarkItem(p) PROVE pc'[p] # "reduce" /\ removed' = removed
    BY <1>10, MarkItemIs DEF Now, shared
  <1>11. ASSUME p \in Tokens, Walk(p) PROVE pc'[p] # "reduce" /\ removed' = removed
    BY <1>11, WalkIs DEF Now, shared
  <1>12. ASSUME p \in Tokens, MarkOwn(p) PROVE pc'[p] # "reduce" /\ removed' = removed
    BY <1>12, MarkOwnIs DEF Now, shared
  <1>13. ASSUME p \in Tokens, LeaveQueue(p) PROVE pc'[p] # "reduce" /\ removed' = removed
    BY <1>13, LeaveQueueIs DEF Now, shared
  <1>14. ASSUME p \in Tokens, Load(p) PROVE pc'[p] # "reduce" /\ removed' = removed
    BY <1>14, LoadIs DEF Now, shared
  <1>15. ASSUME p \in Tokens, Ack(p) PROVE pc'[p] # "reduce" /\ removed' = removed
    BY <1>15, AckIs DEF Now, shared
  <1>16. ASSUME p \in Tokens, Return(p) PROVE pc'[p] # "reduce" /\ removed' = removed
    BY <1>16, ReturnIs DEF Now, shared
  <1>17. ASSUME p \in Tokens, CleanEnter(p) PROVE pc'[p] # "reduce" /\ removed' = removed
    BY <1>17, CleanEnterIs DEF Now, shared
  <1>18. ASSUME p \in Tokens, Uncount(p) PROVE pc'[p] # "reduce" /\ removed' = removed
    BY <1>18, UncountIs DEF Now, shared
  <1>19. ASSUME p \in Tokens, Delete(p) PROVE pc'[p] # "reduce" /\ removed' = removed
    BY <1>19, DeleteIs DEF Now, shared
  <1>20. ASSUME p \in Tokens, Resume(p) PROVE pc'[p] # "reduce" /\ removed' = removed
    BY <1>20, ResumeIs DEF Now, shared
  <1>21. ASSUME p \in Tokens, CleanExit(p) PROVE pc'[p] # "reduce" /\ removed' = removed
    BY <1>21, CleanExitIs DEF Now, shared
  <1> QED
    BY <1>1, <1>2, <1>3, <1>4, <1>5, <1>6, <1>7, <1>8, <1>9, <1>10, <1>11, <1>12, <1>13,
       <1>14, <1>15, <1>16, <1>17, <1>18, <1>19, <1>20, <1>21 DEF Step, AppendStep,
       CallStep, CleanStep

LEMMA HeadStays ==
  ASSUME Shapes, HeadIsThere, Grown, NEW p \in Procs, Others(p),
         pc'[p] = "reduce" => /\ removed' < Len(items')
                              /\ items'[removed' + 1].linked,
         removed' = removed \/ \A q \in Procs \ {p} : pc[q] # "reduce"
  PROVE  HeadIsThere'
  <1>1. ASSUME NEW t \in Tokens, pc'[t] = "reduce"
        PROVE  removed' < Len(items') /\ items'[removed' + 1].linked
    <2>1. CASE t = p
      BY <1>1, <2>1
    <2>2. CASE t # p
      <3>1. pc[t] = "reduce" /\ removed' = removed
        BY <1>1, <2>2 DEF Others, Procs
      <3>2. /\ removed \in Nat /\ Len(items) \in Nat /\ removed < Len(items)
            /\ items[removed + 1].linked
        BY <3>1 DEF HeadIsThere, Shapes
      <3>3. removed + 1 \in 1 .. Len(items)
        BY <3>2
      <3> QED
        BY <3>1, <3>2, <3>3 DEF Grown
    <2> QED
      BY <2>1, <2>2
  <1> QED
    BY <1>1 DEF HeadIsThere

LEMMA HeadKept ==
  ASSUME Shapes, OneCleaner, HeadIsThere, Grown, [Next]_vars
  PROVE  HeadIsThere'
  <1>1. CASE Still
    BY <1>1 DEF HeadIsThere, Still, shared, local
  <1>2. ASSUME NEW p \in Procs, Others(p), pc'[p] # "reduce", removed' = removed
        PROVE  HeadIsThere'
    BY <1>2, HeadStays
  <1>3. ASSUME NEW p \in Tokens, Others(p), Scan(p) PROVE HeadIsThere'
    <2>1. removed' = removed /\ items' = items /\ (pc'[p] = "reduce" => HeadItem # 0)
      BY <1>3, ScanIs DEF Now
    <2>2. HeadItem # 0 => removed < Len(items) /\ items[removed + 1].linked
      BY DEF HeadItem, NextOf
    <2> QED
      BY <1>3, <2>1, <2>2, HeadStays DEF Procs
  <1>4. ASSUME NEW p \in Tokens, Others(p), Reduce(p) PROVE HeadIsThere'
    <2>1. pc'[p] # "reduce" /\ pc[p] = "reduce"
      BY <1>4, ReduceIs DEF Now
    <2>2. \A q \in Procs \ {p} : pc[q] # "reduce"
      BY <2>1 DEF OneCleaner, Cleaning, Procs
    <2> QED
      BY <1>4, <2>1, <2>2, HeadStays DEF Procs
  <1> QED
    BY <1>1, <1>2, <1>3, <1>4, SomebodySteps, StepsAlone, OnlyScanFinds DEF Alone

-----------------------------------------------------------------------------
(* Where the tokens stand.                                                 *)

\* A token does not notice what others do.
LEMMA PlacedStays ==
  ASSUME Shapes, Positions, Grown, NEW p \in Procs, Alone(p), NEW t \in Tokens \ {p}
  PROVE  Placed(t)'
  <1>1. /\ pc'[t] = pc[t] /\ op'[t] = op[t] /\ cur'[t] = cur[t] /\ nxt'[t] = nxt[t]
        /\ own'[t] = own[t]
    BY DEF Alone, Others, Procs
  <1>2. cur[t] \in 0 .. Len(items) /\ last[t] \in Nat /\ Len(items) \in Nat
    BY DEF Shapes, Pointer, Procs
  <1>3. \A k \in last[t] + 1 .. cur[t] : IsPayload(k)' <=> IsPayload(k)
    BY <1>2 DEF IsPayload, Grown
  <1>4. Placed(t)
    BY DEF Positions
  <1>5. /\ Live(t)' <=> Live(t)
        /\ Pos(t)' = Pos(t)
        /\ Leaving(t)' <=> Leaving(t)
        /\ From(t)' = From(t)
        /\ Moving(t)' <=> Moving(t)
    BY <1>1 DEF Live, Pos, Leaving, From, Moving, Marking, Alone
  <1> QED
    BY <1>1, <1>3, <1>4, <1>5 DEF Placed, Alone

LEMMA StepPlaces ==
  ASSUME Shapes, Modes, Owns, Positions, Grown, NEW p \in Procs, Step(p), ~Still, Alone(p),
         p \in Tokens
  PROVE  Placed(p)'
  <1>a. Placed(p) /\ ModeOf(p) /\ last[p] \in Nat /\ cur[p] \in Nat /\ own[p] \in Nat
    BY DEF Positions, Modes, Shapes, Pointer
  <1>1. ASSUME p \in Publishers, Push(p) PROVE Placed(p)'
    BY <1>1, ProcsAssumption
  <1>2. ASSUME p \in Tokens, Subscribe(p) PROVE Placed(p)'
    BY <1>2, <1>a, SubscribeIs DEF Now, Placed, Live, Pos, Leaving, From, Moving, Marking,
       Holding, Reading, shared, token, Procs, ModeOf, Appending, Finishing
  <1>3. ASSUME p \in Tokens, Unsubscribe(p) PROVE Placed(p)'
    BY <1>3, <1>a, UnsubscribeIs DEF Now, Placed, Live, Pos, Leaving, From, Moving,
       Marking, Holding, Reading, shared, token, Procs, ModeOf, Appending, Finishing
  <1>4. ASSUME p \in Tokens, Pull(p) PROVE Placed(p)'
    BY <1>4, <1>a, LookIs DEF Now, Placed, Live, Pos, Leaving, From, Moving, Marking,
       Holding, Reading, shared, token, Procs, ModeOf, Appending, Finishing
  <1>5. ASSUME p \in Tokens, Acknowledge(p) PROVE Placed(p)'
    BY <1>5, <1>a, LookIs DEF Now, Placed, Live, Pos, Leaving, From, Moving, Marking,
       Holding, Reading, shared, token, Procs, ModeOf, Appending, Finishing
  <1>6. ASSUME p \in Tokens, LookNext(p) PROVE Placed(p)'
    BY <1>6, <1>a, LookIs DEF Now, Placed, Live, Pos, Leaving, From, Moving, Marking,
       Holding, Reading, shared, token, Procs, ModeOf, Appending, Finishing
  <1>7. ASSUME AppendItem(p) PROVE Placed(p)'
    <2>1. op[p] \in {"subscribe", "unsubscribe"}
      BY <1>7, <1>a, AppendItemIs DEF ModeOf, Reading, Finishing, Shapes, Ops
    <2>2. /\ pc[p] = "append" /\ pc'[p] = "link" /\ op'[p] = op[p] /\ cur'[p] = cur[p]
          /\ own'[p] = Len(items) + 1 /\ last'[p] = last[p]
      BY <1>7, AppendItemIs DEF Now, token
    <2>3. Len(items) \in Nat /\ cur[p] \in 0 .. Len(items)
      BY DEF Shapes, Pointer
    <2>4. CASE op[p] = "subscribe"
      BY <2>2, <2>4, <2>3 DEF Placed, Live, Pos, Leaving, Moving, Reading
    <2>5. CASE op[p] = "unsubscribe"
      <3>1. last[p] # 0 /\ cur[p] = last[p]
        BY <1>a, <2>2, <2>5 DEF Placed, ModeOf, Reading, Procs
      <3>2. From(p)' = cur[p] /\ ~Live(p)' /\ ~Moving(p)'
        BY <2>2, <2>5 DEF From, Live, Moving, Reading
      <3> QED
        BY <1>a, <2>2, <2>5, <2>3, <3>1, <3>2 DEF Placed
    <2> QED
      BY <2>1, <2>4, <2>5
  <1>8. ASSUME Link(p) PROVE Placed(p)'
    BY <1>8, <1>a, LinkIs DEF Now, Placed, Live, Pos, Leaving, From, Moving, Marking,
       Holding, Reading, shared, token, Procs, ModeOf, Appending, Finishing
  <1>9. ASSUME Count(p) PROVE Placed(p)'
    <2>1. own[p] > 0
      BY <1>9, <1>a, CountIs DEF Owns, Holding
    <2>2. CASE op[p] \in {"push", "subscribe"}
      <3>1. pc'[p] = "idle" /\ op'[p] = "none" /\ op[p] = "subscribe" /\ last'[p] = own[p]
        BY <1>9, <1>a, <2>2, CountIs DEF Now, ModeOf, Shapes, Procs
      <3> QED
        BY <2>1, <3>1 DEF Placed, Live, Pos, Leaving, From, Moving, Marking, Holding,
           Reading
    <2>3. CASE op[p] \notin {"push", "subscribe"}
      <3>1. /\ pc[p] = "count" /\ pc'[p] = "mark" /\ op'[p] = op[p] /\ op[p] = "unsubscribe"
            /\ cur'[p] = cur[p] /\ own'[p] = own[p] /\ last'[p] = last[p]
        BY <1>9, <1>a, <2>3, CountIs DEF Now, ModeOf, Reading, Finishing, Shapes, Ops
      <3>2. /\ From(p)' = From(p) /\ Leaving(p) /\ Leaving(p)' /\ ~Live(p)' /\ ~Moving(p)'
        BY <3>1 DEF From, Leaving, Holding, Live, Moving, Reading
      <3> QED
        BY <1>a, <3>1, <3>2 DEF Placed
    <2> QED
      BY <2>2, <2>3
  <1>10. ASSUME p \in Tokens, MarkItem(p) PROVE Placed(p)'
    BY <1>10, <1>a, MarkItemIs DEF Now, Placed, Live, Pos, Leaving, From, Moving, Marking,
       Holding, Reading, shared, token, Procs, ModeOf, Appending, Finishing
  <1>11. ASSUME p \in Tokens, Walk(p) PROVE Placed(p)'
    <2>1. /\ pc[p] = "walk" /\ op[p] = "unsubscribe" /\ op'[p] = op[p] /\ own'[p] = own[p]
          /\ last'[p] = last[p] /\ pc'[p] \in {"mark", "markOwn"}
          /\ pc'[p] = "mark" => NextOf(cur[p]) \notin {0, own[p]} /\ cur'[p] = NextOf(cur[p])
      BY <1>11, <1>a, WalkIs DEF Now, token, ModeOf, Appending, Reading, Finishing, Procs,
         Shapes, Ops
    <2>2. cur[p] \in 1 .. own[p] - 1
      BY <1>a, <2>1 DEF Placed, Leaving, Holding
    <2>3. pc'[p] = "mark" => cur'[p] = cur[p] + 1 /\ cur[p] + 1 # own[p]
      BY <2>1 DEF NextOf
    <2>4. ~Live(p)' /\ ~Moving(p)' /\ op'[p] = "unsubscribe"
      BY <2>1 DEF Live, Moving, Reading
    <2>5. CASE pc'[p] = "mark"
      <3>1. From(p)' = cur'[p]
        BY <2>5 DEF From
      <3> QED
        BY <1>a, <2>1, <2>2, <2>3, <2>4, <2>5, <3>1 DEF Placed
    <2>6. CASE pc'[p] = "markOwn"
      <3>1. From(p)' = own'[p]
        BY <2>6 DEF From
      <3> QED
        BY <1>a, <2>1, <2>2, <2>4, <2>6, <3>1 DEF Placed
    <2> QED
      BY <2>1, <2>5, <2>6
  <1>12. ASSUME p \in Tokens, MarkOwn(p) PROVE Placed(p)'
    BY <1>12, <1>a, MarkOwnIs DEF Now, Placed, Live, Pos, Leaving, From, Moving, Marking,
       Holding, Reading, shared, token, Procs, ModeOf, Appending, Finishing
  <1>13. ASSUME p \in Tokens, LeaveQueue(p) PROVE Placed(p)'
    BY <1>13, <1>a, LeaveQueueIs DEF Now, Placed, Live, Pos, Leaving, From, Moving,
       Marking, Holding, Reading, shared, token, Procs, ModeOf, Appending, Finishing
  <1>14. ASSUME p \in Tokens, Load(p) PROVE Placed(p)'
    <2>1. /\ pc[p] = "load" /\ op[p] \in Reading /\ op'[p] = op[p] /\ own'[p] = own[p]
          /\ last'[p] = last[p] /\ setup' = setup /\ items' = items /\ last[p] # 0
      BY <1>14, <1>a, LoadIs DEF Now, token, shared, ModeOf, Appending, Reading,
         Finishing, Procs, Shapes, Ops
    <2>2. /\ Marking(p)' <=> Marking(p)
          /\ ~Leaving(p)' /\ op'[p] # "unsubscribe" /\ op'[p] # "subscribe" /\ Live(p)
          /\ Live(p)'
      BY <2>1 DEF Marking, Leaving, Live, Reading
    <2>3. CASE ~Marking(p)
      <3>1. pc'[p] \in {"load", "return"}
        BY <1>14, <2>3, LoadIs DEF Now
      <3>2. ~Moving(p)' /\ Pos(p)' = last[p]
        BY <2>1, <2>2, <2>3, <3>1 DEF Moving, Pos
      <3> QED
        BY <1>a, <2>1, <2>2, <3>1, <3>2 DEF Placed
    <2>4. CASE Marking(p)
      <3>1. /\ cur'[p] = cur[p] /\ pc'[p] \in {"clean", "ack"}
            /\ pc'[p] = "ack" => nxt'[p] = NextOf(cur[p]) /\ nxt'[p] # 0
        BY <1>14, <2>4, LoadIs DEF Now
      <3>2. pc'[p] = "ack" => nxt'[p] = cur[p] + 1
        BY <3>1 DEF NextOf
      <3>3. Pos(p) = cur[p] /\ Pos(p)' = cur[p] /\ Moving(p)
        BY <2>1, <2>2, <2>4, <3>1 DEF Pos, Moving
      <3>4. \A k \in last[p] + 1 .. cur[p] : ~IsPayload(k)'
        BY <1>a, <2>1, <3>3 DEF Placed, IsPayload
      <3> QED
        BY <1>a, <2>1, <2>2, <3>1, <3>2, <3>3, <3>4 DEF Placed
    <2> QED
      BY <2>3, <2>4
  <1>15. ASSUME p \in Tokens, Ack(p) PROVE Placed(p)'
    <2>1. /\ pc[p] = "ack" /\ op[p] \in Reading /\ op'[p] = op[p] /\ own'[p] = own[p]
          /\ last'[p] = last[p] /\ setup' = setup /\ last[p] # 0 /\ Marking(p)
      BY <1>15, <1>a, AckIs DEF Now, token, shared, ModeOf, Appending, Reading, Finishing,
         Procs, Shapes, Ops
    <2>2. /\ Marking(p)' /\ Moving(p)
          /\ ~Leaving(p)' /\ op'[p] # "unsubscribe" /\ op'[p] # "subscribe" /\ Live(p)
          /\ Live(p)'
      BY <2>1 DEF Marking, Leaving, Live, Reading, Moving
    <2>3. /\ nxt[p] = cur[p] + 1 /\ cur[p] > 0 /\ cur[p] \in 1 .. Len(items) - 1
          /\ last[p] <= cur[p] /\ \A k \in last[p] + 1 .. cur[p] : ~IsPayload(k)
      BY <1>a, <2>1, <2>2, AckPlaced DEF Placed
    <2>4. /\ cur'[p] = cur[p] + 1 /\ pc'[p] \in {"clean", "load"}
          /\ pc'[p] = "load" => items[cur[p] + 1].type # "payload"
      BY <1>15, <2>1, <2>3, AckIs DEF Now
    <2>5. Pos(p)' = cur[p] + 1
      BY <2>2, <2>4 DEF Pos
    <2>6. pc'[p] = "load" => \A k \in last[p] + 1 .. cur[p] + 1 : ~IsPayload(k)'
      <3>1. SUFFICES ASSUME pc'[p] = "load", NEW k \in last[p] + 1 .. cur[p] + 1
                     PROVE  ~IsPayload(k)'
        OBVIOUS
      <3>2. k \in 1 .. Len(items) /\ Len(items) \in Nat
        BY <1>a, <2>3 DEF Shapes
      <3>3. items'[k].type = items[k].type
        BY <3>2 DEF Grown
      <3>4. items[k].type # "payload"
        BY <1>a, <2>3, <2>4, <3>1, <3>2 DEF IsPayload
      <3> QED
        BY <3>3, <3>4 DEF IsPayload
    <2>7. Moving(p)' => pc'[p] = "load"
      BY <2>4 DEF Moving
    <2> QED
      BY <1>a, <2>1, <2>2, <2>3, <2>4, <2>5, <2>6, <2>7 DEF Placed
  <1>16. ASSUME p \in Tokens, Return(p) PROVE Placed(p)'
    <2>1. /\ pc[p] = "return" /\ pc'[p] = "idle" /\ op'[p] = "none"
          /\ setup' = setup
      BY <1>16, ReturnIs DEF Now, shared
    <2>2. ~Leaving(p)' /\ ~Moving(p)' /\ Pos(p)' = last'[p] /\ (Live(p)' => last'[p] # 0)
      BY <2>1 DEF Leaving, Moving, Reading, Pos, Marking, Live
    <2>3. op[p] = "unsubscribe" => last'[p] = 0
      BY <1>16, ReturnIs DEF Shapes
    <2>4. op[p] \in {"pull", "acknowledge"} =>
            last'[p] = IF Marking(p) THEN cur[p] ELSE last[p]
      BY <1>16, ReturnIs DEF Shapes
    <2>5. op[p] = "next" => last'[p] = last[p]
      BY <1>16, ReturnIs DEF Shapes
    <2>6. op[p] \in {"unsubscribe", "pull", "acknowledge", "next"}
      BY <1>16, ReturnIs
    <2>7. last'[p] # 0 => last'[p] > 0
      BY <1>a, <2>3, <2>4, <2>5, <2>6
    <2> QED
      BY <2>1, <2>2, <2>7 DEF Placed
  <1>17. ASSUME p \in Tokens, CleanEnter(p) PROVE Placed(p)'
    BY <1>17, <1>a, CleanEnterIs DEF Now, Placed, Live, Pos, Leaving, From, Moving,
       Marking, Holding, Reading, shared, token, Procs, ModeOf, Appending, Finishing
  <1>18. ASSUME p \in Tokens, Scan(p) PROVE Placed(p)'
    BY <1>18, <1>a, ScanIs DEF Now, Placed, Live, Pos, Leaving, From, Moving, Marking,
       Holding, Reading, shared, token, Procs, ModeOf, Appending, Finishing
  <1>19. ASSUME p \in Tokens, Reduce(p) PROVE Placed(p)'
    BY <1>19, <1>a, ReduceIs DEF Now, Placed, Live, Pos, Leaving, From, Moving, Marking,
       Holding, Reading, shared, token, Procs, ModeOf, Appending, Finishing
  <1>20. ASSUME p \in Tokens, Uncount(p) PROVE Placed(p)'
    BY <1>20, <1>a, UncountIs DEF Now, Placed, Live, Pos, Leaving, From, Moving, Marking,
       Holding, Reading, shared, token, Procs, ModeOf, Appending, Finishing
  <1>21. ASSUME p \in Tokens, Delete(p) PROVE Placed(p)'
    BY <1>21, <1>a, DeleteIs DEF Now, Placed, Live, Pos, Leaving, From, Moving, Marking,
       Holding, Reading, shared, token, Procs, ModeOf, Appending, Finishing
  <1>22. ASSUME p \in Tokens, Resume(p) PROVE Placed(p)'
    BY <1>22, <1>a, ResumeIs DEF Now, Placed, Live, Pos, Leaving, From, Moving, Marking,
       Holding, Reading, shared, token, Procs, ModeOf, Appending, Finishing
  <1>23. ASSUME p \in Tokens, CleanExit(p) PROVE Placed(p)'
    BY <1>23, <1>a, CleanExitIs DEF Now, Placed, Live, Pos, Leaving, From, Moving,
       Marking, Holding, Reading, shared, token, Procs, ModeOf, Appending, Finishing
  <1> QED
    BY <1>1, <1>2, <1>3, <1>4, <1>5, <1>6, <1>7, <1>8, <1>9, <1>10, <1>11, <1>12, <1>13,
       <1>14, <1>15, <1>16, <1>17, <1>18, <1>19, <1>20, <1>21, <1>22, <1>23 DEF Step,
       AppendStep, CallStep, CleanStep

LEMMA PositionsKept ==
  ASSUME Shapes, Modes, Owns, Positions, Grown, [Next]_vars
  PROVE  Positions'
  <1>1. CASE Still
    BY <1>1 DEF Positions, Placed, Live, Pos, Leaving, From, Moving, Marking, Holding,
       Reading, Still, shared, local,
              token, IsPayload
  <1>2. ASSUME NEW p \in Procs, Step(p), ~Still PROVE Positions'
    <2>1. Alone(p)
      BY <1>2, StepsAlone
    <2>2. p \in Tokens => Placed(p)'
      BY <1>2, <2>1, StepPlaces
    <2>3. \A t \in Tokens \ {p} : Placed(t)'
      BY <2>1, PlacedStays
    <2> QED
      BY <2>2, <2>3 DEF Positions
  <1> QED
    BY <1>1, <1>2, SomebodySteps

-----------------------------------------------------------------------------
(* newest_subscribes.                                                      *)

LEMMA EntersOrLeaves ==
  ASSUME Shapes, Modes, Owns, Positions, NEW p \in Procs, Step(p), ~Still, p \in Tokens
  PROVE  \/ (Entered(p)' <=> Entered(p)) /\ newest' = newest
         \/ Subscribe(p) \/ LeaveQueue(p)
  <1>a. ModeOf(p)
    BY DEF Modes
  <1>1. ASSUME p \in Publishers, Push(p)
        PROVE  (Entered(p)' <=> Entered(p)) /\ newest' = newest
    BY <1>1, ProcsAssumption
  <1>2. ASSUME p \in Tokens, Unsubscribe(p)
        PROVE  (Entered(p)' <=> Entered(p)) /\ newest' = newest
    BY <1>2, <1>a, UnsubscribeIs DEF Now, Entered, ModeOf, Appending, Reading, Finishing,
       shared, token, Shapes, Ops
  <1>3. ASSUME p \in Tokens, Pull(p) PROVE (Entered(p)' <=> Entered(p)) /\ newest' = newest
    BY <1>3, <1>a, LookIs DEF Now, Entered, ModeOf, Appending, Reading, Finishing, shared,
       token, Shapes, Ops
  <1>4. ASSUME p \in Tokens, Acknowledge(p)
        PROVE  (Entered(p)' <=> Entered(p)) /\ newest' = newest
    BY <1>4, <1>a, LookIs DEF Now, Entered, ModeOf, Appending, Reading, Finishing, shared,
       token, Shapes, Ops
  <1>5. ASSUME p \in Tokens, LookNext(p)
        PROVE  (Entered(p)' <=> Entered(p)) /\ newest' = newest
    BY <1>5, <1>a, LookIs DEF Now, Entered, ModeOf, Appending, Reading, Finishing, shared,
       token, Shapes, Ops
  <1>6. ASSUME AppendItem(p) PROVE (Entered(p)' <=> Entered(p)) /\ newest' = newest
    BY <1>6, <1>a, AppendItemIs DEF Now, Entered, ModeOf, Appending, Reading, Finishing,
       shared, token, Shapes, Ops
  <1>7. ASSUME Link(p) PROVE (Entered(p)' <=> Entered(p)) /\ newest' = newest
    BY <1>7, <1>a, LinkIs DEF Now, Entered, ModeOf, Appending, Reading, Finishing, shared,
       token, Shapes, Ops
  <1>8. ASSUME Count(p) PROVE (Entered(p)' <=> Entered(p)) /\ newest' = newest
    BY <1>8, <1>a, CountIs DEF Now, Entered, ModeOf, Appending, Reading, Finishing,
       shared, token, Shapes, Ops, Owns, Holding
  <1>9. ASSUME p \in Tokens, MarkItem(p)
        PROVE  (Entered(p)' <=> Entered(p)) /\ newest' = newest
    BY <1>9, <1>a, MarkItemIs DEF Now, Entered, ModeOf, Appending, Reading, Finishing,
       shared, token, Shapes, Ops
  <1>10. ASSUME p \in Tokens, Walk(p) PROVE (Entered(p)' <=> Entered(p)) /\ newest' = newest
    BY <1>10, <1>a, WalkIs DEF Now, Entered, ModeOf, Appending, Reading, Finishing,
       shared, token, Shapes, Ops
  <1>11. ASSUME p \in Tokens, MarkOwn(p)
         PROVE  (Entered(p)' <=> Entered(p)) /\ newest' = newest
    BY <1>11, <1>a, MarkOwnIs DEF Now, Entered, ModeOf, Appending, Reading, Finishing,
       shared, token, Shapes, Ops
  <1>12. ASSUME p \in Tokens, Load(p) PROVE (Entered(p)' <=> Entered(p)) /\ newest' = newest
    BY <1>12, <1>a, LoadIs DEF Now, Entered, ModeOf, Appending, Reading, Finishing,
       shared, token, Shapes, Ops
  <1>13. ASSUME p \in Tokens, Ack(p) PROVE (Entered(p)' <=> Entered(p)) /\ newest' = newest
    BY <1>13, <1>a, AckIs DEF Now, Entered, ModeOf, Appending, Reading, Finishing, shared,
       token, Shapes, Ops
  <1>14. ASSUME p \in Tokens, Return(p)
         PROVE  (Entered(p)' <=> Entered(p)) /\ newest' = newest
    <2>1. op[p] \in {"pull", "acknowledge"} /\ Marking(p) => cur[p] > 0
      BY <1>a DEF ModeOf, Reading, Positions, Placed, Live, Pos, Procs
    <2> QED
      BY <1>14, <1>a, <2>1, ReturnIs DEF Now, Entered, ModeOf, Appending, Reading,
         Finishing, shared, token, Shapes, Ops
  <1>15. ASSUME p \in Tokens, CleanEnter(p)
         PROVE  (Entered(p)' <=> Entered(p)) /\ newest' = newest
    BY <1>15, <1>a, CleanEnterIs DEF Now, Entered, ModeOf, Appending, Reading, Finishing,
       shared, token, Shapes, Ops
  <1>16. ASSUME p \in Tokens, Scan(p) PROVE (Entered(p)' <=> Entered(p)) /\ newest' = newest
    BY <1>16, <1>a, ScanIs DEF Now, Entered, ModeOf, Appending, Reading, Finishing,
       shared, token, Shapes, Ops
  <1>17. ASSUME p \in Tokens, Reduce(p)
         PROVE  (Entered(p)' <=> Entered(p)) /\ newest' = newest
    BY <1>17, <1>a, ReduceIs DEF Now, Entered, ModeOf, Appending, Reading, Finishing,
       shared, token, Shapes, Ops
  <1>18. ASSUME p \in Tokens, Uncount(p)
         PROVE  (Entered(p)' <=> Entered(p)) /\ newest' = newest
    BY <1>18, <1>a, UncountIs DEF Now, Entered, ModeOf, Appending, Reading, Finishing,
       shared, token, Shapes, Ops
  <1>19. ASSUME p \in Tokens, Delete(p)
         PROVE  (Entered(p)' <=> Entered(p)) /\ newest' = newest
    BY <1>19, <1>a, DeleteIs DEF Now, Entered, ModeOf, Appending, Reading, Finishing,
       shared, token, Shapes, Ops
  <1>20. ASSUME p \in Tokens, Resume(p)
         PROVE  (Entered(p)' <=> Entered(p)) /\ newest' = newest
    BY <1>20, <1>a, ResumeIs DEF Now, Entered, ModeOf, Appending, Reading, Finishing,
       shared, token, Shapes, Ops
  <1>21. ASSUME p \in Tokens, CleanExit(p)
         PROVE  (Entered(p)' <=> Entered(p)) /\ newest' = newest
    BY <1>21, <1>a, CleanExitIs DEF Now, Entered, ModeOf, Appending, Reading, Finishing,
       shared, token, Shapes, Ops
  <1> QED
    BY <1>1, <1>2, <1>3, <1>4, <1>5, <1>6, <1>7, <1>8, <1>9, <1>10, <1>11, <1>12, <1>13,
       <1>14, <1>15, <1>16, <1>17, <1>18, <1>19, <1>20, <1>21 DEF Step, AppendStep,
       CallStep, CleanStep

LEMMA SubscribeCounts ==
  ASSUME Shapes, Modes, NewestCounted, NEW p \in Procs, Alone(p), p \in Tokens, Subscribe(p)
  PROVE  NewestCounted'
  <1>1. ModeOf(p) /\ newest' = newest + 1
    BY SubscribeIs DEF Modes
  <1>2. Entered(p)' /\ ~Entered(p)
    BY <1>1, SubscribeIs DEF Now, Entered, ModeOf, Appending, Reading, Finishing, shared,
       token, Shapes, Ops
  <1>3. ASSUME NEW t \in Tokens \ {p} PROVE Entered(t)' <=> Entered(t)
    BY DEF Alone, Others, Entered, Procs
  <1>4. p \notin Subscribed /\ Subscribed' = Subscribed \union {p}
    BY <1>2, <1>3 DEF Subscribed
  <1>5. IsFiniteSet(Subscribed) /\ newest = Cardinality(Subscribed)
    BY DEF NewestCounted
  <1>6. IsFiniteSet(Subscribed') /\ Cardinality(Subscribed') = Cardinality(Subscribed) + 1
    BY <1>4, <1>5, FS_AddElement
  <1> QED
    BY <1>1, <1>5, <1>6 DEF NewestCounted

LEMMA LeaveQueueCounts ==
  ASSUME Shapes, Modes, NewestCounted, NEW p \in Procs, Alone(p), p \in Tokens,
         LeaveQueue(p)
  PROVE  NewestCounted'
  <1>1. ModeOf(p) /\ newest' = newest - 1
    BY LeaveQueueIs DEF Modes
  <1>2. ~Entered(p)' /\ Entered(p)
    <2>1. op[p] = "unsubscribe" /\ last[p] # 0 /\ pc[p] = "leave"
      BY <1>1, LeaveQueueIs DEF ModeOf, Appending, Reading, Finishing, Shapes, Ops
    <2>2. op'[p] = "unsubscribe" /\ pc'[p] = "clean" /\ last' = last
      BY <2>1, LeaveQueueIs DEF Now, token
    <2> QED
      BY <2>1, <2>2 DEF Entered, Finishing
  <1>3. ASSUME NEW t \in Tokens \ {p} PROVE Entered(t)' <=> Entered(t)
    BY DEF Alone, Others, Entered, Procs
  <1>4. p \in Subscribed /\ Subscribed' = Subscribed \ {p}
    BY <1>2, <1>3 DEF Subscribed
  <1>5. IsFiniteSet(Subscribed) /\ newest = Cardinality(Subscribed)
    BY DEF NewestCounted
  <1>6. IsFiniteSet(Subscribed') /\ Cardinality(Subscribed') = Cardinality(Subscribed) - 1
    BY <1>4, <1>5, FS_RemoveElement
  <1> QED
    BY <1>1, <1>5, <1>6 DEF NewestCounted

LEMMA NewestKept ==
  ASSUME Shapes, Modes, Owns, Positions, NewestCounted, [Next]_vars
  PROVE  NewestCounted'
  <1>1. CASE Still
    BY <1>1 DEF NewestCounted, Subscribed, Entered, Still, shared, local, token
  <1>2. ASSUME NEW p \in Procs, Step(p), ~Still PROVE NewestCounted'
    <2>1. Alone(p)
      BY <1>2, StepsAlone
    <2>2. ASSUME p \in Tokens => (Entered(p)' <=> Entered(p)), newest' = newest
          PROVE  NewestCounted'
      <3>1. ASSUME NEW t \in Tokens PROVE Entered(t)' <=> Entered(t)
        <4>1. CASE t = p
          BY <2>2, <4>1
        <4>2. CASE t # p
          BY <2>1, <4>2 DEF Alone, Others, Entered, Procs
        <4> QED
          BY <4>1, <4>2
      <3>2. Subscribed' = Subscribed
        BY <3>1 DEF Subscribed
      <3> QED
        BY <2>2, <3>2 DEF NewestCounted
    <2>3. CASE p \in Tokens
      BY <1>2, <2>1, <2>2, <2>3, EntersOrLeaves, SubscribeCounts, LeaveQueueCounts
    <2>4. CASE p \notin Tokens
      <3>1. (p \in Publishers /\ Push(p)) \/ AppendItem(p) \/ Link(p) \/ Count(p)
        BY <1>2, <2>4 DEF Step, AppendStep
      <3>2. newest' = newest
        BY <3>1, PushIs, AppendItemIs, LinkIs, CountIs DEF shared
      <3> QED
        BY <2>2, <2>4, <3>2
    <2> QED
      BY <2>3, <2>4
  <1> QED
    BY <1>1, <1>2, SomebodySteps

-----------------------------------------------------------------------------
(* messages.                                                               *)

\* How many items messages() counts.
Length == Len(items) - removed - Cardinality(Added) + Cardinality(Uncounted)

LEMMA LengthIs ==
  ASSUME Shapes
  PROVE  /\ MessagesCounted <=> /\ IsFiniteSet(Added) /\ IsFiniteSet(Uncounted)
                                /\ messages = Length % SizeMod
         /\ MessagesCounted => /\ Length \in Int /\ Len(items) \in Nat /\ removed \in Nat
                               /\ Cardinality(Added) \in Nat
                               /\ Cardinality(Uncounted) \in Nat
  BY FS_CardinalityType DEF MessagesCounted, MessagesExact, Length, Added, Uncounted,
     Shapes

LEMMA MessagesThen ==
  ASSUME Shapes, MessagesCounted, IsFiniteSet(Added'), IsFiniteSet(Uncounted'),
         \/ Length' = Length /\ messages' = messages
         \/ Length' = Length + 1 /\ messages' = (messages + 1) % SizeMod
         \/ Length' = Length - 1 /\ messages' = (messages - 1) % SizeMod
  PROVE  MessagesCounted'
  <1>1. messages = Length % SizeMod /\ Length \in Int
    BY LengthIs
  <1>2. PICK x \in Int : x = Length
    BY <1>1
  <1>3. /\ ((x % SizeMod) + 1) % SizeMod = (x + 1) % SizeMod
        /\ ((x % SizeMod) - 1) % SizeMod = (x - 1) % SizeMod
    BY ModShift
  <1>4. messages' = Length' % SizeMod
    BY <1>1, <1>2, <1>3
  <1> QED
    BY <1>4 DEF MessagesCounted, MessagesExact, Length, Added, Uncounted

LEMMA AppendItemCounted ==
  ASSUME Shapes, Modes, MessagesCounted, NEW p \in Procs, Others(p), AppendItem(p)
  PROVE  MessagesCounted'
  <1>1. pc[p] = "append" /\ pc'[p] = "link" /\ removed' = removed /\ messages' = messages
    BY AppendItemIs DEF Now
  <1>2. p \notin Added /\ Added' = Added \union {p} /\ Uncounted' = Uncounted
    BY <1>1 DEF Added, Uncounted, Others
  <1>3. IsFiniteSet(Added) /\ IsFiniteSet(Uncounted)
    BY DEF MessagesCounted
  <1>4. IsFiniteSet(Added') /\ Cardinality(Added') = Cardinality(Added) + 1
    BY <1>2, <1>3, FS_AddElement
  <1>5. Len(items') = Len(items) + 1
    BY AppendItemGrows
  <1>6. Length' = Length
    <2>1. /\ Len(items) \in Nat /\ removed \in Nat
          /\ Cardinality(Added) \in Nat /\ Cardinality(Uncounted) \in Nat
      BY LengthIs
    <2> QED
      BY <1>1, <1>2, <1>3, <1>4, <1>5, <2>1 DEF Length
  <1> QED
    BY <1>1, <1>2, <1>3, <1>4, <1>6, LengthIs, MessagesThen

LEMMA CountCounted ==
  ASSUME Shapes, Modes, MessagesCounted, NEW p \in Procs, Others(p), Count(p)
  PROVE  MessagesCounted'
  <1>1. /\ pc[p] = "count" /\ pc'[p] \in {"idle", "mark"} /\ removed' = removed
        /\ messages' = (messages + 1) % SizeMod /\ items' = items
    BY CountIs DEF Now
  <1>2. p \in Added /\ Added' = Added \ {p} /\ Uncounted' = Uncounted
    BY <1>1 DEF Added, Uncounted, Others
  <1>3. IsFiniteSet(Added) /\ IsFiniteSet(Uncounted)
    BY DEF MessagesCounted
  <1>4. IsFiniteSet(Added') /\ Cardinality(Added') = Cardinality(Added) - 1
    BY <1>2, <1>3, FS_RemoveElement
  <1>5. Length' = Length + 1
    <2>1. /\ Len(items) \in Nat /\ removed \in Nat
          /\ Cardinality(Added) \in Nat /\ Cardinality(Uncounted) \in Nat
      BY LengthIs
    <2> QED
      BY <1>1, <1>2, <1>3, <1>4, <2>1 DEF Length
  <1> QED
    BY <1>1, <1>2, <1>3, <1>4, <1>5, LengthIs, MessagesThen

LEMMA ReduceCounted ==
  ASSUME Shapes, Modes, MessagesCounted, NEW p \in Procs, Others(p), p \in Tokens, Reduce(p)
  PROVE  MessagesCounted'
  <1>1. /\ pc[p] = "reduce" /\ pc'[p] = "uncount" /\ removed' = removed + 1
        /\ messages' = messages /\ items' = items
    BY ReduceIs DEF Now
  <1>2. p \notin Uncounted /\ Uncounted' = Uncounted \union {p} /\ Added' = Added
    BY <1>1 DEF Added, Uncounted, Others
  <1>3. IsFiniteSet(Uncounted) /\ IsFiniteSet(Added)
    BY DEF MessagesCounted
  <1>4. IsFiniteSet(Uncounted') /\ Cardinality(Uncounted') = Cardinality(Uncounted) + 1
    BY <1>2, <1>3, FS_AddElement
  <1>5. Length' = Length
    <2>1. /\ Len(items) \in Nat /\ removed \in Nat
          /\ Cardinality(Added) \in Nat /\ Cardinality(Uncounted) \in Nat
      BY LengthIs
    <2> QED
      BY <1>1, <1>2, <1>3, <1>4, <2>1 DEF Length
  <1> QED
    BY <1>1, <1>2, <1>3, <1>4, <1>5, LengthIs, MessagesThen

LEMMA UncountCounted ==
  ASSUME Shapes, Modes, MessagesCounted, NEW p \in Procs, Others(p), p \in Tokens,
         Uncount(p)
  PROVE  MessagesCounted'
  <1>1. /\ pc[p] = "uncount" /\ pc'[p] = "delete" /\ removed' = removed
        /\ messages' = (messages - 1) % SizeMod /\ items' = items
    BY UncountIs DEF Now
  <1>2. p \in Uncounted /\ Uncounted' = Uncounted \ {p} /\ Added' = Added
    BY <1>1 DEF Added, Uncounted, Others
  <1>3. IsFiniteSet(Uncounted) /\ IsFiniteSet(Added)
    BY DEF MessagesCounted
  <1>4. IsFiniteSet(Uncounted') /\ Cardinality(Uncounted') = Cardinality(Uncounted) - 1
    BY <1>2, <1>3, FS_RemoveElement
  <1>5. Length' = Length - 1
    <2>1. /\ Len(items) \in Nat /\ removed \in Nat
          /\ Cardinality(Added) \in Nat /\ Cardinality(Uncounted) \in Nat
      BY LengthIs
    <2> QED
      BY <1>1, <1>2, <1>3, <1>4, <2>1 DEF Length
  <1> QED
    BY <1>1, <1>2, <1>3, <1>4, <1>5, LengthIs, MessagesThen

LEMMA SameCounted ==
  ASSUME Shapes, MessagesCounted, Len(items') = Len(items), removed' = removed,
         messages' = messages, Added' = Added, Uncounted' = Uncounted
  PROVE  MessagesCounted'
  <1>1. Length' = Length
    BY DEF Length
  <1>2. IsFiniteSet(Added') /\ IsFiniteSet(Uncounted')
    BY DEF MessagesCounted
  <1> QED
    BY <1>1, <1>2, MessagesThen

LEMMA MessagesKept ==
  ASSUME Shapes, Modes, Owns, Positions, MessagesCounted, [Next]_vars
  PROVE  MessagesCounted'
  <1>1. CASE Still
    BY <1>1 DEF MessagesCounted, MessagesExact, Added, Uncounted, Still, shared, local
  <1>2. ASSUME NEW p \in Procs, Others(p), Minor(p) PROVE MessagesCounted'
    <2>1. Added' = Added /\ Uncounted' = Uncounted
      BY <1>2 DEF Added, Uncounted, Others, Minor
    <2> QED
      BY <1>2, <2>1, SameCounted DEF Minor, SameLinks
  <1>3. ASSUME NEW p \in Procs, Others(p), Link(p) PROVE MessagesCounted'
    <2>1. /\ pc[p] = "link" /\ pc'[p] = "count" /\ removed' = removed
          /\ messages' = messages
          /\ Len(items') = Len(items)
      BY <1>3, LinkIs, LinkLinks DEF Now
    <2>2. Added' = Added /\ Uncounted' = Uncounted
      BY <1>3, <2>1 DEF Added, Uncounted, Others
    <2> QED
      BY <2>1, <2>2, SameCounted
  <1> QED
    BY <1>1, <1>2, <1>3, SomebodySteps, StepsAlone, StepsAreMinor,
       AppendItemCounted, CountCounted, ReduceCounted, UncountCounted DEF Alone, Major

-----------------------------------------------------------------------------
(* The list is used as LinkedFifo lets it.                                 *)

LEMMA SameList ==
  ASSUME Len(items') = Len(items), removed' = removed,
         \A k \in 1 .. Len(items) : items'[k].linked = items[k].linked
  PROVE  UNCHANGED Fifo!vars
  BY DEF Fifo!vars

LEMMA StepsOfFifo ==
  ASSUME Shapes, Modes, Owns, HeadIsThere, Positions, [Next]_vars
  PROVE  [Fifo!Next]_Fifo!vars
  <1>1. CASE Still
    BY <1>1, SameList DEF Still, shared
  <1>2. ASSUME NEW p \in Procs, Minor(p) PROVE UNCHANGED Fifo!vars
    BY <1>2, SameList DEF Minor, SameLinks
  <1>3. ASSUME NEW p \in Procs, AppendItem(p) PROVE Fifo!Swap
    <2>1. removed' = removed
      BY <1>3, AppendItemIs
    <2>2. /\ Len(items') = Len(items) + 1 /\ Len(items) \in Nat
          /\ \A k \in 1 .. Len(items) : items'[k] = items[k]
          /\ ~items'[Len(items) + 1].linked
      BY <1>3, AppendItemGrows
    <2>3. {k \in 1 .. Len(items') : items'[k].linked}
            = {k \in 1 .. Len(items) : items[k].linked}
      BY <2>2
    <2> QED
      BY <2>1, <2>2, <2>3 DEF Fifo!Swap
  <1>4. ASSUME NEW p \in Procs, Link(p) PROVE Fifo!Link
    <2>1. removed' = removed
      BY <1>4, LinkIs
    <2>2. /\ own[p] \in 1 .. Len(items) /\ ~items[own[p]].linked /\ Len(items') = Len(items)
          /\ \A j \in 1 .. Len(items) : j # own[p] => items'[j] = items[j]
          /\ items'[own[p]].linked = TRUE
      BY <1>4, LinkLinks
    <2>3. {k \in 1 .. Len(items') : items'[k].linked}
            = {k \in 1 .. Len(items) : items[k].linked} \union {own[p]}
      BY <2>2
    <2> QED
      BY <2>1, <2>2, <2>3 DEF Fifo!Link
  <1>5. ASSUME NEW p \in Procs, Count(p) \/ (p \in Tokens /\ Uncount(p))
        PROVE  UNCHANGED Fifo!vars
    BY <1>5, CountIs, UncountIs, SameList
  <1>6. ASSUME NEW p \in Tokens, Reduce(p) PROVE Fifo!Remove
    <2>1. /\ items' = items /\ removed' = removed + 1
          /\ removed < Len(items) /\ items[removed + 1].linked
          /\ removed \in Nat /\ Len(items) \in Nat
      BY <1>6, ReduceIs DEF HeadIsThere, Shapes
    <2>2. Len(items) = removed + 1 \/ NextOf(removed + 1) # 0
      BY <1>6, ReduceIs DEF MayReduce
    <2>3. NextOf(removed + 1) # 0 =>
            removed + 2 \in 1 .. Len(items) /\ items[removed + 2].linked
      <3>1. (removed + 1) + 1 = removed + 2
        BY <2>1
      <3>2. NextOf(removed + 1) # 0 =>
              removed + 1 < Len(items) /\ items[(removed + 1) + 1].linked
        BY DEF NextOf
      <3> QED
        BY <2>1, <3>1, <3>2
    <2> QED
      BY <2>1, <2>2, <2>3 DEF Fifo!Remove
  <1> QED
    BY <1>1, <1>2, <1>3, <1>4, <1>5, <1>6, SomebodySteps, StepsAreMinor DEF Major,
       Fifo!Next

-----------------------------------------------------------------------------
(* The invariant: types, where the calls are, who cleans, whose item is    *)
(* whose, where the tokens stand, and what the counters count.             *)
IInv == /\ Shapes /\ Modes /\ OneCleaner /\ Owns /\ HeadIsThere /\ Positions
        /\ NewestCounted /\ MessagesCounted

LEMMA InitInv == Init => IInv
  <1> SUFFICES ASSUME Init PROVE IInv
    OBVIOUS
  <1>1. Len(items) = 0 /\ items \in Seq(Item)
    BY DEF Init
  <1>2. Shapes
    <2>1. 0 \in Pointer /\ "idle" \in Places /\ "none" \in Ops /\ 0 \in 0 .. SizeMod - 1
      BY <1>1 DEF Pointer, Places, Ops
    <2>2. /\ pc \in [Procs -> Places] /\ op \in [Procs -> Ops]
          /\ cur \in [Procs -> Pointer] /\ nxt \in [Procs -> Pointer]
          /\ own \in [Procs -> Pointer] /\ last \in [Tokens -> Pointer]
          /\ iter \in [Tokens -> Pointer] /\ answer \in [Tokens -> Nat]
      BY <2>1 DEF Init
    <2>3. /\ oldest \in Int /\ newest \in Int /\ removed \in 0 .. Len(items)
          /\ messages \in 0 .. SizeMod - 1
      BY <1>1, <2>1 DEF Init
    <2>4. cleaning \in BOOLEAN /\ corrupt \in BOOLEAN
      BY DEF Init
    <2>5. gil \in Procs \union {NoProc} /\ setup \in Setups
      BY DEF Init
    <2> QED
      BY <1>1, <2>2, <2>3, <2>4, <2>5 DEF Shapes
  <1>3. Modes /\ OneCleaner /\ Owns /\ HeadIsThere
    BY DEF Init, Modes, ModeOf, Appending, Reading, OneCleaner, Cleaning, Owns, Holding,
           HeadIsThere, Procs, Marking
  <1>4. Positions
    BY DEF Init, Positions, Placed, Live, Leaving, Moving, Reading, Procs
  <1>5. NewestCounted
    <2>1. Subscribed = {}
      BY DEF Init, Subscribed, Entered, Procs
    <2> QED
      BY <2>1, FS_EmptySet DEF Init, NewestCounted
  <1>6. MessagesCounted
    <2>1. Added = {} /\ Uncounted = {}
      BY DEF Init, Added, Uncounted
    <2>2. 0 % SizeMod = 0
      <3>1. 0 = (SizeMod * 0) + 0 /\ 0 \in Int /\ 0 \in 0 .. SizeMod - 1
        OBVIOUS
      <3> QED
        BY <3>1, ModIs
    <2>3. Length = 0 /\ messages = 0
      BY <1>1, <2>1, FS_EmptySet DEF Init, Length
    <2> QED
      BY <1>2, <2>1, <2>2, <2>3, FS_EmptySet, LengthIs
  <1> QED
    BY <1>2, <1>3, <1>4, <1>5, <1>6 DEF IInv

LEMMA NextInv == IInv /\ [Next]_vars => IInv'
  <1> SUFFICES ASSUME IInv, [Next]_vars PROVE IInv'
    OBVIOUS
  <1>1. /\ Shapes /\ Modes /\ OneCleaner /\ Owns /\ HeadIsThere /\ Positions
        /\ NewestCounted /\ MessagesCounted
    BY DEF IInv
  <1>2. Grown
    BY <1>1, ListGrows
  <1>3. Shapes'
    BY <1>1, ShapesKept
  <1>4. Modes'
    BY <1>1, ModesKept
  <1>5. OneCleaner'
    BY <1>1, OneCleanerKept
  <1>6. Owns'
    BY <1>1, OwnsKept
  <1>7. HeadIsThere'
    BY <1>1, <1>2, HeadKept
  <1>8. Positions'
    BY <1>1, <1>2, PositionsKept
  <1>9. NewestCounted'
    BY <1>1, NewestKept
  <1>10. MessagesCounted'
    BY <1>1, MessagesKept
  <1> QED
    BY <1>3, <1>4, <1>5, <1>6, <1>7, <1>8, <1>9, <1>10 DEF IInv

LEMMA Invariant == Spec => []IInv
  BY InitInv, NextInv, PTL DEF Spec

(* messages() is the length of the list, up to the appends not yet counted *)
(* and the removal not yet subtracted, modulo the width of size_t, for any *)
(* number of threads and messages (cmcqueue.cpp:153-154, 260-261).         *)
THEOREM CountsMessages == Spec => []MessagesExact
  <1>1. IInv => MessagesExact
    BY DEF IInv, MessagesCounted
  <1> QED
    BY <1>1, Invariant, PTL

(* The queue uses its list only as LinkedFifo lets it: an item is linked   *)
(* once, by the call that has appended it, and only the head of the list,  *)
(* with its successor linked or none behind it, is taken off it            *)
(* (cmcqueue.cpp:153, 214-267).                                            *)
THEOREM UsesTheList == Spec => UsesListAsFifo
  <1>1. Init => Fifo!Init
    BY DEF Init, Fifo!Init
  <1>2. IInv /\ [Next]_vars => [Fifo!Next]_Fifo!vars
    BY StepsOfFifo DEF IInv
  <1> QED
    BY <1>1, <1>2, Invariant, PTL DEF Spec, UsesListAsFifo, Fifo!Spec
=============================================================================
