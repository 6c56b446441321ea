------------------------------- MODULE CMCQueue -------------------------------
(***************************************************************************)
(* wasp::queue::CMCBaseQueue (_cmcqueue/cmcqueue.hpp, cmcqueue.cpp) with   *)
(* the Python calls that drive it (cmcqueue_wrapper.cpp): a linked list    *)
(* that holds the messages and, between them, one item for each            *)
(* subscription and each unsubscription.  A token is a pointer to an item; *)
(* `reads' counts the tokens that went past an item, and cleanup() frees   *)
(* items from the head of the list by comparing it with the number of      *)
(* subscriptions minus unsubscriptions it has freed before.                *)
(*                                                                         *)
(* Every atomic load, store and read-modify-write is a step.  A setup      *)
(* chooses between the two ways the class is used: from Python, where a    *)
(* call keeps the interpreter lock except while a payload's destructor     *)
(* runs, and from C++ threads, with no lock at all.  The list itself is    *)
(* StretchedBuffer.tla; here an append is its two visible steps, the swap  *)
(* of the tail and the store of the link.                                  *)
(***************************************************************************)
EXTENDS Integers, Sequences, FiniteSets

CONSTANTS Publishers,      \* threads that push
          Tokens,          \* subscribers, each used by one thread at a time
          NoProc,          \* the owner of a free interpreter lock
          Setups,          \* the programs that may use the queue
          MaxPushes,       \* bound: messages accepted in a behaviour
          SizeMod          \* size_t wraps at this value

Procs == Publishers \union Tokens

ASSUME ProcsAssumption == /\ Publishers \intersect Tokens = {}
                          /\ NoProc \notin Procs
ASSUME BoundsAssumption == MaxPushes \in Nat /\ SizeMod \in Nat \ {0}

(* A program calls from Python or from C++ threads and chooses the         *)
(* constructor's manual_acknowledge; max_subscribes bounds the             *)
(* subscriptions in a behaviour.                                           *)
ASSUME SetupAssumption ==
  Setups \subseteq [under_gil : BOOLEAN, manual_acknowledge : BOOLEAN, max_subscribes : Nat]

VARIABLES
  items,      \* every item ever appended, in the order of the tail swaps
  removed,    \* how many of them reduce() has taken off the list
  oldest,     \* oldest_subscribes
  newest,     \* newest_subscribes
  messages,   \* __messages
  cleaning,   \* is_cleaning
  gil,        \* who owns the interpreter lock
  pc, op,     \* each thread's next step and the call it is in
  cur, nxt,   \* its local item pointers (positions in items, 0 is NULL)
  own,        \* the item it has appended in this call
  last,       \* each token's __last_item
  iter,       \* its __next_iterator
  answer,     \* what its last pull() or next() returned
  corrupt,    \* has somebody used a freed item?
  setup       \* the program's choice, fixed at the start

shared == <<items, removed, oldest, newest, messages, cleaning, setup>>
local == <<pc, op, cur, nxt, own>>
token == <<last, iter, answer>>
vars == <<shared, local, token, gil, corrupt>>

Types == {"payload", "subscription", "unsubscription"}
Item == [type : Types, reads : Nat, linked : BOOLEAN]
Ops == {"none", "push", "subscribe", "unsubscribe", "pull", "acknowledge", "next"}

\* From the test of is_cleaning to the return of the call: the result, if
\* the call has one, is already in cur.
Finishing == {"clean", "scan", "reduce", "uncount", "delete", "resume", "unclean", "return"}
Places == {"idle", "append", "link", "count", "mark", "walk", "markOwn", "leave",
           "load", "ack"} \union Finishing

Pointer == 0 .. Len(items)

TypeOK == /\ items \in Seq(Item)
          /\ removed \in 0 .. Len(items)
          /\ oldest \in Nat /\ newest \in Nat
          /\ messages \in 0 .. SizeMod - 1
          /\ cleaning \in BOOLEAN /\ corrupt \in BOOLEAN
          /\ gil \in Procs \union {NoProc}
          /\ pc \in [Procs -> Places] /\ op \in [Procs -> Ops]
          /\ cur \in [Procs -> Pointer] /\ nxt \in [Procs -> Pointer]
          /\ own \in [Procs -> Pointer]
          /\ last \in [Tokens -> Pointer] /\ iter \in [Tokens -> Pointer]
          /\ answer \in [Tokens -> Nat]
          /\ setup \in Setups

Init == /\ items = <<>> /\ removed = 0
        /\ oldest = 0 /\ newest = 0 /\ messages = 0
        /\ cleaning = FALSE /\ corrupt = FALSE
        /\ gil = NoProc
        /\ pc = [p \in Procs |-> "idle"] /\ op = [p \in Procs |-> "none"]
        /\ cur = [p \in Procs |-> 0] /\ nxt = [p \in Procs |-> 0]
        /\ own = [p \in Procs |-> 0]
        /\ last = [t \in Tokens |-> 0] /\ iter = [t \in Tokens |-> 0]
        /\ answer = [t \in Tokens |-> 0]
        /\ setup \in Setups
-----------------------------------------------------------------------------
IsPayload(k) == k # 0 /\ items[k].type = "payload"

\* The place of message k among the messages.
Number(k) == Cardinality({j \in 1 .. k : IsPayload(j)})

\* An item that was taken off the list is freed when its destructor ends.
Destroying == \E p \in Procs : pc[p] \in {"uncount", "delete", "resume"}
Freed(k) == k # 0 /\ k <= (IF Destroying THEN removed - 1 ELSE removed)

\* StretchedBuffer::next() and head(): what the next pointer of item k, or
\* of the zero node, holds.
NextOf(k) == IF k < Len(items) /\ items[k + 1].linked THEN k + 1 ELSE 0
HeadItem == NextOf(removed)

\* A step of p inside a call.
At(p, place) == /\ ~corrupt
                /\ pc[p] = place
                /\ setup.under_gil => gil = p

Goto(p, place) == pc' = [pc EXCEPT ![p] = place]

Enter(p, name, place) == /\ ~corrupt
                         /\ pc[p] = "idle"
                         /\ gil = NoProc
                         /\ gil' = IF setup.under_gil THEN p ELSE NoProc
                         /\ op' = [op EXCEPT ![p] = name]
                         /\ Goto(p, place)

Exit(p) == /\ gil' = NoProc
           /\ op' = [op EXCEPT ![p] = "none"]
           /\ cur' = [cur EXCEPT ![p] = 0]
           /\ nxt' = [nxt EXCEPT ![p] = 0]
           /\ own' = [own EXCEPT ![p] = 0]
           /\ Goto(p, "idle")

\* A step that follows the pointer k; the behaviour ends when k is freed.
Using(k, step) == IF Freed(k)
                    THEN corrupt' = TRUE /\ UNCHANGED <<shared, local, token, gil>>
                    ELSE step /\ UNCHANGED corrupt

Mark(k) == items' = [items EXCEPT ![k].reads = @ + 1]

-----------------------------------------------------------------------------
(* push_(): create an item, append it (two steps) and count it.            *)
ItemType == [push |-> "payload", subscribe |-> "subscription",
             unsubscribe |-> "unsubscription"]

AppendItem(p) == /\ At(p, "append")
              /\ items' = Append(items, [type |-> ItemType[op[p]], reads |-> 0,
                                         linked |-> FALSE])
              /\ own' = [own EXCEPT ![p] = Len(items) + 1]
              /\ Goto(p, "link")
              /\ UNCHANGED <<setup, removed, oldest, newest, messages, cleaning, op, cur,
                             nxt, token, gil, corrupt>>

Link(p) == /\ At(p, "link")
           /\ items' = [items EXCEPT ![own[p]].linked = TRUE]
           /\ Goto(p, "count")
           /\ UNCHANGED <<setup, removed, oldest, newest, messages, cleaning, op, cur,
                          nxt, own, token, gil, corrupt>>

\* push() and subscribe() return here; the new token points to its own item.
Count(p) == /\ At(p, "count")
            /\ messages' = (messages + 1) % SizeMod
            /\ CASE op[p] = "push" -> Exit(p) /\ UNCHANGED last
                 [] op[p] = "subscribe" -> /\ last' = [last EXCEPT ![p] = own[p]]
                                           /\ Exit(p)
                 [] OTHER -> Goto(p, "mark") /\ UNCHANGED <<op, cur, nxt, own, gil, last>>
            /\ UNCHANGED <<setup, items, removed, oldest, newest, cleaning, iter, answer,
                           corrupt>>

-----------------------------------------------------------------------------
Accepted(name, type) == Cardinality({k \in 1 .. Len(items) : items[k].type = type})
                          + Cardinality({p \in Procs : op[p] = name /\ pc[p] = "append"})

\* push() to a queue without subscribers returns at once and changes nothing.
Push(p) == /\ newest > 0
           /\ Accepted("push", "payload") < MaxPushes
           /\ Enter(p, "push", "append")
           /\ UNCHANGED <<shared, cur, nxt, own, token, corrupt>>

Subscribe(t) == /\ last[t] = 0
                /\ Accepted("subscribe", "subscription") < setup.max_subscribes
                /\ Enter(t, "subscribe", "append")
                /\ newest' = newest + 1
                /\ UNCHANGED <<setup, items, removed, oldest, messages, cleaning, cur,
                               nxt, own, token, corrupt>>

\* unsubscribe() passes last_item to the queue and forgets it afterwards.
Unsubscribe(t) == /\ last[t] # 0
                  /\ Enter(t, "unsubscribe", "append")
                  /\ cur' = [cur EXCEPT ![t] = last[t]]
                  /\ UNCHANGED <<shared, nxt, own, token, corrupt>>

\* The loop of unsubscribe(): mark an item, then follow its link, up to the
\* item this call has appended (or to the end of the list).
MarkItem(t) == /\ At(t, "mark")
               /\ Using(cur[t], /\ Mark(cur[t])
                                /\ Goto(t, "walk")
                                /\ UNCHANGED <<setup, removed, oldest, newest, messages,
                                               cleaning, op, cur, nxt, own, token, gil>>)

Walk(t) == /\ At(t, "walk")
           /\ Using(cur[t], LET n == NextOf(cur[t])
                            IN /\ cur' = [cur EXCEPT ![t] = n]
                               /\ Goto(t, IF n \in {0, own[t]} THEN "markOwn" ELSE "mark")
                               /\ UNCHANGED <<shared, op, nxt, own, token, gil>>)

MarkOwn(t) == /\ At(t, "markOwn")
              /\ Using(own[t], /\ Mark(own[t])
                               /\ Goto(t, "leave")
                               /\ UNCHANGED <<setup, removed, oldest, newest, messages,
                                              cleaning, op, cur, nxt, own, token, gil>>)

LeaveQueue(t) == /\ At(t, "leave")
                 /\ newest' = newest - 1
                 /\ Goto(t, "clean")
                 /\ UNCHANGED <<setup, items, removed, oldest, messages, cleaning, op,
                                cur, nxt, own, token, gil, corrupt>>

-----------------------------------------------------------------------------
(* pull(), acknowledge() and __next__() walk from last_item (__next__()    *)
(* from where it stopped) to the next message; pull() on a queue without   *)
(* manual acknowledgement, and acknowledge(), mark the items they leave.   *)
Marking(t) == op[t] = "acknowledge" \/ (op[t] = "pull" /\ ~setup.manual_acknowledge)

EnterPull(t, name, from) == /\ last[t] # 0
                            /\ Enter(t, name, "load")
                            /\ cur' = [cur EXCEPT ![t] = from]
                            /\ UNCHANGED <<shared, nxt, own, last, answer, corrupt>>

Pull(t) == EnterPull(t, "pull", last[t]) /\ UNCHANGED iter

\* Moving on makes the place next() has reached unusable.
Acknowledge(t) == /\ setup.manual_acknowledge
                  /\ EnterPull(t, "acknowledge", last[t])
                  /\ iter' = [iter EXCEPT ![t] = 0]

LookNext(t) == /\ setup.manual_acknowledge
               /\ EnterPull(t, "next", IF iter[t] # 0 THEN iter[t] ELSE last[t])
               /\ UNCHANGED iter

\* cur has been left for n: stop at the end and at a message.
Arrive(t, n) ==
  IF n = 0 \/ items[n].type = "payload"
    THEN /\ cur' = [cur EXCEPT ![t] = IF n = 0 THEN cur[t] ELSE n]
         /\ nxt' = [nxt EXCEPT ![t] = 0]
         /\ Goto(t, IF Marking(t) THEN "clean" ELSE "return")
    ELSE /\ cur' = [cur EXCEPT ![t] = n]
         /\ nxt' = [nxt EXCEPT ![t] = 0]
         /\ Goto(t, "load")

Load(t) == /\ At(t, "load")
           /\ Using(cur[t], LET n == NextOf(cur[t])
                            IN /\ IF n # 0 /\ Marking(t)
                                    THEN /\ nxt' = [nxt EXCEPT ![t] = n]
                                         /\ Goto(t, "ack")
                                         /\ UNCHANGED cur
                                    ELSE Arrive(t, n)
                               /\ UNCHANGED <<shared, op, own, token, gil>>)

Ack(t) == /\ At(t, "ack")
          /\ Using(cur[t], /\ Mark(cur[t])
                           /\ Arrive(t, nxt[t])
                           /\ UNCHANGED <<setup, removed, oldest, newest, messages,
                                          cleaning, op, own, token, gil>>)

\* Where the call has started and what the wrapper makes of the item the
\* queue returns; it looks into it only if it is not the one it passed.
Start(t) == IF op[t] = "next" /\ iter[t] # 0 THEN iter[t] ELSE last[t]
\* Mutant: an item that was returned before is returned again.
MessageAgain(t) == IF IsPayload(cur[t]) THEN Number(cur[t]) ELSE 0
Message(t) == IF cur[t] # Start(t) /\ IsPayload(cur[t]) THEN Number(cur[t]) ELSE 0

Return(t) ==
  /\ At(t, "return")
  /\ \/ /\ op[t] = "unsubscribe"
        /\ last' = [last EXCEPT ![t] = 0]
        /\ iter' = [iter EXCEPT ![t] = 0]
        /\ Exit(t)
        /\ UNCHANGED <<shared, answer, corrupt>>
     \/ /\ op[t] = "acknowledge" \/ op[t] = "pull"
        /\ Using(IF cur[t] = Start(t) THEN 0 ELSE cur[t],
                 /\ last' = [last EXCEPT ![t] = IF Marking(t) THEN cur[t] ELSE @]
                 /\ answer' = [answer EXCEPT ![t] = IF op[t] = "pull" THEN Message(t) ELSE @]
                 /\ Exit(t)
                 /\ UNCHANGED <<shared, iter>>)
     \/ /\ op[t] = "next"
        /\ Using(IF cur[t] = Start(t) THEN 0 ELSE cur[t],
                 /\ iter' = [iter EXCEPT ![t] = IF Message(t) = 0 THEN 0 ELSE cur[t]]
                 /\ answer' = [answer EXCEPT ![t] = Message(t)]
                 /\ Exit(t)
                 /\ UNCHANGED <<shared, last>>)

-----------------------------------------------------------------------------
(* cleanup(): one thread at a time takes items off the head of the list;   *)
(* a thread that finds another one at it returns.                          *)
CleanEnter(t) == /\ At(t, "clean")
                 /\ cleaning' = TRUE
                 /\ Goto(t, IF cleaning THEN "return" ELSE "scan")
                 /\ UNCHANGED <<setup, items, removed, oldest, newest, messages, op, cur,
                                nxt, own, token, gil, corrupt>>

\* Mutants: a message is freed one reader too early, one too late.
DirtyTooShort(k) == CASE items[k].type = "payload" -> items[k].reads + 1 < oldest
                      [] items[k].type = "subscription" -> items[k].reads <= oldest
                      [] items[k].type = "unsubscription" -> items[k].reads + 1 < oldest
DirtyTooLong(k) == CASE items[k].type = "payload" -> items[k].reads <= oldest
                     [] items[k].type = "subscription" -> items[k].reads <= oldest
                     [] items[k].type = "unsubscription" -> items[k].reads + 1 < oldest

\* Must the head stay?  Compares its reads with the subscriptions that were
\* freed before it and that no freed unsubscription has ended.
Dirty(k) == CASE items[k].type = "payload" -> items[k].reads < oldest
              [] items[k].type = "subscription" -> items[k].reads <= oldest
              [] items[k].type = "unsubscription" -> items[k].reads + 1 < oldest

\* Mutant: a subscription is freed without being counted.
ShiftDown(type) == [payload |-> 0, subscription |-> 0, unsubscription |-> -1][type]
Shift(type) == [payload |-> 0, subscription |-> 1, unsubscription |-> -1][type]

Scan(t) == /\ At(t, "scan")
           /\ IF HeadItem = 0 \/ Dirty(HeadItem)
                THEN Goto(t, "unclean") /\ UNCHANGED oldest
                ELSE /\ Goto(t, "reduce")
                     /\ oldest' = oldest + Shift(items[HeadItem].type)
           /\ UNCHANGED <<setup, items, removed, newest, messages, cleaning, op, cur, nxt,
                          own, token, gil, corrupt>>

\* Mutant: reduce() does not wait for the link.
NoWait == TRUE
MayReduce == Len(items) = removed + 1 \/ NextOf(removed + 1) # 0

\* reduce() waits until the item behind the head is linked, if there is one.
Reduce(t) == /\ At(t, "reduce")
             /\ MayReduce
             /\ removed' = removed + 1
             /\ Goto(t, "uncount")
             /\ UNCHANGED <<setup, items, oldest, newest, messages, cleaning, op, cur,
                            nxt, own, token, gil, corrupt>>

\* Mutant: a removed item stays in the count.
KeptCount == messages
Decremented == (messages - 1) % SizeMod

Uncount(t) == /\ At(t, "uncount")
              /\ messages' = Decremented
              /\ Goto(t, "delete")
              /\ UNCHANGED <<setup, items, removed, oldest, newest, cleaning, op, cur,
                             nxt, own, token, gil, corrupt>>

\* The destructor of a payload may let other Python threads run.
Delete(t) == /\ At(t, "delete")
             /\ \/ Goto(t, "scan") /\ UNCHANGED gil
                \/ /\ setup.under_gil /\ IsPayload(removed)
                   /\ gil' = NoProc
                   /\ Goto(t, "resume")
             /\ UNCHANGED <<shared, op, cur, nxt, own, token, corrupt>>

Resume(t) == /\ ~corrupt
             /\ pc[t] = "resume"
             /\ gil = NoProc
             /\ gil' = t
             /\ Goto(t, "scan")
             /\ UNCHANGED <<shared, op, cur, nxt, own, token, corrupt>>

CleanExit(t) == /\ At(t, "unclean")
                /\ cleaning' = FALSE
                /\ Goto(t, "return")
                /\ UNCHANGED <<setup, items, removed, oldest, newest, messages, op, cur,
                               nxt, own, token, gil, corrupt>>

-----------------------------------------------------------------------------
AppendStep(p) == AppendItem(p) \/ Link(p) \/ Count(p)
CleanStep(t) == \/ CleanEnter(t) \/ Scan(t) \/ Reduce(t) \/ Uncount(t)
                \/ Delete(t) \/ Resume(t) \/ CleanExit(t)
CallStep(t) == \/ MarkItem(t) \/ Walk(t) \/ MarkOwn(t) \/ LeaveQueue(t)
               \/ Load(t) \/ Ack(t) \/ Return(t) \/ CleanStep(t)

Next == \/ \E p \in Publishers : Push(p)
        \/ \E p \in Procs : AppendStep(p)
        \/ \E t \in Tokens : \/ Subscribe(t) \/ Unsubscribe(t)
                             \/ Pull(t) \/ Acknowledge(t) \/ LookNext(t)
                             \/ CallStep(t)

\* A thread inside a call goes on; it gets the interpreter lock back in the end.
Fairness == /\ \A p \in Procs : WF_vars(AppendStep(p))
            /\ \A t \in Tokens : WF_vars(CallStep(t)) /\ SF_vars(Resume(t))

Spec == Init /\ [][Next]_vars /\ Fairness
-----------------------------------------------------------------------------
(* A token counts from the swap that appends its subscription to the swap  *)
(* that appends its unsubscription.  A call that has found its result has  *)
(* moved the token on.                                                     *)
Live(t) == /\ last[t] # 0 \/ (op[t] = "subscribe" /\ pc[t] # "append")
           /\ op[t] = "unsubscribe" => pc[t] = "append"
Cursor(t) == IF op[t] = "subscribe" THEN own[t]
             ELSE IF Marking(t) /\ pc[t] \in Finishing THEN cur[t] ELSE last[t]
Ahead(t) == IF op[t] = "next" /\ pc[t] = "return"
              THEN IF Message(t) = 0 THEN 0 ELSE cur[t]
              ELSE iter[t]

(* No message is freed before every token that is subscribed to it has     *)
(* pulled it: cleanup() trusts counters that are incremented by tokens,    *)
(* shifted by (un)subscriptions and compared while both change             *)
(* (cmcqueue.cpp:214-267).                                                 *)
UnreadKept == \A t \in Tokens : Live(t) =>
                \A k \in Cursor(t) + 1 .. Len(items) : IsPayload(k) => k > removed

(* messages() is the length of the list, up to the appends that are not    *)
(* yet counted and the removal that is not yet subtracted; a removal may   *)
(* be subtracted before the append is counted, and the size_t wraps        *)
(* (cmcqueue.cpp:153-154, 260-261).                                        *)
MessagesExact ==
  messages = (Len(items) - removed
                - Cardinality({p \in Procs : pc[p] \in {"link", "count"}})
                + Cardinality({p \in Procs : pc[p] = "uncount"})) % SizeMod

(* From Python: when no call is in progress, the list holds nothing that   *)
(* all subscribed tokens have gone past, and is empty when nobody is       *)
(* subscribed: a cleanup() that is skipped because another one is at work  *)
(* (220-224) leaves nothing behind.  C++ threads may leave items to the    *)
(* next cleanup().                                                         *)
NoGarbage ==
  (setup.under_gil /\ ~corrupt /\ removed < Len(items) /\ \A p \in Procs : pc[p] = "idle")
    => \E t \in Tokens : Live(t) /\ Cursor(t) <= removed + 1

(* The item a token points to stays in the queue: pull() follows its link  *)
(* (cmcqueue.cpp:160), and the test of the queue says "it has the last     *)
(* token event" (tests/wasp_c_extensions_cmcqueue_test.py:23).             *)
TokenPointsIntoQueue ==
  \A t \in Tokens : Live(t) /\ pc[t] \in {"idle", "return"} => ~Freed(Cursor(t))

(* The queue uses its list only as LinkedFifo lets it.                     *)
Fifo == INSTANCE LinkedFifo WITH count <- Len(items),
                                 linked <- {k \in 1 .. Len(items) : items[k].linked}
UsesListAsFifo == Fifo!Spec

(* The queue as its users see it; Multicast promises nothing to C++        *)
(* threads, which it does not see.  Messages are numbered by their places, *)
(* so a token has still to read those behind the place it has come to.     *)
Seen(value, unseen) == IF setup.under_gil THEN value ELSE unseen
Unread(t) == LET seen == Number(Cursor(t))
             IN [i \in 1 .. Number(Len(items)) - seen |-> seen + i]

Accepts == Seen(Number(Len(items)), 0)
Listening == Seen({t \in Tokens : Live(t)}, {})
ToRead(t) == Seen(IF Live(t) THEN Unread(t) ELSE <<>>, <<>>)
Looked(t) == Seen(IF Live(t) /\ Ahead(t) # 0
                    THEN Number(Ahead(t)) - Number(Cursor(t)) ELSE 0, 0)
Answered(t) == Seen(IF op[t] \in {"pull", "next"} /\ pc[t] \in Finishing
                      THEN Message(t) ELSE answer[t], 0)

Promise == INSTANCE Multicast WITH manual <- setup.manual_acknowledge,
                                   pushed <- Accepts,
                                   live <- Listening,
                                   unread <- [t \in Tokens |-> ToRead(t)],
                                   ahead <- [t \in Tokens |-> Looked(t)],
                                   answer <- [t \in Tokens |-> Answered(t)]

(* Under the interpreter lock every token receives every message pushed    *)
(* while it is subscribed, once and in order, whoever else subscribes,     *)
(* leaves, pulls or cleans, and whenever a destructor lets others run.     *)
DeliversInOrder == Promise!Spec
=============================================================================
