-------------------------------- MODULE MCQueue --------------------------------
(***************************************************************************)
(* WMultipleConsumersQueue (_queue/mcqueue.c) together with the            *)
(* WMCQueueSubscriber objects that use it (_queue/subscriber.c).  The      *)
(* queue is a Python list of packed messages, tuples of a message and the  *)
(* number of subscribers that have still to read it.  A subscriber knows   *)
(* the number of its next message, counted from the creation of the queue; *)
(* index_delta is the number of messages taken off the list, so that the   *)
(* difference of the two is a place in the list.                           *)
(*                                                                         *)
(* A call holds the interpreter lock from its first line to its last and   *)
(* is one step.  A subscriber's deallocation (subscriber.c:97-115) is the  *)
(* same step as its unsubscription.  push() calls the callback after its   *)
(* last use of the queue: whatever the callback does, raising included, is *)
(* a later step of somebody else.  A bad argument is rejected before       *)
(* anything changes and is left out; InOrder shows that the place a        *)
(* subscriber asks for is never before the head of the list.               *)
(***************************************************************************)
EXTENDS Integers, Sequences, FiniteSets

CONSTANTS Subscribers,   \* WMCQueueSubscriber objects
          MaxPushes      \* bound: calls of push() in a behaviour

ASSUME SubscribersAssumption == IsFiniteSet(Subscribers)
ASSUME PushesAssumption == MaxPushes \in Nat

VARIABLES
  queue,         \* __queue
  index_delta,   \* __index_delta
  subscribers,   \* __subscribers
  msg_index,     \* each subscriber's __msg_index
  pushed,        \* how many times push() was called
  promised,      \* whose last has_next() said yes, and who has not read since
  answer         \* the last message of each subscriber, 0 for a KeyError

vars == <<queue, index_delta, subscribers, msg_index, pushed, promised, answer>>

NoIndex == -1   \* __msg_index is NULL
Live == {s \in Subscribers : msg_index[s] # NoIndex}

\* A packed message.
Packed == [msg : 1 .. MaxPushes, subs : 1 .. Cardinality(Subscribers)]

TypeOK == /\ queue \in Seq(Packed)
          /\ index_delta \in 0 .. MaxPushes
          /\ subscribers \in 0 .. Cardinality(Subscribers)
          /\ msg_index \in [Subscribers -> 0 .. MaxPushes \union {NoIndex}]
          /\ pushed \in 0 .. MaxPushes
          /\ promised \in [Subscribers -> BOOLEAN]
          /\ answer \in [Subscribers -> 0 .. MaxPushes]

Init == /\ queue = <<>>
        /\ index_delta = 0
        /\ subscribers = 0
        /\ msg_index = [s \in Subscribers |-> NoIndex]
        /\ pushed = 0
        /\ promised = [s \in Subscribers |-> FALSE]
        /\ answer = [s \in Subscribers |-> 0]

-----------------------------------------------------------------------------
(* The helpers of mcqueue.c.                                               *)

\* packed_msg(): a message and how many have still to read it.
Pack(m, n) == [msg |-> m, subs |-> n]

\* args_index(): the place of s's next message in the list, from 0.
Place(s) == msg_index[s] - index_delta
Valid(s) == Place(s) >= 0 /\ Place(s) < Len(queue)

\* Mutant of LastReader: wait for a counter of zero.
NobodyReads(p) == p.subs = 0
LastReader(p) == p.subs = 1
Read(p) == Pack(p.msg, p.subs - 1)

\* Mutant of Clean: the delta is not moved.
CleanOnly(q, from, n) == /\ queue' = SubSeq(q, 1, from) \o SubSeq(q, from + n + 1, Len(q))
                         /\ UNCHANGED index_delta

\* clean(): q without the n messages from place `from'.  When the list ends
\* early, clean() stops with an error and leaves the delta alone.
Clean(q, from, n) == /\ queue' = SubSeq(q, 1, from) \o SubSeq(q, from + n + 1, Len(q))
                     /\ index_delta' = IF from + n <= Len(q) THEN index_delta + n
                                                             ELSE index_delta

-----------------------------------------------------------------------------
(* The calls.                                                              *)

\* Mutant of NextMessage: a new subscriber starts at the head of the list.
HeadMessage == index_delta
\* subscriber init: the index of the message that comes next.
NextMessage == index_delta + Len(queue)

Subscribe(s) == /\ s \notin Live
                /\ msg_index' = [msg_index EXCEPT ![s] = NextMessage]
                /\ subscribers' = subscribers + 1
                /\ UNCHANGED <<queue, index_delta, pushed, promised, answer>>

\* A message that nobody waits for is dropped.
Push == /\ pushed < MaxPushes
        /\ pushed' = pushed + 1
        /\ queue' = IF subscribers = 0 THEN queue
                    ELSE Append(queue, Pack(pushed + 1, subscribers))
        /\ UNCHANGED <<index_delta, subscribers, msg_index, promised, answer>>

HasNext(s) == /\ s \in Live
              /\ promised' = [promised EXCEPT ![s] = Valid(s)]
              /\ UNCHANGED <<queue, index_delta, subscribers, msg_index, pushed, answer>>

\* next(): no message yet is a KeyError.
KeyError(s) == /\ s \in Live
               /\ ~Valid(s)
               /\ answer' = [answer EXCEPT ![s] = 0]
               /\ UNCHANGED <<queue, index_delta, subscribers, msg_index, pushed, promised>>

\* pop(): the last reader takes the message off the list, any other one
\* packs it anew with a smaller counter.
Pop(at) == \/ /\ LastReader(queue[at + 1])
              /\ Clean(queue, at, 1)
           \/ /\ ~LastReader(queue[at + 1])
              /\ queue' = [queue EXCEPT ![at + 1] = Read(@)]
              /\ UNCHANGED index_delta

ReadNext(s) == /\ s \in Live
               /\ Valid(s)
               /\ Pop(Place(s))
               /\ answer' = [answer EXCEPT ![s] = queue[Place(s) + 1].msg]
               /\ msg_index' = [msg_index EXCEPT ![s] = @ + 1]
               /\ promised' = [promised EXCEPT ![s] = FALSE]
               /\ UNCHANGED <<subscribers, pushed>>

\* Mutants of DropTill: one message too few; also those with one more reader.
DropTillLess(at) == Cardinality({i \in at + 2 .. Len(queue) : LastReader(queue[i])})
DropTillMore(at) == Cardinality({i \in at + 1 .. Len(queue) : queue[i].subs <= 2})

\* unsubscribe(): read everything from `at' on without looking.  Messages
\* nobody else waits for are counted first and taken off the list at the
\* end, all together.
DropTill(at) == Cardinality({i \in at + 1 .. Len(queue) : LastReader(queue[i])})
ReadFrom(at) == [i \in DOMAIN queue |-> IF i <= at \/ LastReader(queue[i]) THEN queue[i]
                                                                         ELSE Read(queue[i])]

Unsubscribe(s) == LET at == Place(s) IN
                  /\ s \in Live
                  /\ subscribers' = subscribers - 1
                  /\ IF DropTill(at) = 0
                     THEN queue' = ReadFrom(at) /\ UNCHANGED index_delta
                     ELSE Clean(ReadFrom(at), at, at + DropTill(at))
                  /\ msg_index' = [msg_index EXCEPT ![s] = NoIndex]
                  /\ promised' = [promised EXCEPT ![s] = FALSE]
                  /\ UNCHANGED <<pushed, answer>>

Next == \/ Push
        \/ \E s \in Subscribers : \/ Subscribe(s) \/ HasNext(s) \/ KeyError(s)
                                  \/ ReadNext(s) \/ Unsubscribe(s)

Spec == Init /\ [][Next]_vars

-----------------------------------------------------------------------------
(* Properties.                                                             *)

\* The counter of a message is the number of live subscribers that have not
\* read it: pop() and unsubscribe() together count every one of them down
\* exactly once (mcqueue.c:399, 437), also those that came or left while
\* the message was in the list.
CountersExact ==
  /\ subscribers = Cardinality(Live)
  /\ \A i \in DOMAIN queue :
       queue[i].subs = Cardinality({s \in Live : Place(s) < i})

\* Every live subscriber's index stays in the list or just behind it
\* although others take messages off the front all the time: neither the
\* slice that unsubscribe() hands to clean() (mcqueue.c:448) nor the clean()
\* of pop() removes a message from the middle.
InOrder == \A s \in Live : Place(s) \in 0 .. Len(queue)

\* The head of the list is kept for somebody: when all subscribers have
\* read a message, or have left, it is gone (mcqueue.c:391, 431-448).
HeadIsWanted == queue # <<>> => \E s \in Live : Place(s) = 0

\* A subscriber whose has_next() said yes can read its message whenever it
\* comes for it, whatever the others did in between (subscriber.c:187-196,
\* the loop of wasp_c_extensions_queue_test.py:211-216).
PromiseKept == \A s \in Subscribers : promised[s] => s \in Live /\ Valid(s)

\* The queue delivers to each subscriber the messages pushed while it was
\* subscribed, in order and once.
Unread(s) == IF s \in Live
             THEN [i \in 1 .. Len(queue) - Place(s) |-> queue[Place(s) + i].msg]
             ELSE <<>>
Promise == INSTANCE Multicast
           WITH Tokens <- Subscribers, manual <- FALSE,
                pushed <- pushed, live <- Live,
                unread <- [s \in Subscribers |-> Unread(s)],
                ahead <- [s \in Subscribers |-> 0], answer <- answer
DeliversToAll == Promise!Spec

=============================================================================
