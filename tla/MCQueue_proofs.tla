----------------------------- MODULE MCQueue_proofs -----------------------------
(***************************************************************************)
(* The safety of MCQueue for any number of subscribers and messages, and   *)
(* that it implements Multicast.  The invariants hold only together.       *)
(* CountersExact ties every counter to the places of the subscribers, so   *)
(* a counter of 1 on a message means that its reader is the only one who   *)
(* is that far behind; with HeadIsWanted, which says that somebody is at   *)
(* the head, he stands there himself.  That is why pop() removes the head  *)
(* only and why the messages unsubscribe() removes are the first ones of   *)
(* the list.                                                               *)
(***************************************************************************)
EXTENDS MCQueue, FiniteSetTheorems, SequenceTheorems, TLAPS

\* The subscribers that have still to read the i-th message of the list.
Behind(i) == {s \in Live : Place(s) < i}

\* The messages of the list were pushed, each by one push().
AcceptedWerePushed == index_delta + Len(queue) <= pushed

IInv == /\ TypeOK /\ AcceptedWerePushed
        /\ CountersExact /\ InOrder /\ HeadIsWanted /\ PromiseKept

USE SubscribersAssumption, PushesAssumption

-----------------------------------------------------------------------------
(* Counting.                                                               *)

LEMMA CountOfSubscribers == Cardinality(Subscribers) \in Nat
  BY FS_CardinalityType

\* Sets of live subscribers are finite and at most as large as Live.
LEMMA BehindIsFinite ==
  /\ IsFiniteSet(Live) /\ Cardinality(Live) \in 0 .. Cardinality(Subscribers)
  /\ \A i : /\ IsFiniteSet(Behind(i))
            /\ Cardinality(Behind(i)) \in 0 .. Cardinality(Subscribers)
  <1>1. \A S \in SUBSET Subscribers :
          IsFiniteSet(S) /\ Cardinality(S) \in 0 .. Cardinality(Subscribers)
    BY FS_Subset, FS_CardinalityType, CountOfSubscribers
  <1>2. Live \in SUBSET Subscribers /\ \A i : Behind(i) \in SUBSET Subscribers
    BY DEF Live, Behind
  <1> QED
    BY <1>1, <1>2

\* A set of one element that has s has nobody else.
LEMMA OnlyOne ==
  ASSUME NEW S, IsFiniteSet(S), Cardinality(S) = 1, NEW s \in S
  PROVE  S = {s}
  BY FS_Singleton

\* A set of several elements has one that is not s.
LEMMA AnotherOne ==
  ASSUME NEW S, IsFiniteSet(S), Cardinality(S) >= 2, NEW s
  PROVE  \E u \in S : u # s
  <1> SUFFICES ASSUME S \subseteq {s} PROVE FALSE
    OBVIOUS
  <1>1. Cardinality(S) <= Cardinality({s}) /\ Cardinality({s}) = 1
    BY FS_Singleton, FS_Subset
  <1> QED
    BY <1>1, FS_CardinalityType

\* A set of places that has with each place all those before it consists of
\* the first places.
LEMMA FirstPlaces ==
  ASSUME NEW n \in Nat, NEW D \in SUBSET (1 .. n),
         \A i \in D : \A j \in 1 .. i : j \in D
  PROVE  /\ Cardinality(D) \in 0 .. n
         /\ D = 1 .. Cardinality(D)
  <1>1. /\ IsFiniteSet(D) /\ Cardinality(D) \in Nat /\ Cardinality(D) <= n
    <2>1. IsFiniteSet(1 .. n) /\ Cardinality(1 .. n) = n
      BY FS_Interval
    <2>2. IsFiniteSet(D) /\ Cardinality(D) <= Cardinality(1 .. n)
      BY ONLY <2>1, FS_Subset, D \in SUBSET (1 .. n), Zenon
    <2> QED
      BY <2>1, <2>2, FS_CardinalityType
  <1>2. ASSUME NEW i \in D PROVE i <= Cardinality(D)
    <2>1. (1 .. i) \in SUBSET D
      OBVIOUS
    <2>2. Cardinality(1 .. i) = i /\ i \in 1 .. n
      BY FS_Interval
    <2> QED
      BY <1>1, <2>1, <2>2, FS_Subset
  <1>3. D \in SUBSET (1 .. Cardinality(D))
    BY <1>1, <1>2
  <1>4. Cardinality(1 .. Cardinality(D)) = Cardinality(D)
        /\ IsFiniteSet(1 .. Cardinality(D))
    BY <1>1, FS_Interval
  <1>5. 1 .. Cardinality(D) = D
    BY <1>3, <1>4, FS_Subset
  <1> QED
    BY <1>1, <1>5

-----------------------------------------------------------------------------
(* The helpers of mcqueue.c.                                               *)

\* What clean() leaves when it takes messages off the head.
LEMMA CleanHead ==
  ASSUME NEW q \in Seq(Packed), NEW n \in 0 .. Len(q), Clean(q, 0, n)
  PROVE  /\ queue' \in Seq(Packed)
         /\ Len(queue') = Len(q) - n
         /\ \A i \in 1 .. Len(q) - n : queue'[i] = q[i + n]
         /\ index_delta' = index_delta + n
  <1> DEFINE rest == SubSeq(q, n + 1, Len(q))
  <1>1. /\ rest \in Seq(Packed) /\ Len(rest) = Len(q) - n
        /\ \A i \in 1 .. Len(q) - n : rest[i] = q[i + n]
    <2>1. \A i \in n + 1 .. Len(q) : q[i] \in Packed
      OBVIOUS
    <2> QED
      BY <2>1, SubSeqProperties
  <1>2. SubSeq(q, 1, 0) = << >>
    BY SubSeqEmpty
  <1>3. queue' = << >> \o rest
    BY <1>2 DEF Clean
  <1>4. queue' = rest
    BY <1>1, <1>3, ConcatEmptySeq
  <1>5. index_delta' = index_delta + n
    BY DEF Clean
  <1> QED
    BY <1>1, <1>4, <1>5

\* The list unsubscribe() leaves before it cleans.
LEMMA ReadFromFields ==
  ASSUME queue \in Seq(Packed), NEW at \in Nat,
         \A i \in at + 1 .. Len(queue) : queue[i].subs # 0
  PROVE  /\ ReadFrom(at) \in Seq(Packed)
         /\ Len(ReadFrom(at)) = Len(queue)
         /\ \A i \in 1 .. Len(queue) :
              /\ ReadFrom(at)[i].msg = queue[i].msg
              /\ i <= at => ReadFrom(at)[i].subs = queue[i].subs
              /\ i > at /\ queue[i].subs # 1 => ReadFrom(at)[i].subs = queue[i].subs - 1
  <1>1. /\ Len(queue) \in Nat /\ DOMAIN queue = 1 .. Len(queue)
        /\ \A i \in 1 .. Len(queue) : queue[i] \in Packed
    OBVIOUS
  <1>2. \A p \in Packed : ~LastReader(p) => /\ Read(p) \in Packed /\ Read(p).msg = p.msg
                                            /\ Read(p).subs = p.subs - 1
    BY CountOfSubscribers DEF Packed, LastReader, Read, Pack
  <1>3. ReadFrom(at) \in [1 .. Len(queue) -> Packed]
    BY <1>1, <1>2 DEF ReadFrom
  <1>4. ReadFrom(at) \in Seq(Packed) /\ Len(ReadFrom(at)) = Len(queue)
    BY <1>1, <1>3
  <1>5. \A i \in 1 .. Len(queue) :
          ReadFrom(at)[i] = IF i <= at \/ LastReader(queue[i]) THEN queue[i]
                                                               ELSE Read(queue[i])
    BY <1>1 DEF ReadFrom
  <1>6. \A i \in 1 .. Len(queue) :
              /\ ReadFrom(at)[i].msg = queue[i].msg
              /\ i <= at => ReadFrom(at)[i].subs = queue[i].subs
              /\ i > at /\ queue[i].subs # 1 => ReadFrom(at)[i].subs = queue[i].subs - 1
    BY <1>1, <1>2, <1>5 DEF LastReader
  <1> QED
    BY <1>4, <1>6

-----------------------------------------------------------------------------
(* The calls.                                                              *)

LEMMA InitHolds == Init => IInv
  <1> SUFFICES ASSUME Init PROVE IInv
    OBVIOUS
  <1>1. queue = << >> /\ Len(queue) = 0 /\ Live = {}
    BY DEF Init, Live
  <1>2. TypeOK
    BY <1>1, CountOfSubscribers DEF Init, TypeOK
  <1>3. AcceptedWerePushed /\ InOrder /\ HeadIsWanted /\ PromiseKept
    BY <1>1 DEF Init, AcceptedWerePushed, InOrder, HeadIsWanted, PromiseKept
  <1>4. CountersExact
    BY <1>1, FS_EmptySet DEF Init, CountersExact
  <1> QED
    BY <1>2, <1>3, <1>4 DEF IInv

\* Calls that change neither the list nor anybody's place.
LEMMA QuietKeeps ==
  ASSUME IInv, UNCHANGED <<queue, index_delta, subscribers, msg_index, pushed>>,
         promised' \in [Subscribers -> BOOLEAN],
         answer' \in [Subscribers -> 0 .. MaxPushes],
         \A s \in Subscribers : promised'[s] => promised[s] \/ (s \in Live /\ Valid(s))
  PROVE  IInv'
  <1>1. TypeOK'
    BY DEF IInv, TypeOK
  <1>2. AcceptedWerePushed' /\ CountersExact' /\ InOrder' /\ HeadIsWanted'
    BY DEF IInv, AcceptedWerePushed, CountersExact, InOrder, HeadIsWanted, Live, Place
  <1>3. PromiseKept'
    BY DEF IInv, PromiseKept, Live, Valid, Place
  <1> QED
    BY <1>1, <1>2, <1>3 DEF IInv

\* A new subscriber's place is behind the list, so he counts for no message.
LEMMA SubscribeKeeps ==
  ASSUME IInv, NEW s \in Subscribers, Subscribe(s)
  PROVE  IInv'
  <1>1. /\ s \notin Live
        /\ msg_index' = [msg_index EXCEPT ![s] = NextMessage]
        /\ subscribers' = subscribers + 1
        /\ UNCHANGED <<queue, index_delta, pushed, promised, answer>>
    BY DEF Subscribe
  <1>2. /\ index_delta \in Nat /\ Len(queue) \in Nat /\ DOMAIN queue = 1 .. Len(queue)
        /\ NextMessage \in 0 .. MaxPushes
        /\ msg_index \in [Subscribers -> 0 .. MaxPushes \union {NoIndex}]
    BY DEF IInv, TypeOK, AcceptedWerePushed, NextMessage
  <1>3. Live' = Live \union {s}
    BY <1>1, <1>2 DEF Live, NoIndex
  <1>4. Place(s)' = Len(queue) /\ \A t \in Live : Place(t)' = Place(t)
    BY <1>1, <1>2 DEF Place, NextMessage, Live
  <1>5. subscribers' = Cardinality(Live')
    BY <1>1, <1>3, BehindIsFinite, FS_AddElement DEF IInv, CountersExact
  <1>6. \A i \in DOMAIN queue : Behind(i)' = Behind(i)
    BY <1>2, <1>3, <1>4 DEF Behind
  <1>7. CountersExact'
    BY <1>1, <1>5, <1>6 DEF IInv, CountersExact, Behind
  <1>8. TypeOK'
    <2>1. Cardinality(Live') \in 0 .. Cardinality(Subscribers)
      BY FS_Subset, FS_CardinalityType, CountOfSubscribers DEF Live
    <2>2. msg_index' \in [Subscribers -> 0 .. MaxPushes \union {NoIndex}]
      BY <1>1, <1>2
    <2> QED
      BY <1>1, <1>5, <2>1, <2>2 DEF IInv, TypeOK
  <1>9. AcceptedWerePushed' /\ InOrder' /\ HeadIsWanted' /\ PromiseKept'
    BY <1>1, <1>2, <1>3, <1>4
       DEF IInv, AcceptedWerePushed, InOrder, HeadIsWanted, PromiseKept, Valid
  <1> QED
    BY <1>7, <1>8, <1>9 DEF IInv

\* All subscribers have still to read a new message: they are at most just
\* behind the old ones.
LEMMA PushKeeps ==
  ASSUME IInv, Push
  PROVE  IInv'
  <1>1. /\ pushed' = pushed + 1 /\ pushed' \in 0 .. MaxPushes
        /\ UNCHANGED <<index_delta, subscribers, msg_index, promised, answer>>
    BY DEF Push, IInv, TypeOK
  <1>2. /\ queue \in Seq(Packed) /\ index_delta \in Nat /\ pushed \in Nat
        /\ Len(queue) \in Nat /\ DOMAIN queue = 1 .. Len(queue)
    BY DEF IInv, TypeOK
  <1>3. Live' = Live /\ \A s \in Live : Place(s)' = Place(s)
    BY <1>1 DEF Live, Place
  <1>4. CASE subscribers = 0
    <2>1. UNCHANGED queue
      BY <1>4 DEF Push
    <2>2. TypeOK' /\ AcceptedWerePushed'
      BY <1>1, <1>2, <2>1 DEF IInv, TypeOK, AcceptedWerePushed
    <2>3. CountersExact' /\ InOrder' /\ HeadIsWanted' /\ PromiseKept'
      BY <1>1, <2>1 DEF IInv, CountersExact, InOrder, HeadIsWanted, PromiseKept,
                        Live, Place, Valid
    <2> QED
      BY <2>2, <2>3 DEF IInv
  <1>5. CASE subscribers # 0
    <2> DEFINE new == Pack(pushed + 1, subscribers)
    <2>1. new \in Packed
      BY <1>1, <1>5 DEF Pack, Packed, IInv, TypeOK
    <2>2. queue' = Append(queue, new) /\ new.subs = subscribers
      BY <1>5 DEF Push, Pack
    <2> HIDE DEF new
    <2>3. /\ queue' \in Seq(Packed) /\ Len(queue') = Len(queue) + 1
          /\ DOMAIN queue' = 1 .. Len(queue) + 1
          /\ \A i \in 1 .. Len(queue) : queue'[i] = queue[i]
          /\ queue'[Len(queue) + 1] = new
      BY <1>2, <2>1, <2>2, AppendProperties
    <2>4. \A i \in 1 .. Len(queue) : Behind(i)' = Behind(i)
      BY <1>3 DEF Behind
    <2>5. \A i \in Nat : i = Len(queue) + 1 => Behind(i)' = Live
      BY <1>2, <1>3 DEF Behind, IInv, InOrder
    <2>6. CountersExact'
      <3>1. subscribers' = Cardinality(Live')
        BY <1>1, <1>3 DEF IInv, CountersExact
      <3>2. \A i \in 1 .. Len(queue) : queue'[i].subs = Cardinality(Behind(i)')
        BY <1>2, <2>3, <2>4 DEF IInv, CountersExact, Behind
      <3>3. \A i \in Nat : i = Len(queue) + 1
                            => queue'[i].subs = Cardinality(Behind(i)')
        BY <2>2, <2>3, <2>5 DEF IInv, CountersExact
      <3>4. \A i \in DOMAIN queue' : queue'[i].subs = Cardinality(Behind(i)')
        BY <1>2, <2>3, <3>2, <3>3
      <3> QED
        BY <3>1, <3>4 DEF CountersExact, Behind
    <2>7. TypeOK' /\ AcceptedWerePushed'
      BY <1>1, <1>2, <2>3 DEF IInv, TypeOK, AcceptedWerePushed
    <2>8. InOrder' /\ PromiseKept'
      BY <1>1, <1>2, <1>3, <2>3 DEF IInv, InOrder, PromiseKept, Valid
    <2>9. HeadIsWanted'
      <3>1. CASE queue = << >>
        <4>1. Live # {}
          BY <1>5, FS_EmptySet DEF IInv, CountersExact
        <4>2. \A s \in Live : Place(s) = 0
          BY <3>1 DEF IInv, InOrder
        <4> QED
          BY <1>3, <4>1, <4>2 DEF HeadIsWanted
      <3>2. CASE queue # << >>
        BY <1>3, <3>2 DEF IInv, HeadIsWanted
      <3> QED
        BY <3>1, <3>2
    <2> QED
      BY <2>6, <2>7, <2>8, <2>9 DEF IInv
  <1> QED
    BY <1>4, <1>5

\* A reader whose message only he has still to read stands at the head.
LEMMA LastReaderIsFirst ==
  ASSUME IInv, NEW s \in Live, NEW i \in 1 .. Len(queue), Place(s) < i,
         queue[i].subs = 1
  PROVE  Place(s) = 0 /\ Behind(i) = {s}
  <1>1. Behind(i) = {s}
    <2>1. Cardinality(Behind(i)) = 1
      BY DEF IInv, TypeOK, CountersExact, Behind
    <2>2. s \in Behind(i)
      BY DEF Behind
    <2> QED
      BY <2>1, <2>2, BehindIsFinite, OnlyOne
  <1>2. queue # << >>
    BY DEF IInv, TypeOK
  <1>3. PICK u \in Live : Place(u) = 0
    BY <1>2 DEF IInv, HeadIsWanted
  <1>4. u \in Behind(i)
    BY <1>3 DEF Behind
  <1> QED
    BY <1>1, <1>3, <1>4

\* Somebody else has still to read a message whose counter is not 1.
LEMMA SomebodyElse ==
  ASSUME IInv, NEW s \in Live, NEW i \in 1 .. Len(queue), queue[i].subs # 1
  PROVE  \E u \in Live : u # s /\ Place(u) < i
  <1>1. Cardinality(Behind(i)) >= 2
    <2>1. queue[i] \in Packed /\ DOMAIN queue = 1 .. Len(queue)
      BY DEF IInv, TypeOK
    <2>2. queue[i].subs = Cardinality(Behind(i))
      BY <2>1 DEF IInv, CountersExact, Behind
    <2> QED
      BY <2>1, <2>2, CountOfSubscribers DEF Packed
  <1>2. \E u \in Behind(i) : u # s
    BY <1>1, BehindIsFinite, AnotherOne
  <1> QED
    BY <1>2 DEF Behind

\* The parts of ReadNext() that do not depend on the counter.
LEMMA ReadNextFrame ==
  ASSUME IInv, NEW s \in Subscribers, ReadNext(s)
  PROVE  /\ s \in Live /\ Live' = Live
         /\ Place(s) \in 0 .. Len(queue) - 1
         /\ msg_index' = [msg_index EXCEPT ![s] = @ + 1]
         /\ msg_index' \in [Subscribers -> 0 .. MaxPushes \union {NoIndex}]
         /\ promised' = [promised EXCEPT ![s] = FALSE]
         /\ promised' \in [Subscribers -> BOOLEAN]
         /\ answer' \in [Subscribers -> 0 .. MaxPushes]
         /\ answer' = [answer EXCEPT ![s] = queue[Place(s) + 1].msg]
         /\ UNCHANGED <<subscribers, pushed>>
  <1>1. /\ s \in Live /\ Valid(s)
        /\ msg_index' = [msg_index EXCEPT ![s] = @ + 1]
        /\ promised' = [promised EXCEPT ![s] = FALSE]
        /\ answer' = [answer EXCEPT ![s] = queue[Place(s) + 1].msg]
        /\ UNCHANGED <<subscribers, pushed>>
    BY DEF ReadNext
  <1>2. /\ msg_index \in [Subscribers -> 0 .. MaxPushes \union {NoIndex}]
        /\ queue \in Seq(Packed) /\ Len(queue) \in Nat
        /\ index_delta \in 0 .. MaxPushes /\ pushed \in 0 .. MaxPushes
        /\ index_delta + Len(queue) <= pushed
    BY DEF IInv, TypeOK, AcceptedWerePushed
  <1>3. msg_index[s] \in 0 .. MaxPushes
    BY <1>1, <1>2 DEF Live
  <1>4. Place(s) \in 0 .. Len(queue) - 1
    BY <1>1, <1>2, <1>3 DEF Valid, Place
  <1>5. msg_index[s] + 1 \in 0 .. MaxPushes
    BY <1>2, <1>3, <1>4 DEF Place
  <1>6. msg_index' \in [Subscribers -> 0 .. MaxPushes \union {NoIndex}]
    BY <1>1, <1>2, <1>5
  <1>7. Live' = Live
    BY <1>1, <1>2, <1>3, <1>5 DEF Live, NoIndex
  <1>8. queue[Place(s) + 1] \in Packed
    BY <1>2, <1>4
  <1>9. answer' \in [Subscribers -> 0 .. MaxPushes]
    BY <1>1, <1>8 DEF IInv, TypeOK, Packed
  <1>10. promised' \in [Subscribers -> BOOLEAN]
    BY <1>1 DEF IInv, TypeOK
  <1> QED
    BY <1>1, <1>4, <1>6, <1>7, <1>9, <1>10

\* The last reader takes the head off the list; everybody else's place is
\* one less, and his own stays the first.
LEMMA LastPopKeeps ==
  ASSUME IInv, NEW s \in Subscribers, ReadNext(s), queue[Place(s) + 1].subs = 1
  PROVE  IInv'
  <1>0. /\ s \in Live /\ Live' = Live
        /\ Place(s) \in 0 .. Len(queue) - 1
        /\ msg_index' = [msg_index EXCEPT ![s] = @ + 1]
        /\ msg_index' \in [Subscribers -> 0 .. MaxPushes \union {NoIndex}]
        /\ promised' = [promised EXCEPT ![s] = FALSE]
        /\ promised' \in [Subscribers -> BOOLEAN]
        /\ answer' \in [Subscribers -> 0 .. MaxPushes]
        /\ UNCHANGED <<subscribers, pushed>>
    BY ReadNextFrame
  <1>1. /\ queue \in Seq(Packed) /\ Len(queue) \in Nat /\ DOMAIN queue = 1 .. Len(queue)
        /\ index_delta \in 0 .. MaxPushes /\ pushed \in 0 .. MaxPushes
        /\ msg_index \in [Subscribers -> 0 .. MaxPushes \union {NoIndex}]
        /\ index_delta + Len(queue) <= pushed
        /\ \A t \in Live : Place(t) \in 0 .. Len(queue) /\ msg_index[t] \in Int
    BY <1>0 DEF IInv, TypeOK, AcceptedWerePushed, InOrder, Live
  <1>2. Place(s) = 0 /\ Behind(1) = {s} /\ Len(queue) >= 1
    <2>1. Place(s) + 1 \in 1 .. Len(queue) /\ Place(s) < Place(s) + 1
      BY <1>0, <1>1
    <2> QED
      BY <1>0, <1>1, <2>1, LastReaderIsFirst
  <1>3. \A t \in Live : t # s => Place(t) >= 1
    BY <1>0, <1>1, <1>2 DEF Behind
  <1>4. /\ queue' \in Seq(Packed) /\ Len(queue') = Len(queue) - 1
        /\ \A i \in 1 .. Len(queue) - 1 : queue'[i] = queue[i + 1]
        /\ index_delta' = index_delta + 1
    <2>1. Clean(queue, 0, 1)
      BY <1>0, <1>2 DEF ReadNext, Pop, LastReader
    <2>2. 1 \in 0 .. Len(queue)
      BY <1>1, <1>2
    <2> QED
      BY <1>1, <2>1, <2>2, CleanHead
  <1>5. Place(s)' = 0 /\ \A t \in Live : t # s => Place(t)' = Place(t) - 1
    <2>1. \A t \in Live : msg_index'[t] = IF t = s THEN msg_index[t] + 1 ELSE msg_index[t]
      BY <1>0, <1>1 DEF Live
    <2>2. msg_index'[s] = msg_index[s] + 1 /\ msg_index[s] \in Int
      BY <1>0, <1>1, <2>1
    <2>3. Place(s)' = 0
      BY <1>1, <1>2, <1>4, <2>2 DEF Place
    <2>4. ASSUME NEW t \in Live, t # s PROVE Place(t)' = Place(t) - 1
      <3>1. msg_index'[t] = msg_index[t] /\ msg_index[t] \in Int
        BY <1>1, <2>1, <2>4
      <3> QED
        BY <1>1, <1>4, <3>1 DEF Place
    <2> QED
      BY <2>3, <2>4
  <1>6. ASSUME NEW i \in 1 .. Len(queue) - 1 PROVE Behind(i)' = Behind(i + 1)
    <2>1. \A t \in Live : Place(t)' < i <=> Place(t) < i + 1
      BY <1>1, <1>2, <1>5
    <2> QED
      BY <1>0, <2>1 DEF Behind
  <1>7. CountersExact'
    <2>1. DOMAIN queue' = 1 .. Len(queue) - 1
      BY <1>0, <1>4
    <2>2. ASSUME NEW i \in 1 .. Len(queue) - 1
          PROVE  queue'[i].subs = Cardinality(Behind(i)')
      <3>1. queue[i + 1].subs = Cardinality(Behind(i + 1))
        BY <1>1 DEF IInv, CountersExact, Behind
      <3>2. queue'[i] = queue[i + 1]
        BY <1>4
      <3> QED
        BY <1>6, <3>1, <3>2
    <2>3. subscribers' = Cardinality(Live')
      BY <1>0 DEF IInv, CountersExact
    <2> QED
      BY <1>0, <2>1, <2>2, <2>3 DEF CountersExact, Behind
  <1>8. TypeOK' /\ AcceptedWerePushed'
    BY <1>0, <1>1, <1>2, <1>4 DEF IInv, TypeOK, AcceptedWerePushed
  <1>9. InOrder'
    <2> SUFFICES ASSUME NEW t \in Live PROVE Place(t)' \in 0 .. Len(queue) - 1
      BY <1>0, <1>4 DEF InOrder
    <2>1. CASE t = s
      BY <1>1, <1>2, <1>5, <2>1
    <2>2. CASE t # s
      <3>1. Place(t) \in 0 .. Len(queue) /\ Place(t) >= 1 /\ Place(t)' = Place(t) - 1
        BY <1>1, <1>3, <1>5, <2>2
      <3> QED
        BY ONLY <3>1, <1>1
    <2> QED
      BY <2>1, <2>2
  <1>10. HeadIsWanted'
    BY <1>0, <1>5 DEF HeadIsWanted
  <1>11. PromiseKept'
    <2> SUFFICES ASSUME NEW t \in Subscribers, promised'[t]
                 PROVE  t \in Live' /\ Place(t)' >= 0 /\ Place(t)' < Len(queue')
      BY DEF PromiseKept, Valid
    <2>1. t # s /\ promised[t]
      BY <1>0 DEF IInv, TypeOK
    <2>2. t \in Live /\ Place(t) < Len(queue)
      BY <2>1 DEF IInv, PromiseKept, Valid
    <2>3. Place(t) >= 1 /\ Place(t) \in Int /\ Place(t)' = Place(t) - 1
      BY <1>1, <1>3, <1>5, <2>1, <2>2
    <2>4. Len(queue') = Len(queue) - 1 /\ Len(queue) \in Nat /\ t \in Live'
      BY <1>0, <1>1, <1>4, <2>2
    <2> QED
      BY ONLY <2>2, <2>3, <2>4
  <1> QED
    BY <1>7, <1>8, <1>9, <1>10, <1>11 DEF IInv

\* Any other reader leaves the list as it is but for one counter.
LEMMA OtherPopKeeps ==
  ASSUME IInv, NEW s \in Subscribers, ReadNext(s), queue[Place(s) + 1].subs # 1
  PROVE  IInv'
  <1>0. /\ s \in Live /\ Live' = Live
        /\ Place(s) \in 0 .. Len(queue) - 1
        /\ msg_index' = [msg_index EXCEPT ![s] = @ + 1]
        /\ msg_index' \in [Subscribers -> 0 .. MaxPushes \union {NoIndex}]
        /\ promised' = [promised EXCEPT ![s] = FALSE]
        /\ promised' \in [Subscribers -> BOOLEAN]
        /\ answer' \in [Subscribers -> 0 .. MaxPushes]
        /\ UNCHANGED <<subscribers, pushed>>
    BY ReadNextFrame
  <1> DEFINE at == Place(s) + 1
  <1>1. /\ queue \in Seq(Packed) /\ Len(queue) \in Nat /\ DOMAIN queue = 1 .. Len(queue)
        /\ index_delta \in 0 .. MaxPushes /\ pushed \in 0 .. MaxPushes
        /\ msg_index \in [Subscribers -> 0 .. MaxPushes \union {NoIndex}]
        /\ index_delta + Len(queue) <= pushed
        /\ \A t \in Live : Place(t) \in 0 .. Len(queue) /\ msg_index[t] \in Int
    BY <1>0 DEF IInv, TypeOK, AcceptedWerePushed, InOrder, Live
  <1>2. at \in 1 .. Len(queue) /\ queue[at] \in Packed
    BY <1>0, <1>1
  <1>3. queue' = [queue EXCEPT ![at] = Read(queue[at])] /\ UNCHANGED index_delta
    BY DEF ReadNext, Pop, LastReader
  <1>4. /\ Read(queue[at]) \in Packed
        /\ Read(queue[at]).subs = queue[at].subs - 1
    BY <1>0, <1>2, CountOfSubscribers DEF Packed, Read, Pack
  <1>5. /\ queue' \in Seq(Packed) /\ Len(queue') = Len(queue)
        /\ DOMAIN queue' = 1 .. Len(queue)
        /\ \A i \in 1 .. Len(queue) :
             queue'[i].subs = IF i = at THEN queue[i].subs - 1 ELSE queue[i].subs
    <2>1. queue' \in Seq(Packed) /\ Len(queue') = Len(queue)
      BY <1>0, <1>1, <1>2, <1>3, <1>4, ExceptSeq
    <2>2. \A i \in 1 .. Len(queue) :
            queue'[i] = IF i = at THEN Read(queue[at]) ELSE queue[i]
      BY <1>0, <1>1, <1>3
    <2> QED
      BY <1>0, <1>1, <1>4, <2>1, <2>2
  <1>6. Place(s)' = at /\ \A t \in Live : t # s => Place(t)' = Place(t)
    BY <1>0, <1>1, <1>3 DEF Place, Live
  <1>7. \A i \in 1 .. Len(queue) :
          Behind(i)' = IF i = at THEN Behind(i) \ {s} ELSE Behind(i)
    BY <1>0, <1>1, <1>2, <1>6 DEF Behind
  <1>8. s \in Behind(at)
    BY <1>0, <1>1 DEF Behind
  <1> HIDE DEF at
  <1>9. CountersExact'
    <2>1. \A i \in 1 .. Len(queue) : queue[i].subs = Cardinality(Behind(i))
      BY <1>0, <1>1 DEF IInv, CountersExact, Behind
    <2>2. Cardinality(Behind(at) \ {s}) = Cardinality(Behind(at)) - 1
      BY <1>0, <1>8, BehindIsFinite, FS_RemoveElement
    <2>3. \A i \in DOMAIN queue' : queue'[i].subs = Cardinality(Behind(i)')
      BY <1>0, <1>2, <1>5, <1>7, <2>1, <2>2
    <2>4. subscribers' = Cardinality(Live')
      BY <1>0 DEF IInv, CountersExact
    <2> QED
      BY <1>0, <2>3, <2>4 DEF CountersExact, Behind
  <1>10. TypeOK' /\ AcceptedWerePushed'
    BY <1>0, <1>1, <1>3, <1>5 DEF IInv, TypeOK, AcceptedWerePushed
  <1>11. InOrder'
    BY <1>0, <1>1, <1>2, <1>5, <1>6 DEF InOrder
  <1>12. HeadIsWanted'
    <2>1. CASE at = 1
      <3>1. PICK u \in Live : u # s /\ Place(u) < 1
        BY <1>0, <1>2, <2>1, SomebodyElse DEF at
      <3> QED
        BY <1>0, <1>1, <1>6, <3>1 DEF HeadIsWanted
    <2>2. CASE at # 1
      <3>1. PICK u \in Live : Place(u) = 0
        BY <1>0, <1>1, <1>2 DEF IInv, HeadIsWanted
      <3> QED
        BY <1>0, <1>6, <2>2, <3>1 DEF HeadIsWanted, at
    <2> QED
      BY <1>0, <2>1, <2>2
  <1>13. PromiseKept'
    BY <1>0, <1>1, <1>5, <1>6 DEF IInv, TypeOK, PromiseKept, Valid
  <1> QED
    BY <1>9, <1>10, <1>11, <1>12, <1>13 DEF IInv

\* What unsubscribe() does to the list: it takes d messages off the head,
\* those that only s had still to read, and counts the others behind his
\* place down.  When d is not 0, s stands at the head.
Unsubscribed(s, d) ==
  /\ queue' \in Seq(Packed)
  /\ Len(queue') = Len(queue) - d
  /\ index_delta' = index_delta + d
  /\ \A i \in 1 .. Len(queue) - d :
       /\ queue'[i].msg = queue[i + d].msg
       /\ i + d <= Place(s) => queue'[i].subs = queue[i + d].subs
       /\ i + d > Place(s) => /\ queue'[i].subs = queue[i + d].subs - 1
                              /\ queue[i + d].subs # 1
  /\ d # 0 => Place(s) = 0 /\ Behind(d) = {s}

LEMMA UnsubscribeEffect ==
  ASSUME IInv, NEW s \in Subscribers, Unsubscribe(s)
  PROVE  \E d \in 0 .. Len(queue) : Unsubscribed(s, d)
  <1> DEFINE at == Place(s)
             D == {i \in at + 1 .. Len(queue) : LastReader(queue[i])}
  <1>1. /\ queue \in Seq(Packed) /\ Len(queue) \in Nat /\ DOMAIN queue = 1 .. Len(queue)
        /\ \A i \in 1 .. Len(queue) : queue[i] \in Packed
        /\ s \in Live /\ at \in 0 .. Len(queue) /\ index_delta \in Int
    BY DEF IInv, TypeOK, InOrder, Unsubscribe
  <1>2. /\ \A p \in Packed : p.subs \in Int /\ p.subs # 0
        /\ \A i \in at + 1 .. Len(queue) : queue[i].subs # 0
    BY <1>1, CountOfSubscribers DEF Packed
  <1>3. /\ ReadFrom(at) \in Seq(Packed)
        /\ Len(ReadFrom(at)) = Len(queue)
        /\ \A i \in 1 .. Len(queue) :
              /\ ReadFrom(at)[i].msg = queue[i].msg
              /\ i <= at => ReadFrom(at)[i].subs = queue[i].subs
              /\ i > at /\ queue[i].subs # 1 => ReadFrom(at)[i].subs = queue[i].subs - 1
    BY <1>1, <1>2, ReadFromFields
  <1>4. DropTill(at) = Cardinality(D)
    BY DEF DropTill
  <1>5. /\ D \in SUBSET (1 .. Len(queue)) /\ IsFiniteSet(D)
        /\ \A i \in 1 .. Len(queue) : i \in D <=> i > at /\ queue[i].subs = 1
    <2>1. /\ D \in SUBSET (1 .. Len(queue))
          /\ \A i \in 1 .. Len(queue) : i \in D <=> i > at /\ queue[i].subs = 1
      BY <1>1 DEF LastReader
    <2>2. IsFiniteSet(1 .. Len(queue))
      BY <1>1, FS_Interval
    <2> HIDE DEF D
    <2>3. IsFiniteSet(D)
      BY <2>1, <2>2, FS_Subset
    <2> QED
      BY <2>1, <2>3
  <1> HIDE DEF D
  <1>6. CASE D = {}
    <2>1. queue' = ReadFrom(at) /\ UNCHANGED index_delta
      BY <1>4, <1>6, FS_EmptySet DEF Unsubscribe
    <2>2. \A i \in 1 .. Len(queue) : i > at => queue[i].subs # 1
      BY <1>5, <1>6
    <2> HIDE DEF at
    <2>3. Unsubscribed(s, 0)
      BY <1>1, <1>3, <2>1, <2>2 DEF Unsubscribed, at
    <2> QED
      BY <1>1, <2>3
  <1>7. CASE D # {}
    <2>1. PICK first \in D : TRUE
      BY <1>7
    <2>2. at = 0
      BY <1>1, <1>5, <2>1, LastReaderIsFirst
    <2>3. ASSUME NEW i \in D, NEW j \in 1 .. i PROVE j \in D
      <3>1. Behind(i) = {s} /\ {i, j} \subseteq 1 .. Len(queue)
        BY <1>1, <1>5, <2>2, <2>3, LastReaderIsFirst
      <3>2. Behind(j) = {s}
        <4>1. \A t \in Live : Place(t) < j => Place(t) < i
          BY <1>1, <3>1 DEF IInv, InOrder
        <4>2. Place(s) < j
          BY <2>2 DEF at
        <4> QED
          BY <1>1, <3>1, <4>1, <4>2 DEF Behind
      <3>3. queue[j].subs = 1
        BY <1>1, <3>1, <3>2, FS_Singleton DEF IInv, CountersExact, Behind
      <3> QED
        BY <1>5, <2>2, <3>1, <3>3
    <2> DEFINE d == Cardinality(D)
    <2>4. d \in 0 .. Len(queue) /\ D = 1 .. d
      BY <1>1, <1>5, <2>3, FirstPlaces
    <2>5. d # 0
      BY <1>5, <1>7, FS_EmptySet
    <2>6. Clean(ReadFrom(0), 0, d)
      BY <1>4, <2>2, <2>4, <2>5 DEF Unsubscribe
    <2> HIDE DEF d
    <2>7. Behind(d) = {s}
      <3>1. d \in D /\ d \in 1 .. Len(queue)
        BY <2>4, <2>5
      <3>2. queue[d].subs = 1 /\ at < d
        BY <1>1, <1>5, <2>2, <3>1
      <3> QED
        BY <1>1, <3>1, <3>2, LastReaderIsFirst
    <2>8. \A i \in 1 .. Len(queue) : i > d => queue[i].subs # 1
      BY <1>5, <2>2, <2>4
    <2> HIDE DEF at
    <2>9. /\ queue' \in Seq(Packed) /\ Len(queue') = Len(queue) - d
          /\ \A i \in 1 .. Len(queue) - d : queue'[i] = ReadFrom(0)[i + d]
          /\ index_delta' = index_delta + d
      BY <1>3, <2>2, <2>4, <2>6, CleanHead
    <2>10. ASSUME NEW i \in 1 .. Len(queue) - d
           PROVE  /\ queue'[i].msg = queue[i + d].msg
                  /\ i + d > Place(s)
                  /\ queue'[i].subs = queue[i + d].subs - 1
                  /\ queue[i + d].subs # 1
      <3>1. i + d \in 1 .. Len(queue) /\ i + d > d /\ i + d > 0 /\ Place(s) = 0
        BY <1>1, <2>2, <2>4 DEF at
      <3>2. queue[i + d].subs # 1
        BY <2>8, <3>1
      <3>3. queue'[i] = ReadFrom(0)[i + d]
        BY <2>9
      <3>4. /\ ReadFrom(0)[i + d].msg = queue[i + d].msg
            /\ ReadFrom(0)[i + d].subs = queue[i + d].subs - 1
        BY <1>3, <2>2, <3>1, <3>2
      <3> QED
        BY <3>1, <3>2, <3>3, <3>4
    <2>11. /\ \A i \in 1 .. Len(queue) - d : ~(i + d <= Place(s))
           /\ d \in Int /\ Place(s) \in Int
      <3>1. Place(s) = 0
        BY <2>2 DEF at
      <3> QED
        BY <1>1, <2>4, <3>1
    <2>12. /\ queue' \in Seq(Packed)
           /\ Len(queue') = Len(queue) - d /\ index_delta' = index_delta + d
      BY <2>9
    <2> HIDE DEF D
    <2>13. \A i \in 1 .. Len(queue) - d :
            /\ queue'[i].msg = queue[i + d].msg
            /\ i + d <= Place(s) => queue'[i].subs = queue[i + d].subs
            /\ i + d > Place(s) => /\ queue'[i].subs = queue[i + d].subs - 1
                                   /\ queue[i + d].subs # 1
      BY ONLY <2>10, <2>11
    <2>14. Place(s) = 0
      BY <2>2 DEF at
    <2>15. Unsubscribed(s, d)
      BY ONLY <2>7, <2>12, <2>13, <2>14 DEF Unsubscribed
    <2> QED
      BY <2>4, <2>15
  <1> QED
    BY <1>6, <1>7

LEMMA UnsubscribeKeeps ==
  ASSUME IInv, NEW s \in Subscribers, Unsubscribe(s)
  PROVE  IInv'
  <1>0. /\ s \in Live /\ subscribers' = subscribers - 1
        /\ msg_index' = [msg_index EXCEPT ![s] = NoIndex]
        /\ promised' = [promised EXCEPT ![s] = FALSE]
        /\ UNCHANGED <<pushed, answer>>
    BY DEF Unsubscribe
  <1>1. /\ queue \in Seq(Packed) /\ Len(queue) \in Nat /\ DOMAIN queue = 1 .. Len(queue)
        /\ \A i \in 1 .. Len(queue) : queue[i] \in Packed
        /\ index_delta \in 0 .. MaxPushes /\ pushed \in 0 .. MaxPushes
        /\ msg_index \in [Subscribers -> 0 .. MaxPushes \union {NoIndex}]
        /\ index_delta + Len(queue) <= pushed
        /\ \A t \in Live : Place(t) \in 0 .. Len(queue) /\ msg_index[t] \in Int
    BY DEF IInv, TypeOK, AcceptedWerePushed, InOrder, Live
  <1>2. PICK d \in 0 .. Len(queue) : Unsubscribed(s, d)
    BY UnsubscribeEffect
  <1>3. /\ queue' \in Seq(Packed) /\ Len(queue') = Len(queue) - d
        /\ DOMAIN queue' = 1 .. Len(queue) - d
        /\ index_delta' = index_delta + d
        /\ d # 0 => Place(s) = 0 /\ Behind(d) = {s}
    BY <1>2 DEF Unsubscribed
  <1>4. Live' = Live \ {s}
    BY <1>0, <1>1 DEF Live
  <1>5. \A t \in Live' : Place(t)' = Place(t) - d
    <2> SUFFICES ASSUME NEW t \in Live' PROVE Place(t)' = Place(t) - d
      OBVIOUS
    <2>1. msg_index'[t] = msg_index[t] /\ msg_index[t] \in Int
      BY <1>0, <1>1, <1>4 DEF Live
    <2> QED
      BY <1>1, <1>3, <2>1 DEF Place
  <1>6. \A t \in Live' : Place(t) >= d
    BY <1>1, <1>3, <1>4 DEF Behind
  <1>7. ASSUME NEW i \in 1 .. Len(queue) - d PROVE Behind(i)' = Behind(i + d) \ {s}
    <2>1. \A t \in Live' : Place(t)' < i <=> Place(t) < i + d
      BY <1>1, <1>4, <1>5
    <2> QED
      BY <1>4, <2>1 DEF Behind
  <1>8. CountersExact'
    <2>1. ASSUME NEW i \in 1 .. Len(queue) - d
          PROVE  queue'[i].subs = Cardinality(Behind(i)')
      <3>1. i + d \in 1 .. Len(queue)
        BY <1>1
      <3>2. queue[i + d].subs = Cardinality(Behind(i + d))
        BY <1>1, <3>1 DEF IInv, CountersExact, Behind
      <3>3. CASE i + d <= Place(s)
        <4>1. s \notin Behind(i + d)
          BY <1>0, <1>1, <3>3 DEF Behind
        <4>2. Behind(i)' = Behind(i + d)
          BY <1>7, <4>1
        <4> QED
          BY <1>2, <3>2, <3>3, <4>2 DEF Unsubscribed
      <3>4. CASE i + d > Place(s)
        <4>1. s \in Behind(i + d)
          BY <1>0, <3>4, <1>1 DEF Behind
        <4>2. Cardinality(Behind(i)') = Cardinality(Behind(i + d)) - 1
          BY <1>7, <4>1, BehindIsFinite, FS_RemoveElement
        <4> QED
          BY <1>2, <3>2, <3>4, <4>2 DEF Unsubscribed
      <3> QED
        BY <1>0, <1>1, <3>1, <3>3, <3>4
    <2>2. subscribers' = Cardinality(Live')
      BY <1>0, <1>4, BehindIsFinite, FS_RemoveElement DEF IInv, CountersExact
    <2> QED
      BY <1>3, <2>1, <2>2 DEF CountersExact, Behind
  <1>9. TypeOK'
    <2>1. subscribers' \in 0 .. Cardinality(Subscribers)
      <3>1. Cardinality(Live') = Cardinality(Live) - 1
        BY <1>0, <1>4, BehindIsFinite, FS_RemoveElement
      <3>2. Cardinality(Live') \in Nat
        BY <1>4, BehindIsFinite, FS_RemoveElement, FS_CardinalityType
      <3> QED
        BY <1>0, <3>1, <3>2, BehindIsFinite, CountOfSubscribers DEF IInv, CountersExact
    <2>2. index_delta' \in 0 .. MaxPushes
      BY <1>1, <1>3
    <2>3. msg_index' \in [Subscribers -> 0 .. MaxPushes \union {NoIndex}]
      BY <1>0, <1>1
    <2> QED
      BY <1>0, <1>3, <2>1, <2>2, <2>3 DEF IInv, TypeOK
  <1>10. AcceptedWerePushed'
    BY <1>0, <1>1, <1>3 DEF AcceptedWerePushed
  <1>11. InOrder'
    BY <1>1, <1>3, <1>4, <1>5, <1>6 DEF InOrder
  <1>12. HeadIsWanted'
    <2> SUFFICES ASSUME queue' # << >> PROVE \E u \in Live' : Place(u)' = 0
      BY DEF HeadIsWanted
    <2>1. Len(queue) - d >= 1
      BY <1>1, <1>3, EmptySeq
    <2>2. CASE Place(s) = 0
      <3>1. queue[d + 1].subs # 1
        BY <1>1, <1>2, <2>1, <2>2 DEF Unsubscribed
      <3>2. PICK u \in Live : u # s /\ Place(u) < d + 1
        <4>1. d + 1 \in 1 .. Len(queue)
          BY <1>1, <2>1
        <4> QED
          BY <1>0, <3>1, <4>1, SomebodyElse
      <3> QED
        BY <1>1, <1>4, <1>5, <1>6, <3>2
    <2>3. CASE Place(s) # 0
      <3>1. d = 0 /\ queue # << >>
        BY <1>1, <1>3, <2>1, <2>3
      <3>2. PICK u \in Live : Place(u) = 0
        BY <3>1 DEF IInv, HeadIsWanted
      <3> QED
        BY <1>4, <1>5, <2>3, <3>1, <3>2
    <2> QED
      BY <2>2, <2>3
  <1>13. PromiseKept'
    <2> SUFFICES ASSUME NEW t \in Subscribers, promised'[t]
                 PROVE  t \in Live' /\ Place(t)' >= 0 /\ Place(t)' < Len(queue')
      BY DEF PromiseKept, Valid
    <2>1. t # s /\ promised[t]
      BY <1>0 DEF IInv, TypeOK
    <2>2. t \in Live' /\ Place(t) < Len(queue)
      BY <1>4, <2>1 DEF IInv, PromiseKept, Valid
    <2> QED
      BY <1>1, <1>3, <1>4, <1>5, <1>6, <2>2
  <1> QED
    BY <1>8, <1>9, <1>10, <1>11, <1>12, <1>13 DEF IInv

-----------------------------------------------------------------------------
(* The invariants.                                                         *)

LEMMA NextKeeps == IInv /\ [Next]_vars => IInv'
  <1> SUFFICES ASSUME IInv, [Next]_vars PROVE IInv'
    OBVIOUS
  <1>1. CASE Push
    BY <1>1, PushKeeps
  <1>2. ASSUME NEW s \in Subscribers, Subscribe(s) PROVE IInv'
    BY <1>2, SubscribeKeeps
  <1>3. ASSUME NEW s \in Subscribers, HasNext(s) PROVE IInv'
    <2>1. /\ UNCHANGED <<queue, index_delta, subscribers, msg_index, pushed, answer>>
          /\ s \in Live /\ promised' = [promised EXCEPT ![s] = Valid(s)]
      BY <1>3 DEF HasNext
    <2>2. Valid(s) \in BOOLEAN
      BY DEF Valid
    <2>3. /\ promised' \in [Subscribers -> BOOLEAN]
          /\ \A t \in Subscribers : promised'[t] => promised[t] \/ (t \in Live /\ Valid(t))
      BY <2>1, <2>2 DEF IInv, TypeOK
    <2>4. answer' \in [Subscribers -> 0 .. MaxPushes]
      BY <2>1 DEF IInv, TypeOK
    <2> QED
      BY <2>1, <2>3, <2>4, QuietKeeps
  <1>4. ASSUME NEW s \in Subscribers, KeyError(s) PROVE IInv'
    <2>1. /\ UNCHANGED <<queue, index_delta, subscribers, msg_index, pushed, promised>>
          /\ answer' = [answer EXCEPT ![s] = 0]
      BY <1>4 DEF KeyError
    <2>2. answer' \in [Subscribers -> 0 .. MaxPushes]
      BY <2>1 DEF IInv, TypeOK
    <2>3. /\ promised' \in [Subscribers -> BOOLEAN]
          /\ \A t \in Subscribers : promised'[t] => promised[t] \/ (t \in Live /\ Valid(t))
      BY <2>1 DEF IInv, TypeOK
    <2> QED
      BY <2>1, <2>2, <2>3, QuietKeeps
  <1>5. ASSUME NEW s \in Subscribers, ReadNext(s) PROVE IInv'
    BY <1>5, LastPopKeeps, OtherPopKeeps
  <1>6. ASSUME NEW s \in Subscribers, Unsubscribe(s) PROVE IInv'
    BY <1>6, UnsubscribeKeeps
  <1>7. CASE UNCHANGED vars
    <2>1. UNCHANGED <<queue, index_delta, subscribers, msg_index, pushed, promised, answer>>
      BY <1>7 DEF vars
    <2>2. /\ answer' \in [Subscribers -> 0 .. MaxPushes]
          /\ promised' \in [Subscribers -> BOOLEAN]
          /\ \A t \in Subscribers : promised'[t] => promised[t] \/ (t \in Live /\ Valid(t))
      BY <2>1 DEF IInv, TypeOK
    <2> QED
      BY <2>1, <2>2, QuietKeeps
  <1> QED
    BY <1>1, <1>2, <1>3, <1>4, <1>5, <1>6, <1>7 DEF Next

THEOREM Invariance == Spec => []IInv
  BY InitHolds, NextKeeps, PTL DEF Spec

(* The calls keep the queue well typed: no counter is ever 0 or larger     *)
(* than the number of subscribers (mcqueue.c:343, 391, 437).               *)
THEOREM TypeCorrect == Spec => []TypeOK
  <1>1. IInv => TypeOK
    BY DEF IInv
  <1> QED
    BY <1>1, Invariance, PTL

(* For any number of subscribers that come, read and leave in any order,   *)
(* the counter of each message is the number of those that have still to   *)
(* read it (mcqueue.c:391-399, 431-441).                                   *)
THEOREM Counting == Spec => []CountersExact
  <1>1. IInv => CountersExact
    BY DEF IInv
  <1> QED
    BY <1>1, Invariance, PTL

(* Nobody's next message is ever removed: the messages unsubscribe() and   *)
(* pop() take off are those at the head that nobody waits for              *)
(* (mcqueue.c:391, 448).                                                   *)
THEOREM PlacesStayInside == Spec => []InOrder
  <1>1. IInv => InOrder
    BY DEF IInv
  <1> QED
    BY <1>1, Invariance, PTL

(* A message that all have read, or whose readers have left, is gone       *)
(* (mcqueue.c:391, 431-448).                                               *)
THEOREM NothingIsKept == Spec => []HeadIsWanted
  <1>1. IInv => HeadIsWanted
    BY DEF IInv
  <1> QED
    BY <1>1, Invariance, PTL

(* After a has_next() that said yes, next() succeeds, whatever others do   *)
(* in between (subscriber.c:187-196).                                      *)
THEOREM PromisesAreKept == Spec => []PromiseKept
  <1>1. IInv => PromiseKept
    BY DEF IInv
  <1> QED
    BY <1>1, Invariance, PTL

-----------------------------------------------------------------------------
(* The refinement of Multicast.                                            *)

\* What a subscriber has still to read, as a sequence.
LEMMA UnreadFields ==
  ASSUME queue \in Seq(Packed), NEW s \in Live, Place(s) \in 0 .. Len(queue)
  PROVE  /\ Unread(s) \in Seq(1 .. MaxPushes)
         /\ Len(Unread(s)) = Len(queue) - Place(s)
         /\ \A i \in 1 .. Len(queue) - Place(s) : Unread(s)[i] = queue[Place(s) + i].msg
  <1> DEFINE n == Len(queue) - Place(s)
  <1>1. n \in Nat
    OBVIOUS
  <1>2. ASSUME NEW i \in 1 .. n PROVE queue[Place(s) + i].msg \in 1 .. MaxPushes
    <2>1. Place(s) + i \in 1 .. Len(queue)
      OBVIOUS
    <2>2. queue[Place(s) + i] \in Packed
      BY <2>1
    <2> QED
      BY <2>2 DEF Packed
  <1>3. Unread(s) = [i \in 1 .. n |-> queue[Place(s) + i].msg]
    BY DEF Unread
  <1> HIDE DEF n
  <1>4. Unread(s) \in [1 .. n -> 1 .. MaxPushes]
    BY <1>2, <1>3
  <1>5. Unread(s) \in Seq(1 .. MaxPushes) /\ Len(Unread(s)) = n
    BY <1>1, <1>4
  <1> QED
    BY <1>3, <1>5 DEF n

\* Messages that leave at the head shift the others, and the place of a
\* subscriber with them: what he has to read stays the same.
LEMMA ShiftKeepsUnread ==
  ASSUME TypeOK, TypeOK', InOrder, InOrder',
         NEW t, t \in Live, t \in Live', NEW d \in Nat,
         Len(queue') = Len(queue) - d, Place(t)' = Place(t) - d,
         \A i \in 1 .. Len(queue) - d : queue'[i].msg = queue[i + d].msg
  PROVE  Unread(t)' = Unread(t)
  <1>1. /\ queue \in Seq(Packed) /\ queue' \in Seq(Packed) /\ Len(queue) \in Nat
        /\ Place(t) \in 0 .. Len(queue) /\ Place(t)' \in 0 .. Len(queue')
    BY DEF TypeOK, InOrder
  <1>2. /\ Unread(t) = [i \in 1 .. Len(queue) - Place(t) |-> queue[Place(t) + i].msg]
        /\ Unread(t)' = [i \in 1 .. Len(queue') - Place(t)' |-> queue'[Place(t)' + i].msg]
    BY DEF Unread
  <1>3. Len(queue') - Place(t)' = Len(queue) - Place(t)
    BY <1>1
  <1>4. \A i \in 1 .. Len(queue) - Place(t) :
          queue'[Place(t)' + i].msg = queue[Place(t) + i].msg
    <2> SUFFICES ASSUME NEW i \in 1 .. Len(queue) - Place(t)
                 PROVE  queue'[Place(t)' + i].msg = queue[Place(t) + i].msg
      OBVIOUS
    <2>1. Place(t)' + i \in 1 .. Len(queue) - d /\ Place(t)' + i + d = Place(t) + i
      BY <1>1
    <2> QED
      BY <2>1
  <1> QED
    BY <1>2, <1>3, <1>4

\* A new message is the next one of everybody who is subscribed.
LEMMA PushStep ==
  ASSUME IInv, IInv', Push
  PROVE  Promise!Push
  <1>1. /\ pushed' = pushed + 1
        /\ UNCHANGED <<index_delta, subscribers, msg_index, promised, answer>>
    BY DEF Push
  <1>2. Live' = Live /\ \A t \in Live : Place(t)' = Place(t)
    BY <1>1 DEF Live, Place
  <1>3. ASSUME NEW t \in Subscribers
        PROVE  Unread(t)' = IF t \in Live THEN Append(Unread(t), pushed + 1)
                                          ELSE Unread(t)
    <2>1. CASE t \notin Live
      <3>1. Unread(t) = << >> /\ Unread(t)' = << >>
        BY <1>2, <2>1 DEF Unread
      <3> QED
        BY <2>1, <3>1
    <2>2. CASE t \in Live
      <3> DEFINE new == Pack(pushed + 1, subscribers)
      <3>1. subscribers # 0
        <4>1. Cardinality(Live) # 0
          BY <2>2, BehindIsFinite, FS_EmptySet
        <4> QED
          BY <4>1 DEF IInv, CountersExact
      <3>2. queue' = Append(queue, new)
        BY <3>1 DEF Push
      <3>3. /\ queue \in Seq(Packed) /\ queue' \in Seq(Packed)
            /\ Place(t) \in 0 .. Len(queue) /\ pushed + 1 \in 1 .. MaxPushes
        BY <1>1, <2>2 DEF IInv, TypeOK, InOrder
      <3>4. /\ Len(queue') = Len(queue) + 1
            /\ \A i \in 1 .. Len(queue) : queue'[i] = queue[i]
            /\ queue'[Len(queue) + 1] = new
        BY <3>2, <3>3
      <3>5. new.msg = pushed + 1
        BY DEF Pack
      <3> HIDE DEF new
      <3>6. /\ Unread(t) \in Seq(1 .. MaxPushes)
            /\ Len(Unread(t)) = Len(queue) - Place(t)
            /\ \A i \in 1 .. Len(queue) - Place(t) : Unread(t)[i] = queue[Place(t) + i].msg
        BY <2>2, <3>3, UnreadFields
      <3> DEFINE more == Append(Unread(t), pushed + 1)
                 n == Len(queue) - Place(t)
      <3>7. /\ more \in Seq(1 .. MaxPushes) /\ Len(more) = n + 1
            /\ \A i \in 1 .. n : more[i] = queue[Place(t) + i].msg
            /\ more[n + 1] = pushed + 1
        BY <3>3, <3>6, AppendProperties
      <3>8. Unread(t)' = [i \in 1 .. n + 1 |-> queue'[Place(t) + i].msg]
        <4>1. Unread(t)' = [i \in 1 .. Len(queue') - Place(t)' |-> queue'[Place(t)' + i].msg]
          BY <1>2, <2>2 DEF Unread
        <4>2. Len(queue') - Place(t)' = n + 1 /\ Place(t)' = Place(t)
          BY <1>2, <2>2, <3>3, <3>4
        <4> QED
          BY <4>1, <4>2
      <3>9. ASSUME NEW i \in 1 .. n + 1 PROVE more[i] = queue'[Place(t) + i].msg
        <4>1. CASE i = n + 1
          BY <3>3, <3>4, <3>5, <3>7, <4>1
        <4>2. CASE i # n + 1
          <5>1. /\ Place(t) \in 0 .. Len(queue) /\ Len(queue) \in Nat
                /\ i \in 1 .. Len(queue) - Place(t) + 1 /\ i # Len(queue) - Place(t) + 1
            BY <3>3, <4>2
          <5>2. /\ i \in 1 .. Len(queue) - Place(t)
                /\ Place(t) + i \in 1 .. Len(queue)
            BY ONLY <5>1
          <5> QED
            BY <3>4, <3>7, <5>2
        <4> QED
          BY <4>1, <4>2
      <3>10. n + 1 \in Nat
        BY <3>3
      <3> HIDE DEF more, n
      <3>11. more = [i \in 1 .. n + 1 |-> queue'[Place(t) + i].msg]
        BY <3>7, <3>9, <3>10
      <3> QED
        BY <2>2, <3>8, <3>11 DEF more
    <2> QED
      BY <2>1, <2>2
  <1> QED
    BY <1>1, <1>2, <1>3 DEF Promise!Push

\* A new subscriber has nothing to read yet.
LEMMA SubscribeStep ==
  ASSUME IInv, IInv', NEW s \in Subscribers, Subscribe(s)
  PROVE  Promise!Subscribe(s)
  <1>1. /\ s \notin Live
        /\ msg_index' = [msg_index EXCEPT ![s] = NextMessage]
        /\ UNCHANGED <<queue, index_delta, pushed, promised, answer>>
    BY DEF Subscribe
  <1>2. /\ msg_index \in [Subscribers -> 0 .. MaxPushes \union {NoIndex}]
        /\ NextMessage \in 0 .. MaxPushes
        /\ queue \in Seq(Packed) /\ index_delta \in Int
    BY DEF IInv, TypeOK, AcceptedWerePushed, NextMessage
  <1>3. Live' = Live \union {s}
    BY <1>1, <1>2 DEF Live, NoIndex
  <1>4. Place(s)' = Len(queue) /\ \A t \in Live : Place(t)' = Place(t)
    BY <1>1, <1>2 DEF Place, NextMessage, Live
  <1>5. ASSUME NEW t \in Subscribers PROVE Unread(t)' = Unread(t)
    <2>1. CASE t = s
      <3>1. Unread(s) = << >>
        BY <1>1 DEF Unread
      <3>2. Unread(s)' \in Seq(1 .. MaxPushes) /\ Len(Unread(s)') = 0
        <4>1. /\ queue' \in Seq(Packed) /\ s \in Live' /\ Place(s)' \in 0 .. Len(queue')
              /\ Len(queue') - Place(s)' = 0
          BY <1>1, <1>2, <1>3, <1>4
        <4>2. Unread(s)' = [i \in 1 .. 0 |-> queue'[Place(s)' + i].msg]
          BY <4>1 DEF Unread
        <4> QED
          BY <4>2
      <3> QED
        BY <2>1, <3>1, <3>2
    <2>2. CASE t # s /\ t \in Live
      BY <1>1, <1>3, <1>4, <2>2 DEF Unread
    <2>3. CASE t # s /\ t \notin Live
      BY <1>3, <2>3 DEF Unread
    <2> QED
      BY <2>1, <2>2, <2>3
  <1> QED
    BY <1>1, <1>3, <1>5 DEF Promise!Subscribe

\* A KeyError is a pull() of a token that has nothing to read.
LEMMA KeyErrorStep ==
  ASSUME IInv, NEW s \in Subscribers, KeyError(s)
  PROVE  Promise!Pull(s)
  <1>1. /\ s \in Live /\ ~Valid(s)
        /\ answer' = [answer EXCEPT ![s] = 0]
        /\ UNCHANGED <<queue, index_delta, subscribers, msg_index, pushed, promised>>
    BY DEF KeyError
  <1>2. Unread(s) = << >>
    <2>1. /\ queue \in Seq(Packed) /\ Len(queue) \in Nat
          /\ Place(s) \in 0 .. Len(queue) /\ Place(s) = Len(queue)
      BY <1>1 DEF IInv, TypeOK, InOrder, Valid
    <2>2. Unread(s) \in Seq(1 .. MaxPushes) /\ Len(Unread(s)) = 0
      BY <1>1, <2>1, UnreadFields
    <2> QED
      BY <2>2, EmptySeq
  <1>3. \A t \in Subscribers : Unread(t)' = Unread(t)
    BY <1>1 DEF Unread, Live, Place
  <1>4. Live' = Live
    BY <1>1 DEF Live
  <1> DEFINE unread == [t \in Subscribers |-> Unread(t)]
  <1>5. unread[s] = << >> /\ UNCHANGED unread
    BY <1>2, <1>3
  <1>6. unread = [unread EXCEPT ![s] = << >>]
    BY <1>5
  <1>7. Promise!Peek(s, 0) = 0
    BY <1>2 DEF Promise!Peek
  <1>8. Promise!Drop(s)
    BY <1>5, <1>6 DEF Promise!Drop
  <1> QED
    BY <1>1, <1>4, <1>7, <1>8 DEF Promise!Pull

\* pop() takes nothing or the head off the list.
LEMMA ReadNextEffect ==
  ASSUME IInv, NEW s \in Subscribers, ReadNext(s)
  PROVE  \E d \in 0 .. 1 :
           /\ Len(queue') = Len(queue) - d
           /\ index_delta' = index_delta + d
           /\ \A i \in 1 .. Len(queue) - d : queue'[i].msg = queue[i + d].msg
  <1> DEFINE at == Place(s) + 1
  <1>1. /\ queue \in Seq(Packed) /\ Len(queue) \in Nat /\ index_delta \in Int
        /\ at \in 1 .. Len(queue)
    BY ReadNextFrame DEF IInv, TypeOK
  <1>2. CASE queue[at].subs = 1
    <2>1. Place(s) = 0
      <3>1. s \in Live /\ Place(s) < at
        BY <1>1, ReadNextFrame
      <3> QED
        BY <1>1, <1>2, <3>1, LastReaderIsFirst
    <2>2. Clean(queue, 0, 1)
      BY <1>2, <2>1 DEF ReadNext, Pop, LastReader
    <2>3. 1 \in 0 .. Len(queue)
      BY <1>1, <2>1
    <2>4. /\ Len(queue') = Len(queue) - 1 /\ index_delta' = index_delta + 1
          /\ \A i \in 1 .. Len(queue) - 1 : queue'[i] = queue[i + 1]
      BY <1>1, <2>2, <2>3, CleanHead
    <2>5. \A i \in 1 .. Len(queue) - 1 : queue'[i].msg = queue[i + 1].msg
      BY <2>4
    <2> WITNESS 1 \in 0 .. 1
    <2> QED
      BY <2>4, <2>5
  <1>3. CASE queue[at].subs # 1
    <2>1. queue' = [queue EXCEPT ![at] = Read(queue[at])] /\ UNCHANGED index_delta
      BY <1>3 DEF ReadNext, Pop, LastReader
    <2> HIDE DEF at
    <2>2. Len(queue') = Len(queue)
      BY <1>1, <2>1
    <2>3. \A i \in 1 .. Len(queue) :
            queue'[i] = IF i = at THEN Read(queue[at]) ELSE queue[i]
      BY <1>1, <2>1
    <2>4. \A i \in 1 .. Len(queue) : queue'[i].msg = queue[i].msg
      BY <2>3 DEF Read, Pack
    <2>5. \A i \in 1 .. Len(queue) - 0 : i + 0 = i
      BY <1>1
    <2>6. Len(queue) - 0 = Len(queue) /\ index_delta + 0 = index_delta
      BY <1>1
    <2>7. \A i \in 1 .. Len(queue) - 0 : queue'[i].msg = queue[i + 0].msg
      BY <2>4, <2>5, <2>6
    <2> WITNESS 0 \in 0 .. 1
    <2> QED
      BY <2>1, <2>2, <2>6, <2>7
  <1> QED
    BY <1>2, <1>3

\* next() is a pull(): the answer is the first message s has to read, and
\* nobody else loses one.
LEMMA ReadNextStep ==
  ASSUME IInv, IInv', NEW s \in Subscribers, ReadNext(s)
  PROVE  Promise!Pull(s)
  <1>0. /\ s \in Live /\ Live' = Live
        /\ Place(s) \in 0 .. Len(queue) - 1
        /\ msg_index' = [msg_index EXCEPT ![s] = @ + 1]
        /\ answer' = [answer EXCEPT ![s] = queue[Place(s) + 1].msg]
        /\ UNCHANGED <<subscribers, pushed>>
    BY ReadNextFrame
  <1>1. PICK d \in 0 .. 1 :
          /\ Len(queue') = Len(queue) - d
          /\ index_delta' = index_delta + d
          /\ \A i \in 1 .. Len(queue) - d : queue'[i].msg = queue[i + d].msg
    BY ReadNextEffect
  <1>2. /\ queue \in Seq(Packed) /\ queue' \in Seq(Packed) /\ Len(queue) \in Nat
        /\ index_delta \in Int
        /\ msg_index \in [Subscribers -> 0 .. MaxPushes \union {NoIndex}]
        /\ \A t \in Live : /\ Place(t) \in 0 .. Len(queue)
                           /\ Place(t)' \in 0 .. Len(queue')
                           /\ msg_index[t] \in Int
    <2>1. TypeOK /\ TypeOK' /\ InOrder /\ InOrder'
      BY DEF IInv
    <2>2. /\ queue \in Seq(Packed) /\ queue' \in Seq(Packed) /\ Len(queue) \in Nat
          /\ index_delta \in Int
          /\ msg_index \in [Subscribers -> 0 .. MaxPushes \union {NoIndex}]
      BY <2>1 DEF TypeOK
    <2>3. ASSUME NEW t \in Live
          PROVE  Place(t) \in 0 .. Len(queue) /\ Place(t)' \in 0 .. Len(queue')
      BY <1>0, <2>1 DEF InOrder
    <2>4. ASSUME NEW t \in Live PROVE msg_index[t] \in Int
      BY <2>2 DEF Live
    <2> QED
      BY <2>2, <2>3, <2>4
  <1>3. ASSUME NEW t \in Subscribers, t # s PROVE Unread(t)' = Unread(t)
    <2>1. CASE t \in Live
      <3>1. msg_index'[t] = msg_index[t]
        BY <1>0, <1>2, <1>3
      <3>2. Place(t)' = Place(t) - d
        BY <1>1, <1>2, <2>1, <3>1 DEF Place
      <3>3. TypeOK /\ TypeOK' /\ InOrder /\ InOrder' /\ t \in Live' /\ d \in Nat
        BY <1>0, <2>1 DEF IInv
      <3> QED
        BY <1>1, <2>1, <3>2, <3>3, ShiftKeepsUnread
    <2>2. CASE t \notin Live
      BY <1>0, <2>2 DEF Unread
    <2> QED
      BY <2>1, <2>2
  <1>4. /\ Unread(s) \in Seq(1 .. MaxPushes)
        /\ Len(Unread(s)) = Len(queue) - Place(s)
        /\ \A i \in 1 .. Len(queue) - Place(s) : Unread(s)[i] = queue[Place(s) + i].msg
    BY <1>0, <1>2, UnreadFields
  <1>5. Unread(s) # << >> /\ Promise!Peek(s, 0) = queue[Place(s) + 1].msg
    <2>1. Len(Unread(s)) > 0 /\ Unread(s)[1] = queue[Place(s) + 1].msg
      BY <1>0, <1>2, <1>4
    <2>2. Unread(s) # << >>
      BY <2>1, EmptySeq
    <2> QED
      BY <2>1, <2>2 DEF Promise!Peek
  <1>6. Unread(s)' = Tail(Unread(s))
    <2> DEFINE n == Len(queue) - Place(s) - 1
    <2>1. Place(s)' = Place(s) + 1 - d
      <3>1. msg_index'[s] = msg_index[s] + 1 /\ msg_index[s] \in Int
        BY <1>0, <1>2
      <3> QED
        BY <1>1, <1>2, <3>1 DEF Place
    <2>2. Unread(s)' = [i \in 1 .. n |-> queue'[Place(s)' + i].msg]
      <3>1. Unread(s)' = [i \in 1 .. Len(queue') - Place(s)' |-> queue'[Place(s)' + i].msg]
        BY <1>0 DEF Unread
      <3>2. Len(queue') - Place(s)' = n
        <4>1. /\ Len(queue) \in Nat /\ Place(s) \in Int /\ d \in 0 .. 1
              /\ Len(queue') = Len(queue) - d /\ Place(s)' = Place(s) + 1 - d
          BY <1>0, <1>1, <1>2, <2>1
        <4> QED
          BY ONLY <4>1
      <3> QED
        BY <3>1, <3>2
    <2>3. /\ Tail(Unread(s)) \in Seq(1 .. MaxPushes)
          /\ Len(Tail(Unread(s))) = n
          /\ \A i \in 1 .. n : Tail(Unread(s))[i] = Unread(s)[i + 1]
      BY <1>2, <1>4, <1>5, HeadTailProperties
    <2>4. ASSUME NEW i \in 1 .. n
          PROVE  Tail(Unread(s))[i] = queue'[Place(s)' + i].msg
      <3>1. i + 1 \in 1 .. Len(queue) - Place(s)
        BY <1>0, <1>2
      <3>2. Tail(Unread(s))[i] = queue[Place(s) + (i + 1)].msg
        BY <1>4, <2>3, <3>1
      <3>3. Place(s)' + i \in 1 .. Len(queue) - d
        <4>1. /\ Len(queue) \in Nat /\ Place(s) \in 0 .. Len(queue) - 1 /\ d \in 0 .. 1
              /\ i \in 1 .. Len(queue) - Place(s) - 1 /\ Place(s)' = Place(s) + 1 - d
              /\ Place(s)' >= 0
          BY <1>0, <1>2, <2>1
        <4> QED
          BY ONLY <4>1
      <3>4. queue'[Place(s)' + i].msg = queue[(Place(s)' + i) + d].msg
        BY <1>1, <3>3
      <3>5. (Place(s)' + i) + d = Place(s) + (i + 1)
        BY <1>0, <1>2, <2>1
      <3> QED
        BY <3>2, <3>4, <3>5
    <2>5. n \in Nat
      BY <1>0, <1>2
    <2> DEFINE rest == Tail(Unread(s))
               left == [i \in 1 .. n |-> queue'[Place(s)' + i].msg]
    <2>6. rest \in Seq(1 .. MaxPushes) /\ Len(rest) = n
      BY <2>3
    <2>7. /\ left = [i \in 1 .. n |-> left[i]]
          /\ \A i \in 1 .. n : left[i] = rest[i]
      BY <2>4
    <2>8. Unread(s)' = left
      BY <2>2
    <2> HIDE DEF n, rest, left
    <2>9. rest = [i \in 1 .. n |-> rest[i]]
      BY <2>5, <2>6
    <2>10. rest = left
      BY <2>7, <2>9
    <2> QED
      BY <2>8, <2>10 DEF rest
  <1>7. Promise!Drop(s)
    BY <1>3, <1>5, <1>6 DEF Promise!Drop
  <1> QED
    BY <1>0, <1>5, <1>7 DEF Promise!Pull

LEMMA UnsubscribeStep ==
  ASSUME IInv, IInv', NEW s \in Subscribers, Unsubscribe(s)
  PROVE  Promise!Unsubscribe(s)
  <1>1. /\ s \in Live /\ msg_index' = [msg_index EXCEPT ![s] = NoIndex]
        /\ UNCHANGED <<pushed, answer>>
    BY DEF Unsubscribe
  <1>2. /\ msg_index \in [Subscribers -> 0 .. MaxPushes \union {NoIndex}]
        /\ index_delta \in Int /\ \A t \in Live : msg_index[t] \in Int
    BY DEF IInv, TypeOK, Live
  <1>3. Live' = Live \ {s}
    BY <1>1, <1>2 DEF Live
  <1>4. PICK d \in 0 .. Len(queue) : Unsubscribed(s, d)
    BY UnsubscribeEffect
  <1>5. ASSUME NEW t \in Subscribers, t # s PROVE Unread(t)' = Unread(t)
    <2>1. CASE t \in Live
      <3>1. msg_index'[t] = msg_index[t]
        BY <1>1, <1>2, <1>5
      <3>2. d \in Nat /\ index_delta' = index_delta + d
        BY <1>4 DEF Unsubscribed
      <3>3. Place(t)' = Place(t) - d
        BY <1>2, <2>1, <3>1, <3>2 DEF Place
      <3>4. TypeOK /\ TypeOK' /\ InOrder /\ InOrder' /\ t \in Live'
        BY <1>3, <1>5, <2>1 DEF IInv
      <3>5. /\ Len(queue') = Len(queue) - d
            /\ \A i \in 1 .. Len(queue) - d : queue'[i].msg = queue[i + d].msg
        BY <1>4 DEF Unsubscribed
      <3> QED
        BY <2>1, <3>2, <3>3, <3>4, <3>5, ShiftKeepsUnread
    <2>2. CASE t \notin Live
      BY <1>3, <2>2 DEF Unread
    <2> QED
      BY <2>1, <2>2
  <1>6. Unread(s)' = << >>
    BY <1>3 DEF Unread
  <1> QED
    BY <1>1, <1>3, <1>5, <1>6 DEF Promise!Unsubscribe

\* Calls that change neither the list, nor a place, nor an answer.
LEMMA StutterStep ==
  ASSUME UNCHANGED <<queue, index_delta, msg_index, pushed, answer>>
  PROVE  UNCHANGED Promise!vars
  BY DEF Promise!vars, Unread, Live, Place

LEMMA PromiseStep == IInv /\ IInv' /\ [Next]_vars => [Promise!Next]_(Promise!vars)
  <1> SUFFICES ASSUME IInv, IInv', [Next]_vars
               PROVE  Promise!Next \/ UNCHANGED Promise!vars
    OBVIOUS
  <1>1. CASE Push
    BY <1>1, PushStep DEF Promise!Next
  <1>2. ASSUME NEW s \in Subscribers, Subscribe(s) PROVE Promise!Next
    BY <1>2, SubscribeStep DEF Promise!Next
  <1>3. ASSUME NEW s \in Subscribers, HasNext(s) PROVE UNCHANGED Promise!vars
    BY <1>3, StutterStep DEF HasNext
  <1>4. ASSUME NEW s \in Subscribers, KeyError(s) PROVE Promise!Next
    BY <1>4, KeyErrorStep DEF Promise!Next
  <1>5. ASSUME NEW s \in Subscribers, ReadNext(s) PROVE Promise!Next
    BY <1>5, ReadNextStep DEF Promise!Next
  <1>6. ASSUME NEW s \in Subscribers, Unsubscribe(s) PROVE Promise!Next
    BY <1>6, UnsubscribeStep DEF Promise!Next
  <1>7. CASE UNCHANGED vars
    BY <1>7, StutterStep DEF vars
  <1> QED
    BY <1>1, <1>2, <1>3, <1>4, <1>5, <1>6, <1>7 DEF Next

LEMMA PromiseInit == Init => Promise!Init
  BY DEF Init, Promise!Init, Live, Unread

(* The queue implements Multicast: every subscriber gets the messages that *)
(* were pushed while it was subscribed, in order and once, whoever comes   *)
(* and leaves meanwhile.                                                   *)
THEOREM Implementation == Spec => DeliversToAll
  BY PromiseInit, PromiseStep, Invariance, PTL DEF Spec, DeliversToAll, Promise!Spec

=============================================================================
