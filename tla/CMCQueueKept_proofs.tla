-------------------------- MODULE CMCQueueKept_proofs --------------------------
(***************************************************************************)
(* Proofs about CMCQueue: no message is freed before every token that is   *)
(* subscribed to it has marked it, oldest_subscribes never goes below      *)
(* zero, and under the interpreter lock nothing that everybody has gone    *)
(* past is left in the list.  They need the history of the subscriptions,  *)
(* which the queue does not keep: the invariant says that there is one     *)
(* that explains what is in the items and in the counter.  The last part   *)
(* is the refinement: from Python, CMCQueue implements Multicast.          *)
(***************************************************************************)
EXTENDS CMCQueue_proofs

USE ProcsAssumption, BoundsAssumption
-----------------------------------------------------------------------------
(* The invariant.                                                          *)

\* What was or is about to be removed.
Cleared == IF \E t \in Tokens : pc[t] = "reduce" THEN removed + 1 ELSE removed
Passed == \A t \in Tokens : Live(t) => \A k \in 1 .. Cleared : IsPayload(k) => k <= Pos(t)

(* Why no message is freed too early.  M[k] are the tokens subscribed right *)
(* after item k was appended, R[k] the ones that have marked item k.        *)
Changes(M, k) ==
  \/ items[k].type = "payload" /\ M[k] = M[k - 1]
  \/ /\ items[k].type = "subscription"
     /\ \E t \in Tokens : t \notin M[k - 1] /\ M[k] = M[k - 1] \union {t}
  \/ /\ items[k].type = "unsubscription"
     /\ \E t \in Tokens : t \in M[k - 1] /\ M[k] = M[k - 1] \ {t}
History(M) == /\ M \in [Nat -> SUBSET Tokens] /\ M[0] = {}
              /\ \A k \in 1 .. Len(items) : Changes(M, k)
              /\ \A k \in 0 .. Len(items) : IsFiniteSet(M[k])
              /\ M[Len(items)] = {t \in Tokens : Live(t)}
Marks(M, R) == /\ R \in [Nat -> SUBSET Tokens]
               /\ \A k \in 1 .. Len(items) : /\ R[k] \subseteq M[k - 1] \union M[k]
                                             /\ Cardinality(R[k]) = items[k].reads

\* A token is subscribed and has marked nothing from where it stands; one that
\* is leaving was subscribed up to its last item and has marked none of those
\* that its unsubscription has yet to visit.
Unpassed(M, R, t) ==
  /\ Live(t) => \A j \in Pos(t) .. Len(items) : t \in M[j] /\ t \notin R[j]
  /\ Leaving(t) => /\ t \in M[own[t] - 1]
                   /\ \A j \in From(t) .. own[t] : /\ t \notin R[j]
                                                   /\ j < own[t] => t \in M[j]
Standing(M, R) == \A t \in Tokens : Unpassed(M, R, t)
OldestIs(M) == oldest = Cardinality(M[Cleared])

\* Under the interpreter lock, the marks an item still lacks are those of tokens
\* that have it ahead of them.
Behind(t, k) == (Live(t) /\ Pos(t) <= k) \/ (Leaving(t) /\ From(t) <= k)
Missed(M, R, t, k) == t \in M[k - 1] \union M[k] /\ t \notin R[k]
Caught(M, R) ==
  setup.under_gil =>
    \A t \in Tokens :
      /\ \A k \in 1 .. Len(items) : Missed(M, R, t, k) => Behind(t, k)
      /\ Leaving(t) => \A j \in own[t] .. Len(items) : t \notin M[j]
Explains(M, R) == /\ History(M) /\ Marks(M, R) /\ Standing(M, R) /\ OldestIs(M)
                  /\ Caught(M, R)
Explained == \E M, R : Explains(M, R)

\* Under the interpreter lock, the head of the list is one that has to stay, or
\* somebody who has marked an item is on the way to cleanup() or in it.
Working(p) == \/ pc[p] \in {"mark", "walk", "markOwn", "leave", "ack", "clean", "scan",
                            "reduce", "uncount", "delete", "resume"}
              \/ pc[p] = "load" /\ Marking(p)
              \/ op[p] = "unsubscribe" /\ pc[p] \in {"link", "count"}
Settled == HeadItem = 0 \/ Dirty(HeadItem)
Tidy == setup.under_gil => Settled \/ \E p \in Procs : Working(p)

-----------------------------------------------------------------------------
(* Under the interpreter lock one call runs at a time, up to the           *)
(* destructors: whoever steps finds the others idle or waiting for it.     *)

LockHeld == setup.under_gil =>
              \A p \in Procs : pc[p] \notin {"idle", "resume"} => gil = p
LinksDone == \A k \in 1 .. Len(items) :
               items[k].linked \/ \E p \in Procs : pc[p] = "link" /\ own[p] = k
Appended == \A p \in Procs : pc[p] = "link" =>
              /\ items[own[p]].type = ItemType[op[p]]
              /\ setup.under_gil => own[p] = Len(items)
SomeoneCleans == cleaning => \E p \in Procs : pc[p] \in Cleaning
PushHeard == setup.under_gil => \A p \in Procs : op[p] = "push" => newest > 0
Turns == LockHeld /\ LinksDone /\ Appended /\ SomeoneCleans /\ PushHeard

Locks(p) == setup.under_gil =>
              /\ gil \in {NoProc, p}
              /\ gil' = p \/ (gil' = NoProc /\ pc'[p] \in {"idle", "resume"})

LEMMA StepsLock ==
  ASSUME Shapes, NEW p \in Procs, Step(p)
  PROVE  Locks(p)
  <1>1. ASSUME p \in Publishers, Push(p) PROVE Locks(p)
    BY <1>1 DEF Push, Enter, Goto, Locks, Shapes
  <1>2. ASSUME p \in Tokens, Subscribe(p) PROVE Locks(p)
    BY <1>2 DEF Subscribe, Enter, Goto, Locks, Shapes
  <1>3. ASSUME p \in Tokens, Unsubscribe(p) PROVE Locks(p)
    BY <1>3 DEF Unsubscribe, Enter, Goto, Locks, Shapes
  <1>4. ASSUME p \in Tokens, Pull(p) PROVE Locks(p)
    BY <1>4 DEF Pull, EnterPull, Enter, Goto, Locks, Shapes
  <1>5. ASSUME p \in Tokens, Acknowledge(p) PROVE Locks(p)
    BY <1>5 DEF Acknowledge, EnterPull, Enter, Goto, Locks, Shapes
  <1>6. ASSUME p \in Tokens, LookNext(p) PROVE Locks(p)
    BY <1>6 DEF LookNext, EnterPull, Enter, Goto, Locks, Shapes
  <1>7. ASSUME AppendItem(p) PROVE Locks(p)
    BY <1>7 DEF AppendItem, At, Locks, Shapes
  <1>8. ASSUME Link(p) PROVE Locks(p)
    BY <1>8 DEF Link, At, Locks, Shapes
  <1>9. ASSUME Count(p) PROVE Locks(p)
    BY <1>9 DEF Count, At, Goto, Exit, Locks, Shapes
  <1>10. ASSUME p \in Tokens, MarkItem(p) PROVE Locks(p)
    BY <1>10 DEF MarkItem, At, Using, Locks, Shapes
  <1>11. ASSUME p \in Tokens, Walk(p) PROVE Locks(p)
    BY <1>11 DEF Walk, At, Using, Locks, Shapes
  <1>12. ASSUME p \in Tokens, MarkOwn(p) PROVE Locks(p)
    BY <1>12 DEF MarkOwn, At, Using, Locks, Shapes
  <1>13. ASSUME p \in Tokens, LeaveQueue(p) PROVE Locks(p)
    BY <1>13 DEF LeaveQueue, At, Locks, Shapes
  <1>14. ASSUME p \in Tokens, Load(p) PROVE Locks(p)
    BY <1>14 DEF Load, At, Using, Locks, Shapes
  <1>15. ASSUME p \in Tokens, Ack(p) PROVE Locks(p)
    BY <1>15 DEF Ack, At, Using, Locks, Shapes
  <1>16. ASSUME p \in Tokens, Return(p) PROVE Locks(p)
    BY <1>16 DEF Return, At, Using, Exit, Goto, Locks, Shapes
  <1>17. ASSUME p \in Tokens, CleanEnter(p) PROVE Locks(p)
    BY <1>17 DEF CleanEnter, At, Locks, Shapes
  <1>18. ASSUME p \in Tokens, Scan(p) PROVE Locks(p)
    BY <1>18 DEF Scan, At, Locks, Shapes
  <1>19. ASSUME p \in Tokens, Reduce(p) PROVE Locks(p)
    BY <1>19 DEF Reduce, At, Locks, Shapes
  <1>20. ASSUME p \in Tokens, Uncount(p) PROVE Locks(p)
    BY <1>20 DEF Uncount, At, Locks, Shapes
  <1>21. ASSUME p \in Tokens, Delete(p) PROVE Locks(p)
    BY <1>21 DEF Delete, At, Goto, Locks, Shapes
  <1>22. ASSUME p \in Tokens, Resume(p) PROVE Locks(p)
    BY <1>22 DEF Resume, Goto, Locks, Shapes
  <1>23. ASSUME p \in Tokens, CleanExit(p) PROVE Locks(p)
    BY <1>23 DEF CleanExit, At, Locks, Shapes
  <1> QED
    BY <1>1, <1>2, <1>3, <1>4, <1>5, <1>6, <1>7, <1>8, <1>9, <1>10, <1>11, <1>12, <1>13,
       <1>14, <1>15, <1>16, <1>17, <1>18, <1>19, <1>20, <1>21, <1>22, <1>23 DEF Step,
       AppendStep, CallStep, CleanStep

\* Who cleans goes on until it says so; newest falls only when a token leaves.
Hears(p) == /\ pc[p] \in Cleaning => pc'[p] \in Cleaning \/ ~cleaning'
            /\ cleaning' => cleaning \/ pc'[p] \in Cleaning
            /\ newest' >= newest \/ pc[p] = "leave"
            /\ op'[p] = "push" => op[p] = "push" \/ newest' > 0

LEMMA StepsHear ==
  ASSUME Shapes, NEW p \in Procs, Step(p), ~Still
  PROVE  Hears(p)
  <1> newest \in Int
    BY DEF Shapes
  <1>1. ASSUME p \in Publishers, Push(p) PROVE Hears(p)
    BY <1>1, PushIs DEF Now, shared, Cleaning, Hears, Push
  <1>2. ASSUME p \in Tokens, Subscribe(p) PROVE Hears(p)
    BY <1>2, SubscribeIs DEF Now, shared, Cleaning, Hears
  <1>3. ASSUME p \in Tokens, Unsubscribe(p) PROVE Hears(p)
    BY <1>3, UnsubscribeIs DEF Now, shared, Cleaning, Hears
  <1>4. ASSUME p \in Tokens, Pull(p) PROVE Hears(p)
    BY <1>4, LookIs DEF Now, shared, Cleaning, Hears
  <1>5. ASSUME p \in Tokens, Acknowledge(p) PROVE Hears(p)
    BY <1>5, LookIs DEF Now, shared, Cleaning, Hears
  <1>6. ASSUME p \in Tokens, LookNext(p) PROVE Hears(p)
    BY <1>6, LookIs DEF Now, shared, Cleaning, Hears
  <1>7. ASSUME AppendItem(p) PROVE Hears(p)
    <2>1. newest' = newest /\ cleaning' = cleaning /\ op'[p] = op[p] /\ pc'[p] \notin Cleaning
      BY <1>7, AppendItemIs DEF Now, Cleaning
    <2>2. pc[p] \notin Cleaning
      BY <1>7, AppendItemIs DEF Cleaning
    <2> QED
      BY <2>1, <2>2 DEF Hears
  <1>8. ASSUME Link(p) PROVE Hears(p)
    <2>1. newest' = newest /\ cleaning' = cleaning /\ op'[p] = op[p] /\ pc'[p] \notin Cleaning
      BY <1>8, LinkIs DEF Now, Cleaning
    <2>2. pc[p] \notin Cleaning
      BY <1>8, LinkIs DEF Cleaning
    <2> QED
      BY <2>1, <2>2 DEF Hears
  <1>9. ASSUME Count(p) PROVE Hears(p)
    BY <1>9, CountIs DEF Now, shared, Cleaning, Hears
  <1>10. ASSUME p \in Tokens, MarkItem(p) PROVE Hears(p)
    BY <1>10, MarkItemIs DEF Now, shared, Cleaning, Hears
  <1>11. ASSUME p \in Tokens, Walk(p) PROVE Hears(p)
    BY <1>11, WalkIs DEF Now, shared, Cleaning, Hears
  <1>12. ASSUME p \in Tokens, MarkOwn(p) PROVE Hears(p)
    BY <1>12, MarkOwnIs DEF Now, shared, Cleaning, Hears
  <1>13. ASSUME p \in Tokens, LeaveQueue(p) PROVE Hears(p)
    BY <1>13, LeaveQueueIs DEF Now, shared, Cleaning, Hears
  <1>14. ASSUME p \in Tokens, Load(p) PROVE Hears(p)
    BY <1>14, LoadIs DEF Now, shared, Cleaning, Hears
  <1>15. ASSUME p \in Tokens, Ack(p) PROVE Hears(p)
    BY <1>15, AckIs DEF Now, shared, Cleaning, Hears
  <1>16. ASSUME p \in Tokens, Return(p) PROVE Hears(p)
    BY <1>16, ReturnIs DEF Now, shared, Cleaning, Hears
  <1>17. ASSUME p \in Tokens, CleanEnter(p) PROVE Hears(p)
    BY <1>17, CleanEnterIs DEF Now, shared, Cleaning, Hears
  <1>18. ASSUME p \in Tokens, Scan(p) PROVE Hears(p)
    BY <1>18, ScanIs DEF Now, shared, Cleaning, Hears
  <1>19. ASSUME p \in Tokens, Reduce(p) PROVE Hears(p)
    BY <1>19, ReduceIs DEF Now, shared, Cleaning, Hears
  <1>20. ASSUME p \in Tokens, Uncount(p) PROVE Hears(p)
    BY <1>20, UncountIs DEF Now, shared, Cleaning, Hears
  <1>21. ASSUME p \in Tokens, Delete(p) PROVE Hears(p)
    BY <1>21, DeleteIs DEF Now, shared, Cleaning, Hears
  <1>22. ASSUME p \in Tokens, Resume(p) PROVE Hears(p)
    BY <1>22, ResumeIs DEF Now, shared, Cleaning, Hears
  <1>23. ASSUME p \in Tokens, CleanExit(p) PROVE Hears(p)
    <2>1. newest' = newest /\ ~cleaning' /\ op'[p] = op[p]
      BY <1>23, CleanExitIs DEF Now
    <2> QED
      BY <2>1 DEF Hears
  <1> QED
    BY <1>1, <1>2, <1>3, <1>4, <1>5, <1>6, <1>7, <1>8, <1>9, <1>10, <1>11, <1>12, <1>13,
       <1>14, <1>15, <1>16, <1>17, <1>18, <1>19, <1>20, <1>21, <1>22, <1>23 DEF Step,
       AppendStep, CallStep, CleanStep

LEMMA LockKept == ASSUME Shapes, LockHeld, [Next]_vars PROVE LockHeld'
  <1>1. CASE UNCHANGED vars
    BY <1>1 DEF LockHeld, vars, shared, local
  <1>2. ASSUME NEW p \in Procs, Step(p) PROVE LockHeld'
    <2>1. Locks(p) /\ NoProc \notin Procs
      BY <1>2, StepsLock
    <2>2. setup' = setup /\ \A q \in Procs \ {p} : pc'[q] = pc[q]
      BY <1>2, StepsAlone DEF Alone, Others, Still, shared, local
    <2>3. ASSUME setup.under_gil, NEW q \in Procs, pc'[q] \notin {"idle", "resume"}
          PROVE  gil' = q
      <3>1. CASE q = p
        BY <2>1, <2>3, <3>1 DEF Locks
      <3>2. CASE q # p
        BY <2>1, <2>2, <2>3, <3>2 DEF Locks, LockHeld
      <3> QED
        BY <3>1, <3>2
    <2> QED
      BY <2>2, <2>3 DEF LockHeld
  <1> QED
    BY <1>1, <1>2 DEF Next, Step, Procs

\* The others are idle or wait for the lock.
LEMMA OthersRest ==
  ASSUME Shapes, LockHeld, setup.under_gil, NEW p \in Procs, Step(p), NEW q \in Procs \ {p}
  PROVE  pc[q] \in {"idle", "resume"}
  <1>1. gil \in {NoProc, p} /\ NoProc \notin Procs
    BY StepsLock DEF Locks
  <1> QED
    BY <1>1 DEF LockHeld

LEMMA LinksKept ==
  ASSUME Shapes, Modes, Owns, Positions, LinksDone, [Next]_vars
  PROVE  LinksDone'
  <1>0. Len(items) \in Nat
    BY DEF Shapes
  <1>1. CASE Still
    BY <1>1 DEF LinksDone, Still, shared, local
  <1>2. ASSUME NEW p \in Procs, Step(p), ~Still, Others(p), ~AppendItem(p), ~Link(p)
        PROVE  LinksDone'
    <2>1. SameLinks /\ pc[p] # "link"
      BY <1>2, StepsAreMinor, CountIs, ReduceIs, UncountIs DEF Minor, Major, SameLinks
    <2>2. ASSUME NEW k \in 1 .. Len(items'), ~items'[k].linked
          PROVE  \E q \in Procs : pc'[q] = "link" /\ own'[q] = k
      <3>1. PICK q \in Procs : pc[q] = "link" /\ own[q] = k
        BY <2>1, <2>2 DEF SameLinks, LinksDone
      <3>2. q # p
        BY <2>1, <3>1
      <3> QED
        BY <1>2, <3>1, <3>2 DEF Others
    <2> QED
      BY <2>2 DEF LinksDone
  <1>3. ASSUME NEW p \in Procs, Others(p), AppendItem(p) PROVE LinksDone'
    <2>1. /\ Len(items') = Len(items) + 1
          /\ \A k \in 1 .. Len(items) : items'[k] = items[k]
          /\ pc[p] = "append" /\ pc'[p] = "link" /\ own'[p] = Len(items) + 1
      BY <1>3, AppendItemGrows, AppendItemIs DEF Now
    <2>2. ASSUME NEW k \in 1 .. Len(items'), ~items'[k].linked
          PROVE  \E q \in Procs : pc'[q] = "link" /\ own'[q] = k
      <3>1. CASE k = Len(items) + 1
        BY <2>1, <3>1
      <3>2. CASE k # Len(items) + 1
        <4>1. k \in 1 .. Len(items)
          BY <1>0, <2>1, <3>2
        <4>2. PICK q \in Procs : pc[q] = "link" /\ own[q] = k
          BY <2>1, <2>2, <4>1 DEF LinksDone
        <4>3. q # p
          BY <2>1, <4>2
        <4> QED
          BY <1>3, <4>2, <4>3 DEF Others
      <3> QED
        BY <3>1, <3>2
    <2> QED
      BY <2>2 DEF LinksDone
  <1>4. ASSUME NEW p \in Procs, Others(p), Link(p) PROVE LinksDone'
    <2>1. /\ Len(items') = Len(items) /\ own[p] \in 1 .. Len(items)
          /\ \A j \in 1 .. Len(items) : j # own[p] => items'[j] = items[j]
          /\ items'[own[p]].linked = TRUE
      BY <1>4, LinkLinks
    <2>2. ASSUME NEW k \in 1 .. Len(items'), ~items'[k].linked
          PROVE  \E q \in Procs : pc'[q] = "link" /\ own'[q] = k
      <3>1. k # own[p] /\ ~items[k].linked
        BY <2>1, <2>2
      <3>2. PICK q \in Procs : pc[q] = "link" /\ own[q] = k
        BY <2>1, <3>1 DEF LinksDone
      <3> QED
        BY <1>4, <3>1, <3>2 DEF Others
    <2> QED
      BY <2>2 DEF LinksDone
  <1> QED
    BY <1>1, <1>2, <1>3, <1>4, SomebodySteps, StepsAlone DEF Alone

\* Only an append comes to the store of the link.
LEMMA AppendedKept ==
  ASSUME Shapes, Modes, Owns, Positions, LockHeld, Appended, Grown, [Next]_vars
  PROVE  Appended'
  <1>1. CASE Still
    BY <1>1 DEF Appended, Still, shared, local
  <1>2. ASSUME NEW p \in Procs, Step(p), ~Still, NEW q \in Procs, pc'[q] = "link"
        PROVE  /\ items'[own'[q]].type = ItemType[op'[q]]
               /\ setup'.under_gil => own'[q] = Len(items')
    <2>1. Others(p) /\ setup' = setup
      BY <1>2, StepsAlone DEF Alone
    <2>2. CASE q = p
      <3>1. AppendItem(p)
        BY <1>2, <2>2, StepsAreMinor, LinkIs, CountIs, ReduceIs, UncountIs DEF Minor,
           Major,
           Now
      <3>2. own'[p] = Len(items) + 1 /\ op'[p] = op[p]
        BY <3>1, AppendItemIs DEF Now
      <3>3. Len(items') = Len(items) + 1 /\ items'[Len(items) + 1].type = ItemType[op[p]]
        BY <3>1, AppendItemGrows
      <3> QED
        BY <2>2, <3>2, <3>3
    <2>3. CASE q # p
      <3>1. pc[q] = "link" /\ own'[q] = own[q] /\ op'[q] = op[q]
        BY <1>2, <2>1, <2>3 DEF Others
      <3>2. own[q] \in 1 .. Len(items)
        BY <3>1 DEF Shapes, Pointer, Owns, Holding
      <3>3. ~setup.under_gil
        BY <1>2, <2>3, <3>1, OthersRest
      <3> QED
        BY <2>1, <3>1, <3>2, <3>3 DEF Appended, Grown
    <2> QED
      BY <2>2, <2>3
  <1> QED
    BY <1>1, <1>2, SomebodySteps DEF Appended

LEMMA CleansKept ==
  ASSUME Shapes, SomeoneCleans, OneCleaner, [Next]_vars
  PROVE  SomeoneCleans'
  <1>1. CASE Still
    BY <1>1 DEF SomeoneCleans, Still, shared, local
  <1>2. ASSUME NEW p \in Procs, Others(p), Hears(p), cleaning'
        PROVE  \E q \in Procs : pc'[q] \in Cleaning
    <2>1. CASE pc'[p] \in Cleaning
      BY <2>1
    <2>2. CASE pc'[p] \notin Cleaning
      <3>1. PICK q \in Procs : pc[q] \in Cleaning
        BY <1>2, <2>2 DEF Hears, SomeoneCleans
      <3>2. q # p
        BY <1>2, <2>2, <3>1 DEF Hears
      <3> QED
        BY <1>2, <3>1, <3>2 DEF Others
    <2> QED
      BY <2>1, <2>2
  <1> QED
    BY <1>1, <1>2, SomebodySteps, StepsAlone, StepsHear DEF Alone, SomeoneCleans

LEMMA HeardKept ==
  ASSUME Shapes, Shapes', Modes, LockHeld, PushHeard, [Next]_vars
  PROVE  PushHeard'
  <1>1. CASE Still
    BY <1>1 DEF PushHeard, Still, shared, local
  <1>2. ASSUME NEW p \in Procs, Step(p), ~Still, setup'.under_gil, NEW q \in Procs,
               op'[q] = "push"
        PROVE  newest' > 0
    <2>1. Others(p) /\ Hears(p) /\ setup' = setup
      BY <1>2, StepsAlone, StepsHear DEF Alone
    <2>2. newest \in Int /\ newest' \in Int
      BY DEF Shapes
    <2>3. CASE q = p
      <3>1. op[p] = "push" => pc[p] # "leave"
        BY DEF Modes, ModeOf, Appending
      <3> QED
        BY <1>2, <2>1, <2>2, <2>3, <3>1 DEF Hears, PushHeard
    <2>4. CASE q # p
      <3>1. op[q] = "push"
        BY <1>2, <2>1, <2>4 DEF Others
      <3>2. pc[q] \in Appending
        BY <3>1 DEF Modes, ModeOf
      <3>3. pc[q] \in {"idle", "resume"}
        BY <1>2, <2>1, <2>4, OthersRest
      <3> QED
        BY <3>2, <3>3 DEF Appending
    <2> QED
      BY <2>3, <2>4
  <1> QED
    BY <1>1, <1>2, SomebodySteps DEF PushHeard

LEMMA TurnsKept ==
  ASSUME Shapes, Shapes', Modes, OneCleaner, Owns, Positions, Grown, Turns, [Next]_vars
  PROVE  Turns'
  BY LockKept, LinksKept, AppendedKept, CleansKept, HeardKept DEF Turns

-----------------------------------------------------------------------------
(* Tokens only move on.                                                    *)

Moved(t) == /\ Live(t)' <=> Live(t)
            /\ Live(t) => Pos(t)' >= Pos(t) /\ Pos(t) \in 1 .. Len(items)
            /\ Leaving(t)' => Leaving(t) /\ own'[t] = own[t] /\ From(t)' >= From(t)

\* Most steps leave a token where it stands.
Stays(t) == /\ Live(t)' <=> Live(t)
            /\ Live(t) => Pos(t)' = Pos(t)
            /\ Leaving(t)' <=> Leaving(t)
            /\ Leaving(t) => own'[t] = own[t] /\ From(t)' = From(t)
MarkStep(t) == MarkItem(t) \/ MarkOwn(t) \/ Ack(t)

LEMMA PlacedIn ==
  ASSUME Shapes, Positions, NEW t \in Tokens
  PROVE  /\ Live(t) => Pos(t) \in 1 .. Len(items)
         /\ Leaving(t) => From(t) \in 1 .. own[t] /\ own[t] \in 1 .. Len(items)
         /\ Len(items) \in Nat /\ cur[t] \in Nat /\ own[t] \in Nat
  <1>1. Placed(t) /\ t \in Procs
    BY DEF Positions, Procs
  <1>2. /\ cur[t] \in 0 .. Len(items) /\ own[t] \in 0 .. Len(items)
        /\ last[t] \in 0 .. Len(items)
        /\ Len(items) \in Nat
    BY <1>1 DEF Shapes, Pointer
  <1>3. Pos(t) \in {own[t], cur[t], last[t]}
    BY DEF Pos
  <1>4. Leaving(t) => From(t) \in 1 .. own[t]
    BY <1>1 DEF Placed
  <1>5. Live(t) => Pos(t) > 0
    BY <1>1 DEF Placed
  <1> QED
    BY <1>2, <1>3, <1>4, <1>5

LEMMA StaysMoved == ASSUME Shapes, Positions, NEW t \in Tokens, Stays(t) PROVE Moved(t)
  <1>1. /\ Live(t) => Pos(t) \in 1 .. Len(items)
        /\ Leaving(t) => From(t) \in 1 .. own[t] /\ own[t] \in 1 .. Len(items)
    BY PlacedIn
  <1>2. /\ Live(t) => Pos(t)' >= Pos(t)
        /\ Leaving(t) => From(t)' >= From(t)
    BY <1>1 DEF Stays
  <1> QED
    BY <1>1, <1>2 DEF Stays, Moved

LEMMA OthersMoved ==
  ASSUME Shapes, Positions, NEW p \in Procs, Others(p), setup' = setup,
         NEW t \in Tokens \ {p}, last'[t] = last[t]
  PROVE  /\ Live(t)' <=> Live(t)
         /\ Leaving(t)' <=> Leaving(t)
         /\ Pos(t)' = Pos(t) /\ From(t)' = From(t) /\ own'[t] = own[t]
         /\ Stays(t) /\ Moved(t)
  <1>1. /\ pc'[t] = pc[t] /\ op'[t] = op[t] /\ cur'[t] = cur[t] /\ own'[t] = own[t]
    BY DEF Others, Procs
  <1>2. /\ Live(t)' <=> Live(t)
        /\ Leaving(t)' <=> Leaving(t)
        /\ Pos(t)' = Pos(t) /\ From(t)' = From(t)
    BY <1>1 DEF Live, Leaving, Pos, From, Marking
  <1>3. Stays(t)
    BY <1>1, <1>2 DEF Stays
  <1> QED
    BY <1>1, <1>2, <1>3, StaysMoved

LEMMA LinkStays ==
  ASSUME Shapes, Modes, Owns, Positions, NEW p \in Tokens, Link(p)
  PROVE  Stays(p)
  <1>1. p \in Procs /\ ModeOf(p) /\ setup' = setup
    BY LinkIs DEF Modes, Procs, shared
  <1>2. /\ Live(p) => Pos(p) \in 1 .. Len(items)
        /\ Leaving(p) => From(p) \in 1 .. own[p] /\ own[p] \in 1 .. Len(items)
        /\ cur[p] \in Nat /\ own[p] \in Nat
    BY PlacedIn
  <1>3. /\ pc[p] = "link" /\ pc'[p] = "count" /\ op'[p] = op[p] /\ cur'[p] = cur[p]
        /\ own'[p] = own[p] /\ last'[p] = last[p] /\ setup' = setup
    BY <1>1, LinkIs DEF Now, token
  <1>4. /\ Live(p)' <=> Live(p)
        /\ Leaving(p)' <=> Leaving(p)
        /\ Pos(p)' = Pos(p) /\ From(p)' = From(p)
    BY <1>3 DEF Live, Leaving, Pos, From, Marking, Holding
  <1> QED
    BY <1>2, <1>3, <1>4 DEF Stays

LEMMA CountStays ==
  ASSUME Shapes, Modes, Owns, Positions, NEW p \in Tokens, Count(p)
  PROVE  Stays(p)
  <1>1. p \in Procs /\ ModeOf(p) /\ setup' = setup
    BY CountIs DEF Modes, Procs, shared
  <1>2. /\ Live(p) => Pos(p) \in 1 .. Len(items)
        /\ Leaving(p) => From(p) \in 1 .. own[p] /\ own[p] \in 1 .. Len(items)
        /\ cur[p] \in Nat /\ own[p] \in Nat
    BY PlacedIn
  <1>3. CASE op[p] \in {"push", "subscribe"}
    <2>1. /\ pc[p] = "count" /\ pc'[p] = "idle" /\ op'[p] = "none" /\ op[p] = "subscribe"
          /\ last'[p] = own[p] /\ own[p] # 0
      BY <1>1, <1>3, CountIs DEF Now, ModeOf, Shapes, Owns, Holding, Procs
    <2>2. /\ Live(p) /\ Live(p)' /\ Pos(p) = own[p] /\ Pos(p)' = own[p] /\ ~Leaving(p)'
          /\ ~Leaving(p)
      BY <2>1 DEF Live, Pos, Leaving, Marking
    <2> QED
      BY <1>2, <2>2 DEF Stays
  <1>4. CASE op[p] \notin {"push", "subscribe"}
    <2>1. /\ pc[p] = "count" /\ pc'[p] = "mark" /\ op'[p] = op[p] /\ op[p] = "unsubscribe"
          /\ cur'[p] = cur[p] /\ own'[p] = own[p] /\ last'[p] = last[p]
      BY <1>1, <1>4, CountIs DEF Now, ModeOf, Reading, Finishing, Shapes, Ops
    <2>2. Leaving(p) /\ Leaving(p)' /\ From(p)' = From(p) /\ ~Live(p) /\ ~Live(p)'
      BY <2>1 DEF From, Leaving, Holding, Live
    <2> QED
      BY <1>2, <2>1, <2>2 DEF Stays
  <1> QED
    BY <1>3, <1>4

LEMMA MarkItemMoves ==
  ASSUME Shapes, Modes, Owns, Positions, NEW t \in Tokens, MarkItem(t), ~Still
  PROVE  Moved(t)
  <1>1. t \in Procs /\ ModeOf(t) /\ setup' = setup
    BY MarkItemIs DEF Modes, Procs, shared
  <1>2. /\ Live(t) => Pos(t) \in 1 .. Len(items)
        /\ Leaving(t) => From(t) \in 1 .. own[t] /\ own[t] \in 1 .. Len(items)
        /\ cur[t] \in Nat /\ own[t] \in Nat
    BY PlacedIn
  <1>3. /\ pc[t] = "mark" /\ pc'[t] = "walk" /\ op'[t] = op[t] /\ cur'[t] = cur[t]
        /\ own'[t] = own[t] /\ last'[t] = last[t] /\ setup' = setup
    BY MarkItemIs DEF Now, token
  <1>4. Leaving(t)
    BY <1>3, MarkItemPlaced
  <1>5. /\ ~Live(t) /\ ~Live(t)'
        /\ From(t) = cur[t] /\ From(t)' = cur[t] + 1 /\ cur[t] \in Nat
    BY <1>2, <1>3, <1>4 DEF Live, Leaving, From
  <1> QED
    BY <1>3, <1>4, <1>5 DEF Moved

\* unsubscribe() leaves its loop at its own item or at the end of the list.
LEMMA WalkEnds ==
  ASSUME Shapes, NEW t \in Tokens, Walk(t), pc'[t] = "markOwn", pc[t] = "walk"
  PROVE  NextOf(cur[t]) \in {0, own[t]}
  BY DEF Walk, At, Goto, Using, Shapes, Procs, local

LEMMA WalkMoves ==
  ASSUME Shapes, Modes, Owns, Positions, LockHeld, LinksDone,
         NEW t \in Tokens, Walk(t), ~Still
  PROVE  Moved(t) /\ (setup.under_gil => Stays(t))
  <1>1. t \in Procs /\ ModeOf(t) /\ setup' = setup
    BY WalkIs DEF Modes, Procs, shared
  <1>2. /\ Live(t) => Pos(t) \in 1 .. Len(items)
        /\ Leaving(t) => From(t) \in 1 .. own[t] /\ own[t] \in 1 .. Len(items)
        /\ cur[t] \in Nat /\ own[t] \in Nat
    BY PlacedIn
  <1>3. /\ pc[t] = "walk" /\ op[t] = "unsubscribe" /\ op'[t] = op[t] /\ own'[t] = own[t]
        /\ pc'[t] \in {"mark", "markOwn"}
        /\ pc'[t] = "mark" => NextOf(cur[t]) # 0 /\ cur'[t] = NextOf(cur[t])
    BY <1>1, WalkIs DEF Now, token, ModeOf, Appending, Reading, Finishing, Shapes, Ops
  <1>4. Leaving(t) /\ Leaving(t)' /\ ~Live(t) /\ ~Live(t)'
    BY <1>3 DEF Leaving, Holding, Live
  <1>5. From(t) = cur[t] + 1
    BY <1>3 DEF From
  <1>6. From(t)' \in {cur[t] + 1, own[t]}
    BY <1>3 DEF From, NextOf
  <1>7. From(t) <= own[t] /\ cur[t] \in Nat /\ own[t] \in Nat
    BY <1>2, <1>4, <1>5, PlacedIn
  <1>8. Moved(t)
    BY <1>3, <1>4, <1>5, <1>6, <1>7 DEF Moved
  <1>9. ASSUME setup.under_gil PROVE Stays(t)
    <2>1. cur[t] \in 1 .. own[t] - 1 /\ own[t] \in 1 .. Len(items) /\ Len(items) \in Nat
      BY <1>3, <1>4, PlacedIn DEF Positions, Placed
    <2>2. PICK k \in 1 .. Len(items) : k = cur[t] + 1
      BY <2>1
    <2>3. items[k].linked
      <3>1. SUFFICES ASSUME NEW q \in Procs, pc[q] = "link" PROVE FALSE
        BY DEF LinksDone
      <3>2. q # t
        BY <1>3, <3>1
      <3>3. Step(t)
        BY DEF Step, CallStep
      <3> QED
        BY <1>1, <1>9, <3>1, <3>2, <3>3, OthersRest
    <2>4. NextOf(cur[t]) = cur[t] + 1 /\ NextOf(cur[t]) # 0
      BY <2>1, <2>2, <2>3 DEF NextOf
    <2>5. /\ pc'[t] = "mark" => cur'[t] = cur[t] + 1
          /\ pc'[t] = "markOwn" => own[t] = cur[t] + 1
      BY <1>3, <2>4, WalkEnds
    <2>6. From(t)' = From(t)
      BY <1>3, <1>5, <2>5 DEF From
    <2> QED
      BY <1>3, <1>4, <2>6 DEF Stays
  <1> QED
    BY <1>8, <1>9

LEMMA MarkOwnMoves ==
  ASSUME Shapes, Modes, Owns, Positions, NEW t \in Tokens, MarkOwn(t), ~Still
  PROVE  Moved(t)
  <1>1. t \in Procs /\ ModeOf(t) /\ setup' = setup
    BY MarkOwnIs DEF Modes, Procs, shared
  <1>2. /\ Live(t) => Pos(t) \in 1 .. Len(items)
        /\ Leaving(t) => From(t) \in 1 .. own[t] /\ own[t] \in 1 .. Len(items)
        /\ cur[t] \in Nat /\ own[t] \in Nat
    BY PlacedIn
  <1>3. /\ pc[t] = "markOwn" /\ pc'[t] = "leave" /\ op'[t] = op[t] /\ op[t] = "unsubscribe"
    BY MarkOwnIs, MarkOwnPlaced DEF Now, Leaving
  <1> QED
    BY <1>3 DEF Moved, Live, Leaving, Holding

LEMMA LoadStays ==
  ASSUME Shapes, Modes, Owns, Positions, NEW t \in Tokens, Load(t), ~Still
  PROVE  Stays(t)
  <1>1. t \in Procs /\ ModeOf(t) /\ setup' = setup
    BY LoadIs DEF Modes, Procs, shared
  <1>2. /\ Live(t) => Pos(t) \in 1 .. Len(items)
        /\ Leaving(t) => From(t) \in 1 .. own[t] /\ own[t] \in 1 .. Len(items)
        /\ cur[t] \in Nat /\ own[t] \in Nat
    BY PlacedIn
  <1>3. /\ pc[t] = "load" /\ op[t] \in Reading /\ op'[t] = op[t] /\ setup' = setup
        /\ last'[t] = last[t] /\ last[t] # 0
        /\ Marking(t) => cur'[t] = cur[t]
    BY <1>1, LoadIs DEF Now, token, shared, ModeOf, Appending, Reading, Finishing, Shapes,
       Ops
  <1>4. /\ Live(t) /\ Live(t)' /\ ~Leaving(t) /\ ~Leaving(t)' /\ Pos(t)' = Pos(t)
    BY <1>3 DEF Live, Leaving, Pos, Marking, Reading
  <1> QED
    BY <1>2, <1>4 DEF Stays

LEMMA AckMoves ==
  ASSUME Shapes, Modes, Owns, Positions, NEW t \in Tokens, Ack(t), ~Still
  PROVE  Moved(t)
  <1>1. t \in Procs /\ ModeOf(t) /\ setup' = setup
    BY AckIs DEF Modes, Procs, shared
  <1>2. /\ Live(t) => Pos(t) \in 1 .. Len(items)
        /\ Leaving(t) => From(t) \in 1 .. own[t] /\ own[t] \in 1 .. Len(items)
        /\ cur[t] \in Nat /\ own[t] \in Nat
    BY PlacedIn
  <1>3. /\ pc[t] = "ack" /\ op'[t] = op[t] /\ setup' = setup /\ last'[t] = last[t]
    BY AckIs DEF Now, token
  <1>4. /\ op[t] \in {"pull", "acknowledge"} /\ Marking(t) /\ last[t] # 0
        /\ cur[t] \in 1 .. Len(items) - 1 /\ nxt[t] = cur[t] + 1
    BY <1>3, AckPlaced
  <1>5. cur'[t] = cur[t] + 1
    BY <1>4, AckIs DEF Now
  <1>6. Marking(t)' /\ Live(t) /\ Live(t)' /\ ~Leaving(t)'
    BY <1>3, <1>4 DEF Marking, Live, Leaving
  <1>7. Pos(t) = cur[t] /\ Pos(t)' = cur[t] + 1
    BY <1>3, <1>4, <1>5, <1>6 DEF Pos
  <1> QED
    BY <1>2, <1>4, <1>6, <1>7 DEF Moved

LEMMA ReturnStays ==
  ASSUME Shapes, Modes, Owns, Positions, NEW t \in Tokens, Return(t), ~Still
  PROVE  Stays(t)
  <1>1. t \in Procs /\ ModeOf(t) /\ setup' = setup
    BY ReturnIs DEF Modes, Procs, shared
  <1>2. /\ Live(t) => Pos(t) \in 1 .. Len(items)
        /\ Leaving(t) => From(t) \in 1 .. own[t] /\ own[t] \in 1 .. Len(items)
        /\ cur[t] \in Nat /\ own[t] \in Nat
    BY PlacedIn
  <1>3. /\ pc[t] = "return" /\ pc'[t] = "idle" /\ op'[t] = "none"
        /\ op[t] \in {"unsubscribe", "pull", "acknowledge", "next"}
        /\ op[t] = "unsubscribe" => last'[t] = 0
        /\ op[t] \in {"pull", "acknowledge"} => last'[t] = IF Marking(t) THEN cur[t] ELSE last[t]
        /\ op[t] = "next" => last'[t] = last[t]
    BY ReturnIs DEF Now, Shapes
  <1>4. ~Leaving(t) /\ ~Leaving(t)' /\ Pos(t)' = last'[t] /\ (Live(t)' <=> last'[t] # 0)
    BY <1>3 DEF Leaving, Holding, Pos, Marking, Live
  <1>5. CASE op[t] = "unsubscribe"
    BY <1>3, <1>4, <1>5 DEF Stays, Live
  <1>6. CASE op[t] # "unsubscribe"
    <2>1. last[t] # 0 /\ Live(t)
      BY <1>1, <1>3, <1>6 DEF ModeOf, Reading, Live
    <2>2. Pos(t) = last'[t] /\ last'[t] # 0
      BY <1>2, <1>3, <1>6, <2>1 DEF Pos, Marking
    <2> QED
      BY <1>2, <1>4, <2>1, <2>2 DEF Stays
  <1> QED
    BY <1>5, <1>6

LEMMA StillStays == ASSUME Shapes, Positions, Still PROVE \A t \in Tokens : Stays(t)
  BY DEF Still, shared, local, token, Live, Leaving, Pos, From, Marking, Stays

Goes(p) == \/ Stays(p) \/ AppendItem(p)
           \/ Moved(p) /\ (setup.under_gil => Stays(p) \/ MarkStep(p))

LEMMA StepMoves ==
  ASSUME Shapes, Modes, Owns, Positions, LockHeld, LinksDone,
         NEW p \in Procs, Step(p), ~Still, p \in Tokens
  PROVE  Goes(p)
  <1>a. ModeOf(p)
    BY DEF Modes
  <1>1. ASSUME p \in Publishers, Push(p) PROVE Goes(p)
    BY <1>1, ProcsAssumption
  <1>2. ASSUME p \in Tokens, Subscribe(p) PROVE Goes(p)
    BY <1>2, <1>a, SubscribeIs DEF Goes, Stays, Pos, Now, Live, Leaving, From, Holding,
       Marking, Reading, shared, token, ModeOf, Appending, Finishing, Shapes, Ops
  <1>3. ASSUME p \in Tokens, Unsubscribe(p) PROVE Goes(p)
    BY <1>3, <1>a, UnsubscribeIs DEF Goes, Stays, Pos, Now, Live, Leaving, From, Holding,
       Marking, Reading, shared, token, ModeOf, Appending, Finishing, Shapes, Ops
  <1>4. ASSUME p \in Tokens, Pull(p) PROVE Goes(p)
    BY <1>4, <1>a, LookIs DEF Goes, Stays, Pos, Now, Live, Leaving, From, Holding,
       Marking,
       Reading, shared, token, ModeOf, Appending, Finishing, Shapes, Ops
  <1>5. ASSUME p \in Tokens, Acknowledge(p) PROVE Goes(p)
    BY <1>5, <1>a, LookIs DEF Goes, Stays, Pos, Now, Live, Leaving, From, Holding,
       Marking,
       Reading, shared, token, ModeOf, Appending, Finishing, Shapes, Ops
  <1>6. ASSUME p \in Tokens, LookNext(p) PROVE Goes(p)
    BY <1>6, <1>a, LookIs DEF Goes, Stays, Pos, Now, Live, Leaving, From, Holding,
       Marking,
       Reading, shared, token, ModeOf, Appending, Finishing, Shapes, Ops
  <1>7. ASSUME AppendItem(p) PROVE Goes(p)
    BY <1>7 DEF Goes
  <1>8. ASSUME Link(p) PROVE Goes(p)
    BY <1>8, LinkStays DEF Goes
  <1>9. ASSUME Count(p) PROVE Goes(p)
    BY <1>9, CountStays DEF Goes
  <1>10. ASSUME p \in Tokens, MarkItem(p) PROVE Goes(p)
    BY <1>10, MarkItemMoves DEF Goes, MarkStep
  <1>11. ASSUME p \in Tokens, Walk(p) PROVE Goes(p)
    BY <1>11, WalkMoves DEF Goes
  <1>12. ASSUME p \in Tokens, MarkOwn(p) PROVE Goes(p)
    BY <1>12, MarkOwnMoves DEF Goes, MarkStep
  <1>13. ASSUME p \in Tokens, LeaveQueue(p) PROVE Goes(p)
    BY <1>13, <1>a, LeaveQueueIs DEF Goes, Stays, Pos, Now, Live, Leaving, From, Holding,
       Marking, Reading, shared, token, ModeOf, Appending, Finishing, Shapes, Ops
  <1>14. ASSUME p \in Tokens, Load(p) PROVE Goes(p)
    BY <1>14, LoadStays DEF Goes
  <1>15. ASSUME p \in Tokens, Ack(p) PROVE Goes(p)
    BY <1>15, AckMoves DEF Goes, MarkStep
  <1>16. ASSUME p \in Tokens, Return(p) PROVE Goes(p)
    BY <1>16, ReturnStays DEF Goes
  <1>17. ASSUME p \in Tokens, CleanEnter(p) PROVE Goes(p)
    BY <1>17, <1>a, CleanEnterIs DEF Goes, Stays, Pos, Now, Live, Leaving, From, Holding,
       Marking, Reading, shared, token, ModeOf, Appending, Finishing, Shapes, Ops
  <1>18. ASSUME p \in Tokens, Scan(p) PROVE Goes(p)
    BY <1>18, <1>a, ScanIs DEF Goes, Stays, Pos, Now, Live, Leaving, From, Holding,
       Marking,
       Reading, shared, token, ModeOf, Appending, Finishing, Shapes, Ops
  <1>19. ASSUME p \in Tokens, Reduce(p) PROVE Goes(p)
    BY <1>19, <1>a, ReduceIs DEF Goes, Stays, Pos, Now, Live, Leaving, From, Holding,
       Marking,
       Reading, shared, token, ModeOf, Appending, Finishing, Shapes, Ops
  <1>20. ASSUME p \in Tokens, Uncount(p) PROVE Goes(p)
    BY <1>20, <1>a, UncountIs DEF Goes, Stays, Pos, Now, Live, Leaving, From, Holding,
       Marking, Reading, shared, token, ModeOf, Appending, Finishing, Shapes, Ops
  <1>21. ASSUME p \in Tokens, Delete(p) PROVE Goes(p)
    BY <1>21, <1>a, DeleteIs DEF Goes, Stays, Pos, Now, Live, Leaving, From, Holding,
       Marking,
       Reading, shared, token, ModeOf, Appending, Finishing, Shapes, Ops
  <1>22. ASSUME p \in Tokens, Resume(p) PROVE Goes(p)
    BY <1>22, <1>a, ResumeIs DEF Goes, Stays, Pos, Now, Live, Leaving, From, Holding,
       Marking,
       Reading, shared, token, ModeOf, Appending, Finishing, Shapes, Ops
  <1>23. ASSUME p \in Tokens, CleanExit(p) PROVE Goes(p)
    BY <1>23, <1>a, CleanExitIs DEF Goes, Stays, Pos, Now, Live, Leaving, From, Holding,
       Marking, Reading, shared, token, ModeOf, Appending, Finishing, Shapes, Ops
  <1> QED
    BY <1>1, <1>2, <1>3, <1>4, <1>5, <1>6, <1>7, <1>8, <1>9, <1>10, <1>11, <1>12, <1>13,
       <1>14, <1>15, <1>16, <1>17, <1>18, <1>19, <1>20, <1>21, <1>22, <1>23 DEF Step,
       AppendStep, CallStep,
       CleanStep

-----------------------------------------------------------------------------
(* The subscriptions and the marks of every item.                          *)

LEMMA HistoryStays ==
  ASSUME Shapes, NEW M, History(M), Len(items') = Len(items),
         \A k \in 1 .. Len(items) : items'[k].type = items[k].type,
         \A t \in Tokens : Live(t)' <=> Live(t)
  PROVE  History(M)'
  <1>1. M[Len(items')] = {t \in Tokens : Live(t)'}
    BY DEF History
  <1>2. ASSUME NEW k \in 1 .. Len(items) PROVE Changes(M, k)'
    BY <1>2 DEF History, Changes
  <1> QED
    BY <1>1, <1>2 DEF History

LEMMA MarksStay ==
  ASSUME NEW M, NEW R, Marks(M, R), Len(items') = Len(items),
         \A k \in 1 .. Len(items) : items'[k].reads = items[k].reads
  PROVE  Marks(M, R)'
  BY DEF Marks

LEMMA StandsAt ==
  ASSUME Shapes', NEW t \in Tokens
  PROVE  Pos(t)' \in Nat /\ From(t)' \in Nat /\ own'[t] \in Nat
  <1>1. cur'[t] \in Nat /\ own'[t] \in Nat /\ last'[t] \in Nat
    BY DEF Shapes, Pointer, Procs
  <1>2. /\ Pos(t)' \in {own'[t], cur'[t], last'[t]}
        /\ From(t)' \in {own'[t], cur'[t], cur'[t] + 1}
    BY DEF Pos, From
  <1> QED
    BY <1>1, <1>2

LEMMA StandingStays ==
  ASSUME Shapes, Shapes', Positions, NEW M, NEW R, Standing(M, R),
         Len(items') = Len(items), \A t \in Tokens : Moved(t)
  PROVE  Standing(M, R)'
  <1>1. ASSUME NEW t \in Tokens, Live(t)', NEW j \in Pos(t)' .. Len(items')
        PROVE  t \in M[j] /\ t \notin R[j]
    <2>1. Live(t) /\ Pos(t) \in 1 .. Len(items) /\ Pos(t)' >= Pos(t)
      BY <1>1 DEF Moved
    <2>2. Pos(t)' \in Nat /\ Len(items) \in Nat
      BY StandsAt DEF Shapes
    <2>3. j \in Pos(t) .. Len(items)
      BY <1>1, <2>1, <2>2
    <2> QED
      BY <2>1, <2>3 DEF Standing, Unpassed
  <1>2. ASSUME NEW t \in Tokens, Leaving(t)'
        PROVE  /\ t \in M[own'[t] - 1]
               /\ \A j \in From(t)' .. own'[t] : t \notin R[j] /\ (j < own'[t] => t \in M[j])
    <2>1. Leaving(t) /\ own'[t] = own[t] /\ From(t)' >= From(t)
      BY <1>2 DEF Moved
    <2>2. From(t)' \in Nat /\ own[t] \in Nat /\ From(t) \in Nat
      BY <2>1, StandsAt, PlacedIn
    <2>3. /\ t \in M[own[t] - 1]
          /\ \A j \in From(t) .. own[t] : t \notin R[j] /\ (j < own[t] => t \in M[j])
      BY <2>1 DEF Standing, Unpassed
    <2>4. \A j \in From(t)' .. own[t] : j \in From(t) .. own[t]
      BY <2>1, <2>2
    <2> QED
      BY <2>1, <2>3, <2>4
  <1> QED
    BY <1>1, <1>2 DEF Standing, Unpassed

\* Token t marks item k and goes on.
LEMMA MarksGrow ==
  ASSUME Shapes, NEW M, NEW R, History(M), Marks(M, R), NEW k \in 1 .. Len(items), Mark(k),
         NEW t \in Tokens, t \in M[k - 1] \union M[k], t \notin R[k],
         NEW R2, R2 = [R EXCEPT ![k] = R[k] \union {t}]
  PROVE  Marks(M, R2)'
  <1>1. /\ Len(items) \in Nat /\ k \in Nat /\ k - 1 \in 0 .. Len(items)
        /\ k \in 0 .. Len(items)
    BY DEF Shapes
  <1>2. /\ Len(items') = Len(items)
        /\ \A j \in 1 .. Len(items) : j # k => items'[j] = items[j]
        /\ items'[k].reads = items[k].reads + 1
    BY ItemMarked
  <1>3. /\ R[k] \subseteq M[k - 1] \union M[k] /\ Cardinality(R[k]) = items[k].reads
        /\ IsFiniteSet(M[k - 1]) /\ IsFiniteSet(M[k]) /\ R[k] \in SUBSET Tokens
    BY <1>1 DEF Marks, History
  <1>4. IsFiniteSet(M[k - 1] \union M[k])
    BY <1>3, FS_Union
  <1>5. IsFiniteSet(R[k])
    BY <1>3, <1>4, FS_Subset
  <1>6. Cardinality(R[k] \union {t}) = items[k].reads + 1
    BY <1>3, <1>5, FS_AddElement
  <1>7. /\ R2 \in [Nat -> SUBSET Tokens] /\ R2[k] = R[k] \union {t}
        /\ \A j \in 1 .. Len(items) : j # k => R2[j] = R[j]
    BY <1>1, <1>3 DEF Marks
  <1>8. ASSUME NEW j \in 1 .. Len(items)
        PROVE  /\ R2[j] \subseteq M[j - 1] \union M[j]
               /\ Cardinality(R2[j]) = items'[j].reads
    <2>1. CASE j = k
      BY <1>2, <1>3, <1>6, <1>7, <2>1
    <2>2. CASE j # k
      BY <1>2, <1>7, <2>2 DEF Marks
    <2> QED
      BY <2>1, <2>2
  <1> QED
    BY <1>2, <1>7, <1>8 DEF Marks

LEMMA StandingMarks ==
  ASSUME Shapes, Shapes', Positions, NEW M, NEW R, Standing(M, R), Marks(M, R),
         Len(items') = Len(items), \A t \in Tokens : Moved(t),
         NEW k \in 1 .. Len(items), NEW s \in Tokens,
         Live(s)' => Pos(s)' > k, Leaving(s)' => From(s)' > k,
         NEW R2, R2 = [R EXCEPT ![k] = R[k] \union {s}]
  PROVE  Standing(M, R2)'
  <1>1. Standing(M, R)'
    BY StandingStays
  <1>2. /\ \A j \in Nat : j # k => R2[j] = R[j]
        /\ R2[k] = R[k] \union {s} /\ k \in Nat
    BY DEF Marks, Shapes
  <1>3. ASSUME NEW t \in Tokens, NEW j \in Nat, t # s \/ j > k
        PROVE  t \in R2[j] => t \in R[j]
    BY <1>2, <1>3
  <1>4. ASSUME NEW t \in Tokens PROVE Unpassed(M, R2, t)'
    <2>1. Unpassed(M, R, t)'
      BY <1>1 DEF Standing
    <2>2. Pos(t)' \in Nat /\ From(t)' \in Nat /\ own'[t] \in Nat
      BY StandsAt
    <2>3. ASSUME Live(t)', NEW j \in Pos(t)' .. Len(items')
          PROVE  t \in M[j] /\ t \notin R2[j]
      <3>1. t \in M[j] /\ t \notin R[j]
        BY <2>1, <2>3 DEF Unpassed
      <3>2. j \in Nat /\ (t # s \/ j > k)
        BY <2>2, <2>3, <1>2
      <3> QED
        BY <1>3, <3>1, <3>2
    <2>4. ASSUME Leaving(t)'
          PROVE  /\ t \in M[own'[t] - 1]
                 /\ \A j \in From(t)' .. own'[t] : t \notin R2[j] /\ (j < own'[t] => t \in M[j])
      <3>1. /\ t \in M[own'[t] - 1]
            /\ \A j \in From(t)' .. own'[t] : t \notin R[j] /\ (j < own'[t] => t \in M[j])
        BY <2>1, <2>4 DEF Unpassed
      <3>2. \A j \in From(t)' .. own'[t] : j \in Nat /\ (t # s \/ j > k)
        BY <2>2, <2>4, <1>2
      <3> QED
        BY <1>3, <3>1, <3>2
    <2> QED
      BY <2>3, <2>4 DEF Unpassed
  <1> QED
    BY <1>4 DEF Standing

LEMMA CaughtStays ==
  ASSUME NEW M, NEW R, Caught(M, R), Len(items') = Len(items), setup' = setup,
         setup.under_gil => \A t \in Tokens : Stays(t)
  PROVE  Caught(M, R)'
  BY DEF Caught, Missed, Behind, Stays

LEMMA CaughtMarks ==
  ASSUME Shapes, NEW M, NEW R, Caught(M, R), Marks(M, R),
         Len(items') = Len(items), setup' = setup, NEW k \in 1 .. Len(items), NEW s \in Tokens,
         \A t \in Tokens \ {s} : Stays(t), Leaving(s)' => Leaving(s) /\ own'[s] = own[s],
         own[s] \in Nat,
         \A j \in 1 .. Len(items) : j # k /\ Behind(s, j) =>
                                      Behind(s, j)' \/ (Leaving(s) /\ own[s] < j),
         NEW R2, R2 = [R EXCEPT ![k] = R[k] \union {s}]
  PROVE  Caught(M, R2)'
  <1> SUFFICES ASSUME setup.under_gil, NEW t \in Tokens
               PROVE  /\ \A j \in 1 .. Len(items) : Missed(M, R2, t, j) => Behind(t, j)'
                      /\ Leaving(t)' => \A j \in own'[t] .. Len(items) : t \notin M[j]
    BY DEF Caught, Missed
  <1>0. Len(items) \in Nat
    BY DEF Shapes
  <1>1. /\ R2[k] = R[k] \union {s}
        /\ \A j \in 1 .. Len(items) : j # k => R2[j] = R[j]
    BY <1>0 DEF Marks
  <1>2. /\ \A j \in 1 .. Len(items) : Missed(M, R, t, j) => Behind(t, j)
        /\ Leaving(t) => \A j \in own[t] .. Len(items) : t \notin M[j]
    BY DEF Caught
  <1>3. ASSUME NEW j \in 1 .. Len(items), Missed(M, R2, t, j) PROVE Behind(t, j)'
    <2>1. Missed(M, R, t, j) /\ (t = s => j # k)
      <3>1. CASE j = k
        BY <1>1, <1>3, <3>1 DEF Missed
      <3>2. CASE j # k
        BY <1>1, <1>3, <3>2 DEF Missed
      <3> QED
        BY <3>1, <3>2
    <2>2. Behind(t, j)
      BY <1>2, <2>1
    <2>3. CASE t # s
      BY <2>2, <2>3 DEF Behind, Stays
    <2>4. CASE t = s
      <3>1. SUFFICES ASSUME Leaving(s), own[s] < j PROVE FALSE
        BY <2>1, <2>2, <2>4
      <3>2. j \in own[s] .. Len(items) /\ j - 1 \in own[s] .. Len(items)
        BY <1>0, <3>1
      <3> QED
        BY <1>2, <2>1, <2>4, <3>1, <3>2 DEF Missed
    <2> QED
      BY <2>3, <2>4
  <1>4. ASSUME Leaving(t)', NEW j \in own'[t] .. Len(items) PROVE t \notin M[j]
    <2>1. Leaving(t) /\ own'[t] = own[t]
      BY <1>4 DEF Stays
    <2> QED
      BY <1>2, <1>4, <2>1
  <1> QED
    BY <1>3, <1>4

LEMMA ClearedStays ==
  ASSUME NEW p \in Procs, Others(p), removed' = removed,
         pc'[p] = "reduce" <=> pc[p] = "reduce"
  PROVE  Cleared' = Cleared
  BY DEF Cleared, Others, Procs

LEMMA OldestStays ==
  ASSUME NEW M, OldestIs(M), oldest' = oldest, Cleared' = Cleared
  PROVE  OldestIs(M)'
  BY DEF OldestIs

LEMMA ClearedIn ==
  ASSUME Shapes, HeadIsThere
  PROVE  Cleared \in 0 .. Len(items) /\ Cleared \in {removed, removed + 1}
  BY DEF Shapes, HeadIsThere, Cleared

LEMMA LinkedAll ==
  ASSUME Shapes, NEW k \in 1 .. Len(items), items' = [items EXCEPT ![k].linked = TRUE]
  PROVE  /\ Len(items') = Len(items)
         /\ \A j \in 1 .. Len(items) : /\ items'[j].type = items[j].type
                                       /\ items'[j].reads = items[j].reads
  BY ItemLinked

-----------------------------------------------------------------------------
(* Which steps append, mark and remove.                                    *)

SameReads == /\ Len(items') = Len(items)
             /\ \A k \in 1 .. Len(items) : /\ items'[k].type = items[k].type
                                           /\ items'[k].reads = items[k].reads
Drifts == /\ \A t \in Tokens : Moved(t)
          /\ setup.under_gil => \A t \in Tokens : Stays(t)
Quiet == Cleared' = Cleared /\ oldest' = oldest
Marked(t) == /\ ~Still /\ MarkStep(t) /\ Quiet
             /\ Moved(t) /\ \A u \in Tokens \ {t} : Stays(u)
NextIs == /\ setup' = setup
          /\ \/ \E p \in Procs : AppendItem(p)
             \/ Drifts /\ ((Quiet /\ SameReads) \/ \E t \in Tokens : Scan(t))
             \/ \E t \in Tokens : Marked(t)

\* A step that neither appends nor frees, and marks an item at most.
Steady(p) == /\ oldest' = oldest /\ removed' = removed
             /\ pc'[p] = "reduce" <=> pc[p] = "reduce"
             /\ \/ items' = items \/ Link(p)
                \/ p \in Tokens /\ MarkStep(p)

LEMMA StepsAreSteady ==
  ASSUME Shapes, NEW p \in Procs, Step(p), ~Still
  PROVE  Steady(p) \/ AppendItem(p) \/ (p \in Tokens /\ (Scan(p) \/ Reduce(p)))
  <1>1. ASSUME p \in Publishers, Push(p)
        PROVE  Steady(p) \/ AppendItem(p) \/ (p \in Tokens /\ (Scan(p) \/ Reduce(p)))
    BY <1>1, PushIs DEF Steady, Now, shared
  <1>2. ASSUME p \in Tokens, Subscribe(p)
        PROVE  Steady(p) \/ AppendItem(p) \/ (p \in Tokens /\ (Scan(p) \/ Reduce(p)))
    BY <1>2, SubscribeIs DEF Steady, Now, shared
  <1>3. ASSUME p \in Tokens, Unsubscribe(p)
        PROVE  Steady(p) \/ AppendItem(p) \/ (p \in Tokens /\ (Scan(p) \/ Reduce(p)))
    BY <1>3, UnsubscribeIs DEF Steady, Now, shared
  <1>4. ASSUME p \in Tokens, Pull(p)
        PROVE  Steady(p) \/ AppendItem(p) \/ (p \in Tokens /\ (Scan(p) \/ Reduce(p)))
    BY <1>4, LookIs DEF Steady, Now, shared
  <1>5. ASSUME p \in Tokens, Acknowledge(p)
        PROVE  Steady(p) \/ AppendItem(p) \/ (p \in Tokens /\ (Scan(p) \/ Reduce(p)))
    BY <1>5, LookIs DEF Steady, Now, shared
  <1>6. ASSUME p \in Tokens, LookNext(p)
        PROVE  Steady(p) \/ AppendItem(p) \/ (p \in Tokens /\ (Scan(p) \/ Reduce(p)))
    BY <1>6, LookIs DEF Steady, Now, shared
  <1>7. ASSUME AppendItem(p)
        PROVE  Steady(p) \/ AppendItem(p) \/ (p \in Tokens /\ (Scan(p) \/ Reduce(p)))
    BY <1>7
  <1>8. ASSUME Link(p)
        PROVE  Steady(p) \/ AppendItem(p) \/ (p \in Tokens /\ (Scan(p) \/ Reduce(p)))
    BY <1>8, LinkIs DEF Steady, Now, shared
  <1>9. ASSUME Count(p)
        PROVE  Steady(p) \/ AppendItem(p) \/ (p \in Tokens /\ (Scan(p) \/ Reduce(p)))
    BY <1>9, CountIs DEF Steady, Now, shared
  <1>10. ASSUME p \in Tokens, MarkItem(p)
        PROVE  Steady(p) \/ AppendItem(p) \/ (p \in Tokens /\ (Scan(p) \/ Reduce(p)))
    BY <1>10, MarkItemIs DEF Steady, MarkStep, Now
  <1>11. ASSUME p \in Tokens, Walk(p)
        PROVE  Steady(p) \/ AppendItem(p) \/ (p \in Tokens /\ (Scan(p) \/ Reduce(p)))
    BY <1>11, WalkIs DEF Steady, Now, shared
  <1>12. ASSUME p \in Tokens, MarkOwn(p)
        PROVE  Steady(p) \/ AppendItem(p) \/ (p \in Tokens /\ (Scan(p) \/ Reduce(p)))
    BY <1>12, MarkOwnIs DEF Steady, MarkStep, Now
  <1>13. ASSUME p \in Tokens, LeaveQueue(p)
        PROVE  Steady(p) \/ AppendItem(p) \/ (p \in Tokens /\ (Scan(p) \/ Reduce(p)))
    BY <1>13, LeaveQueueIs DEF Steady, Now, shared
  <1>14. ASSUME p \in Tokens, Load(p)
        PROVE  Steady(p) \/ AppendItem(p) \/ (p \in Tokens /\ (Scan(p) \/ Reduce(p)))
    BY <1>14, LoadIs DEF Steady, Now, shared
  <1>15. ASSUME p \in Tokens, Ack(p)
        PROVE  Steady(p) \/ AppendItem(p) \/ (p \in Tokens /\ (Scan(p) \/ Reduce(p)))
    BY <1>15, AckIs DEF Steady, MarkStep, Now
  <1>16. ASSUME p \in Tokens, Return(p)
        PROVE  Steady(p) \/ AppendItem(p) \/ (p \in Tokens /\ (Scan(p) \/ Reduce(p)))
    BY <1>16, ReturnIs DEF Steady, Now, shared
  <1>17. ASSUME p \in Tokens, CleanEnter(p)
        PROVE  Steady(p) \/ AppendItem(p) \/ (p \in Tokens /\ (Scan(p) \/ Reduce(p)))
    BY <1>17, CleanEnterIs DEF Steady, Now, shared
  <1>18. ASSUME p \in Tokens, Scan(p)
        PROVE  Steady(p) \/ AppendItem(p) \/ (p \in Tokens /\ (Scan(p) \/ Reduce(p)))
    BY <1>18
  <1>19. ASSUME p \in Tokens, Reduce(p)
        PROVE  Steady(p) \/ AppendItem(p) \/ (p \in Tokens /\ (Scan(p) \/ Reduce(p)))
    BY <1>19
  <1>20. ASSUME p \in Tokens, Uncount(p)
        PROVE  Steady(p) \/ AppendItem(p) \/ (p \in Tokens /\ (Scan(p) \/ Reduce(p)))
    BY <1>20, UncountIs DEF Steady, Now, shared
  <1>21. ASSUME p \in Tokens, Delete(p)
        PROVE  Steady(p) \/ AppendItem(p) \/ (p \in Tokens /\ (Scan(p) \/ Reduce(p)))
    BY <1>21, DeleteIs DEF Steady, Now, shared
  <1>22. ASSUME p \in Tokens, Resume(p)
        PROVE  Steady(p) \/ AppendItem(p) \/ (p \in Tokens /\ (Scan(p) \/ Reduce(p)))
    BY <1>22, ResumeIs DEF Steady, Now, shared
  <1>23. ASSUME p \in Tokens, CleanExit(p)
        PROVE  Steady(p) \/ AppendItem(p) \/ (p \in Tokens /\ (Scan(p) \/ Reduce(p)))
    BY <1>23, CleanExitIs DEF Steady, Now, shared
  <1> QED
    BY <1>1, <1>2, <1>3, <1>4, <1>5, <1>6, <1>7, <1>8, <1>9, <1>10, <1>11, <1>12, <1>13,
       <1>14, <1>15, <1>16, <1>17, <1>18, <1>19, <1>20, <1>21, <1>22, <1>23 DEF Step,
       AppendStep, CallStep, CleanStep

LEMMA StepIs ==
  ASSUME Shapes, Modes, OneCleaner, Owns, Positions, LockHeld, LinksDone,
         NEW p \in Procs, Step(p), ~Still
  PROVE  NextIs
  <1>1. /\ Others(p) /\ setup' = setup
        /\ \A t \in Tokens \ {p} : Stays(t) /\ Moved(t)
    BY StepsAlone, OthersMoved DEF Alone
  <1>2. p \in Tokens => Goes(p)
    BY StepMoves
  <1>3. ASSUME ~AppendItem(p), p \in Tokens => ~MarkStep(p) PROVE Drifts
    BY <1>1, <1>2, <1>3, StaysMoved DEF Drifts, Goes
  <1>4. ASSUME Steady(p), ~AppendItem(p) PROVE NextIs
    <2>1. Quiet
      BY <1>1, <1>4, ClearedStays DEF Steady, Quiet
    <2>2. CASE p \in Tokens /\ MarkStep(p)
      BY <1>1, <1>2, <1>4, <2>1, <2>2, StaysMoved DEF Goes, Marked, NextIs
    <2>3. CASE ~(p \in Tokens /\ MarkStep(p))
      <3>1. Link(p) => SameReads
        BY LinkIs, LinkPlaced, LinkedAll DEF SameReads
      <3>2. items' = items => SameReads
        BY DEF SameReads
      <3> QED
        BY <1>1, <1>3, <1>4, <2>1, <2>3, <3>1, <3>2 DEF Steady, NextIs
    <2> QED
      BY <2>2, <2>3
  <1>5. ASSUME p \in Tokens, Reduce(p) \/ Scan(p), ~AppendItem(p) PROVE NextIs
    <2>1. pc[p] \in {"reduce", "scan"}
      BY <1>5, ReduceIs, ScanIs
    <2>2. ~MarkStep(p)
      BY <2>1 DEF MarkStep, MarkItem, MarkOwn, Ack, At
    <2>3. ASSUME Reduce(p) PROVE Quiet /\ SameReads
      <3>1. /\ pc[p] = "reduce" /\ pc'[p] = "uncount"
            /\ removed' = removed + 1 /\ oldest' = oldest /\ items' = items
        BY <1>5, <2>3, ReduceIs DEF Now
      <3>2. Cleared = removed + 1 /\ Cleared' = removed'
        BY <1>1, <1>5, <3>1 DEF OneCleaner, Cleaning, Cleared, Others, Procs
      <3> QED
        BY <3>1, <3>2 DEF Quiet, SameReads
    <2> QED
      BY <1>1, <1>3, <1>5, <2>2, <2>3 DEF NextIs
  <1> QED
    BY <1>1, <1>4, <1>5, StepsAreSteady DEF NextIs

LEMMA SomethingNext ==
  ASSUME Shapes, Modes, OneCleaner, Owns, Positions, LockHeld, LinksDone, [Next]_vars
  PROVE  NextIs
  <1>1. CASE Still
    <2>1. Quiet /\ SameReads /\ setup' = setup
      BY <1>1 DEF Still, Quiet, SameReads, shared, local, Cleared
    <2>2. Drifts
      BY <1>1, StillStays, StaysMoved DEF Drifts
    <2> QED
      BY <2>1, <2>2 DEF NextIs
  <1> QED
    BY <1>1, StepIs, SomebodySteps

-----------------------------------------------------------------------------
(* The history goes on.                                                    *)

\* An append adds an item that nobody has marked.
LEMMA ExplainedAppends ==
  ASSUME Shapes, Shapes', Modes, Positions, HeadIsThere, LockHeld, Explained, NEW p \in Procs,
         AppendItem(p)
  PROVE  Explained'
  <1> DEFINE n == Len(items) + 1
             now == {t \in Tokens : Live(t)}
             then == CASE op[p] = "push" -> now
                       [] op[p] = "subscribe" -> now \union {p}
                       [] op[p] = "unsubscribe" -> now \ {p}
  <1>1. PICK M, R : Explains(M, R)
    BY DEF Explained
  <1>2. op[p] \in {"push", "subscribe", "unsubscribe"} /\ ModeOf(p)
    BY AppendItemIs DEF Modes, ModeOf, Reading, Finishing, Shapes, Ops
  <1>3. /\ Len(items') = n /\ Len(items) \in Nat /\ n \in Nat
        /\ \A k \in 1 .. Len(items) : items'[k] = items[k]
        /\ items'[n].type = ItemType[op[p]] /\ items'[n].reads = 0
    <2>1. items' = Append(items, [type |-> ItemType[op[p]], reads |-> 0, linked |-> FALSE])
      BY AppendItemIs
    <2>2. op[p] \in {"push", "subscribe", "unsubscribe"}
      BY <1>2
    <2> QED
      BY <2>1, <2>2, ItemsGrow
  <1>4. /\ pc[p] = "append" /\ pc'[p] = "link" /\ op'[p] = op[p] /\ cur'[p] = cur[p]
        /\ own'[p] = n /\ Others(p) /\ setup' = setup /\ last' = last
        /\ oldest' = oldest /\ removed' = removed
    BY AppendItemIs DEF Now, token
  <1>5. ASSUME NEW t \in Tokens \ {p}
        PROVE  /\ Live(t)' <=> Live(t)
               /\ Leaving(t)' <=> Leaving(t)
               /\ Pos(t)' = Pos(t) /\ From(t)' = From(t) /\ own'[t] = own[t]
    BY <1>4, OthersMoved
  <1>6. p \in Tokens => /\ op[p] \in {"subscribe", "unsubscribe"}
                        /\ Live(p) <=> op[p] = "unsubscribe"
                        /\ Live(p)' <=> op[p] = "subscribe"
    BY <1>2, <1>4 DEF ModeOf, Live, Reading
  <1>7. op[p] # "push" => p \in Tokens
    BY <1>2 DEF ModeOf, Procs
  <1>8. /\ now \in SUBSET Tokens /\ then \in SUBSET Tokens /\ M[Len(items)] = now
        /\ IsFiniteSet(now)
    <2>1. M[Len(items)] = now
      BY <1>1 DEF Explains, History
    <2>2. IsFiniteSet(M[Len(items)])
      <3>1. Len(items) \in 0 .. Len(items)
        BY <1>3
      <3> QED
        BY <1>1, <3>1 DEF Explains, History
    <2>3. now \in SUBSET Tokens
      OBVIOUS
    <2>4. then \in SUBSET Tokens
      BY <1>2, <1>7, <2>3
    <2> QED
      BY <2>1, <2>2, <2>3, <2>4
  <1>9. IsFiniteSet(then)
    BY <1>2, <1>8, FS_AddElement, FS_RemoveElement
  <1>10. then = {t \in Tokens : Live(t)'}
    <2>1. \A t \in Tokens \ {p} : t \in then <=> Live(t)'
      BY <1>2, <1>5
    <2>2. p \in Tokens => (p \in then <=> Live(p)')
      BY <1>2, <1>6
    <2> QED
      BY <1>8, <2>1, <2>2
  <1>11. \/ items'[n].type = "payload" /\ then = now
         \/ /\ items'[n].type = "subscription"
            /\ \E t \in Tokens : t \notin now /\ then = now \union {t}
         \/ /\ items'[n].type = "unsubscription"
            /\ \E t \in Tokens : t \in now /\ then = now \ {t}
    <2>1. CASE op[p] = "push"
      BY <1>3, <2>1 DEF ItemType
    <2>2. CASE op[p] = "subscribe"
      <3>1. p \in Tokens /\ p \notin now /\ then = now \union {p}
        BY <1>6, <1>7, <2>2
      <3> HIDE DEF now, then
      <3> QED
        BY <1>3, <2>2, <3>1 DEF ItemType
    <2>3. CASE op[p] = "unsubscribe"
      <3>1. p \in Tokens /\ p \in now /\ then = now \ {p}
        BY <1>6, <1>7, <2>3
      <3> HIDE DEF now, then
      <3> QED
        BY <1>3, <2>3, <3>1 DEF ItemType
    <2> QED
      BY <1>2, <2>1, <2>2, <2>3
  <1>12. PICK M2, R2 : M2 = [M EXCEPT ![n] = then] /\ R2 = [R EXCEPT ![n] = {}]
    OBVIOUS
  <1> HIDE DEF then, now
  <1>13. /\ M2 \in [Nat -> SUBSET Tokens] /\ R2 \in [Nat -> SUBSET Tokens]
         /\ M2[n] = then /\ R2[n] = {}
         /\ \A k \in Nat : k # n => M2[k] = M[k] /\ R2[k] = R[k]
    BY <1>1, <1>3, <1>8, <1>12 DEF Explains, History, Marks
  <1>14. /\ \A k \in 0 .. Len(items) : M2[k] = M[k]
         /\ \A k \in 1 .. Len(items) : R2[k] = R[k]
    <2>1. \A k \in 0 .. Len(items) : k \in Nat /\ k # n
      BY <1>3
    <2> QED
      BY <1>3, <1>13, <2>1
  <1>15. History(M2)'
    <2>1. M2[0] = {} /\ M2[Len(items)] = now
      BY <1>1, <1>3, <1>8, <1>14 DEF Explains, History
    <2>2. ASSUME NEW k \in 1 .. Len(items) PROVE Changes(M2, k)'
      <3>1. M2[k] = M[k] /\ M2[k - 1] = M[k - 1] /\ items'[k] = items[k]
        BY <1>3, <1>14
      <3>2. Changes(M, k)
        BY <1>1 DEF Explains, History
      <3> QED
        BY <3>1, <3>2 DEF Changes
    <2>3. ASSUME NEW k \in Nat, k = n PROVE Changes(M2, k)'
      <3>1. M2[k - 1] = now /\ M2[k] = then
        BY <1>3, <1>13, <2>1, <2>3
      <3>2. items'[k].type = items'[n].type
        BY <2>3
      <3> HIDE DEF n
      <3> QED
        BY <1>11, <3>1, <3>2 DEF Changes
    <2>4. \A k \in 0 .. Len(items) : IsFiniteSet(M2[k])
      BY <1>1, <1>14 DEF Explains, History
    <2>5. \A k \in 1 .. Len(items') : k = n \/ k \in 1 .. Len(items)
      BY <1>3
    <2>6. \A k \in 0 .. Len(items') : k = n \/ k \in 0 .. Len(items)
      BY <1>3
    <2> HIDE DEF n
    <2>7. \A k \in 0 .. Len(items') : IsFiniteSet(M2[k])
      BY <1>9, <1>13, <2>4, <2>6
    <2>8. \A k \in 1 .. Len(items') : Changes(M2, k)'
      BY <1>3, <2>2, <2>3, <2>5
    <2>9. M2[Len(items')] = {t \in Tokens : Live(t)'}
      BY <1>3, <1>10, <1>13
    <2> QED
      BY <1>13, <2>1, <2>7, <2>8, <2>9 DEF History
  <1>16. Marks(M2, R2)'
    <2>1. ASSUME NEW k \in 1 .. Len(items)
          PROVE  /\ R2[k] \subseteq M2[k - 1] \union M2[k]
                 /\ Cardinality(R2[k]) = items'[k].reads
      <3>1. M2[k] = M[k] /\ M2[k - 1] = M[k - 1] /\ items'[k] = items[k] /\ R2[k] = R[k]
        BY <1>3, <1>14
      <3> QED
        BY <1>1, <3>1 DEF Explains, Marks
    <2>2. R2[n] \subseteq M2[n - 1] \union M2[n] /\ Cardinality(R2[n]) = items'[n].reads
      BY <1>3, <1>13, FS_EmptySet
    <2>3. \A k \in 1 .. Len(items') : k = n \/ k \in 1 .. Len(items)
      BY <1>3
    <2> HIDE DEF n
    <2> QED
      BY <1>13, <2>1, <2>2, <2>3 DEF Marks
  <1>17. ASSUME NEW t \in Tokens \ {p} PROVE Unpassed(M2, R2, t)'
    <2>1. Unpassed(M, R, t)
      BY <1>1 DEF Explains, Standing
    <2>2. /\ Live(t) => Pos(t) \in 1 .. Len(items)
          /\ Leaving(t) => From(t) \in 1 .. own[t] /\ own[t] \in 1 .. Len(items)
      BY PlacedIn
    <2>3. ASSUME Live(t), NEW j \in Pos(t) .. Len(items')
          PROVE  t \in M2[j] /\ t \notin R2[j]
      <3>1. CASE j = n
        BY <1>5, <1>10, <1>13, <2>3, <3>1
      <3>2. CASE j # n
        <4>1. j \in Pos(t) .. Len(items) /\ j \in 1 .. Len(items) /\ j \in 0 .. Len(items)
          BY <1>3, <2>2, <2>3, <3>2
        <4> QED
          BY <1>14, <2>1, <2>3, <4>1 DEF Unpassed
      <3> QED
        BY <3>1, <3>2
    <2>4. ASSUME Leaving(t)
          PROVE  /\ t \in M2[own[t] - 1]
                 /\ \A j \in From(t) .. own[t] : t \notin R2[j] /\ (j < own[t] => t \in M2[j])
      <3>1. /\ own[t] - 1 \in 0 .. Len(items)
            /\ \A j \in From(t) .. own[t] : j \in 1 .. Len(items) /\ j \in 0 .. Len(items)
        BY <1>3, <2>2, <2>4
      <3> QED
        BY <1>14, <2>1, <2>4, <3>1 DEF Unpassed
    <2> QED
      BY <1>5, <2>3, <2>4 DEF Unpassed
  <1>18. ASSUME p \in Tokens PROVE Unpassed(M2, R2, p)'
    <2>1. CASE op[p] = "subscribe"
      <3>1. Live(p)' /\ ~Leaving(p)' /\ Pos(p)' = n
        BY <1>4, <1>6, <1>18, <2>1 DEF Leaving, Pos
      <3>2. p \in M2[n] /\ p \notin R2[n]
        BY <1>10, <1>13, <1>18, <3>1
      <3>3. \A j \in n .. Len(items') : j = n
        BY <1>3
      <3> QED
        BY <3>1, <3>2, <3>3 DEF Unpassed
    <2>2. CASE op[p] = "unsubscribe"
      <3>1. Live(p) /\ ~Live(p)' /\ From(p)' = cur[p] /\ own'[p] = n
        BY <1>4, <1>6, <1>18, <2>2 DEF From
      <3>2. Pos(p) = cur[p]
        BY <1>4, <1>18, <2>2 DEF Pos, Marking, Positions, Placed
      <3>3. \A j \in cur[p] .. Len(items) : p \in M[j] /\ p \notin R[j]
        BY <1>1, <1>18, <3>1, <3>2 DEF Explains, Standing, Unpassed
      <3>4. cur[p] \in 1 .. Len(items)
        BY <1>18, <3>1, <3>2, PlacedIn
      <3>5. p \in M2[n - 1]
        <4>1. /\ n - 1 = Len(items) /\ n - 1 \in 0 .. Len(items)
              /\ n - 1 \in cur[p] .. Len(items)
          BY <1>3, <3>4
        <4> QED
          BY <1>14, <3>3, <4>1
      <3>6. ASSUME NEW j \in cur[p] .. n PROVE p \notin R2[j] /\ (j < n => p \in M2[j])
        <4>1. CASE j = n
          BY <1>3, <1>13, <4>1
        <4>2. CASE j # n
          <5>1. j \in cur[p] .. Len(items) /\ j \in 1 .. Len(items) /\ j \in 0 .. Len(items)
            BY <1>3, <3>4, <3>6, <4>2
          <5> QED
            BY <1>14, <3>3, <5>1
        <4> QED
          BY <4>1, <4>2
      <3> HIDE DEF n
      <3> QED
        BY <3>1, <3>5, <3>6 DEF Unpassed
    <2> QED
      BY <1>6, <1>18, <2>1, <2>2
  <1>19. Standing(M2, R2)'
    BY <1>17, <1>18 DEF Standing
  <1>20. OldestIs(M2)'
    <2>1. Cleared' = Cleared
      BY <1>4, ClearedStays
    <2>2. Cleared \in 0 .. Len(items)
      BY ClearedIn
    <2>3. M2[Cleared] = M[Cleared]
      BY <1>14, <2>2
    <2> QED
      BY <1>1, <1>4, <2>1, <2>3 DEF Explains, OldestIs
  <1>21. ASSUME setup.under_gil, NEW t \in Tokens, NEW k \in 1 .. Len(items'),
                Missed(M2, R2, t, k)
         PROVE  Behind(t, k)'
    <2>1. k \in Nat
      BY <1>3
    <2>2. CASE k # n
      <3>1. k \in 1 .. Len(items) /\ k \in 0 .. Len(items) /\ k - 1 \in 0 .. Len(items)
        BY <1>3, <2>2
      <3>2. Missed(M, R, t, k)
        BY <1>14, <1>21, <3>1 DEF Missed
      <3>3. Behind(t, k)
        BY <1>1, <1>21, <3>1, <3>2 DEF Explains, Caught
      <3>4. CASE t # p
        BY <1>5, <3>3, <3>4 DEF Behind
      <3>5. CASE t = p
        <4>1. ~Leaving(p)
          BY <1>4 DEF Leaving, Holding
        <4>2. Live(p) /\ Pos(p) <= k /\ op[p] = "unsubscribe"
          BY <1>6, <3>3, <3>5, <4>1 DEF Behind
        <4>3. Leaving(p)' /\ From(p)' = cur[p]
          BY <1>4, <4>2 DEF Leaving, Holding, From
        <4>4. Pos(p) = cur[p]
          BY <1>4, <3>5, <4>2 DEF Pos, Marking, Positions, Placed
        <4> QED
          BY <3>5, <4>2, <4>3, <4>4 DEF Behind
      <3> QED
        BY <3>4, <3>5
    <2>3. CASE k = n
      <3>1. M2[k] = then /\ M2[k - 1] = now
        <4>1. k - 1 = Len(items) /\ k - 1 \in 0 .. Len(items)
          BY <1>3, <2>3
        <4> QED
          BY <1>8, <1>13, <1>14, <2>3, <4>1
      <3>2. t \in now \/ t \in then
        BY <1>21, <3>1 DEF Missed
      <3>3. CASE t # p
        <4>1. Live(t)' /\ Live(t)
          BY <1>5, <1>10, <3>2, <3>3 DEF now
        <4>2. Pos(t) <= n
          BY <1>3, <4>1, PlacedIn
        <4> QED
          BY <1>5, <2>3, <3>3, <4>1, <4>2 DEF Behind
      <3>4. CASE t = p /\ op[p] = "subscribe"
        <4>1. Live(p)' /\ Pos(p)' = n
          BY <1>4, <1>6, <3>4 DEF Pos
        <4> QED
          BY <1>3, <2>3, <3>4, <4>1 DEF Behind
      <3>5. CASE t = p /\ op[p] = "unsubscribe"
        <4>1. Leaving(p)' /\ From(p)' = cur[p] /\ Pos(p) = cur[p] /\ Live(p)
          BY <1>4, <1>6, <3>5 DEF Leaving, Holding, From, Pos, Marking, Positions, Placed
        <4>2. cur[p] <= n
          BY <1>3, <3>5, <4>1, PlacedIn
        <4> QED
          BY <2>3, <3>5, <4>1, <4>2 DEF Behind
      <3> QED
        BY <1>6, <3>3, <3>4, <3>5
    <2> QED
      BY <2>2, <2>3
  <1>22. ASSUME setup.under_gil, NEW t \in Tokens, Leaving(t)',
                NEW j \in own'[t] .. Len(items')
         PROVE  t \notin M2[j]
    <2>1. CASE t # p
      <3>1. pc[t] \in {"idle", "resume"}
        BY <1>22, <2>1, OthersRest DEF Step, AppendStep, Procs
      <3> QED
        BY <1>5, <1>22, <2>1, <3>1 DEF Leaving, Holding
    <2>2. CASE t = p
      <3>1. op[p] = "unsubscribe"
        BY <1>4, <1>22, <2>2 DEF Leaving
      <3>2. j = n /\ ~Live(p)'
        BY <1>3, <1>4, <1>6, <1>22, <2>2, <3>1
      <3> QED
        BY <1>10, <1>13, <2>2, <3>2
    <2> QED
      BY <2>1, <2>2
  <1>23. Caught(M2, R2)'
    BY <1>4, <1>21, <1>22 DEF Caught, Missed
  <1> QED
    BY <1>15, <1>16, <1>19, <1>20, <1>23 DEF Explains, Explained

\* The next thread to clean takes the head off only if it counts it.
LEMMA ScanCounts ==
  ASSUME Shapes, OneCleaner, NEW M, History(M), OldestIs(M), NEW t \in Tokens, Scan(t)
  PROVE  OldestIs(M)'
  <1>1. pc[t] = "scan" /\ Others(t) /\ t \in Procs /\ removed' = removed
    BY ScanIs DEF Now, Procs
  <1>2. CASE pc'[t] # "reduce"
    <2>1. oldest' = oldest
      BY <1>2, ScanIs DEF Now
    <2>2. Cleared' = Cleared
      BY <1>1, <1>2, ClearedStays
    <2> QED
      BY <2>1, <2>2, OldestStays
  <1>3. CASE pc'[t] = "reduce"
    <2>1. HeadItem # 0 /\ oldest' = oldest + Shift(items[HeadItem].type)
      BY <1>3, ScanIs DEF Now
    <2>2. /\ HeadItem = removed + 1 /\ removed \in Nat /\ Len(items) \in Nat
          /\ removed < Len(items)
      BY <2>1 DEF HeadItem, NextOf, Shapes
    <2>3. Cleared = removed /\ Cleared' = removed + 1
      BY <1>1, <1>3 DEF OneCleaner, Cleaning, Cleared, Procs
    <2>4. PICK k \in Nat : k = removed + 1
      BY <2>2
    <2>5. /\ k \in 1 .. Len(items) /\ k - 1 \in 0 .. Len(items) /\ k - 1 = removed
          /\ k \in 0 .. Len(items)
      BY <2>2, <2>4
    <2>6. Changes(M, k) /\ IsFiniteSet(M[k - 1])
      BY <2>5 DEF History
    <2>7. oldest = Cardinality(M[k - 1]) /\ oldest' = oldest + Shift(items[k].type)
      BY <2>1, <2>2, <2>3, <2>4, <2>5 DEF OldestIs
    <2>8. oldest \in Int
      BY DEF Shapes
    <2>9. oldest' = Cardinality(M[k])
      <3>1. CASE items[k].type = "payload" /\ M[k] = M[k - 1]
        BY <2>7, <2>8, <3>1 DEF Shift
      <3>2. CASE /\ items[k].type = "subscription"
                 /\ \E s \in Tokens : s \notin M[k - 1] /\ M[k] = M[k - 1] \union {s}
        <4>1. Cardinality(M[k]) = Cardinality(M[k - 1]) + 1
          <5>1. PICK s \in Tokens : s \notin M[k - 1] /\ M[k] = M[k - 1] \union {s}
            BY <3>2
          <5> QED
            BY <2>6, <5>1, FS_AddElement
        <4> QED
          BY <2>7, <3>2, <4>1 DEF Shift
      <3>3. CASE /\ items[k].type = "unsubscription"
                 /\ \E s \in Tokens : s \in M[k - 1] /\ M[k] = M[k - 1] \ {s}
        <4>1. Cardinality(M[k]) = Cardinality(M[k - 1]) - 1
          <5>1. PICK s \in Tokens : s \in M[k - 1] /\ M[k] = M[k - 1] \ {s}
            BY <3>3
          <5>2. Cardinality(M[k - 1] \ {s}) = Cardinality(M[k - 1]) - 1
            BY <2>6, <5>1, FS_RemoveElement
          <5> QED
            BY <5>1, <5>2
        <4> QED
          BY <2>7, <2>8, <3>3, <4>1 DEF Shift
      <3> QED
        BY <2>6, <3>1, <3>2, <3>3 DEF Changes
    <2> QED
      BY <2>3, <2>4, <2>9 DEF OldestIs
  <1> QED
    BY <1>2, <1>3

LEMMA ExplainedStays ==
  ASSUME Shapes, Shapes', Positions, Explained, Drifts, setup' = setup,
         Len(items') = Len(items),
         \A k \in 1 .. Len(items) : /\ items'[k].type = items[k].type
                                    /\ items'[k].reads = items[k].reads,
         \A M : History(M) /\ OldestIs(M) => OldestIs(M)'
  PROVE  Explained'
  <1>1. PICK M, R : Explains(M, R)
    BY DEF Explained
  <1>2. \A t \in Tokens : Live(t)' <=> Live(t)
    BY DEF Drifts, Moved
  <1>3. History(M)' /\ OldestIs(M)'
    BY <1>1, <1>2, HistoryStays DEF Explains
  <1>4. Marks(M, R)'
    BY <1>1, MarksStay DEF Explains
  <1>5. Standing(M, R)'
    BY <1>1, StandingStays DEF Drifts, Explains
  <1>6. Caught(M, R)'
    BY <1>1, CaughtStays DEF Drifts, Explains
  <1> QED
    BY <1>3, <1>4, <1>5, <1>6 DEF Explains, Explained

LEMMA ExplainedMarks ==
  ASSUME Shapes, Shapes', Positions, Explained, setup' = setup, Quiet,
         NEW k \in 1 .. Len(items), Mark(k), NEW s \in Tokens,
         Moved(s), \A t \in Tokens \ {s} : Stays(t),
         (Live(s) /\ Pos(s) = k) \/ (Leaving(s) /\ From(s) = k),
         Live(s)' => Pos(s)' > k, Leaving(s)' => From(s)' > k,
         \A j \in 1 .. Len(items) : j # k /\ Behind(s, j) =>
                                      Behind(s, j)' \/ (Leaving(s) /\ own[s] < j)
  PROVE  Explained'
  <1>1. PICK M, R : Explains(M, R)
    BY DEF Explained
  <1>2. /\ Len(items') = Len(items) /\ Len(items) \in Nat
        /\ \A j \in 1 .. Len(items) : items'[j].type = items[j].type
    <2>1. Len(items) \in Nat
      BY DEF Shapes
    <2> QED
      BY <2>1, ItemMarked
  <1>3. Unpassed(M, R, s)
    BY <1>1 DEF Explains, Standing
  <1>4. s \in M[k - 1] \union M[k] /\ s \notin R[k]
    <2>1. CASE Live(s) /\ Pos(s) = k
      <3>1. k \in Pos(s) .. Len(items)
        BY <1>2, <2>1
      <3> QED
        BY <1>3, <2>1, <3>1 DEF Unpassed
    <2>2. CASE Leaving(s) /\ From(s) = k
      <3>1. own[s] \in Nat /\ From(s) \in 1 .. own[s]
        BY <2>2, PlacedIn
      <3>2. k \in From(s) .. own[s] /\ (k < own[s] \/ k = own[s])
        BY <2>2, <3>1
      <3> QED
        BY <1>3, <2>2, <3>2 DEF Unpassed
    <2> QED
      BY <2>1, <2>2
  <1>5. PICK R2 : R2 = [R EXCEPT ![k] = R[k] \union {s}]
    OBVIOUS
  <1>a. \A t \in Tokens : Moved(t)
    BY StaysMoved
  <1>6. Marks(M, R2)'
    BY <1>1, <1>4, <1>5, MarksGrow DEF Explains
  <1>7. Standing(M, R2)'
    BY <1>1, <1>2, <1>5, <1>a, StandingMarks DEF Explains
  <1>8. \A t \in Tokens : Live(t)' <=> Live(t)
    BY <1>a DEF Moved
  <1>9. History(M)'
    BY <1>1, <1>2, <1>8, HistoryStays DEF Explains
  <1>10. OldestIs(M)'
    BY <1>1, OldestStays DEF Explains, Quiet
  <1>11. Caught(M, R2)'
    <2>1. /\ Leaving(s)' => Leaving(s) /\ own'[s] = own[s]
          /\ own[s] \in Nat
      BY PlacedIn DEF Moved
    <2>2. Caught(M, R) /\ Marks(M, R)
      BY <1>1 DEF Explains
    <2> QED
      BY <1>2, <1>5, <2>1, <2>2, CaughtMarks
  <1> QED
    BY <1>6, <1>7, <1>9, <1>10, <1>11 DEF Explains, Explained

LEMMA ExplainedKept ==
  ASSUME Shapes, Shapes', Modes, Owns, OneCleaner, HeadIsThere, Positions, Turns, Explained,
         NextIs
  PROVE  Explained'
  <1>1. CASE \E p \in Procs : AppendItem(p)
    BY <1>1, ExplainedAppends DEF Turns
  <1>2. ASSUME Drifts, setup' = setup, NEW t \in Tokens, Scan(t) PROVE Explained'
    <2>1. SameReads
      BY <1>2, ScanIs DEF SameReads
    <2>2. \A M : History(M) /\ OldestIs(M) => OldestIs(M)'
      BY <1>2, ScanCounts
    <2> QED
      BY <1>2, <2>1, <2>2, ExplainedStays DEF SameReads
  <1>3. CASE Drifts /\ setup' = setup /\ Quiet /\ SameReads
    <2>1. \A M : OldestIs(M) => OldestIs(M)'
      BY <1>3, OldestStays DEF Quiet
    <2> QED
      BY <1>3, <2>1, ExplainedStays DEF SameReads
  <1>4. ASSUME setup' = setup, NEW t \in Tokens, Marked(t) PROVE Explained'
    <2>0. /\ ~Still /\ Quiet /\ Moved(t) /\ \A u \in Tokens \ {t} : Stays(u)
          /\ MarkItem(t) \/ MarkOwn(t) \/ Ack(t)
      BY <1>4 DEF Marked, MarkStep
    <2>1. CASE MarkItem(t)
      <3>1. /\ pc[t] = "mark" /\ pc'[t] = "walk" /\ cur'[t] = cur[t] /\ op'[t] = op[t]
            /\ Mark(cur[t])
        BY <2>0, <2>1, MarkItemIs DEF Now
      <3>2. Leaving(t) /\ From(t) = cur[t] /\ cur[t] \in 1 .. Len(items)
        BY <3>1, MarkItemPlaced DEF From
      <3>3. From(t)' = cur[t] + 1 /\ ~Live(t)' /\ Leaving(t)' /\ ~Live(t)
        BY <3>1, <3>2 DEF From, Live, Leaving, Holding
      <3>4. \A j \in 1 .. Len(items) : j # cur[t] /\ Behind(t, j) => Behind(t, j)'
        BY <3>2, <3>3 DEF Behind
      <3>5. From(t)' > cur[t]
        BY <3>2, <3>3
      <3> QED
        BY <1>4, <2>0, <3>1, <3>2, <3>3, <3>4, <3>5, ExplainedMarks
    <2>2. CASE MarkOwn(t)
      <3>1. pc[t] = "markOwn" /\ pc'[t] = "leave" /\ op'[t] = op[t] /\ Mark(own[t])
        BY <2>0, <2>2, MarkOwnIs DEF Now
      <3>2. Leaving(t) /\ From(t) = own[t] /\ own[t] \in 1 .. Len(items)
        BY <3>1, MarkOwnPlaced DEF From
      <3>3. ~Leaving(t)' /\ ~Live(t)' /\ ~Live(t)
        BY <3>1, <3>2 DEF Holding, Live, Leaving
      <3>4. \A j \in 1 .. Len(items) : j # own[t] /\ Behind(t, j) => own[t] < j
        BY <3>2, <3>3 DEF Behind
      <3> QED
        BY <1>4, <2>0, <3>1, <3>2, <3>3, <3>4, ExplainedMarks
    <2>3. CASE Ack(t)
      <3>1. /\ pc[t] = "ack" /\ op'[t] = op[t] /\ Mark(cur[t]) /\ setup' = setup
            /\ last'[t] = last[t]
        BY <2>0, <2>3, AckIs DEF Now, token
      <3>2. /\ op[t] \in {"pull", "acknowledge"} /\ Marking(t) /\ Live(t)
            /\ cur[t] \in 1 .. Len(items) /\ nxt[t] = cur[t] + 1
        BY <3>1, AckPlaced
      <3>3. cur'[t] = cur[t] + 1
        BY <2>0, <2>3, <3>2, AckIs DEF Now
      <3>4. /\ Pos(t) = cur[t] /\ Pos(t)' = cur[t] + 1 /\ ~Leaving(t)' /\ ~Leaving(t)
            /\ Live(t)'
        BY <2>0, <3>1, <3>2, <3>3 DEF Pos, Marking, Leaving, Moved
      <3>5. \A j \in 1 .. Len(items) : j # cur[t] /\ Behind(t, j) => Behind(t, j)'
        BY <3>2, <3>4 DEF Behind
      <3>6. Pos(t)' > cur[t]
        BY <3>2, <3>4
      <3> QED
        BY <1>4, <2>0, <3>1, <3>2, <3>4, <3>5, <3>6, ExplainedMarks
    <2> QED
      BY <2>0, <2>1, <2>2, <2>3
  <1> QED
    BY <1>1, <1>2, <1>3, <1>4 DEF NextIs

-----------------------------------------------------------------------------
(* What was removed was read.                                              *)

LEMMA CursorPos ==
  ASSUME Shapes, Modes, Positions, NEW t \in Tokens, Live(t), NEW k \in Nat, IsPayload(k)
  PROVE  k <= Cursor(t) <=> k <= Pos(t)
  <1>1. /\ ModeOf(t) /\ Placed(t)
        /\ last[t] \in Nat /\ cur[t] \in Nat /\ own[t] \in Nat
    BY DEF Modes, Positions, Shapes, Pointer, Procs
  <1>2. CASE Moving(t)
    <2>1. Pos(t) = cur[t] /\ Cursor(t) = last[t]
      BY <1>2 DEF Moving, Reading, Pos, Cursor, Finishing
    <2>2. k \notin last[t] + 1 .. cur[t] /\ last[t] <= cur[t]
      BY <1>1, <1>2 DEF Placed
    <2> QED
      BY <1>1, <2>1, <2>2
  <1>3. CASE ~Moving(t)
    <2>1. Pos(t) = Cursor(t)
      BY <1>1, <1>3 DEF Moving, ModeOf, Marking, Pos, Cursor, Reading
    <2> QED
      BY <2>1
  <1> QED
    BY <1>2, <1>3

\* A message that is taken off the list was marked by every token that was
\* subscribed when it was pushed.
LEMMA HeadWasRead ==
  ASSUME Shapes, OneCleaner, Positions, Explained, NEW s \in Tokens, Scan(s),
         pc'[s] = "reduce", IsPayload(removed + 1), NEW t \in Tokens, Live(t)
  PROVE  removed + 1 <= Pos(t)
  <1>1. PICK M, R : Explains(M, R)
    BY DEF Explained
  <1>2. pc[s] = "scan" /\ HeadItem # 0 /\ ~Dirty(HeadItem)
    BY ScanIs DEF Now
  <1>3. PICK k \in Nat : k = removed + 1
    BY DEF Shapes
  <1>4. /\ HeadItem = k /\ k - 1 = removed /\ Len(items) \in Nat
        /\ k \in 1 .. Len(items) /\ k - 1 \in 0 .. Len(items)
    BY <1>2, <1>3 DEF HeadItem, NextOf, Shapes
  <1>5. items[k].type = "payload" /\ ~(items[k].reads < oldest)
    BY <1>2, <1>3, <1>4 DEF IsPayload, Dirty
  <1>6. Cleared = k - 1
    BY <1>2, <1>4 DEF OneCleaner, Cleaning, Cleared, Procs
  <1>7. M[k] = M[k - 1] /\ IsFiniteSet(M[k - 1]) /\ oldest = Cardinality(M[k - 1])
    BY <1>1, <1>4, <1>5, <1>6 DEF Explains, History, Changes, OldestIs
  <1>8. R[k] \subseteq M[k] /\ Cardinality(R[k]) = items[k].reads
    BY <1>1, <1>4, <1>7 DEF Explains, Marks
  <1>9. R[k] = M[k]
    <2>1. /\ Cardinality(R[k]) <= Cardinality(M[k])
          /\ Cardinality(M[k]) \in Nat /\ Cardinality(R[k]) \in Nat
          /\ (Cardinality(R[k]) = Cardinality(M[k]) => R[k] = M[k])
      BY <1>7, <1>8, FS_Subset, FS_CardinalityType
    <2> QED
      BY <1>5, <1>7, <1>8, <2>1
  <1>10. SUFFICES ASSUME ~(k <= Pos(t)) PROVE FALSE
    BY <1>3
  <1>11. k \in Pos(t) .. Len(items)
    BY <1>4, <1>10, PlacedIn
  <1> QED
    BY <1>1, <1>9, <1>11 DEF Explains, Standing, Unpassed

LEMMA PassedKept ==
  ASSUME Shapes, Shapes', Modes, Owns, OneCleaner, HeadIsThere, Positions, Explained,
         Passed, Grown, NextIs
  PROVE  Passed'
  <1>1. /\ Cleared \in 0 .. Len(items) /\ Cleared \in {removed, removed + 1}
        /\ Len(items) \in Nat /\ removed \in Nat
    BY ClearedIn DEF Shapes
  <1>2. \A k \in 1 .. Len(items) : IsPayload(k)' <=> IsPayload(k)
    BY <1>1 DEF Grown, IsPayload
  <1>3. ASSUME NEW p \in Procs, AppendItem(p) PROVE Passed'
    <2>1. /\ pc[p] = "append" /\ pc'[p] = "link" /\ op'[p] = op[p]
          /\ own'[p] = Len(items) + 1
          /\ Others(p) /\ setup' = setup /\ last' = last /\ removed' = removed
      BY <1>3, AppendItemIs DEF Now, token
    <2>2. Cleared' = Cleared
      BY <2>1, ClearedStays
    <2>3. ASSUME NEW t \in Tokens, Live(t)', NEW k \in 1 .. Cleared', IsPayload(k)'
          PROVE  k <= Pos(t)'
      <3>1. k \in 1 .. Cleared /\ k \in 1 .. Len(items) /\ IsPayload(k)
        BY <1>1, <1>2, <2>2, <2>3
      <3>2. CASE t # p
        BY <2>1, <2>3, <3>1, <3>2, OthersMoved DEF Passed
      <3>3. CASE t = p
        <4>1. op[p] = "subscribe"
          <5>1. op[p] \in {"subscribe", "unsubscribe"}
            BY <2>1, <3>3 DEF Modes, ModeOf, Reading, Finishing, Shapes, Ops, Procs
          <5> QED
            BY <2>1, <2>3, <3>3, <5>1 DEF Live
        <4>2. Pos(p)' = Len(items) + 1
          BY <2>1, <4>1 DEF Pos
        <4> QED
          BY <1>1, <3>1, <3>3, <4>2
      <3> QED
        BY <3>2, <3>3
    <2> QED
      BY <2>3 DEF Passed
  <1>4. ASSUME \A t \in Tokens : Moved(t), Cleared' = Cleared PROVE Passed'
    <2>1. ASSUME NEW t \in Tokens, Live(t)', NEW k \in 1 .. Cleared', IsPayload(k)'
          PROVE  k <= Pos(t)'
      <3>1. k \in 1 .. Cleared /\ IsPayload(k) /\ k \in Nat
        BY <1>1, <1>2, <1>4, <2>1
      <3>2. Live(t) /\ Pos(t)' >= Pos(t) /\ Pos(t) \in Nat
        BY <1>4, <2>1 DEF Moved
      <3>3. k <= Pos(t) /\ Pos(t)' \in Nat
        BY <2>1, <3>1, <3>2, StandsAt DEF Passed
      <3> QED
        BY <3>1, <3>2, <3>3
    <2> QED
      BY <2>1 DEF Passed
  <1>5. ASSUME \A t \in Tokens : Moved(t), NEW s \in Tokens, Scan(s) PROVE Passed'
    <2>1. pc[s] = "scan" /\ Others(s) /\ s \in Procs /\ removed' = removed
      BY <1>5, ScanIs DEF Now, Procs
    <2>2. CASE pc'[s] # "reduce"
      BY <1>4, <1>5, <2>1, <2>2, ClearedStays
    <2>3. CASE pc'[s] = "reduce"
      <3>1. Cleared = removed /\ Cleared' = removed + 1
        BY <2>1, <2>3 DEF OneCleaner, Cleaning, Cleared, Procs
      <3>2. ASSUME NEW t \in Tokens, Live(t)', NEW k \in 1 .. Cleared', IsPayload(k)'
            PROVE  k <= Pos(t)'
        <4>1. Live(t) /\ Pos(t)' >= Pos(t) /\ Pos(t) \in Nat /\ Pos(t)' \in Nat
          BY <1>5, <3>2, StandsAt DEF Moved
        <4>2. IsPayload(k)
          BY <1>5, <3>2, ScanIs DEF IsPayload
        <4>3. k \in 1 .. Cleared \/ k = removed + 1
          BY <1>1, <3>1, <3>2
        <4>4. k <= Pos(t)
          BY <1>5, <2>3, <4>1, <4>2, <4>3, HeadWasRead DEF Passed
        <4>5. k \in Nat
          BY <1>1, <3>1, <3>2
        <4> QED
          BY <4>1, <4>4, <4>5
      <3> QED
        BY <3>2 DEF Passed
    <2> QED
      BY <2>2, <2>3
  <1>6. ASSUME NEW t \in Tokens, Marked(t) PROVE Passed'
    BY <1>4, <1>6, StaysMoved DEF Marked, Quiet
  <1> QED
    BY <1>3, <1>4, <1>5, <1>6 DEF NextIs, Drifts, Quiet

-----------------------------------------------------------------------------
(* What every token has gone past is being cleaned up.                     *)

\* What a token of M has yet to mark stays on the list.
LEMMA WantedIsDirty ==
  ASSUME Shapes, NEW M, NEW R, Explains(M, R), NEW k \in 1 .. Len(items), Cleared = k - 1,
         NEW t \in Tokens, t \in M[k], t \notin R[k],
         items[k].type \in {"payload", "subscription"}
  PROVE  Dirty(k)
  <1>1. k - 1 \in 0 .. Len(items) /\ k \in 0 .. Len(items)
    BY DEF Shapes
  <1>2. /\ Changes(M, k) /\ IsFiniteSet(M[k - 1]) /\ IsFiniteSet(M[k])
        /\ R[k] \subseteq M[k - 1] \union M[k] /\ Cardinality(R[k]) = items[k].reads
        /\ oldest = Cardinality(M[k - 1])
    BY <1>1 DEF Explains, History, Marks, OldestIs
  <1>3. M[k - 1] \subseteq M[k]
    BY <1>2 DEF Changes
  <1>4. /\ Cardinality(R[k]) < Cardinality(M[k])
        /\ Cardinality(R[k]) \in Nat /\ Cardinality(M[k]) \in Nat
    <2>1. R[k] \subseteq M[k] /\ R[k] # M[k]
      BY <1>2, <1>3
    <2>2. /\ Cardinality(R[k]) <= Cardinality(M[k])
          /\ Cardinality(M[k]) \in Nat /\ Cardinality(R[k]) \in Nat
          /\ (Cardinality(R[k]) = Cardinality(M[k]) => R[k] = M[k])
      BY <1>2, <2>1, FS_Subset, FS_CardinalityType
    <2> QED
      BY <2>1, <2>2
  <1>5. CASE items[k].type = "payload"
    <2>1. M[k] = M[k - 1]
      BY <1>2, <1>5 DEF Changes
    <2> QED
      BY <1>2, <1>4, <1>5, <2>1 DEF Dirty
  <1>6. CASE items[k].type = "subscription"
    <2>1. PICK u \in Tokens : u \notin M[k - 1] /\ M[k] = M[k - 1] \union {u}
      BY <1>2, <1>6 DEF Changes
    <2>2. Cardinality(M[k]) = oldest + 1 /\ oldest \in Int
      <3>1. Cardinality(M[k - 1] \union {u}) = Cardinality(M[k - 1]) + 1
        BY <1>2, <2>1, FS_AddElement
      <3> QED
        BY <1>2, <2>1, <3>1 DEF Shapes
    <2>3. items[k].reads <= oldest
      BY <1>2, <1>4, <2>2
    <2> QED
      BY <1>6, <2>3 DEF Dirty
  <1> QED
    BY <1>5, <1>6

\* What stays on the list has yet to be marked by somebody.
LEMMA DirtyIsMissed ==
  ASSUME Shapes, NEW M, NEW R, Explains(M, R), NEW k \in 1 .. Len(items), Cleared = k - 1,
         Dirty(k)
  PROVE  \E t \in Tokens : Missed(M, R, t, k)
  <1>1. k - 1 \in 0 .. Len(items) /\ k \in 0 .. Len(items) /\ k \in Nat /\ k - 1 \in Nat
    BY DEF Shapes
  <1>2. /\ Changes(M, k) /\ IsFiniteSet(M[k - 1]) /\ IsFiniteSet(M[k])
        /\ R[k] \subseteq M[k - 1] \union M[k] /\ Cardinality(R[k]) = items[k].reads
        /\ oldest = Cardinality(M[k - 1]) /\ oldest \in Int
        /\ M[k] \in SUBSET Tokens /\ M[k - 1] \in SUBSET Tokens
    BY <1>1 DEF Explains, History, Marks, OldestIs, Shapes
  <1> SUFFICES ASSUME \A t \in Tokens : ~Missed(M, R, t, k) PROVE FALSE
    OBVIOUS
  <1>3. R[k] = M[k - 1] \union M[k]
    BY <1>2 DEF Missed
  <1>4. CASE items[k].type = "payload"
    <2>1. R[k] = M[k - 1]
      BY <1>2, <1>3, <1>4 DEF Changes
    <2>2. items[k].reads < oldest
      BY <1>4 DEF Dirty
    <2> QED
      BY <1>2, <2>1, <2>2
  <1>5. CASE items[k].type = "subscription"
    <2>1. PICK u \in Tokens : u \notin M[k - 1] /\ M[k] = M[k - 1] \union {u}
      BY <1>2, <1>5 DEF Changes
    <2>2. R[k] = M[k - 1] \union {u}
      BY <1>3, <2>1
    <2>3. Cardinality(M[k - 1] \union {u}) = Cardinality(M[k - 1]) + 1
      BY <1>2, <2>1, FS_AddElement
    <2>4. items[k].reads <= oldest
      BY <1>5 DEF Dirty
    <2> QED
      BY <1>2, <2>2, <2>3, <2>4
  <1>6. CASE items[k].type = "unsubscription"
    <2>1. R[k] = M[k - 1]
      BY <1>2, <1>3, <1>6 DEF Changes
    <2>2. items[k].reads + 1 < oldest
      BY <1>6 DEF Dirty
    <2> QED
      BY <1>2, <2>1, <2>2
  <1> QED
    BY <1>2, <1>4, <1>5, <1>6 DEF Changes

\* A call that has marked an item cleans up before it returns.
SameHead == UNCHANGED <<items, removed, oldest>>
Tidies(p) == \/ Working(p)'
             \/ AppendItem(p) \/ Link(p)
             \/ SameHead /\ \/ ~Working(p)
                            \/ pc[p] = "clean" /\ cleaning
                            \/ Settled

LEMMA StepsTidy ==
  ASSUME Shapes, Modes, NEW p \in Procs, Step(p), ~Still
  PROVE  Tidies(p)
  <1>a. ModeOf(p)
    BY DEF Modes
  <1>1. ASSUME p \in Publishers, Push(p) PROVE Tidies(p)
    BY <1>1, <1>a, PushIs DEF Tidies, Working, SameHead, Now, shared
  <1>2. ASSUME p \in Tokens, Subscribe(p) PROVE Tidies(p)
    BY <1>2, <1>a, SubscribeIs DEF Tidies, Working, SameHead, Now, shared
  <1>3. ASSUME p \in Tokens, Unsubscribe(p) PROVE Tidies(p)
    BY <1>3, <1>a, UnsubscribeIs DEF Tidies, Working, SameHead, Now, shared
  <1>4. ASSUME p \in Tokens, Pull(p) PROVE Tidies(p)
    BY <1>4, <1>a, LookIs DEF Tidies, Working, SameHead, Now, shared
  <1>5. ASSUME p \in Tokens, Acknowledge(p) PROVE Tidies(p)
    BY <1>5, <1>a, LookIs DEF Tidies, Working, SameHead, Now, shared
  <1>6. ASSUME p \in Tokens, LookNext(p) PROVE Tidies(p)
    BY <1>6, <1>a, LookIs DEF Tidies, Working, SameHead, Now, shared
  <1>7. ASSUME AppendItem(p) PROVE Tidies(p)
    BY <1>7 DEF Tidies
  <1>8. ASSUME Link(p) PROVE Tidies(p)
    BY <1>8 DEF Tidies
  <1>9. ASSUME Count(p) PROVE Tidies(p)
    BY <1>9, <1>a, CountIs DEF Tidies, Working, SameHead, Now, shared, ModeOf, Reading,
       Finishing, Shapes, Ops
  <1>10. ASSUME p \in Tokens, MarkItem(p) PROVE Tidies(p)
    BY <1>10, <1>a, MarkItemIs DEF Tidies, Working, SameHead, Now, shared
  <1>11. ASSUME p \in Tokens, Walk(p) PROVE Tidies(p)
    BY <1>11, <1>a, WalkIs DEF Tidies, Working, SameHead, Now, shared
  <1>12. ASSUME p \in Tokens, MarkOwn(p) PROVE Tidies(p)
    BY <1>12, <1>a, MarkOwnIs DEF Tidies, Working, SameHead, Now, shared
  <1>13. ASSUME p \in Tokens, LeaveQueue(p) PROVE Tidies(p)
    BY <1>13, <1>a, LeaveQueueIs DEF Tidies, Working, SameHead, Now, shared
  <1>14. ASSUME p \in Tokens, Load(p) PROVE Tidies(p)
    BY <1>14, <1>a, LoadIs DEF Tidies, Working, SameHead, Now, shared, Marking, ModeOf,
       Reading
  <1>15. ASSUME p \in Tokens, Ack(p) PROVE Tidies(p)
    <2>1. pc[p] = "ack" /\ op'[p] = op[p] /\ setup' = setup
      BY <1>15, AckIs DEF Now
    <2>2. Marking(p)
      BY <1>15, <1>a, <2>1 DEF ModeOf, Finishing, Appending, Reading, Shapes, Ops
    <2>3. pc'[p] \in {"clean", "load"}
      BY <1>15, <2>2, AckIs DEF Now
    <2> QED
      BY <2>1, <2>2, <2>3 DEF Tidies, Working, Marking
  <1>16. ASSUME p \in Tokens, Return(p) PROVE Tidies(p)
    BY <1>16, <1>a, ReturnIs DEF Tidies, Working, SameHead, Now, shared
  <1>17. ASSUME p \in Tokens, CleanEnter(p) PROVE Tidies(p)
    BY <1>17, <1>a, CleanEnterIs DEF Tidies, Working, SameHead, Now, shared
  <1>18. ASSUME p \in Tokens, Scan(p) PROVE Tidies(p)
    BY <1>18, <1>a, ScanIs DEF Tidies, Working, SameHead, Now, shared, Settled
  <1>19. ASSUME p \in Tokens, Reduce(p) PROVE Tidies(p)
    BY <1>19, <1>a, ReduceIs DEF Tidies, Working, SameHead, Now, shared
  <1>20. ASSUME p \in Tokens, Uncount(p) PROVE Tidies(p)
    BY <1>20, <1>a, UncountIs DEF Tidies, Working, SameHead, Now, shared
  <1>21. ASSUME p \in Tokens, Delete(p) PROVE Tidies(p)
    BY <1>21, <1>a, DeleteIs DEF Tidies, Working, SameHead, Now, shared
  <1>22. ASSUME p \in Tokens, Resume(p) PROVE Tidies(p)
    BY <1>22, <1>a, ResumeIs DEF Tidies, Working, SameHead, Now, shared
  <1>23. ASSUME p \in Tokens, CleanExit(p) PROVE Tidies(p)
    BY <1>23, <1>a, CleanExitIs DEF Tidies, Working, SameHead, Now, shared
  <1> QED
    BY <1>1, <1>2, <1>3, <1>4, <1>5, <1>6, <1>7, <1>8, <1>9, <1>10, <1>11, <1>12, <1>13,
       <1>14, <1>15, <1>16, <1>17, <1>18, <1>19, <1>20, <1>21, <1>22, <1>23 DEF Step,
       AppendStep, CallStep, CleanStep

\* A message is pushed only while somebody is subscribed.
LEMMA SomebodyListens ==
  ASSUME Shapes, Modes, LockHeld, PushHeard, NewestCounted, setup.under_gil,
         NEW p \in Procs, Step(p), op[p] = "push"
  PROVE  \E t \in Tokens : Live(t)
  <1>1. newest > 0
    BY DEF PushHeard
  <1>2. PICK t \in Tokens : Entered(t)
    <2>1. Subscribed # {}
      BY <1>1, FS_EmptySet DEF NewestCounted
    <2> QED
      BY <2>1 DEF Subscribed
  <1>3. t # p /\ t \in Procs /\ ModeOf(t)
    BY DEF Modes, ModeOf, Procs
  <1>4. pc[t] \in {"idle", "resume"}
    BY <1>3, OthersRest
  <1>5. op[t] \notin {"subscribe", "unsubscribe"} /\ last[t] # 0
    BY <1>2, <1>3, <1>4 DEF Entered, ModeOf, Appending, Finishing
  <1> QED
    BY <1>5 DEF Live

LEMMA TidyKept ==
  ASSUME Shapes, Modes, OneCleaner, Owns, Positions, NewestCounted, Turns, Explained, Tidy,
         [Next]_vars
  PROVE  Tidy'
  <1>1. CASE Still
    BY <1>1 DEF Still, shared, local, Tidy, Settled, Working, HeadItem, NextOf, Dirty,
       Marking
  <1>2. ASSUME NEW p \in Procs, Step(p), ~Still, setup.under_gil, setup' = setup,
               \A q \in Procs : ~Working(q)'
        PROVE  Settled'
    <2>1. Tidies(p) /\ Others(p)
      BY <1>2, StepsTidy, StepsAlone DEF Alone
    <2>2. \A q \in Procs \ {p} : ~Working(q)
      BY <1>2, <2>1 DEF Working, Marking, Others
    <2>3. ~Working(p) => Settled
      BY <1>2, <2>2 DEF Tidy
    <2>4. SameHead /\ Settled => Settled'
      BY DEF SameHead, Settled, HeadItem, NextOf, Dirty
    <2>5. removed \in 0 .. Len(items) /\ Len(items) \in Nat /\ removed \in Nat
      BY DEF Shapes
    <2>6. CASE pc[p] = "clean" /\ cleaning
      <3>1. PICK q \in Procs : pc[q] \in Cleaning
        BY <2>6 DEF Turns, SomeoneCleans
      <3>2. q # p
        BY <2>6, <3>1 DEF Cleaning
      <3>3. pc[q] = "resume"
        BY <1>2, <3>1, <3>2, OthersRest DEF Turns, Cleaning
      <3> QED
        BY <2>2, <3>2, <3>3 DEF Working
    <2>7. CASE AppendItem(p)
      <3>1. /\ Len(items') = Len(items) + 1
            /\ \A k \in 1 .. Len(items) : items'[k] = items[k]
            /\ ~items'[Len(items) + 1].linked
        BY <2>7, AppendItemGrows
      <3>2. removed' = removed /\ oldest' = oldest /\ pc[p] = "append"
        BY <2>7, AppendItemIs
      <3>3. Settled
        BY <2>3, <3>2 DEF Working
      <3>4. CASE removed = Len(items)
        BY <2>5, <3>1, <3>2, <3>4 DEF Settled, HeadItem, NextOf
      <3>5. CASE removed < Len(items)
        <4>1. PICK k \in 1 .. Len(items) : k = removed + 1
          BY <2>5, <3>5
        <4>2. items'[k] = items[k] /\ Len(items') > removed /\ k # 0
          BY <2>5, <3>1, <4>1
        <4>3. /\ HeadItem = IF items[k].linked THEN k ELSE 0
              /\ HeadItem' = IF items[k].linked THEN k ELSE 0
          BY <3>2, <3>5, <4>1, <4>2 DEF HeadItem, NextOf
        <4>4. Dirty(k) => Dirty(k)'
          BY <3>2, <4>2 DEF Dirty
        <4> QED
          BY <3>3, <4>3, <4>4 DEF Settled
      <3> QED
        BY <2>5, <3>4, <3>5
    <2>8. CASE Link(p)
      <3>1. /\ pc[p] = "link" /\ pc'[p] = "count" /\ op'[p] = op[p]
            /\ removed' = removed /\ oldest' = oldest
        BY <2>8, LinkIs DEF Now
      <3>2. op[p] \in {"push", "subscribe"} /\ Settled
        <4>1. op[p] \in {"push", "subscribe", "unsubscribe"}
          BY <3>1 DEF Modes, ModeOf, Reading, Finishing, Shapes, Ops
        <4>2. op[p] # "unsubscribe"
          BY <1>2, <3>1 DEF Working
        <4> QED
          BY <2>3, <3>1, <4>1, <4>2 DEF Working
      <3>3. PICK k \in 1 .. Len(items) : k = own[p]
        BY <2>8, LinkLinks
      <3>4. /\ Len(items') = Len(items)
            /\ \A j \in 1 .. Len(items) : /\ j # k => items'[j] = items[j]
                                          /\ items'[j].type = items[j].type
                                          /\ items'[j].reads = items[j].reads
            /\ items'[k].linked = TRUE
        BY <2>8, <3>3, LinkLinks
      <3>5. k = Len(items) /\ items[k].type = ItemType[op[p]]
        BY <1>2, <3>1, <3>3 DEF Turns, Appended
      <3>6. CASE k # removed + 1
        <4>1. HeadItem' = HeadItem
          <5>1. removed < Len(items) => removed + 1 \in 1 .. Len(items)
            BY <2>5
          <5> QED
            BY <3>1, <3>4, <3>6, <5>1 DEF HeadItem, NextOf
        <4>2. HeadItem # 0 => HeadItem \in 1 .. Len(items)
          BY <2>5 DEF HeadItem, NextOf
        <4>3. \A j \in 1 .. Len(items) : Dirty(j) => Dirty(j)'
          BY <3>1, <3>4 DEF Dirty
        <4>4. HeadItem # 0 => Dirty(HeadItem)
          BY <3>2 DEF Settled
        <4>5. PICK h : h = HeadItem
          OBVIOUS
        <4>6. h # 0 => Dirty(h)'
          BY <4>2, <4>3, <4>4, <4>5
        <4> QED
          BY <4>1, <4>5, <4>6 DEF Settled
      <3>7. CASE k = removed + 1
        <4>1. PICK M, R : Explains(M, R)
          BY DEF Explained
        <4>2. Cleared = k - 1
          <5>1. \A t \in Tokens : pc[t] # "reduce"
            BY <2>2, <3>1 DEF Working, Procs
          <5> QED
            BY <2>5, <3>7, <5>1 DEF Cleared
        <4>3. PICK t \in Tokens : Live(t)
          <5>1. CASE op[p] = "push"
            BY <1>2, <5>1, SomebodyListens DEF Turns
          <5>2. CASE op[p] = "subscribe"
            <6>1. p \in Tokens
              BY <5>2 DEF Modes, ModeOf, Procs
            <6> QED
              BY <3>1, <5>2, <6>1 DEF Live
          <5> QED
            BY <3>2, <5>1, <5>2
        <4>4. k \in Pos(t) .. Len(items)
          BY <2>5, <3>5, <4>3, PlacedIn
        <4>5. t \in M[k] /\ t \notin R[k]
          BY <4>1, <4>3, <4>4 DEF Explains, Standing, Unpassed
        <4>6. items[k].type \in {"payload", "subscription"}
          BY <3>2, <3>5 DEF ItemType
        <4>7. Dirty(k)
          BY <4>1, <4>2, <4>5, <4>6, WantedIsDirty
        <4>8. Dirty(k)'
          BY <3>1, <3>4, <4>7 DEF Dirty
        <4>9. HeadItem' = k
          BY <2>5, <3>1, <3>4, <3>5, <3>7 DEF HeadItem, NextOf
        <4> QED
          BY <4>8, <4>9 DEF Settled
      <3> QED
        BY <3>6, <3>7
    <2> QED
      BY <1>2, <2>1, <2>3, <2>4, <2>6, <2>7, <2>8 DEF Tidies
  <1>3. ASSUME NEW p \in Procs, Step(p), ~Still PROVE Tidy'
    <2>1. setup' = setup
      BY <1>3, StepsAlone DEF Alone
    <2> QED
      BY <1>2, <1>3, <2>1 DEF Tidy
  <1> QED
    BY <1>1, <1>3, SomebodySteps

-----------------------------------------------------------------------------
KInv == IInv /\ Turns /\ Explained /\ Passed /\ Tidy

LEMMA InitKept == Init => KInv
  <1> SUFFICES ASSUME Init PROVE KInv
    OBVIOUS
  <1>1. IInv
    BY InitInv
  <1>2. /\ Len(items) = 0 /\ removed = 0 /\ Cleared = 0
        /\ \A t \in Tokens : ~Live(t) /\ ~Leaving(t)
        /\ HeadItem = 0
    BY DEF Init, Cleared, Live, Leaving, Procs, HeadItem, NextOf
  <1>3. Explained
    <2>1. PICK M : M = [k \in Nat |-> {}]
      OBVIOUS
    <2>2. M \in [Nat -> SUBSET Tokens] /\ M[0] = {}
      BY <2>1
    <2>3. History(M)
      <3>1. {t \in Tokens : Live(t)} = {} /\ 1 .. Len(items) = {} /\ 0 .. Len(items) = {0}
        BY <1>2
      <3>2. \A k \in 1 .. Len(items) : Changes(M, k)
        BY <3>1
      <3>3. \A k \in 0 .. Len(items) : IsFiniteSet(M[k])
        BY <2>2, <3>1, FS_EmptySet
      <3> QED
        BY <1>2, <2>2, <3>1, <3>2, <3>3 DEF History
    <2>4. Marks(M, M)
      BY <1>2, <2>2 DEF Marks
    <2>5. Standing(M, M)
      BY <1>2 DEF Standing, Unpassed
    <2>6. OldestIs(M)
      BY <1>2, <2>2, FS_EmptySet DEF OldestIs, Init
    <2>7. Caught(M, M)
      BY <1>2 DEF Caught
    <2> QED
      BY <2>3, <2>4, <2>5, <2>6, <2>7 DEF Explains, Explained
  <1>4. Passed /\ Tidy
    BY <1>2 DEF Passed, Tidy, Settled
  <1>5. Turns
    BY <1>2 DEF Init, Turns, LockHeld, LinksDone, Appended, SomeoneCleans, PushHeard
  <1> QED
    BY <1>1, <1>3, <1>4, <1>5 DEF KInv

LEMMA NextKept == KInv /\ [Next]_vars => KInv'
  <1> SUFFICES ASSUME KInv, [Next]_vars PROVE KInv'
    OBVIOUS
  <1>1. IInv /\ IInv' /\ Turns /\ Explained /\ Passed /\ Tidy
    BY NextInv DEF KInv
  <1>2. /\ Shapes /\ Modes /\ OneCleaner /\ Owns /\ HeadIsThere /\ Positions /\ Shapes'
        /\ NewestCounted
    BY <1>1 DEF IInv
  <1>3. Grown
    BY <1>2, ListGrows
  <1>4. NextIs
    BY <1>1, <1>2, SomethingNext DEF Turns
  <1>5. Turns'
    BY <1>1, <1>2, <1>3, TurnsKept
  <1>6. Explained'
    BY <1>1, <1>2, <1>4, ExplainedKept
  <1>7. Passed'
    BY <1>1, <1>2, <1>3, <1>4, PassedKept
  <1>8. Tidy'
    BY <1>1, <1>2, TidyKept
  <1> QED
    BY <1>1, <1>5, <1>6, <1>7, <1>8 DEF KInv

LEMMA KeptInvariant == Spec => []KInv
  BY InitKept, NextKept, PTL DEF Spec

(* Type correctness.  That oldest_subscribes and newest_subscribes stay    *)
(* above zero, whatever the threads do between the loads and stores of     *)
(* cleanup(), is not a matter of types: oldest_subscribes counts the       *)
(* tokens that were subscribed when the last freed item was appended       *)
(* (cmcqueue.cpp:243-251), newest_subscribes the ones that have entered    *)
(* subscribe() and have not left the queue.                                *)
THEOREM TypeCorrect == Spec => []TypeOK
  <1>1. KInv => TypeOK
    <2> SUFFICES ASSUME KInv PROVE TypeOK
      OBVIOUS
    <2>1. Shapes /\ NewestCounted /\ HeadIsThere
      BY DEF KInv, IInv
    <2>2. newest \in Nat
      BY <2>1, FS_CardinalityType DEF NewestCounted
    <2>3. oldest \in Nat
      <3>1. PICK M, R : Explains(M, R)
        BY DEF KInv, Explained
      <3>2. Cleared \in 0 .. Len(items)
        BY <2>1, ClearedIn
      <3>3. IsFiniteSet(M[Cleared]) /\ oldest = Cardinality(M[Cleared])
        BY <3>1, <3>2 DEF Explains, History, OldestIs
      <3> QED
        BY <3>3, FS_CardinalityType
    <2> QED
      BY <2>1, <2>2, <2>3 DEF Shapes, TypeOK
  <1> QED
    BY <1>1, KeptInvariant, PTL

(* cleanup() frees no message that a subscribed token has still to pull,   *)
(* for any number of publishers, tokens, subscriptions and messages, with  *)
(* the interpreter lock or without (cmcqueue.cpp:214-267), up to the first *)
(* use of a freed unsubscription item, where the model stops.              *)
THEOREM KeepsTheUnread == Spec => []UnreadKept
  <1>1. KInv => UnreadKept
    <2> SUFFICES ASSUME KInv, NEW t \in Tokens, Live(t),
                        NEW k \in Cursor(t) + 1 .. Len(items), IsPayload(k), ~(k > removed)
                 PROVE  FALSE
      BY DEF UnreadKept
    <2>1. Shapes /\ Modes /\ Positions /\ HeadIsThere /\ Passed
      BY DEF KInv, IInv
    <2>2. Cleared \in {removed, removed + 1} /\ removed \in Nat /\ Len(items) \in Nat
      BY <2>1, ClearedIn DEF Shapes
    <2>3. Cursor(t) \in Nat
      BY <2>1 DEF Shapes, Pointer, Procs, Cursor
    <2>4. k \in Nat /\ k \in 1 .. Cleared /\ ~(k <= Cursor(t))
      BY <2>2, <2>3
    <2>5. k <= Pos(t)
      BY <2>1, <2>4 DEF Passed
    <2> QED
      BY <2>1, <2>4, <2>5, CursorPos
  <1> QED
    BY <1>1, KeptInvariant, PTL

(* From Python, when no call is in progress, the list holds nothing that   *)
(* every subscribed token has gone past: a cleanup() that is skipped       *)
(* because another one is at work (cmcqueue.cpp:220-224) is made up for by *)
(* that one, for any number of threads and whenever a destructor lets      *)
(* others run.                                                             *)
THEOREM LeavesNoGarbage == Spec => []NoGarbage
  <1>1. KInv => NoGarbage
    <2> SUFFICES ASSUME KInv, setup.under_gil, removed < Len(items),
                        \A p \in Procs : pc[p] = "idle"
                 PROVE  \E t \in Tokens : Live(t) /\ Cursor(t) <= removed + 1
      BY DEF NoGarbage
    <2>1. Shapes /\ Modes /\ Turns /\ Tidy
      BY DEF KInv, IInv
    <2>2. PICK M, R : Explains(M, R)
      BY DEF KInv, Explained
    <2>3. PICK k \in 1 .. Len(items) : k = removed + 1
      BY <2>1 DEF Shapes
    <2>4. HeadItem = k /\ k # 0 /\ k - 1 = removed
      BY <2>1, <2>3 DEF HeadItem, NextOf, Turns, LinksDone, Shapes
    <2>5. Dirty(k)
      <3>1. \A p \in Procs : op[p] = "none"
        BY <2>1 DEF Modes, ModeOf
      <3> QED
        BY <2>1, <2>4, <3>1 DEF Tidy, Settled, Working
    <2>6. Cleared = k - 1
      BY <2>4 DEF Cleared, Procs
    <2>7. PICK t \in Tokens : Missed(M, R, t, k)
      BY <2>1, <2>2, <2>5, <2>6, DirtyIsMissed
    <2>8. op[t] = "none" /\ pc[t] = "idle"
      BY <2>1 DEF Modes, ModeOf, Procs
    <2>9. Behind(t, k)
      BY <2>2, <2>7 DEF Explains, Caught
    <2>10. Live(t) /\ Pos(t) <= k /\ Cursor(t) = Pos(t)
      BY <2>8, <2>9 DEF Behind, Leaving, Pos, Cursor, Marking
    <2> QED
      BY <2>3, <2>10
  <1> QED
    BY <1>1, KeptInvariant, PTL

-----------------------------------------------------------------------------
(* Where a token reads.                                                    *)

\* Only a queue with manual acknowledgement is looked into, from where the token
\* stands on; a call has walked past no message.
Reads(t) == /\ iter[t] # 0 => setup.manual_acknowledge /\ last[t] # 0 /\ last[t] <= iter[t]
            /\ op[t] \in {"acknowledge", "next"} => setup.manual_acknowledge
            /\ op[t] = "acknowledge" => iter[t] = 0
            /\ op[t] \in Reading => Start(t) <= cur[t]
            /\ op[t] \in Reading /\ pc[t] \in {"load", "ack"} =>
                 \A k \in Start(t) + 1 .. cur[t] : ~IsPayload(k)
AllRead == \A t \in Tokens : Reads(t)

\* What the steps do to next()'s place and to the answers.
LEMMA PullIs ==
  ASSUME Shapes, NEW t \in Tokens, Pull(t)
  PROVE  /\ pc[t] = "idle" /\ last[t] # 0 /\ UNCHANGED <<shared, token>>
         /\ Now(t, "load", "pull", last[t], nxt[t], own[t])
  BY DEF Pull, EnterPull, Enter, Goto, Shapes, Now, Others, Procs, token

LEMMA AcknowledgeIs ==
  ASSUME Shapes, NEW t \in Tokens, Acknowledge(t)
  PROVE  /\ pc[t] = "idle" /\ last[t] # 0 /\ setup.manual_acknowledge
         /\ Now(t, "load", "acknowledge", last[t], nxt[t], own[t])
         /\ iter' = [iter EXCEPT ![t] = 0] /\ UNCHANGED <<shared, last, answer>>
  BY DEF Acknowledge, EnterPull, Enter, Goto, Shapes, Now, Others, Procs

LEMMA LookNextIs ==
  ASSUME Shapes, NEW t \in Tokens, LookNext(t)
  PROVE  /\ pc[t] = "idle" /\ last[t] # 0 /\ setup.manual_acknowledge
         /\ Now(t, "load", "next", IF iter[t] # 0 THEN iter[t] ELSE last[t], nxt[t], own[t])
         /\ UNCHANGED <<shared, token>>
  BY DEF LookNext, EnterPull, Enter, Goto, Shapes, Now, Others, Procs, token

LEMMA CountReads == ASSUME NEW p \in Procs, Count(p) PROVE UNCHANGED <<iter, answer>>
  BY DEF Count

\* A walk stops at the end of the list and at a message.
LEMMA LoadReads ==
  ASSUME Shapes, NEW t \in Tokens, Load(t), ~Still, ~Marking(t), NextOf(cur[t]) # 0
  PROVE  /\ cur'[t] = NextOf(cur[t])
         /\ pc'[t] = IF items[NextOf(cur[t])].type = "payload" THEN "return" ELSE "load"
  BY DEF Load, Arrive, At, Goto, Using, Shapes, Procs, Still, local

LEMMA ReturnReads ==
  ASSUME Shapes, NEW t \in Tokens, Return(t), ~Still
  PROVE  \/ /\ op[t] = "unsubscribe" /\ UNCHANGED answer
            /\ last' = [last EXCEPT ![t] = 0] /\ iter' = [iter EXCEPT ![t] = 0]
         \/ /\ op[t] \in {"pull", "acknowledge"} /\ UNCHANGED iter
            /\ last' = [last EXCEPT ![t] = IF Marking(t) THEN cur[t] ELSE last[t]]
            /\ answer' = [answer EXCEPT ![t] = IF op[t] = "pull" THEN Message(t)
                                               ELSE answer[t]]
         \/ /\ op[t] = "next" /\ UNCHANGED last
            /\ iter' = [iter EXCEPT ![t] = IF Message(t) = 0 THEN 0 ELSE cur[t]]
            /\ answer' = [answer EXCEPT ![t] = Message(t)]
  <1>1. CASE op[t] = "unsubscribe"
    BY <1>1 DEF Return
  <1>2. CASE op[t] \in {"acknowledge", "pull"}
    BY <1>2 DEF Return, Using, Still, local, token
  <1>3. CASE op[t] = "next"
    BY <1>3 DEF Return, Using, Still, local, token
  <1> QED
    BY <1>1, <1>2, <1>3 DEF Return

\* Everybody else's are as they were.
LEMMA StepsLookAlone ==
  ASSUME Shapes, NEW p \in Procs, Step(p), ~Still
  PROVE  \A t \in Tokens \ {p} : iter'[t] = iter[t] /\ answer'[t] = answer[t]
  <1>1. iter \in [Tokens -> Pointer] /\ answer \in [Tokens -> Nat]
    BY DEF Shapes
  <1>2. ASSUME p \in Tokens, Acknowledge(p) \/ Return(p)
        PROVE  \A t \in Tokens \ {p} : iter'[t] = iter[t] /\ answer'[t] = answer[t]
    BY <1>1, <1>2, AcknowledgeIs, ReturnReads
  <1>3. ASSUME p \in Tokens, \/ Subscribe(p) \/ Unsubscribe(p) \/ Pull(p) \/ LookNext(p)
                             \/ MarkItem(p) \/ Walk(p) \/ MarkOwn(p) \/ LeaveQueue(p)
                             \/ Load(p) \/ Ack(p)
        PROVE  iter' = iter /\ answer' = answer
    BY <1>3, SubscribeIs, UnsubscribeIs, PullIs, LookNextIs, MarkItemIs, WalkIs, MarkOwnIs,
       LeaveQueueIs, LoadIs, AckIs DEF token, Still
  <1>4. ASSUME p \in Tokens, CleanStep(p) PROVE iter' = iter /\ answer' = answer
    BY <1>4, CleanEnterIs, ScanIs, ReduceIs, UncountIs, DeleteIs, ResumeIs, CleanExitIs
       DEF CleanStep, token
  <1>5. ASSUME AppendStep(p) PROVE iter' = iter /\ answer' = answer
    BY <1>5, AppendItemIs, LinkIs, CountReads DEF AppendStep, token
  <1>6. ASSUME p \in Publishers, Push(p) PROVE iter' = iter /\ answer' = answer
    BY <1>6, PushIs DEF token
  <1> QED
    BY <1>2, <1>3, <1>4, <1>5, <1>6 DEF Step, CallStep

\* A token that goes on in its call, or rests, reads what it has read.
LEMMA ReadsOn ==
  ASSUME Shapes, Grown, NEW t \in Tokens, Reads(t), setup' = setup,
         iter'[t] = iter[t], last'[t] = last[t], op'[t] = op[t], cur'[t] = cur[t],
         pc'[t] \in {"load", "ack"} => pc[t] \in {"load", "ack"}
  PROVE  Reads(t)'
  <1>1. cur[t] \in 0 .. Len(items) /\ Len(items) \in Nat
        /\ iter[t] \in Nat /\ last[t] \in Nat
    BY DEF Shapes, Pointer, Procs
  <1>2. Start(t)' = Start(t) /\ Start(t) \in Nat
    BY <1>1 DEF Start
  <1>3. \A k \in Start(t) + 1 .. cur[t] : IsPayload(k)' <=> IsPayload(k)
    BY <1>1, <1>2 DEF Grown, IsPayload
  <1>4. op[t] \in Reading /\ pc'[t] \in {"load", "ack"} =>
          \A k \in Start(t) + 1 .. cur[t] : ~IsPayload(k)'
    BY <1>3 DEF Reads
  <1>5. /\ iter'[t] # 0 => setup'.manual_acknowledge /\ last'[t] # 0 /\ last'[t] <= iter'[t]
        /\ op'[t] \in {"acknowledge", "next"} => setup'.manual_acknowledge
        /\ op'[t] = "acknowledge" => iter'[t] = 0
        /\ op'[t] \in Reading => Start(t)' <= cur'[t]
    BY <1>2 DEF Reads
  <1> QED
    BY <1>2, <1>4, <1>5 DEF Reads

LEMMA ReadsNothing ==
  ASSUME NEW t \in Tokens, Reads(t), setup' = setup, op'[t] \notin Reading,
         iter'[t] = iter[t], iter[t] # 0 => last'[t] = last[t]
  PROVE  Reads(t)'
  BY DEF Reads, Reading

LEMMA ReadsFurther ==
  ASSUME Shapes, Grown, NEW t \in Tokens, Reads(t), setup' = setup,
         pc[t] \in {"load", "ack"}, op[t] \in Reading,
         iter'[t] = iter[t], last'[t] = last[t], op'[t] = op[t], cur'[t] = cur[t] + 1,
         NEW n \in 1 .. Len(items), n = cur[t] + 1,
         pc'[t] \in {"load", "ack"} => ~IsPayload(n)
  PROVE  Reads(t)'
  <1>1. cur[t] \in Nat /\ Len(items) \in Nat /\ iter[t] \in Nat /\ last[t] \in Nat
    BY DEF Shapes, Pointer, Procs
  <1>2. Start(t)' = Start(t) /\ Start(t) \in Nat
    BY <1>1 DEF Start
  <1>3. ASSUME NEW k \in Start(t) + 1 .. n PROVE IsPayload(k)' <=> IsPayload(k)
    <2>1. k \in 1 .. Len(items)
      BY <1>1, <1>2
    <2>2. items'[k].type = items[k].type
      BY <2>1 DEF Grown
    <2> QED
      BY <2>2 DEF IsPayload
  <1>4. ASSUME pc'[t] \in {"load", "ack"}, NEW k \in Start(t) + 1 .. n PROVE ~IsPayload(k)'
    <2>1. k = n \/ k \in Start(t) + 1 .. cur[t]
      BY <1>1, <1>2
    <2> QED
      BY <1>3, <1>4, <2>1 DEF Reads
  <1>5. /\ iter'[t] # 0 => setup'.manual_acknowledge /\ last'[t] # 0 /\ last'[t] <= iter'[t]
        /\ op'[t] \in {"acknowledge", "next"} => setup'.manual_acknowledge
        /\ op'[t] = "acknowledge" => iter'[t] = 0
        /\ op'[t] \in Reading => Start(t)' <= cur'[t]
    BY <1>1, <1>2 DEF Reads
  <1> QED
    BY <1>2, <1>4, <1>5 DEF Reads

\* A call of the queue is where it has started.
LEMMA ReadsFirst ==
  ASSUME Shapes, NEW t \in Tokens, setup' = setup, op'[t] \in Reading, last[t] # 0,
         last'[t] = last[t], Start(t)' = cur'[t], cur'[t] \in Nat,
         op'[t] \in {"acknowledge", "next"} => setup.manual_acknowledge,
         op'[t] = "acknowledge" => iter'[t] = 0,
         iter'[t] \in {0, iter[t]}, Reads(t)
  PROVE  Reads(t)'
  BY DEF Reads, Reading

LEMMA ReadKept ==
  ASSUME Shapes, Modes, Positions, Grown, AllRead, NEW p \in Tokens, Step(p), ~Still
  PROVE  Reads(p)'
  <1>1. /\ Reads(p) /\ ModeOf(p) /\ p \in Procs /\ setup' = setup
        /\ iter \in [Tokens -> Pointer] /\ last \in [Tokens -> Pointer]
    BY StepsAlone DEF AllRead, Modes, Alone, Procs, Shapes
  <1>2. Len(items) \in Nat /\ cur[p] \in Nat /\ last[p] \in Nat /\ iter[p] \in Nat
    BY <1>1 DEF Shapes, Pointer
  <1>3. ASSUME Subscribe(p) \/ Unsubscribe(p) PROVE Reads(p)'
    BY <1>1, <1>3, SubscribeIs, UnsubscribeIs, ReadsNothing DEF Now, Reading, token
  <1>4. ASSUME Pull(p) PROVE Reads(p)'
    <2>1. /\ op'[p] = "pull" /\ cur'[p] = last[p] /\ last[p] # 0
          /\ last'[p] = last[p] /\ iter'[p] = iter[p]
      BY <1>4, PullIs DEF Now, token
    <2>2. Start(p)' = cur'[p]
      BY <2>1 DEF Start
    <2> QED
      BY <1>1, <1>2, <2>1, <2>2, ReadsFirst DEF Reading
  <1>5. ASSUME Acknowledge(p) PROVE Reads(p)'
    <2>1. /\ op'[p] = "acknowledge" /\ cur'[p] = last[p] /\ last[p] # 0
          /\ last'[p] = last[p] /\ iter'[p] = 0 /\ setup.manual_acknowledge
      BY <1>1, <1>5, AcknowledgeIs DEF Now
    <2>2. Start(p)' = cur'[p]
      BY <2>1 DEF Start
    <2> QED
      BY <1>1, <1>2, <2>1, <2>2, ReadsFirst DEF Reading
  <1>6. ASSUME LookNext(p) PROVE Reads(p)'
    <2>1. /\ op'[p] = "next" /\ cur'[p] = (IF iter[p] # 0 THEN iter[p] ELSE last[p])
          /\ last[p] # 0 /\ last'[p] = last[p] /\ iter'[p] = iter[p]
          /\ setup.manual_acknowledge
      BY <1>6, LookNextIs DEF Now, token
    <2>2. Start(p)' = cur'[p] /\ cur'[p] \in Nat
      BY <1>2, <2>1 DEF Start
    <2> QED
      BY <1>1, <1>2, <2>1, <2>2, ReadsFirst DEF Reading
  <1>7. ASSUME AppendItem(p) \/ Link(p) PROVE Reads(p)'
    BY <1>1, <1>7, AppendItemIs, LinkIs, ReadsOn DEF Now, token
  <1>8. ASSUME Count(p) PROVE Reads(p)'
    <2>1. /\ op'[p] \in {op[p], "none"} /\ pc[p] = "count" /\ iter'[p] = iter[p]
          /\ last'[p] = last[p] \/ op[p] = "subscribe"
      BY <1>1, <1>8, CountIs, CountReads DEF Now
    <2>2. op'[p] \notin Reading
      BY <1>1, <2>1 DEF ModeOf, Reading, Finishing
    <2>3. iter[p] # 0 => last'[p] = last[p]
      BY <1>1, <2>1 DEF ModeOf, Reads
    <2> QED
      BY <1>1, <2>1, <2>2, <2>3, ReadsNothing
  <1>9. ASSUME MarkItem(p) \/ MarkOwn(p) \/ LeaveQueue(p) PROVE Reads(p)'
    BY <1>1, <1>9, MarkItemIs, MarkOwnIs, LeaveQueueIs, ReadsOn DEF Now, token
  <1>10. ASSUME Walk(p) PROVE Reads(p)'
    <2>1. /\ op'[p] = op[p] /\ pc[p] = "walk" /\ iter'[p] = iter[p] /\ last'[p] = last[p]
      BY <1>10, WalkIs DEF Now, token
    <2>2. op[p] \notin Reading
      BY <1>1, <2>1 DEF ModeOf, Reading, Finishing
    <2> QED
      BY <1>1, <2>1, <2>2, ReadsNothing
  <1>11. ASSUME Load(p) PROVE Reads(p)'
    <2>1. /\ pc[p] = "load" /\ op[p] \in Reading /\ op'[p] = op[p]
          /\ iter'[p] = iter[p] /\ last'[p] = last[p]
          /\ items' = items
      BY <1>1, <1>11, LoadIs DEF ModeOf, Now, token, shared, Reading, Finishing, Appending,
         Shapes, Ops
    <2>2. CASE NextOf(cur[p]) = 0 \/ Marking(p)
      <3>1. cur'[p] = cur[p]
        BY <1>11, <2>2, LoadIs DEF Now
      <3> QED
        BY <1>1, <2>1, <3>1, ReadsOn
    <2>3. CASE NextOf(cur[p]) # 0 /\ ~Marking(p)
      <3>1. PICK n \in 1 .. Len(items) : n = cur[p] + 1 /\ n = NextOf(cur[p])
        BY <1>2, <2>3 DEF NextOf
      <3>2. cur'[p] = n /\ (pc'[p] = "load" \/ pc'[p] = "return")
            /\ (pc'[p] = "load" => items[n].type # "payload")
        BY <1>11, <2>3, <3>1, LoadReads
      <3> QED
        BY <1>1, <2>1, <3>1, <3>2, ReadsFurther DEF IsPayload
    <2> QED
      BY <2>2, <2>3
  <1>12. ASSUME Ack(p) PROVE Reads(p)'
    <2>1. /\ pc[p] = "ack" /\ op[p] \in Reading /\ op'[p] = op[p]
          /\ iter'[p] = iter[p] /\ last'[p] = last[p]
      BY <1>1, <1>12, AckIs DEF ModeOf, Now, token, Reading, Finishing, Appending,
         Shapes, Ops
    <2>2. PICK n \in 1 .. Len(items) : n = cur[p] + 1 /\ n = nxt[p] /\ n # 0
      BY <1>2, <2>1, AckPlaced
    <2>3. /\ cur'[p] = n
          /\ pc'[p] \in {"load", "ack"} => items[n].type # "payload"
      BY <1>12, <2>2, AckIs DEF Now
    <2> QED
      BY <1>1, <2>1, <2>2, <2>3, ReadsFurther DEF IsPayload
  <1>13. ASSUME Return(p) PROVE Reads(p)'
    <2>1. pc[p] = "return" /\ op'[p] = "none"
      BY <1>13, ReturnIs DEF Now
    <2>2. CASE op[p] = "unsubscribe"
      <3>1. iter'[p] = 0
        BY <1>1, <1>13, <2>2, ReturnReads
      <3> QED
        BY <2>1, <3>1 DEF Reads, Reading
    <2>3. CASE op[p] \in {"pull", "acknowledge"}
      <3>1. /\ iter'[p] = iter[p]
            /\ last'[p] = IF Marking(p) THEN cur[p] ELSE last[p]
        BY <1>1, <1>13, <2>3, ReturnReads
      <3>2. iter[p] # 0 => last'[p] = last[p]
        BY <1>1, <2>3, <3>1 DEF Reads, Marking
      <3> QED
        BY <1>1, <2>1, <3>1, <3>2, ReadsNothing DEF Reading
    <2>4. CASE op[p] = "next"
      <3>1. /\ iter'[p] \in {0, cur[p]} /\ last'[p] = last[p]
        BY <1>1, <1>13, <2>4, ReturnReads
      <3>2. /\ setup.manual_acknowledge /\ last[p] # 0 /\ Start(p) <= cur[p]
            /\ last[p] <= Start(p) /\ Start(p) \in Nat
        BY <1>1, <1>2, <2>4 DEF Reads, ModeOf, Start, Reading
      <3>3. last[p] <= cur[p]
        BY <1>2, <3>2
      <3> QED
        BY <1>1, <2>1, <3>1, <3>2, <3>3 DEF Reads, Reading
    <2> QED
      BY <1>13, <2>2, <2>3, <2>4, ReturnReads
  <1>14. ASSUME CleanStep(p) PROVE Reads(p)'
    <2> DEFINE Cleans == /\ setup' = setup /\ iter'[p] = iter[p] /\ last'[p] = last[p]
                     /\ op'[p] = op[p] /\ cur'[p] = cur[p]
                     /\ pc'[p] \notin {"load", "ack"}
    <2>1. ASSUME Scan(p) \/ Reduce(p) \/ Uncount(p) PROVE Cleans
      BY <2>1, ScanIs, ReduceIs, UncountIs DEF Now, token
    <2>2. ASSUME CleanEnter(p) \/ CleanExit(p) PROVE Cleans
      BY <2>2, CleanEnterIs, CleanExitIs DEF Now, token
    <2>3. ASSUME Delete(p) \/ Resume(p) PROVE Cleans
      BY <2>3, DeleteIs, ResumeIs DEF Now, token, shared
    <2>4. Cleans
      BY <1>14, <2>1, <2>2, <2>3 DEF CleanStep
    <2> QED
      BY <1>1, <2>4, ReadsOn
  <1> QED
    BY <1>3, <1>4, <1>5, <1>6, <1>7, <1>8, <1>9, <1>10, <1>11, <1>12, <1>13, <1>14
       DEF Step, AppendStep, CallStep

LEMMA AllReadKept ==
  ASSUME Shapes, Modes, Positions, Grown, AllRead, [Next]_vars
  PROVE  AllRead'
  <1>1. CASE Still
    BY <1>1, ReadsOn DEF AllRead, Still, shared, local, token
  <1>2. ASSUME NEW p \in Procs, Step(p), ~Still PROVE AllRead'
    <2>1. ASSUME NEW t \in Tokens \ {p} PROVE Reads(t)'
      <3>1. /\ Reads(t) /\ setup' = setup /\ t \in Procs
            /\ pc'[t] = pc[t] /\ op'[t] = op[t] /\ cur'[t] = cur[t] /\ last'[t] = last[t]
        BY <1>2, StepsAlone DEF AllRead, Alone, Others, Procs
      <3>2. iter'[t] = iter[t]
        BY <1>2, StepsLookAlone
      <3> QED
        BY <3>1, <3>2, ReadsOn
    <2>2. p \in Tokens => Reads(p)'
      BY <1>2, ReadKept
    <2> QED
      BY <2>1, <2>2 DEF AllRead
  <1> QED
    BY <1>1, <1>2, SomebodySteps

-----------------------------------------------------------------------------
(* How many messages there are up to an item, and what is behind one.      *)

Payloads(s, k) == {j \in 1 .. k : j # 0 /\ s[j].type = "payload"}
Num(s, k) == Cardinality(Payloads(s, k))
Rest(m, n) == [i \in 1 .. n - m |-> m + i]

LEMMA PayloadsAreFinite ==
  ASSUME NEW s, NEW k \in Nat PROVE IsFiniteSet(Payloads(s, k)) /\ Num(s, k) \in Nat
  <1>1. IsFiniteSet(1 .. k) /\ Payloads(s, k) \subseteq 1 .. k
    BY FS_Interval DEF Payloads
  <1> QED
    BY <1>1, FS_Subset, FS_CardinalityType DEF Num

LEMMA NumGrows ==
  ASSUME NEW s, NEW m \in Nat, NEW n \in Nat, m <= n
  PROVE  Num(s, m) <= Num(s, n) /\ Num(s, m) \in Nat /\ Num(s, n) \in Nat
  <1>1. Payloads(s, m) \subseteq Payloads(s, n)
    BY DEF Payloads
  <1> QED
    BY <1>1, PayloadsAreFinite, FS_Subset DEF Num

LEMMA NumFlat ==
  ASSUME NEW s, NEW m \in Nat, NEW n \in Nat, m <= n,
         \A k \in m + 1 .. n : s[k].type # "payload"
  PROVE  Num(s, m) = Num(s, n)
  <1>1. Payloads(s, m) = Payloads(s, n)
    BY DEF Payloads
  <1> QED
    BY <1>1 DEF Num

LEMMA NumNext ==
  ASSUME NEW s, NEW m \in Nat, NEW n \in Nat, n = m + 1, s[n].type = "payload"
  PROVE  Num(s, n) = Num(s, m) + 1
  <1>1. Payloads(s, n) = Payloads(s, m) \union {n} /\ n \notin Payloads(s, m)
    BY DEF Payloads
  <1>2. IsFiniteSet(Payloads(s, m))
    BY PayloadsAreFinite
  <1> QED
    BY <1>1, <1>2, FS_AddElement DEF Num

LEMMA NumSame ==
  ASSUME NEW s, NEW r, NEW n \in Nat, \A k \in 1 .. n : r[k].type = s[k].type
  PROVE  Num(r, n) = Num(s, n)
  <1>1. Payloads(r, n) = Payloads(s, n)
    BY DEF Payloads
  <1> QED
    BY <1>1 DEF Num

LEMMA RestIs ==
  ASSUME NEW m \in Nat, NEW n \in Nat, m <= n
  PROVE  /\ Rest(m, n) \in Seq(Nat) /\ Len(Rest(m, n)) = n - m
         /\ \A i \in 1 .. n - m : Rest(m, n)[i] = m + i
  <1>1. \A i \in 1 .. n - m : m + i \in Nat
    OBVIOUS
  <1>2. Rest(m, n) \in [1 .. n - m -> Nat] /\ n - m \in Nat
    BY <1>1 DEF Rest
  <1>3. Rest(m, n) \in Seq(Nat)
    BY <1>2
  <1> QED
    BY <1>2, <1>3 DEF Rest

LEMMA RestNone == ASSUME NEW m \in Nat PROVE Rest(m, m) = << >>
  <1>1. Rest(m, m) \in Seq(Nat) /\ Len(Rest(m, m)) = 0
    BY RestIs
  <1> QED
    BY <1>1, EmptySeq

LEMMA RestMore ==
  ASSUME NEW m \in Nat, NEW n \in Nat, m <= n
  PROVE  Rest(m, n + 1) = Append(Rest(m, n), n + 1)
  <1>1. /\ Rest(m, n) \in Seq(Nat) /\ Len(Rest(m, n)) = n - m
        /\ \A i \in 1 .. n - m : Rest(m, n)[i] = m + i
    BY RestIs
  <1>2. /\ Rest(m, n + 1) \in Seq(Nat) /\ Len(Rest(m, n + 1)) = n - m + 1
        /\ \A i \in 1 .. n - m + 1 : Rest(m, n + 1)[i] = m + i
    <2>1. n + 1 \in Nat /\ m <= n + 1 /\ (n + 1) - m = n - m + 1
      OBVIOUS
    <2> QED
      BY <2>1, RestIs
  <1> DEFINE s == Rest(m, n)
             r == Rest(m, n + 1)
  <1> HIDE DEF s, r
  <1>3. /\ Append(s, n + 1) \in Seq(Nat) /\ Len(Append(s, n + 1)) = n - m + 1
        /\ \A i \in 1 .. n - m : Append(s, n + 1)[i] = m + i
        /\ Append(s, n + 1)[n - m + 1] = n + 1
    BY <1>1 DEF s
  <1>4. \A i \in 1 .. Len(r) : r[i] = Append(s, n + 1)[i]
    <2>1. SUFFICES ASSUME NEW i \in 1 .. n - m + 1 PROVE r[i] = Append(s, n + 1)[i]
      BY <1>2 DEF r
    <2>2. r[i] = m + i
      BY <1>2 DEF r
    <2>3. CASE i \in 1 .. n - m
      BY <1>3, <2>2, <2>3
    <2>4. CASE i = n - m + 1
      BY <1>3, <2>2, <2>4
    <2>5. i \in 1 .. n - m \/ i = n - m + 1
      OBVIOUS
    <2> QED
      BY <2>3, <2>4, <2>5
  <1>5. r = Append(s, n + 1)
    BY <1>2, <1>3, <1>4, SeqEqual DEF r
  <1> QED
    BY <1>5 DEF r, s

LEMMA RestTail ==
  ASSUME NEW m \in Nat, NEW n \in Nat, m < n
  PROVE  Rest(m, n) # << >> /\ Tail(Rest(m, n)) = Rest(m + 1, n)
  <1>1. /\ Rest(m, n) \in Seq(Nat) /\ Len(Rest(m, n)) = n - m /\ n - m > 0
        /\ \A i \in 1 .. n - m : Rest(m, n)[i] = m + i
    BY RestIs
  <1>2. /\ Rest(m + 1, n) \in Seq(Nat) /\ Len(Rest(m + 1, n)) = n - m - 1
        /\ \A i \in 1 .. n - m - 1 : Rest(m + 1, n)[i] = m + 1 + i
    <2>1. m + 1 \in Nat /\ m + 1 <= n /\ n - (m + 1) = n - m - 1
      OBVIOUS
    <2> QED
      BY <2>1, RestIs
  <1> DEFINE s == Rest(m, n)
             r == Rest(m + 1, n)
  <1> HIDE DEF s, r
  <1>3. /\ Tail(s) \in Seq(Nat) /\ Len(Tail(s)) = n - m - 1 /\ s # << >>
        /\ \A i \in 1 .. n - m - 1 : Tail(s)[i] = s[i + 1]
    BY <1>1 DEF s
  <1>4. \A i \in 1 .. Len(r) : r[i] = Tail(s)[i]
    <2>1. SUFFICES ASSUME NEW i \in 1 .. n - m - 1 PROVE r[i] = Tail(s)[i]
      BY <1>2 DEF r
    <2>2. r[i] = m + 1 + i /\ i + 1 \in 1 .. n - m
      BY <1>2 DEF r
    <2>3. s[i + 1] = m + (i + 1)
      BY <1>1, <2>2 DEF s
    <2> QED
      BY <1>3, <2>2, <2>3
  <1>5. r = Tail(s)
    BY <1>2, <1>3, <1>4, SeqEqual DEF r
  <1> QED
    BY <1>3, <1>5 DEF r, s

-----------------------------------------------------------------------------
(* Which steps the users of the queue do not see.                          *)

Answers(t) == IF op[t] \in {"pull", "next"} /\ pc[t] \in Finishing THEN Message(t)
              ELSE answer[t]

LEMMA NumberIs == ASSUME NEW k PROVE Number(k) = Num(items, k)
  BY DEF Number, Num, Payloads, IsPayload

LEMMA SeenIs ==
  ASSUME setup.under_gil, NEW t \in Tokens
  PROVE  /\ Accepts = Num(items, Len(items))
         /\ t \in Listening <=> Live(t)
         /\ ToRead(t) = IF Live(t) THEN Rest(Num(items, Cursor(t)), Num(items, Len(items)))
                        ELSE << >>
         /\ Looked(t) = IF Live(t) /\ Ahead(t) # 0
                          THEN Num(items, Ahead(t)) - Num(items, Cursor(t)) ELSE 0
         /\ Answered(t) = Answers(t)
  BY NumberIs DEF Seen, Accepts, Listening, ToRead, Unread, Rest, Looked, Answered, Answers

LEMMA SeenThen ==
  ASSUME setup.under_gil, setup' = setup, NEW t \in Tokens
  PROVE  /\ Accepts' = Num(items', Len(items'))
         /\ t \in Listening' <=> Live(t)'
         /\ ToRead(t)' = IF Live(t)'
                           THEN Rest(Num(items', Cursor(t)'), Num(items', Len(items')))
                           ELSE << >>
         /\ Looked(t)' = IF Live(t)' /\ Ahead(t)' # 0
                           THEN Num(items', Ahead(t)') - Num(items', Cursor(t)') ELSE 0
         /\ Answered(t)' = Answers(t)'
  <1>1. /\ Number(Len(items))' = Num(items', Len(items'))
        /\ Number(Cursor(t))' = Num(items', Cursor(t)')
        /\ Number(Ahead(t))' = Num(items', Ahead(t)')
    BY DEF Number, Num, Payloads, IsPayload
  <1>2. setup'.under_gil
    OBVIOUS
  <1>3. Accepts' = Num(items', Len(items')) /\ (t \in Listening' <=> Live(t)')
    BY <1>1, <1>2 DEF Seen, Accepts, Listening
  <1>4. ToRead(t)' = IF Live(t)'
                       THEN Rest(Num(items', Cursor(t)'), Num(items', Len(items')))
                       ELSE << >>
    BY <1>1, <1>2 DEF Seen, ToRead, Unread, Rest
  <1>5. /\ Looked(t)' = IF Live(t)' /\ Ahead(t)' # 0
                          THEN Num(items', Ahead(t)') - Num(items', Cursor(t)') ELSE 0
        /\ Answered(t)' = Answers(t)'
    BY <1>1, <1>2 DEF Seen, Looked, Answered, Answers
  <1> QED
    BY <1>3, <1>4, <1>5

LEMMA MessageIs ==
  ASSUME NEW t \in Tokens
  PROVE  /\ Message(t) = IF cur[t] # Start(t) /\ IsPayload(cur[t]) THEN Num(items, cur[t])
                         ELSE 0
         /\ Message(t)' = IF cur'[t] # Start(t)' /\ cur'[t] # 0
                             /\ items'[cur'[t]].type = "payload"
                            THEN Num(items', cur'[t]) ELSE 0
  <1>1. Number(cur[t]) = Num(items, cur[t]) /\ Number(cur[t])' = Num(items', cur'[t])
    BY DEF Number, Num, Payloads, IsPayload
  <1> QED
    BY <1>1 DEF Message, IsPayload

\* What a token has read and returned has not changed.
Keeps(t) == /\ Live(t)' <=> Live(t)
            /\ Live(t) => Cursor(t)' = Cursor(t) /\ Ahead(t)' = Ahead(t)
            /\ Answers(t)' = Answers(t)
Same(t) == /\ t \in Listening' <=> t \in Listening
           /\ ToRead(t)' = ToRead(t) /\ Looked(t)' = Looked(t) /\ Answered(t)' = Answered(t)

LEMMA NumKept ==
  ASSUME Grown, NEW k \in 0 .. Len(items) PROVE Num(items', k) = Num(items, k)
  BY NumSame DEF Grown

LEMMA CursorIn ==
  ASSUME Shapes, NEW t \in Tokens
  PROVE  Cursor(t) \in 0 .. Len(items) /\ Ahead(t) \in 0 .. Len(items)
  <1>1. /\ cur[t] \in 0 .. Len(items) /\ own[t] \in 0 .. Len(items)
        /\ last[t] \in 0 .. Len(items) /\ iter[t] \in 0 .. Len(items)
    BY DEF Shapes, Pointer, Procs
  <1>2. Cursor(t) \in {own[t], cur[t], last[t]} /\ Ahead(t) \in {0, cur[t], iter[t]}
    BY DEF Cursor, Ahead
  <1> QED
    BY <1>1, <1>2

LEMMA KeepsSame ==
  ASSUME Shapes, Grown, setup.under_gil, setup' = setup, NEW t \in Tokens, Keeps(t),
         Num(items', Len(items')) = Num(items, Len(items))
  PROVE  Same(t)
  <1>1. Cursor(t) \in 0 .. Len(items) /\ Ahead(t) \in 0 .. Len(items)
    BY CursorIn
  <1>2. /\ Num(items', Cursor(t)) = Num(items, Cursor(t))
        /\ Num(items', Ahead(t)) = Num(items, Ahead(t))
    BY <1>1, NumKept
  <1>3. /\ t \in Listening' <=> t \in Listening
        /\ Answered(t)' = Answered(t)
    BY SeenIs, SeenThen DEF Keeps
  <1>4. ToRead(t)' = ToRead(t) /\ Looked(t)' = Looked(t)
    BY <1>2, SeenIs, SeenThen DEF Keeps
  <1> QED
    BY <1>3, <1>4 DEF Same

LEMMA AnswersStay ==
  ASSUME Shapes, Grown, setup' = setup, NEW t \in Tokens, op'[t] = op[t], cur'[t] = cur[t],
         last'[t] = last[t], iter'[t] = iter[t], answer'[t] = answer[t],
         pc'[t] \in Finishing <=> pc[t] \in Finishing
  PROVE  Answers(t)' = Answers(t)
  <1>1. cur[t] \in 0 .. Len(items)
    BY DEF Shapes, Pointer, Procs
  <1>2. Num(items', cur[t]) = Num(items, cur[t])
    BY <1>1, NumKept
  <1>3. Start(t)' = Start(t)
    BY DEF Start
  <1>4. cur[t] # 0 => items'[cur[t]].type = items[cur[t]].type
    BY <1>1 DEF Grown
  <1>5. Message(t)' = Message(t)
    BY <1>2, <1>3, <1>4, MessageIs DEF IsPayload
  <1> QED
    BY <1>5 DEF Answers

LEMMA RestingKeeps ==
  ASSUME Shapes, Grown, setup' = setup, NEW t \in Tokens, pc'[t] = pc[t], op'[t] = op[t],
         cur'[t] = cur[t], own'[t] = own[t], last'[t] = last[t], iter'[t] = iter[t],
         answer'[t] = answer[t]
  PROVE  Keeps(t)
  <1>1. Answers(t)' = Answers(t)
    BY AnswersStay
  <1>2. Live(t)' <=> Live(t)
    BY DEF Live
  <1>3. Cursor(t)' = Cursor(t)
    BY DEF Cursor, Marking
  <1>4. op[t] = "next" /\ pc[t] = "return" => Message(t)' = Message(t)
    BY <1>1 DEF Answers, Finishing
  <1>5. Ahead(t)' = Ahead(t)
    BY <1>4 DEF Ahead
  <1> QED
    BY <1>1, <1>2, <1>3, <1>5 DEF Keeps

LEMMA OthersKeep ==
  ASSUME Shapes, Grown, NEW p \in Procs, Step(p), ~Still, NEW t \in Tokens \ {p}
  PROVE  Keeps(t)
  <1>1. /\ setup' = setup /\ t \in Procs /\ pc'[t] = pc[t] /\ op'[t] = op[t]
        /\ cur'[t] = cur[t] /\ own'[t] = own[t] /\ last'[t] = last[t]
    BY StepsAlone DEF Alone, Others, Procs
  <1>2. iter'[t] = iter[t] /\ answer'[t] = answer[t]
    BY StepsLookAlone
  <1> QED
    BY <1>1, <1>2, RestingKeeps

LEMMA StepKeeps ==
  ASSUME Shapes, Modes, Owns, Positions, Grown, AllRead, NEW p \in Tokens, Step(p), ~Still,
         ~AppendItem(p), ~Acknowledge(p), pc[p] \in {"load", "ack"} => pc'[p] \notin Finishing
  PROVE  Keeps(p)
  <1>1. /\ Reads(p) /\ ModeOf(p) /\ p \in Procs /\ setup' = setup
        /\ op[p] \in Ops /\ pc[p] \in Places
        /\ iter \in [Tokens -> Pointer] /\ last \in [Tokens -> Pointer]
        /\ answer \in [Tokens -> Nat]
    BY StepsAlone DEF AllRead, Modes, Alone, Procs, Shapes
  <1>2. Len(items) \in Nat /\ cur[p] \in Nat /\ last[p] \in Nat /\ iter[p] \in Nat
    BY <1>1 DEF Shapes, Pointer
  <1>3. ASSUME Subscribe(p) PROVE Keeps(p)
    BY <1>1, <1>3, SubscribeIs DEF Now, token, Keeps, Live, Answers, Finishing, ModeOf
  <1>4. ASSUME Unsubscribe(p) PROVE Keeps(p)
    BY <1>1, <1>4, UnsubscribeIs DEF Now, token, Keeps, Live, Answers, Finishing, ModeOf,
       Cursor, Ahead, Marking
  <1>5. ASSUME Pull(p) PROVE Keeps(p)
    BY <1>1, <1>5, PullIs DEF Now, token, Keeps, Live, Answers, Finishing, ModeOf, Cursor,
       Ahead, Marking
  <1>6. ASSUME LookNext(p) PROVE Keeps(p)
    BY <1>1, <1>6, LookNextIs DEF Now, token, Keeps, Live, Answers, Finishing, ModeOf,
       Cursor, Ahead, Marking
  <1>7. ASSUME Link(p) PROVE Keeps(p)
    <2>1. /\ pc[p] = "link" /\ pc'[p] = "count" /\ op'[p] = op[p] /\ own'[p] = own[p]
          /\ cur'[p] = cur[p] /\ last'[p] = last[p] /\ iter'[p] = iter[p]
          /\ answer'[p] = answer[p]
      BY <1>1, <1>7, LinkIs DEF Now, token
    <2> QED
      BY <1>1, <2>1 DEF Keeps, Live, Answers, Finishing, Cursor, Ahead, Marking
  <1>8. ASSUME Count(p) PROVE Keeps(p)
    <2>1. pc[p] = "count" /\ iter'[p] = iter[p] /\ answer'[p] = answer[p]
          /\ op[p] \in {"subscribe", "unsubscribe"}
      BY <1>1, <1>8, CountIs, CountReads DEF ModeOf, Reading, Finishing, Ops
    <2>2. CASE op[p] = "subscribe"
      <3>1. /\ pc'[p] = "idle" /\ op'[p] = "none" /\ last'[p] = own[p] /\ own[p] # 0
        BY <1>1, <1>8, <2>1, <2>2, CountIs DEF Now, Owns, Holding
      <3> QED
        BY <1>1, <2>1, <2>2, <3>1 DEF Keeps, Live, Answers, Finishing, Cursor, Ahead,
           Marking
    <2>3. CASE op[p] = "unsubscribe"
      <3>1. /\ pc'[p] = "mark" /\ op'[p] = "unsubscribe"
        BY <1>1, <1>8, <2>1, <2>3, CountIs DEF Now
      <3> QED
        BY <1>1, <2>1, <2>3, <3>1 DEF Keeps, Live, Answers, Finishing
    <2> QED
      BY <2>1, <2>2, <2>3
  <1>9. ASSUME MarkItem(p) \/ Walk(p) \/ MarkOwn(p) \/ LeaveQueue(p) PROVE Keeps(p)
    <2>1. /\ pc[p] \in {"mark", "walk", "markOwn", "leave"} /\ op'[p] = op[p]
          /\ pc'[p] \in {"mark", "walk", "markOwn", "leave", "clean"}
          /\ answer'[p] = answer[p]
      BY <1>1, <1>9, MarkItemIs, WalkIs, MarkOwnIs, LeaveQueueIs DEF Now, token
    <2>2. op[p] = "unsubscribe"
      BY <1>1, <2>1 DEF ModeOf, Appending, Reading, Finishing, Ops
    <2> QED
      BY <2>1, <2>2 DEF Keeps, Live, Answers
  <1>10. ASSUME Load(p) \/ Ack(p) PROVE Keeps(p)
    <2>1. /\ pc[p] \in {"load", "ack"} /\ pc'[p] \in {"load", "ack"} /\ op'[p] = op[p]
          /\ last'[p] = last[p] /\ iter'[p] = iter[p] /\ answer'[p] = answer[p]
      BY <1>1, <1>10, LoadIs, AckIs DEF Now, token, Finishing
    <2>2. op[p] \in Reading
      BY <1>1, <2>1 DEF ModeOf, Appending, Ops, Reading
    <2> QED
      BY <1>1, <2>1, <2>2 DEF Keeps, Live, Answers, Cursor, Ahead, Finishing, Reading
  <1>11. ASSUME Return(p) PROVE Keeps(p)
    <2>1. /\ pc[p] = "return" /\ pc'[p] = "idle" /\ op'[p] = "none"
      BY <1>11, ReturnIs DEF Now
    <2>2. CASE op[p] = "unsubscribe"
      <3>1. last'[p] = 0 /\ answer'[p] = answer[p]
        BY <1>1, <1>11, <2>2, ReturnReads
      <3> QED
        BY <2>1, <2>2, <3>1 DEF Keeps, Live, Answers
    <2>3. CASE op[p] \in {"pull", "acknowledge"}
      <3>1. /\ iter'[p] = iter[p]
            /\ last'[p] = IF Marking(p) THEN cur[p] ELSE last[p]
            /\ answer'[p] = IF op[p] = "pull" THEN Message(p) ELSE answer[p]
        BY <1>1, <1>11, <2>3, ReturnReads
      <3>2. last[p] # 0 /\ Start(p) = last[p] /\ Start(p) <= cur[p]
        BY <1>1, <2>3 DEF ModeOf, Reading, Start, Reads
      <3>3. last'[p] # 0
        BY <1>2, <3>1, <3>2
      <3>4. Live(p) /\ Live(p)'
        BY <2>1, <2>3, <3>2, <3>3 DEF Live
      <3>5. Cursor(p)' = Cursor(p) /\ Ahead(p)' = Ahead(p)
        BY <2>1, <2>3, <3>1 DEF Cursor, Ahead, Finishing, Marking
      <3>6. Answers(p)' = Answers(p)
        BY <2>1, <2>3, <3>1 DEF Answers, Finishing
      <3> QED
        BY <3>4, <3>5, <3>6 DEF Keeps
    <2>4. CASE op[p] = "next"
      <3>1. /\ iter'[p] = (IF Message(p) = 0 THEN 0 ELSE cur[p]) /\ last'[p] = last[p]
            /\ answer'[p] = Message(p)
        BY <1>1, <1>11, <2>4, ReturnReads
      <3>2. last[p] # 0
        BY <1>1, <2>4 DEF ModeOf, Reading
      <3>3. Live(p) /\ Live(p)'
        BY <2>1, <2>4, <3>1, <3>2 DEF Live
      <3>4. Cursor(p)' = Cursor(p) /\ Ahead(p)' = Ahead(p)
        BY <2>1, <2>4, <3>1 DEF Cursor, Ahead, Marking
      <3>5. Answers(p)' = Answers(p)
        BY <2>1, <2>4, <3>1 DEF Answers, Finishing
      <3> QED
        BY <3>3, <3>4, <3>5 DEF Keeps
    <2> QED
      BY <1>11, <2>2, <2>3, <2>4, ReturnReads
  <1>12. ASSUME CleanStep(p) PROVE Keeps(p)
    <2> DEFINE Cleans == /\ pc[p] \in Finishing \ {"return"} /\ pc'[p] \in Finishing
                         /\ op'[p] = op[p] /\ cur'[p] = cur[p] /\ UNCHANGED token
    <2>6. CleanEnter(p) => Cleans
      BY <1>1, CleanEnterIs DEF Now, Finishing
    <2>7. Scan(p) => Cleans
      BY <1>1, ScanIs DEF Now, Finishing
    <2>8. Reduce(p) \/ Uncount(p) \/ Resume(p) => Cleans
      BY <1>1, ReduceIs, UncountIs, ResumeIs DEF Now, Finishing
    <2>9. Delete(p) => Cleans
      BY <1>1, DeleteIs DEF Now, Finishing
    <2>10. CleanExit(p) => Cleans
      BY <1>1, CleanExitIs DEF Now, Finishing
    <2>1. /\ pc[p] \in Finishing \ {"return"} /\ pc'[p] \in Finishing /\ op'[p] = op[p]
          /\ cur'[p] = cur[p] /\ last'[p] = last[p] /\ iter'[p] = iter[p]
          /\ answer'[p] = answer[p]
      BY <1>12, <2>6, <2>7, <2>8, <2>9, <2>10 DEF CleanStep, token
    <2>2. Answers(p)' = Answers(p)
      BY <1>1, <2>1, AnswersStay
    <2>3. op[p] \notin {"subscribe", "next"}
      BY <1>1, <2>1 DEF ModeOf, Appending, Finishing
    <2>4. Live(p)' <=> Live(p)
      BY <2>1, <2>3 DEF Live, Finishing
    <2>5. Cursor(p)' = Cursor(p) /\ Ahead(p)' = Ahead(p)
      BY <1>1, <2>1, <2>3 DEF Cursor, Ahead, Marking
    <2> QED
      BY <2>2, <2>4, <2>5 DEF Keeps
  <1>13. ~Push(p) \/ p \notin Publishers
    OBVIOUS
  <1> QED
    BY <1>3, <1>4, <1>5, <1>6, <1>7, <1>8, <1>9, <1>10, <1>11, <1>12, <1>13
       DEF Step, AppendStep, CallStep

-----------------------------------------------------------------------------
(* What a token finds.                                                     *)

\* A call that stops has found the first message behind its start, or there is
\* none: under the interpreter lock, every item behind it is linked.
Found(t, a, b) ==
  /\ a = Start(t) /\ a = Start(t)' /\ b = cur'[t] /\ a <= b /\ a # 0
  /\ \/ /\ Message(t)' = 0 /\ Num(items, b) = Num(items, a)
        /\ Num(items, Len(items)) = Num(items, a)
     \/ Message(t)' = Num(items, a) + 1 /\ Num(items, b) = Num(items, a) + 1

LEMMA EndOfList ==
  ASSUME Shapes, LockHeld, LinksDone, setup.under_gil, NEW t \in Tokens, Load(t),
         NextOf(cur[t]) = 0
  PROVE  cur[t] = Len(items)
  <1>0. Step(t)
    BY DEF Step, CallStep
  <1>1. pc[t] = "load" /\ Step(t) /\ t \in Procs /\ cur[t] \in 0 .. Len(items)
        /\ Len(items) \in Nat
    BY <1>0 DEF Load, At, Procs, Shapes, Pointer
  <1>2. SUFFICES ASSUME cur[t] # Len(items) PROVE FALSE
    OBVIOUS
  <1>3. PICK n \in 1 .. Len(items) : n = cur[t] + 1 /\ cur[t] < Len(items)
    BY <1>1, <1>2
  <1>4. ~items[n].linked
    BY <1>3 DEF NextOf
  <1>5. PICK q \in Procs : pc[q] = "link"
    BY <1>4 DEF LinksDone
  <1> QED
    BY <1>1, <1>5, OthersRest

LEMMA TokenFinds ==
  ASSUME Shapes, Modes, Positions, LockHeld, LinksDone, Grown, AllRead, setup.under_gil,
         NEW t \in Tokens, Load(t) \/ Ack(t), ~Still, pc'[t] \in Finishing
  PROVE  /\ op[t] \in Reading /\ op'[t] = op[t] /\ pc[t] \in {"load", "ack"}
         /\ last'[t] = last[t] /\ iter'[t] = iter[t] /\ answer'[t] = answer[t]
         /\ last[t] # 0 /\ setup' = setup /\ Len(items') = Len(items)
         /\ \E a, b \in 0 .. Len(items) : Found(t, a, b)
  <1>1. /\ Reads(t) /\ ModeOf(t) /\ t \in Procs /\ Len(items) \in Nat
        /\ cur[t] \in 0 .. Len(items) /\ last[t] \in 0 .. Len(items)
        /\ iter[t] \in 0 .. Len(items)
    BY DEF AllRead, Modes, Procs, Shapes, Pointer
  <1>2. /\ pc[t] \in {"load", "ack"} /\ op'[t] = op[t]
        /\ last'[t] = last[t] /\ iter'[t] = iter[t] /\ answer'[t] = answer[t]
        /\ setup' = setup
    BY <1>1, LoadIs, AckIs DEF Now, token, shared
  <1>3. op[t] \in Reading /\ last[t] # 0
    BY <1>1, <1>2 DEF ModeOf, Appending, Ops, Reading, Shapes
  <1>4. Len(items') = Len(items)
    <2>1. Load(t) => items' = items
      BY LoadIs DEF shared
    <2>2. Ack(t) => Mark(cur[t]) /\ cur[t] \in 1 .. Len(items)
      BY AckIs, AckPlaced
    <2> QED
      BY <2>1, <2>2, ItemMarked
  <1>5. PICK a \in 0 .. Len(items) : a = Start(t) /\ a # 0
    BY <1>1, <1>3 DEF Start
  <1>6. a = Start(t)'
    BY <1>2, <1>5 DEF Start
  <1>7. /\ a <= cur[t] /\ \A k \in a + 1 .. cur[t] : ~IsPayload(k)
    BY <1>1, <1>2, <1>3, <1>5 DEF Reads
  <1>8. \A k \in a + 1 .. cur[t] : items[k].type # "payload"
    BY <1>1, <1>7 DEF IsPayload
  <1>9. Num(items, cur[t]) = Num(items, a)
    <2>1. PICK c \in Nat : c = cur[t]
      BY <1>1
    <2>2. a \in Nat /\ a <= c /\ \A k \in a + 1 .. c : items[k].type # "payload"
      BY <1>1, <1>7, <1>8, <2>1
    <2>3. Num(items, a) = Num(items, c)
      BY <2>2, NumFlat
    <2> QED
      BY <2>1, <2>3
  <1>10. CASE cur'[t] = cur[t] /\ cur[t] = Len(items)
    <2>1. Message(t)' = 0
      <3>1. SUFFICES ASSUME cur[t] # a, cur[t] # 0, items'[cur[t]].type = "payload"
                     PROVE  FALSE
        BY <1>6, <1>10, MessageIs
      <3>2. cur[t] \in a + 1 .. cur[t] /\ cur[t] \in 1 .. Len(items)
        BY <1>1, <1>7, <3>1
      <3> QED
        BY <1>8, <3>1, <3>2 DEF Grown
    <2>2. Found(t, a, cur[t])
      BY <1>5, <1>6, <1>7, <1>9, <1>10, <2>1 DEF Found
    <2> QED
      BY <1>1, <1>2, <1>3, <1>4, <2>2
  <1>11. ASSUME NEW n \in 1 .. Len(items), n = cur[t] + 1, cur'[t] = n,
                items[n].type = "payload"
         PROVE  Found(t, a, n)
    <2>1. Num(items, n) = Num(items, a) + 1
      BY <1>1, <1>9, <1>11, NumNext
    <2>2. items'[n].type = "payload" /\ Num(items', n) = Num(items, n)
      BY <1>11, NumKept DEF Grown
    <2>3. n # a /\ n # 0 /\ a <= n
      BY <1>1, <1>7, <1>11
    <2>4. Message(t)' = Num(items, n)
      BY <1>6, <1>11, <2>2, <2>3, MessageIs
    <2> QED
      BY <1>5, <1>6, <1>11, <2>1, <2>3, <2>4 DEF Found
  <1>12. CASE Load(t) /\ NextOf(cur[t]) = 0
    <2>1. cur[t] = Len(items) /\ cur'[t] = cur[t]
      BY <1>12, EndOfList, LoadIs DEF Now
    <2> QED
      BY <1>10, <2>1
  <1>13. CASE Load(t) /\ NextOf(cur[t]) # 0
    <2>1. ~Marking(t)
      BY <1>13, LoadIs DEF Now, Finishing
    <2>2. PICK n \in 1 .. Len(items) : n = cur[t] + 1 /\ n = NextOf(cur[t])
      BY <1>1, <1>13 DEF NextOf
    <2>3. cur'[t] = n /\ items[n].type = "payload"
      BY <1>13, <2>1, <2>2, LoadReads DEF Finishing
    <2> QED
      BY <1>1, <1>2, <1>3, <1>4, <1>11, <2>2, <2>3
  <1>14. CASE Ack(t)
    <2>1. pc[t] = "ack"
      BY <1>14, AckIs
    <2>2. PICK n \in 1 .. Len(items) : n = cur[t] + 1 /\ n = nxt[t] /\ n # 0
      BY <1>1, <2>1, AckPlaced
    <2>3. cur'[t] = n /\ items[n].type = "payload"
      BY <1>14, <2>2, AckIs DEF Now, Finishing
    <2> QED
      BY <1>1, <1>2, <1>3, <1>4, <1>11, <2>2, <2>3
  <1> QED
    BY <1>12, <1>13, <1>14

-----------------------------------------------------------------------------
(* Every step is one of Multicast's or one its users do not see.           *)

LEMMA ListeningIs == Listening \subseteq Tokens /\ Listening' \subseteq Tokens
  BY DEF Listening, Seen

LEMMA SameIsUnseen ==
  ASSUME setup' = setup, Accepts' = Accepts, \A t \in Tokens : Same(t)
  PROVE  UNCHANGED Promise!vars
  <1>1. Listening' = Listening
    BY ListeningIs DEF Same
  <1>2. /\ [t \in Tokens |-> ToRead(t)]' = [t \in Tokens |-> ToRead(t)]
        /\ [t \in Tokens |-> Looked(t)]' = [t \in Tokens |-> Looked(t)]
        /\ [t \in Tokens |-> Answered(t)]' = [t \in Tokens |-> Answered(t)]
    BY DEF Same
  <1> QED
    BY <1>1, <1>2 DEF Promise!vars

LEMMA ThreadsAreUnseen ==
  ASSUME ~setup.under_gil, setup' = setup PROVE UNCHANGED Promise!vars
  <1>1. ~setup'.under_gil
    OBVIOUS
  <1>2. Accepts = 0 /\ Accepts' = 0
    BY <1>1 DEF Accepts, Seen
  <1>3. Listening = {} /\ Listening' = {}
    BY <1>1 DEF Listening, Seen
  <1>4. \A t \in Tokens : /\ ToRead(t) = << >> /\ ToRead(t)' = << >>
                          /\ Looked(t) = 0 /\ Looked(t)' = 0
                          /\ Answered(t) = 0 /\ Answered(t)' = 0
    BY <1>1 DEF ToRead, Looked, Answered, Seen
  <1> QED
    BY <1>2, <1>3, <1>4, SameIsUnseen DEF Same

LEMMA PushIsPromised ==
  ASSUME setup' = setup, Accepts' = Accepts + 1,
         \A t \in Tokens :
           /\ t \in Listening' <=> t \in Listening
           /\ ToRead(t)' = IF t \in Listening THEN Append(ToRead(t), Accepts + 1)
                           ELSE ToRead(t)
           /\ Looked(t)' = Looked(t) /\ Answered(t)' = Answered(t)
  PROVE  Promise!Push
  <1>1. Listening' = Listening
    BY ListeningIs
  <1>2. /\ [t \in Tokens |-> Looked(t)]' = [t \in Tokens |-> Looked(t)]
        /\ [t \in Tokens |-> Answered(t)]' = [t \in Tokens |-> Answered(t)]
    OBVIOUS
  <1> QED
    BY <1>1, <1>2 DEF Promise!Push

LEMMA SubscribeIsPromised ==
  ASSUME setup' = setup, Accepts' = Accepts, NEW p \in Tokens,
         p \notin Listening, p \in Listening',
         \A t \in Tokens : /\ t # p => (t \in Listening' <=> t \in Listening)
                           /\ ToRead(t)' = ToRead(t) /\ Looked(t)' = Looked(t)
                           /\ Answered(t)' = Answered(t)
  PROVE  Promise!Subscribe(p)
  <1>1. Listening' = Listening \union {p}
    BY ListeningIs
  <1>2. /\ [t \in Tokens |-> ToRead(t)]' = [t \in Tokens |-> ToRead(t)]
        /\ [t \in Tokens |-> Looked(t)]' = [t \in Tokens |-> Looked(t)]
        /\ [t \in Tokens |-> Answered(t)]' = [t \in Tokens |-> Answered(t)]
    OBVIOUS
  <1> QED
    BY <1>1, <1>2 DEF Promise!Subscribe

LEMMA UnsubscribeIsPromised ==
  ASSUME setup' = setup, Accepts' = Accepts, NEW p \in Tokens,
         p \in Listening, p \notin Listening', ToRead(p)' = << >>, Looked(p)' = 0,
         Answered(p)' = Answered(p), \A t \in Tokens \ {p} : Same(t)
  PROVE  Promise!Unsubscribe(p)
  <1>1. Listening' = Listening \ {p}
    BY ListeningIs DEF Same
  <1>2. /\ [t \in Tokens |-> ToRead(t)]'
             = [[t \in Tokens |-> ToRead(t)] EXCEPT ![p] = << >>]
        /\ [t \in Tokens |-> Looked(t)]' = [[t \in Tokens |-> Looked(t)] EXCEPT ![p] = 0]
        /\ [t \in Tokens |-> Answered(t)]' = [t \in Tokens |-> Answered(t)]
    BY DEF Same
  <1> QED
    BY <1>1, <1>2 DEF Promise!Unsubscribe

\* What moving on leaves to read, and the message after the first n.
Dropped(t) == IF ToRead(t) = << >> THEN ToRead(t) ELSE Tail(ToRead(t))
Peeked(t, n) == IF n < Len(ToRead(t)) THEN ToRead(t)[n + 1] ELSE 0

LEMMA PullIsPromised ==
  ASSUME setup' = setup, Accepts' = Accepts, NEW p \in Tokens,
         p \in Listening, p \in Listening', \A t \in Tokens \ {p} : Same(t),
         Looked(p)' = Looked(p), Answered(p)' = Peeked(p, 0),
         ToRead(p)' = IF setup.manual_acknowledge THEN ToRead(p) ELSE Dropped(p)
  PROVE  Promise!Pull(p)
  <1>1. Listening' = Listening
    BY ListeningIs DEF Same
  <1>2. /\ [t \in Tokens |-> Looked(t)]' = [t \in Tokens |-> Looked(t)]
        /\ [t \in Tokens |-> Answered(t)]'
             = [[t \in Tokens |-> Answered(t)] EXCEPT ![p] = Peeked(p, 0)]
    BY DEF Same
  <1>3. CASE setup.manual_acknowledge
    <2>1. [t \in Tokens |-> ToRead(t)]' = [t \in Tokens |-> ToRead(t)]
      BY <1>3 DEF Same
    <2> QED
      BY <1>1, <1>2, <1>3, <2>1 DEF Promise!Pull, Promise!Peek, Peeked
  <1>4. CASE ~setup.manual_acknowledge
    <2>1. [t \in Tokens |-> ToRead(t)]'
            = [[t \in Tokens |-> ToRead(t)] EXCEPT ![p] = Dropped(p)]
      BY <1>4 DEF Same
    <2>2. Promise!Drop(p)
      BY <2>1 DEF Promise!Drop, Dropped
    <2> QED
      BY <1>1, <1>2, <1>4, <2>2 DEF Promise!Pull, Promise!Peek, Peeked
  <1> QED
    BY <1>3, <1>4

LEMMA ForgetIsPromised ==
  ASSUME setup' = setup, Accepts' = Accepts, NEW p \in Tokens, setup.manual_acknowledge,
         p \in Listening, p \in Listening', \A t \in Tokens \ {p} : Same(t),
         Looked(p)' = 0, ToRead(p)' = ToRead(p), Answered(p)' = Answered(p)
  PROVE  Promise!Forget(p)
  <1>1. Listening' = Listening
    BY ListeningIs DEF Same
  <1>2. /\ [t \in Tokens |-> Looked(t)]' = [[t \in Tokens |-> Looked(t)] EXCEPT ![p] = 0]
        /\ [t \in Tokens |-> ToRead(t)]' = [t \in Tokens |-> ToRead(t)]
        /\ [t \in Tokens |-> Answered(t)]' = [t \in Tokens |-> Answered(t)]
    BY DEF Same
  <1> QED
    BY <1>1, <1>2 DEF Promise!Forget

LEMMA AcknowledgeIsPromised ==
  ASSUME setup' = setup, Accepts' = Accepts, NEW p \in Tokens, setup.manual_acknowledge,
         p \in Listening, p \in Listening', \A t \in Tokens \ {p} : Same(t),
         Looked(p) = 0, Looked(p)' = 0, ToRead(p)' = Dropped(p), Answered(p)' = Answered(p)
  PROVE  Promise!Acknowledge(p)
  <1>1. Listening' = Listening
    BY ListeningIs DEF Same
  <1>2. /\ [t \in Tokens |-> Looked(t)]' = [t \in Tokens |-> Looked(t)]
        /\ [t \in Tokens |-> ToRead(t)]'
             = [[t \in Tokens |-> ToRead(t)] EXCEPT ![p] = Dropped(p)]
        /\ [t \in Tokens |-> Answered(t)]' = [t \in Tokens |-> Answered(t)]
    BY DEF Same
  <1>3. Promise!Drop(p)
    BY <1>2 DEF Promise!Drop, Dropped
  <1> QED
    BY <1>1, <1>2, <1>3 DEF Promise!Acknowledge

LEMMA LookNextIsPromised ==
  ASSUME setup' = setup, Accepts' = Accepts, NEW p \in Tokens, setup.manual_acknowledge,
         p \in Listening, p \in Listening', \A t \in Tokens \ {p} : Same(t),
         Looked(p)' = (IF Looked(p) < Len(ToRead(p)) THEN Looked(p) + 1 ELSE 0),
         Answered(p)' = Peeked(p, Looked(p)), ToRead(p)' = ToRead(p)
  PROVE  Promise!LookNext(p)
  <1>1. Listening' = Listening
    BY ListeningIs DEF Same
  <1>2. /\ [t \in Tokens |-> ToRead(t)]' = [t \in Tokens |-> ToRead(t)]
        /\ [t \in Tokens |-> Answered(t)]'
             = [[t \in Tokens |-> Answered(t)] EXCEPT ![p] = Peeked(p, Looked(p))]
        /\ [t \in Tokens |-> Looked(t)]'
             = [[t \in Tokens |-> Looked(t)] EXCEPT
                  ![p] = IF Looked(p) < Len(ToRead(p)) THEN Looked(p) + 1 ELSE 0]
    BY DEF Same
  <1> QED
    BY <1>1, <1>2 DEF Promise!LookNext, Promise!Peek, Peeked

\* A swap of the tail is what the users see of push(), subscribe() and unsubscribe().
LEMMA AppendsPromised ==
  ASSUME Shapes, Modes, Owns, Positions, Grown, AllRead, setup.under_gil,
         NEW p \in Procs, AppendItem(p), ~Still
  PROVE  Promise!Next
  <1>1. PICK k \in Nat : k = Len(items)
    BY DEF Shapes
  <1>2. /\ Len(items') = k + 1 /\ items'[k + 1].type = ItemType[op[p]]
        /\ op[p] \in {"push", "subscribe", "unsubscribe"} /\ k \in 0 .. Len(items)
        /\ \A j \in 1 .. Len(items) : items'[j] = items[j]
    BY <1>1, AppendItemGrows
  <1>3. /\ setup' = setup /\ pc[p] = "append" /\ pc'[p] = "link" /\ op'[p] = op[p]
        /\ own'[p] = k + 1 /\ UNCHANGED token /\ Step(p)
    BY <1>1, AppendItemIs DEF Now, Step, AppendStep
  <1>4. \A t \in Tokens \ {p} : Keeps(t)
    BY <1>3, OthersKeep
  <1>5. PICK n \in Nat : n = Num(items, k) /\ n = Num(items', k) /\ Accepts = n
    <2>1. Num(items', k) = Num(items, k) /\ Num(items, k) \in Nat
      BY <1>2, PayloadsAreFinite, NumKept
    <2>2. Accepts = Num(items, k)
      BY <1>1 DEF Accepts, Seen, Number, Num, Payloads, IsPayload
    <2> QED
      BY <2>1, <2>2
  <1>6. Accepts' = Num(items', k + 1)
    BY <1>2, <1>3 DEF Accepts, Seen, Number, Num, Payloads, IsPayload
  <1>7. CASE op[p] = "push"
    <2>1. p \notin Tokens
      BY <1>7 DEF Modes, ModeOf
    <2>2. Accepts' = n + 1
      <3>1. items'[k + 1].type = "payload"
        BY <1>2, <1>7 DEF ItemType
      <3> QED
        BY <1>5, <1>6, <3>1, NumNext
    <2>3. ASSUME NEW t \in Tokens
          PROVE  /\ t \in Listening' <=> t \in Listening
                 /\ ToRead(t)' = IF t \in Listening THEN Append(ToRead(t), n + 1)
                                 ELSE ToRead(t)
                 /\ Looked(t)' = Looked(t) /\ Answered(t)' = Answered(t)
      <3>1. Keeps(t)
        BY <1>4, <2>1
      <3>2. PICK c \in 0 .. Len(items) : c = Cursor(t)
        BY CursorIn
      <3>3. PICK a \in 0 .. Len(items) : a = Ahead(t)
        BY CursorIn
      <3>4. /\ Num(items', c) = Num(items, c) /\ Num(items', a) = Num(items, a)
            /\ Num(items, c) <= n /\ Num(items, c) \in Nat
        BY <1>1, <1>5, <3>2, <3>3, NumKept, NumGrows
      <3>5. Rest(Num(items, c), n + 1) = Append(Rest(Num(items, c), n), n + 1)
        BY <3>4, RestMore
      <3>6. /\ t \in Listening' <=> t \in Listening
            /\ Looked(t)' = Looked(t) /\ Answered(t)' = Answered(t)
        BY <1>3, <3>1, <3>2, <3>3, <3>4, SeenIs, SeenThen DEF Keeps
      <3>7. CASE Live(t)
        <4>1. Cursor(t)' = c /\ Live(t)'
          BY <3>1, <3>2, <3>7 DEF Keeps
        <4>2. ToRead(t)' = Rest(Num(items, c), n + 1) /\ t \in Listening
          BY <1>2, <1>3, <1>6, <2>2, <3>4, <3>7, <4>1, SeenIs, SeenThen
        <4>3. ToRead(t) = Rest(Num(items, c), n)
          BY <1>1, <1>5, <3>2, <3>7, SeenIs
        <4> QED
          BY <3>5, <3>6, <4>2, <4>3
      <3>8. CASE ~Live(t)
        BY <1>3, <3>1, <3>6, <3>8, SeenIs, SeenThen DEF Keeps
      <3> QED
        BY <3>7, <3>8
    <2>4. Promise!Push
      BY <1>3, <1>5, <2>2, <2>3, PushIsPromised
    <2> QED
      BY <2>4 DEF Promise!Next
  <1>8. CASE op[p] \in {"subscribe", "unsubscribe"}
    <2>1. /\ p \in Tokens /\ ModeOf(p) /\ Reads(p)
          /\ last'[p] = last[p] /\ iter'[p] = iter[p] /\ answer'[p] = answer[p]
      BY <1>3, <1>8 DEF Modes, ModeOf, Procs, AllRead, token
    <2>2. Accepts' = n /\ Num(items', Len(items')) = n /\ Num(items, Len(items)) = n
      <3>1. \A j \in k + 1 .. k + 1 : items'[j].type # "payload"
        BY <1>2, <1>8 DEF ItemType
      <3> QED
        BY <1>1, <1>2, <1>5, <1>6, <3>1, NumFlat
    <2>3. \A t \in Tokens \ {p} : Same(t)
      BY <1>3, <1>4, <2>2, KeepsSame
    <2>4. Answered(p)' = Answered(p)
      BY <1>3, <1>8, <2>1, SeenIs, SeenThen DEF Answers
    <2>5. CASE op[p] = "subscribe"
      <3>1. last[p] = 0 /\ iter[p] = 0
        BY <2>1, <2>5 DEF ModeOf, Reads
      <3>2. ~Live(p) /\ Live(p)' /\ Cursor(p)' = k + 1 /\ Ahead(p)' = 0
        BY <1>3, <2>1, <2>5, <3>1 DEF Live, Cursor, Ahead
      <3>3. /\ ToRead(p) = << >> /\ Looked(p) = 0 /\ p \notin Listening
            /\ p \in Listening' /\ Looked(p)' = 0
        BY <1>3, <2>1, <3>2, SeenIs, SeenThen
      <3>4. ToRead(p)' = Rest(n, n)
        BY <1>2, <1>3, <2>1, <2>2, <3>2, SeenThen
      <3>5. ToRead(p)' = << >>
        BY <3>4, RestNone
      <3>6. Promise!Subscribe(p)
        BY <1>3, <1>5, <2>1, <2>2, <2>3, <2>4, <3>3, <3>5, SubscribeIsPromised DEF Same
      <3> QED
        BY <2>1, <3>6 DEF Promise!Next
    <2>6. CASE op[p] = "unsubscribe"
      <3>1. Live(p) /\ ~Live(p)'
        BY <1>3, <2>1, <2>6 DEF Live, ModeOf
      <3>2. /\ p \in Listening /\ p \notin Listening' /\ ToRead(p)' = << >>
            /\ Looked(p)' = 0
        BY <1>3, <2>1, <3>1, SeenIs, SeenThen
      <3>3. Promise!Unsubscribe(p)
        BY <1>3, <1>5, <2>1, <2>2, <2>3, <2>4, <3>2, UnsubscribeIsPromised
      <3> QED
        BY <2>1, <3>3 DEF Promise!Next
    <2> QED
      BY <1>8, <2>5, <2>6
  <1> QED
    BY <1>2, <1>7, <1>8

\* acknowledge() forgets how far next() has looked, before it moves on.
LEMMA ForgetsPromised ==
  ASSUME Shapes, Modes, Grown, setup.under_gil, NEW p \in Tokens, Acknowledge(p), ~Still
  PROVE  Promise!Next
  <1>1. /\ p \in Procs /\ Step(p) /\ iter \in [Tokens -> Pointer] /\ ModeOf(p)
        /\ setup' = setup /\ items' = items /\ setup.manual_acknowledge
    BY AcknowledgeIs DEF Procs, Step, Shapes, shared, Modes
  <1>2. /\ pc[p] = "idle" /\ op[p] = "none" /\ pc'[p] = "load" /\ op'[p] = "acknowledge"
        /\ last[p] # 0 /\ last'[p] = last[p] /\ iter'[p] = 0 /\ answer'[p] = answer[p]
    BY <1>1, AcknowledgeIs DEF Now, ModeOf
  <1>3. /\ Live(p) /\ Live(p)' /\ Cursor(p)' = Cursor(p) /\ Ahead(p)' = 0
        /\ Answers(p)' = Answers(p)
    BY <1>2 DEF Live, Cursor, Marking, Ahead, Answers, Finishing
  <1>4. \A t \in Tokens \ {p} : Same(t)
    BY <1>1, OthersKeep, KeepsSame
  <1>5. /\ p \in Listening /\ p \in Listening' /\ Looked(p)' = 0
        /\ ToRead(p)' = ToRead(p) /\ Answered(p)' = Answered(p) /\ Accepts' = Accepts
    BY <1>1, <1>3, SeenIs, SeenThen
  <1>6. Promise!Forget(p)
    BY <1>1, <1>4, <1>5, ForgetIsPromised
  <1> QED
    BY <1>6 DEF Promise!Next

\* Only a reader's own steps end its walk, and only an append makes the list longer.
LEMMA ReadersStep ==
  ASSUME Shapes, NEW p \in Tokens, Step(p), ~Still, pc[p] \in {"load", "ack"}
  PROVE  Load(p) \/ Ack(p)
  <1>1. p \notin Publishers
    OBVIOUS
  <1>2. ~Subscribe(p) /\ ~Unsubscribe(p) /\ ~Pull(p) /\ ~Acknowledge(p) /\ ~LookNext(p)
    BY DEF Subscribe, Unsubscribe, Pull, Acknowledge, LookNext, EnterPull, Enter
  <1>3. ~AppendStep(p)
    BY DEF AppendStep, AppendItem, Link, Count, At
  <1>4. ~MarkItem(p) /\ ~Walk(p) /\ ~MarkOwn(p) /\ ~LeaveQueue(p) /\ ~Return(p)
    BY DEF MarkItem, Walk, MarkOwn, LeaveQueue, Return, At
  <1>5. ~CleanStep(p)
    BY DEF CleanStep, CleanEnter, Scan, Reduce, Uncount, Delete, Resume, CleanExit, At
  <1> QED
    BY <1>1, <1>2, <1>3, <1>4, <1>5 DEF Step, CallStep

LEMMA OnlyAppendsGrow ==
  ASSUME Shapes, Modes, Owns, Positions, NEW p \in Procs, Step(p), ~Still, ~AppendItem(p)
  PROVE  Len(items') = Len(items)
  <1>1. Minor(p) => Len(items') = Len(items)
    BY DEF Minor, SameLinks
  <1>2. Link(p) => Len(items') = Len(items)
    BY LinkLinks
  <1>3. Count(p) \/ (p \in Tokens /\ (Reduce(p) \/ Uncount(p))) => items' = items
    BY CountIs, ReduceIs, UncountIs
  <1> QED
    BY <1>1, <1>2, <1>3, StepsAreMinor DEF Major

\* Pull(), acknowledge() and next() are seen when they have found their result.
LEMMA FindsPromised ==
  ASSUME Shapes, Modes, Modes', Positions, LockHeld, LinksDone, Grown, AllRead,
         setup.under_gil, NEW p \in Tokens, Load(p) \/ Ack(p), ~Still, pc'[p] \in Finishing
  PROVE  Promise!Next
  <1>1. /\ op[p] \in Reading /\ op'[p] = op[p] /\ pc[p] \in {"load", "ack"}
        /\ last'[p] = last[p] /\ iter'[p] = iter[p] /\ answer'[p] = answer[p]
        /\ last[p] # 0 /\ setup' = setup /\ Len(items') = Len(items)
    BY TokenFinds
  <1>2. PICK a \in 0 .. Len(items), b \in 0 .. Len(items) : Found(p, a, b)
    BY TokenFinds
  <1>3. /\ p \in Procs /\ Step(p) /\ Reads(p) /\ ModeOf(p)' /\ Len(items) \in Nat
        /\ last[p] \in 0 .. Len(items) /\ iter[p] \in 0 .. Len(items)
    <2>1. Step(p)
      BY DEF Step, CallStep
    <2> QED
      BY <2>1 DEF Procs, Modes, AllRead, Shapes, Pointer
  <1>4. PICK c \in 0 .. Len(items) : c = last[p] /\ c <= a
    BY <1>2, <1>3 DEF Found, Start, Reads
  <1>5. PICK n \in Nat : n = Num(items, Len(items)) /\ n = Num(items', Len(items'))
    BY <1>1, <1>3, PayloadsAreFinite, NumKept
  <1>6. PICK l \in Nat, x \in Nat, y \in Nat :
          /\ l = Num(items, c) /\ x = Num(items, a) /\ y = Num(items, b)
          /\ l = Num(items', c) /\ x = Num(items', a) /\ y = Num(items', b)
    BY <1>2, <1>3, <1>4, PayloadsAreFinite, NumKept
  <1>7. l <= x /\ x <= n /\ y <= n
    <2>1. /\ a \in Nat /\ b \in Nat /\ c \in Nat /\ c <= a /\ a <= Len(items)
          /\ b <= Len(items)
      BY <1>3, <1>4
    <2>2. Num(items, c) <= Num(items, a)
      BY <2>1, NumGrows
    <2>3. Num(items, a) <= Num(items, Len(items)) /\ Num(items, b) <= Num(items, Len(items))
      BY <1>3, <2>1, NumGrows
    <2> QED
      BY <1>5, <1>6, <2>2, <2>3
  <1>8. \/ Message(p)' = 0 /\ y = x /\ n = x
        \/ Message(p)' = x + 1 /\ y = x + 1
    BY <1>2, <1>5, <1>6 DEF Found
  <1>9. \A t \in Tokens \ {p} : Same(t)
    BY <1>1, <1>3, <1>5, OthersKeep, KeepsSame
  <1>10. /\ Live(p) /\ Live(p)' /\ Cursor(p) = c /\ Ahead(p) = iter[p]
         /\ Answers(p) = answer[p]
    BY <1>1, <1>4 DEF Live, Reading, Cursor, Ahead, Answers, Finishing
  <1>11. Accepts = n /\ Accepts' = n /\ p \in Listening /\ p \in Listening'
    BY <1>1, <1>5, <1>10, SeenIs, SeenThen
  <1>12. ToRead(p) = Rest(l, n)
    BY <1>5, <1>6, <1>10, SeenIs
  <1>13. Len(ToRead(p)) = n - l /\ (x < n => ToRead(p)[x - l + 1] = x + 1)
    <2>1. Len(Rest(l, n)) = n - l /\ \A i \in 1 .. n - l : Rest(l, n)[i] = l + i
      <3>1. l <= n
        BY <1>7
      <3> QED
        BY <3>1, RestIs
    <2>2. x < n => x - l + 1 \in 1 .. n - l /\ l + (x - l + 1) = x + 1
      BY <1>7
    <2> QED
      BY <1>12, <2>1, <2>2
  <1>14. Peeked(p, x - l) = Message(p)'
    <2>1. x - l < n - l <=> x < n
      BY <1>7
    <2>2. CASE x < n
      BY <1>7, <1>8, <1>13, <2>1, <2>2 DEF Peeked
    <2>3. CASE x = n
      BY <1>7, <1>8, <1>13, <2>1, <2>3 DEF Peeked
    <2> QED
      BY <1>7, <2>2, <2>3
  <1>15. CASE Marking(p)
    <2>1. Marking(p)' /\ op[p] \in {"pull", "acknowledge"}
          /\ (op[p] = "pull" => ~setup.manual_acknowledge)
          /\ (op[p] = "acknowledge" => setup.manual_acknowledge)
      BY <1>1, <1>3, <1>15 DEF Marking, Reads
    <2>2. c = a /\ l = x /\ x - l = 0
      BY <1>2, <1>4, <1>6, <2>1 DEF Found, Start
    <2>3. Cursor(p)' = b
      BY <1>1, <1>2, <2>1 DEF Cursor, Reading, Found
    <2>4. iter[p] = 0
      BY <1>3, <2>1 DEF Reads
    <2>5. Ahead(p)' = 0
      BY <1>1, <2>1, <2>4 DEF Ahead
    <2>6. Looked(p) = 0 /\ Looked(p)' = 0 /\ ToRead(p)' = Rest(y, n)
      BY <1>1, <1>5, <1>6, <1>10, <2>3, <2>4, <2>5, SeenIs, SeenThen
    <2>7. Rest(y, n) = Dropped(p)
      <3>1. CASE y = x /\ n = x
        BY <1>12, <2>2, <3>1, RestNone DEF Dropped
      <3>2. CASE y = x + 1
        <4>1. l < n /\ y = l + 1
          BY <1>7, <2>2, <3>2
        <4>2. Rest(l, n) # << >> /\ Tail(Rest(l, n)) = Rest(l + 1, n)
          BY <4>1, RestTail
        <4> QED
          BY <1>12, <4>1, <4>2 DEF Dropped
      <3> QED
        BY <1>8, <3>1, <3>2
    <2>8. CASE op[p] = "pull"
      <3>1. Answered(p)' = Peeked(p, 0)
        BY <1>1, <1>14, <2>2, <2>8, SeenThen DEF Answers
      <3>2. Promise!Pull(p)
        BY <1>1, <1>9, <1>11, <2>1, <2>6, <2>7, <2>8, <3>1, PullIsPromised
      <3> QED
        BY <3>2 DEF Promise!Next
    <2>9. CASE op[p] = "acknowledge"
      <3>1. Answered(p)' = Answered(p)
        BY <1>1, <1>10, <2>9, SeenIs, SeenThen DEF Answers
      <3>2. Promise!Acknowledge(p)
        BY <1>1, <1>9, <1>11, <2>1, <2>6, <2>7, <2>9, <3>1, AcknowledgeIsPromised
      <3> QED
        BY <3>2 DEF Promise!Next
    <2> QED
      BY <2>1, <2>8, <2>9
  <1>16. CASE ~Marking(p)
    <2>1. ~Marking(p)' /\ op[p] \in {"pull", "next"} /\ setup.manual_acknowledge
      BY <1>1, <1>3, <1>16 DEF Marking, Reads, Reading
    <2>2. Cursor(p)' = c
      BY <1>1, <1>4, <2>1 DEF Cursor, Reading
    <2>3. ToRead(p)' = ToRead(p)
      BY <1>1, <1>5, <1>6, <1>10, <1>12, <2>2, SeenThen
    <2>4. Answered(p)' = Message(p)'
      BY <1>1, <2>1, SeenThen DEF Answers
    <2>5. CASE op[p] = "pull"
      <3>1. c = a /\ x - l = 0
        BY <1>2, <1>4, <1>6, <2>5 DEF Found, Start
      <3>2. Ahead(p)' = Ahead(p)
        BY <1>1, <1>10, <2>5 DEF Ahead
      <3>3. PICK i \in 0 .. Len(items) : i = Ahead(p)
        BY <1>3, <1>10
      <3>4. Num(items', i) = Num(items, i)
        BY NumKept
      <3>5. Looked(p)' = Looked(p)
        BY <1>1, <1>6, <1>10, <2>2, <3>2, <3>3, <3>4, SeenIs, SeenThen
      <3>6. Promise!Pull(p)
        BY <1>1, <1>9, <1>11, <1>14, <2>1, <2>3, <2>4, <3>1, <3>5, PullIsPromised
      <3> QED
        BY <3>6 DEF Promise!Next
    <2>6. CASE op[p] = "next"
      <3>1. pc'[p] = "return"
        BY <1>1, <1>3, <2>6 DEF ModeOf, Finishing
      <3>2. a = IF iter[p] # 0 THEN iter[p] ELSE c
        BY <1>2, <1>4, <2>6 DEF Found, Start
      <3>3. Looked(p) = x - l
        <4>1. CASE iter[p] # 0
          BY <1>6, <1>10, <3>2, <4>1, SeenIs
        <4>2. CASE iter[p] = 0
          <5>1. x = l
            BY <1>6, <3>2, <4>2
          <5> QED
            BY <1>10, <4>2, <5>1, SeenIs
        <4> QED
          BY <4>1, <4>2
      <3>4. b # 0 /\ cur'[p] = b
        BY <1>2, <1>3 DEF Found
      <3>5. Ahead(p)' = IF Message(p)' = 0 THEN 0 ELSE b
        BY <1>1, <2>6, <3>1, <3>4 DEF Ahead
      <3>6. Looked(p)' = IF Message(p)' = 0 THEN 0 ELSE y - l
        BY <1>1, <1>6, <1>10, <2>2, <3>4, <3>5, SeenThen
      <3>7. Looked(p)' = IF Looked(p) < Len(ToRead(p)) THEN Looked(p) + 1 ELSE 0
        <4>1. CASE Message(p)' = 0 /\ y = x /\ n = x
          BY <1>7, <1>13, <3>3, <3>6, <4>1
        <4>2. CASE Message(p)' = x + 1 /\ y = x + 1
          BY <1>7, <1>13, <3>3, <3>6, <4>2
        <4> QED
          BY <1>8, <4>1, <4>2
      <3>8. Promise!LookNext(p)
        BY <1>1, <1>9, <1>11, <1>14, <2>1, <2>3, <2>4, <3>3, <3>7, LookNextIsPromised
      <3> QED
        BY <3>8 DEF Promise!Next
    <2> QED
      BY <2>1, <2>5, <2>6
  <1> QED
    BY <1>15, <1>16

LEMMA StepsArePromised ==
  ASSUME KInv, KInv', AllRead, [Next]_vars
  PROVE  [Promise!Next]_Promise!vars
  <1>1. /\ Shapes /\ Modes /\ Modes' /\ Owns /\ Positions /\ LockHeld /\ LinksDone
    BY DEF KInv, IInv, Turns
  <1>2. Grown
    BY <1>1, ListGrows
  <1>3. CASE Still
    <2>1. /\ setup' = setup /\ items' = items
          /\ pc' = pc /\ op' = op /\ cur' = cur /\ own' = own /\ last' = last
          /\ iter' = iter /\ answer' = answer
      BY <1>3 DEF Still, shared, local, token
    <2>2. \A t \in Tokens : Keeps(t)
      BY <1>1, <1>2, <2>1, RestingKeeps
    <2>3. setup.under_gil => Accepts' = Accepts /\ \A t \in Tokens : Same(t)
      BY <1>1, <1>2, <2>1, <2>2, KeepsSame DEF Accepts, Seen, Number, IsPayload
    <2> QED
      BY <2>1, <2>3, SameIsUnseen, ThreadsAreUnseen
  <1>4. ASSUME NEW p \in Procs, Step(p), ~Still PROVE [Promise!Next]_Promise!vars
    <2>1. setup' = setup
      BY <1>1, <1>4, StepsAlone DEF Alone
    <2>2. CASE ~setup.under_gil
      BY <2>1, <2>2, ThreadsAreUnseen
    <2>3. CASE setup.under_gil /\ AppendItem(p)
      BY <1>1, <1>2, <1>4, <2>3, AppendsPromised
    <2>4. CASE setup.under_gil /\ p \in Tokens /\ Acknowledge(p)
      BY <1>1, <1>2, <1>4, <2>4, ForgetsPromised
    <2>5. CASE setup.under_gil /\ p \in Tokens /\ pc[p] \in {"load", "ack"}
                /\ pc'[p] \in Finishing
      <3>1. Load(p) \/ Ack(p)
        BY <1>1, <1>4, <2>5, ReadersStep
      <3> QED
        BY <1>1, <1>2, <1>4, <2>5, <3>1, FindsPromised
    <2>6. CASE /\ setup.under_gil /\ ~AppendItem(p)
               /\ p \in Tokens => /\ ~Acknowledge(p)
                                  /\ pc[p] \in {"load", "ack"} => pc'[p] \notin Finishing
      <3>1. \A t \in Tokens : Keeps(t)
        BY <1>1, <1>2, <1>4, <2>6, StepKeeps, OthersKeep
      <3>2. Num(items', Len(items')) = Num(items, Len(items))
        <4>1. Len(items') = Len(items)
          BY <1>1, <1>4, <2>6, OnlyAppendsGrow
        <4> QED
          BY <1>2, <4>1, NumKept DEF Grown
      <3>3. \A t \in Tokens : Same(t)
        BY <1>1, <1>2, <2>1, <2>6, <3>1, <3>2, KeepsSame
      <3>4. Accepts' = Accepts
        BY <2>1, <3>2 DEF Accepts, Seen, Number, Num, Payloads, IsPayload
      <3> QED
        BY <2>1, <3>3, <3>4, SameIsUnseen
    <2> QED
      BY <2>2, <2>3, <2>4, <2>5, <2>6
  <1> QED
    BY <1>3, <1>4, SomebodySteps

-----------------------------------------------------------------------------
OInv == KInv /\ AllRead

LEMMA OrderedInvariant == Spec => []OInv
  <1>1. Init => OInv
    <2>1. Init => AllRead
      BY DEF Init, AllRead, Reads, Reading, Procs
    <2> QED
      BY <2>1, InitKept DEF OInv
  <1>2. OInv /\ [Next]_vars => OInv'
    <2> SUFFICES ASSUME OInv, [Next]_vars PROVE OInv'
      OBVIOUS
    <2>1. KInv /\ KInv' /\ AllRead
      BY NextKept DEF OInv
    <2>2. Shapes /\ Modes /\ Owns /\ Positions
      BY <2>1 DEF KInv, IInv
    <2>3. AllRead'
      BY <2>1, <2>2, ListGrows, AllReadKept
    <2> QED
      BY <2>1, <2>3 DEF OInv
  <1> QED
    BY <1>1, <1>2, PTL DEF Spec

(* From Python, every token receives every message pushed while it is      *)
(* subscribed, once and in order, for any number of publishers, tokens and *)
(* messages, with either way of acknowledging: an append is seen at the    *)
(* swap of the tail, pull(), acknowledge() and __next__() when the walk    *)
(* ends (cmcqueue.cpp:155-212, cmcqueue_wrapper.cpp:205-300), and nothing  *)
(* else that a thread does in between is seen at all.                      *)
THEOREM Delivers == Spec => DeliversInOrder
  <1>1. Init => Promise!Init
    <2> SUFFICES ASSUME Init PROVE Promise!Init
      OBVIOUS
    <2>1. \A t \in Tokens : ~Live(t) /\ iter[t] = 0 /\ answer[t] = 0 /\ op[t] = "none"
      BY DEF Init, Live, Procs
    <2>2. Number(Len(items)) = 0
      <3>1. Payloads(items, Len(items)) = {} /\ Len(items) = 0
        BY DEF Init, Payloads
      <3> QED
        BY <3>1, FS_EmptySet DEF Number, Payloads, IsPayload
    <2>3. Accepts = 0 /\ Listening = {}
      BY <2>1, <2>2 DEF Accepts, Listening, Seen
    <2>4. \A t \in Tokens : ToRead(t) = << >> /\ Looked(t) = 0 /\ Answered(t) = 0
      BY <2>1 DEF ToRead, Looked, Answered, Seen
    <2>5. setup.manual_acknowledge \in BOOLEAN
      BY SetupAssumption DEF Init
    <2> QED
      BY <2>3, <2>4, <2>5 DEF Promise!Init
  <1>2. OInv /\ OInv' /\ [Next]_vars => [Promise!Next]_Promise!vars
    BY StepsArePromised DEF OInv
  <1> QED
    BY <1>1, <1>2, OrderedInvariant, PTL DEF Spec, DeliversInOrder, Promise!Spec
=============================================================================
