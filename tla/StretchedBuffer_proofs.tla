------------------------- MODULE StretchedBuffer_proofs -------------------------
(***************************************************************************)
(* What TLAPS proves of StretchedBuffer, for any number of appending       *)
(* threads, addresses and appends.                                         *)
(*                                                                         *)
(* The inductive invariant says where every pointer of the program may     *)
(* lead.  The items of the list are distinct and allocated (Distinct,      *)
(* InUse); a node points to nothing or to the item behind it, except that  *)
(* the zero node points to a removed item until reduce() has cleared it    *)
(* (Pointers); an append that is not in the list yet owns an item that     *)
(* nobody else knows (Fresh), and one that is has still to store the link  *)
(* to it (Linking), and every link that is missing is one of these         *)
(* (Pending); cleanup() holds the first item, linked (Held), until         *)
(* reduce() has removed it, and then one that is no longer in the list and *)
(* not yet anybody else's (Gone), whatever reduce() returns (Answer).      *)
(* Nothing is said of the pointer an append has read and is about to       *)
(* compare: it may be stale, and its address may have been used again.     *)
(* The comparison is what makes it good.                                   *)
(***************************************************************************)
EXTENDS StretchedBuffer, SequenceTheorems, TLAPS

InUse == \A k \in InList : log[k] \in allocated
Distinct == \A j, k \in InList : log[j] = log[k] => j = k
TailIsLast == tail = Before(Len(log) + 1)

Pointers == \A k \in removed + 1 .. Len(log) + 1 :
              \/ next[Before(k)] = NULL
              \/ k \in InList /\ Linked(k)
              \/ k = removed + 1 /\ HeadIsStale

\* A running append has an item, and no two have the same.
OwnItems == /\ \A a \in Appenders : item[a] = NULL <=> apc[a] = "idle"
            /\ \A a, b \in Appenders : item[a] # NULL /\ item[a] = item[b] => a = b

Fresh == \A a \in Appenders : apc[a] \in {"load", "exchange"} =>
           next[item[a]] = NULL /\ \A k \in InList : log[k] # item[a]

Linking == \A a \in Appenders : apc[a] = "link" =>
             \E k \in InList : log[k] = item[a] /\ tailPtr[a] = Before(k) /\ ~Linked(k)

Pending == \A k \in InList :
             Linked(k) \/ \E a \in Appenders : apc[a] = "link" /\ item[a] = log[k]

Removing == rpc \in {"clearHead", "free"}

Held == ~Removing =>
          /\ cleaned # NULL =>
               removed + 1 \in InList /\ cleaned = log[removed + 1] /\ Linked(removed + 1)
          /\ rpc # "idle" => cleaned # NULL
          /\ rpc \in {"readNext", "exchangeHead", "exchangeTail"} => reduced = cleaned
          /\ rpc = "exchangeHead" =>
               removed + 2 \in InList /\ nextPtr = log[removed + 2] /\ Linked(removed + 2)

Gone == Removing =>
          /\ cleaned # NULL
          /\ removed \in 1 .. Len(log) /\ cleaned = log[removed]
          /\ \A k \in InList : log[k] # cleaned
          /\ \A a \in Appenders : item[a] # cleaned

Answer == /\ rpc = "clearHead" => reduced = cleaned /\ next[Zero] # NULL
          /\ rpc = "free" => \/ reduced = cleaned
                             \/ /\ removed + 1 \in InList /\ Linked(removed + 1)
                                /\ reduced = log[removed + 1]

\* What MemoryIsExact says, of one address.
InMemory(x) == \/ \E k \in InList : log[k] = x
               \/ \E a \in Appenders : item[a] = x
               \/ Removing /\ cleaned = x
Memory == \A x \in Addresses : x \in allocated <=> InMemory(x)

IInv == /\ TypeOK
        /\ InUse /\ Distinct /\ TailIsLast /\ Pointers /\ Pending
        /\ OwnItems /\ Fresh /\ Linking
        /\ Held /\ Gone /\ Answer
        /\ Memory

USE PointerAssumption, BoundAssumption

\* The places whose pointers matter: one for every item and the one where
\* the next item goes.
Places == removed + 1 .. Len(log) + 1

-----------------------------------------------------------------------------
(* The list.                                                               *)

LEMMA ListFacts ==
  ASSUME TypeOK
  PROVE  /\ Len(log) \in Nat /\ removed \in Nat /\ removed <= Len(log)
         /\ InList \subseteq Places /\ Places \subseteq Nat
         /\ Places \ {Len(log) + 1} = InList
         /\ \A k \in InList : /\ log[k] \in Addresses
                              /\ log[k] # Zero /\ log[k] # NULL
                              /\ k + 1 \in Places /\ Before(k + 1) = log[k]
         /\ \A k \in Places : Before(k) \in Nodes
         /\ removed + 1 \in Places /\ Before(removed + 1) = Zero
  <1>1. /\ log \in Seq(Addresses) /\ Len(log) \in Nat
        /\ removed \in Nat /\ removed <= Len(log)
    BY DEF TypeOK
  <1>2. /\ InList \subseteq Places /\ Places \subseteq Nat
        /\ Places \ {Len(log) + 1} = InList
        /\ removed + 1 \in Places /\ Before(removed + 1) = Zero
    BY <1>1 DEF InList, Places, Before
  <1>3. ASSUME NEW k \in InList
        PROVE  /\ log[k] \in Addresses /\ log[k] # Zero /\ log[k] # NULL
               /\ k + 1 \in Places /\ Before(k + 1) = log[k]
    <2>1. k \in 1 .. Len(log) /\ k + 1 \in Places /\ k + 1 # removed + 1 /\ (k + 1) - 1 = k
      BY <1>1 DEF InList, Places
    <2> QED
      BY <1>1, <2>1 DEF Before
  <1>4. ASSUME NEW k \in Places PROVE Before(k) \in Nodes
    <2>1. k # removed + 1 => k - 1 \in 1 .. Len(log)
      BY <1>1 DEF Places
    <2> QED
      BY <1>1, <2>1 DEF Before, Nodes
  <1> QED
    BY <1>1, <1>2, <1>3, <1>4

\* Different items have different predecessors.
LEMMA OneNodeEach ==
  ASSUME TypeOK, Distinct, NEW j \in Places, NEW k \in Places, Before(j) = Before(k)
  PROVE  j = k
  <1>1. Len(log) \in Nat /\ removed \in Nat /\ j \in Nat /\ k \in Nat
    BY ListFacts
  <1>2. ASSUME NEW i \in Places, i # removed + 1
        PROVE  i - 1 \in InList /\ Before(i) = log[i - 1] /\ Before(i) # Zero
    <2>1. i - 1 \in InList
      BY <1>1, <1>2 DEF Places, InList
    <2> QED
      BY <1>2, <2>1, ListFacts DEF Before
  <1>3. Before(removed + 1) = Zero
    BY ListFacts
  <1>4. CASE j = removed + 1 \/ k = removed + 1
    BY <1>2, <1>3, <1>4
  <1>5. CASE j # removed + 1 /\ k # removed + 1
    <2>1. j - 1 = k - 1
      BY <1>2, <1>5 DEF Distinct
    <2> QED
      BY <1>1, <2>1
  <1> QED
    BY <1>4, <1>5

\* A step that neither appends nor removes, and leaves alone the nodes that
\* matter, leaves the list alone.
LEMMA SameList ==
  ASSUME TypeOK, UNCHANGED <<log, removed>>,
         \A k \in Places : next'[Before(k)] = next[Before(k)]
  PROVE  /\ InList' = InList /\ Places' = Places
         /\ \A k \in Places : Before(k)' = Before(k)
         /\ \A k \in Places : next'[Before(k)'] = next[Before(k)]
         /\ \A k \in InList : Linked(k)' <=> Linked(k)
  <1>1. InList' = InList /\ Places' = Places /\ \A k : Before(k)' = Before(k)
    BY DEF InList, Places, Before
  <1>2. \A k \in InList : k \in Places
    BY ListFacts
  <1> QED
    BY <1>1, <1>2 DEF Linked

-----------------------------------------------------------------------------
(* append().                                                               *)

\* A new item is at an address that the list does not use.
LEMMA CalledLeavesList ==
  ASSUME IInv, NEW a \in Appenders, Append_Call(a)
  PROVE  /\ InList' = InList /\ Places' = Places
         /\ \A k \in Places : Before(k)' = Before(k)
         /\ \A k \in Places : next'[Before(k)'] = next[Before(k)]
         /\ \A k \in InList : Linked(k)' <=> Linked(k)
  <1>1. PICK i \in Addresses \ allocated : next' = [next EXCEPT ![i] = NULL]
    BY DEF Append_Call
  <1>2. TypeOK /\ UNCHANGED <<log, removed>> /\ i # Zero
    BY DEF IInv, Append_Call
  <1>3. \A k \in Places : Before(k) # i
    <2>1. ASSUME NEW k \in Places, k # removed + 1 PROVE k - 1 \in InList
      BY <1>2, <2>1, ListFacts DEF Places, InList
    <2> QED
      BY <1>2, <2>1 DEF Before, IInv, InUse
  <1>4. \A n \in Nodes : n # i => next'[n] = next[n]
    BY <1>1, <1>2 DEF TypeOK
  <1>5. \A k \in Places : next'[Before(k)] = next[Before(k)]
    BY <1>2, <1>3, <1>4, ListFacts
  <1> QED
    BY <1>2, <1>5, SameList

LEMMA AppendCallKeeps ==
  ASSUME IInv, NEW a \in Appenders, Append_Call(a)
  PROVE  IInv'
  <1> USE DEF nodes, append, reduce
  <1>0. PICK i \in Addresses \ allocated :
          /\ item' = [item EXCEPT ![a] = i]
          /\ allocated' = allocated \union {i}
          /\ next' = [next EXCEPT ![i] = NULL]
    BY DEF Append_Call
  <1>1. /\ apc[a] = "idle" /\ apc' = [apc EXCEPT ![a] = "load"]
        /\ UNCHANGED <<tail, tailPtr, cleaned, rpc, reduced, nextPtr, log, removed>>
    BY DEF Append_Call
  <1>2. TypeOK
    BY DEF IInv
  <1>3. i # Zero /\ i # NULL /\ i \in Nodes
    BY DEF Nodes
  <1>4. \A k \in InList : log[k] # i
    BY DEF IInv, InUse
  <1>6. next' \in [Nodes -> Addresses \union {NULL}]
    BY <1>0, <1>2 DEF TypeOK
  <1>7. \A n \in Nodes : n # i => next'[n] = next[n]
    BY <1>0, <1>2 DEF TypeOK
  <1>9. /\ InList' = InList /\ Places' = Places
        /\ \A k \in Places : Before(k)' = Before(k)
        /\ \A k \in Places : next'[Before(k)'] = next[Before(k)]
        /\ \A k \in InList : Linked(k)' <=> Linked(k)
    BY CalledLeavesList
  <1>10. /\ item'[a] = i /\ apc'[a] = "load"
         /\ \A b \in Appenders : b # a => item'[b] = item[b] /\ apc'[b] = apc[b]
    BY <1>0, <1>1, <1>2 DEF TypeOK
  <1>11. \A b \in Appenders : item[b] # NULL => item[b] # i /\ item[b] \in Nodes
    BY <1>0, <1>2 DEF TypeOK, Nodes
  <1>12. TypeOK'
    BY <1>0, <1>1, <1>2, <1>6 DEF TypeOK
  <1>13. (InUse /\ Distinct /\ TailIsLast)'
    <2>1. Len(log) + 1 \in Places
      BY <1>2, ListFacts DEF Places
    <2> QED
      BY <1>0, <1>1, <1>9, <2>1 DEF IInv, InUse, Distinct, TailIsLast
  <1>14. Pointers'
    BY <1>1, <1>2, <1>9, <1>7, <1>3, ListFacts DEF IInv, Pointers, HeadIsStale, Places, Nodes
  <1>15. OwnItems'
    BY <1>1, <1>3, <1>10, <1>11 DEF IInv, OwnItems
  <1>16. Fresh'
    <2>1. next'[i] = NULL
      BY <1>0, <1>2, <1>3 DEF TypeOK
    <2> QED
      BY <1>1, <1>4, <1>7, <1>9, <1>10, <1>11, <2>1 DEF IInv, Fresh, OwnItems
  <1>17. Linking'
    BY <1>1, <1>2, <1>9, <1>10, ListFacts DEF IInv, Linking
  <1>18. Held'
    BY <1>1, <1>2, <1>9, ListFacts DEF IInv, Held, Removing
  <1>19. Gone'
    BY <1>0, <1>1, <1>2, <1>9, <1>10 DEF IInv, Gone, Removing, TypeOK
  <1>20. (Pending /\ Answer)'
    BY <1>1, <1>3, <1>7, <1>9, <1>10 DEF IInv, Pending, Answer, Nodes
  <1>21. Memory'
    <2>1. item[a] = NULL
      BY <1>1 DEF IInv, OwnItems
    <2>2. ASSUME NEW x \in Addresses PROVE InMemory(x)' <=> InMemory(x) \/ x = i
      BY <1>1, <1>9, <1>10, <2>1 DEF InMemory, Removing
    <2> QED
      BY <1>0, <2>2 DEF IInv, Memory
  <1> QED
    BY <1>12, <1>13, <1>14, <1>15, <1>16, <1>17, <1>18, <1>19, <1>20, <1>21 DEF IInv

LEMMA AppendLoadKeeps ==
  ASSUME IInv, NEW a \in Appenders, Append_Load(a)
  PROVE  IInv'
  <1>1. /\ apc[a] = "load" /\ apc' = [apc EXCEPT ![a] = "exchange"]
        /\ tailPtr' = [tailPtr EXCEPT ![a] = tail]
        /\ UNCHANGED <<next, tail, allocated, item, cleaned, rpc, reduced, nextPtr, log, removed>>
    BY DEF Append_Load, nodes, reduce
  <1>2. TypeOK
    BY DEF IInv
  <1>3. /\ InList' = InList /\ Places' = Places
        /\ \A k \in Places : Before(k)' = Before(k)
        /\ \A k \in InList : Linked(k)' <=> Linked(k)
    BY <1>1, <1>2, SameList
  <1>4. /\ apc'[a] = "exchange"
        /\ \A b \in Appenders : b # a => apc'[b] = apc[b] /\ tailPtr'[b] = tailPtr[b]
    BY <1>1, <1>2 DEF TypeOK
  <1>5. TypeOK'
    BY <1>1, <1>2 DEF TypeOK
  <1>6. (InUse /\ Distinct /\ TailIsLast)'
    BY <1>1 DEF IInv, InUse, Distinct, TailIsLast, InList, Before
  <1>7. (Pointers /\ OwnItems /\ Fresh)'
    BY <1>1, <1>4 DEF IInv, Pointers, HeadIsStale, OwnItems, Fresh, InList, Before, Linked
  <1>8. Linking'
    BY <1>1, <1>2, <1>3, <1>4, ListFacts DEF IInv, Linking
  <1>9. (Held /\ Gone)'
    BY <1>1 DEF IInv, Held, Gone, Removing, InList, Linked, Before
  <1>10. (Pending /\ Answer /\ Memory)'
    BY <1>1, <1>4 DEF IInv, Pending, Answer, Memory, InMemory, Removing, InList, Linked, Before
  <1> QED
    BY <1>5, <1>6, <1>7, <1>8, <1>9, <1>10 DEF IInv

\* The tail was another one: load it again.
LEMMA AppendRetryKeeps ==
  ASSUME IInv, NEW a \in Appenders, Append_Exchange(a), ~TailUnchanged(a)
  PROVE  IInv'
  <1>1. /\ apc[a] = "exchange" /\ apc' = [apc EXCEPT ![a] = "load"]
        /\ UNCHANGED <<next, tail, allocated, item, tailPtr, cleaned, rpc, reduced, nextPtr, log, removed>>
    BY DEF Append_Exchange, reduce
  <1>2. TypeOK
    BY DEF IInv
  <1>4. /\ apc'[a] = "load"
        /\ \A b \in Appenders : b # a => apc'[b] = apc[b]
    BY <1>1, <1>2 DEF TypeOK
  <1>5. TypeOK'
    BY <1>1, <1>2 DEF TypeOK
  <1>6. (InUse /\ Distinct /\ TailIsLast)'
    BY <1>1 DEF IInv, InUse, Distinct, TailIsLast, InList, Before
  <1>7. (Pointers /\ OwnItems /\ Fresh)'
    BY <1>1, <1>4 DEF IInv, Pointers, HeadIsStale, OwnItems, Fresh, InList, Before, Linked
  <1>8. Linking'
    BY <1>1, <1>4 DEF IInv, Linking, InList, Before, Linked
  <1>9. (Held /\ Gone)'
    BY <1>1 DEF IInv, Held, Gone, Removing, InList, Linked, Before
  <1>10. (Pending /\ Answer /\ Memory)'
    BY <1>1, <1>4 DEF IInv, Pending, Answer, Memory, InMemory, Removing, InList, Linked, Before
  <1> QED
    BY <1>5, <1>6, <1>7, <1>8, <1>9, <1>10 DEF IInv

\* What a successful exchange does to the list: one more place, and the item
\* in it is not linked.
LEMMA AppendedFacts ==
  ASSUME IInv, NEW a \in Appenders, Append_Exchange(a), TailUnchanged(a),
         NEW n \in Nat, n = Len(log) + 1
  PROVE  /\ apc[a] = "exchange" /\ apc' = [apc EXCEPT ![a] = "link"]
         /\ UNCHANGED <<next, allocated, item, tailPtr, cleaned, rpc, reduced, nextPtr, removed>>
         /\ log' = Append(log, item[a]) /\ tail' = item[a] /\ tail = tailPtr[a]
         /\ item[a] \in Addresses
         /\ Len(log') = n
         /\ log'[n] = item[a] /\ \A k \in InList : log'[k] = log[k]
         /\ \A k \in 1 .. Len(log) : log'[k] = log[k]
         /\ InList' = InList \union {n}
         /\ Places' = Places \union {n + 1}
         /\ n \in Places /\ n \notin InList
         /\ n + 1 \notin Places
         /\ \A k \in Places : Before(k)' = Before(k)
         /\ Before(n + 1)' = item[a]
         /\ \A k \in InList : Linked(k)' <=> Linked(k)
         /\ tailPtr[a] = Before(n)
         /\ ~Linked(n)'
  <1>1. /\ apc[a] = "exchange" /\ apc' = [apc EXCEPT ![a] = "link"]
        /\ UNCHANGED <<next, allocated, item, tailPtr, cleaned, rpc, reduced, nextPtr, removed>>
        /\ log' = Append(log, item[a]) /\ tail' = item[a] /\ tail = tailPtr[a]
    BY DEF Append_Exchange, reduce, TailUnchanged
  <1>2. /\ TypeOK /\ log \in Seq(Addresses) /\ Len(log) \in Nat
        /\ removed \in Nat /\ removed <= Len(log)
    BY ListFacts DEF IInv, TypeOK
  <1>3. item[a] # NULL /\ item[a] \in Addresses
    BY <1>1, <1>2 DEF IInv, OwnItems, TypeOK
  <1>4. /\ Len(log') = n
        /\ log'[n] = item[a]
        /\ \A k \in 1 .. Len(log) : log'[k] = log[k]
    BY <1>1, <1>2, <1>3
  <1>5. /\ InList' = InList \union {n}
        /\ Places' = Places \union {n + 1}
        /\ n \in Places /\ n \notin InList
        /\ n + 1 \notin Places
        /\ InList \subseteq 1 .. Len(log)
    BY <1>1, <1>2, <1>4 DEF InList, Places
  <1>6. ASSUME NEW k \in Places PROVE Before(k)' = Before(k)
    <2>1. k # removed + 1 => k - 1 \in 1 .. Len(log)
      BY <1>2 DEF Places
    <2> QED
      BY <1>1, <1>4, <2>1 DEF Before
  <1>7. Before(n + 1)' = item[a]
    <2>1. n + 1 # removed + 1 /\ (n + 1) - 1 = n
      BY <1>2
    <2> QED
      BY <1>1, <1>4, <2>1 DEF Before
  <1>8. \A k \in InList : log'[k] = log[k] /\ (Linked(k)' <=> Linked(k))
    <2>1. ASSUME NEW k \in InList PROVE k \in Places /\ k \in 1 .. Len(log)
      BY <1>2, <1>5, ListFacts
    <2> QED
      BY <1>1, <1>4, <1>6, <2>1 DEF Linked
  <1>9. tailPtr[a] = Before(n)
    BY <1>1 DEF IInv, TailIsLast
  <1>10. ~Linked(n)'
    <2>1. next[Before(n)] = NULL \/ next[Before(n)] = cleaned
      <3>1. \/ next[Before(n)] = NULL
            \/ n = removed + 1 /\ rpc = "clearHead" /\ next[Zero] = cleaned
        BY <1>5 DEF IInv, Pointers, HeadIsStale, Places
      <3> QED
        BY <1>2, <3>1, ListFacts
    <2>2. rpc = "clearHead" => item[a] # cleaned
      BY DEF IInv, Gone, Removing
    <2>3. next[Before(n)] # item[a]
      BY <1>2, <1>3, <1>5, <2>1, <2>2, ListFacts DEF IInv, Pointers, HeadIsStale, Places
    <2> QED
      BY <1>1, <1>4, <1>5, <1>6, <2>3 DEF Linked
  <1> QED
    BY <1>1, <1>3, <1>4, <1>5, <1>6, <1>7, <1>8, <1>9, <1>10

LEMMA AppendExchangeKeeps ==
  ASSUME IInv, NEW a \in Appenders, Append_Exchange(a), TailUnchanged(a)
  PROVE  IInv'
  <1>0. PICK n \in Nat : n = Len(log) + 1
    BY ListFacts DEF IInv
  <1>1. /\ apc[a] = "exchange" /\ apc' = [apc EXCEPT ![a] = "link"]
        /\ UNCHANGED <<next, allocated, item, tailPtr, cleaned, rpc, reduced, nextPtr, removed>>
        /\ log' = Append(log, item[a]) /\ tail' = item[a]
        /\ item[a] \in Addresses
        /\ Len(log') = n
        /\ log'[n] = item[a] /\ \A k \in InList : log'[k] = log[k]
        /\ \A k \in 1 .. Len(log) : log'[k] = log[k]
        /\ InList' = InList \union {n}
        /\ Places' = Places \union {n + 1}
        /\ n \in Places /\ n \notin InList /\ n + 1 \notin Places
        /\ \A k \in Places : Before(k)' = Before(k)
        /\ Before(n + 1)' = item[a]
        /\ \A k \in InList : Linked(k)' <=> Linked(k)
        /\ tailPtr[a] = Before(n)
        /\ ~Linked(n)'
    BY <1>0, AppendedFacts
  <1>2. /\ TypeOK /\ log \in Seq(Addresses) /\ Len(log) \in Nat
        /\ removed \in Nat /\ removed <= Len(log) /\ n = Len(log) + 1
        /\ InList \subseteq Places /\ removed + 1 \in Places
    BY <1>0, ListFacts DEF IInv, TypeOK
  <1>3. /\ next[item[a]] = NULL /\ \A k \in InList : log[k] # item[a]
    BY <1>1 DEF IInv, Fresh
  <1>4. /\ apc'[a] = "link"
        /\ \A b \in Appenders : b # a => apc'[b] = apc[b]
    BY <1>1, <1>2 DEF TypeOK
  <1>5. TypeOK'
    BY <1>1, <1>2 DEF TypeOK, Nodes
  <1>6. InUse'
    BY <1>1, <1>2 DEF IInv, InUse, OwnItems, TypeOK
  <1>7. Distinct'
    <2>1. Distinct /\ InList' = InList \union {n}
          /\ log'[n] = item[a] /\ \A k \in InList : log'[k] = log[k] /\ log'[k] # item[a]
      BY <1>1, <1>3 DEF IInv
    <2>2. ASSUME NEW j \in InList', NEW k \in InList', log'[j] = log'[k] PROVE j = k
      BY <2>1, <2>2 DEF Distinct
    <2> QED
      BY <2>2 DEF Distinct
  <1>8. TailIsLast'
    BY <1>1 DEF TailIsLast
  <1>9. Pointers'
    <2>1. ASSUME NEW k \in Places
          PROVE  \/ next[Before(k)] = NULL
                 \/ k \in InList /\ Linked(k)
                 \/ k = removed + 1 /\ HeadIsStale
      BY DEF IInv, Pointers, Places
    <2>2. HeadIsStale' <=> HeadIsStale
      BY <1>1 DEF HeadIsStale
    <2>3. ASSUME NEW k \in Places'
          PROVE  \/ next'[Before(k)'] = NULL
                 \/ k \in InList' /\ Linked(k)'
                 \/ k = removed' + 1 /\ HeadIsStale'
      BY <1>1, <1>3, <2>1, <2>2
    <2> QED
      BY <2>3 DEF Pointers, Places
  <1>10. OwnItems'
    BY <1>1, <1>4 DEF IInv, OwnItems
  <1>11. Fresh'
    <2>1. ASSUME NEW b \in Appenders, apc'[b] \in {"load", "exchange"}
          PROVE  next'[item'[b]] = NULL /\ \A k \in InList' : log'[k] # item'[b]
      <3>1. b # a /\ apc[b] \in {"load", "exchange"} /\ item[b] # item[a]
        BY <1>1, <1>4, <2>1 DEF IInv, OwnItems
      <3>2. next[item[b]] = NULL /\ \A k \in InList : log[k] # item[b]
        BY <3>1 DEF IInv, Fresh
      <3> QED
        BY <1>1, <3>1, <3>2
    <2> QED
      BY <2>1 DEF Fresh
  <1>12. Linking'
    <2>1. ASSUME NEW b \in Appenders, apc'[b] = "link", b # a
          PROVE  \E k \in InList' : /\ log'[k] = item'[b]
                                    /\ tailPtr'[b] = Before(k)' /\ ~Linked(k)'
      BY <1>1, <1>2, <1>4, <2>1 DEF IInv, Linking
    <2>2. n \in InList' /\ log'[n] = item'[a] /\ tailPtr'[a] = Before(n)' /\ ~Linked(n)'
      BY <1>1
    <2> QED
      BY <2>1, <2>2 DEF Linking
  <1>13. Held'
    BY <1>1 DEF IInv, Held, Removing
  <1>14. Gone'
    <2>1. removed \in 1 .. Len(log) => removed \in 1 .. Len(log') /\ log'[removed] = log[removed]
      BY <1>1, <1>2
    <2> QED
      BY <1>1, <2>1 DEF IInv, Gone, Removing
  <1>15. Pending'
    <2>1. ASSUME NEW k \in InList
          PROVE  Linked(k)' \/ \E b \in Appenders : apc'[b] = "link" /\ item[b] = log'[k]
      <3>1. Linked(k) \/ \E b \in Appenders : apc[b] = "link" /\ item[b] = log[k]
        BY DEF IInv, Pending
      <3> QED
        BY <1>1, <1>4, <3>1
    <2>2. apc'[a] = "link" /\ item[a] = log'[n]
      BY <1>1, <1>4
    <2> QED
      BY <1>1, <2>1, <2>2 DEF Pending
  <1>16. Answer'
    BY <1>1 DEF IInv, Answer
  <1>17. Memory'
    <2>1. ASSUME NEW x \in Addresses PROVE InMemory(x)' <=> InMemory(x)
      BY <1>1 DEF InMemory, Removing
    <2> QED
      BY <1>1, <2>1 DEF IInv, Memory
  <1> QED
    BY <1>5, <1>6, <1>7, <1>8, <1>9, <1>10, <1>11, <1>12, <1>13, <1>14, <1>15, <1>16,
       <1>17 DEF IInv

\* The link goes into the node in front of the item, and nowhere else.
LEMMA LinkedByAppend ==
  ASSUME IInv, NEW a \in Appenders, Append_Link(a)
  PROVE  \E k \in InList :
           /\ log[k] = item[a] /\ ~Linked(k)
           /\ next'[Before(k)] = item[a]
           /\ \A m \in Nodes : m # Before(k) => next'[m] = next[m]
           /\ \A j \in Places : j # k => Before(j) # Before(k)
           /\ Linked(k)'
           /\ \A j \in InList : j # k => (Linked(j)' <=> Linked(j))
  <1>1. /\ apc[a] = "link" /\ next' = [next EXCEPT ![tailPtr[a]] = item[a]]
        /\ UNCHANGED <<log, removed>>
    BY DEF Append_Link
  <1>2. TypeOK /\ Distinct
    BY DEF IInv
  <1>3. PICK k \in InList : log[k] = item[a] /\ tailPtr[a] = Before(k) /\ ~Linked(k)
    BY <1>1 DEF IInv, Linking
  <1>4. /\ InList \subseteq Places /\ k \in Places
        /\ \A j \in Places : Before(j) \in Nodes
    BY <1>2, ListFacts
  <1>5. \A j : Before(j)' = Before(j)
    BY <1>1 DEF Before
  <1>6. /\ next'[Before(k)] = item[a]
        /\ \A m \in Nodes : m # Before(k) => next'[m] = next[m]
    BY <1>1, <1>2, <1>3, <1>4 DEF TypeOK
  <1>7. \A j \in Places : j # k => Before(j) # Before(k)
    BY <1>2, <1>4, OneNodeEach
  <1>8. Linked(k)' /\ \A j \in InList : j # k => (Linked(j)' <=> Linked(j))
    BY <1>1, <1>3, <1>4, <1>5, <1>6, <1>7 DEF Linked
  <1> QED
    BY <1>3, <1>6, <1>7, <1>8

LEMMA AppendLinkKeeps ==
  ASSUME IInv, NEW a \in Appenders, Append_Link(a)
  PROVE  IInv'
  <1>1. /\ apc[a] = "link" /\ apc' = [apc EXCEPT ![a] = "idle"]
        /\ next' = [next EXCEPT ![tailPtr[a]] = item[a]]
        /\ item' = [item EXCEPT ![a] = NULL]
        /\ tailPtr' = [tailPtr EXCEPT ![a] = NULL]
        /\ UNCHANGED <<tail, allocated, cleaned, rpc, reduced, nextPtr, log, removed>>
    BY DEF Append_Link, reduce
  <1>2. TypeOK
    BY DEF IInv
  <1>3. PICK k \in InList :
          /\ log[k] = item[a] /\ ~Linked(k)
          /\ next'[Before(k)] = item[a]
          /\ \A m \in Nodes : m # Before(k) => next'[m] = next[m]
          /\ \A j \in Places : j # k => Before(j) # Before(k)
          /\ Linked(k)'
          /\ \A j \in InList : j # k => (Linked(j)' <=> Linked(j))
    BY LinkedByAppend
  <1>4. /\ InList \subseteq Places /\ k \in Places /\ Before(k) \in Nodes
        /\ item[a] \in Addresses /\ item[a] # NULL
    BY <1>2, <1>3, ListFacts
  <1>5. InList' = InList /\ Places' = Places /\ \A j : Before(j)' = Before(j)
    BY <1>1 DEF InList, Places, Before
  <1>6. next' \in [Nodes -> Addresses \union {NULL}]
    BY <1>1, <1>2, <1>4 DEF TypeOK
  <1>7. \A j \in Places : j # k => next'[Before(j)] = next[Before(j)]
    BY <1>2, <1>3, ListFacts
  <1>9. /\ apc'[a] = "idle" /\ item'[a] = NULL
        /\ \A b \in Appenders : b # a => /\ apc'[b] = apc[b] /\ item'[b] = item[b]
                                         /\ tailPtr'[b] = tailPtr[b]
    BY <1>1, <1>2 DEF TypeOK
  <1>10. TypeOK'
    BY <1>1, <1>2, <1>6 DEF TypeOK
  <1>11. (InUse /\ Distinct /\ TailIsLast)'
    BY <1>1 DEF IInv, InUse, Distinct, TailIsLast, InList, Before
  <1>12. Pointers'
    <2>1. ASSUME NEW j \in Places, j # k
          PROVE  \/ next'[Before(j)'] = NULL
                 \/ j \in InList' /\ Linked(j)'
                 \/ j = removed' + 1 /\ HeadIsStale'
      <3>1. \/ next[Before(j)] = NULL
            \/ j \in InList /\ Linked(j)
            \/ j = removed + 1 /\ HeadIsStale
        BY DEF IInv, Pointers, Places
      <3>2. j = removed + 1 => next'[Zero] = next[Zero]
        BY <1>2, <1>3, <1>7, <2>1, ListFacts
      <3> QED
        BY <1>1, <1>5, <1>7, <1>3, <2>1, <3>1, <3>2 DEF HeadIsStale
    <2>2. k \in InList' /\ Linked(k)'
      BY <1>5, <1>3
    <2> QED
      BY <1>5, <2>1, <2>2 DEF Pointers, Places
  <1>13. OwnItems'
    BY <1>9 DEF IInv, OwnItems
  <1>14. Fresh'
    <2>1. ASSUME NEW b \in Appenders, apc'[b] \in {"load", "exchange"}
          PROVE  next'[item'[b]] = NULL /\ \A j \in InList' : log'[j] # item'[b]
      <3>1. b # a /\ apc[b] \in {"load", "exchange"} /\ item'[b] = item[b] /\ item[b] # NULL
        BY <1>9, <2>1 DEF IInv, OwnItems
      <3>2. next[item[b]] = NULL /\ \A j \in InList : log[j] # item[b]
        BY <3>1 DEF IInv, Fresh
      <3>3. item[b] \in Addresses
        BY <1>2, <3>1 DEF TypeOK
      <3>4. k = removed + 1 \/ k - 1 \in InList
        BY <1>2, <1>3, ListFacts DEF InList
      <3>5. item[b] # Before(k)
        BY <3>2, <3>3, <3>4 DEF Before
      <3> QED
        BY <1>1, <1>3, <1>5, <3>1, <3>2, <3>3, <3>5 DEF Nodes
    <2> QED
      BY <2>1 DEF Fresh
  <1>15. Linking'
    <2>1. ASSUME NEW b \in Appenders, apc'[b] = "link"
          PROVE  \E j \in InList' : /\ log'[j] = item'[b]
                                    /\ tailPtr'[b] = Before(j)' /\ ~Linked(j)'
      <3>1. b # a /\ apc[b] = "link" /\ item'[b] = item[b] /\ tailPtr'[b] = tailPtr[b]
        BY <1>9, <2>1
      <3>2. PICK j \in InList : log[j] = item[b] /\ tailPtr[b] = Before(j) /\ ~Linked(j)
        BY <3>1 DEF IInv, Linking
      <3>3. j # k
        BY <1>3, <1>4, <3>1, <3>2 DEF IInv, OwnItems
      <3> QED
        BY <1>1, <1>3, <1>5, <3>1, <3>2, <3>3
    <2> QED
      BY <2>1 DEF Linking
  <1>16. Held'
    <2>1. \A j \in InList : Linked(j) => Linked(j)'
      BY <1>3
    <2> QED
      BY <1>1, <1>5, <2>1 DEF IInv, Held, Removing
  <1>17. Gone'
    BY <1>1, <1>2, <1>5, <1>9 DEF IInv, Gone, Removing, TypeOK
  <1>18. Pending'
    BY <1>1, <1>3, <1>5, <1>9 DEF IInv, Pending, Distinct
  <1>19. Answer'
    <2>1. next'[Zero] = item[a] \/ next'[Zero] = next[Zero]
      BY <1>3 DEF Nodes
    <2> QED
      BY <1>1, <1>3, <1>4, <1>5, <2>1 DEF IInv, Answer
  <1>20. Memory'
    <2>1. ASSUME NEW x \in Addresses PROVE InMemory(x)' <=> InMemory(x)
      BY <1>1, <1>3, <1>5, <1>9, <2>1 DEF InMemory, Removing
    <2> QED
      BY <1>1, <2>1 DEF IInv, Memory
  <1> QED
    BY <1>10, <1>11, <1>12, <1>13, <1>14, <1>15, <1>16, <1>17, <1>18, <1>19, <1>20 DEF IInv

-----------------------------------------------------------------------------
(* reduce().                                                               *)

\* A step of reduce() that only reads.
LEMMA ReadingKeeps ==
  ASSUME IInv, UNCHANGED <<nodes, append, log, removed>>,
         rpc \notin {"clearHead", "free"}, rpc' \notin {"clearHead", "free"},
         TypeOK', Held'
  PROVE  IInv'
  <1> USE DEF nodes, append
  <1>1. (InUse /\ Distinct /\ TailIsLast)'
    BY DEF IInv, InUse, Distinct, TailIsLast, InList, Before
  <1>2. (Pointers /\ OwnItems /\ Fresh)'
    BY DEF IInv, Pointers, HeadIsStale, OwnItems, Fresh, InList, Before, Linked
  <1>3. (Linking /\ Gone /\ Answer)'
    BY DEF IInv, Linking, Gone, Removing, Answer, InList, Before, Linked
  <1>4. (Pending /\ Memory)'
    BY DEF IInv, Pending, Memory, InMemory, Removing, InList, Before, Linked
  <1> QED
    BY <1>1, <1>2, <1>3, <1>4 DEF IInv

\* Unless reduce() has still to clear it, the zero node leads to the first item.
LEMMA HeadFacts ==
  ASSUME IInv, rpc # "clearHead", next[Zero] # NULL
  PROVE  /\ removed + 1 \in InList /\ next[Zero] = log[removed + 1]
         /\ Linked(removed + 1)
         /\ next[Zero] \in Addresses /\ next[Zero] \in allocated
  <1>1. TypeOK /\ removed + 1 \in Places /\ Before(removed + 1) = Zero
    BY ListFacts DEF IInv
  <1>2. removed + 1 \in InList /\ Linked(removed + 1)
    BY <1>1 DEF IInv, Pointers, Places, HeadIsStale
  <1>3. next[Zero] = log[removed + 1]
    BY <1>1, <1>2 DEF Linked
  <1> QED
    BY <1>1, <1>2, <1>3, ListFacts DEF IInv, InUse

LEMMA ReduceCallKeeps ==
  ASSUME IInv, Reduce_Call
  PROVE  IInv'
  <1>1. /\ rpc = "idle" /\ rpc' \in {"idle", "readHead"}
        /\ UNCHANGED <<nodes, append, reduced, nextPtr, log, removed>>
    BY DEF Reduce_Call
  <1>2. TypeOK /\ Held
    BY DEF IInv
  <1>3. CASE next[Zero] # NULL
    <2>1. cleaned' = next[Zero] /\ rpc' = "readHead"
      BY <1>3 DEF Reduce_Call
    <2>2. /\ removed + 1 \in InList /\ next[Zero] = log[removed + 1]
          /\ Linked(removed + 1)
          /\ next[Zero] \in Addresses /\ next[Zero] \in allocated
      BY <1>1, <1>3, HeadFacts
    <2>3. TypeOK'
      BY <1>1, <1>2, <2>1, <2>2 DEF TypeOK, nodes, append
    <2>4. Held'
      BY <1>1, <1>3, <2>1, <2>2 DEF Held, Removing, nodes, InList, Linked, Before
    <2> QED
      BY <1>1, <2>3, <2>4, ReadingKeeps
  <1>4. CASE next[Zero] = NULL
    <2>1. UNCHANGED <<cleaned, rpc>>
      BY <1>4 DEF Reduce_Call
    <2>2. TypeOK'
      BY <1>1, <1>2, <2>1 DEF TypeOK, nodes, append
    <2>3. Held'
      BY <1>1, <1>2, <2>1 DEF Held, Removing, nodes, InList, Linked, Before
    <2> QED
      BY <1>1, <2>2, <2>3, ReadingKeeps
  <1> QED
    BY <1>3, <1>4

\* The head cannot have changed since cleanup() has read it.
LEMMA ReduceReadHeadKeeps ==
  ASSUME IInv, Reduce_ReadHead
  PROVE  IInv'
  <1>1. /\ rpc = "readHead" /\ rpc' = IF next[Zero] = NULL THEN "free" ELSE "readNext"
        /\ reduced' = next[Zero]
        /\ UNCHANGED <<nodes, append, cleaned, nextPtr, log, removed>>
    BY DEF Reduce_ReadHead
  <1>2. TypeOK
    BY DEF IInv
  <1>3. /\ cleaned # NULL /\ removed + 1 \in InList /\ cleaned = log[removed + 1]
        /\ Linked(removed + 1)
    BY <1>1 DEF IInv, Held, Removing
  <1>4. next[Zero] = cleaned /\ rpc' = "readNext"
    BY <1>1, <1>2, <1>3, ListFacts DEF Linked
  <1>5. TypeOK'
    BY <1>1, <1>2, <1>4 DEF TypeOK, Nodes, nodes, append
  <1>6. Held'
    BY <1>1, <1>3, <1>4 DEF Held, Removing, nodes, InList, Linked, Before
  <1> QED
    BY <1>1, <1>4, <1>5, <1>6, ReadingKeeps

LEMMA ReduceReadNextKeeps ==
  ASSUME IInv, Reduce_ReadNext
  PROVE  IInv'
  <1>1. /\ rpc = "readNext"
        /\ rpc' = IF next[reduced] = NULL THEN "exchangeTail" ELSE "exchangeHead"
        /\ nextPtr' = next[reduced]
        /\ UNCHANGED <<nodes, append, cleaned, reduced, log, removed>>
    BY DEF Reduce_ReadNext
  <1>2. TypeOK
    BY DEF IInv
  <1>3. /\ cleaned # NULL /\ removed + 1 \in InList /\ cleaned = log[removed + 1]
        /\ Linked(removed + 1) /\ reduced = cleaned
    BY <1>1 DEF IInv, Held, Removing
  <1>4. /\ removed + 2 \in Places /\ Before(removed + 2) = reduced
        /\ removed + 2 # removed + 1
    <2>1. removed \in Nat /\ (removed + 1) + 1 = removed + 2
      BY <1>2, ListFacts
    <2> QED
      BY <1>2, <1>3, <2>1, ListFacts
  <1>5. next[reduced] # NULL => removed + 2 \in InList /\ Linked(removed + 2)
    BY <1>4 DEF IInv, Pointers, Places
  <1>6. next[reduced] # NULL => next[reduced] = log[removed + 2]
    BY <1>4, <1>5 DEF Linked
  <1>7. TypeOK'
    <2>1. next[reduced] \in Addresses \union {NULL}
      BY <1>2, <1>3 DEF TypeOK, Nodes
    <2> QED
      BY <1>1, <1>2, <2>1 DEF TypeOK, nodes, append
  <1>8. Held'
    BY <1>1, <1>3, <1>5, <1>6 DEF Held, Removing, nodes, InList, Linked, Before
  <1> QED
    BY <1>1, <1>7, <1>8, ReadingKeeps

\* Another thread was in between: start again, whatever the exchange found.
LEMMA ReduceRetryKeeps ==
  ASSUME IInv, rpc \in {"exchangeHead", "exchangeTail"}, rpc' = "readHead",
         reduced' \in Nodes \union {NULL},
         UNCHANGED <<nodes, append, cleaned, nextPtr, log, removed>>
  PROVE  IInv'
  <1>1. TypeOK'
    BY DEF nodes, append, IInv, TypeOK
  <1>2. Held'
    BY DEF nodes, IInv, Held, Removing, InList, Linked, Before
  <1> QED
    BY <1>1, <1>2, ReadingKeeps

\* Nobody works on an item that is linked.
LEMMA LinkedIsNobodys ==
  ASSUME IInv, NEW k \in InList, Linked(k), NEW a \in Appenders
  PROVE  item[a] # log[k]
  <1>1. log[k] # NULL
    BY ListFacts DEF IInv
  <1>2. CASE apc[a] = "idle"
    BY <1>1, <1>2 DEF IInv, OwnItems
  <1>3. CASE apc[a] \in {"load", "exchange"}
    BY <1>3 DEF IInv, Fresh
  <1>4. CASE apc[a] = "link"
    BY <1>4 DEF IInv, Linking, Distinct
  <1> QED
    BY <1>2, <1>3, <1>4 DEF IInv, TypeOK

\* What taking the first of several items off does to the list: the second
\* one is linked to the zero node, the others stay as they are.
LEMMA TakenFacts ==
  ASSUME IInv, Reduce_ExchangeHead, HeadUnchanged,
         NEW h \in Nat, h = removed + 1
  PROVE  /\ rpc = "exchangeHead" /\ rpc' = "free" /\ removed' = h
         /\ next' = [next EXCEPT ![Zero] = nextPtr]
         /\ UNCHANGED <<tail, allocated, append, cleaned, reduced, nextPtr, log>>
         /\ reduced = cleaned
         /\ cleaned # NULL /\ cleaned = log[h] /\ h \in InList /\ Linked(h)
         /\ h + 1 \in InList /\ nextPtr = log[h + 1] /\ Linked(h + 1)
         /\ InList' = InList \ {h} /\ Places' = Places \ {h}
         /\ Before(h + 1)' = Zero /\ Linked(h + 1)'
         /\ \A k \in Places \ {h, h + 1} : /\ Before(k)' = Before(k)
                                           /\ Before(k) # Zero
                                           /\ next'[Before(k)] = next[Before(k)]
         /\ \A k \in InList \ {h, h + 1} : Linked(k)' <=> Linked(k)
  <1>1. /\ rpc = "exchangeHead" /\ rpc' = "free" /\ removed' = h
        /\ next' = [next EXCEPT ![Zero] = nextPtr]
        /\ UNCHANGED <<tail, allocated, append, cleaned, reduced, nextPtr, log>>
    BY DEF Reduce_ExchangeHead
  <1>2. TypeOK /\ Distinct /\ Held /\ removed \in Nat
    BY ListFacts DEF IInv
  <1>3. h + 1 = removed + 2
    BY <1>2
  <1>4. /\ reduced = cleaned
        /\ cleaned # NULL /\ cleaned = log[h] /\ h \in InList /\ Linked(h)
        /\ h + 1 \in InList /\ nextPtr = log[h + 1] /\ Linked(h + 1)
    BY <1>1, <1>2, <1>3 DEF Held, Removing
  <1>5. InList' = InList \ {h} /\ Places' = Places \ {h}
    BY <1>1, <1>2, ListFacts DEF InList, Places
  <1>6. next'[Zero] = nextPtr /\ \A m \in Nodes : m # Zero => next'[m] = next[m]
    BY <1>1, <1>2 DEF TypeOK, Nodes
  <1>7. Before(h + 1)' = Zero
    BY <1>1 DEF Before
  <1>8. Linked(h + 1)'
    BY <1>1, <1>4, <1>6, <1>7 DEF Linked
  <1>9. ASSUME NEW k \in Places, k # h, k # h + 1
        PROVE  /\ Before(k)' = Before(k) /\ Before(k) # Zero
               /\ next'[Before(k)] = next[Before(k)]
    <2>1. k - 1 \in InList /\ k # removed' + 1 /\ k \in Nat
      BY <1>1, <1>2, <1>9, ListFacts DEF Places, InList
    <2>2. Before(k)' = log[k - 1] /\ Before(k) = log[k - 1]
      BY <1>1, <1>9, <2>1 DEF Before
    <2> QED
      BY <1>2, <1>6, <2>1, <2>2, ListFacts DEF Nodes
  <1>10. ASSUME NEW k \in InList \ {h, h + 1} PROVE Linked(k)' <=> Linked(k)
    BY <1>1, <1>2, <1>9, ListFacts DEF Linked
  <1> QED
    BY <1>1, <1>4, <1>5, <1>7, <1>8, <1>9, <1>10

LEMMA ReduceExchangeHeadKeeps ==
  ASSUME IInv, Reduce_ExchangeHead, HeadUnchanged
  PROVE  IInv'
  <1>0. PICK h \in Nat : h = removed + 1
    BY ListFacts DEF IInv
  <1>1. /\ rpc = "exchangeHead" /\ rpc' = "free" /\ removed' = h
        /\ next' = [next EXCEPT ![Zero] = nextPtr]
        /\ UNCHANGED <<tail, allocated, append, cleaned, reduced, nextPtr, log>>
        /\ reduced = cleaned
        /\ cleaned # NULL /\ cleaned = log[h] /\ h \in InList /\ Linked(h)
        /\ h + 1 \in InList /\ nextPtr = log[h + 1] /\ Linked(h + 1)
        /\ InList' = InList \ {h} /\ Places' = Places \ {h}
        /\ Before(h + 1)' = Zero /\ Linked(h + 1)'
        /\ \A k \in Places \ {h, h + 1} : /\ Before(k)' = Before(k)
                                          /\ Before(k) # Zero
                                          /\ next'[Before(k)] = next[Before(k)]
        /\ \A k \in InList \ {h, h + 1} : Linked(k)' <=> Linked(k)
    BY <1>0, TakenFacts
  <1>2. /\ TypeOK /\ Len(log) \in Nat /\ removed \in Nat
        /\ InList \subseteq Places
        /\ \A k \in InList : log[k] \in Addresses
    BY ListFacts DEF IInv
  <1>3. TypeOK'
    <2>1. next' \in [Nodes -> Addresses \union {NULL}]
      BY <1>1, <1>2 DEF TypeOK
    <2>2. removed' \in 0 .. Len(log')
      BY <1>0, <1>1, <1>2 DEF InList
    <2> QED
      BY <1>1, <1>2, <2>1, <2>2 DEF TypeOK, append
  <1>4. (InUse /\ Distinct)'
    BY <1>1 DEF IInv, InUse, Distinct
  <1>5. TailIsLast'
    <2>1. PICK n \in Nat : n = Len(log) + 1
      BY <1>2
    <2>2. n \in Places \ {h, h + 1}
      BY <1>0, <1>1, <1>2, <2>1 DEF Places, InList
    <2> QED
      BY <1>1, <2>1, <2>2 DEF IInv, TailIsLast
  <1>6. Pointers'
    <2>1. ASSUME NEW k \in Places \ {h, h + 1}
          PROVE  next'[Before(k)'] = NULL \/ (k \in InList' /\ Linked(k)')
      <3>1. next[Before(k)] = NULL \/ (k \in InList /\ Linked(k))
        BY <1>0 DEF IInv, Pointers, Places
      <3> QED
        BY <1>1, <3>1
    <2>2. h + 1 \in InList' /\ Linked(h + 1)'
      BY <1>0, <1>1
    <2>3. \A k \in Places' : next'[Before(k)'] = NULL \/ (k \in InList' /\ Linked(k)')
      BY <1>1, <2>1, <2>2
    <2> QED
      BY <2>3 DEF Pointers, Places
  <1>7. OwnItems'
    BY <1>1 DEF IInv, OwnItems, append
  <1>8. Fresh'
    <2>1. ASSUME NEW a \in Appenders, apc[a] \in {"load", "exchange"}
          PROVE  next'[item[a]] = NULL /\ \A k \in InList : log[k] # item[a]
      <3>1. next[item[a]] = NULL /\ \A k \in InList : log[k] # item[a]
        BY <2>1 DEF IInv, Fresh
      <3>2. item[a] \in Addresses
        BY <1>2, <2>1 DEF IInv, TypeOK, OwnItems
      <3> QED
        BY <1>1, <1>2, <3>1, <3>2 DEF TypeOK, Nodes
    <2> QED
      BY <1>1, <2>1 DEF Fresh, append
  <1>9. Linking'
    <2>1. ASSUME NEW a \in Appenders, apc[a] = "link"
          PROVE  \E k \in InList' : log[k] = item[a] /\ tailPtr[a] = Before(k)' /\ ~Linked(k)'
      <3>1. PICK k \in InList : log[k] = item[a] /\ tailPtr[a] = Before(k) /\ ~Linked(k)
        BY <2>1 DEF IInv, Linking
      <3>2. k # h /\ k # h + 1
        BY <1>1, <3>1
      <3> QED
        BY <1>1, <1>2, <3>1, <3>2
    <2> QED
      BY <1>1, <2>1 DEF Linking, append
  <1>10. Held'
    BY <1>1 DEF Held, Removing
  <1>11. Gone'
    <2>1. \A k \in InList' : log[k] # cleaned
      BY <1>1 DEF IInv, Distinct
    <2>2. \A a \in Appenders : item[a] # cleaned
      BY <1>1, LinkedIsNobodys
    <2> QED
      BY <1>0, <1>1, <1>2, <2>1, <2>2 DEF Gone, InList, append
  <1>12. Pending'
    <2>1. ASSUME NEW k \in InList', k # h + 1
          PROVE  Linked(k)' \/ \E a \in Appenders : apc[a] = "link" /\ item[a] = log[k]
      BY <1>1, <2>1 DEF IInv, Pending
    <2> QED
      BY <1>1, <2>1 DEF Pending, append
  <1>13. Answer'
    BY <1>1 DEF Answer
  <1>14. Memory'
    <2>1. ASSUME NEW x \in Addresses PROVE InMemory(x)' <=> InMemory(x)
      BY <1>1 DEF InMemory, Removing, append
    <2> QED
      BY <1>1, <2>1 DEF IInv, Memory
  <1> QED
    BY <1>3, <1>4, <1>5, <1>6, <1>7, <1>8, <1>9, <1>10, <1>11, <1>12, <1>13, <1>14 DEF IInv

\* Nothing behind the first item and the tail is still this item: it is the
\* only one.
LEMMA LastFacts ==
  ASSUME IInv, Reduce_ExchangeTail, IsTail
  PROVE  /\ reduced = cleaned
         /\ removed + 1 \in InList /\ cleaned # NULL /\ cleaned = log[removed + 1]
         /\ Linked(removed + 1) /\ next[Zero] = cleaned
         /\ InList = {removed + 1} /\ Len(log) = removed + 1
  <1>1. TypeOK /\ rpc = "exchangeTail" /\ Len(log) \in Nat /\ removed \in Nat
    BY ListFacts DEF IInv, Reduce_ExchangeTail
  <1>2. /\ reduced = cleaned
        /\ removed + 1 \in InList /\ cleaned # NULL /\ cleaned = log[removed + 1]
        /\ Linked(removed + 1)
    BY <1>1 DEF IInv, Held, Removing
  <1>3. next[Zero] = cleaned
    BY <1>1, <1>2, ListFacts DEF Linked
  <1>4. Len(log) \in InList /\ tail = log[Len(log)]
    <2>1. Len(log) \in InList /\ Len(log) + 1 # removed + 1 /\ (Len(log) + 1) - 1 = Len(log)
      BY <1>1, <1>2 DEF InList
    <2> QED
      BY <2>1 DEF IInv, TailIsLast, Before
  <1>5. Len(log) = removed + 1
    BY <1>2, <1>4 DEF IsTail, IInv, Distinct
  <1> QED
    BY <1>1, <1>2, <1>3, <1>5 DEF InList

LEMMA ReduceExchangeTailKeeps ==
  ASSUME IInv, Reduce_ExchangeTail, IsTail
  PROVE  IInv'
  <1>1. /\ rpc = "exchangeTail" /\ rpc' = "clearHead" /\ removed' = removed + 1
        /\ tail' = Zero
        /\ UNCHANGED <<next, allocated, append, cleaned, reduced, nextPtr, log>>
    BY DEF Reduce_ExchangeTail
  <1>2. /\ reduced = cleaned
        /\ removed + 1 \in InList /\ cleaned # NULL /\ cleaned = log[removed + 1]
        /\ Linked(removed + 1) /\ next[Zero] = cleaned
        /\ InList = {removed + 1} /\ Len(log) = removed + 1
    BY LastFacts
  <1>3. TypeOK /\ Len(log) \in Nat /\ removed \in Nat
    BY ListFacts DEF IInv
  <1>4. InList' = {}
    BY <1>1, <1>2, <1>3 DEF InList
  <1>5. TypeOK'
    BY <1>1, <1>2, <1>3 DEF TypeOK, append, Nodes
  <1>6. (InUse /\ Distinct)'
    BY <1>4 DEF InUse, Distinct
  <1>7. TailIsLast'
    BY <1>1, <1>2 DEF TailIsLast, Before
  <1>8. Pointers'
    <2>1. \A k \in removed' + 1 .. Len(log') + 1 : k = removed' + 1
      BY <1>1, <1>2, <1>3
    <2>2. HeadIsStale'
      BY <1>1, <1>2 DEF HeadIsStale
    <2> QED
      BY <2>1, <2>2 DEF Pointers
  <1>9. OwnItems'
    BY <1>1 DEF IInv, OwnItems, append
  <1>10. Fresh'
    BY <1>1, <1>4 DEF IInv, Fresh, append
  <1>11. Linking'
    <2>1. \A a \in Appenders : apc[a] # "link"
      BY <1>2 DEF IInv, Linking
    <2> QED
      BY <1>1, <2>1 DEF Linking, append
  <1>12. Held'
    BY <1>1 DEF Held, Removing
  <1>13. Gone'
    <2>1. \A a \in Appenders : item[a] # cleaned
      BY <1>2, LinkedIsNobodys
    <2> QED
      BY <1>1, <1>2, <1>3, <1>4, <2>1 DEF Gone, append
  <1>14. (Pending /\ Answer)'
    BY <1>1, <1>2, <1>4 DEF Pending, Answer
  <1>15. Memory'
    <2>1. ASSUME NEW x \in Addresses PROVE InMemory(x)' <=> InMemory(x)
      BY <1>1, <1>2, <1>4 DEF InMemory, Removing, append
    <2> QED
      BY <1>1, <2>1 DEF IInv, Memory
  <1> QED
    BY <1>5, <1>6, <1>7, <1>8, <1>9, <1>10, <1>11, <1>12, <1>13, <1>14, <1>15 DEF IInv

\* Only the zero node changes, and only if it points to the removed item; if
\* it points to another one, that is the first item of the list.
LEMMA ClearedFacts ==
  ASSUME IInv, Reduce_ClearHead
  PROVE  /\ rpc = "clearHead" /\ rpc' = "free"
         /\ UNCHANGED <<tail, allocated, append, cleaned, nextPtr, log, removed>>
         /\ next' \in [Nodes -> Addresses \union {NULL}]
         /\ InList' = InList /\ Places' = Places
         /\ \A k \in Places : Before(k)' = Before(k)
         /\ \A k \in Places : next'[Before(k)] = next[Before(k)] \/ next'[Before(k)] = NULL
         /\ next'[Zero] # cleaned
         /\ \A m \in Addresses : next'[m] = next[m]
         /\ \A k \in InList : Linked(k)' <=> Linked(k)
         /\ \/ reduced' = cleaned
            \/ /\ removed + 1 \in InList /\ Linked(removed + 1)
               /\ reduced' = log[removed + 1]
  <1>1. /\ rpc = "clearHead" /\ rpc' = "free"
        /\ UNCHANGED <<tail, allocated, append, cleaned, nextPtr, log, removed>>
    BY DEF Reduce_ClearHead
  <1>2. TypeOK /\ Gone /\ Pointers /\ reduced = cleaned
    BY <1>1 DEF IInv, Answer
  <1>3. InList' = InList /\ Places' = Places /\ \A k : Before(k)' = Before(k)
    BY <1>1 DEF InList, Places, Before
  <1>4. cleaned # NULL /\ \A k \in InList : log[k] # cleaned
    BY <1>1, <1>2 DEF Gone, Removing
  <1>5. CASE next[Zero] = cleaned
    <2>1. next' = [next EXCEPT ![Zero] = NULL] /\ reduced' = cleaned
      BY <1>2, <1>5 DEF Reduce_ClearHead, HeadUnchanged
    <2>2. /\ next' \in [Nodes -> Addresses \union {NULL}]
          /\ next'[Zero] = NULL /\ \A m \in Nodes : m # Zero => next'[m] = next[m]
      BY <1>2, <2>1 DEF TypeOK, Nodes
    <2>3. \A k \in Places : next'[Before(k)] = next[Before(k)] \/ next'[Before(k)] = NULL
      BY <1>2, <2>2, ListFacts
    <2>4. ASSUME NEW k \in InList PROVE Linked(k)' <=> Linked(k)
      <3>1. log[k] # cleaned /\ log[k] # NULL /\ Before(k) \in Nodes
        BY <1>2, <1>4, ListFacts
      <3>2. next'[Before(k)] = log[k] <=> next[Before(k)] = log[k]
        BY <1>5, <2>2, <3>1
      <3> QED
        BY <1>1, <1>3, <3>2 DEF Linked
    <2> QED
      BY <1>1, <1>3, <1>4, <2>1, <2>2, <2>3, <2>4 DEF Nodes
  <1>6. CASE next[Zero] # cleaned
    <2>1. next' = next /\ reduced' = next[Zero]
      BY <1>2, <1>6 DEF Reduce_ClearHead, HeadUnchanged
    <2>2. \A k \in InList : Linked(k)' <=> Linked(k)
      BY <1>1, <1>3, <2>1 DEF Linked
    <2>3. next[Zero] # NULL => removed + 1 \in InList /\ Linked(removed + 1)
      BY <1>2, <1>6, ListFacts DEF Pointers, Places, HeadIsStale
    <2>4. next[Zero] # NULL
      BY <1>1 DEF IInv, Answer
    <2> QED
      BY <1>1, <1>2, <1>3, <1>6, <2>1, <2>2, <2>3, <2>4, ListFacts DEF TypeOK, Linked
  <1> QED
    BY <1>5, <1>6

LEMMA ReduceClearHeadKeeps ==
  ASSUME IInv, Reduce_ClearHead
  PROVE  IInv'
  <1>1. /\ rpc = "clearHead" /\ rpc' = "free"
        /\ UNCHANGED <<tail, allocated, append, cleaned, nextPtr, log, removed>>
        /\ next' \in [Nodes -> Addresses \union {NULL}]
        /\ InList' = InList /\ Places' = Places
        /\ \A k \in Places : Before(k)' = Before(k)
        /\ \A k \in Places : next'[Before(k)] = next[Before(k)] \/ next'[Before(k)] = NULL
        /\ next'[Zero] # cleaned
        /\ \A m \in Addresses : next'[m] = next[m]
        /\ \A k \in InList : Linked(k)' <=> Linked(k)
        /\ \/ reduced' = cleaned
           \/ /\ removed + 1 \in InList /\ Linked(removed + 1)
              /\ reduced' = log[removed + 1]
    BY ClearedFacts
  <1>2. /\ TypeOK /\ InList \subseteq Places /\ Before(removed + 1) = Zero
        /\ \A k \in InList : log[k] \in Addresses
    BY ListFacts DEF IInv
  <1>3. TypeOK'
    <2>1. reduced' \in Nodes \union {NULL}
      BY <1>1, <1>2 DEF TypeOK, Nodes
    <2> QED
      BY <1>1, <1>2, <2>1 DEF TypeOK, append
  <1>4. (InUse /\ Distinct /\ TailIsLast)'
    BY <1>1 DEF IInv, InUse, Distinct, TailIsLast, InList, Before
  <1>5. Pointers'
    <2>1. ASSUME NEW k \in Places
          PROVE  next'[Before(k)] = NULL \/ (k \in InList /\ Linked(k))
      <3>1. \/ next[Before(k)] = NULL
            \/ k \in InList /\ Linked(k)
            \/ k = removed + 1 /\ next[Zero] = cleaned
        BY DEF IInv, Pointers, Places, HeadIsStale
      <3>2. CASE k = removed + 1 /\ next[Zero] = cleaned
        BY <1>1, <1>2, <3>2
      <3> QED
        BY <1>1, <3>1, <3>2
    <2> QED
      BY <1>1, <2>1 DEF Pointers, Places
  <1>6. OwnItems'
    BY <1>1 DEF IInv, OwnItems, append
  <1>7. Fresh'
    <2>1. \A a \in Appenders : apc[a] \in {"load", "exchange"} => item[a] \in Addresses
      BY <1>2 DEF IInv, TypeOK, OwnItems
    <2> QED
      BY <1>1, <2>1 DEF IInv, Fresh, append
  <1>8. Linking'
    BY <1>1, <1>2 DEF IInv, Linking, append
  <1>9. (Held /\ Gone)'
    BY <1>1 DEF IInv, Held, Gone, Removing, append
  <1>10. (Pending /\ Answer)'
    BY <1>1 DEF IInv, Pending, Answer, append
  <1>11. Memory'
    BY <1>1 DEF IInv, Memory, InMemory, Removing, append
  <1> QED
    BY <1>3, <1>4, <1>5, <1>6, <1>7, <1>8, <1>9, <1>10, <1>11 DEF IInv

LEMMA ReduceFreeKeeps ==
  ASSUME IInv, Reduce_Free
  PROVE  IInv'
  <1>1. /\ rpc = "free" /\ rpc' = "idle"
        /\ allocated' = allocated \ {cleaned}
        /\ cleaned' = NULL /\ reduced' = NULL /\ nextPtr' = NULL
        /\ UNCHANGED <<next, tail, append, log, removed>>
    BY DEF Reduce_Free, Deleted
  <1>2. /\ TypeOK /\ \A k \in InList : log[k] # cleaned
        /\ \A a \in Appenders : item[a] # cleaned
    BY <1>1 DEF IInv, Gone, Removing
  <1>3. TypeOK'
    BY <1>1, <1>2 DEF TypeOK, append
  <1>4. (InUse /\ Distinct /\ TailIsLast)'
    BY <1>1, <1>2 DEF IInv, InUse, Distinct, TailIsLast, InList, Before
  <1>5. (Pointers /\ OwnItems /\ Fresh)'
    BY <1>1 DEF IInv, Pointers, HeadIsStale, OwnItems, Fresh, InList, Before, Linked, append
  <1>6. Linking'
    BY <1>1 DEF IInv, Linking, InList, Before, Linked, append
  <1>7. (Held /\ Gone)'
    BY <1>1 DEF Held, Gone, Removing
  <1>8. (Pending /\ Answer)'
    BY <1>1 DEF IInv, Pending, Answer, InList, Linked, Before, append
  <1>9. Memory'
    <2>1. ASSUME NEW x \in Addresses
          PROVE  InMemory(x)' <=> InMemory(x) /\ x # cleaned
      BY <1>1, <1>2 DEF InMemory, Removing, InList, append
    <2> QED
      BY <1>1, <2>1 DEF IInv, Memory
  <1> QED
    BY <1>3, <1>4, <1>5, <1>6, <1>7, <1>8, <1>9 DEF IInv

-----------------------------------------------------------------------------
(* The invariant.                                                          *)

LEMMA InitHolds == Init => IInv
  <1> SUFFICES ASSUME Init PROVE IInv
    OBVIOUS
  <1>1. /\ Len(log) = 0 /\ removed = 0 /\ InList = {}
        /\ \A k \in removed + 1 .. Len(log) + 1 : Before(k) = Zero
    BY DEF Init, InList, Before
  <1>2. TypeOK
    BY DEF Init, TypeOK, Nodes
  <1>3. InUse /\ Distinct /\ TailIsLast /\ Pointers
    BY <1>1 DEF Init, InUse, Distinct, TailIsLast, Pointers, Nodes, Before
  <1>4. OwnItems /\ Fresh /\ Linking /\ Held /\ Gone
    BY DEF Init, OwnItems, Fresh, Linking, Held, Gone, Removing
  <1>5. Pending /\ Answer /\ Memory
    BY <1>1 DEF Init, Pending, Answer, Memory, InMemory, Removing
  <1> QED
    BY <1>2, <1>3, <1>4, <1>5 DEF IInv

LEMMA StutterKeeps ==
  ASSUME IInv, UNCHANGED vars
  PROVE  IInv'
  <1> USE DEF vars, nodes, append, reduce
  <1>1. TypeOK'
    BY DEF IInv, TypeOK
  <1>2. (InUse /\ Distinct /\ TailIsLast)'
    BY DEF IInv, InUse, Distinct, TailIsLast, InList, Before
  <1>3. (Pointers /\ OwnItems /\ Fresh)'
    BY DEF IInv, Pointers, HeadIsStale, OwnItems, Fresh, InList, Before, Linked
  <1>4. (Linking /\ Held /\ Gone)'
    BY DEF IInv, Linking, Held, Gone, Removing, InList, Before, Linked
  <1>5. (Pending /\ Answer /\ Memory)'
    BY DEF IInv, Pending, Answer, Memory, InMemory, Removing, InList, Before, Linked
  <1> QED
    BY <1>1, <1>2, <1>3, <1>4, <1>5 DEF IInv

LEMMA NextKeeps == IInv /\ [Next]_vars => IInv'
  <1> SUFFICES ASSUME IInv, [Next]_vars PROVE IInv'
    OBVIOUS
  <1>1. ASSUME NEW a \in Appenders, Append_Call(a) PROVE IInv'
    BY <1>1, AppendCallKeeps
  <1>2. ASSUME NEW a \in Appenders, Append_Load(a) PROVE IInv'
    BY <1>2, AppendLoadKeeps
  <1>3. ASSUME NEW a \in Appenders, Append_Exchange(a) PROVE IInv'
    BY <1>3, AppendExchangeKeeps, AppendRetryKeeps
  <1>4. ASSUME NEW a \in Appenders, Append_Link(a) PROVE IInv'
    BY <1>4, AppendLinkKeeps
  <1>5. CASE Reduce_Call
    BY <1>5, ReduceCallKeeps
  <1>6. CASE Reduce_ReadHead
    BY <1>6, ReduceReadHeadKeeps
  <1>7. CASE Reduce_ReadNext
    BY <1>7, ReduceReadNextKeeps
  <1>8. CASE Reduce_ExchangeHead
    <2>1. CASE HeadUnchanged
      BY <1>8, <2>1, ReduceExchangeHeadKeeps
    <2>2. CASE ~HeadUnchanged
      <3>1. next[Zero] \in Nodes \union {NULL}
        BY DEF IInv, TypeOK, Nodes
      <3> QED
        BY <1>8, <2>2, <3>1, ReduceRetryKeeps DEF Reduce_ExchangeHead, nodes
    <2> QED
      BY <2>1, <2>2
  <1>9. CASE Reduce_ExchangeTail
    <2>1. CASE IsTail
      BY <1>9, <2>1, ReduceExchangeTailKeeps
    <2>2. CASE ~IsTail
      <3>1. tail \in Nodes
        BY DEF IInv, TypeOK
      <3> QED
        BY <1>9, <2>2, <3>1, ReduceRetryKeeps DEF Reduce_ExchangeTail, nodes
    <2> QED
      BY <2>1, <2>2
  <1>10. CASE Reduce_ClearHead
    BY <1>10, ReduceClearHeadKeeps
  <1>11. CASE Reduce_Free
    BY <1>11, ReduceFreeKeeps
  <1>12. CASE UNCHANGED vars
    BY <1>12, StutterKeeps
  <1> QED
    BY <1>1, <1>2, <1>3, <1>4, <1>5, <1>6, <1>7, <1>8, <1>9, <1>10, <1>11, <1>12
       DEF Next, AppendStep, ReduceStep

(* IInv is inductive.                                                      *)
THEOREM Invariance == Spec => []IInv
  BY InitHolds, NextKeeps, PTL DEF Spec

(* The variables keep their types; what an append or cleanup() holds is    *)
(* allocated, while the pointer of reduce() may be any node's.             *)
THEOREM TypeCorrect == Spec => []TypeOK
  BY Invariance, PTL DEF IInv

(* The list is a list: from the zero node and from every item, next_item   *)
(* leads to the next item unless a running append is about to store the    *)
(* link, and the tail is the item that was appended last.                  *)
THEOREM OrderIsKept == Spec => []ListIsInOrder
  <1>1. ASSUME IInv PROVE ListIsInOrder
    <2>1. /\ TypeOK /\ Len(log) \in Nat /\ removed \in Nat /\ removed <= Len(log)
          /\ InList \subseteq Places
      BY <1>1, ListFacts DEF IInv
    <2>2. \A k \in InList : log[k] \in allocated
      BY <1>1 DEF IInv, InUse
    <2>3. \A k \in Places : \/ next[Before(k)] = NULL
                            \/ k \in InList /\ Linked(k)
                            \/ k = removed + 1 /\ HeadIsStale
      BY <1>1 DEF IInv, Pointers, Places
    <2>4. \A k \in InList :
            Linked(k) \/ \E a \in Appenders : apc[a] = "link" /\ item[a] = log[k]
      BY <1>1 DEF IInv, Pending
    <2>5. tail = Before(Len(log) + 1)
      BY <1>1 DEF IInv, TailIsLast
    <2>6. next[tail] = NULL \/ (InList = {} /\ HeadIsStale)
      <3>1. PICK n \in Nat : n = Len(log) + 1
        BY <2>1
      <3>2. n \in Places /\ n \notin InList /\ (n = removed + 1 => InList = {})
        BY <2>1, <3>1 DEF Places, InList
      <3> QED
        BY <2>3, <2>5, <3>1, <3>2
    <2> QED
      BY <2>1, <2>2, <2>3, <2>4, <2>5, <2>6 DEF ListIsInOrder
  <1> QED
    BY <1>1, Invariance, PTL

(* cleanup() deletes every item once, after it was removed and not while   *)
(* anybody else has it: the memory in use is what it should be.            *)
THEOREM MemoryIsKept == Spec => []MemoryIsExact
  <1>1. ASSUME IInv PROVE MemoryIsExact
    <2>1. TypeOK /\ \A k \in InList : log[k] \in Addresses
      BY <1>1, ListFacts DEF IInv
    <2>2. /\ allocated \subseteq Addresses
          /\ \A a \in Appenders : item[a] # NULL => item[a] \in Addresses
      BY <2>1 DEF TypeOK
    <2>3. Removing => cleaned \in Addresses
      BY <1>1, <2>1 DEF IInv, Gone, TypeOK
    <2>4. \A x \in Addresses : x \in allocated <=> InMemory(x)
      BY <1>1 DEF IInv, Memory
    <2> DEFINE used == {log[k] : k \in InList} \union ({item[a] : a \in Appenders} \ {NULL})
                         \union (IF Removing THEN {cleaned} ELSE {})
    <2>5. used \subseteq Addresses
      BY <2>1, <2>2, <2>3
    <2>6. \A x \in Addresses : x \in used <=> InMemory(x)
      BY DEF InMemory
    <2>7. allocated = used
      <3> HIDE DEF used
      <3> QED
        BY <2>2, <2>4, <2>5, <2>6
    <2> QED
      BY <2>7 DEF MemoryIsExact, Removing
  <1> QED
    BY <1>1, Invariance, PTL

(* reduce() removes the item that cleanup() has asked about and returns it *)
(* or, if an append was in between, the one that is the oldest now.        *)
THEOREM AnswerIsKnown == Spec => []ReturnsOldOrNewHead
  <1>1. IInv => ReturnsOldOrNewHead
    BY DEF IInv, Gone, Removing, Answer, ReturnsOldOrNewHead
  <1> QED
    BY <1>1, Invariance, PTL

(* append() stores its link into the node in front of its item, whatever   *)
(* became of the addresses it has seen.                                    *)
THEOREM LinkIsPlaced == Spec => []LinksItsPredecessor
  <1>1. IInv => LinksItsPredecessor
    BY DEF IInv, Linking, LinksItsPredecessor
  <1> QED
    BY <1>1, Invariance, PTL

-----------------------------------------------------------------------------
(* The list implements LinkedFifo.                                         *)

\* The items their predecessors point to, or did when they were removed.
Reached == {k \in 1 .. Len(log) : k <= removed \/ Linked(k)}

LEMMA InListOrRemoved ==
  ASSUME IInv, NEW k \in 1 .. Len(log), ~(k <= removed)
  PROVE  k \in InList
  BY ListFacts DEF IInv, InList

\* A step that leaves the list alone.
LEMMA StutterStep ==
  ASSUME IInv, UNCHANGED <<log, removed>>, \A k \in InList : Linked(k)' <=> Linked(k)
  PROVE  UNCHANGED Fifo!vars
  <1>1. Reached' = Reached
    BY InListOrRemoved DEF Reached
  <1> QED
    BY <1>1 DEF Fifo!vars, Reached

\* The exchange of the tail appends an item that nothing points to.
LEMMA SwapStep ==
  ASSUME IInv, NEW a \in Appenders, Append_Exchange(a), TailUnchanged(a)
  PROVE  Fifo!Swap
  <1>1. PICK n \in Nat : n = Len(log) + 1
    BY ListFacts DEF IInv
  <1>2. /\ Len(log') = n /\ removed' = removed /\ ~Linked(n)' /\ n \notin InList
        /\ \A k \in InList : Linked(k)' <=> Linked(k)
    BY <1>1, AppendedFacts
  <1>3. /\ Len(log) \in Nat /\ removed \in Nat /\ removed <= Len(log)
    BY ListFacts DEF IInv
  <1>4. 1 .. Len(log') = (1 .. Len(log)) \union {n} /\ ~(n <= removed)
    BY <1>1, <1>2, <1>3
  <1>5. \A k \in 1 .. Len(log) : (k <= removed' \/ Linked(k)') <=> (k <= removed \/ Linked(k))
    BY <1>2, InListOrRemoved
  <1>6. Reached' = Reached
    BY <1>2, <1>4, <1>5 DEF Reached
  <1> QED
    BY <1>1, <1>2, <1>6 DEF Fifo!Swap, Reached

\* Storing the link makes one more item reachable.
LEMMA LinkStep ==
  ASSUME IInv, IInv', NEW a \in Appenders, Append_Link(a)
  PROVE  Fifo!Link
  <1>1. UNCHANGED <<log, removed>>
    BY DEF Append_Link
  <1>2. PICK k \in InList : Linked(k)' /\ ~Linked(k) /\ \A j \in InList : j # k => (Linked(j)' <=> Linked(j))
    BY LinkedByAppend
  <1>3. k \in 1 .. Len(log) /\ ~(k <= removed)
    BY <1>2, ListFacts DEF IInv, InList
  <1>4. \A j \in 1 .. Len(log) : (j <= removed \/ Linked(j)') <=> (j <= removed \/ Linked(j) \/ j = k)
    BY <1>2, <1>3, InListOrRemoved
  <1>5. k \in (1 .. Len(log)) \ Reached /\ Reached' = Reached \union {k}
    BY <1>1, <1>2, <1>3, <1>4 DEF Reached
  <1> QED
    BY <1>1, <1>5 DEF Fifo!Link, Reached

LEMMA RemoveFirstStep ==
  ASSUME IInv, Reduce_ExchangeHead, HeadUnchanged
  PROVE  Fifo!Remove
  <1>1. PICK h \in Nat : h = removed + 1
    BY ListFacts DEF IInv
  <1>2. /\ removed' = h /\ log' = log
        /\ h \in InList /\ Linked(h) /\ h + 1 \in InList /\ Linked(h + 1) /\ Linked(h + 1)'
        /\ \A k \in InList \ {h, h + 1} : Linked(k)' <=> Linked(k)
    BY <1>1, TakenFacts
  <1>3. Len(log) \in Nat /\ removed \in Nat /\ h + 1 = removed + 2
    BY <1>1, ListFacts DEF IInv
  <1>4. h \in Reached /\ h + 1 \in Reached
    BY <1>2, <1>3 DEF Reached, InList
  <1>5. ASSUME NEW k \in 1 .. Len(log)
        PROVE  (k <= h \/ Linked(k)') <=> (k <= removed \/ Linked(k))
    <2>1. CASE k \in InList \ {h, h + 1}
      BY <1>1, <1>2, <1>3, <2>1 DEF InList
    <2>2. CASE k \in {h, h + 1}
      BY <1>1, <1>2, <1>3, <2>2
    <2>3. CASE k \notin InList
      BY <1>1, <1>3, <2>3 DEF InList
    <2> QED
      BY <2>1, <2>2, <2>3
  <1>6. Reached' = Reached
    BY <1>2, <1>5 DEF Reached
  <1> QED
    BY <1>1, <1>2, <1>3, <1>4, <1>6 DEF Fifo!Remove, Reached

LEMMA RemoveLastStep ==
  ASSUME IInv, Reduce_ExchangeTail, IsTail
  PROVE  Fifo!Remove
  <1>1. removed' = removed + 1 /\ log' = log
    BY DEF Reduce_ExchangeTail
  <1>2. /\ removed + 1 \in InList /\ Linked(removed + 1) /\ Len(log) = removed + 1
    BY LastFacts
  <1>3. Len(log) \in Nat /\ removed \in Nat
    BY ListFacts DEF IInv
  <1>4. removed + 1 \in Reached
    BY <1>2, <1>3 DEF Reached
  <1>5. \A k \in 1 .. Len(log) : (k <= removed \/ Linked(k)) /\ k <= removed'
    BY <1>1, <1>2, <1>3
  <1>6. Reached' = Reached
    BY <1>1, <1>5 DEF Reached
  <1> QED
    BY <1>1, <1>2, <1>4, <1>6 DEF Fifo!Remove, Reached

LEMMA FifoStep == IInv /\ IInv' /\ [Next]_vars => [Fifo!Next]_(Fifo!vars)
  <1> SUFFICES ASSUME IInv, IInv', [Next]_vars
               PROVE  Fifo!Next \/ UNCHANGED Fifo!vars
    OBVIOUS
  <1>0. ASSUME UNCHANGED <<log, removed, next>> PROVE UNCHANGED Fifo!vars
    <2>1. \A k \in InList : Linked(k)' <=> Linked(k)
      BY <1>0 DEF Linked, Before
    <2> QED
      BY <1>0, <2>1, StutterStep
  <1>1. ASSUME NEW a \in Appenders, Append_Call(a) PROVE UNCHANGED Fifo!vars
    BY <1>1, CalledLeavesList, StutterStep DEF Append_Call
  <1>2. ASSUME NEW a \in Appenders, Append_Load(a) PROVE UNCHANGED Fifo!vars
    BY <1>0, <1>2 DEF Append_Load, nodes
  <1>3. ASSUME NEW a \in Appenders, Append_Exchange(a) PROVE Fifo!Next \/ UNCHANGED Fifo!vars
    <2>1. CASE TailUnchanged(a)
      BY <1>3, <2>1, SwapStep DEF Fifo!Next
    <2>2. CASE ~TailUnchanged(a)
      BY <1>0, <1>3, <2>2 DEF Append_Exchange
    <2> QED
      BY <2>1, <2>2
  <1>4. ASSUME NEW a \in Appenders, Append_Link(a) PROVE Fifo!Next
    BY <1>4, LinkStep DEF Fifo!Next
  <1>5. CASE Reduce_Call \/ Reduce_ReadHead \/ Reduce_ReadNext \/ Reduce_Free
    BY <1>0, <1>5 DEF Reduce_Call, Reduce_ReadHead, Reduce_ReadNext, Reduce_Free, nodes
  <1>6. CASE Reduce_ExchangeHead
    <2>1. CASE HeadUnchanged
      BY <1>6, <2>1, RemoveFirstStep DEF Fifo!Next
    <2>2. CASE ~HeadUnchanged
      BY <1>0, <1>6, <2>2 DEF Reduce_ExchangeHead
    <2> QED
      BY <2>1, <2>2
  <1>7. CASE Reduce_ExchangeTail
    <2>1. CASE IsTail
      BY <1>7, <2>1, RemoveLastStep DEF Fifo!Next
    <2>2. CASE ~IsTail
      BY <1>0, <1>7, <2>2 DEF Reduce_ExchangeTail
    <2> QED
      BY <2>1, <2>2
  <1>8. CASE Reduce_ClearHead
    BY <1>8, ClearedFacts, StutterStep
  <1>9. CASE UNCHANGED vars
    BY <1>0, <1>9 DEF vars, nodes
  <1> QED
    BY <1>1, <1>2, <1>3, <1>4, <1>5, <1>6, <1>7, <1>8, <1>9 DEF Next, AppendStep, ReduceStep

LEMMA FifoInit == Init => Fifo!Init
  BY DEF Init, Fifo!Init

(* Pointers, exchanges and retries implement the list of LinkedFifo: items *)
(* are numbered by the swaps of the tail, become reachable in any order,   *)
(* and leave at the front one by one.                                      *)
THEOREM Implementation == Spec => ImplementsFifo
  BY FifoInit, FifoStep, Invariance, PTL DEF Spec, ImplementsFifo, Fifo!Spec

===============================================================================
