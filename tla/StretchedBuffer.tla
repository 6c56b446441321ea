---------------------------- MODULE StretchedBuffer ----------------------------
(***************************************************************************)
(* wasp::queue::StretchedBuffer (_cmcqueue/cmcqueue.hpp:64-92,             *)
(* cmcqueue.cpp:25-108): a linked list with a zero node.  append() swaps   *)
(* the tail with a compare-and-exchange loop and then stores the link;     *)
(* reduce() unlinks the first item.  A failed compare_exchange_strong()    *)
(* stores what it found into the pointer it was to compare with.           *)
(* Any thread appends; reduce() is called by cleanup() alone, in the one   *)
(* thread that owns is_cleaning (226-230, 260-263): it keeps the head of   *)
(* the list, calls reduce() and deletes what it has kept, whatever         *)
(* reduce() returns.  Items are memory addresses, and a freed address may  *)
(* be allocated again at once, so a thread may compare a pointer with      *)
(* another item at the same address (ABA).                                 *)
(***************************************************************************)
EXTENDS Integers, Sequences

CONSTANTS Appenders, Addresses, Zero, NULL,
          MaxAppends   \* bound: appends in a behaviour

ASSUME PointerAssumption == Zero \notin Addresses /\ NULL \notin Addresses \union {Zero}
ASSUME BoundAssumption == MaxAppends \in Nat

VARIABLES
  next,        \* next_item of every node
  tail,        \* tail
  allocated,   \* the addresses of the items that exist
  apc, item, tailPtr,      \* each append(): next step, i, tail_ptr
  cleaned,                 \* cleanup(): item_ptr
  rpc, reduced, nextPtr,   \* reduce(): next step, reduced_node_ptr, next_ptr
  log,         \* history: the address of every item, in the order of the swaps
  removed      \* history: how many items reduce() has taken off

nodes == <<next, tail, allocated>>
append == <<apc, item, tailPtr>>
reduce == <<cleaned, rpc, reduced, nextPtr>>
vars == <<nodes, append, reduce, log, removed>>

Nodes == Addresses \union {Zero}

TypeOK == /\ next \in [Nodes -> Addresses \union {NULL}]
          /\ tail \in Nodes
          /\ allocated \subseteq Addresses
          /\ apc \in [Appenders -> {"idle", "load", "exchange", "link"}]
          /\ item \in [Appenders -> Addresses \union {NULL}]
          /\ tailPtr \in [Appenders -> Nodes \union {NULL}]
          /\ rpc \in {"idle", "readHead", "readNext", "exchangeHead", "exchangeTail",
                      "clearHead", "free"}
          /\ cleaned \in Addresses \union {NULL}
          /\ reduced \in Nodes \union {NULL}
          /\ nextPtr \in Addresses \union {NULL}
          /\ log \in Seq(Addresses)
          /\ removed \in 0 .. Len(log)
          /\ \A a \in Appenders : item[a] # NULL => item[a] \in allocated
          /\ cleaned # NULL => cleaned \in allocated

Init == /\ next = [n \in Nodes |-> NULL]
        /\ tail = Zero
        /\ allocated = {}
        /\ apc = [a \in Appenders |-> "idle"]
        /\ item = [a \in Appenders |-> NULL]
        /\ tailPtr = [a \in Appenders |-> NULL]
        /\ cleaned = NULL
        /\ rpc = "idle" /\ reduced = NULL /\ nextPtr = NULL
        /\ log = <<>> /\ removed = 0

-----------------------------------------------------------------------------
\* A new item at an address that is not in use, its next_item NULL.
Append_Call(a) == /\ apc[a] = "idle"
                  /\ Len(log) < MaxAppends
                  /\ \E i \in Addresses \ allocated :
                       /\ item' = [item EXCEPT ![a] = i]
                       /\ allocated' = allocated \union {i}
                       /\ next' = [next EXCEPT ![i] = NULL]
                  /\ apc' = [apc EXCEPT ![a] = "load"]
                  /\ UNCHANGED <<tail, tailPtr, reduce, log, removed>>

Append_Load(a) == /\ apc[a] = "load"
                  /\ tailPtr' = [tailPtr EXCEPT ![a] = tail]
                  /\ apc' = [apc EXCEPT ![a] = "exchange"]
                  /\ UNCHANGED <<nodes, item, reduce, log, removed>>

\* Mutant: the tail is stored, not exchanged.
StoredBlindly(a) == TRUE
TailUnchanged(a) == tail = tailPtr[a]

Append_Exchange(a) ==
  /\ apc[a] = "exchange"
  /\ \/ /\ TailUnchanged(a)
        /\ tail' = item[a]
        /\ log' = Append(log, item[a])
        /\ apc' = [apc EXCEPT ![a] = "link"]
     \/ /\ ~TailUnchanged(a)
        /\ apc' = [apc EXCEPT ![a] = "load"]
        /\ UNCHANGED <<tail, log>>
  /\ UNCHANGED <<next, allocated, item, tailPtr, reduce, removed>>

Append_Link(a) == /\ apc[a] = "link"
                  /\ next' = [next EXCEPT ![tailPtr[a]] = item[a]]
                  /\ apc' = [apc EXCEPT ![a] = "idle"]
                  /\ item' = [item EXCEPT ![a] = NULL]
                  /\ tailPtr' = [tailPtr EXCEPT ![a] = NULL]
                  /\ UNCHANGED <<tail, allocated, reduce, log, removed>>

-----------------------------------------------------------------------------
\* cleanup() ends at an empty list; if the first item is no longer needed, it
\* calls reduce().
Reduce_Call == /\ rpc = "idle"
               /\ \/ /\ next[Zero] # NULL
                     /\ cleaned' = next[Zero]
                     /\ rpc' = "readHead"
                  \/ next[Zero] = NULL /\ UNCHANGED <<cleaned, rpc>>
               /\ UNCHANGED <<nodes, append, reduced, nextPtr, log, removed>>

\* An empty list: reduce() returns NULL.
Reduce_ReadHead == /\ rpc = "readHead"
                   /\ reduced' = next[Zero]
                   /\ rpc' = IF next[Zero] = NULL THEN "free" ELSE "readNext"
                   /\ UNCHANGED <<nodes, append, cleaned, nextPtr, log, removed>>

Reduce_ReadNext == /\ rpc = "readNext"
                   /\ nextPtr' = next[reduced]
                   /\ rpc' = IF next[reduced] = NULL THEN "exchangeTail" ELSE "exchangeHead"
                   /\ UNCHANGED <<nodes, append, cleaned, reduced, log, removed>>

\* Mutant: the head is stored, not exchanged.
HeadStored == TRUE
HeadUnchanged == next[Zero] = reduced

Reduce_ExchangeHead ==
  /\ rpc = "exchangeHead"
  /\ \/ /\ HeadUnchanged
        /\ next' = [next EXCEPT ![Zero] = nextPtr]
        /\ removed' = removed + 1
        /\ rpc' = "free"
        /\ UNCHANGED reduced
     \/ /\ ~HeadUnchanged
        /\ reduced' = next[Zero]
        /\ rpc' = "readHead"
        /\ UNCHANGED <<next, removed>>
  /\ UNCHANGED <<tail, allocated, append, cleaned, nextPtr, log>>

\* Mutants: the tail is reset whatever it is; the last item is never removed.
TakenForTail == TRUE
NeverTail == FALSE
IsTail == tail = reduced

\* No next item: either it is the tail, or an append has not linked its item
\* yet and the loop tries again.
Reduce_ExchangeTail ==
  /\ rpc = "exchangeTail"
  /\ \/ /\ IsTail
        /\ tail' = Zero
        /\ removed' = removed + 1
        /\ rpc' = "clearHead"
        /\ UNCHANGED reduced
     \/ /\ ~IsTail
        /\ reduced' = tail
        /\ rpc' = "readHead"
        /\ UNCHANGED <<tail, removed>>
  /\ UNCHANGED <<next, allocated, append, cleaned, nextPtr, log>>

\* A new append may have linked its item to the zero node in the meantime;
\* then that item is what reduce() returns.
Reduce_ClearHead ==
  /\ rpc = "clearHead"
  /\ \/ /\ HeadUnchanged
        /\ next' = [next EXCEPT ![Zero] = NULL]
        /\ UNCHANGED reduced
     \/ /\ ~HeadUnchanged
        /\ reduced' = next[Zero]
        /\ UNCHANGED next
  /\ rpc' = "free"
  /\ UNCHANGED <<tail, allocated, append, cleaned, nextPtr, log, removed>>

\* Mutant: cleanup() deletes what reduce() has returned.
Returned == reduced
Deleted == cleaned

\* Mutant: cleanup() goes on with a pointer it has deleted.
Reduce_FreeTwice == /\ rpc = "free"
                    /\ allocated' = allocated \ {Deleted}
                    /\ rpc' = "idle"
                    /\ UNCHANGED <<next, tail, append, cleaned, reduced, nextPtr, log, removed>>

\* Back in cleanup().
Reduce_Free == /\ rpc = "free"
               /\ allocated' = allocated \ {Deleted}
               /\ cleaned' = NULL /\ reduced' = NULL /\ nextPtr' = NULL
               /\ rpc' = "idle"
               /\ UNCHANGED <<next, tail, append, log, removed>>

AppendStep(a) == Append_Load(a) \/ Append_Exchange(a) \/ Append_Link(a)
ReduceStep == \/ Reduce_ReadHead \/ Reduce_ReadNext \/ Reduce_ExchangeHead
              \/ Reduce_ExchangeTail \/ Reduce_ClearHead \/ Reduce_Free

Next == \/ \E a \in Appenders : Append_Call(a) \/ AppendStep(a)
        \/ Reduce_Call \/ ReduceStep

Spec == /\ Init /\ [][Next]_vars
        /\ \A a \in Appenders : WF_vars(AppendStep(a))
        /\ WF_vars(ReduceStep)
-----------------------------------------------------------------------------
\* The items in the list, and the node in front of the k-th item.
InList == removed + 1 .. Len(log)
Before(k) == IF k = removed + 1 THEN Zero ELSE log[k - 1]
Linked(k) == next[Before(k)] = log[k]

\* The item that reduce() has removed but not yet unlinked from the zero node.
HeadIsStale == rpc = "clearHead" /\ next[Zero] = cleaned

(* The list is a list: whatever address an item has and whoever had the    *)
(* address before, next_item of the node in front of it, the zero node     *)
(* included, leads to the item; if it does not, then a running append is   *)
(* about to store this link, and until then next_item leads nowhere or,    *)
(* from the zero node, to the item that reduce() has just removed.  The    *)
(* tail is the item appended last (cmcqueue.cpp:50-54, 82-101).            *)
ListIsInOrder ==
  /\ \A k \in InList :
       /\ log[k] \in allocated
       /\ \/ Linked(k)
          \/ /\ next[Before(k)] = NULL \/ (k = removed + 1 /\ HeadIsStale)
             /\ \E a \in Appenders : apc[a] = "link" /\ item[a] = log[k]
  /\ tail = Before(Len(log) + 1)
  /\ next[tail] = NULL \/ (InList = {} /\ HeadIsStale)

(* Memory: the items that exist are those of the list, those that appends  *)
(* hold, and the one that reduce() has removed until cleanup() deletes it; *)
(* none is deleted while it is in the list, and none is forgotten, though  *)
(* an append may link its item to the zero node before it is cleared and   *)
(* reduce() then returns that item (cmcqueue.cpp:96-103, 260-262).         *)
MemoryIsExact ==
  allocated = {log[k] : k \in InList} \union ({item[a] : a \in Appenders} \ {NULL})
                \union (IF rpc \in {"clearHead", "free"} THEN {cleaned} ELSE {})

(* "remove the oldest item from this buffer and return it"                 *)
(* (cmcqueue.hpp:49-50): reduce() removes the item that cleanup() has      *)
(* asked about, but it returns either that one or, if the zero node leads  *)
(* to another one already, the item that is the oldest from then on        *)
(* (cmcqueue.cpp:87, 99-103).                                              *)
ReturnsOldOrNewHead ==
  rpc = "free" => /\ cleaned = log[removed]
                  /\ reduced = cleaned \/ (InList # {} /\ reduced = log[removed + 1])

(* append() stores its link into the node in front of its item, although   *)
(* the pointer it compared the tail with may be that of a freed item: the  *)
(* node can neither be freed nor reused before (cmcqueue.cpp:51-54).       *)
LinksItsPredecessor ==
  \A a \in Appenders : apc[a] = "link" =>
    \E k \in InList : log[k] = item[a] /\ tailPtr[a] = Before(k)

(* reduce() returns: it waits only for an append that has swapped the tail *)
(* and is about to store the link (cmcqueue.cpp:73-107).                   *)
ReduceReturns == (rpc # "idle") ~> (rpc = "idle")

(* Pointers, exchanges and retries implement the list of LinkedFifo.       *)
Fifo == INSTANCE LinkedFifo
          WITH count <- Len(log),
               linked <- {k \in 1 .. Len(log) : k <= removed \/ Linked(k)}
ImplementsFifo == Fifo!Spec
=============================================================================
