------------------------------ MODULE Multicast ------------------------------
(***************************************************************************)
(* What a multi-consumer queue of this library promises: every message is  *)
(* delivered to every token that is subscribed when it is pushed, in the   *)
(* order of the pushes and once, and to nobody else.  How messages are     *)
(* stored, counted and freed is hidden.  Messages are numbered in the      *)
(* order of their arrival; 0 is Python's None.                             *)
(*                                                                         *)
(* A token reads either by pull() alone or, on a queue with manual         *)
(* acknowledgement, by pull() and next(), which only look, and by          *)
(* acknowledge(), which moves on.                                          *)
(***************************************************************************)
EXTENDS Integers, Sequences

CONSTANT Tokens

VARIABLES manual,   \* does the queue want its messages acknowledged?
          pushed,   \* how many messages were accepted
          live,     \* the subscribed tokens
          unread,   \* what each token has still to read
          ahead,    \* how far next() has looked into unread
          answer    \* what the last pull() or next() of each token returned

vars == <<manual, pushed, live, unread, ahead, answer>>

Init == /\ manual \in BOOLEAN
        /\ pushed = 0
        /\ live = {}
        /\ unread = [t \in Tokens |-> <<>>]
        /\ ahead = [t \in Tokens |-> 0]
        /\ answer = [t \in Tokens |-> 0]

\* A message that arrives while nobody is subscribed is dropped.
Push == /\ pushed' = pushed + 1
        /\ unread' = [t \in Tokens |-> IF t \in live THEN Append(unread[t], pushed + 1)
                                                     ELSE unread[t]]
        /\ UNCHANGED <<manual, live, ahead, answer>>

Subscribe(t) == /\ t \notin live
                /\ live' = live \union {t}
                /\ UNCHANGED <<manual, pushed, unread, ahead, answer>>

Unsubscribe(t) == /\ t \in live
                  /\ live' = live \ {t}
                  /\ unread' = [unread EXCEPT ![t] = <<>>]
                  /\ ahead' = [ahead EXCEPT ![t] = 0]
                  /\ UNCHANGED <<manual, pushed, answer>>

\* The first message after the first n unread ones, 0 if there is none.
Peek(t, n) == IF n < Len(unread[t]) THEN unread[t][n + 1] ELSE 0

Drop(t) == unread' = [unread EXCEPT ![t] = IF @ = <<>> THEN @ ELSE Tail(@)]

Pull(t) == /\ t \in live
           /\ answer' = [answer EXCEPT ![t] = Peek(t, 0)]
           /\ IF manual THEN UNCHANGED unread ELSE Drop(t)
           /\ UNCHANGED <<manual, pushed, live, ahead>>

\* acknowledge() first forgets how far next() has looked.
Forget(t) == /\ manual
             /\ t \in live
             /\ ahead' = [ahead EXCEPT ![t] = 0]
             /\ UNCHANGED <<manual, pushed, live, unread, answer>>

Acknowledge(t) == /\ manual
                  /\ t \in live
                  /\ ahead[t] = 0
                  /\ Drop(t)
                  /\ UNCHANGED <<manual, pushed, live, ahead, answer>>

LookNext(t) == /\ manual
               /\ t \in live
               /\ answer' = [answer EXCEPT ![t] = Peek(t, ahead[t])]
               /\ ahead' = [ahead EXCEPT ![t] = IF @ < Len(unread[t]) THEN @ + 1 ELSE 0]
               /\ UNCHANGED <<manual, pushed, live, unread>>

Next == \/ Push
        \/ \E t \in Tokens : \/ Subscribe(t) \/ Unsubscribe(t)
                             \/ Pull(t) \/ Forget(t) \/ Acknowledge(t) \/ LookNext(t)

Spec == Init /\ [][Next]_vars
=============================================================================
