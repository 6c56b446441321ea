------------------------------ MODULE EventSpec ------------------------------
(***************************************************************************)
(* What wasp::threads::Event promises its callers (_threads/event.hpp): a  *)
(* flag that any thread sets or clears, and a wait() that answers with the *)
(* value the flag has at some moment of the call.  The mutex and the       *)
(* condition variable are hidden.  Event.tla implements this module and    *)
(* EvLoop.tla relies on it.                                                *)
(***************************************************************************)
CONSTANT Threads

VARIABLES flag,      \* the value is_set() returns
          waiting,   \* the threads inside a call of wait()
          answer     \* what each thread's last wait() returned

vars == <<flag, waiting, answer>>

Init == /\ flag = FALSE
        /\ waiting = {}
        /\ answer = [t \in Threads |-> FALSE]

Set(t) == /\ t \notin waiting
          /\ flag' = TRUE
          /\ UNCHANGED <<waiting, answer>>

Clear(t) == /\ t \notin waiting
            /\ flag' = FALSE
            /\ UNCHANGED <<waiting, answer>>

Enter(t) == /\ t \notin waiting
            /\ waiting' = waiting \union {t}
            /\ UNCHANGED <<flag, answer>>

Leave(t) == /\ t \in waiting
            /\ waiting' = waiting \ {t}
            /\ answer' = [answer EXCEPT ![t] = flag]
            /\ UNCHANGED flag

Next == \E t \in Threads : Set(t) \/ Clear(t) \/ Enter(t) \/ Leave(t)

\* No waiter stays inside wait() while the flag stays up.
WakeUp == \A t \in Threads : WF_vars(flag /\ Leave(t))

SafeSpec == Init /\ [][Next]_vars
Spec == SafeSpec /\ WakeUp
=============================================================================
