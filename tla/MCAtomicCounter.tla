---------------------------- MODULE MCAtomicCounter ----------------------------
(* Instances of AtomicCounter for TLC: two objects for the number 1, one   *)
(* of them with a destructor.                                              *)
EXTENDS AtomicCounter, TLC

CONSTANTS t1, t2, c1, c2, minusOne, zero, one, ownOne
MCThreads == {t1, t2}
MCCounters == {c1, c2}
MCOneCounter == {c1}
MCObjects == {minusOne, zero, one, ownOne}
MCNumber == minusOne :> -1 @@ zero :> 0 @@ one :> 1 @@ ownOne :> 1
MCFinalizable == {ownOne}
MCIncrements == {-1, 1}
MCSymmetry == Permutations(Threads) \union Permutations(Counters)
=============================================================================
