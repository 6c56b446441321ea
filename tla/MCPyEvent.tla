------------------------------- MODULE MCPyEvent -------------------------------
(* Instances of PyEvent for TLC.                                           *)
EXTENDS PyEvent

CONSTANTS w1, w2, s1, s2
MCTwoWaiters == {w1, w2}
MCOneSetter == {s1}
MCTwoSetters == {s1, s2}
MCAware == {"awareness_wait"}
MCWait == {"wait"}
MCBoth == {"wait", "awareness_wait"}
MCNone == {NoTimeout}
MCZero == {0}
MCNoneOrTwo == {NoTimeout, 2}
=============================================================================
