------------------------------- MODULE MCMCQueue -------------------------------
(* Instances of MCQueue for TLC.                                           *)
EXTENDS MCQueue, TLC

CONSTANTS s1, s2, s3
MCThreeSubscribers == {s1, s2, s3}
MCSymmetry == Permutations(Subscribers)
=============================================================================
