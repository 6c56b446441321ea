------------------------------ MODULE MCCMCQueue ------------------------------
(* Instances of CMCQueue for TLC.                                          *)
EXTENDS CMCQueue, TLC

CONSTANTS pub1, tok1, tok2
MCOnePublisher == {pub1}
MCTwoTokens == {tok1, tok2}
MCSymmetry == Permutations(Publishers) \union Permutations(Tokens)

Python == [under_gil : {TRUE}, manual_acknowledge : BOOLEAN, max_subscribes : {3}]
Threads == [under_gil : {FALSE}, manual_acknowledge : {FALSE}, max_subscribes : {2}]
MCSetups == Python \union Threads

MCPointer == [under_gil : {TRUE}, manual_acknowledge : {FALSE}, max_subscribes : {2}]
=============================================================================
