------------------------------- MODULE MCEvent -------------------------------
(* An instance of Event for TLC: three threads, waits with the timeout 0,  *)
(* with one that is longer than max_timeout and without any, on events     *)
(* with and without a max_timeout.                                         *)
EXTENDS Event, TLC

CONSTANTS t1, t2, t3
MCThreads == {t1, t2, t3}
MCWaitTimeouts == {-1, 0, 20}
MCMaxTimeouts == {-1, 10}
=============================================================================
