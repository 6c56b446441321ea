------------------------------- MODULE MCEvLoop -------------------------------
(* Instances of EvLoop for TLC.                                            *)
EXTENDS EvLoop

CONSTANTS n1, n2, s1, l1, l2
MCNotifiers == {n1, n2}
MCStoppers == {s1}
MCLoops == {l1, l2}

\* From Python, with callbacks that raise and stops, one loop thread.
Python == [under_gil : {TRUE}, immediate_stop : BOOLEAN, may_raise : {TRUE},
           loops : {{l1}}, max_stops : {2}, max_events : {3}]
\* C++ threads, two of which start the loop while nobody stops it.
Threads == [under_gil : {FALSE}, immediate_stop : {TRUE}, may_raise : {FALSE},
            loops : {{l1, l2}}, max_stops : {0}, max_events : {3}]
\* C++ threads and a stop.
Stopped == [under_gil : {FALSE}, immediate_stop : BOOLEAN, may_raise : {FALSE},
            loops : {{l1}}, max_stops : {1}, max_events : {2}]
MCSetups == Python \union Threads \union Stopped

\* From Python, two loop threads and a stop.
MCTwice == [under_gil : {TRUE}, immediate_stop : {TRUE}, may_raise : {FALSE},
            loops : {{l1, l2}}, max_stops : {1}, max_events : {1}]
=============================================================================
