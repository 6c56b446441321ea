--------------------------- MODULE MCStretchedBuffer ---------------------------
(* An instance of StretchedBuffer for TLC: fewer addresses than appends,   *)
(* so that every address is used again.                                    *)
EXTENDS StretchedBuffer, TLC

CONSTANTS a1, a2, a3, i1, i2, i3
MCAppenders == {a1, a2, a3}
MCAddresses == {i1, i2, i3}
=============================================================================
