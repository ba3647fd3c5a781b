--------------------------- MODULE MCWindowsPipe ---------------------------
(* Constants for TLC: two messages of two blocks, one of which ends with a  *)
(* full block.                                                              *)
EXTENDS WindowsPipe

CONSTANTS w1, w2

MCSize == [w \in Writers |-> 2]
MCExact == {w2}
=============================================================================
