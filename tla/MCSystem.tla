------------------------------ MODULE MCSystem ------------------------------
(* Constants for TLC: two runs of the client with the same path. *)
EXTENDS System

CONSTANTS c1, c2

MCRegistrants == {[path |-> Path, secret |-> c] : c \in {c1, c2}}
=============================================================================
