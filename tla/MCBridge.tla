------------------------------ MODULE MCBridge ------------------------------
(***************************************************************************)
(* Constants for checking Bridge: two clients, or one, each with a pipe    *)
(* and a secret of its own.                                                *)
(***************************************************************************)
EXTENDS Bridge

CONSTANTS p1, p2, s1, s2

MCRegistrants == {[path |-> p1, secret |-> s1], [path |-> p2, secret |-> s2]}

OneRegistrant == {[path |-> p1, secret |-> s1]}
=============================================================================
