-------------------------- MODULE MCCliOperations --------------------------
(* Constants for TLC: two servers, two names, ids of two bits. *)
EXTENDS CliOperations

CONSTANTS n1, n2, pw

MCConnections == {11, 12}
MCChannelIds == {21, 22}
=============================================================================
