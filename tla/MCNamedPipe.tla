---------------------------- MODULE MCNamedPipe ----------------------------
(***************************************************************************)
(* Constants for checking NamedPipe: two messages of at most PIPE_BUF that *)
(* do not fit in the FIFO together; or one that is larger than PIPE_BUF.   *)
(***************************************************************************)
EXTENDS NamedPipe

CONSTANTS w1, w2

SmallMessages == w1 :> 2 @@ w2 :> 3

LargeMessage == w1 :> 1 @@ w2 :> 3
=============================================================================
