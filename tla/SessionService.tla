--------------------------- MODULE SessionService ---------------------------
(***************************************************************************)
(* What the JSON bridge promises to the programs that talk to it, with no  *)
(* pipe, thread or timeout in sight: a table of sessions.  A session is    *)
(* opened under an identifier that was never used before, is bound to one  *)
(* registration (pipe path and secret) for its whole life, and is closed   *)
(* only by a request that names it and carries its secret, or by the loss  *)
(* of the process.  At most one answer is being given at any time; a       *)
(* positive answer goes to the path of the session it is about.            *)
(***************************************************************************)
CONSTANTS
    Ids,            \* the session identifiers
    Registrants,    \* records [path |-> ..., secret |-> ...]
    NONE            \* "no session", "no answer"

VARIABLES
    sessions,       \* sessions[id]: the registration bound to id, or NONE
    used,           \* the identifiers handed out since the process began
    answer          \* the answer being given, or NONE

vars == <<sessions, used, answer>>

(***************************************************************************)
(* Identifiers refer to this life of the process: answers are [type, id,   *)
(* path] records.                                                          *)
(***************************************************************************)
Init ==
    /\ sessions = [id \in Ids |-> NONE]
    /\ used = {}
    /\ answer = NONE

Open(id, who) ==
    /\ answer = NONE
    /\ id \in Ids \ used
    /\ sessions' = [sessions EXCEPT ![id] = who]
    /\ used' = used \cup {id}
    /\ answer' = [type |-> "registration", id |-> id, path |-> who.path]

Call(id) ==
    /\ answer = NONE
    /\ sessions[id] # NONE
    /\ \E type \in {"api_call", "error"} :
          answer' = [type |-> type, id |-> id, path |-> sessions[id].path]
    /\ UNCHANGED <<sessions, used>>

Close(id) ==
    /\ answer = NONE
    /\ sessions[id] # NONE
    /\ sessions' = [sessions EXCEPT ![id] = NONE]
    /\ answer' = [type |-> "disconnect", id |-> id, path |-> sessions[id].path]
    /\ UNCHANGED used

\* The answer was written, or given up.
Settle ==
    /\ answer # NONE
    /\ answer' = NONE
    /\ UNCHANGED <<sessions, used>>

\* The process is gone, and with it every session and every identifier.
Lose ==
    /\ sessions' = [id \in Ids |-> NONE]
    /\ used' = {}
    /\ answer' = NONE

Next ==
    \/ \E id \in Ids :
          \/ \E who \in Registrants : Open(id, who)
          \/ Call(id)
          \/ Close(id)
    \/ Settle
    \/ Lose

Spec == Init /\ [][Next]_vars
=============================================================================
