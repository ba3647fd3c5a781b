---------------------------- MODULE PipeService ----------------------------
(***************************************************************************)
(* What NamedPipe promises to the programs at its two ends, with no system *)
(* call, timeout or handle in sight: a message goes in whole, comes out    *)
(* whole and once, in the order in which the messages went in; and who     *)
(* wrote it is told the truth about it.                                    *)
(*                                                                         *)
(* How far it can be told depends on the system.  A POSIX pipe has a       *)
(* buffer: a write is over when the message is in it, messages run         *)
(* together there, and may be dropped with it.  A Windows pipe has none:   *)
(* a write is over when the message has been read; nothing is dropped, but *)
(* a writer that gives up does not know how much of it was read.           *)
(***************************************************************************)
EXTENDS Sequences

CONSTANTS
    Messages,
    Buffered        \* the pipe has a buffer

VARIABLES
    outcome,        \* outcome[m]: is the write under way, done, or given up
    inside,         \* the messages that went in and have not come out
    order,          \* the pairs of them: the first went in before the second
    returned,       \* the sets of messages that came out together
    dropped         \* the messages that went in and will not come out

vars == <<outcome, inside, order, returned, dropped>>

Init ==
    /\ outcome = [m \in Messages |-> "open"]
    /\ inside = {}
    /\ order = {}
    /\ returned = <<>>
    /\ dropped = {}

WentIn == inside \cup dropped \cup UNION {returned[k] : k \in DOMAIN returned}

Accept(m) ==
    /\ m \notin WentIn
    /\ IF Buffered
       THEN /\ outcome[m] = "open"
            /\ outcome' = [outcome EXCEPT ![m] = "done"]
       ELSE /\ inside = {}
            /\ outcome[m] \in {"open", "given up"}
            /\ UNCHANGED outcome
    /\ inside' = inside \cup {m}
    /\ order' = order \cup (inside \X {m})
    /\ UNCHANGED <<returned, dropped>>

\* Without a buffer, a write is done when its message has gone in.
Confirm(m) ==
    /\ ~Buffered
    /\ outcome[m] = "open"
    /\ m \in WentIn
    /\ outcome' = [outcome EXCEPT ![m] = "done"]
    /\ UNCHANGED <<inside, order, returned, dropped>>

\* With a buffer, a message whose write is given up has not gone in.
GiveUp(m) ==
    /\ outcome[m] = "open"
    /\ Buffered => m \notin WentIn
    /\ outcome' = [outcome EXCEPT ![m] = "given up"]
    /\ UNCHANGED <<inside, order, returned, dropped>>

Keep(rest) ==
    /\ inside' = rest
    /\ order' = {p \in order : p[1] \in rest /\ p[2] \in rest}

Drop ==
    /\ Buffered
    /\ dropped' = dropped \cup inside
    /\ Keep({})
    /\ UNCHANGED <<outcome, returned>>

\* Some messages come out, the first ones that went in; the others stay, or are
\* dropped.  Without a buffer there may be nothing but a part of a message whose
\* write was given up.
Return(some) ==
    /\ some \subseteq inside
    /\ some = {} => ~Buffered /\ \E m \in Messages : outcome[m] = "given up" /\ m \notin WentIn
    /\ \A m \in some, n \in inside \ some : <<m, n>> \in order
    /\ returned' = Append(returned, some)
    /\ \/ Keep(inside \ some) /\ UNCHANGED dropped
       \/ Buffered /\ Keep({}) /\ dropped' = dropped \cup (inside \ some)
    /\ UNCHANGED outcome

Next ==
    \/ \E m \in Messages : Accept(m) \/ Confirm(m) \/ GiveUp(m)
    \/ Drop
    \/ \E some \in SUBSET inside : Return(some)

Spec == Init /\ [][Next]_vars
=============================================================================
