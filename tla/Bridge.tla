------------------------------- MODULE Bridge -------------------------------
(***************************************************************************)
(* The JSON bridge of json_bridge/src/Bridge.cpp: one worker thread that   *)
(* serves a FIFO, reads one message at a time, keeps the table of clients  *)
(* and answers into the FIFO of the client, and the owner (the plugin)     *)
(* that starts and stops it.                                               *)
(*                                                                         *)
(* The FIFO has a reader only while the worker is inside read_blocking, so *)
(* a message can only arrive while the worker is listening: processing a   *)
(* message up to the first attempt to answer is one step here, since no    *)
(* other actor can touch what it reads or writes.  A message that arrives  *)
(* after the last read() and before the close() of the handle is discarded *)
(* with the buffer and leaves no trace at this level; module NamedPipe has *)
(* that window.                                                            *)
(***************************************************************************)
EXTENDS Integers

CONSTANTS
    Registrants,        \* [path |-> ., secret |-> .] the clients register with
    IdModulus,          \* 2^32: client_id_t is an unsigned int
    ReadTimeout,        \* default timeout of read_blocking, milliseconds
    ReadInterval,       \* PIPE_WAIT_INTERVAL
    WriteTimeout,       \* default timeout of write
    WriteInterval,      \* PIPE_WRITE_WAIT_INTERVAL
    MaxRegistrations,   \* bound: registrations sent to one process
    NONE,               \* no client, no message, no reply
    Missing,            \* a field that is absent or refused by its type check
    Mistyped            \* a client_id that get<client_id_t>() cannot convert

Ids == 0 .. (IdModulus - 1)

INVALID_CLIENT_ID == IdModulus - 1

Paths   == {who.path : who \in Registrants}
Secrets == {who.secret : who \in Registrants}

ASSUME ConstantsAssumption ==
    /\ IdModulus \in Nat \ {0}
    /\ ReadTimeout \in Nat /\ ReadInterval \in Nat \ {0}
    /\ WriteTimeout \in Nat /\ WriteInterval \in Nat \ {0}
    /\ MaxRegistrations \in Nat
    /\ Missing \notin Ids /\ Mistyped \notin Ids /\ Missing # Mistyped
    /\ Missing \notin Secrets /\ Missing \notin Registrants

(***************************************************************************)
(* Messages, as far as processMessage tells them apart.                    *)
(***************************************************************************)
IdField == Ids \cup {Missing, Mistyped}

Messages ==
    \* not JSON: also two messages that were run together in the FIFO
    [kind : {"garbage"}]
    \* JSON that parseBasicFormat refuses
    \cup [kind : {"malformed"}, id : IdField]
    \* Missing: the body lacks the pipe path or the secret
    \cup [kind : {"registration"}, who : Registrants \cup {Missing}]
    \* body: accepted, refused with InvalidMessageException, or a value that
    \* passes the check but fails its conversion with json::type_error
    \cup [kind : {"api_call"}, id : IdField, secret : Secrets \cup {Missing},
          body : {"valid", "invalid", "type_error"}]
    \cup [kind : {"disconnect"}, id : IdField, secret : Secrets \cup {Missing}]

Garbage == [kind |-> "garbage"]

Replies == [type : {"registration", "api_call", "disconnect", "error"},
            id : Ids, path : Paths]

ASSUME NoneAssumption == NONE \notin Registrants \cup Messages \cup Replies

VARIABLES
    owner,          \* "idle", or "joining": inside stop(true)
    worker,         \* where m_workerThread is
    interrupted,    \* the interruption request of m_workerThread
    fifo,           \* the file s_pipePath exists
    m_pipe,         \* m_pipe holds the path (operator bool of NamedPipe)
    m_clients,      \* m_clients[id], or NONE when id is not in the map
    s_nextClientID,
    registered,     \* ghost: ids assigned by this process, not truncated
    timeout,        \* what is left of the timeout of the pipe call under way
    inbox,          \* content of the FIFO, or NONE
    reply,          \* the message the worker is writing, or NONE
    pipe            \* the client pipes: "absent", "closed" or "open" (a reader)

vars == <<owner, worker, interrupted, fifo, m_pipe, m_clients, s_nextClientID,
          registered, timeout, inbox, reply, pipe>>

threadVars  == <<owner, interrupted>>
sessionVars == <<m_clients, s_nextClientID, registered>>
fifoVars    == <<fifo, m_pipe>>

Replying == worker \in {"opening", "sleeping", "writing", "orphaned"}
Serving  == worker = "listening" \/ Replying

-----------------------------------------------------------------------------
Init ==
    /\ owner = "idle"
    /\ worker = "none"
    /\ interrupted = FALSE
    /\ fifo = FALSE
    /\ m_pipe = FALSE
    /\ m_clients = [id \in Ids |-> NONE]
    /\ s_nextClientID = 0
    /\ registered = 0
    /\ timeout = 0
    /\ inbox = NONE
    /\ reply = NONE
    /\ pipe = [p \in Paths |-> "absent"]

(***************************************************************************)
(* What the worker does next.                                              *)
(***************************************************************************)
\* back to the head of the loop of doStart: a new read_blocking()
Listen ==
    /\ worker' = "listening"
    /\ timeout' = ReadTimeout
    /\ reply' = NONE

\* BridgeClient::write to the pipe of a client: NamedPipe::write begins
Answer(type, id, path) ==
    /\ worker' = "opening"
    /\ timeout' = WriteTimeout
    /\ reply' = [type |-> type, id |-> id, path |-> path]

\* mutant: the object keeps the path it has destroyed
DestroyPipeKeepingPath ==
    /\ fifo' = (fifo /\ ~m_pipe)
    /\ m_pipe' = m_pipe

\* mutant: the object forgets its path without removing the file
DestroyPipeLeavingFile == fifo' = fifo /\ m_pipe' = FALSE

\* m_pipe.destroy(): removes the file if the object holds a path
DestroyPipe ==
    /\ fifo' = (fifo /\ ~m_pipe)
    /\ m_pipe' = FALSE

\* an exception reaches the handlers of doStart and the thread ends
EndWorker ==
    /\ DestroyPipe
    /\ worker' = "ended"
    /\ timeout' = 0
    /\ inbox' = NONE
    /\ reply' = NONE

-----------------------------------------------------------------------------
(***************************************************************************)
(* The owner.  It starts the bridge again only when the thread it started  *)
(* before has ended.                                                       *)
(***************************************************************************)
start ==
    /\ owner = "idle"
    /\ worker \in {"none", "ended"}
    /\ worker' = "starting"
    /\ interrupted' = FALSE
    /\ UNCHANGED <<owner, sessionVars, fifoVars, timeout, inbox, reply, pipe>>

\* stop(join): m_workerThread.interrupt(), then join() if asked to
stop ==
    /\ owner = "idle"
    /\ worker # "none"
    /\ interrupted' = TRUE
    /\ owner' \in {"idle", "joining"}
    /\ UNCHANGED <<worker, sessionVars, fifoVars, timeout, inbox, reply, pipe>>

joined ==
    /\ owner = "joining"
    /\ worker = "ended"
    /\ owner' = "idle"
    /\ UNCHANGED <<worker, interrupted, sessionVars, fifoVars, timeout, inbox,
                   reply, pipe>>

-----------------------------------------------------------------------------
(***************************************************************************)
(* The worker: creating and reading the FIFO.                              *)
(***************************************************************************)
CreatePipe ==
    /\ worker = "starting"
    /\ \/ ~fifo /\ fifo' = TRUE /\ m_pipe' = TRUE /\ Listen /\ UNCHANGED inbox
       \/ fifo /\ EndWorker                     \* EEXIST: PipeException
    /\ UNCHANGED <<threadVars, sessionVars, pipe>>

PollInterruptedGuard == worker = "listening" /\ inbox = NONE /\ interrupted

\* mutant: no interruption point in the loop around poll()
PollDeaf == PollInterruptedGuard /\ UNCHANGED vars

\* poll() found nothing: interruption point, then the timeout
PollInterrupted ==
    /\ PollInterruptedGuard
    /\ EndWorker
    /\ UNCHANGED <<threadVars, sessionVars, pipe>>

PollAgain ==
    /\ worker = "listening"
    /\ inbox = NONE
    /\ ~interrupted
    /\ timeout > ReadInterval
    /\ timeout' = timeout - ReadInterval
    /\ UNCHANGED <<threadVars, sessionVars, fifoVars, worker, inbox, reply, pipe>>

\* the TimeoutException of read_blocking is outside the inner try block
PollTimeout ==
    /\ worker = "listening"
    /\ inbox = NONE
    /\ ~interrupted
    /\ timeout <= ReadInterval
    /\ EndWorker
    /\ UNCHANGED <<threadVars, sessionVars, pipe>>

-----------------------------------------------------------------------------
(***************************************************************************)
(* processMessage.                                                         *)
(***************************************************************************)
Receives(kind) ==
    /\ worker = "listening"
    /\ inbox # NONE
    /\ inbox.kind = kind

Consumed == inbox' = NONE /\ UNCHANGED fifoVars

\* The handler of InvalidMessageException: the error goes to the client the
\* message names, if there is one; the secret has no part in it.
Reject(id) ==
    /\ Consumed
    /\ IF id # INVALID_CLIENT_ID /\ m_clients[id] # NONE
       THEN Answer("error", id, m_clients[id].path)
       ELSE Listen

\* the id processMessage knows when a typed message is refused
NamedId(msg) == IF msg.id \in Ids THEN msg.id ELSE INVALID_CLIENT_ID

\* mutant: any secret will do
secretIgnored(who, secret) == TRUE

secretMatches(who, secret) == who.secret = secret

Authorized(msg) ==
    /\ msg.id \in Ids
    /\ m_clients[msg.id] # NONE
    /\ secretMatches(m_clients[msg.id], msg.secret)

\* json::parse_error is caught inside the loop
ReceiveGarbage ==
    /\ Receives("garbage")
    /\ Consumed
    /\ Listen
    /\ UNCHANGED <<threadVars, sessionVars, pipe>>

\* A client_id of the wrong type raises json::type_error, which only the
\* outermost handler catches.
ReceiveMalformed ==
    /\ Receives("malformed")
    /\ \/ inbox.id = Mistyped /\ EndWorker
       \/ inbox.id # Mistyped /\ Reject(NamedId(inbox))
    /\ UNCHANGED <<threadVars, sessionVars, pipe>>

\* mutants: the counter is not advanced; advanced twice; not truncated
NextClientIDStuck(id) == id
NextClientIDTwice(id) == (id + 2) % IdModulus
NextClientIDUntruncated(id) == id + 1

NextClientID(id) == (id + 1) % IdModulus

\* mutant: the client stays in the table
ForgetNothing(clients, id) == clients

Forget(clients, id) == [clients EXCEPT ![id] = NONE]

\* mutant: the counter is read again for the answer, after it was advanced
handleRegistrationRereading(who) ==
    /\ Consumed
    /\ m_clients' = [m_clients EXCEPT ![s_nextClientID] = who]
    /\ s_nextClientID' = NextClientID(s_nextClientID)
    /\ registered' = registered + 1
    /\ Answer("registration", NextClientID(s_nextClientID), who.path)

\* mutant: the client is not told its id
handleRegistrationSilent(who) ==
    /\ Consumed
    /\ m_clients' = [m_clients EXCEPT ![s_nextClientID] = who]
    /\ s_nextClientID' = NextClientID(s_nextClientID)
    /\ registered' = registered + 1
    /\ Listen

handleRegistration(who) ==
    /\ Consumed
    /\ m_clients' = [m_clients EXCEPT ![s_nextClientID] = who]
    /\ s_nextClientID' = NextClientID(s_nextClientID)
    /\ registered' = registered + 1
    /\ Answer("registration", s_nextClientID, who.path)

\* A registration whose pipe does not exist is dropped without a word.
ReceiveRegistration ==
    /\ Receives("registration")
    /\ \/ /\ inbox.who # Missing
          /\ pipe[inbox.who.path] # "absent"
          /\ handleRegistration(inbox.who)
       \/ /\ inbox.who # Missing
          /\ pipe[inbox.who.path] = "absent"
          /\ Consumed /\ Listen /\ UNCHANGED sessionVars
       \/ /\ inbox.who = Missing
          /\ Reject(INVALID_CLIENT_ID) /\ UNCHANGED sessionVars
    /\ UNCHANGED <<threadVars, pipe>>

\* The call itself is module ApiCall: it is executed before it is answered.
ReceiveAPICall ==
    /\ Receives("api_call")
    /\ \/ /\ Authorized(inbox)
          /\ inbox.body = "valid"
          /\ Consumed
          /\ Answer("api_call", inbox.id, m_clients[inbox.id].path)
       \/ /\ Authorized(inbox)
          /\ inbox.body = "type_error"
          /\ EndWorker
       \/ /\ ~Authorized(inbox) \/ inbox.body = "invalid"
          /\ Reject(NamedId(inbox))
    /\ UNCHANGED <<threadVars, sessionVars, pipe>>

\* The client leaves the table before it is answered.
handleDisconnect(id) ==
    /\ Consumed
    /\ m_clients' = Forget(m_clients, id)
    /\ Answer("disconnect", id, m_clients[id].path)
    /\ UNCHANGED <<s_nextClientID, registered>>

ReceiveDisconnect ==
    /\ Receives("disconnect")
    /\ \/ Authorized(inbox) /\ handleDisconnect(inbox.id)
       \/ ~Authorized(inbox) /\ Reject(NamedId(inbox)) /\ UNCHANGED sessionVars
    /\ UNCHANGED <<threadVars, pipe>>

-----------------------------------------------------------------------------
(***************************************************************************)
(* NamedPipe::write of the reply: open() without blocking fails until the  *)
(* client has a reader.                                                    *)
(***************************************************************************)
OpenClientPipe ==
    /\ worker = "opening"
    /\ pipe[reply.path] = "open"
    /\ worker' = "writing"
    /\ UNCHANGED <<threadVars, sessionVars, fifoVars, timeout, inbox, reply, pipe>>

\* mutant: the timeout does not shrink
OpenFailsForEver ==
    /\ worker = "opening"
    /\ pipe[reply.path] # "open"
    /\ worker' = "sleeping"
    /\ UNCHANGED <<threadVars, sessionVars, fifoVars, timeout, inbox, reply, pipe>>

OpenFails ==
    /\ worker = "opening"
    /\ pipe[reply.path] # "open"
    /\ timeout > WriteInterval
    /\ timeout' = timeout - WriteInterval
    /\ worker' = "sleeping"
    /\ UNCHANGED <<threadVars, sessionVars, fifoVars, inbox, reply, pipe>>

\* mutant: TimeoutException is left to the outermost handler
OpenTimeoutFatal ==
    /\ worker = "opening"
    /\ pipe[reply.path] # "open"
    /\ timeout <= WriteInterval
    /\ EndWorker
    /\ UNCHANGED <<threadVars, sessionVars, pipe>>

\* the handler of TimeoutException inside the loop
OpenTimeout ==
    /\ worker = "opening"
    /\ pipe[reply.path] # "open"
    /\ timeout <= WriteInterval
    /\ Listen
    /\ UNCHANGED <<threadVars, sessionVars, fifoVars, inbox, pipe>>

\* sleep_for is an interruption point
Wake ==
    /\ worker = "sleeping"
    /\ ~interrupted
    /\ worker' = "opening"
    /\ UNCHANGED <<threadVars, sessionVars, fifoVars, timeout, inbox, reply, pipe>>

SleepInterrupted ==
    /\ worker = "sleeping"
    /\ interrupted
    /\ EndWorker
    /\ UNCHANGED <<threadVars, sessionVars, pipe>>

WriteReply ==
    /\ worker = "writing"
    /\ pipe[reply.path] = "open"
    /\ Listen
    /\ UNCHANGED <<threadVars, sessionVars, fifoVars, inbox, pipe>>

\* The reader went away after the open: EPIPE, a PipeException that only the
\* outermost handler catches.  (Or SIGPIPE, where the host does not ignore
\* it: that outcome is Crash.)
WriteBroken ==
    /\ \/ worker = "writing" /\ pipe[reply.path] # "open"
       \/ worker = "orphaned"
    /\ EndWorker
    /\ UNCHANGED <<threadVars, sessionVars, pipe>>

-----------------------------------------------------------------------------
(***************************************************************************)
(* The environment: clients and the operating system.                      *)
(***************************************************************************)
\* A message enters the FIFO; a second one, before the first is read, joins it.
Send(msg) ==
    /\ worker = "listening"
    /\ msg.kind = "registration" => registered < MaxRegistrations
    /\ inbox' = IF inbox = NONE THEN msg ELSE Garbage
    /\ UNCHANGED <<owner, worker, interrupted, fifoVars, sessionVars, timeout,
                   reply, pipe>>

\* A client creates its pipe, opens it to read, closes it, and removes it.
ClientPipe(p) ==
    /\ \/ pipe[p] = "absent" /\ pipe' = [pipe EXCEPT ![p] = "closed"]
       \/ pipe[p] = "closed" /\ pipe' = [pipe EXCEPT ![p] = "open"]
       \/ pipe[p] = "open"   /\ pipe' = [pipe EXCEPT ![p] = "closed"]
    /\ UNCHANGED <<owner, worker, interrupted, fifoVars, sessionVars, timeout,
                   inbox, reply>>

\* A pipe made again under the same path is not the one the worker has opened.
ClientPipeRemoved(p) ==
    /\ pipe[p] = "closed"
    /\ pipe' = [pipe EXCEPT ![p] = "absent"]
    /\ worker' = IF worker = "writing" /\ reply.path = p THEN "orphaned" ELSE worker
    /\ UNCHANGED <<owner, interrupted, fifoVars, sessionVars, timeout, inbox,
                   reply>>

\* The process dies; the file stays behind.
Crash ==
    /\ worker # "none"
    /\ owner' = "idle"
    /\ worker' = "none"
    /\ interrupted' = FALSE
    /\ m_pipe' = FALSE
    /\ m_clients' = [id \in Ids |-> NONE]
    /\ s_nextClientID' = 0
    /\ registered' = 0
    /\ timeout' = 0
    /\ inbox' = NONE
    /\ reply' = NONE
    /\ UNCHANGED <<fifo, pipe>>

\* A signal makes poll() fail: read_blocking returns the empty string, which is
\* not JSON, and the loop begins again.
PollFailed ==
    /\ worker = "listening"
    /\ inbox = NONE
    /\ Listen
    /\ UNCHANGED <<threadVars, sessionVars, fifoVars, inbox, pipe>>

\* The user deletes a file no process serves (plugin/README.md).
RemoveStalePipe ==
    /\ fifo /\ ~m_pipe
    /\ fifo' = FALSE
    /\ UNCHANGED <<owner, worker, interrupted, m_pipe, sessionVars, timeout,
                   inbox, reply, pipe>>

-----------------------------------------------------------------------------
Owner == start \/ stop

Worker ==
    \/ CreatePipe
    \/ PollInterrupted \/ PollAgain \/ PollTimeout
    \/ ReceiveGarbage \/ ReceiveMalformed \/ ReceiveRegistration
    \/ ReceiveAPICall \/ ReceiveDisconnect
    \/ OpenClientPipe \/ OpenFails \/ OpenTimeout
    \/ Wake \/ SleepInterrupted
    \/ WriteReply \/ WriteBroken

Environment ==
    \/ \E msg \in Messages : Send(msg)
    \/ \E p \in Paths : ClientPipe(p) \/ ClientPipeRemoved(p)
    \/ Crash
    \/ PollFailed
    \/ RemoveStalePipe

Next == Owner \/ joined \/ Worker \/ Environment

Spec == Init /\ [][Next]_vars

\* The operating system runs the worker, and the owner once it may go on.
\* Nothing is assumed of the clients or of when the owner starts and stops.
Fairness == WF_vars(Worker) /\ WF_vars(joined)

FairSpec == Spec /\ Fairness

-----------------------------------------------------------------------------
(***************************************************************************)
(* Safety.                                                                 *)
(***************************************************************************)
\* Every variable stays in its set.
TypeOK ==
    /\ owner \in {"idle", "joining"}
    /\ worker \in {"none", "starting", "listening", "opening", "sleeping",
                   "writing", "orphaned", "ended"}
    /\ interrupted \in BOOLEAN
    /\ fifo \in BOOLEAN
    /\ m_pipe \in BOOLEAN
    /\ m_clients \in [Ids -> Registrants \cup {NONE}]
    /\ s_nextClientID \in Ids
    /\ registered \in 0 .. MaxRegistrations
    /\ timeout \in 0 .. (ReadTimeout + WriteTimeout)
    /\ inbox \in Messages \cup {NONE}
    /\ reply \in Replies \cup {NONE}
    /\ pipe \in [Paths -> {"absent", "closed", "open"}]

\* Until the counter has gone all the way round, every client in the table has
\* an id below the number of registrations and the next id is above them all.
FreshIds ==
    registered <= IdModulus =>
        /\ s_nextClientID = registered % IdModulus
        /\ \A id \in Ids : m_clients[id] # NONE => id < registered

\* "unique IDs" (Bridge.h): an id once assigned means one registration or, once
\* that has gone, nobody; neither a disconnect, a failed answer nor a restart
\* of the worker makes it mean somebody else.
SessionNeverRebound ==
    [][\A id \in Ids :
          id < registered => m_clients'[id] \in {m_clients[id], NONE}]_vars

\* While the worker waits for the pipe of a client, the table still says what
\* the reply says: a positive reply or an error goes to the path of a session
\* that is in the table, the reply to a disconnect is the last trace of it.
ReplyMatchesTable ==
    Replying =>
        IF reply.type = "disconnect"
        THEN m_clients[reply.id] = NONE
        ELSE m_clients[reply.id] # NONE /\ m_clients[reply.id].path = reply.path

\* A session ends, and a call or a disconnect is answered, only for a message
\* that carries the secret of the session, however the table changed between
\* the client's registration and this message.
ActsForOwner ==
    [][/\ \A id \in Ids :
             m_clients[id] # NONE /\ m_clients'[id] = NONE /\ worker' # "none"
               => inbox.secret = m_clients[id].secret
       /\ reply = NONE /\ reply' # NONE /\ reply'.type = "api_call"
            => inbox.secret = m_clients[reply'.id].secret]_vars

\* The bridge holds its FIFO exactly while it serves it, and the file exists
\* all that time, whatever ended the previous worker or process.
PipeOwned ==
    /\ m_pipe <=> Serving
    /\ m_pipe => fifo

\* Whatever ends a serving worker short of the death of the process (stop, a
\* timeout, a broken client pipe, an exception) removes the FIFO, so that the
\* next start finds none.
PipeRemoved == [][Serving /\ worker' = "ended" => ~fifo']_vars

\* A client that does not open its pipe costs the bridge one write timeout and
\* nothing else: the attempt ends the worker only when stop was called.
UnreachableClientTolerated ==
    [][worker' = "ended" /\ worker \in {"opening", "sleeping"} => interrupted]_vars

\* The bridge implements the table of sessions of SessionService, as long as
\* no more than IdModulus registrations are sent to one process.
Service == INSTANCE SessionService WITH
    sessions <- m_clients,
    used     <- {id \in Ids : id < registered},
    answer   <- reply

SessionSpec == Service!Spec

(***************************************************************************)
(* Liveness, under FairSpec.                                               *)
(***************************************************************************)
\* stop(true) returns, if the FIFO is eventually left alone.
StopReturns == <>[](inbox = NONE) => (owner = "joining" ~> owner = "idle")

\* No reply is attempted for ever, whatever the client does with its pipe.
ReplyEnds == Replying ~> ~Replying

\* A registration that arrives whole, from a client that keeps its pipe open,
\* is answered on that pipe, also when stop was called meanwhile.
AttentiveClientAnswered ==
    \A who \in Registrants :
        inbox # NONE /\ inbox = [kind |-> "registration", who |-> who]
        /\ pipe[who.path] = "open"
        ~> \/ worker = "writing" /\ reply.type = "registration"
              /\ reply.path = who.path
           \/ pipe[who.path] # "open"         \* the client went away
           \/ inbox = Garbage                 \* another message joined it
           \/ worker = "none"                 \* the process died

-----------------------------------------------------------------------------
(***************************************************************************)
(* What the documentation says and the code does not do; each is refuted   *)
(* by a run of its own.                                                    *)
(***************************************************************************)
\* Bridge.h:29-31, "It will enter a loop of polling for messages until the
\* bridge is stopped again": a client that closes its pipe between the open and
\* the write of a reply does not end the loop.
ReaderLossTolerated ==
    [][worker' = "ended" /\ worker \in {"writing", "orphaned"}
         => interrupted]_vars

\* Bridge.cpp:100-102: the client_id of a malformed message serves to return
\* an error to the client, and not to end the bridge.
MalformedIsAnswered ==
    [][Receives("malformed") /\ worker' = "ended" => interrupted]_vars
=============================================================================
