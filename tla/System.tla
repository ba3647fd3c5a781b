------------------------------- MODULE System -------------------------------
(***************************************************************************)
(* The bridge together with the programs of cli/: each run of the          *)
(* command-line client is a process that makes a pipe, registers, sends    *)
(* requests one at a time, says goodbye and removes the pipe               *)
(* (cli/JSONInterface.cpp, main.cpp).  All of them use the same path.      *)
(*                                                                         *)
(* The bridge is module Bridge; a client is a particular case of its       *)
(* environment.  Other programs may write to the bridge at any time, any   *)
(* client may be killed at any time, and every wait of a client may end    *)
(* with its timeout before the bridge has done its part.                   *)
(***************************************************************************)
EXTENDS Bridge

CONSTANTS
    Clients,        \* runs of the program; each is the secret it generates
    Path,           \* /tmp/.mumble-json-bridge-cli
    MaxRequests,    \* requests of one run: the calls of an operation
    MaxStarts,      \* bound: how often the bridge is started
    Nobody          \* author of a message that is not a client's

Registrant(c) == [path |-> Path, secret |-> c]

ASSUME SystemAssumption ==
    /\ Registrants = {Registrant(c) : c \in Clients}
    /\ Clients # {}
    /\ MaxRequests \in Nat \ {0}
    /\ MaxStarts \in Nat
    /\ Nobody \notin Clients \X Nat

\* two messages in the pipe: not one JSON text
Joined == [type |-> "joined"]

VARIABLES
    client,         \* client[c]: where the program is
    m_id,           \* m_id[c]: the id it believes to have
    m_bridgeSecret, \* m_bridgeSecret[c]: the secret that came with the id
    sent,           \* sent[c]: requests it has sent
    mail,           \* what is in the pipe the clients share, or NONE
    m_secret,       \* the secret of the bridge: the number of its starts
    author          \* ghost: who wrote the message being received or answered

clientVars == <<client, m_id, m_bridgeSecret, sent>>
sysVars == <<vars, clientVars, mail, m_secret, author>>

Waiting == {"awaitId", "awaitAnswer", "awaitBye"}
Live == {"registering", "requesting", "leaving", "removing"} \cup Waiting

\* the clients that hold a NamedPipe object with the path
Owners == {c \in Clients : client[c] \in Live}

SysInit ==
    /\ Init
    /\ client = [c \in Clients |-> "idle"]
    /\ m_id = [c \in Clients |-> NONE]
    /\ m_bridgeSecret = [c \in Clients |-> 0]
    /\ sent = [c \in Clients |-> 0]
    /\ mail = NONE
    /\ m_secret = 0
    /\ author = Nobody

Goto(c, state) == client' = [client EXCEPT ![c] = state]

-----------------------------------------------------------------------------
(***************************************************************************)
(* The bridge.                                                             *)
(***************************************************************************)
\* Starting again gives the bridge another secret; the table of clients stays.
StartBridge ==
    /\ m_secret < MaxStarts
    /\ start
    /\ UNCHANGED <<clientVars, mail, m_secret, author>>

MakeSecret ==
    /\ CreatePipe
    /\ m_secret' = m_secret + 1
    /\ UNCHANGED <<clientVars, mail, author>>

Delivery == [type |-> reply.type, id |-> reply.id, secret |-> m_secret,
             author |-> author]

\* A second message joins the first one, or comes after the last read() of the
\* client and is lost.
Deliver ==
    /\ WriteReply
    /\ mail' \in IF mail = NONE THEN {Delivery} ELSE {mail, Joined}
    /\ author' = Nobody
    /\ UNCHANGED <<clientVars, m_secret>>

\* everything else the owner, the worker and the system under them do
Internal ==
    \/ stop \/ joined
    \/ PollInterrupted \/ PollAgain \/ PollTimeout
    \/ ReceiveGarbage \/ ReceiveMalformed \/ ReceiveRegistration
    \/ ReceiveAPICall \/ ReceiveDisconnect
    \/ OpenClientPipe \/ OpenFails \/ OpenTimeout
    \/ Wake \/ SleepInterrupted \/ WriteBroken
    \/ Crash \/ PollFailed \/ RemoveStalePipe

OtherBridgeStep ==
    /\ Internal
    /\ author' = IF inbox' = NONE /\ reply' = NONE THEN Nobody ELSE author
    /\ UNCHANGED <<clientVars, mail, m_secret>>

-----------------------------------------------------------------------------
(***************************************************************************)
(* A client: the constructor of JSONInterface.                             *)
(***************************************************************************)
\* mutant: a pipe that exists is used as it is
CreateOrReuse(c) ==
    /\ client[c] = "idle"
    /\ IF pipe[Path] = "absent" THEN ClientPipe(Path) ELSE UNCHANGED vars
    /\ Goto(c, "registering")
    /\ UNCHANGED <<m_id, m_bridgeSecret, sent, mail, m_secret, author>>

\* NamedPipe::create
Create(c) ==
    /\ client[c] = "idle"
    /\ pipe[Path] = "absent"
    /\ ClientPipe(Path)
    /\ Goto(c, "registering")
    /\ UNCHANGED <<m_id, m_bridgeSecret, sent, mail, m_secret, author>>

\* EEXIST: a PipeException, and an object that holds no path
CreateFails(c) ==
    /\ client[c] = "idle"
    /\ pipe[Path] # "absent"
    /\ Goto(c, "ended")
    /\ UNCHANGED <<vars, m_id, m_bridgeSecret, sent, mail, m_secret,
                   author>>

(***************************************************************************)
(* Writing: the registration, a request, the disconnect.                   *)
(***************************************************************************)
Registration(c) == [kind |-> "registration", who |-> Registrant(c)]

\* a request the bridge accepts, refuses, or cannot convert
Request(c, body) ==
    [kind |-> "api_call", id |-> m_id[c], secret |-> c, body |-> body]

Goodbye(c) == [kind |-> "disconnect", id |-> m_id[c], secret |-> c]

\* The message arrives; or it is accepted after the last read() of the bridge
\* and before its close(), and nobody will ever know.
Post(c, message) ==
    \/ /\ Send(message)
       /\ author' = IF inbox = NONE THEN <<c, sent'[c]>> ELSE Nobody
    \/ /\ worker = "listening" /\ inbox # NONE
       /\ UNCHANGED <<vars, author>>

WriteMessage(c) ==
    /\ \/ /\ client[c] = "registering"
          /\ Goto(c, "awaitId") /\ UNCHANGED sent
          /\ Post(c, Registration(c))
       \/ /\ client[c] = "requesting"
          /\ Goto(c, "awaitAnswer")
          /\ sent' = [sent EXCEPT ![c] = @ + 1]
          /\ \E body \in {"valid", "invalid", "type_error"} :
                Post(c, Request(c, body))
       \/ /\ client[c] = "leaving"
          /\ Goto(c, "awaitBye") /\ UNCHANGED sent
          /\ Post(c, Goodbye(c))
    /\ UNCHANGED <<m_id, m_bridgeSecret, mail, m_secret>>

\* Where an exception leads: the constructor has no destructor to run, only that
\* of the pipe; any other exception is caught by main, after the destructor has
\* said goodbye; and the destructor lets none out.
Unwound(state) ==
    IF state \in {"requesting", "awaitAnswer"} THEN "leaving" ELSE "removing"

\* TimeoutException while the bridge has no reader; EPIPE, EAGAIN
WriteFails(c) ==
    /\ client[c] \in {"registering", "requesting", "leaving"}
    /\ worker # "listening" \/ inbox # NONE
    /\ Goto(c, Unwound(client[c]))
    /\ UNCHANGED <<vars, m_id, m_bridgeSecret, sent, mail, m_secret,
                   author>>

(***************************************************************************)
(* Reading the answer.                                                     *)
(***************************************************************************)
OpenReader(c) ==
    /\ client[c] \in Waiting
    /\ pipe[Path] = "closed"
    /\ ClientPipe(Path)
    /\ UNCHANGED <<clientVars, mail, m_secret, author>>

CloseReader ==
    /\ pipe[Path] = "open"
    /\ ClientPipe(Path)
    /\ mail' = NONE
    /\ UNCHANGED <<m_secret, author>>

\* mutant: the request is sent again after a timeout
ReadExpiresRetrying(c) ==
    /\ client[c] \in Waiting
    /\ CloseReader
    /\ Goto(c, IF client[c] = "awaitAnswer" /\ sent[c] < MaxRequests
               THEN "requesting" ELSE Unwound(client[c]))
    /\ UNCHANGED <<m_id, m_bridgeSecret, sent>>

\* mutant: the request is sent again and again
ReadExpiresForEver(c) ==
    /\ client[c] \in Waiting
    /\ CloseReader
    /\ Goto(c, IF client[c] = "awaitAnswer" THEN "requesting" ELSE Unwound(client[c]))
    /\ UNCHANGED <<m_id, m_bridgeSecret, sent>>

\* mutant: the client waits for its answer for ever
ReadExpiresNever(c) ==
    /\ client[c] \in Waiting
    /\ CloseReader
    /\ client[c] = "awaitId"
    /\ Goto(c, "removing")
    /\ UNCHANGED <<m_id, m_bridgeSecret, sent>>

\* mutant: the exception leaves the constructor and the pipe behind
ReadExpiresLeavingFile(c) ==
    /\ client[c] \in Waiting
    /\ CloseReader
    /\ Goto(c, IF client[c] = "awaitId" THEN "ended" ELSE Unwound(client[c]))
    /\ UNCHANGED <<m_id, m_bridgeSecret, sent>>

\* TimeoutException of read_blocking: what came after the last poll() is lost
ReadExpires(c) ==
    /\ client[c] \in Waiting
    /\ CloseReader
    /\ Goto(c, Unwound(client[c]))
    /\ UNCHANGED <<m_id, m_bridgeSecret, sent>>

\* The constructor takes the id from whatever it reads; an answer of another type
\* has none (json::type_error).
ReadId(c) ==
    /\ client[c] = "awaitId"
    /\ mail # NONE
    /\ CloseReader
    /\ \/ /\ mail.type = "registration"
          /\ m_id' = [m_id EXCEPT ![c] = mail.id]
          /\ m_bridgeSecret' = [m_bridgeSecret EXCEPT ![c] = mail.secret]
          /\ \E next \in {"requesting", "leaving"} : Goto(c, next)
       \/ /\ mail.type # "registration"
          /\ Goto(c, Unwound(client[c]))
          /\ UNCHANGED <<m_id, m_bridgeSecret>>
    /\ UNCHANGED sent

\* process(): an answer with another secret is thrown away, an error or anything
\* else that is no api_call ends the operation; a positive answer may be
\* followed by the next request.
Positive(c) ==
    /\ mail.type = "api_call"
    /\ mail.secret = m_bridgeSecret[c]

ReadAnswer(c) ==
    /\ client[c] = "awaitAnswer"
    /\ mail # NONE
    /\ CloseReader
    /\ \/ /\ Positive(c)
          /\ \E next \in {"requesting", "leaving"} :
                /\ next = "requesting" => sent[c] < MaxRequests
                /\ Goto(c, next)
       \/ ~Positive(c) /\ Goto(c, "leaving")
    /\ UNCHANGED <<m_id, m_bridgeSecret, sent>>

\* The destructor does not look at the answer.
ReadBye(c) ==
    /\ client[c] = "awaitBye"
    /\ mail # NONE
    /\ CloseReader
    /\ Goto(c, "removing")
    /\ UNCHANGED <<m_id, m_bridgeSecret, sent>>

\* what a process knew goes with it
MemoryGone(c) ==
    /\ m_id' = [m_id EXCEPT ![c] = NONE]
    /\ m_bridgeSecret' = [m_bridgeSecret EXCEPT ![c] = 0]
    /\ sent' = [sent EXCEPT ![c] = 0]

\* ~NamedPipe
Remove(c) ==
    /\ client[c] = "removing"
    /\ ClientPipeRemoved(Path)
    /\ Goto(c, "ended")
    /\ MemoryGone(c)
    /\ UNCHANGED <<mail, m_secret, author>>

ClientStep(c) ==
    \/ Create(c) \/ CreateFails(c)
    \/ WriteMessage(c) \/ WriteFails(c)
    \/ OpenReader(c) \/ ReadExpires(c)
    \/ ReadId(c) \/ ReadAnswer(c) \/ ReadBye(c)
    \/ Remove(c)

-----------------------------------------------------------------------------
(***************************************************************************)
(* What else happens.                                                      *)
(***************************************************************************)
\* mutant: the pipe goes with the process
KillRemoving(c) ==
    /\ client[c] \in Live
    /\ Goto(c, "killed")
    /\ pipe' = [pipe EXCEPT ![Path] = "absent"]
    /\ mail' = NONE
    /\ MemoryGone(c)
    /\ UNCHANGED <<owner, worker, interrupted, fifoVars, sessionVars, timeout,
                   inbox, reply, m_secret, author>>

\* The program is killed, and its pipe stays.
Kill(c) ==
    /\ client[c] \in Live
    /\ Goto(c, "killed")
    /\ IF pipe[Path] = "open" THEN CloseReader
       ELSE UNCHANGED <<vars, mail, m_secret, author>>
    /\ MemoryGone(c)

\* The user removes a pipe whose program is no more.
RemoveLeftover ==
    /\ Owners = {}
    /\ ClientPipeRemoved(Path)
    /\ UNCHANGED <<clientVars, mail, m_secret, author>>

\* Other programs write what they like, short of a message with a client's secret.
OthersWrite ==
    /\ \E message \in {m \in Messages : m.kind \in {"garbage", "malformed"}} :
          Send(message)
    /\ author' = Nobody
    /\ UNCHANGED <<clientVars, mail, m_secret>>

SysNext ==
    \/ StartBridge \/ MakeSecret \/ Deliver \/ OtherBridgeStep
    \/ \E c \in Clients : ClientStep(c) \/ Kill(c)
    \/ RemoveLeftover \/ OthersWrite

SysSpec == SysInit /\ [][SysNext]_sysVars

\* The system runs the clients, once they have been started.  Nothing is assumed
\* of the bridge.
ClientFairness == \A c \in Clients : WF_sysVars(ClientStep(c))

SysFairSpec == SysSpec /\ ClientFairness

-----------------------------------------------------------------------------
(***************************************************************************)
(* Safety.                                                                 *)
(***************************************************************************)
\* Every variable stays in its set.
SysTypeOK ==
    /\ client \in [Clients -> {"idle", "ended", "killed"} \cup Live]
    /\ m_id \in [Clients -> Ids \cup {NONE}]
    /\ m_bridgeSecret \in [Clients -> 0 .. MaxStarts]
    /\ sent \in [Clients -> 0 .. MaxRequests]
    /\ mail \in {NONE, Joined} \/ mail.secret \in 1 .. MaxStarts
    /\ m_secret \in 0 .. MaxStarts
    /\ author \in {Nobody} \cup (Clients \X (0 .. MaxRequests))

\* The path belongs to one program at a time: a program that finds the pipe of
\* another one leaves it alone, and a program that ends by itself, also with an
\* exception in its constructor, takes its pipe with it.  Only one that was
\* killed leaves a pipe behind.
PipeHasOneOwner ==
    /\ \A c, d \in Owners : c = d
    /\ Owners # {} => pipe[Path] # "absent"
    /\ Owners = {} /\ pipe[Path] # "absent" =>
          \E c \in Clients : client[c] = "killed"

\* A positive answer that a client can take is the answer to its own latest
\* request, although answers carry no mark, arrive late, get lost or run
\* together, and other programs have used the same pipe before.
AnswerIsOwn ==
    \A c \in Clients :
        client[c] = "awaitAnswer" /\ mail # NONE /\ Positive(c)
            => mail.author = <<c, sent[c]>>

\* A client that finds the answer to a disconnect has no session any more,
\* whoever that answer was written for.
ByeMeansGone ==
    \A c \in Clients :
        client[c] = "awaitBye" /\ mail # NONE /\ mail.type = "disconnect"
            => \A id \in Ids : m_clients[id] # Registrant(c)

\* Bridge and clients together are a bridge in its environment: what is proved of
\* Bridge holds with these clients.
BridgeSpec == Spec

(***************************************************************************)
(* Liveness, under SysFairSpec.                                            *)
(***************************************************************************)
\* A program that was started ends, whether a bridge runs or not and whatever
\* the bridge and the other programs do.
InvocationEnds ==
    \A c \in Clients : client[c] \in Live ~> client[c] \in {"ended", "killed"}
=============================================================================
