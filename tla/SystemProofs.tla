---------------------------- MODULE SystemProofs ----------------------------
(***************************************************************************)
(* Proofs about module System: the bridge together with its clients is a   *)
(* bridge in its environment, so that every invariant of Bridge holds here *)
(* too; the path belongs to one client at a time; and a client never takes *)
(* the answer to somebody else's request for its own.                      *)
(***************************************************************************)
EXTENDS System, BridgeProofs

\* A request that the bridge has been sent and has not answered.
UnderWay ==
    \/ inbox # NONE /\ inbox.kind = "api_call"
    \/ reply # NONE /\ reply.type = "api_call"

\* Whoever waits for an answer waits for the one to the request of whom, and
\* nobody is about to send another.
Belongs(whom) ==
    \A c \in Clients :
        /\ client[c] # "requesting"
        /\ client[c] = "awaitAnswer" => whom = <<c, sent[c]>>

\* What the place of a client says about its memory.
Phases ==
    \A c \in Clients :
        /\ client[c] \in {"idle", "registering", "awaitId"} => sent[c] = 0
        /\ client[c] = "requesting" => sent[c] < MaxRequests
        /\ client[c] \in {"requesting", "awaitAnswer", "leaving"} => m_id[c] \in Ids

\* The bridge has a secret when it serves, and answers with ids.
Deliveries ==
    /\ worker = "starting" => m_secret < MaxStarts
    /\ worker \notin {"none", "starting"} => m_secret > 0
    /\ mail # NONE /\ mail.type = "registration" => mail.id \in Ids

\* Only a client that waits reads.  There is one message between bridge and
\* clients at a time, as far as requests are concerned.
Mailbox ==
    /\ pipe[Path] = "open" => \E c \in Clients : client[c] \in Waiting
    /\ mail # NONE => pipe[Path] = "open" /\ ~UnderWay

Attributed ==
    /\ UnderWay => Belongs(author)
    /\ mail # NONE /\ mail.type = "api_call" => Belongs(mail.author)

SysInv ==
    /\ SysTypeOK
    /\ PipeHasOneOwner
    /\ Phases
    /\ Deliveries
    /\ Mailbox
    /\ Attributed

(***************************************************************************)
(* What the sessions of the bridge say about the clients.                  *)
(***************************************************************************)
\* The clients that are between their registration and the end of their run.
Engaged == Waiting \cup {"requesting", "leaving"}

\* The registration of c has been sent and not yet been handled.
Announced(c) == inbox # NONE /\ inbox = Registration(c)

\* A client with a session learns of no other one, and no disconnect is on its
\* way to the bridge but its own, which ends the session before it is answered.
Settled(c, id) ==
    /\ IF client[c] = "awaitId"
       THEN /\ inbox # NONE => inbox.kind \notin {"registration", "disconnect"}
            /\ reply # NONE /\ reply.type = "registration" => reply.id = id
            /\ mail # NONE /\ mail.type = "registration" => mail.id = id
       ELSE /\ m_id[c] = id
            /\ inbox # NONE /\ inbox.kind = "disconnect" => inbox.id = id
    /\ reply # NONE => reply.type # "disconnect"
    /\ mail # NONE => mail.type # "disconnect"

\* A client has no session before its registration has been handled; while that
\* is on its way, the client has found nothing in its pipe, or has given up.
SessionOf(c) ==
    /\ Announced(c) \/ client[c] \in {"idle", "registering"} =>
          \A id \in Ids : m_clients[id] # Registrant(c)
    /\ Announced(c) => \/ client[c] = "awaitId" /\ mail = NONE
                       \/ client[c] \in {"removing", "ended", "killed"}
    /\ client[c] \in Engaged =>
          \A id \in Ids : m_clients[id] = Registrant(c) => Settled(c, id)

Sessions == \A c \in Clients : SessionOf(c)

-----------------------------------------------------------------------------
(***************************************************************************)
(* The clients are an environment of the bridge.                           *)
(***************************************************************************)
\* The path of the clients is one the bridge may be told.
LEMMA PathRegistered == Path \in Paths
<1>1. PICK c \in Clients : TRUE
  BY SystemAssumption
<1>2. Registrant(c) \in Registrants /\ Registrant(c).path = Path
  BY SystemAssumption DEF Registrant
<1> QED
  BY <1>2 DEF Paths

\* What a client writes is a message of Bridge.
LEMMA ClientsWriteMessages ==
    ASSUME SysInv, NEW c \in Clients
    PROVE  /\ Registration(c) \in Messages
           /\ client[c] \in {"requesting", "leaving"} =>
                 /\ Goodbye(c) \in Messages
                 /\ \A body \in {"valid", "invalid", "type_error"} :
                       Request(c, body) \in Messages
<1>1. Registrant(c) \in Registrants /\ Registrant(c).secret = c
  BY SystemAssumption DEF Registrant
<1>2. c \in Secrets
  BY <1>1 DEF Secrets
<1>3. client[c] \in {"requesting", "leaving"} => m_id[c] \in IdField
  BY DEF SysInv, Phases, IdField
<1> QED
  BY <1>1, <1>2, <1>3 DEF Registration, Request, Goodbye, Messages

\* A step of the system is a step of Bridge, or one Bridge does not see.
LEMMA StepOfBridge ==
    ASSUME SysInv, [SysNext]_sysVars
    PROVE  [Next]_vars
<1> USE PathRegistered
<1>1. ASSUME NEW c \in Clients, ClientStep(c) PROVE [Next]_vars
  <2>1. CASE \/ Create(c) \/ OpenReader(c) \/ ReadExpires(c)
             \/ ReadId(c) \/ ReadAnswer(c) \/ ReadBye(c)
    <3>1. ClientPipe(Path)
      BY <2>1 DEF Create, OpenReader, ReadExpires, ReadId, ReadAnswer, ReadBye,
                  CloseReader
    <3> QED
      BY <3>1 DEF Next, Environment
  <2>2. CASE CreateFails(c) \/ WriteFails(c)
    BY <2>2 DEF CreateFails, WriteFails
  <2>3. CASE WriteMessage(c)
    <3>1. \/ UNCHANGED vars
          \/ Send(Registration(c))
          \/ client[c] = "leaving" /\ Send(Goodbye(c))
          \/ client[c] = "requesting"
             /\ \E body \in {"valid", "invalid", "type_error"} : Send(Request(c, body))
      BY <2>3 DEF WriteMessage, Post
    <3>2. UNCHANGED vars \/ \E message \in Messages : Send(message)
      BY <3>1, ClientsWriteMessages
    <3> QED
      BY <3>2 DEF Next, Environment
  <2>4. CASE Remove(c)
    BY <2>4 DEF Remove, Next, Environment
  <2> QED
    BY <1>1, <2>1, <2>2, <2>3, <2>4 DEF ClientStep
<1>2. ASSUME NEW c \in Clients, Kill(c) PROVE [Next]_vars
  BY <1>2 DEF Kill, CloseReader, Next, Environment
<1>3. CASE StartBridge \/ MakeSecret \/ Deliver
  BY <1>3 DEF StartBridge, MakeSecret, Deliver, Next, Owner, Worker
<1>4. CASE OtherBridgeStep
  BY <1>4, Zenon DEF OtherBridgeStep, Internal, Next, Owner, Worker, Environment
<1>5. CASE RemoveLeftover \/ OthersWrite
  BY <1>5 DEF RemoveLeftover, OthersWrite, Next, Environment
<1>6. CASE UNCHANGED sysVars
  BY <1>6 DEF sysVars
<1> QED
  BY <1>1, <1>2, <1>3, <1>4, <1>5, <1>6 DEF SysNext

-----------------------------------------------------------------------------
(***************************************************************************)
(* SysInv is an inductive invariant, beside Inv.                           *)
(***************************************************************************)
LEMMA SysInitInv == SysInit => SysInv
<1> SUFFICES ASSUME SysInit PROVE SysInv
  OBVIOUS
<1>1. pipe[Path] = "absent"
  BY PathRegistered DEF SysInit, Init
<1>2. SysTypeOK
  BY SystemAssumption DEF SysInit, SysTypeOK
<1>3. PipeHasOneOwner
  BY <1>1 DEF SysInit, PipeHasOneOwner, Owners, Live, Waiting
<1>4. Phases /\ Deliveries /\ Mailbox /\ Attributed
  BY <1>1 DEF SysInit, Init, Phases, Deliveries, Mailbox, Attributed, UnderWay
<1> QED
  BY <1>2, <1>3, <1>4 DEF SysInv

\* No step inside the bridge touches the pipes of the clients or makes a request
\* out of nothing.
LEMMA BridgeAddsNoRequest ==
    ASSUME start \/ CreatePipe \/ Internal
    PROVE  UNCHANGED pipe /\ (UnderWay' => UnderWay)
<1> USE DEF UnderWay
<1>1. CASE start \/ stop \/ joined
  BY <1>1 DEF start, stop, joined
<1>2. CASE CreatePipe \/ PollInterrupted \/ PollAgain \/ PollTimeout \/ PollFailed
  BY <1>2 DEF CreatePipe, PollInterrupted, PollAgain, PollTimeout, PollFailed,
              EndWorker, Listen
<1>3. CASE ReceiveGarbage \/ ReceiveMalformed \/ ReceiveRegistration
  BY <1>3 DEF ReceiveGarbage, ReceiveMalformed, ReceiveRegistration,
              handleRegistration, Reject, Consumed, Answer, EndWorker, Listen
<1>4. CASE ReceiveAPICall
  BY <1>4 DEF ReceiveAPICall, Receives
<1>5. CASE ReceiveDisconnect
  BY <1>5 DEF ReceiveDisconnect, handleDisconnect, Reject, Consumed, Answer, Listen
<1>6. CASE OpenClientPipe \/ OpenFails \/ OpenTimeout
  BY <1>6 DEF OpenClientPipe, OpenFails, OpenTimeout, Listen
<1>7. CASE Wake \/ SleepInterrupted \/ WriteBroken
  BY <1>7 DEF Wake, SleepInterrupted, WriteBroken, EndWorker
<1>8. CASE Crash \/ RemoveStalePipe
  BY <1>8 DEF Crash, RemoveStalePipe
<1> QED
  BY <1>1, <1>2, <1>3, <1>4, <1>5, <1>6, <1>7, <1>8 DEF Internal

\* Inside the bridge, a worker serves only if it did before.
LEMMA WorkerServesOn ==
    ASSUME Internal
    PROVE  /\ worker' # "starting" \/ worker = "starting"
           /\ worker' \in {"none", "starting"} \/ worker \notin {"none", "starting"}
<1>1. CASE stop \/ joined \/ Crash \/ RemoveStalePipe
  BY <1>1 DEF stop, joined, Crash, RemoveStalePipe
<1>2. CASE PollInterrupted \/ PollAgain \/ PollTimeout \/ PollFailed
  BY <1>2 DEF PollInterrupted, PollInterruptedGuard, PollAgain, PollTimeout,
              PollFailed, EndWorker, Listen
<1>3. CASE ReceiveGarbage \/ ReceiveMalformed \/ ReceiveRegistration
           \/ ReceiveAPICall \/ ReceiveDisconnect
  BY <1>3 DEF ReceiveGarbage, ReceiveMalformed, ReceiveRegistration, ReceiveAPICall,
              ReceiveDisconnect, Receives, handleRegistration, handleDisconnect,
              Reject, Answer, EndWorker, Listen
<1>4. CASE OpenClientPipe \/ OpenFails \/ OpenTimeout \/ Wake \/ SleepInterrupted
           \/ WriteBroken
  BY <1>4 DEF OpenClientPipe, OpenFails, OpenTimeout, Wake, SleepInterrupted,
              WriteBroken, EndWorker, Listen
<1> QED
  BY <1>1, <1>2, <1>3, <1>4 DEF Internal

\* A step inside the bridge keeps SysInv.
LEMMA BridgeStepInv ==
    ASSUME SysInv, StartBridge \/ MakeSecret \/ OtherBridgeStep
    PROVE  SysInv'
<1>1. UNCHANGED <<pipe, client, m_id, m_bridgeSecret, sent, mail>>
  BY BridgeAddsNoRequest
     DEF StartBridge, MakeSecret, OtherBridgeStep, clientVars
<1>2. UnderWay' => UnderWay /\ author' = author
  <2>1. UnderWay' => UnderWay
    BY BridgeAddsNoRequest DEF StartBridge, MakeSecret, OtherBridgeStep
  <2>2. UnderWay' => author' = author
    BY DEF StartBridge, MakeSecret, OtherBridgeStep, UnderWay
  <2> QED
    BY <2>1, <2>2
<1>3. /\ m_secret' \in 0 .. MaxStarts
      /\ worker' = "starting" => m_secret' < MaxStarts
      /\ worker' \notin {"none", "starting"} => m_secret' > 0
  <2> USE SystemAssumption DEF SysInv, SysTypeOK, Deliveries
  <2>1. CASE StartBridge
    BY <2>1 DEF StartBridge, start
  <2>2. CASE MakeSecret
    BY <2>2 DEF MakeSecret, CreatePipe, Listen, EndWorker
  <2>3. CASE OtherBridgeStep
    BY <2>3, WorkerServesOn DEF OtherBridgeStep
  <2> QED
    BY <2>1, <2>2, <2>3
<1>4. SysTypeOK'
  <2>1. author' \in {author, Nobody}
    BY DEF StartBridge, MakeSecret, OtherBridgeStep
  <2> QED
    BY <1>1, <1>3, <2>1 DEF SysInv, SysTypeOK
<1>5. PipeHasOneOwner' /\ Phases'
  BY <1>1 DEF SysInv, PipeHasOneOwner, Owners, Phases
<1>6. Deliveries' /\ Mailbox'
  BY <1>1, <1>2, <1>3 DEF SysInv, Deliveries, Mailbox
<1>7. Attributed'
  BY <1>1, <1>2 DEF SysInv, Attributed, Belongs
<1> QED
  BY <1>4, <1>5, <1>6, <1>7 DEF SysInv

\* So does the delivery of an answer: what was under way is now in the pipe.
LEMMA DeliverInv ==
    ASSUME Inv, SysInv, Deliver
    PROVE  SysInv'
<1>1. /\ UNCHANGED <<pipe, client, m_id, m_bridgeSecret, sent, m_secret>>
      /\ worker = "writing" /\ worker' = "listening"
      /\ inbox' = NONE /\ reply' = NONE /\ author' = Nobody
      /\ reply \in Replies /\ reply # NONE /\ pipe[reply.path] = "open"
  BY DEF Deliver, WriteReply, Listen, clientVars, Inv, TypeOK, Coupling, Replying
<1>2. pipe[Path] = "open"
  <2>1. reply.path \in Paths
    BY <1>1 DEF Replies
  <2>2. reply.path = Path
    BY <2>1, SystemAssumption DEF Paths, Registrant
  <2> QED
    BY <1>1, <2>2
<1>3. m_secret \in 1 .. MaxStarts
  BY <1>1, SystemAssumption DEF SysInv, SysTypeOK, Deliveries
<1>4. \/ mail' = mail /\ mail # NONE
      \/ mail' = Joined
      \/ mail = NONE /\ mail' = Delivery
  BY DEF Deliver
<1>5. reply.id \in Ids
  BY <1>1 DEF Replies
<1>6. SysTypeOK'
  BY <1>1, <1>3, <1>4 DEF SysInv, SysTypeOK, Delivery
<1>7. PipeHasOneOwner' /\ Phases'
  BY <1>1 DEF SysInv, PipeHasOneOwner, Owners, Phases
<1>8. ~UnderWay'
  BY <1>1 DEF UnderWay
<1>9. Deliveries' /\ Mailbox'
  BY <1>1, <1>2, <1>3, <1>4, <1>5, <1>8
     DEF SysInv, Deliveries, Mailbox, Delivery, Joined
<1>10. Attributed'
  <2>1. CASE mail = NONE /\ mail' = Delivery /\ reply.type = "api_call"
    <3>1. Belongs(author)
      BY <1>1, <2>1 DEF SysInv, Attributed, UnderWay
    <3> QED
      BY <1>1, <1>8, <2>1, <3>1 DEF Attributed, Belongs, Delivery
  <2>2. CASE mail = NONE /\ mail' = Delivery /\ reply.type # "api_call"
    BY <1>8, <2>2 DEF Attributed, Delivery
  <2>3. CASE mail' = mail \/ mail' = Joined
    BY <1>1, <1>8, <2>3 DEF SysInv, Attributed, Belongs, Joined
  <2> QED
    BY <1>4, <2>1, <2>2, <2>3
<1> QED
  BY <1>6, <1>7, <1>9, <1>10 DEF SysInv

-----------------------------------------------------------------------------
(***************************************************************************)
(* The steps of a client.                                                  *)
(***************************************************************************)
\* An owner that stays one: everybody else is out of the way.
LEMMA OwnerMoves ==
    ASSUME SysInv, NEW c \in Clients, client[c] \in Live,
           NEW state \in Live, Goto(c, state), pipe'[Path] # "absent"
    PROVE  /\ client' \in [Clients -> {"idle", "ended", "killed"} \cup Live]
           /\ client'[c] = state
           /\ \A d \in Clients \ {c} : client'[d] = client[d] /\ client[d] \notin Live
           /\ PipeHasOneOwner'
<1>1. client' = [client EXCEPT ![c] = state]
  BY DEF Goto
<1>2. client \in [Clients -> {"idle", "ended", "killed"} \cup Live]
  BY DEF SysInv, SysTypeOK
<1>3. \A d \in Clients \ {c} : client[d] \notin Live
  BY DEF SysInv, PipeHasOneOwner, Owners
<1>4. Owners' = {c}
  BY <1>1, <1>2, <1>3 DEF Owners
<1>5. PipeHasOneOwner'
  BY <1>4 DEF PipeHasOneOwner
<1> QED
  BY <1>1, <1>2, <1>3, <1>5

\* What opening, closing and making the pipe leave alone.
LEMMA PipeStep ==
    ASSUME Inv, ClientPipe(Path)
    PROVE  /\ UNCHANGED <<worker, inbox, reply>>
           /\ UnderWay' = UnderWay
           /\ pipe[Path] = "absent" => pipe'[Path] = "closed"
           /\ pipe[Path] = "closed" => pipe'[Path] = "open"
           /\ pipe[Path] = "open"   => pipe'[Path] = "closed"
BY PathRegistered DEF ClientPipe, Inv, TypeOK, UnderWay

LEMMA CreateInv ==
    ASSUME Inv, SysInv, NEW c \in Clients, Create(c)
    PROVE  SysInv'
<1>1. /\ client' = [client EXCEPT ![c] = "registering"]
      /\ client[c] = "idle" /\ pipe[Path] = "absent"
      /\ UNCHANGED <<m_id, m_bridgeSecret, sent, mail, m_secret, author>>
  BY DEF Create, Goto
<1>2. /\ UNCHANGED <<worker, inbox, reply>> /\ UnderWay' = UnderWay
      /\ pipe'[Path] = "closed"
  BY <1>1, PipeStep DEF Create
<1>3. client \in [Clients -> {"idle", "ended", "killed"} \cup Live]
  BY DEF SysInv, SysTypeOK
<1>4. Owners = {} /\ mail = NONE
  BY <1>1 DEF SysInv, PipeHasOneOwner, Mailbox
<1>5. Owners' = {c}
  BY <1>1, <1>3, <1>4 DEF Owners, Live
<1>6. SysTypeOK'
  BY <1>1, <1>3 DEF SysInv, SysTypeOK, Live
<1>7. PipeHasOneOwner'
  BY <1>2, <1>5 DEF PipeHasOneOwner
<1>8. Phases'
  BY <1>1, <1>3 DEF SysInv, Phases
<1>9. Deliveries' /\ Mailbox'
  BY <1>1, <1>2, <1>4 DEF SysInv, Deliveries, Mailbox
<1>10. Attributed'
  BY <1>1, <1>2, <1>3, <1>4 DEF SysInv, Attributed, Belongs
<1> QED
  BY <1>6, <1>7, <1>8, <1>9, <1>10 DEF SysInv

\* The program that finds a pipe ends, and that is all.
LEMMA CreateFailsInv ==
    ASSUME SysInv, NEW c \in Clients, CreateFails(c)
    PROVE  SysInv'
<1>1. /\ client' = [client EXCEPT ![c] = "ended"] /\ client[c] = "idle"
      /\ UNCHANGED <<m_id, m_bridgeSecret, sent, mail, m_secret, author>>
      /\ UNCHANGED <<worker, inbox, reply, pipe>>
  BY DEF CreateFails, Goto, vars
<1>2. client \in [Clients -> {"idle", "ended", "killed"} \cup Live]
  BY DEF SysInv, SysTypeOK
<1>3. UnderWay' = UnderWay
  BY <1>1 DEF UnderWay
<1>4. \A d \in Clients : client'[d] \in Live \/ client[d] \in Live
                        \/ client'[d] = "killed" \/ client[d] = "killed"
                        => client'[d] = client[d]
  BY <1>1, <1>2 DEF Live, Waiting
<1>5. SysTypeOK'
  BY <1>1, <1>2 DEF SysInv, SysTypeOK
<1>6. PipeHasOneOwner'
  BY <1>1, <1>4 DEF SysInv, PipeHasOneOwner, Owners
<1>7. Phases'
  BY <1>1, <1>2 DEF SysInv, Phases
<1>8. Deliveries'
  BY <1>1 DEF SysInv, Deliveries
<1>9. Mailbox'
  BY <1>1, <1>3, <1>4 DEF SysInv, Mailbox, Live
<1>10. Attributed'
  BY <1>1, <1>2, <1>3 DEF SysInv, Attributed, Belongs
<1> QED
  BY <1>5, <1>6, <1>7, <1>8, <1>9, <1>10 DEF SysInv

\* Sending touches the message in front of the bridge and nothing else of it.
LEMMA SendStep ==
    ASSUME Inv, NEW message, Send(message)
    PROVE  /\ worker = "listening" /\ UNCHANGED <<worker, reply, pipe>>
           /\ reply = NONE
           /\ (inbox' = message /\ inbox = NONE) \/ inbox' = Garbage
BY DEF Send, Inv, Coupling, Replying

\* A client writes: if it is a request, no other one is under way.
LEMMA WriteMessageInv ==
    ASSUME Inv, SysInv, NEW c \in Clients, WriteMessage(c)
    PROVE  SysInv'
<1>1. client[c] \in {"registering", "requesting", "leaving"}
  BY DEF WriteMessage
<1>2. PICK state \in Waiting : Goto(c, state)
                              /\ (client[c] = "requesting" <=> state = "awaitAnswer")
                              /\ (client[c] = "registering" <=> state = "awaitId")
  BY DEF WriteMessage, Waiting
<1>3. UNCHANGED <<m_id, m_bridgeSecret, mail, m_secret>>
  BY DEF WriteMessage
<1>4. sent' = IF client[c] = "requesting" THEN [sent EXCEPT ![c] = @ + 1] ELSE sent
  BY <1>1 DEF WriteMessage
<1>5. /\ UNCHANGED <<worker, reply, pipe>> /\ worker = "listening" /\ reply = NONE
      /\ \/ inbox' = NONE \/ inbox'.kind # "api_call"
         \/ client[c] = "requesting" /\ author' = <<c, sent'[c]>>
         \/ UNCHANGED <<inbox, author>>
      /\ author' \in {<<c, sent'[c]>>, Nobody, author}
  <2>1. PICK message : /\ Post(c, message)
                       /\ message.kind = "api_call" => client[c] = "requesting"
    BY DEF WriteMessage, Registration, Request, Goodbye
  <2>2. CASE Send(message) /\ author' = IF inbox = NONE THEN <<c, sent'[c]>> ELSE Nobody
    <3>1. (inbox' = message /\ inbox = NONE) \/ inbox' = Garbage
      BY <2>2, SendStep
    <3> QED
      BY <2>1, <2>2, <3>1, SendStep DEF Garbage
  <2>3. CASE worker = "listening" /\ UNCHANGED <<vars, author>>
    BY <2>3 DEF vars, Inv, Coupling, Replying
  <2> QED
    BY <2>1, <2>2, <2>3 DEF Post
<1>6. /\ client[c] \in Live /\ state \in Live
      /\ client[c] \notin Waiting
  BY <1>1, <1>2 DEF Live, Waiting
<1>7. pipe[Path] # "absent" /\ c \in Owners
  BY <1>6 DEF SysInv, PipeHasOneOwner, Owners
<1>8. /\ client' \in [Clients -> {"idle", "ended", "killed"} \cup Live]
      /\ client'[c] = state
      /\ \A d \in Clients \ {c} : client'[d] = client[d] /\ client[d] \notin Live
      /\ PipeHasOneOwner'
  BY <1>2, <1>5, <1>6, <1>7, OwnerMoves
<1>9. pipe[Path] # "open" /\ mail = NONE
  BY <1>6, <1>8 DEF SysInv, Mailbox, Live
<1>10. /\ sent' \in [Clients -> 0 .. MaxRequests]
       /\ \A d \in Clients \ {c} : sent'[d] = sent[d]
       /\ state = "awaitId" => sent'[c] = 0
  BY <1>1, <1>2, <1>4, SystemAssumption DEF SysInv, SysTypeOK, Phases
<1>11. SysTypeOK'
  BY <1>3, <1>5, <1>8, <1>10 DEF SysInv, SysTypeOK
<1>12. Phases'
  <2>1. state \in {"awaitAnswer", "leaving"} => m_id[c] \in Ids
    BY <1>1, <1>2 DEF SysInv, Phases, Waiting
  <2> QED
    BY <1>2, <1>3, <1>8, <1>10, <2>1 DEF SysInv, Phases, Waiting
<1>13. Deliveries' /\ Mailbox'
  BY <1>3, <1>5, <1>9 DEF SysInv, Deliveries, Mailbox
<1>14. Attributed'
  <2>1. ASSUME UnderWay' PROVE Belongs(author)'
    <3>1. \A d \in Clients \ {c} : client'[d] \notin {"requesting", "awaitAnswer"}
      BY <1>8 DEF Live, Waiting
    <3>2. client'[c] # "requesting"
      BY <1>2, <1>8 DEF Waiting
    <3>3. client'[c] = "awaitAnswer" => author' = <<c, sent'[c]>>
      BY <1>2, <1>5, <1>8, <2>1 DEF UnderWay, SysInv, Attributed, Belongs
    <3> QED
      BY <3>1, <3>2, <3>3 DEF Belongs
  <2> QED
    BY <1>3, <1>9, <2>1 DEF Attributed
<1> QED
  BY <1>8, <1>11, <1>12, <1>13, <1>14 DEF SysInv

\* Giving up to write, and opening the pipe to read.
LEMMA WriteFailsInv ==
    ASSUME SysInv, NEW c \in Clients, WriteFails(c)
    PROVE  SysInv'
<1>1. PICK state \in {"leaving", "removing"} :
         Goto(c, state) /\ (state = "leaving" => client[c] = "requesting")
  BY DEF WriteFails, Unwound
<1>2. /\ client[c] \in {"registering", "requesting", "leaving"}
      /\ UNCHANGED <<m_id, m_bridgeSecret, sent, mail, m_secret, author>>
      /\ UNCHANGED <<worker, inbox, reply, pipe>>
  BY DEF WriteFails, vars
<1>3. client[c] \in Live /\ client[c] \notin Waiting /\ state \in Live
  BY <1>1, <1>2 DEF Live, Waiting
<1>4. pipe[Path] # "absent"
  BY <1>3 DEF SysInv, PipeHasOneOwner, Owners
<1>5. /\ client' \in [Clients -> {"idle", "ended", "killed"} \cup Live]
      /\ client'[c] = state
      /\ \A d \in Clients \ {c} : client'[d] = client[d] /\ client[d] \notin Live
      /\ PipeHasOneOwner'
  BY <1>1, <1>2, <1>3, <1>4, OwnerMoves
<1>6. pipe[Path] # "open" /\ mail = NONE
  BY <1>3, <1>5 DEF SysInv, Mailbox, Live
<1>7. SysTypeOK'
  BY <1>2, <1>5 DEF SysInv, SysTypeOK
<1>8. Phases'
  BY <1>1, <1>2, <1>5 DEF SysInv, Phases
<1>9. Deliveries' /\ Mailbox'
  BY <1>2, <1>6 DEF SysInv, Deliveries, Mailbox
<1>10. Attributed'
  <2>1. \A d \in Clients : client'[d] \notin {"requesting", "awaitAnswer"}
    BY <1>1, <1>5 DEF Live, Waiting
  <2> QED
    BY <2>1 DEF Attributed, Belongs
<1> QED
  BY <1>5, <1>7, <1>8, <1>9, <1>10 DEF SysInv

LEMMA OpenReaderInv ==
    ASSUME Inv, SysInv, NEW c \in Clients, OpenReader(c)
    PROVE  SysInv'
<1>1. /\ client[c] \in Waiting /\ pipe[Path] = "closed"
      /\ UNCHANGED <<client, m_id, m_bridgeSecret, sent, mail, m_secret, author>>
  BY DEF OpenReader, clientVars
<1>2. UNCHANGED worker /\ UnderWay' = UnderWay /\ pipe'[Path] = "open"
  BY <1>1, PipeStep DEF OpenReader
<1>3. mail = NONE
  BY <1>1 DEF SysInv, Mailbox
<1>4. Owners # {}
  BY <1>1 DEF Owners, Live
<1>5. SysTypeOK' /\ Phases'
  BY <1>1 DEF SysInv, SysTypeOK, Phases
<1>6. PipeHasOneOwner'
  BY <1>1, <1>2, <1>4 DEF SysInv, PipeHasOneOwner, Owners
<1>7. Deliveries' /\ Mailbox' /\ Attributed'
  BY <1>1, <1>2, <1>3 DEF SysInv, Deliveries, Mailbox, Attributed, Belongs
<1> QED
  BY <1>5, <1>6, <1>7 DEF SysInv

\* A client that has read, or read in vain, goes on with an empty pipe; it sends
\* another request only when none is under way.
LEMMA ReaderInv ==
    ASSUME Inv, SysInv, NEW c \in Clients, client[c] \in Waiting, CloseReader,
           NEW state \in {"requesting", "leaving", "removing"}, Goto(c, state),
           state = "requesting" => ~UnderWay /\ sent[c] < MaxRequests,
           state \in {"requesting", "leaving"} => m_id'[c] \in Ids,
           m_id' \in [Clients -> Ids \cup {NONE}],
           m_bridgeSecret' \in [Clients -> 0 .. MaxStarts],
           \A d \in Clients \ {c} : m_id'[d] = m_id[d],
           UNCHANGED sent
    PROVE  SysInv'
<1>1. /\ pipe'[Path] = "closed" /\ mail' = NONE
      /\ UNCHANGED <<m_secret, author, worker>> /\ UnderWay' = UnderWay
  BY PipeStep DEF CloseReader
<1>2. client[c] \in Live /\ state \in Live
  BY DEF Live
<1>3. /\ client' \in [Clients -> {"idle", "ended", "killed"} \cup Live]
      /\ client'[c] = state
      /\ \A d \in Clients \ {c} : client'[d] = client[d] /\ client[d] \notin Live
      /\ PipeHasOneOwner'
  BY <1>1, <1>2, OwnerMoves
<1>4. SysTypeOK'
  BY <1>1, <1>3 DEF SysInv, SysTypeOK
<1>5. Phases'
  BY <1>3 DEF SysInv, Phases
<1>6. Deliveries' /\ Mailbox'
  BY <1>1 DEF SysInv, Deliveries, Mailbox
<1>7. Attributed'
  <2>1. \A d \in Clients : client'[d] # "awaitAnswer"
                          /\ (client'[d] = "requesting" => d = c)
    BY <1>3 DEF Live, Waiting
  <2>2. UnderWay' => client'[c] # "requesting"
    BY <1>1, <1>3
  <2> QED
    BY <1>1, <2>1, <2>2 DEF Attributed, Belongs
<1> QED
  BY <1>3, <1>4, <1>5, <1>6, <1>7 DEF SysInv

LEMMA ReadInv ==
    ASSUME Inv, SysInv, NEW c \in Clients,
           ReadExpires(c) \/ ReadId(c) \/ ReadAnswer(c) \/ ReadBye(c)
    PROVE  SysInv'
<1>1. client[c] \in Waiting /\ CloseReader /\ UNCHANGED sent
  BY DEF ReadExpires, ReadId, ReadAnswer, ReadBye, Waiting
<1>2. /\ m_id \in [Clients -> Ids \cup {NONE}]
      /\ m_bridgeSecret \in [Clients -> 0 .. MaxStarts]
  BY DEF SysInv, SysTypeOK
<1>3. mail # NONE => ~UnderWay
  BY DEF SysInv, Mailbox
<1>4. CASE ReadExpires(c) \/ ReadBye(c)
  <2>1. PICK state \in {"leaving", "removing"} :
           Goto(c, state) /\ (state = "leaving" => client[c] = "awaitAnswer")
    BY <1>4 DEF ReadExpires, ReadBye, Unwound, Waiting
  <2>2. UNCHANGED <<m_id, m_bridgeSecret>>
    BY <1>4 DEF ReadExpires, ReadBye
  <2>3. state = "leaving" => m_id[c] \in Ids
    BY <2>1 DEF SysInv, Phases
  <2> QED
    BY <1>1, <1>2, <2>1, <2>2, <2>3, ReaderInv
<1>5. CASE ReadId(c)
  <2>1. CASE mail.type # "registration" /\ Goto(c, Unwound(client[c]))
             /\ UNCHANGED <<m_id, m_bridgeSecret>>
    <3>1. Goto(c, "removing")
      BY <1>5, <2>1 DEF ReadId, Unwound
    <3> QED
      BY <1>1, <1>2, <2>1, <3>1, ReaderInv
  <2>2. ASSUME NEW state \in {"requesting", "leaving"}, Goto(c, state),
               mail.type = "registration",
               m_id' = [m_id EXCEPT ![c] = mail.id],
               m_bridgeSecret' = [m_bridgeSecret EXCEPT ![c] = mail.secret]
        PROVE  SysInv'
    <3>1. mail # NONE /\ client[c] = "awaitId"
      BY <1>5 DEF ReadId
    <3>2. mail.id \in Ids
      BY <2>2, <3>1 DEF SysInv, Deliveries
    <3>3. mail.secret \in 0 .. MaxStarts
      BY <2>2, <3>1 DEF SysInv, SysTypeOK, Joined
    <3>4. sent[c] < MaxRequests
      BY <3>1, SystemAssumption DEF SysInv, Phases
    <3>5. /\ m_id' \in [Clients -> Ids \cup {NONE}] /\ m_id'[c] \in Ids
          /\ m_bridgeSecret' \in [Clients -> 0 .. MaxStarts]
          /\ \A d \in Clients \ {c} : m_id'[d] = m_id[d]
      BY <1>2, <2>2, <3>2, <3>3
    <3> QED
      BY <1>1, <1>3, <2>2, <3>1, <3>4, <3>5, ReaderInv
  <2> QED
    BY <1>5, <2>1, <2>2 DEF ReadId
<1>6. CASE ReadAnswer(c)
  <2>1. PICK state \in {"requesting", "leaving"} :
           Goto(c, state) /\ (state = "requesting" => sent[c] < MaxRequests)
    BY <1>6 DEF ReadAnswer
  <2>2. UNCHANGED <<m_id, m_bridgeSecret>> /\ mail # NONE
        /\ client[c] = "awaitAnswer"
    BY <1>6 DEF ReadAnswer
  <2>3. m_id[c] \in Ids
    BY <2>2 DEF SysInv, Phases
  <2> QED
    BY <1>1, <1>2, <1>3, <2>1, <2>2, <2>3, ReaderInv
<1> QED
  BY <1>4, <1>5, <1>6

\* A pipe that is removed has no reader, and nobody waits at it.
LEMMA PipeRemovedStep ==
    ASSUME Inv, SysInv, ClientPipeRemoved(Path)
    PROVE  /\ pipe'[Path] = "absent" /\ mail = NONE
           /\ UNCHANGED <<inbox, reply>> /\ UnderWay' = UnderWay
           /\ worker' = worker \/ (worker = "writing" /\ worker' = "orphaned")
<1>1. pipe[Path] = "closed" /\ pipe' = [pipe EXCEPT ![Path] = "absent"]
      /\ UNCHANGED <<inbox, reply>>
  BY DEF ClientPipeRemoved
<1>2. worker' = worker \/ (worker = "writing" /\ worker' = "orphaned")
  <2>1. worker' = IF worker = "writing" /\ reply.path = Path THEN "orphaned" ELSE worker
    BY Zenon DEF ClientPipeRemoved
  <2> QED
    BY <2>1
<1>3. pipe'[Path] = "absent"
  BY <1>1, PathRegistered DEF Inv, TypeOK
<1> QED
  BY <1>1, <1>2, <1>3 DEF UnderWay, SysInv, Mailbox

\* An owner that goes, by itself or not, leaves no one at the path.
LEMMA OwnerGoes ==
    ASSUME SysInv, NEW c \in Clients, client[c] \in Live,
           NEW state \in {"ended", "killed"}, Goto(c, state), MemoryGone(c)
    PROVE  /\ client' \in [Clients -> {"idle", "ended", "killed"} \cup Live]
           /\ m_id' \in [Clients -> Ids \cup {NONE}]
           /\ m_bridgeSecret' \in [Clients -> 0 .. MaxStarts]
           /\ sent' \in [Clients -> 0 .. MaxRequests]
           /\ client'[c] = state
           /\ \A d \in Clients : client'[d] \notin Live
           /\ Phases'
<1>1. /\ client' = [client EXCEPT ![c] = state]
      /\ m_id' = [m_id EXCEPT ![c] = NONE]
      /\ m_bridgeSecret' = [m_bridgeSecret EXCEPT ![c] = 0]
      /\ sent' = [sent EXCEPT ![c] = 0]
  BY DEF Goto, MemoryGone
<1>2. /\ client \in [Clients -> {"idle", "ended", "killed"} \cup Live]
      /\ m_id \in [Clients -> Ids \cup {NONE}]
      /\ m_bridgeSecret \in [Clients -> 0 .. MaxStarts]
      /\ sent \in [Clients -> 0 .. MaxRequests]
  BY DEF SysInv, SysTypeOK
<1>3. \A d \in Clients \ {c} : client[d] \notin Live
  BY DEF SysInv, PipeHasOneOwner, Owners
<1>4. \A d \in Clients : client'[d] \notin Live
  BY <1>1, <1>2, <1>3 DEF Live, Waiting
<1>5. Phases'
  BY <1>1, <1>2 DEF SysInv, Phases
<1> QED
  BY <1>1, <1>2, <1>4, <1>5, SystemAssumption

LEMMA RemoveInv ==
    ASSUME Inv, SysInv, NEW c \in Clients, Remove(c)
    PROVE  SysInv'
<1>1. /\ client[c] = "removing" /\ Goto(c, "ended") /\ MemoryGone(c)
      /\ ClientPipeRemoved(Path) /\ UNCHANGED <<mail, m_secret, author>>
  BY DEF Remove
<1>2. client[c] \in Live
  BY <1>1 DEF Live
<1>3. SysTypeOK' /\ Phases'
  BY <1>1, <1>2, OwnerGoes DEF SysInv, SysTypeOK
<1>4. \A d \in Clients : client'[d] \notin Live
  BY <1>1, <1>2, OwnerGoes
<1>5. PipeHasOneOwner'
  BY <1>1, <1>4, PipeRemovedStep DEF PipeHasOneOwner, Owners
<1>6. Deliveries' /\ Mailbox'
  BY <1>1, PipeRemovedStep DEF SysInv, Deliveries, Mailbox
<1>7. Attributed'
  BY <1>4 DEF Attributed, Belongs, Live, Waiting
<1> QED
  BY <1>3, <1>5, <1>6, <1>7 DEF SysInv

LEMMA KillInv ==
    ASSUME Inv, SysInv, NEW c \in Clients, Kill(c)
    PROVE  SysInv'
<1>1. client[c] \in Live /\ Goto(c, "killed") /\ MemoryGone(c)
  BY DEF Kill
<1>2. pipe[Path] # "absent"
  BY <1>1 DEF SysInv, PipeHasOneOwner, Owners
<1>3. /\ UNCHANGED <<worker, m_secret, author>>
      /\ pipe'[Path] \notin {"absent", "open"} /\ mail' = NONE
  <2>1. CASE pipe[Path] = "open"
    BY <2>1, PipeStep DEF Kill, CloseReader
  <2>2. CASE pipe[Path] # "open"
    BY <1>2, <2>2 DEF Kill, vars, SysInv, Mailbox
  <2> QED
    BY <2>1, <2>2
<1>4. SysTypeOK' /\ Phases'
  BY <1>1, <1>3, OwnerGoes DEF SysInv, SysTypeOK
<1>5. \A d \in Clients : client'[d] \notin Live
  BY <1>1, OwnerGoes
<1>6. PipeHasOneOwner'
  BY <1>1, <1>5, OwnerGoes DEF PipeHasOneOwner, Owners
<1>7. Deliveries' /\ Mailbox'
  BY <1>3 DEF SysInv, Deliveries, Mailbox
<1>8. Attributed'
  BY <1>5 DEF Attributed, Belongs, Live, Waiting
<1> QED
  BY <1>4, <1>6, <1>7, <1>8 DEF SysInv

LEMMA RemoveLeftoverInv ==
    ASSUME Inv, SysInv, RemoveLeftover
    PROVE  SysInv'
<1>1. /\ Owners = {} /\ ClientPipeRemoved(Path)
      /\ UNCHANGED <<client, m_id, m_bridgeSecret, sent, mail, m_secret, author>>
  BY DEF RemoveLeftover, clientVars
<1>2. SysTypeOK' /\ Phases'
  BY <1>1 DEF SysInv, SysTypeOK, Phases
<1>3. PipeHasOneOwner'
  BY <1>1, PipeRemovedStep DEF PipeHasOneOwner, Owners
<1>4. Deliveries' /\ Mailbox'
  BY <1>1, PipeRemovedStep DEF SysInv, Deliveries, Mailbox
<1>5. Attributed'
  BY <1>1, PipeRemovedStep DEF SysInv, Attributed, Belongs
<1> QED
  BY <1>2, <1>3, <1>4, <1>5 DEF SysInv

\* What other programs write is no request.
LEMMA OthersWriteInv ==
    ASSUME Inv, SysInv, OthersWrite
    PROVE  SysInv'
<1>1. PICK message : Send(message) /\ message.kind # "api_call"
  BY DEF OthersWrite
<1>2. /\ UNCHANGED <<client, m_id, m_bridgeSecret, sent, mail, m_secret>>
      /\ UNCHANGED <<worker, pipe>> /\ author' = Nobody
  BY <1>1, SendStep DEF OthersWrite, clientVars
<1>3. ~UnderWay'
  BY <1>1, SendStep DEF UnderWay, Garbage
<1>4. SysTypeOK' /\ PipeHasOneOwner' /\ Phases'
  BY <1>2 DEF SysInv, SysTypeOK, PipeHasOneOwner, Owners, Phases
<1>5. Deliveries' /\ Mailbox' /\ Attributed'
  BY <1>2, <1>3 DEF SysInv, Deliveries, Mailbox, Attributed, Belongs
<1> QED
  BY <1>4, <1>5 DEF SysInv

LEMMA SysStutterInv == SysInv /\ UNCHANGED sysVars => SysInv'
<1> SUFFICES ASSUME SysInv, UNCHANGED sysVars PROVE SysInv'
  OBVIOUS
<1>1. UNCHANGED <<worker, pipe, inbox, reply, client, m_id, m_bridgeSecret, sent,
                  mail, m_secret, author>>
  BY DEF sysVars, vars, clientVars
<1>2. SysTypeOK' /\ PipeHasOneOwner' /\ Phases'
  BY <1>1 DEF SysInv, SysTypeOK, PipeHasOneOwner, Owners, Phases
<1>3. Deliveries' /\ Mailbox' /\ Attributed'
  BY <1>1 DEF SysInv, Deliveries, Mailbox, Attributed, Belongs, UnderWay
<1> QED
  BY <1>2, <1>3 DEF SysInv

LEMMA SysNextInv == Inv /\ SysInv /\ [SysNext]_sysVars => SysInv'
<1> SUFFICES ASSUME Inv, SysInv, [SysNext]_sysVars PROVE SysInv'
  OBVIOUS
<1>1. CASE StartBridge \/ MakeSecret \/ OtherBridgeStep
  BY <1>1, BridgeStepInv
<1>2. CASE Deliver
  BY <1>2, DeliverInv
<1>3. ASSUME NEW c \in Clients, ClientStep(c) PROVE SysInv'
  BY <1>3, CreateInv, CreateFailsInv, WriteMessageInv, WriteFailsInv,
     OpenReaderInv, ReadInv, RemoveInv
     DEF ClientStep
<1>4. ASSUME NEW c \in Clients, Kill(c) PROVE SysInv'
  BY <1>4, KillInv
<1>5. CASE RemoveLeftover \/ OthersWrite
  BY <1>5, RemoveLeftoverInv, OthersWriteInv
<1>6. CASE UNCHANGED sysVars
  BY <1>6, SysStutterInv
<1> QED
  BY <1>1, <1>2, <1>3, <1>4, <1>5, <1>6 DEF SysNext

-----------------------------------------------------------------------------
(***************************************************************************)
(* Sessions is an inductive invariant, beside Inv and SysInv.              *)
(***************************************************************************)
LEMMA RegistrantOfClient ==
    ASSUME NEW c \in Clients
    PROVE  /\ Registrant(c) \in Registrants /\ Registrant(c) # NONE
           /\ \A d \in Clients : Registrant(c) = Registrant(d) => c = d
BY SystemAssumption, NoneAssumption DEF Registrant

LEMMA SessionsInit == SysInit => Sessions
<1> SUFFICES ASSUME SysInit, NEW c \in Clients PROVE SessionOf(c)
  BY DEF Sessions
<1>1. client[c] = "idle" /\ inbox = NONE /\ \A id \in Ids : m_clients[id] = NONE
  BY DEF SysInit, Init
<1> QED
  BY <1>1, RegistrantOfClient DEF SessionOf, Announced, Engaged, Waiting

\* Nothing is added: sessions and messages go, and calls and errors are answered.
LEMMA NothingAnnounced ==
    ASSUME Sessions, UNCHANGED <<client, m_id, mail>>,
           \A id \in Ids : m_clients'[id] \in {m_clients[id], NONE},
           \/ inbox' \in {inbox, NONE}
           \/ inbox'.kind \notin {"registration", "disconnect"},
           reply' \in {reply, NONE} \/ reply'.type \in {"api_call", "error"}
    PROVE  Sessions'
<1> SUFFICES ASSUME NEW c \in Clients PROVE SessionOf(c)'
  BY DEF Sessions
<1>1. SessionOf(c)
  BY DEF Sessions
<1>2. Announced(c)' => Announced(c)
  BY DEF Announced, Registration
<1>3. \A id \in Ids : m_clients'[id] = Registrant(c) => m_clients[id] = Registrant(c)
  BY RegistrantOfClient
<1>4. \A id : Settled(c, id) => Settled(c, id)'
  BY DEF Settled
<1> QED
  BY <1>1, <1>2, <1>3, <1>4 DEF SessionOf

\* The steps inside the bridge, as far as the sessions are concerned.
LEMMA BridgeEffects ==
    ASSUME Inv, start \/ CreatePipe \/ Internal
    PROVE  \/ /\ \A id \in Ids : m_clients'[id] \in {m_clients[id], NONE}
              /\ inbox' \in {inbox, NONE}
              /\ reply' \in {reply, NONE} \/ reply'.type \in {"api_call", "error"}
           \/ /\ Receives("registration") /\ inbox.who # Missing
              /\ handleRegistration(inbox.who)
           \/ /\ Receives("disconnect") /\ Authorized(inbox)
              /\ handleDisconnect(inbox.id)
<1> USE DEF sessionVars
<1>1. CASE start \/ stop \/ joined
  BY <1>1 DEF start, stop, joined
<1>2. CASE CreatePipe \/ PollInterrupted \/ PollAgain \/ PollTimeout \/ PollFailed
  BY <1>2 DEF CreatePipe, PollInterrupted, PollAgain, PollTimeout, PollFailed,
              EndWorker, Listen
<1>3. CASE ReceiveGarbage \/ ReceiveMalformed
  BY <1>3 DEF ReceiveGarbage, ReceiveMalformed, Reject, Consumed, Answer, EndWorker, Listen
<1>4. CASE ReceiveRegistration
  BY <1>4 DEF ReceiveRegistration, Reject, Consumed, Answer, Listen
<1>5. CASE ReceiveAPICall
  BY <1>5 DEF ReceiveAPICall, Reject, Consumed, Answer, EndWorker, Listen
<1>6. CASE ReceiveDisconnect
  BY <1>6 DEF ReceiveDisconnect, Reject, Consumed, Answer, Listen
<1>7. CASE OpenClientPipe \/ OpenFails \/ OpenTimeout
  BY <1>7 DEF OpenClientPipe, OpenFails, OpenTimeout, Listen
<1>8. CASE Wake \/ SleepInterrupted \/ WriteBroken
  BY <1>8 DEF Wake, SleepInterrupted, WriteBroken, EndWorker
<1>9. CASE Crash
  BY <1>9 DEF Crash
<1>10. CASE RemoveStalePipe
  BY <1>10 DEF RemoveStalePipe
<1> QED
  BY <1>1, <1>2, <1>3, <1>4, <1>5, <1>6, <1>7, <1>8, <1>9, <1>10 DEF Internal

\* A registration is handled: its client, if it still waits, has one session and
\* will be told of it.
LEMMA RegistrationSessions ==
    ASSUME Inv, Sessions, UNCHANGED <<client, m_id, mail>>,
           Receives("registration"), inbox.who # Missing,
           handleRegistration(inbox.who)
    PROVE  Sessions'
<1>2. m_clients \in [Ids -> Registrants \cup {NONE}] /\ s_nextClientID \in Ids
  BY DEF Inv, TypeOK
<1>0. PICK n \in Ids : n = s_nextClientID
  BY <1>2
<1>1. /\ inbox # NONE /\ inbox.kind = "registration" /\ reply = NONE
      /\ inbox' = NONE /\ m_clients' = [m_clients EXCEPT ![n] = inbox.who]
      /\ reply'.type = "registration" /\ reply'.id = n
  BY <1>0 DEF Receives, handleRegistration, Consumed, Answer, Inv, Coupling, Replying
<1>3. inbox \in [kind : {"registration"}, who : Registrants \cup {Missing}]
  BY <1>1 DEF Inv, TypeOK, Messages
<1> SUFFICES ASSUME NEW c \in Clients PROVE SessionOf(c)'
  BY DEF Sessions
<1>4. SessionOf(c)
  BY DEF Sessions
<1>5. ~Announced(c)'
  BY <1>1 DEF Announced
<1>6. CASE inbox.who = Registrant(c)
  <2>1. Announced(c)
    BY <1>1, <1>3, <1>6 DEF Announced, Registration
  <2>2. /\ client[c] = "awaitId" /\ mail = NONE
        \/ client[c] \in {"removing", "ended", "killed"}
    BY <1>4, <2>1 DEF SessionOf
  <2>3. \A id \in Ids : m_clients'[id] = Registrant(c) => id = n
    BY <1>1, <1>2, <1>4, <2>1 DEF SessionOf
  <2>4. client[c] = "awaitId" => Settled(c, n)'
    BY <1>1, <2>2 DEF Settled
  <2> QED
    BY <1>5, <2>2, <2>3, <2>4 DEF SessionOf, Engaged, Waiting
<1>7. CASE inbox.who # Registrant(c)
  <2>1. \A id \in Ids : m_clients'[id] = Registrant(c) => m_clients[id] = Registrant(c)
    BY <1>1, <1>2, <1>7
  <2>2. \A id : Settled(c, id) => Settled(c, id)'
    BY <1>1 DEF Settled
  <2> QED
    BY <1>4, <1>5, <2>1, <2>2 DEF SessionOf
<1> QED
  BY <1>6, <1>7

\* A disconnect is handled: it is that of the client that still runs, if this
\* has a session, and takes the session away.
LEMMA DisconnectSessions ==
    ASSUME Inv, Sessions, UNCHANGED <<client, m_id, mail>>,
           Receives("disconnect"), Authorized(inbox), handleDisconnect(inbox.id)
    PROVE  Sessions'
<1>1. /\ inbox # NONE /\ inbox.kind = "disconnect" /\ inbox.id \in Ids
      /\ inbox' = NONE /\ m_clients' = [m_clients EXCEPT ![inbox.id] = NONE]
  BY DEF Receives, Authorized, handleDisconnect, Consumed, Forget
<1>2. m_clients \in [Ids -> Registrants \cup {NONE}]
  BY DEF Inv, TypeOK
<1> SUFFICES ASSUME NEW c \in Clients PROVE SessionOf(c)'
  BY DEF Sessions
<1>3. SessionOf(c)
  BY DEF Sessions
<1>4. ~Announced(c)'
  BY <1>1 DEF Announced
<1>5. \A id \in Ids : m_clients'[id] = Registrant(c)
                        => m_clients[id] = Registrant(c) /\ id # inbox.id
  BY <1>1, <1>2, RegistrantOfClient
<1>6. client[c] \in Engaged => \A id \in Ids : m_clients'[id] # Registrant(c)
  BY <1>1, <1>3, <1>5 DEF SessionOf, Settled
<1> QED
  BY <1>3, <1>4, <1>5, <1>6 DEF SessionOf

LEMMA BridgeSessions ==
    ASSUME Inv, Sessions, StartBridge \/ MakeSecret \/ OtherBridgeStep
    PROVE  Sessions'
<1>1. UNCHANGED <<client, m_id, mail>>
  BY DEF StartBridge, MakeSecret, OtherBridgeStep, clientVars
<1>2. start \/ CreatePipe \/ Internal
  BY DEF StartBridge, MakeSecret, OtherBridgeStep
<1> QED
  BY <1>1, <1>2, BridgeEffects, NothingAnnounced, RegistrationSessions, DisconnectSessions

\* The answer goes into the pipe as it was.
LEMMA DeliverSessions ==
    ASSUME Inv, Sessions, Deliver
    PROVE  Sessions'
<1>1. /\ UNCHANGED <<client, m_id, m_clients>>
      /\ inbox = NONE /\ inbox' = NONE /\ reply # NONE /\ reply' = NONE
  BY DEF Deliver, WriteReply, Listen, clientVars, sessionVars, Inv, Coupling, Replying
<1>2. \/ mail' = mail \/ mail' = Joined
      \/ mail'.type = reply.type /\ mail'.id = reply.id
  BY DEF Deliver, Delivery
<1> SUFFICES ASSUME NEW c \in Clients PROVE SessionOf(c)'
  BY DEF Sessions
<1>3. SessionOf(c)
  BY DEF Sessions
<1>4. \A id : Settled(c, id) => Settled(c, id)'
  BY <1>1, <1>2 DEF Settled, Joined
<1> QED
  BY <1>1, <1>3, <1>4 DEF SessionOf, Announced

-----------------------------------------------------------------------------
\* What a client does leaves the table and the answers of the bridge alone, and
\* the clients that do not run where they are.
LEMMA Bystanders ==
    ASSUME Sessions, UNCHANGED m_clients, NEW c \in Clients,
           \A d \in Clients \ {c} : client'[d] = client[d] /\ client[d] \notin Live,
           \/ inbox' \in {inbox, NONE, Registration(c)}
           \/ inbox'.kind # "registration",
           SessionOf(c)'
    PROVE  Sessions'
<1> SUFFICES ASSUME NEW d \in Clients \ {c} PROVE SessionOf(d)'
  BY DEF Sessions
<1>1. SessionOf(d) /\ client'[d] = client[d] /\ client[d] \notin Engaged
  BY DEF Sessions, Live, Engaged
<1>2. client'[d] = "awaitId" => FALSE
  BY <1>1 DEF Engaged, Waiting
<1>3. Announced(d)' => Announced(d)
  BY RegistrantOfClient DEF Announced, Registration
<1> QED
  BY <1>1, <1>2, <1>3 DEF SessionOf

\* A client that gives up or goes.
LEMMA SessionGivenUp ==
    ASSUME Sessions, NEW c \in Clients, UNCHANGED <<m_clients, inbox>>,
           client'[c] \in {"removing", "ended", "killed"}
    PROVE  SessionOf(c)'
<1>1. Announced(c)' <=> Announced(c)
  BY DEF Announced
<1> QED
  BY <1>1 DEF Sessions, SessionOf, Engaged, Waiting

\* A client that knows its id and goes on.
LEMMA SessionGoesOn ==
    ASSUME Sessions, NEW c \in Clients, UNCHANGED <<m_clients, reply>>,
           client[c] \in Engaged \ {"awaitId"}, client'[c] \in Engaged \ {"awaitId"},
           m_id'[c] = m_id[c], mail' \in {mail, NONE},
           \/ inbox' = inbox
           \/ inbox'.kind \notin {"registration", "disconnect"}
           \/ inbox'.kind = "disconnect" /\ inbox'.id = m_id[c]
    PROVE  SessionOf(c)'
<1>1. SessionOf(c)
  BY DEF Sessions
<1>2. ~Announced(c)'
  BY <1>1 DEF SessionOf, Announced, Registration, Engaged, Waiting
<1>3. \A id : Settled(c, id) => Settled(c, id)'
  BY DEF Settled
<1> QED
  BY <1>1, <1>2, <1>3 DEF SessionOf, Engaged, Waiting

LEMMA WriteMessageSessions ==
    ASSUME Inv, SysInv, Sessions, NEW c \in Clients, WriteMessage(c)
    PROVE  SessionOf(c)' /\ (\/ inbox' \in {inbox, NONE, Registration(c)}
                             \/ inbox'.kind # "registration")
<1>1. /\ UNCHANGED <<m_id, mail, m_clients, reply>> /\ reply = NONE
      /\ worker = "listening"
  <2>1. worker = "listening" /\ UNCHANGED <<m_clients, reply>>
    BY DEF WriteMessage, Post, Send, vars, sessionVars
  <2> QED
    BY <2>1 DEF WriteMessage, Inv, Coupling, Replying
<1>2. mail = NONE
  <2>1. client[c] \in Live /\ client[c] \notin Waiting
    BY DEF WriteMessage, Live, Waiting
  <2>2. \A d \in Clients \ {c} : client[d] \notin Live
    BY <2>1 DEF SysInv, PipeHasOneOwner, Owners
  <2> QED
    BY <2>1, <2>2 DEF SysInv, Mailbox, Live
<1>3. client \in [Clients -> {"idle", "ended", "killed"} \cup Live]
  BY DEF SysInv, SysTypeOK
<1>4. SessionOf(c)
  BY DEF Sessions
<1>5. CASE client[c] = "registering"
  <2>1. client'[c] = "awaitId" /\ Post(c, Registration(c))
    BY <1>3, <1>5 DEF WriteMessage, Goto
  <2>2. \/ inbox' = Registration(c) \/ inbox' = Garbage \/ inbox' = inbox
    BY <2>1 DEF Post, Send, vars
  <2>3. \A id \in Ids : m_clients'[id] # Registrant(c)
    BY <1>1, <1>4, <1>5 DEF SessionOf
  <2> QED
    BY <1>1, <1>2, <2>1, <2>2, <2>3 DEF SessionOf, Garbage
<1>6. CASE client[c] = "requesting"
  <2>1. client'[c] = "awaitAnswer"
        /\ \E body \in {"valid", "invalid", "type_error"} : Post(c, Request(c, body))
    BY <1>3, <1>6 DEF WriteMessage, Goto
  <2>2. inbox' = inbox \/ inbox'.kind \notin {"registration", "disconnect"}
    BY <2>1 DEF Post, Send, vars, Request, Garbage
  <2> QED
    BY <1>1, <1>2, <1>6, <2>1, <2>2, SessionGoesOn DEF Engaged, Waiting
<1>7. CASE client[c] = "leaving"
  <2>1. client'[c] = "awaitBye" /\ Post(c, Goodbye(c))
    BY <1>3, <1>7 DEF WriteMessage, Goto
  <2>2. \/ inbox' = inbox \/ inbox'.kind = "garbage"
        \/ inbox'.kind = "disconnect" /\ inbox'.id = m_id[c]
    BY <2>1 DEF Post, Send, vars, Goodbye, Garbage
  <2> QED
    BY <1>1, <1>2, <1>7, <2>1, <2>2, SessionGoesOn DEF Engaged, Waiting
<1> QED
  BY <1>5, <1>6, <1>7 DEF WriteMessage

\* A client takes an id from its pipe: it is that of its session, if it has one.
LEMMA ReadIdSessions ==
    ASSUME Inv, SysInv, Sessions, NEW c \in Clients, ReadId(c)
    PROVE  SessionOf(c)'
<1>1. /\ client[c] = "awaitId" /\ mail # NONE /\ mail' = NONE
      /\ UNCHANGED <<m_clients, inbox, reply>>
  BY DEF ReadId, CloseReader, ClientPipe, sessionVars
<1>2. /\ client \in [Clients -> {"idle", "ended", "killed"} \cup Live]
      /\ m_id \in [Clients -> Ids \cup {NONE}]
  BY DEF SysInv, SysTypeOK
<1>3. SessionOf(c)
  BY DEF Sessions
<1>4. CASE mail.type # "registration"
  <2>1. client'[c] = "removing"
    BY <1>1, <1>2, <1>4 DEF ReadId, Goto, Unwound
  <2> QED
    BY <1>1, <2>1, SessionGivenUp
<1>5. CASE mail.type = "registration"
  <2>1. client'[c] \in {"requesting", "leaving"} /\ m_id'[c] = mail.id
    BY <1>1, <1>2, <1>5 DEF ReadId, Goto
  <2>2. ~Announced(c)'
    BY <1>1, <1>3 DEF SessionOf, Announced
  <2>3. \A id \in Ids : m_clients[id] = Registrant(c) => Settled(c, id)
    BY <1>1, <1>3 DEF SessionOf, Engaged, Waiting
  <2>4. \A id : Settled(c, id) => Settled(c, id)'
    BY <1>1, <1>5, <2>1 DEF Settled
  <2> QED
    BY <1>1, <2>1, <2>2, <2>3, <2>4 DEF SessionOf
<1> QED
  BY <1>4, <1>5

LEMMA ClientSessions ==
    ASSUME Inv, SysInv, Sessions, NEW c \in Clients, ClientStep(c) \/ Kill(c)
    PROVE  Sessions'
<1>1. client \in [Clients -> {"idle", "ended", "killed"} \cup Live]
  BY DEF SysInv, SysTypeOK
<1>2. SessionOf(c)
  BY DEF Sessions
<1>3. CASE OpenReader(c)
  <2>1. UNCHANGED <<client, m_id, mail, m_clients, inbox, reply>>
    BY <1>3 DEF OpenReader, ClientPipe, clientVars, sessionVars
  <2> QED
    BY <2>1, NothingAnnounced
<1>4. CASE CreateFails(c)
  <2>1. /\ UNCHANGED <<m_id, mail, m_clients, inbox, reply>>
        /\ client[c] = "idle" /\ client'[c] = "ended"
        /\ \A d \in Clients \ {c} : client'[d] = client[d]
    BY <1>1, <1>4 DEF CreateFails, Goto, vars
  <2>2. SessionOf(c)'
    BY <2>1, SessionGivenUp
  <2>3. ASSUME NEW d \in Clients \ {c} PROVE SessionOf(d)'
    BY <2>1 DEF Sessions, SessionOf, Announced, Registration, Settled
  <2> QED
    BY <2>2, <2>3 DEF Sessions
<1>5. CASE Create(c)
  <2>1. /\ UNCHANGED <<m_id, mail, m_clients, inbox, reply>>
        /\ client[c] = "idle" /\ client'[c] = "registering"
        /\ \A d \in Clients \ {c} : client'[d] = client[d]
    BY <1>1, <1>5 DEF Create, ClientPipe, Goto, sessionVars
  <2>2. SessionOf(c)'
    BY <1>2, <2>1 DEF SessionOf, Announced, Engaged, Waiting
  <2>3. Owners = {}
    BY <1>5 DEF Create, SysInv, PipeHasOneOwner
  <2> QED
    BY <2>1, <2>2, <2>3, Bystanders DEF Owners
<1>6. ASSUME client[c] \in Live, NEW state, Goto(c, state)
      PROVE  /\ client'[c] = state
             /\ \A d \in Clients \ {c} : client'[d] = client[d] /\ client[d] \notin Live
  BY <1>1, <1>6 DEF Goto, SysInv, PipeHasOneOwner, Owners
<1>7. CASE WriteMessage(c)
  <2>1. /\ UNCHANGED m_clients /\ client[c] \in Live
        /\ \E state : Goto(c, state)
    BY <1>7 DEF WriteMessage, Post, Send, vars, sessionVars, Live
  <2> QED
    BY <1>6, <1>7, <2>1, WriteMessageSessions, Bystanders
<1>8. CASE ReadId(c)
  <2>1. /\ UNCHANGED <<m_clients, inbox>> /\ client[c] \in Live
        /\ \E state : Goto(c, state)
    BY <1>8 DEF ReadId, CloseReader, ClientPipe, sessionVars, Live, Waiting
  <2> QED
    BY <1>6, <1>8, <2>1, ReadIdSessions, Bystanders
<1>9. CASE WriteFails(c) \/ ReadExpires(c) \/ ReadAnswer(c) \/ ReadBye(c)
  <2>1. /\ UNCHANGED <<m_clients, inbox, reply, m_id>> /\ client[c] \in Live
        /\ mail' \in {mail, NONE}
    BY <1>9 DEF WriteFails, ReadExpires, ReadAnswer, ReadBye, CloseReader, ClientPipe,
                vars, sessionVars, Live, Waiting
  <2>2. PICK state : /\ Goto(c, state)
                     /\ \/ state = "removing"
                        \/ /\ state \in {"requesting", "leaving"}
                           /\ client[c] \in {"requesting", "awaitAnswer"}
    BY <1>9 DEF WriteFails, ReadExpires, ReadAnswer, ReadBye, Unwound
  <2>3. SessionOf(c)'
    BY <1>6, <2>1, <2>2, SessionGivenUp, SessionGoesOn DEF Engaged, Waiting
  <2> QED
    BY <1>6, <2>1, <2>2, <2>3, Bystanders
<1>10. CASE Remove(c) \/ Kill(c)
  <2>1. UNCHANGED <<m_clients, inbox>> /\ client[c] \in Live
    BY <1>10 DEF Remove, Kill, CloseReader, ClientPipe, ClientPipeRemoved, vars,
                 sessionVars, Live
  <2>2. PICK state \in {"ended", "killed"} : Goto(c, state)
    BY <1>10 DEF Remove, Kill
  <2>3. SessionOf(c)'
    BY <1>6, <2>1, <2>2, SessionGivenUp
  <2> QED
    BY <1>6, <2>1, <2>2, <2>3, Bystanders
<1> QED
  BY <1>3, <1>4, <1>5, <1>7, <1>8, <1>9, <1>10 DEF ClientStep

LEMMA SessionsNext == Inv /\ SysInv /\ Sessions /\ [SysNext]_sysVars => Sessions'
<1> SUFFICES ASSUME Inv, SysInv, Sessions, [SysNext]_sysVars PROVE Sessions'
  OBVIOUS
<1>1. CASE RemoveLeftover
  <2>1. UNCHANGED <<client, m_id, mail, m_clients, inbox, reply>>
    BY <1>1 DEF RemoveLeftover, ClientPipeRemoved, clientVars, sessionVars
  <2> QED
    BY <2>1, NothingAnnounced
<1>2. CASE OthersWrite
  <2>1. PICK message : Send(message) /\ message.kind \in {"garbage", "malformed"}
    BY <1>2 DEF OthersWrite
  <2>2. UNCHANGED <<client, m_id, mail, m_clients, reply>>
    BY <1>2, <2>1 DEF OthersWrite, Send, clientVars, sessionVars
  <2>3. inbox'.kind \notin {"registration", "disconnect"}
    BY <2>1 DEF Send, Garbage
  <2> QED
    BY <2>2, <2>3, NothingAnnounced
<1>3. CASE UNCHANGED sysVars
  <2>1. UNCHANGED <<client, m_id, mail, m_clients, inbox, reply>>
    BY <1>3 DEF sysVars, vars, clientVars
  <2> QED
    BY <2>1, NothingAnnounced
<1> QED
  BY <1>1, <1>2, <1>3, BridgeSessions, DeliverSessions, ClientSessions DEF SysNext

-----------------------------------------------------------------------------
(***************************************************************************)
(* The theorems.                                                           *)
(***************************************************************************)
\* The invariants hold together: SysInv needs what Inv says of the bridge, that
\* the steps are steps of Bridge needs SysInv, and Sessions needs both.
THEOREM SysInvariance == SysSpec => [](Inv /\ SysInv /\ Sessions)
<1>1. SysInit => Inv /\ SysInv /\ Sessions
  BY InitInv, SysInitInv, SessionsInit DEF SysInit
<1>2. Inv /\ SysInv /\ Sessions /\ [SysNext]_sysVars => Inv' /\ SysInv' /\ Sessions'
  BY StepOfBridge, NextInv, SysNextInv, SessionsNext
<1> QED
  BY <1>1, <1>2, PTL DEF SysSpec

\* The clients of cli/ keep to what Bridge assumes of its environment: whatever
\* is proved of Bridge holds with them.
THEOREM SystemImplementsBridge == SysSpec => BridgeSpec
<1>1. SysInit => Init
  BY DEF SysInit
<1>2. SysInv /\ [SysNext]_sysVars => [Next]_vars
  BY StepOfBridge
<1> QED
  BY <1>1, <1>2, SysInvariance, PTL DEF SysSpec, BridgeSpec, Spec

\* Every variable of the clients stays in its set, and the calls of one run in
\* their bound.
THEOREM SysTypeCorrect == SysSpec => []SysTypeOK
<1>1. SysInv => SysTypeOK
  BY DEF SysInv
<1> QED
  BY <1>1, SysInvariance, PTL

\* At most one program owns the path of the command-line client, and a pipe
\* without an owner is what a killed program left.
THEOREM OneOwner == SysSpec => []PipeHasOneOwner
<1>1. SysInv => PipeHasOneOwner
  BY DEF SysInv
<1> QED
  BY <1>1, SysInvariance, PTL

\* A client takes no answer to a request but its own latest for one.
THEOREM AnswersAreOwn == SysSpec => []AnswerIsOwn
<1>1. SysInv => AnswerIsOwn
  BY DEF SysInv, Attributed, Belongs, AnswerIsOwn, Positive
<1> QED
  BY <1>1, SysInvariance, PTL

\* What a client reads as the answer to its disconnect, even one that was
\* written for another program, is true of its own session: it is gone.
THEOREM DisconnectIsTrue == SysSpec => []ByeMeansGone
<1>1. Sessions => ByeMeansGone
  BY DEF Sessions, SessionOf, Settled, ByeMeansGone, Engaged, Waiting
<1> QED
  BY <1>1, SysInvariance, PTL
=============================================================================
