---------------------------- MODULE BridgeProofs ----------------------------
(***************************************************************************)
(* Proofs about module Bridge.  TypeOK and the safety invariants are not   *)
(* inductive by themselves; Inv adds what ties the message, the reply and  *)
(* the place of the worker together.                                       *)
(***************************************************************************)
EXTENDS Bridge, TLAPS

\* A message waits only in front of a listening worker, a reply exists exactly
\* while one is being written, and a registration is sent within the bound.
Coupling ==
    /\ inbox # NONE => worker = "listening"
    /\ inbox # NONE /\ inbox.kind = "registration" => registered < MaxRegistrations
    /\ Replying <=> reply # NONE

Inv == TypeOK /\ Coupling /\ FreshIds /\ ReplyMatchesTable /\ PipeOwned

-----------------------------------------------------------------------------
(***************************************************************************)
(* What the shared parts of the actions do, stated once.                   *)
(***************************************************************************)
\* The id after the counter has been advanced, as long as it has not wrapped.
LEMMA CounterAdvances ==
    ASSUME NEW n \in Nat, n < IdModulus
    PROVE  NextClientID(n % IdModulus) = (n + 1) % IdModulus
BY ConstantsAssumption DEF NextClientID

\* Ending the worker keeps what concerns the FIFO, the message and the reply.
LEMMA EndWorkerInv ==
    ASSUME Inv, EndWorker, UNCHANGED <<threadVars, sessionVars, pipe>>
    PROVE  Inv'
<1>1. TypeOK'
  <2>1. fifo' \in BOOLEAN /\ m_pipe' \in BOOLEAN
    BY Zenon DEF EndWorker, DestroyPipe
  <2>2. interrupted' \in BOOLEAN
    BY Zenon DEF Inv, TypeOK, threadVars
  <2>3. timeout' \in 0 .. (ReadTimeout + WriteTimeout)
    BY ConstantsAssumption DEF EndWorker
  <2> QED
    BY <2>1, <2>2, <2>3, Zenon
       DEF Inv, TypeOK, EndWorker, threadVars, sessionVars
<1>2. Coupling' /\ ReplyMatchesTable'
  BY DEF EndWorker, Coupling, Replying, ReplyMatchesTable
<1>3. FreshIds'
  BY DEF Inv, FreshIds, sessionVars
<1>4. PipeOwned'
  BY DEF EndWorker, DestroyPipe, PipeOwned, Serving, Replying
<1> QED
  BY <1>1, <1>2, <1>3, <1>4 DEF Inv

\* Going back to the head of the loop keeps Inv.
LEMMA ListenInv ==
    ASSUME Inv, Serving, Listen, inbox' = NONE,
           UNCHANGED <<threadVars, sessionVars, fifoVars, pipe>>
    PROVE  Inv'
<1>1. TypeOK'
  BY ConstantsAssumption
     DEF Inv, TypeOK, Listen, threadVars, sessionVars, fifoVars
<1>2. Coupling' /\ ReplyMatchesTable'
  BY DEF Listen, Coupling, Replying, ReplyMatchesTable
<1>3. FreshIds'
  BY DEF Inv, FreshIds, sessionVars
<1>4. PipeOwned'
  BY DEF Inv, Listen, PipeOwned, Serving, Replying, fifoVars
<1> QED
  BY <1>1, <1>2, <1>3, <1>4 DEF Inv

\* Answering a session of the table, which does not change, keeps Inv.
LEMMA AnswerInv ==
    ASSUME Inv, worker = "listening", inbox' = NONE,
           NEW type \in {"api_call", "error"},
           NEW id \in Ids, m_clients[id] # NONE,
           Answer(type, id, m_clients[id].path),
           UNCHANGED <<threadVars, sessionVars, fifoVars, pipe>>
    PROVE  Inv'
<1>1. m_clients[id] \in Registrants
  BY DEF Inv, TypeOK
<1>2. m_clients[id].path \in Paths
  BY <1>1 DEF Paths
<1>3. reply' \in Replies /\ reply' # NONE
  BY <1>2, NoneAssumption DEF Answer, Replies
<1>4. TypeOK'
  BY <1>3, ConstantsAssumption
     DEF Inv, TypeOK, Answer, threadVars, sessionVars, fifoVars
<1>5. Coupling'
  BY <1>3 DEF Answer, Coupling, Replying
<1>6. FreshIds'
  BY DEF Inv, FreshIds, sessionVars
<1>7. ReplyMatchesTable'
  BY DEF Answer, ReplyMatchesTable, sessionVars
<1>8. PipeOwned'
  BY DEF Inv, Answer, PipeOwned, Serving, Replying, fifoVars
<1> QED
  BY <1>4, <1>5, <1>6, <1>7, <1>8 DEF Inv

\* Refusing a message keeps Inv, whoever it names.
LEMMA RejectInv ==
    ASSUME Inv, worker = "listening", NEW id \in Ids, Reject(id),
           UNCHANGED <<threadVars, sessionVars, pipe>>
    PROVE  Inv'
<1>1. CASE id # INVALID_CLIENT_ID /\ m_clients[id] # NONE
  <2>1. Answer("error", id, m_clients[id].path) /\ inbox' = NONE
        /\ UNCHANGED fifoVars
    BY <1>1 DEF Reject, Consumed
  <2> QED
    BY <1>1, <2>1, AnswerInv
<1>2. CASE ~(id # INVALID_CLIENT_ID /\ m_clients[id] # NONE)
  BY <1>2, ListenInv DEF Reject, Consumed, Serving
<1> QED
  BY <1>1, <1>2

-----------------------------------------------------------------------------
(***************************************************************************)
(* Inv is an inductive invariant.                                          *)
(***************************************************************************)
LEMMA InitInv == Init => Inv
<1> SUFFICES ASSUME Init PROVE Inv
  OBVIOUS
<1>1. TypeOK
  <2>1. 0 \in Ids /\ 0 \in 0 .. MaxRegistrations
        /\ 0 \in 0 .. (ReadTimeout + WriteTimeout)
    BY ConstantsAssumption DEF Ids
  <2>2. m_clients \in [Ids -> Registrants \cup {NONE}]
        /\ pipe \in [Paths -> {"absent", "closed", "open"}]
    BY DEF Init
  <2> QED
    BY <2>1, <2>2, Zenon DEF Init, TypeOK
<1>2. Coupling /\ FreshIds /\ ReplyMatchesTable /\ PipeOwned
  BY ConstantsAssumption
     DEF Init, Coupling, FreshIds, ReplyMatchesTable, PipeOwned, Serving, Replying
<1> QED
  BY <1>1, <1>2 DEF Inv

\* The owner touches neither the table nor the FIFO nor the reply.
LEMMA OwnerInv ==
    ASSUME Inv, Owner \/ joined
    PROVE  Inv'
<1> USE DEF threadVars, sessionVars, fifoVars
<1>1. CASE start
  <2>1. TypeOK'
    BY <1>1, Zenon DEF Inv, TypeOK, start
  <2> QED
    BY <1>1, <2>1 DEF Inv, start, Coupling, FreshIds, ReplyMatchesTable,
                      PipeOwned, Serving, Replying
<1>2. CASE stop
  <2>1. TypeOK'
    BY <1>2, Zenon DEF Inv, TypeOK, stop
  <2> QED
    BY <1>2, <2>1 DEF Inv, stop, Coupling, FreshIds, ReplyMatchesTable,
                      PipeOwned, Serving, Replying
<1>3. CASE joined
  <2>1. TypeOK'
    BY <1>3, Zenon DEF Inv, TypeOK, joined
  <2> QED
    BY <1>3, <2>1 DEF Inv, joined, Coupling, FreshIds, ReplyMatchesTable,
                      PipeOwned, Serving, Replying
<1> QED
  BY <1>1, <1>2, <1>3 DEF Owner

\* Creating the FIFO and waiting for a message.
LEMMA PollInv ==
    ASSUME Inv, CreatePipe \/ PollInterrupted \/ PollAgain \/ PollTimeout
    PROVE  Inv'
<1>1. CASE CreatePipe /\ ~fifo
  <2>1. /\ fifo' = TRUE /\ m_pipe' = TRUE /\ Listen /\ inbox' = inbox
        /\ UNCHANGED <<threadVars, sessionVars, pipe>>
    BY <1>1 DEF CreatePipe
  <2>2. timeout' \in 0 .. (ReadTimeout + WriteTimeout)
    BY <2>1, ConstantsAssumption DEF Listen
  <2>3. TypeOK'
    BY <2>1, <2>2, Zenon DEF Inv, TypeOK, Listen, threadVars, sessionVars
  <2>4. Coupling'
    BY <2>1 DEF Inv, Coupling, Listen, Replying, sessionVars
  <2>5. FreshIds' /\ ReplyMatchesTable' /\ PipeOwned'
    BY <2>1 DEF Inv, FreshIds, ReplyMatchesTable, PipeOwned, Serving, Listen,
                Replying, sessionVars
  <2> QED
    BY <2>3, <2>4, <2>5 DEF Inv
<1>2. CASE CreatePipe /\ fifo
  BY <1>2, EndWorkerInv DEF CreatePipe
<1>3. CASE PollInterrupted
  BY <1>3, EndWorkerInv DEF PollInterrupted
<1>4. CASE PollAgain
  <2> USE DEF threadVars, sessionVars, fifoVars
  <2>1. timeout' \in 0 .. (ReadTimeout + WriteTimeout)
    BY <1>4, ConstantsAssumption DEF PollAgain, Inv, TypeOK
  <2>2. TypeOK'
    BY <1>4, <2>1, Zenon DEF Inv, TypeOK, PollAgain
  <2> QED
    BY <1>4, <2>2 DEF Inv, PollAgain, Coupling, FreshIds, ReplyMatchesTable,
                      PipeOwned, Serving, Replying
<1>5. CASE PollTimeout
  BY <1>5, EndWorkerInv DEF PollTimeout
<1> QED
  BY <1>1, <1>2, <1>3, <1>4, <1>5

\* Registering: the one step that assigns an id.
LEMMA RegistrationInv ==
    ASSUME Inv, worker = "listening", inbox # NONE, inbox.kind = "registration",
           NEW who \in Registrants, handleRegistration(who),
           UNCHANGED <<threadVars, pipe>>
    PROVE  Inv'
<1>1. who.path \in Paths
  BY DEF Paths
<1>2. reply' \in Replies /\ reply' # NONE
  BY <1>1, NoneAssumption DEF handleRegistration, Answer, Replies, Inv, TypeOK
<1>3. NextClientID(s_nextClientID) \in Ids
  BY ConstantsAssumption DEF NextClientID, Ids, Inv, TypeOK
<1>4. registered < MaxRegistrations
  BY DEF Inv, Coupling
<1>5. TypeOK'
  <2>1. registered' \in 0 .. MaxRegistrations
    BY <1>4, ConstantsAssumption DEF Inv, TypeOK, handleRegistration
  <2>2. timeout' \in 0 .. (ReadTimeout + WriteTimeout)
    BY ConstantsAssumption DEF handleRegistration, Answer
  <2>3. m_clients' \in [Ids -> Registrants \cup {NONE}]
    BY DEF Inv, TypeOK, handleRegistration
  <2> QED
    BY <1>2, <1>3, <2>1, <2>2, <2>3, Zenon
       DEF Inv, TypeOK, handleRegistration, Answer, Consumed, threadVars, fifoVars
<1>6. Coupling'
  BY <1>2 DEF handleRegistration, Answer, Consumed, Coupling, Replying
<1>7. FreshIds'
  <2> SUFFICES ASSUME registered + 1 <= IdModulus
               PROVE  FreshIds'
    BY DEF FreshIds, handleRegistration
  <2>1. /\ registered \in Nat /\ registered < IdModulus
        /\ s_nextClientID = registered % IdModulus
        /\ \A id \in Ids : m_clients[id] # NONE => id < registered
    BY ConstantsAssumption DEF Inv, TypeOK, FreshIds
  <2>2. s_nextClientID = registered
    BY <2>1, ConstantsAssumption
  <2>3. s_nextClientID' = (registered + 1) % IdModulus
    BY <2>1, CounterAdvances DEF handleRegistration
  <2>4. ASSUME NEW id \in Ids, m_clients'[id] # NONE
        PROVE  id < registered + 1
    <3>1. CASE id = s_nextClientID
      BY <3>1, <2>1, <2>2
    <3>2. CASE id # s_nextClientID
      <4>1. m_clients'[id] = m_clients[id]
        BY <3>2 DEF Inv, TypeOK, handleRegistration
      <4> QED
        BY <4>1, <2>1, <2>4, ConstantsAssumption DEF Ids
    <3> QED
      BY <3>1, <3>2
  <2> QED
    BY <2>3, <2>4 DEF FreshIds, handleRegistration
<1>8. ReplyMatchesTable'
  BY NoneAssumption
     DEF Inv, TypeOK, handleRegistration, Answer, ReplyMatchesTable
<1>9. PipeOwned'
  BY DEF Inv, handleRegistration, Answer, Consumed, PipeOwned, Serving, Replying,
         fifoVars
<1> QED
  BY <1>5, <1>6, <1>7, <1>8, <1>9 DEF Inv

\* Disconnecting: the one step that takes a client out of the table.
LEMMA DisconnectInv ==
    ASSUME Inv, worker = "listening",
           NEW id \in Ids, m_clients[id] # NONE, handleDisconnect(id),
           UNCHANGED <<threadVars, pipe>>
    PROVE  Inv'
<1>1. m_clients[id].path \in Paths
  BY DEF Inv, TypeOK, Paths
<1>2. reply' \in Replies /\ reply' # NONE
  BY <1>1, NoneAssumption DEF handleDisconnect, Answer, Replies
<1>3. TypeOK'
  <2>1. timeout' \in 0 .. (ReadTimeout + WriteTimeout)
    BY ConstantsAssumption DEF handleDisconnect, Answer
  <2>2. m_clients' \in [Ids -> Registrants \cup {NONE}]
    BY DEF Inv, TypeOK, handleDisconnect, Forget
  <2> QED
    BY <1>2, <2>1, <2>2, Zenon
       DEF Inv, TypeOK, handleDisconnect, Answer, Consumed, threadVars, fifoVars
<1>4. Coupling'
  BY <1>2 DEF handleDisconnect, Answer, Consumed, Coupling, Replying
<1>5. FreshIds'
  BY DEF Inv, TypeOK, FreshIds, handleDisconnect, Forget
<1>6. ReplyMatchesTable'
  BY DEF Inv, TypeOK, handleDisconnect, Forget, Answer, ReplyMatchesTable
<1>7. PipeOwned'
  BY DEF Inv, handleDisconnect, Answer, Consumed, PipeOwned, Serving, Replying,
         fifoVars
<1> QED
  BY <1>3, <1>4, <1>5, <1>6, <1>7 DEF Inv

\* Every message, whatever it is.
LEMMA ReceiveInv ==
    ASSUME Inv,
           ReceiveGarbage \/ ReceiveMalformed \/ ReceiveRegistration
             \/ ReceiveAPICall \/ ReceiveDisconnect
    PROVE  Inv'
<1>1. worker = "listening" /\ inbox # NONE
  BY DEF ReceiveGarbage, ReceiveMalformed, ReceiveRegistration, ReceiveAPICall,
         ReceiveDisconnect, Receives
<1>2. NamedId(inbox) \in Ids /\ INVALID_CLIENT_ID \in Ids
  BY ConstantsAssumption DEF NamedId, INVALID_CLIENT_ID, Ids
<1>3. Serving
  BY <1>1 DEF Serving
<1>4. CASE ReceiveGarbage
  BY <1>4, <1>3, ListenInv DEF ReceiveGarbage, Consumed
<1>5. CASE ReceiveMalformed
  <2>1. CASE inbox.id = Mistyped
    BY <1>5, <2>1, EndWorkerInv DEF ReceiveMalformed
  <2>2. CASE inbox.id # Mistyped
    BY <1>5, <2>2, <1>1, <1>2, RejectInv DEF ReceiveMalformed
  <2> QED
    BY <2>1, <2>2
<1>6. CASE ReceiveRegistration
  <2>1. CASE inbox.who # Missing /\ pipe[inbox.who.path] # "absent"
    <3>1. inbox.kind = "registration" /\ inbox.who \in Registrants
      BY <1>1, <1>6, <2>1
         DEF ReceiveRegistration, Receives, Inv, TypeOK, Messages
    <3>2. handleRegistration(inbox.who) /\ UNCHANGED <<threadVars, pipe>>
      BY <1>6, <2>1 DEF ReceiveRegistration
    <3> QED
      BY <1>1, <3>1, <3>2, RegistrationInv
  <2>2. CASE inbox.who # Missing /\ pipe[inbox.who.path] = "absent"
    BY <1>6, <2>2, <1>3, ListenInv DEF ReceiveRegistration, Consumed
  <2>3. CASE inbox.who = Missing
    BY <1>6, <2>3, <1>1, <1>2, RejectInv DEF ReceiveRegistration
  <2> QED
    BY <2>1, <2>2, <2>3
<1>7. CASE ReceiveAPICall
  <2>1. CASE Authorized(inbox) /\ inbox.body = "valid"
    <3>1. inbox.id \in Ids /\ m_clients[inbox.id] # NONE
      BY <2>1 DEF Authorized
    <3>2. /\ Consumed /\ Answer("api_call", inbox.id, m_clients[inbox.id].path)
          /\ UNCHANGED <<threadVars, sessionVars, pipe>>
      BY <1>7, <2>1 DEF ReceiveAPICall
    <3> QED
      BY <1>1, <3>1, <3>2, AnswerInv DEF Consumed
  <2>2. CASE Authorized(inbox) /\ inbox.body = "type_error"
    BY <1>7, <2>2, EndWorkerInv DEF ReceiveAPICall
  <2>3. CASE ~Authorized(inbox) \/ inbox.body = "invalid"
    BY <1>7, <2>3, <1>1, <1>2, RejectInv DEF ReceiveAPICall
  <2> QED
    BY <1>7, <2>1, <2>2, <2>3 DEF ReceiveAPICall
<1>8. CASE ReceiveDisconnect
  <2>1. CASE Authorized(inbox)
    BY <1>8, <2>1, <1>1, DisconnectInv DEF ReceiveDisconnect, Authorized
  <2>2. CASE ~Authorized(inbox)
    BY <1>8, <2>2, <1>1, <1>2, RejectInv DEF ReceiveDisconnect
  <2> QED
    BY <2>1, <2>2
<1> QED
  BY <1>4, <1>5, <1>6, <1>7, <1>8

\* Writing a reply, or failing to.
LEMMA WriteInv ==
    ASSUME Inv,
           OpenClientPipe \/ OpenFails \/ OpenTimeout \/ Wake
             \/ SleepInterrupted \/ WriteReply \/ WriteBroken
    PROVE  Inv'
<1>1. inbox = NONE /\ Serving /\ worker # "listening"
  BY DEF OpenClientPipe, OpenFails, OpenTimeout, Wake, SleepInterrupted,
         WriteReply, WriteBroken, Inv, Coupling, Serving, Replying
<1>2. ASSUME worker' \in {"writing", "sleeping", "opening"},
             worker \in {"writing", "sleeping", "opening"},
             timeout' \in 0 .. (ReadTimeout + WriteTimeout),
             UNCHANGED <<threadVars, sessionVars, fifoVars, inbox, reply, pipe>>
      PROVE  Inv'
  <2> USE DEF threadVars, sessionVars, fifoVars
  <2>1. TypeOK'
    BY <1>2, Zenon DEF Inv, TypeOK
  <2> QED
    BY <1>2, <2>1 DEF Inv, Coupling, FreshIds, ReplyMatchesTable, PipeOwned,
                      Serving, Replying
<1>3. timeout \in 0 .. (ReadTimeout + WriteTimeout)
  BY DEF Inv, TypeOK
<1>4. CASE OpenClientPipe
  BY <1>2, <1>3, <1>4 DEF OpenClientPipe
<1>5. CASE OpenFails
  <2>1. timeout' \in 0 .. (ReadTimeout + WriteTimeout)
    BY <1>3, <1>5, ConstantsAssumption DEF OpenFails
  <2> QED
    BY <1>2, <1>5, <2>1 DEF OpenFails
<1>6. CASE OpenTimeout
  BY <1>1, <1>6, ListenInv DEF OpenTimeout
<1>7. CASE Wake
  BY <1>2, <1>3, <1>7 DEF Wake
<1>8. CASE SleepInterrupted
  BY <1>8, EndWorkerInv DEF SleepInterrupted
<1>9. CASE WriteReply
  BY <1>1, <1>9, ListenInv DEF WriteReply
<1>10. CASE WriteBroken
  BY <1>10, EndWorkerInv DEF WriteBroken
<1> QED
  BY <1>4, <1>5, <1>6, <1>7, <1>8, <1>9, <1>10

\* Clients, crashes and the user.
LEMMA EnvironmentInv ==
    ASSUME Inv, Environment
    PROVE  Inv'
<1> USE DEF sessionVars, fifoVars
<1>1. ASSUME NEW msg \in Messages, Send(msg)
      PROVE  Inv'
  <2>1. inbox' \in Messages /\ inbox' # NONE
    BY <1>1, NoneAssumption DEF Send, Garbage, Messages
  <2>2. TypeOK'
    BY <1>1, <2>1, Zenon DEF Inv, TypeOK, Send
  <2>3. Coupling'
    BY <1>1 DEF Inv, Coupling, Send, Garbage, Replying
  <2> QED
    BY <1>1, <2>2, <2>3 DEF Inv, Send, FreshIds, ReplyMatchesTable, PipeOwned,
                            Serving, Replying
<1>2. ASSUME NEW p \in Paths, ClientPipe(p)
      PROVE  Inv'
  <2>1. pipe' \in [Paths -> {"absent", "closed", "open"}]
    BY <1>2 DEF Inv, TypeOK, ClientPipe
  <2>2. TypeOK'
    BY <1>2, <2>1, Zenon DEF Inv, TypeOK, ClientPipe
  <2> QED
    BY <1>2, <2>2 DEF Inv, ClientPipe, Coupling, FreshIds, ReplyMatchesTable,
                      PipeOwned, Serving, Replying
<1>3. ASSUME NEW p \in Paths, ClientPipeRemoved(p)
      PROVE  Inv'
  <2>1. pipe' \in [Paths -> {"absent", "closed", "open"}]
    BY <1>3 DEF Inv, TypeOK, ClientPipeRemoved
  <2>2. TypeOK'
    BY <1>3, <2>1, Zenon DEF Inv, TypeOK, ClientPipeRemoved
  <2> QED
    BY <1>3, <2>2 DEF Inv, ClientPipeRemoved, Coupling, FreshIds,
                      ReplyMatchesTable, PipeOwned, Serving, Replying
<1>4. CASE Crash
  <2>1. 0 \in Ids /\ 0 \in 0 .. MaxRegistrations
        /\ 0 \in 0 .. (ReadTimeout + WriteTimeout) /\ 0 % IdModulus = 0
    BY ConstantsAssumption DEF Ids
  <2>2. m_clients' \in [Ids -> Registrants \cup {NONE}]
    BY <1>4 DEF Crash
  <2>3. TypeOK'
    BY <1>4, <2>1, <2>2, Zenon DEF Inv, TypeOK, Crash
  <2> QED
    BY <1>4, <2>1, <2>3 DEF Inv, Crash, Coupling, FreshIds, ReplyMatchesTable,
                            PipeOwned, Serving, Replying
<1>5. CASE RemoveStalePipe
  <2>1. TypeOK'
    BY <1>5, Zenon DEF Inv, TypeOK, RemoveStalePipe
  <2> QED
    BY <1>5, <2>1 DEF Inv, RemoveStalePipe, Coupling, FreshIds,
                      ReplyMatchesTable, PipeOwned, Serving, Replying
<1>6. CASE PollFailed
  BY <1>6, ListenInv DEF PollFailed, Serving
<1> QED
  BY <1>1, <1>2, <1>3, <1>4, <1>5, <1>6 DEF Environment

\* Nothing changes.
LEMMA StutterInv == Inv /\ UNCHANGED vars => Inv'
<1> SUFFICES ASSUME Inv, UNCHANGED vars PROVE Inv'
  OBVIOUS
<1>1. TypeOK'
  BY Zenon DEF Inv, TypeOK, vars, threadVars, sessionVars, fifoVars
<1> QED
  BY <1>1 DEF Inv, vars, Coupling, FreshIds, ReplyMatchesTable, PipeOwned,
              Serving, Replying

LEMMA NextInv == Inv /\ [Next]_vars => Inv'
<1> SUFFICES ASSUME Inv, [Next]_vars PROVE Inv'
  OBVIOUS
<1>1. CASE Owner \/ joined
  BY <1>1, OwnerInv
<1>2. CASE Worker
  BY <1>2, PollInv, ReceiveInv, WriteInv DEF Worker
<1>3. CASE Environment
  BY <1>3, EnvironmentInv
<1>4. CASE UNCHANGED vars
  BY <1>4, StutterInv
<1> QED
  BY <1>1, <1>2, <1>3, <1>4 DEF Next

\* Inv holds at every moment of every behaviour of the bridge: the worker, the
\* message it was sent and the reply it gives never come apart.
THEOREM Invariance == Spec => []Inv
BY InitInv, NextInv, PTL DEF Spec

\* TypeOK: every variable stays in its set.
THEOREM TypeCorrect == Spec => []TypeOK
BY Invariance, PTL DEF Inv

\* FreshIds: the next id of s_nextClientID is above every id in m_clients, until
\* the counter has gone all the way round.
THEOREM IdsFresh == Spec => []FreshIds
BY Invariance, PTL DEF Inv

\* ReplyMatchesTable: the reply the worker is trying to write agrees with
\* m_clients all the time it waits for the client's pipe.
THEOREM RepliesMatchTable == Spec => []ReplyMatchesTable
BY Invariance, PTL DEF Inv

\* PipeOwned: m_pipe holds the FIFO exactly while the worker serves it.
THEOREM PipeIsOwned == Spec => []PipeOwned
BY Invariance, PTL DEF Inv

-----------------------------------------------------------------------------
(***************************************************************************)
(* What one step can do to the table of clients and to the reply.          *)
(***************************************************************************)
\* Nothing; the end of a reply; a reply about a session of the table.
Stays   == UNCHANGED <<sessionVars, reply>>
Settles == UNCHANGED sessionVars /\ reply' = NONE
AnswersFor(id, type) ==
    /\ reply = NONE
    /\ m_clients[id] # NONE
    /\ reply' = [type |-> type, id |-> id, path |-> m_clients[id].path]
    /\ type = "api_call" => Authorized(inbox) /\ inbox.id = id
    /\ UNCHANGED sessionVars

\* A new session; the end of one.
Registers(who) == reply = NONE /\ handleRegistration(who)
Leaves(id) ==
    /\ reply = NONE
    /\ Authorized(inbox) /\ inbox.id = id
    /\ handleDisconnect(id)

TableStep ==
    \/ Stays \/ Settles \/ Crash
    \/ \E id \in Ids :
          Leaves(id) \/ \E type \in {"api_call", "error"} : AnswersFor(id, type)
    \/ \E who \in Registrants : Registers(who)

LEMMA RejectStep ==
    ASSUME NEW id \in Ids, reply = NONE, Reject(id), UNCHANGED sessionVars
    PROVE  TableStep
<1>1. CASE id # INVALID_CLIENT_ID /\ m_clients[id] # NONE
  <2>1. Answer("error", id, m_clients[id].path)
    BY <1>1 DEF Reject
  <2>2. AnswersFor(id, "error")
    BY <1>1, <2>1 DEF Answer, AnswersFor
  <2> QED
    BY <2>2 DEF TableStep
<1>2. CASE ~(id # INVALID_CLIENT_ID /\ m_clients[id] # NONE)
  BY <1>2 DEF Reject, Listen, TableStep, Settles
<1> QED
  BY <1>1, <1>2

LEMMA ReceiveStep ==
    ASSUME Inv,
           ReceiveGarbage \/ ReceiveMalformed \/ ReceiveRegistration
             \/ ReceiveAPICall \/ ReceiveDisconnect
    PROVE  TableStep
<1>1. reply = NONE /\ inbox # NONE
  BY DEF ReceiveGarbage, ReceiveMalformed, ReceiveRegistration, ReceiveAPICall,
         ReceiveDisconnect, Receives, Inv, Coupling, Replying
<1>2. NamedId(inbox) \in Ids /\ INVALID_CLIENT_ID \in Ids
  BY ConstantsAssumption DEF NamedId, INVALID_CLIENT_ID, Ids
<1>3. CASE ReceiveGarbage
  BY <1>3 DEF ReceiveGarbage, Listen, TableStep, Settles
<1>4. CASE ReceiveMalformed
  <2>1. CASE EndWorker
    BY <1>4, <2>1 DEF ReceiveMalformed, EndWorker, TableStep, Settles
  <2>2. CASE Reject(NamedId(inbox))
    BY <1>1, <1>2, <1>4, <2>2, RejectStep DEF ReceiveMalformed
  <2> QED
    BY <1>4, <2>1, <2>2 DEF ReceiveMalformed
<1>5. CASE ReceiveRegistration
  <2>1. CASE inbox.who # Missing /\ handleRegistration(inbox.who)
    <3>1. inbox.who \in Registrants
      BY <1>1, <1>5, <2>1
         DEF ReceiveRegistration, Receives, Inv, TypeOK, Messages
    <3> QED
      BY <1>1, <2>1, <3>1 DEF TableStep, Registers
  <2>2. CASE Listen /\ UNCHANGED sessionVars
    BY <2>2 DEF Listen, TableStep, Settles
  <2>3. CASE Reject(INVALID_CLIENT_ID) /\ UNCHANGED sessionVars
    BY <1>1, <1>2, <2>3, RejectStep
  <2> QED
    BY <1>5, <2>1, <2>2, <2>3 DEF ReceiveRegistration
<1>6. CASE ReceiveAPICall
  <2>1. CASE /\ Authorized(inbox)
             /\ Answer("api_call", inbox.id, m_clients[inbox.id].path)
    <3>1. inbox.id \in Ids /\ AnswersFor(inbox.id, "api_call")
      BY <1>1, <1>6, <2>1 DEF ReceiveAPICall, Authorized, Answer, AnswersFor
    <3> QED
      BY <3>1 DEF TableStep
  <2>2. CASE EndWorker
    BY <1>6, <2>2 DEF ReceiveAPICall, EndWorker, TableStep, Settles
  <2>3. CASE Reject(NamedId(inbox))
    BY <1>1, <1>2, <1>6, <2>3, RejectStep DEF ReceiveAPICall
  <2> QED
    BY <1>6, <2>1, <2>2, <2>3 DEF ReceiveAPICall
<1>7. CASE ReceiveDisconnect
  <2>1. CASE Authorized(inbox) /\ handleDisconnect(inbox.id)
    BY <1>1, <2>1 DEF Authorized, TableStep, Leaves
  <2>2. CASE Reject(NamedId(inbox)) /\ UNCHANGED sessionVars
    BY <1>1, <1>2, <2>2, RejectStep
  <2> QED
    BY <1>7, <2>1, <2>2 DEF ReceiveDisconnect
<1> QED
  BY <1>3, <1>4, <1>5, <1>6, <1>7

LEMMA NextStep ==
    ASSUME Inv, [Next]_vars
    PROVE  TableStep
<1>1. CASE Owner \/ joined
  BY <1>1 DEF Owner, start, stop, joined, TableStep, Stays
<1>2. CASE CreatePipe \/ PollInterrupted \/ PollAgain \/ PollTimeout
  BY <1>2 DEF CreatePipe, PollInterrupted, PollAgain, PollTimeout, EndWorker,
              Listen, TableStep, Stays, Settles
<1>3. CASE ReceiveGarbage \/ ReceiveMalformed \/ ReceiveRegistration
             \/ ReceiveAPICall \/ ReceiveDisconnect
  BY <1>3, ReceiveStep
<1>4. CASE OpenClientPipe \/ OpenFails \/ OpenTimeout \/ Wake
             \/ SleepInterrupted \/ WriteReply \/ WriteBroken
  BY <1>4 DEF OpenClientPipe, OpenFails, OpenTimeout, Wake, SleepInterrupted,
              WriteReply, WriteBroken, EndWorker, Listen, TableStep, Stays, Settles
<1>5. CASE Environment
  BY <1>5 DEF Environment, Send, ClientPipe, ClientPipeRemoved, PollFailed,
              Listen, RemoveStalePipe, TableStep, Stays, Settles
<1>6. CASE UNCHANGED vars
  BY <1>6 DEF vars, TableStep, Stays, sessionVars
<1> QED
  BY <1>1, <1>2, <1>3, <1>4, <1>5, <1>6 DEF Next, Worker

-----------------------------------------------------------------------------
(***************************************************************************)
(* What no step may do.                                                    *)
(***************************************************************************)
\* An id that was assigned keeps its registration or loses it, and is assigned
\* to nobody else: handleRegistration takes the next id, above all others.
LEMMA RebindStep ==
    ASSUME Inv, Inv', TableStep, MaxRegistrations <= IdModulus,
           NEW id \in Ids, id < registered
    PROVE  m_clients'[id] \in {m_clients[id], NONE}
<1>1. CASE Stays \/ Settles
  BY <1>1 DEF Stays, Settles, sessionVars
<1>2. CASE Crash
  BY <1>2 DEF Crash
<1>3. CASE \E k \in Ids : Leaves(k)
  BY <1>3 DEF Leaves, handleDisconnect, Forget, Inv, TypeOK
<1>4. CASE \E k \in Ids, type \in {"api_call", "error"} : AnswersFor(k, type)
  BY <1>4 DEF AnswersFor, sessionVars
<1>5. ASSUME NEW who \in Registrants, Registers(who)
      PROVE  m_clients'[id] \in {m_clients[id], NONE}
  <2>1. registered' = registered + 1 /\ registered' <= MaxRegistrations
    BY <1>5, ConstantsAssumption DEF Registers, handleRegistration, Inv, TypeOK
  <2>2. registered \in Nat /\ registered < IdModulus
    BY <2>1, ConstantsAssumption DEF Inv, TypeOK
  <2>3. s_nextClientID = registered % IdModulus
    BY <2>2, ConstantsAssumption DEF Inv, FreshIds
  <2>4. s_nextClientID = registered
    BY <2>2, <2>3, ConstantsAssumption
  <2>5. m_clients'[id] = m_clients[id]
    BY <1>5, <2>2, <2>4 DEF Registers, handleRegistration, Inv, TypeOK, Ids
  <2> QED
    BY <2>5
<1> QED
  BY <1>1, <1>2, <1>3, <1>4, <1>5 DEF TableStep

\* SessionNeverRebound, for every number of clients and registrations that the
\* counter can tell apart: an id of s_nextClientID never changes hands.
THEOREM SessionsNeverRebound ==
    ASSUME MaxRegistrations <= IdModulus
    PROVE  Spec => SessionNeverRebound
<1>1. Inv /\ Inv' /\ [Next]_vars
        => [\A id \in Ids : id < registered
              => m_clients'[id] \in {m_clients[id], NONE}]_vars
  BY NextStep, RebindStep
<1> QED
  BY <1>1, Invariance, PTL DEF Spec, SessionNeverRebound

\* The step formula of ActsForOwner.
OwnerActs ==
    /\ \A id \in Ids :
          m_clients[id] # NONE /\ m_clients'[id] = NONE /\ worker' # "none"
            => inbox.secret = m_clients[id].secret
    /\ reply = NONE /\ reply' # NONE /\ reply'.type = "api_call"
         => inbox.secret = m_clients[reply'.id].secret

LEMMA OwnerStep ==
    ASSUME Inv, [Next]_vars
    PROVE  OwnerActs
<1>1. CASE Stays \/ Settles
  BY <1>1 DEF Stays, Settles, sessionVars, OwnerActs
<1>2. CASE Crash
  BY <1>2 DEF Crash, OwnerActs
<1>3. ASSUME NEW k \in Ids, Leaves(k)
      PROVE  OwnerActs
  <2>1. /\ m_clients' = [m_clients EXCEPT ![k] = NONE]
        /\ reply'.type = "disconnect"
    BY <1>3 DEF Leaves, handleDisconnect, Forget, Answer
  <2>2. inbox.secret = m_clients[k].secret
    BY <1>3 DEF Leaves, Authorized, secretMatches
  <2>3. \A id \in Ids : id # k => m_clients'[id] = m_clients[id]
    BY <2>1 DEF Inv, TypeOK
  <2> QED
    BY <2>1, <2>2, <2>3 DEF OwnerActs
<1>4. ASSUME NEW k \in Ids, NEW type \in {"api_call", "error"}, AnswersFor(k, type)
      PROVE  OwnerActs
  BY <1>4 DEF AnswersFor, Authorized, secretMatches, sessionVars, OwnerActs
<1>5. ASSUME NEW who \in Registrants, Registers(who)
      PROVE  OwnerActs
  <2>1. /\ m_clients' = [m_clients EXCEPT ![s_nextClientID] = who]
        /\ reply'.type = "registration"
    BY <1>5 DEF Registers, handleRegistration, Answer
  <2>2. who # NONE
    BY NoneAssumption
  <2>3. \A id \in Ids : m_clients'[id] \in {m_clients[id], who}
    BY <2>1 DEF Inv, TypeOK
  <2> QED
    BY <2>1, <2>2, <2>3 DEF OwnerActs
<1> QED
  BY NextStep, <1>1, <1>2, <1>3, <1>4, <1>5 DEF TableStep

\* ActsForOwner: whatever was registered, dropped or restarted in between, a
\* session is ended or answered a call only for its own secret.
THEOREM OnlyOwnersActed == Spec => ActsForOwner
<1>1. Inv /\ [Next]_vars => [OwnerActs]_vars
  BY OwnerStep
<1> QED
  BY <1>1, Invariance, PTL DEF Spec, ActsForOwner, OwnerActs

\* Only the handlers of doStart end the worker.
LEMMA OnlyHandlersEnd ==
    ASSUME [Next]_vars, worker # "ended", worker' = "ended"
    PROVE  EndWorker
<1>1. CASE Owner \/ joined
  BY <1>1 DEF Owner, start, stop, joined
<1>2. CASE Worker
  BY <1>2 DEF Worker, CreatePipe, PollInterrupted, PollAgain, PollTimeout,
              ReceiveGarbage, ReceiveMalformed, ReceiveRegistration,
              ReceiveAPICall, ReceiveDisconnect, handleRegistration,
              handleDisconnect, Reject, Answer, Listen, OpenClientPipe,
              OpenFails, OpenTimeout, Wake, SleepInterrupted, WriteReply,
              WriteBroken
<1>3. CASE Environment
  BY <1>3 DEF Environment, Send, ClientPipe, ClientPipeRemoved, Crash,
              PollFailed, Listen, RemoveStalePipe
<1>4. CASE UNCHANGED vars
  BY <1>4 DEF vars
<1> QED
  BY <1>1, <1>2, <1>3, <1>4 DEF Next

\* PipeRemoved: a serving worker that ends has removed its FIFO, since the
\* object it destroys still holds the path.
THEOREM PipeIsRemoved == Spec => PipeRemoved
<1>1. Inv /\ [Next]_vars => [Serving /\ worker' = "ended" => ~fifo']_vars
  <2> SUFFICES ASSUME Inv, [Next]_vars, Serving, worker' = "ended"
               PROVE  ~fifo'
    OBVIOUS
  <2>1. EndWorker
    BY OnlyHandlersEnd DEF Serving, Replying
  <2>2. m_pipe
    BY DEF Inv, PipeOwned
  <2> QED
    BY <2>1, <2>2 DEF EndWorker, DestroyPipe
<1> QED
  BY <1>1, Invariance, PTL DEF Spec, PipeRemoved

\* UnreachableClientTolerated: only an interruption ends the worker while it
\* tries to open a client's pipe.
THEOREM UnreachableClientsTolerated == Spec => UnreachableClientTolerated
<1>1. ASSUME [Next]_vars
      PROVE  [worker' = "ended" /\ worker \in {"opening", "sleeping"}
                => interrupted]_vars
  <2> SUFFICES ASSUME worker' = "ended", worker \in {"opening", "sleeping"}
               PROVE  interrupted
    OBVIOUS
  <2>1. CASE Owner \/ joined
    BY <2>1 DEF Owner, start, stop, joined
  <2>2. CASE Worker
    BY <2>2 DEF Worker, CreatePipe, PollInterrupted, PollInterruptedGuard,
                PollAgain, PollTimeout, ReceiveGarbage, ReceiveMalformed,
                ReceiveRegistration, ReceiveAPICall, ReceiveDisconnect, Receives,
                OpenClientPipe, OpenFails, OpenTimeout, Listen, Wake,
                SleepInterrupted, WriteReply, WriteBroken
  <2>3. CASE Environment
    BY <2>3 DEF Environment, Send, ClientPipe, ClientPipeRemoved, Crash,
                PollFailed, Listen, RemoveStalePipe
  <2>4. CASE UNCHANGED vars
    BY <2>4 DEF vars
  <2> QED
    BY <1>1, <2>1, <2>2, <2>3, <2>4 DEF Next
<1> QED
  BY <1>1, PTL DEF Spec, UnreachableClientTolerated

-----------------------------------------------------------------------------
(***************************************************************************)
(* The bridge implements the table of sessions.                            *)
(***************************************************************************)
LEMMA ServiceInit == Init => Service!Init
BY ConstantsAssumption DEF Init, Service!Init, Ids

LEMMA ServiceStep ==
    ASSUME Inv, Inv', TableStep, MaxRegistrations <= IdModulus
    PROVE  [Service!Next]_(Service!vars)
<1> USE DEF sessionVars
<1>1. CASE Stays
  BY <1>1 DEF Stays, Service!vars
<1>2. CASE Settles
  BY <1>2 DEF Settles, Service!vars, Service!Next, Service!Settle
<1>3. CASE Crash
  <2>1. {id \in Ids : id < registered'} = {}
    BY <1>3, ConstantsAssumption DEF Crash, Ids
  <2> QED
    BY <1>3, <2>1 DEF Crash, Service!Next, Service!Lose
<1>4. ASSUME NEW id \in Ids, Leaves(id)
      PROVE  Service!Next
  <2>1. Service!Close(id)
    BY <1>4 DEF Leaves, Authorized, handleDisconnect, Forget, Answer,
                Service!Close
  <2> QED
    BY <2>1 DEF Service!Next
<1>5. ASSUME NEW id \in Ids, NEW type \in {"api_call", "error"}, AnswersFor(id, type)
      PROVE  Service!Next
  <2>1. Service!Call(id)
    BY <1>5 DEF AnswersFor, Service!Call
  <2> QED
    BY <2>1 DEF Service!Next
<1>6. ASSUME NEW who \in Registrants, Registers(who)
      PROVE  Service!Next
  <2>1. registered' = registered + 1 /\ registered' <= MaxRegistrations
    BY <1>6, ConstantsAssumption DEF Registers, handleRegistration, Inv, TypeOK
  <2>2. registered \in Nat /\ registered < IdModulus
    BY <2>1, ConstantsAssumption DEF Inv, TypeOK
  <2>3. s_nextClientID = registered % IdModulus
    BY <2>2, ConstantsAssumption DEF Inv, FreshIds
  <2>4. s_nextClientID = registered /\ s_nextClientID \in Ids
    BY <2>2, <2>3, ConstantsAssumption DEF Ids
  <2>5. {id \in Ids : id < registered'}
          = {id \in Ids : id < registered} \cup {s_nextClientID}
    BY <2>1, <2>2, <2>4, ConstantsAssumption DEF Ids
  <2>6. s_nextClientID \in Ids \ {id \in Ids : id < registered}
    BY <2>2, <2>4
  <2>7. Service!Open(s_nextClientID, who)
    BY <1>6, <2>5, <2>6
       DEF Registers, handleRegistration, Answer, Service!Open
  <2> QED
    BY <2>4, <2>7 DEF Service!Next
<1> QED
  BY <1>1, <1>2, <1>3, <1>4, <1>5, <1>6 DEF TableStep

\* SessionSpec: every step of Bridge::processMessage, of the worker and of its
\* environment is a step of the table of sessions, or none.
THEOREM BridgeImplementsService ==
    ASSUME MaxRegistrations <= IdModulus
    PROVE  Spec => SessionSpec
<1>1. Inv /\ Inv' /\ [Next]_vars => [Service!Next]_(Service!vars)
  BY NextStep, ServiceStep
<1> QED
  BY <1>1, ServiceInit, Invariance, PTL DEF Spec, SessionSpec, Service!Spec
=============================================================================
