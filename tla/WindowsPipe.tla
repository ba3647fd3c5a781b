---------------------------- MODULE WindowsPipe ----------------------------
(***************************************************************************)
(* NamedPipe of json_bridge/src/NamedPipe.cpp on Windows: one owner that   *)
(* creates the pipe, reads from its single instance in calls of            *)
(* read_blocking and closes it, and writers that make one call of write    *)
(* each.  The instance connects one writer at a time and has no buffer of  *)
(* its own: an overlapped write is pending until all of it has been read.  *)
(*                                                                         *)
(* A block is what one ReadFile of PIPE_BUFFER_SIZE bytes takes.  All the  *)
(* blocks of a message are full, but for the last one, unless the length   *)
(* of the message is a multiple of the block.  What the system writes to   *)
(* an OVERLAPPED after the call that owned it has been left is not         *)
(* modelled.                                                               *)
(***************************************************************************)
EXTENDS Integers, Sequences, SequencesExt

CONSTANTS
    Writers,
    Size,               \* Size[w]: blocks in the message of w
    Exact,              \* the writers whose last block is a full one
    ReadTimeout,        \* milliseconds
    ReadInterval,       \* PIPE_WAIT_INTERVAL
    WriteTimeout,
    WriteInterval,      \* PIPE_WRITE_WAIT_INTERVAL
    PendingInterval,    \* pendingWaitInterval
    NoWriter            \* nobody is connected

ASSUME ConstantsAssumption ==
    /\ Size \in [Writers -> Nat \ {0}]
    /\ Exact \subseteq Writers
    /\ ReadTimeout \in Nat /\ ReadInterval \in Nat \ {0}
    /\ WriteTimeout \in Nat /\ WriteInterval \in Nat \ {0}
    /\ PendingInterval \in Nat \ {0}
    /\ NoWriter \notin Writers

Message(w) == [i \in 1 .. Size[w] |-> <<w, i>>]

Blocks == UNION {{<<w, i>> : i \in 1 .. Size[w]} : w \in Writers}

\* readBytes < PIPE_BUFFER_SIZE
Short(block) == block[2] = Size[block[1]] /\ block[1] \notin Exact

VARIABLES
    reader,     \* where the owner is; "none": it has no pipe
    readTime,   \* what is left of the timeout of read_blocking
    content,    \* what read_blocking has read
    received,   \* ghost: what the calls of read_blocking returned
    instance,   \* the state of the pipe instance
    peer,       \* the writer that is connected to it
    writer,     \* writer[w]: where the call of w is, or how it ended
    writeTime,  \* writeTime[w]: what is left of its timeout
    opened,     \* opened[w]: the call holds a handle
    pending,    \* the blocks of the pending write that have not been read
    taken       \* taken[w]: how many blocks of w have been read

readVars  == <<reader, readTime, content, received>>
pipeVars  == <<instance, peer, pending>>
writeVars == <<writer, writeTime, opened>>
vars == <<readVars, pipeVars, writeVars, taken>>

Ended == {"done", "failed", "timeout", "interrupted", "killed"}

Init ==
    /\ reader = "none"
    /\ readTime = 0
    /\ content = <<>>
    /\ received = <<>>
    /\ instance = "absent"
    /\ peer = NoWriter
    /\ pending = <<>>
    /\ writer = [w \in Writers |-> "idle"]
    /\ writeTime = [w \in Writers |-> 0]
    /\ opened = [w \in Writers |-> FALSE]
    /\ taken = [w \in Writers |-> 0]

-----------------------------------------------------------------------------
(***************************************************************************)
(* The pipe instance (external).                                           *)
(***************************************************************************)
\* The writer loses the instance, and what it has not been able to write.
Release(state) ==
    /\ instance' = state
    /\ peer' = NoWriter
    /\ pending' = <<>>

\* a writer is, or was, at the other end
Connected == instance \in {"connected", "closing"}

-----------------------------------------------------------------------------
(***************************************************************************)
(* The owner.                                                              *)
(***************************************************************************)
\* A writer may connect as soon as the instance exists.
create ==
    /\ reader = "none"
    /\ reader' = "idle"
    /\ instance' = "listening"
    /\ UNCHANGED <<readTime, content, received, peer, pending, writeVars, taken>>

\* CloseHandle of the only handle of the owner
destroy ==
    /\ reader = "idle"
    /\ reader' = "none"
    /\ Release("absent")
    /\ UNCHANGED <<readTime, content, received, writeVars, taken>>

\* ConnectNamedPipe: it is pending until a writer connects, unless one has; a
\* writer that has gone again counts (ERROR_NO_DATA).
Connect(then) ==
    IF Connected
    THEN reader' = then /\ UNCHANGED instance
    ELSE reader' = "connecting" /\ instance' = "listening"

\* read_blocking(timeout)
BeginRead ==
    /\ reader = "idle"
    /\ readTime' = ReadTimeout
    /\ content' = <<>>
    /\ Connect("reading")
    /\ UNCHANGED <<received, peer, pending, writeVars, taken>>

\* waitOnAsyncIO: the operation has completed.
ConnectDone ==
    /\ reader \in {"connecting", "reconnecting"}
    /\ Connected
    /\ reader' = IF reader = "connecting" THEN "reading" ELSE "waiting"
    /\ UNCHANGED <<readTime, content, received, pipeVars, writeVars, taken>>

\* mutant: the timeout does not shrink
ConnectWaitForEver ==
    /\ reader \in {"connecting", "reconnecting"}
    /\ ~Connected
    /\ UNCHANGED vars

\* mutant: the interval is subtracted before the test
ConnectWaitUnderflow ==
    /\ reader \in {"connecting", "reconnecting"}
    /\ ~Connected
    /\ readTime' = readTime - PendingInterval
    /\ reader' \in {reader, "idle"}
    /\ UNCHANGED <<content, received, pipeVars, writeVars, taken>>

\* An exception (a timeout, an interruption of sleep_for) leaves read_blocking
\* without disconnecting: the instance stays what it is.
ConnectWait ==
    /\ reader \in {"connecting", "reconnecting"}
    /\ ~Connected
    /\ \/ /\ readTime > PendingInterval
          /\ readTime' = readTime - PendingInterval
          /\ reader' \in {reader, "idle"}
       \/ /\ readTime <= PendingInterval
          /\ reader' = "idle"
          /\ UNCHANGED readTime
    /\ UNCHANGED <<content, received, pipeVars, writeVars, taken>>

\* mutant: a full block ends the message too
ReadBlockOnce ==
    /\ reader = "reading"
    /\ pending # <<>>
    /\ content' = Append(content, Head(pending))
    /\ pending' = Tail(pending)
    /\ taken' = [taken EXCEPT ![peer] = @ + 1]
    /\ reader' = "disconnecting"
    /\ UNCHANGED <<readTime, received, instance, peer, writeVars>>

\* ReadFile; the wait for one that is pending has no timeout and cannot be
\* interrupted.  A short block ends the message.
ReadBlock ==
    /\ reader = "reading"
    /\ pending # <<>>
    /\ content' = Append(content, Head(pending))
    /\ pending' = Tail(pending)
    /\ taken' = [taken EXCEPT ![peer] = @ + 1]
    /\ reader' = IF Short(Head(pending)) THEN "disconnecting" ELSE "reading"
    /\ UNCHANGED <<readTime, received, instance, peer, writeVars>>

\* ERROR_BROKEN_PIPE: the end of what has been read, or, if that is nothing, a
\* writer that went without a word: disconnect, and wait for another one.
ReadBroken ==
    /\ reader = "reading"
    /\ instance = "closing"
    /\ IF content # <<>>
       THEN reader' = "disconnecting" /\ UNCHANGED pipeVars
       ELSE reader' = "reconnecting" /\ Release("listening")
    /\ UNCHANGED <<readTime, content, received, writeVars, taken>>

\* the interval the loop waits before it reads again
WaitToRead ==
    /\ reader = "waiting"
    /\ \/ /\ readTime > ReadInterval
          /\ readTime' = readTime - ReadInterval
          /\ reader' \in {"reading", "idle"}
       \/ /\ readTime <= ReadInterval
          /\ reader' = "idle"
          /\ UNCHANGED readTime
    /\ UNCHANGED <<content, received, pipeVars, writeVars, taken>>

\* DisconnectNamedPipe, and the return of the content
EndRead ==
    /\ reader = "disconnecting"
    /\ reader' = "idle"
    /\ received' = Append(received, content)
    /\ content' = <<>>
    /\ Release("disconnected")
    /\ UNCHANGED <<readTime, writeVars, taken>>

-----------------------------------------------------------------------------
(***************************************************************************)
(* write(path, message, timeout).                                          *)
(***************************************************************************)
Goto(w, state) == writer' = [writer EXCEPT ![w] = state]

write(w) ==
    /\ writer[w] = "idle"
    /\ Goto(w, "waiting")
    /\ writeTime' = [writeTime EXCEPT ![w] = WriteTimeout]
    /\ UNCHANGED <<readVars, pipeVars, opened, taken>>

\* mutant: the wait has no end
PauseForEver(w, interval) == UNCHANGED vars

\* a wait of one interval: it may end in a TimeoutException or an interruption
Pause(w, interval) ==
    /\ \/ /\ writeTime[w] > interval
          /\ writeTime' = [writeTime EXCEPT ![w] = @ - interval]
          /\ \/ UNCHANGED writer
             \/ Goto(w, "interrupted")
       \/ /\ writeTime[w] <= interval
          /\ Goto(w, "timeout")
          /\ UNCHANGED writeTime
    /\ UNCHANGED <<readVars, pipeVars, opened, taken>>

\* WaitNamedPipe: there is no pipe, or its instance is taken
WaitNamedPipeFails(w) ==
    /\ writer[w] = "waiting"
    /\ instance # "listening"
    /\ Pause(w, WriteInterval)

WaitNamedPipe(w) ==
    /\ writer[w] = "waiting"
    /\ instance = "listening"
    /\ Goto(w, "found")
    /\ UNCHANGED <<readVars, pipeVars, writeTime, opened, taken>>

\* CreateFile: another writer may have been faster; that is not tried again.
OpenWrite(w) ==
    /\ writer[w] = "found"
    /\ IF instance = "listening"
       THEN /\ instance' = "connected"
            /\ peer' = w
            /\ opened' = [opened EXCEPT ![w] = TRUE]
            /\ Goto(w, "opened")
       ELSE /\ Goto(w, "failed")
            /\ UNCHANGED <<instance, peer, opened>>
    /\ UNCHANGED <<readVars, pending, writeTime, taken>>

\* mutant: the overlapped write is not waited for
WriteFileForgotten(w) ==
    /\ writer[w] = "opened"
    /\ IF peer = w
       THEN pending' = Message(w) /\ Goto(w, "done")
       ELSE Goto(w, "failed") /\ UNCHANGED pending
    /\ UNCHANGED <<readVars, instance, peer, writeTime, opened, taken>>

\* WriteFile: the instance may have been disconnected meanwhile.
WriteFile(w) ==
    /\ writer[w] = "opened"
    /\ IF peer = w
       THEN pending' = Message(w) /\ Goto(w, "pending")
       ELSE Goto(w, "failed") /\ UNCHANGED pending
    /\ UNCHANGED <<readVars, instance, peer, writeTime, opened, taken>>

\* waitOnAsyncIO: all has been read, or the instance has been disconnected.
WriteDone(w) ==
    /\ writer[w] = "pending"
    /\ \/ taken[w] = Size[w] /\ Goto(w, "done")
       \/ taken[w] < Size[w] /\ peer # w /\ Goto(w, "failed")
    /\ UNCHANGED <<readVars, pipeVars, writeTime, opened, taken>>

WriteWait(w) ==
    /\ writer[w] = "pending"
    /\ taken[w] < Size[w]
    /\ peer = w
    /\ Pause(w, PendingInterval)

\* The handle is closed; a write that is still pending is cancelled.
CloseWrite(w) ==
    /\ writer[w] \in Ended
    /\ opened[w]
    /\ opened' = [opened EXCEPT ![w] = FALSE]
    /\ IF peer = w THEN Release("closing") ELSE UNCHANGED pipeVars
    /\ UNCHANGED <<readVars, writer, writeTime, taken>>

\* The program that writes is killed.
Kill(w) ==
    /\ writer[w] \in {"found", "opened", "pending"}
    /\ Goto(w, "killed")
    /\ UNCHANGED <<readVars, pipeVars, writeTime, opened, taken>>

-----------------------------------------------------------------------------
Read ==
    \/ ConnectDone \/ ConnectWait
    \/ ReadBlock \/ ReadBroken \/ WaitToRead \/ EndRead

WriteStep(w) ==
    \/ WaitNamedPipe(w) \/ WaitNamedPipeFails(w)
    \/ OpenWrite(w) \/ WriteFile(w) \/ WriteDone(w) \/ WriteWait(w) \/ CloseWrite(w)

Next ==
    \/ create \/ destroy \/ BeginRead
    \/ Read
    \/ \E w \in Writers : write(w) \/ WriteStep(w) \/ Kill(w)

Spec == Init /\ [][Next]_vars

\* Every thread that is inside a call is run.  Other than on POSIX systems the
\* reader needs this of the writers too: it waits for the one that is connected.
Fairness == WF_vars(Read) /\ \A w \in Writers : WF_vars(WriteStep(w))

FairSpec == Spec /\ Fairness

-----------------------------------------------------------------------------
(***************************************************************************)
(* Safety.                                                                 *)
(***************************************************************************)
\* Every variable stays in its set.
TypeOK ==
    /\ reader \in {"none", "idle", "connecting", "reconnecting", "reading",
                   "waiting", "disconnecting"}
    /\ readTime \in 0 .. ReadTimeout
    /\ content \in Seq(Blocks)
    /\ received \in Seq(Seq(Blocks))
    /\ instance \in {"absent", "listening", "connected", "closing", "disconnected"}
    /\ peer \in Writers \cup {NoWriter}
    /\ pending \in Seq(Blocks)
    /\ writer \in [Writers -> {"idle", "waiting", "found", "opened", "pending"} \cup Ended]
    /\ writeTime \in [Writers -> 0 .. WriteTimeout]
    /\ opened \in [Writers -> BOOLEAN]
    /\ \A w \in Writers : taken[w] \in 0 .. Size[w]

\* Other than on POSIX systems messages do not run together: what a call of
\* read_blocking returns comes from one writer, whoever else waits for the
\* instance; and it is all of the message, unless the writer gave up or died while
\* the reader was taking it.
OneWriterPerRead ==
    \A c \in ToSet(received) : \E w \in Writers :
        /\ c # <<>> /\ IsPrefix(c, Message(w))
        /\ c # Message(w) => writer[w] \in {"timeout", "interrupted", "killed"}

\* A write that returned has been read to the end, and what was read reaches the
\* caller of read_blocking: no disconnect, timeout or interruption of the reader
\* loses it.
DoneMeansRead ==
    \A w \in Writers : writer[w] = "done" =>
        \/ content = Message(w)
        \/ Message(w) \in ToSet(received)

(***************************************************************************)
(* WindowsPipe implements PipeService, without a buffer.                   *)
(***************************************************************************)
Outcomes ==
    [w \in Writers |-> IF writer[w] = "done" THEN "done"
                       ELSE IF writer[w] \in Ended THEN "given up" ELSE "open"]

WithReader == {w \in Writers : content = Message(w)}

Batches == [k \in DOMAIN received |-> {w \in Writers : received[k] = Message(w)}]

Service == INSTANCE PipeService WITH
    Messages <- Writers,
    Buffered <- FALSE,
    outcome  <- Outcomes,
    inside   <- WithReader,
    order    <- {},
    returned <- Batches,
    dropped  <- {}

\* Whatever the overlapped calls of reader and writers do to each other, a message
\* that was read to the end is returned, whole and once; a write that returned was
\* read, and what is returned in part was given up.
ServiceSpec == Service!Spec

(***************************************************************************)
(* Liveness, under FairSpec.                                               *)
(***************************************************************************)
\* Every call of read_blocking returns or throws, if the writers go on.
ReadEnds == reader \notin {"none", "idle"} ~> reader \in {"none", "idle"}

\* Every call of write returns or throws, and closes its handle.
WriteEnds ==
    \A w \in Writers : writer[w] = "waiting" ~> writer[w] \in Ended /\ ~opened[w]
=============================================================================
