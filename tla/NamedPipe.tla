----------------------------- MODULE NamedPipe -----------------------------
(***************************************************************************)
(* NamedPipe of json_bridge/src/NamedPipe.cpp on POSIX systems: one owner  *)
(* that creates the FIFO, reads from it in calls of read_blocking and      *)
(* destroys it, and writers that make one call of write each.  One step    *)
(* per system call; the FIFO itself behaves as pipe(7) says.               *)
(*                                                                         *)
(* Content is counted in blocks: a block is what one read() of             *)
(* PIPE_BUFFER_SIZE bytes takes.  A write() of at most AtomicBlocks is all *)
(* or nothing; a larger one takes what room there is.                      *)
(***************************************************************************)
EXTENDS Integers, Sequences, SequencesExt

CONSTANTS
    Writers,
    Size,               \* Size[w]: blocks in the message of w
    Capacity,           \* blocks the FIFO holds
    AtomicBlocks,       \* PIPE_BUF, in blocks
    ReadTimeout,        \* milliseconds
    ReadInterval,       \* PIPE_WAIT_INTERVAL
    WriteTimeout,
    WriteInterval       \* PIPE_WRITE_WAIT_INTERVAL

ASSUME ConstantsAssumption ==
    /\ Size \in [Writers -> Nat \ {0}]
    /\ Capacity \in Nat \ {0}
    /\ AtomicBlocks \in 1 .. Capacity
    /\ ReadTimeout \in Nat /\ ReadInterval \in Nat \ {0}
    /\ WriteTimeout \in Nat /\ WriteInterval \in Nat \ {0}

Message(w) == [i \in 1 .. Size[w] |-> <<w, i>>]

Blocks == UNION {{<<w, i>> : i \in 1 .. Size[w]} : w \in Writers}

VARIABLES
    reader,     \* where the owner is; "none": it has no pipe
    readTime,   \* what is left of the timeout of read_blocking
    elapsed,    \* ghost: milliseconds poll() has really waited in this call
    hangup,     \* a writer has come and gone since the reader opened
    content,    \* what read_blocking has read
    received,   \* ghost: what the calls of read_blocking returned
    writer,     \* writer[w]: where the call of w is, or how it ended
    writeTime,  \* writeTime[w]: what is left of its timeout
    handle,     \* handle[w]: "none", "current", or "stale" (a destroyed FIFO)
    buffer,     \* the blocks in the FIFO
    accepted,   \* ghost: the blocks write() took, in order
    lost        \* ghost: the blocks the system dropped

readVars  == <<reader, readTime, elapsed, content, received>>
writeVars == <<writer, writeTime>>
ghostVars == <<accepted, lost>>
vars == <<readVars, hangup, writeVars, handle, buffer, ghostVars>>

\* the reader has the FIFO open
Open == reader \in {"polling", "polled", "reading", "drained", "interrupted", "timeout"}

Ended == {"done", "failed", "timeout", "interrupted", "killed"}

Init ==
    /\ reader = "none"
    /\ readTime = 0
    /\ elapsed = 0
    /\ hangup = FALSE
    /\ content = <<>>
    /\ received = <<>>
    /\ writer = [w \in Writers |-> "idle"]
    /\ writeTime = [w \in Writers |-> 0]
    /\ handle = [w \in Writers |-> "none"]
    /\ buffer = <<>>
    /\ accepted = <<>>
    /\ lost = {}

-----------------------------------------------------------------------------
(***************************************************************************)
(* The owner of the FIFO.                                                  *)
(***************************************************************************)
create ==
    /\ reader = "none"
    /\ reader' = "idle"
    /\ UNCHANGED <<readTime, elapsed, content, received, hangup, writeVars,
                   handle, buffer, ghostVars>>

\* The file goes; a writer that has it open keeps a pipe nobody can reach.
destroy ==
    /\ reader = "idle"
    /\ reader' = "none"
    /\ handle' = [w \in Writers |-> IF handle[w] = "current" THEN "stale"
                                    ELSE handle[w]]
    /\ lost' = lost \cup ToSet(buffer)
    /\ buffer' = <<>>
    /\ UNCHANGED <<readTime, elapsed, content, received, hangup, writeVars,
                   accepted>>

\* read_blocking(timeout): open(O_RDONLY | O_NONBLOCK)
OpenRead ==
    /\ reader = "idle"
    /\ reader' = "polling"
    /\ readTime' = ReadTimeout
    /\ elapsed' = 0
    /\ hangup' = FALSE
    /\ content' = <<>>
    /\ UNCHANGED <<received, writeVars, handle, buffer, ghostVars>>

\* poll() returns with POLLIN, or fails (a signal): either ends the loop.
PollReady ==
    /\ reader = "polling"
    /\ reader' = "reading"
    /\ UNCHANGED <<readTime, elapsed, content, received, hangup, writeVars,
                   handle, buffer, ghostVars>>

Idle == buffer = <<>>

HangupNow == hangup /\ \A w \in Writers : handle[w] # "current"

\* poll() returns without POLLIN: after PIPE_WAIT_INTERVAL, or at once with
\* POLLHUP when the writers there were have gone.
PollNothing ==
    /\ reader = "polling"
    /\ Idle
    /\ reader' = "polled"
    /\ elapsed' = IF HangupNow THEN elapsed ELSE elapsed + ReadInterval
    /\ UNCHANGED <<readTime, content, received, hangup, writeVars, handle,
                   buffer, ghostVars>>

\* mutant: a poll() that returned at once is not charged to the timeout
PollAgainUncharged ==
    /\ reader = "polled"
    /\ readTime > ReadInterval
    /\ readTime' = IF HangupNow THEN readTime ELSE readTime - ReadInterval
    /\ reader' = "polling"
    /\ UNCHANGED <<elapsed, content, received, hangup, writeVars, handle,
                   buffer, ghostVars>>

\* mutant: the interval is subtracted before the test
PollAgainUnderflow ==
    /\ reader = "polled"
    /\ readTime' = readTime - ReadInterval
    /\ reader' = "polling"
    /\ UNCHANGED <<elapsed, content, received, hangup, writeVars, handle,
                   buffer, ghostVars>>

PollAgain ==
    /\ reader = "polled"
    /\ readTime > ReadInterval
    /\ readTime' = readTime - ReadInterval
    /\ reader' = "polling"
    /\ UNCHANGED <<elapsed, content, received, hangup, writeVars, handle,
                   buffer, ghostVars>>

PollTimeout ==
    /\ reader = "polled"
    /\ readTime <= ReadInterval
    /\ reader' = "timeout"
    /\ UNCHANGED <<readTime, elapsed, content, received, hangup, writeVars,
                   handle, buffer, ghostVars>>

\* the thread finds, at the interruption point, that it is to stop
PollInterrupted ==
    /\ reader = "polled"
    /\ reader' = "interrupted"
    /\ UNCHANGED <<readTime, elapsed, content, received, hangup, writeVars,
                   handle, buffer, ghostVars>>

\* mutant: a block is read a second time
ReadBlockTwice ==
    /\ reader = "reading"
    /\ buffer # <<>>
    /\ content' = Append(content, Head(buffer))
    /\ buffer' \in {buffer, Tail(buffer)}
    /\ UNCHANGED <<reader, readTime, elapsed, received, hangup, writeVars, handle,
                   ghostVars>>

\* mutant: one read() and no loop
ReadBlockOnce ==
    /\ reader = "reading"
    /\ buffer # <<>>
    /\ content' = Append(content, Head(buffer))
    /\ buffer' = Tail(buffer)
    /\ reader' = "drained"
    /\ UNCHANGED <<readTime, elapsed, received, hangup, writeVars, handle,
                   ghostVars>>

ReadBlock ==
    /\ reader = "reading"
    /\ buffer # <<>>
    /\ content' = Append(content, Head(buffer))
    /\ buffer' = Tail(buffer)
    /\ UNCHANGED <<reader, readTime, elapsed, received, hangup, writeVars, handle,
                   ghostVars>>

\* read() returns 0 (no writer) or EAGAIN (a writer that has nothing to say)
ReadEnd ==
    /\ reader = "reading"
    /\ Idle
    /\ reader' = "drained"
    /\ UNCHANGED <<readTime, elapsed, content, received, hangup, writeVars,
                   handle, buffer, ghostVars>>

\* The handle is closed when read_blocking is left; what came in since the last
\* read() stays only if a writer still has the FIFO open.
CloseRead ==
    /\ reader \in {"drained", "interrupted", "timeout"}
    /\ reader' = "idle"
    /\ received' = IF content = <<>> THEN received ELSE Append(received, content)
    /\ content' = <<>>
    /\ \/ /\ \E w \in Writers : handle[w] = "current"
          /\ UNCHANGED <<buffer, lost>>
       \/ /\ \A w \in Writers : handle[w] # "current"
          /\ lost' = lost \cup ToSet(buffer)
          /\ buffer' = <<>>
    /\ UNCHANGED <<readTime, elapsed, hangup, writeVars, handle, accepted>>

-----------------------------------------------------------------------------
(***************************************************************************)
(* write(path, message, timeout).                                          *)
(***************************************************************************)
write(w) ==
    /\ writer[w] = "idle"
    /\ writer' = [writer EXCEPT ![w] = "opening"]
    /\ writeTime' = [writeTime EXCEPT ![w] = WriteTimeout]
    /\ UNCHANGED <<readVars, hangup, handle, buffer, ghostVars>>

\* open(O_WRONLY | O_NONBLOCK) succeeds when there is a reader
OpenWrite(w) ==
    /\ writer[w] = "opening"
    /\ Open
    /\ writer' = [writer EXCEPT ![w] = "opened"]
    /\ handle' = [handle EXCEPT ![w] = "current"]
    /\ UNCHANGED <<readVars, hangup, writeTime, buffer, ghostVars>>

\* mutant: the timeout does not shrink
OpenWriteFailsForEver(w) ==
    /\ writer[w] = "opening"
    /\ ~Open
    /\ writer' = [writer EXCEPT ![w] = "sleeping"]
    /\ UNCHANGED <<readVars, hangup, handle, buffer, writeTime, ghostVars>>

OpenWriteFails(w) ==
    /\ writer[w] = "opening"
    /\ ~Open
    /\ IF writeTime[w] > WriteInterval
       THEN /\ writeTime' = [writeTime EXCEPT ![w] = @ - WriteInterval]
            /\ writer' = [writer EXCEPT ![w] = "sleeping"]
       ELSE /\ writer' = [writer EXCEPT ![w] = "timeout"]
            /\ UNCHANGED writeTime
    /\ UNCHANGED <<readVars, hangup, handle, buffer, ghostVars>>

\* sleep_for ends, or is interrupted
Wake(w) ==
    /\ writer[w] = "sleeping"
    /\ \E next \in {"opening", "interrupted"} :
          writer' = [writer EXCEPT ![w] = next]
    /\ UNCHANGED <<readVars, hangup, writeTime, handle, buffer, ghostVars>>

\* What write() takes of the message; 0 is EAGAIN.
Taken(w) ==
    LET room == Capacity - Len(buffer)
    IN  IF Size[w] <= room THEN Size[w]
        ELSE IF Size[w] <= AtomicBlocks THEN 0 ELSE room

\* mutant: the caller splits what has no room, and a short count is an error,
\* though the blocks are in the FIFO
WriteShortIsError(w) ==
    /\ writer[w] = "opened"
    /\ LET room  == Capacity - Len(buffer)
           taken == SubSeq(Message(w), 1, IF Size[w] <= room THEN Size[w] ELSE room)
       IN  /\ buffer' = buffer \o taken
           /\ accepted' = accepted \o taken
           /\ writer' = [writer EXCEPT ![w] =
                            IF Len(taken) < Size[w] THEN "failed" ELSE "done"]
    /\ UNCHANGED <<readVars, hangup, writeTime, handle, lost>>

\* write(): EPIPE when the reader has gone, EAGAIN when there is no room; only
\* a negative result is an error, a short count is not looked at.
Write(w) ==
    /\ writer[w] = "opened"
    /\ IF handle[w] = "current" /\ Open /\ Taken(w) > 0
       THEN LET taken == SubSeq(Message(w), 1, Taken(w))
            IN  /\ buffer' = buffer \o taken
                /\ accepted' = accepted \o taken
                /\ writer' = [writer EXCEPT ![w] = "done"]
       ELSE /\ writer' = [writer EXCEPT ![w] = "failed"]
            /\ UNCHANGED <<buffer, accepted>>
    /\ UNCHANGED <<readVars, hangup, writeTime, handle, lost>>

\* Closing the last handle of a FIFO nobody reads drops what is in it.
CloseWrite(w) ==
    /\ writer[w] \in Ended
    /\ handle[w] # "none"
    /\ handle' = [handle EXCEPT ![w] = "none"]
    /\ hangup' = (hangup \/ (Open /\ handle[w] = "current"))
    /\ IF ~Open /\ \A v \in Writers : handle'[v] # "current"
       THEN lost' = lost \cup ToSet(buffer) /\ buffer' = <<>>
       ELSE UNCHANGED <<lost, buffer>>
    /\ UNCHANGED <<readVars, writeVars, accepted>>

\* The program that writes is killed with the FIFO open.
Kill(w) ==
    /\ writer[w] = "opened"
    /\ writer' = [writer EXCEPT ![w] = "killed"]
    /\ UNCHANGED <<readVars, hangup, writeTime, handle, buffer, ghostVars>>

-----------------------------------------------------------------------------
Read ==
    \/ PollReady \/ PollNothing \/ PollAgain \/ PollTimeout \/ PollInterrupted
    \/ ReadBlock \/ ReadEnd \/ CloseRead

WriteStep(w) ==
    OpenWrite(w) \/ OpenWriteFails(w) \/ Wake(w) \/ Write(w) \/ CloseWrite(w)

Next ==
    \/ create \/ destroy \/ OpenRead
    \/ Read
    \/ \E w \in Writers : write(w) \/ WriteStep(w) \/ Kill(w)

Spec == Init /\ [][Next]_vars

\* The system runs every thread that is inside a call; nobody has to make one.
Fairness == WF_vars(Read) /\ \A w \in Writers : WF_vars(WriteStep(w))

FairSpec == Spec /\ Fairness

-----------------------------------------------------------------------------
(***************************************************************************)
(* Safety.                                                                 *)
(***************************************************************************)
\* Every variable stays in its set; the FIFO never holds more than it can.
TypeOK ==
    /\ reader \in {"none", "idle", "polling", "polled", "reading", "drained",
                   "interrupted", "timeout"}
    /\ readTime \in 0 .. ReadTimeout
    /\ elapsed \in 0 .. (ReadTimeout + ReadInterval)
    /\ hangup \in BOOLEAN
    /\ content \in Seq(Blocks)
    /\ received \in Seq(Seq(Blocks))
    /\ writer \in [Writers -> {"idle", "opening", "sleeping", "opened"} \cup Ended]
    /\ writeTime \in [Writers -> 0 .. WriteTimeout]
    /\ handle \in [Writers -> {"none", "current", "stale"}]
    /\ buffer \in Seq(Blocks) /\ Len(buffer) <= Capacity
    /\ accepted \in Seq(Blocks)
    /\ lost \subseteq Blocks

\* b was accepted before c
Precedes(b, c) ==
    \E p, q \in DOMAIN accepted : p < q /\ accepted[p] = b /\ accepted[q] = c

InOrder(s) == \A i, j \in DOMAIN s : i < j => Precedes(s[i], s[j])

Ahead(s, t) == \A i \in DOMAIN s, j \in DOMAIN t : Precedes(s[i], t[j])

\* read, and not returned yet; or not read yet
Inside == content \o buffer

\* Through any interleaving of the system calls of several writers and of the
\* reader, what write() accepted and the system did not drop with the FIFO is
\* returned, or on its way to be, in the order it was accepted, and once: no
\* block is accepted twice, so none precedes itself.
Accounted ==
    /\ IsInjective(accepted)
    /\ lost \subseteq ToSet(accepted)
    /\ ToSet(accepted) \ lost =
          (UNION {ToSet(received[k]) : k \in DOMAIN received}) \cup ToSet(Inside)
    /\ InOrder(Inside)
    /\ \A k \in DOMAIN received :
          /\ InOrder(received[k])
          /\ Ahead(received[k], Inside)
          /\ \A l \in DOMAIN received : k < l => Ahead(received[k], received[l])

\* What one read_blocking returns is made of whole messages, however the block
\* reads and other writers interleave: several messages may have run together,
\* none is cut.  It needs messages of at most PIPE_BUF bytes.
WholeMessages ==
    \A c \in ToSet(received) : \A w \in Writers :
        (\E i \in DOMAIN c : c[i][1] = w)
            => \E k \in 1 .. (Len(c) - Size[w] + 1) :
                  SubSeq(c, k, k + Size[w] - 1) = Message(w)

\* An exception from write means that nothing of the message is, was or will be
\* in the FIFO: the caller may try again without sending it twice.
FailedWriteInvisible ==
    \A w \in Writers :
        writer[w] \in Ended \ {"done"} => \A i \in DOMAIN accepted : accepted[i][1] # w

(***************************************************************************)
(* NamedPipe implements PipeService, with a buffer, if no message is larger*)
(* than PIPE_BUF.  A part of a message would be no message of the service, *)
(* and so no step of it could put that part in or take it out.             *)
(***************************************************************************)
\* The messages that are there, and the blocks of those that are there in part.
MessagesIn(blocks) == {w \in Writers : ToSet(Message(w)) \subseteq blocks}

Cut(blocks) == {b \in blocks : ~(ToSet(Message(b[1])) \subseteq blocks)}

Parts(blocks) == MessagesIn(blocks) \cup Cut(blocks)

Outcomes ==
    [w \in Writers |-> IF writer[w] = "done" THEN "done"
                       ELSE IF writer[w] \in Ended THEN "given up" ELSE "open"]

InFifo == Parts(ToSet(Inside))

FifoOrder == {p \in InFifo \X InFifo : Precedes(<<p[1], 1>>, <<p[2], 1>>)}

Batches == [k \in DOMAIN received |-> Parts(ToSet(received[k]))]

Dropped == Parts(lost)

Service == INSTANCE PipeService WITH
    Messages <- Writers,
    Buffered <- TRUE,
    outcome  <- Outcomes,
    inside   <- InFifo,
    order    <- FifoOrder,
    returned <- Batches,
    dropped  <- Dropped

\* Whatever the system calls of reader and writers do to each other, a message that
\* went in comes out whole, once and in its order, or goes with the FIFO; and a
\* write that returned put its message in, one that threw did not.
ServiceSpec == Service!Spec

(***************************************************************************)
(* Liveness, under FairSpec.                                               *)
(***************************************************************************)
\* Every call of read_blocking returns or throws, whatever the writers do.
ReadEnds == Open ~> ~Open

\* Every call of write returns or throws, and closes its handle.
WriteEnds ==
    \A w \in Writers :
        writer[w] = "opening" ~> writer[w] \in Ended /\ handle[w] = "none"

-----------------------------------------------------------------------------
(***************************************************************************)
(* What the documentation says and the code does not do.                   *)
(***************************************************************************)
\* NamedPipe.h:105-110, "Writes a message to the named pipe": a call that returns
\* has written its message, and not the beginning of it.
NormalReturnIsWhole ==
    \A w \in Writers :
        writer[w] = "done" => ToSet(Message(w)) \subseteq ToSet(accepted)

\* NamedPipe.h:136-137: the timeout "specifies the general order of magnitude":
\* a TimeoutException of read_blocking takes more than half of it.
TimeoutTakesTime == reader = "timeout" => 2 * elapsed > ReadTimeout
=============================================================================
