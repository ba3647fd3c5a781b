-------------------------- MODULE NamedPipeProofs --------------------------
(***************************************************************************)
(* Proofs about module NamedPipe, for any number of writers, any sizes and *)
(* any timeouts: type correctness; that a call of write that ends with an  *)
(* exception has left nothing in the FIFO; that what was accepted is       *)
(* returned once and in order; that no small message is cut.               *)
(***************************************************************************)
EXTENDS NamedPipe, TLAPS

\* What poll() has waited and what is left of the timeout.
TimeSpent ==
    /\ reader = "polling" => elapsed + readTime <= ReadTimeout
    /\ reader = "polled" => elapsed + readTime <= ReadTimeout + ReadInterval

\* A writer puts its message into the FIFO with the step that makes it "done".
OnlyDoneInside ==
    \A w \in Writers :
        writer[w] # "done" => \A i \in DOMAIN accepted : accepted[i][1] # w

\* Outside of a call that has found something, nothing has been read.
NothingRead == reader \notin {"reading", "drained"} => content = <<>>

PipeInv == TypeOK /\ TimeSpent /\ OnlyDoneInside

-----------------------------------------------------------------------------
\* write() takes a beginning of the message, not more than there is room.
LEMMA TakenBound ==
    ASSUME TypeOK, NEW w \in Writers
    PROVE  /\ Taken(w) \in 0 .. Size[w]
           /\ Taken(w) <= Capacity - Len(buffer)
<1>1. Size[w] \in Nat /\ Capacity \in Nat /\ Len(buffer) \in Nat
      /\ Len(buffer) <= Capacity
  BY ConstantsAssumption DEF TypeOK
<1> QED
  BY <1>1 DEF Taken

\* The blocks of such a beginning are the writer's.
LEMMA TakenBlocks ==
    ASSUME NEW w \in Writers, NEW n \in 0 .. Size[w]
    PROVE  /\ SubSeq(Message(w), 1, n) \in Seq(Blocks)
           /\ Len(SubSeq(Message(w), 1, n)) = n
           /\ \A i \in 1 .. n : SubSeq(Message(w), 1, n)[i] = <<w, i>>
<1>1. Size[w] \in Nat
  BY ConstantsAssumption
<1>2. \A i \in 1 .. Size[w] : <<w, i>> \in Blocks
  BY DEF Blocks
<1>3. Message(w) \in Seq(Blocks) /\ Len(Message(w)) = Size[w]
      /\ \A i \in 1 .. Size[w] : Message(w)[i] = <<w, i>>
  BY <1>1, <1>2 DEF Message
<1>4. \A i \in 1 .. n : SubSeq(Message(w), 1, n)[i] = Message(w)[i]
  BY <1>1, <1>3
<1> QED
  BY <1>1, <1>3, <1>4

\* What a FIFO holds are blocks, when it is dropped and when it is read.
LEMMA BufferBlocks ==
    ASSUME TypeOK
    PROVE  /\ ToSet(buffer) \subseteq Blocks
           /\ <<>> \in Seq(Blocks) /\ Len(<<>>) <= Capacity
           /\ buffer # <<>> => /\ Head(buffer) \in Blocks
                               /\ Tail(buffer) \in Seq(Blocks)
                               /\ Len(Tail(buffer)) <= Capacity
BY ConstantsAssumption DEF TypeOK, ToSet

\* The numbers a call starts with.
LEMMA Bounds ==
    /\ ReadTimeout \in Nat /\ ReadInterval \in Nat /\ ReadInterval > 0
    /\ WriteTimeout \in Nat /\ WriteInterval \in Nat /\ WriteInterval > 0
    /\ 0 \in 0 .. ReadTimeout /\ ReadTimeout \in 0 .. ReadTimeout
    /\ 0 \in 0 .. (ReadTimeout + ReadInterval)
    /\ 0 \in 0 .. WriteTimeout /\ WriteTimeout \in 0 .. WriteTimeout
BY ConstantsAssumption

LEMMA PipeInitInv == Init => PipeInv
<1> SUFFICES ASSUME Init PROVE PipeInv
  OBVIOUS
<1>1. /\ buffer = <<>> /\ accepted = <<>> /\ content = <<>> /\ received = <<>>
      /\ lost = {}
  BY DEF Init
<1>2. /\ <<>> \in Seq(Blocks) /\ <<>> \in Seq(Seq(Blocks)) /\ Len(<<>>) <= Capacity
  BY ConstantsAssumption
<1>3. /\ reader = "none" /\ readTime \in 0 .. ReadTimeout /\ hangup \in BOOLEAN
      /\ elapsed \in 0 .. (ReadTimeout + ReadInterval)
  BY Bounds DEF Init
<1>4. /\ writer \in [Writers -> {"idle", "opening", "sleeping", "opened"} \cup Ended]
      /\ writeTime \in [Writers -> 0 .. WriteTimeout]
      /\ handle \in [Writers -> {"none", "current", "stale"}]
  BY Bounds DEF Init
<1>5. TypeOK
  BY <1>1, <1>2, <1>3, <1>4 DEF TypeOK
<1>6. TimeSpent /\ OnlyDoneInside
  BY <1>1, <1>3 DEF TimeSpent, OnlyDoneInside
<1> QED
  BY <1>5, <1>6 DEF PipeInv

\* The steps of the owner and of the reader touch no writer.
LEMMA ReaderInv ==
    ASSUME PipeInv, create \/ destroy \/ OpenRead \/ Read
    PROVE  PipeInv'
<1> USE DEF readVars, writeVars, ghostVars
<1>1. UNCHANGED <<writer, writeTime, accepted>>
  BY DEF create, destroy, OpenRead, Read, PollReady, PollNothing, PollAgain,
         PollTimeout, PollInterrupted, ReadBlock, ReadEnd, CloseRead
<1>2. OnlyDoneInside'
  BY <1>1 DEF PipeInv, OnlyDoneInside
<1>3. CASE create
  BY <1>2, <1>3 DEF create, PipeInv, TypeOK, TimeSpent
<1>4. CASE destroy
  <2>1. TypeOK'
    BY <1>4, BufferBlocks DEF destroy, PipeInv, TypeOK
  <2> QED
    BY <1>2, <1>4, <2>1 DEF destroy, PipeInv, TimeSpent
<1>5. CASE OpenRead
  <2>1. content' \in Seq(Blocks) /\ readTime' \in 0 .. ReadTimeout
        /\ elapsed' \in 0 .. (ReadTimeout + ReadInterval)
    BY <1>5, Bounds, BufferBlocks DEF OpenRead, PipeInv
  <2>2. TypeOK'
    BY <1>5, <2>1 DEF OpenRead, PipeInv, TypeOK
  <2>3. TimeSpent'
    BY <1>5, Bounds DEF OpenRead, TimeSpent
  <2> QED
    BY <1>2, <2>2, <2>3 DEF PipeInv
<1>6. CASE PollReady \/ PollTimeout \/ PollInterrupted \/ ReadEnd
  BY <1>2, <1>6
     DEF PollReady, PollTimeout, PollInterrupted, ReadEnd, PipeInv, TypeOK, TimeSpent
<1>7. CASE PollNothing
  <2>1. /\ reader' = "polled" /\ elapsed' \in {elapsed, elapsed + ReadInterval}
        /\ elapsed + readTime <= ReadTimeout /\ elapsed \in Nat /\ readTime \in Nat
        /\ UNCHANGED <<readTime, content, received, hangup, writer, writeTime,
                       handle, buffer, accepted, lost>>
    BY <1>7 DEF PollNothing, PipeInv, TypeOK, TimeSpent
  <2>2. /\ elapsed' \in 0 .. (ReadTimeout + ReadInterval)
        /\ elapsed' + readTime <= ReadTimeout + ReadInterval
    <3>1. CASE elapsed' = elapsed
      BY <2>1, <3>1, Bounds
    <3>2. CASE elapsed' = elapsed + ReadInterval
      BY <2>1, <3>2, Bounds
    <3> QED
      BY <2>1, <3>1, <3>2
  <2> QED
    BY <1>2, <2>1, <2>2 DEF PipeInv, TypeOK, TimeSpent
<1>8. CASE PollAgain
  BY <1>2, <1>8, ConstantsAssumption DEF PollAgain, PipeInv, TypeOK, TimeSpent
<1>9. CASE ReadBlock
  <2>1. content' \in Seq(Blocks) /\ buffer' \in Seq(Blocks) /\ Len(buffer') <= Capacity
    BY <1>9, BufferBlocks DEF ReadBlock, PipeInv, TypeOK
  <2> QED
    BY <1>2, <1>9, <2>1 DEF ReadBlock, PipeInv, TypeOK, TimeSpent
<1>10. CASE CloseRead
  <2>1. /\ received' \in Seq(Seq(Blocks)) /\ content' \in Seq(Blocks)
        /\ reader' = "idle"
        /\ UNCHANGED <<readTime, elapsed, hangup, handle>>
    BY <1>10 DEF CloseRead, PipeInv, TypeOK
  <2>2. lost' \subseteq Blocks /\ buffer' \in Seq(Blocks) /\ Len(buffer') <= Capacity
    BY <1>10, BufferBlocks DEF CloseRead, PipeInv, TypeOK
  <2> QED
    BY <1>1, <1>2, <2>1, <2>2 DEF PipeInv, TypeOK, TimeSpent
<1> QED
  BY <1>3, <1>4, <1>5, <1>6, <1>7, <1>8, <1>9, <1>10 DEF Read

\* The steps of a writer that do not write.
LEMMA WriterInv ==
    ASSUME PipeInv, NEW w \in Writers,
           write(w) \/ OpenWrite(w) \/ OpenWriteFails(w) \/ Wake(w)
           \/ CloseWrite(w) \/ Kill(w)
    PROVE  PipeInv'
<1> USE DEF readVars, writeVars, ghostVars
<1>1. UNCHANGED <<reader, readTime, elapsed, content, received, accepted>>
  BY DEF write, OpenWrite, OpenWriteFails, Wake, CloseWrite, Kill
<1>2. \A v \in Writers : writer'[v] = "done" <=> writer[v] = "done"
  BY DEF write, OpenWrite, OpenWriteFails, Wake, CloseWrite, Kill, PipeInv, TypeOK
<1>3. OnlyDoneInside' /\ TimeSpent'
  BY <1>1, <1>2 DEF PipeInv, OnlyDoneInside, TimeSpent
<1>4. /\ writer' \in [Writers -> {"idle", "opening", "sleeping", "opened"} \cup Ended]
      /\ handle' \in [Writers -> {"none", "current", "stale"}]
  BY DEF write, OpenWrite, OpenWriteFails, Wake, CloseWrite, Kill, PipeInv, TypeOK,
         Ended
<1>5. writeTime' \in [Writers -> 0 .. WriteTimeout]
  <2>1. writeTime \in [Writers -> 0 .. WriteTimeout]
    BY DEF PipeInv, TypeOK
  <2>2. CASE write(w)
    BY <2>1, <2>2, Bounds DEF write
  <2>3. CASE OpenWriteFails(w)
    <3>1. CASE UNCHANGED writeTime
      BY <2>1, <3>1
    <3>2. CASE writeTime[w] > WriteInterval
               /\ writeTime' = [writeTime EXCEPT ![w] = @ - WriteInterval]
      <4>1. writeTime[w] - WriteInterval \in 0 .. WriteTimeout
        BY <2>1, <3>2, Bounds
      <4> QED
        BY <2>1, <3>2, <4>1
    <3> QED
      BY <2>3, <3>1, <3>2 DEF OpenWriteFails
  <2>4. CASE OpenWrite(w) \/ Wake(w) \/ CloseWrite(w) \/ Kill(w)
    BY <2>1, <2>4 DEF OpenWrite, Wake, CloseWrite, Kill
  <2> QED
    BY <2>2, <2>3, <2>4
<1>6. /\ hangup' \in BOOLEAN /\ lost' \subseteq Blocks
      /\ buffer' \in Seq(Blocks) /\ Len(buffer') <= Capacity
  BY BufferBlocks
     DEF write, OpenWrite, OpenWriteFails, Wake, CloseWrite, Kill, PipeInv, TypeOK
<1>7. TypeOK'
  BY <1>1, <1>4, <1>5, <1>6 DEF PipeInv, TypeOK
<1> QED
  BY <1>3, <1>7 DEF PipeInv

\* The step that writes: the blocks are of w, and w is done.
LEMMA WriteInv ==
    ASSUME PipeInv, NEW w \in Writers, Write(w)
    PROVE  PipeInv'
<1> USE DEF readVars, ghostVars
<1>1. /\ UNCHANGED <<readVars, hangup, writeTime, handle, lost>>
      /\ writer \in [Writers -> {"idle", "opening", "sleeping", "opened"} \cup Ended]
      /\ accepted \in Seq(Blocks) /\ buffer \in Seq(Blocks)
      /\ writer[w] = "opened"
  BY DEF Write, PipeInv, TypeOK
<1>2. TimeSpent'
  BY <1>1 DEF PipeInv, TimeSpent
<1>3. CASE handle[w] = "current" /\ Open /\ Taken(w) > 0
  <2> DEFINE taken == SubSeq(Message(w), 1, Taken(w))
  <2>1. /\ buffer' = buffer \o taken /\ accepted' = accepted \o taken
        /\ writer' = [writer EXCEPT ![w] = "done"]
    BY <1>3 DEF Write
  <2>2. /\ taken \in Seq(Blocks) /\ Len(taken) = Taken(w)
        /\ \A i \in 1 .. Len(taken) : taken[i][1] = w
        /\ Taken(w) <= Capacity - Len(buffer)
    BY TakenBound, TakenBlocks DEF PipeInv
  <2> HIDE DEF taken
  <2>3. accepted' \in Seq(Blocks) /\ buffer' \in Seq(Blocks)
        /\ Len(buffer') <= Capacity
    BY <1>1, <2>1, <2>2, ConstantsAssumption
  <2>4. TypeOK'
    BY <1>1, <2>1, <2>3 DEF PipeInv, TypeOK, Ended
  <2>5. OnlyDoneInside'
    <3> SUFFICES ASSUME NEW v \in Writers, writer'[v] # "done",
                        NEW i \in DOMAIN accepted'
                 PROVE  accepted'[i][1] # v
      BY DEF OnlyDoneInside
    <3>1. v # w /\ writer[v] # "done"
      BY <1>1, <2>1
    <3>2. CASE i \in DOMAIN accepted
      <4>1. accepted'[i] = accepted[i]
        BY <1>1, <2>1, <2>2, <3>2
      <4> QED
        BY <3>1, <3>2, <4>1 DEF PipeInv, OnlyDoneInside
    <3>3. CASE i \notin DOMAIN accepted
      <4>1. i \in 1 .. (Len(accepted) + Len(taken)) /\ i > Len(accepted)
        BY <1>1, <2>1, <2>2, <3>3
      <4>2. /\ accepted'[i] = taken[i - Len(accepted)]
            /\ i - Len(accepted) \in 1 .. Len(taken)
        BY <1>1, <2>1, <2>2, <4>1
      <4> QED
        BY <2>2, <3>1, <4>2
    <3> QED
      BY <3>2, <3>3
  <2> QED
    BY <1>2, <2>4, <2>5 DEF PipeInv
<1>4. CASE ~(handle[w] = "current" /\ Open /\ Taken(w) > 0)
  <2>1. writer' = [writer EXCEPT ![w] = "failed"] /\ UNCHANGED <<buffer, accepted>>
    BY <1>4, Zenon DEF Write
  <2>2. TypeOK'
    BY <1>1, <2>1 DEF PipeInv, TypeOK, Ended
  <2>3. OnlyDoneInside'
    BY <1>1, <2>1 DEF PipeInv, OnlyDoneInside
  <2> QED
    BY <1>2, <2>2, <2>3 DEF PipeInv
<1> QED
  BY <1>3, <1>4

LEMMA PipeNextInv == PipeInv /\ [Next]_vars => PipeInv'
<1> SUFFICES ASSUME PipeInv, [Next]_vars PROVE PipeInv'
  OBVIOUS
<1>1. CASE create \/ destroy \/ OpenRead \/ Read
  BY <1>1, ReaderInv
<1>2. ASSUME NEW w \in Writers, write(w) \/ WriteStep(w) \/ Kill(w) PROVE PipeInv'
  BY <1>2, WriterInv, WriteInv DEF WriteStep
<1>3. CASE UNCHANGED vars
  BY <1>3 DEF vars, readVars, writeVars, ghostVars, PipeInv, TypeOK, TimeSpent,
              OnlyDoneInside
<1> QED
  BY <1>1, <1>2, <1>3 DEF Next

-----------------------------------------------------------------------------
(***************************************************************************)
(* Accounted: the order of the blocks.                                     *)
(***************************************************************************)
\* Where the elements of a concatenation come from.
LEMMA Concatenation ==
    ASSUME NEW S, NEW s \in Seq(S), NEW t \in Seq(S)
    PROVE  /\ s \o t \in Seq(S) /\ Len(s \o t) = Len(s) + Len(t)
           /\ \A i \in DOMAIN s : i \in DOMAIN (s \o t) /\ (s \o t)[i] = s[i]
           /\ \A j \in DOMAIN t : /\ Len(s) + j \in DOMAIN (s \o t)
                                  /\ (s \o t)[Len(s) + j] = t[j]
           /\ \A i \in DOMAIN (s \o t) : i \notin DOMAIN s =>
                 /\ i > Len(s) /\ i - Len(s) \in DOMAIN t
                 /\ (s \o t)[i] = t[i - Len(s)]
           /\ ToSet(s \o t) = ToSet(s) \cup ToSet(t)
<1>1. /\ s \o t \in Seq(S) /\ Len(s \o t) = Len(s) + Len(t)
      /\ \A i \in DOMAIN s : i \in DOMAIN (s \o t) /\ (s \o t)[i] = s[i]
      /\ \A j \in DOMAIN t : /\ Len(s) + j \in DOMAIN (s \o t)
                             /\ (s \o t)[Len(s) + j] = t[j]
  OBVIOUS
<1>2. ASSUME NEW i \in DOMAIN (s \o t), i \notin DOMAIN s
      PROVE  /\ i - Len(s) \in DOMAIN t /\ (s \o t)[i] = t[i - Len(s)]
             /\ i > Len(s)
  BY <1>1, <1>2
<1>3. ToSet(s \o t) \subseteq ToSet(s) \cup ToSet(t)
  BY <1>1, <1>2 DEF ToSet
<1>4. ToSet(s) \cup ToSet(t) \subseteq ToSet(s \o t)
  BY <1>1 DEF ToSet
<1> QED
  BY <1>1, <1>2, <1>3, <1>4

\* Concatenation is associative.
LEMMA Regrouped ==
    ASSUME NEW S, NEW s \in Seq(S), NEW t \in Seq(S), NEW u \in Seq(S)
    PROVE  s \o (t \o u) = (s \o t) \o u
<1>1. /\ t \o u \in Seq(S) /\ s \o t \in Seq(S)
      /\ s \o (t \o u) \in Seq(S) /\ (s \o t) \o u \in Seq(S)
      /\ Len(s \o (t \o u)) = Len((s \o t) \o u)
  OBVIOUS
<1>2. ASSUME NEW i \in 1 .. Len(s \o (t \o u))
      PROVE  (s \o (t \o u))[i] = ((s \o t) \o u)[i]
  <2>1. CASE i <= Len(s)
    BY <2>1
  <2>2. CASE i > Len(s) /\ i <= Len(s) + Len(t)
    BY <2>2
  <2>3. CASE i > Len(s) + Len(t)
    BY <2>3
  <2> QED
    BY <1>1, <2>1, <2>2, <2>3
<1> QED
  BY <1>1, <1>2

\* A block that precedes another goes on preceding it when more is accepted.
LEMMA PrecedesStays ==
    ASSUME TypeOK, NEW t \in Seq(Blocks),
           accepted' = accepted \o t, NEW b, NEW c, Precedes(b, c)
    PROVE  Precedes(b, c)'
<1>1. PICK p \in DOMAIN accepted, q \in DOMAIN accepted :
         p < q /\ accepted[p] = b /\ accepted[q] = c
  BY DEF Precedes
<1>2. accepted \in Seq(Blocks)
  BY DEF TypeOK
<1>3. /\ p \in DOMAIN accepted' /\ accepted'[p] = accepted[p]
      /\ q \in DOMAIN accepted' /\ accepted'[q] = accepted[q]
  BY <1>1, <1>2
<1> QED
  BY <1>1, <1>3 DEF Precedes

\* No block precedes itself, when none is accepted twice.
LEMMA NotBeforeItself ==
    ASSUME TypeOK, IsInjective(accepted), NEW b
    PROVE  ~Precedes(b, b)
<1>1. accepted \in Seq(Blocks)
  BY DEF TypeOK
<1> QED
  BY <1>1 DEF Precedes, IsInjective

\* What is inside is what has been read and then what has not.
LEMMA InsideParts ==
    ASSUME TypeOK, Accounted
    PROVE  /\ Inside \in Seq(Blocks) /\ ToSet(Inside) = ToSet(content) \cup ToSet(buffer)
           /\ InOrder(content) /\ InOrder(buffer) /\ Ahead(content, buffer)
           /\ \A k \in DOMAIN received : /\ Ahead(received[k], content)
                                         /\ Ahead(received[k], buffer)
<1>1. content \in Seq(Blocks) /\ buffer \in Seq(Blocks)
  BY DEF TypeOK
<1>2. /\ Inside \in Seq(Blocks) /\ ToSet(Inside) = ToSet(content) \cup ToSet(buffer)
      /\ \A i \in DOMAIN content : i \in DOMAIN Inside /\ Inside[i] = content[i]
      /\ \A i \in DOMAIN buffer : /\ Len(content) + i \in DOMAIN Inside
                                  /\ Inside[Len(content) + i] = buffer[i]
  BY <1>1, Concatenation DEF Inside
<1>5. InOrder(Inside) /\ \A k \in DOMAIN received : Ahead(received[k], Inside)
  BY DEF Accounted
<1>6. InOrder(content)
  BY <1>2, <1>5 DEF InOrder
<1>7. InOrder(buffer)
  <2> SUFFICES ASSUME NEW i \in DOMAIN buffer, NEW j \in DOMAIN buffer, i < j
               PROVE  Precedes(buffer[i], buffer[j])
    BY DEF InOrder
  <2>1. Len(content) + i < Len(content) + j
    BY <1>1
  <2> QED
    BY <1>2, <1>5, <2>1 DEF InOrder
<1>8. Ahead(content, buffer)
  <2> SUFFICES ASSUME NEW i \in DOMAIN content, NEW j \in DOMAIN buffer
               PROVE  Precedes(content[i], buffer[j])
    BY DEF Ahead
  <2>1. i < Len(content) + j
    BY <1>1
  <2> QED
    BY <1>2, <1>5, <2>1 DEF InOrder
<1>9. \A k \in DOMAIN received : /\ Ahead(received[k], content)
                                 /\ Ahead(received[k], buffer)
  BY <1>2, <1>5 DEF Ahead
<1> QED
  BY <1>2, <1>6, <1>7, <1>8, <1>9

\* What has not been read is neither returned nor about to be.
LEMMA BufferApart ==
    ASSUME TypeOK, Accounted
    PROVE  /\ ToSet(buffer) \cap ToSet(content) = {}
           /\ \A k \in DOMAIN received : ToSet(buffer) \cap ToSet(received[k]) = {}
<1>1. \A b : ~Precedes(b, b)
  BY NotBeforeItself DEF Accounted
<1> QED
  BY <1>1, InsideParts DEF Ahead, ToSet

\* Nothing is accepted, and what is inside stays as it is or loses what was not read.
LEMMA DropAccounted ==
    ASSUME TypeOK, Accounted, UNCHANGED <<accepted, received, content>>,
           \/ UNCHANGED <<buffer, lost>>
           \/ lost' = lost \cup ToSet(buffer) /\ buffer' = <<>>
    PROVE  Accounted'
<1>1. CASE UNCHANGED <<buffer, lost>>
  BY <1>1 DEF Accounted, Inside, InOrder, Ahead, Precedes
<1>2. CASE lost' = lost \cup ToSet(buffer) /\ buffer' = <<>>
  <2>1. Inside' = content
    BY <1>2 DEF Inside, TypeOK
  <2>2. \A b, c : Precedes(b, c)' <=> Precedes(b, c)
    BY DEF Precedes
  <2>3. /\ InOrder(Inside)'
        /\ \A k \in DOMAIN received' :
              /\ InOrder(received[k])'
              /\ Ahead(received[k], Inside)'
              /\ \A l \in DOMAIN received' : k < l => Ahead(received[k], received[l])'
    BY <2>1, <2>2, InsideParts DEF Accounted, InOrder, Ahead
  <2>4. ToSet(accepted) \ lost =
           (UNION {ToSet(received[k]) : k \in DOMAIN received})
               \cup (ToSet(content) \cup ToSet(buffer))
    BY InsideParts DEF Accounted
  <2>5. ToSet(accepted') \ lost' =
           (UNION {ToSet(received'[k]) : k \in DOMAIN received'}) \cup ToSet(Inside')
    BY <1>2, <2>1, <2>4, BufferApart
  <2>6. lost' \subseteq ToSet(accepted')
    BY <1>2, <2>4 DEF Accounted
  <2> QED
    BY <2>3, <2>5, <2>6 DEF Accounted
<1> QED
  BY <1>1, <1>2

\* A block that is read stays inside.
LEMMA ReadMoves ==
    ASSUME TypeOK, ReadBlock
    PROVE  Inside' = Inside
<1>1. /\ content' = Append(content, Head(buffer)) /\ buffer' = Tail(buffer)
      /\ buffer # <<>> /\ content \in Seq(Blocks) /\ buffer \in Seq(Blocks)
  BY DEF ReadBlock, TypeOK
<1> DEFINE s == Append(content, Head(buffer)) \o Tail(buffer)
           t == content \o buffer
<1>2. /\ s \in Seq(Blocks) /\ t \in Seq(Blocks) /\ Len(s) = Len(t)
      /\ \A i \in 1 .. Len(t) : s[i] = t[i]
  BY <1>1
<1>3. s = t
  BY <1>2
<1> QED
  BY <1>1, <1>3 DEF Inside

LEMMA ReadBlockAccounted ==
    ASSUME TypeOK, Accounted, ReadBlock
    PROVE  Accounted'
<1>1. Inside' = Inside /\ UNCHANGED <<received, accepted, lost>>
  BY ReadMoves DEF ReadBlock, ghostVars
<1> QED
  BY <1>1 DEF Accounted, InOrder, Ahead, Precedes

\* A call of read_blocking returns what it has read, behind what was returned.
LEMMA ReturnAccounted ==
    ASSUME TypeOK, Accounted, UNCHANGED accepted,
           received' = Append(received, content), content' = <<>>,
           \/ UNCHANGED <<buffer, lost>>
           \/ lost' = lost \cup ToSet(buffer) /\ buffer' = <<>>
    PROVE  Accounted'
<1> DEFINE n == Len(received)
<1>1. /\ received \in Seq(Seq(Blocks)) /\ buffer \in Seq(Blocks) /\ n \in Nat
      /\ DOMAIN received' = 1 .. n + 1 /\ DOMAIN received = 1 .. n
      /\ \A k \in 1 .. n : received'[k] = received[k]
      /\ received'[n + 1] = content
  BY DEF TypeOK
<1> HIDE DEF n
<1>2. Inside' = buffer' /\ buffer' \in Seq(Blocks) /\ (buffer' = buffer \/ buffer' = <<>>)
  <2>1. buffer' \in Seq(Blocks) /\ (buffer' = buffer \/ buffer' = <<>>)
    <3>1. CASE UNCHANGED <<buffer, lost>>
      BY <1>1, <3>1
    <3>2. CASE lost' = lost \cup ToSet(buffer) /\ buffer' = <<>>
      BY <3>2
    <3> QED
      BY <3>1, <3>2
  <2>2. <<>> \o buffer' = buffer'
    BY <2>1
  <2> QED
    BY <2>1, <2>2 DEF Inside
<1>3. \A b, c : Precedes(b, c)' <=> Precedes(b, c)
  BY DEF Precedes
<1>4. InOrder(Inside)' /\ IsInjective(accepted')
  BY <1>2, <1>3, InsideParts DEF Accounted, InOrder
<1>5. ToSet(accepted') \ lost' =
         (UNION {ToSet(received'[k]) : k \in DOMAIN received'}) \cup ToSet(Inside')
  <2>1. ToSet(accepted) \ lost =
           (UNION {ToSet(received[k]) : k \in DOMAIN received})
               \cup (ToSet(content) \cup ToSet(buffer))
    BY InsideParts DEF Accounted
  <2>2. (UNION {ToSet(received'[k]) : k \in DOMAIN received'})
           = (UNION {ToSet(received[k]) : k \in DOMAIN received}) \cup ToSet(content)
    <3>1. \A k \in 1 .. n + 1 : k \in 1 .. n \/ k = n + 1
      BY <1>1
    <3>2. n + 1 \in 1 .. n + 1 /\ 1 .. n \subseteq 1 .. n + 1
      BY <1>1
    <3> QED
      BY <1>1, <3>1, <3>2
  <2>3. ToSet(accepted') \ lost' =
           (UNION {ToSet(received[k]) : k \in DOMAIN received})
               \cup (ToSet(content) \cup ToSet(buffer'))
    <3>1. CASE UNCHANGED <<buffer, lost>>
      BY <2>1, <3>1
    <3>2. CASE lost' = lost \cup ToSet(buffer) /\ buffer' = <<>>
      <4>1. ToSet(buffer') = {}
        BY <3>2 DEF ToSet
      <4> QED
        BY <2>1, <3>2, <4>1, BufferApart
    <3> QED
      BY <3>1, <3>2
  <2> QED
    BY <1>2, <2>2, <2>3
<1>7. lost' \subseteq ToSet(accepted')
  BY InsideParts DEF Accounted
<1>6. ASSUME NEW k \in DOMAIN received'
      PROVE  /\ InOrder(received[k])'
             /\ Ahead(received[k], Inside)'
             /\ \A l \in DOMAIN received' : k < l => Ahead(received[k], received[l])'
  <2>1. CASE k \in 1 .. n
    <3>1. InOrder(received[k])' /\ Ahead(received[k], Inside)'
      BY <1>1, <1>2, <1>3, <2>1, InsideParts DEF Accounted, InOrder, Ahead
    <3>2. ASSUME NEW l \in DOMAIN received', k < l PROVE Ahead(received[k], received[l])'
      <4>1. CASE l \in 1 .. n
        BY <1>1, <1>3, <2>1, <3>2, <4>1 DEF Accounted, Ahead
      <4>2. CASE l = n + 1
        BY <1>1, <1>3, <2>1, <4>2, InsideParts DEF Ahead
      <4> QED
        BY <1>1, <4>1, <4>2
    <3> QED
      BY <3>1, <3>2
  <2>2. CASE k = n + 1
    <3>1. InOrder(received[k])' /\ Ahead(received[k], Inside)'
      BY <1>1, <1>2, <1>3, <2>2, InsideParts DEF InOrder, Ahead
    <3>2. \A l \in DOMAIN received' : ~(k < l)
      BY <1>1, <2>2
    <3> QED
      BY <3>1, <3>2
  <2> QED
    BY <1>1, <2>1, <2>2
<1> QED
  BY <1>4, <1>5, <1>6, <1>7 DEF Accounted

\* What write() takes comes behind all that was accepted before, in order.
LEMMA AcceptedBehind ==
    ASSUME TypeOK, NEW t \in Seq(Blocks), accepted' = accepted \o t
    PROVE  /\ \A b \in ToSet(accepted), j \in DOMAIN t : Precedes(b, t[j])'
           /\ InOrder(t)'
           /\ ToSet(accepted') = ToSet(accepted) \cup ToSet(t)
<1>1. /\ accepted \in Seq(Blocks) /\ ToSet(accepted') = ToSet(accepted) \cup ToSet(t)
      /\ \A p \in DOMAIN accepted : p \in DOMAIN accepted' /\ accepted'[p] = accepted[p]
      /\ \A j \in DOMAIN t : /\ Len(accepted) + j \in DOMAIN accepted'
                             /\ accepted'[Len(accepted) + j] = t[j]
  BY Concatenation DEF TypeOK
<1>2. ASSUME NEW b \in ToSet(accepted), NEW j \in DOMAIN t PROVE Precedes(b, t[j])'
  <2>1. PICK p \in DOMAIN accepted : accepted[p] = b
    BY <1>2 DEF ToSet
  <2>2. p < Len(accepted) + j
    BY <1>1
  <2> QED
    BY <1>1, <2>1, <2>2 DEF Precedes
<1>3. ASSUME NEW i \in DOMAIN t, NEW j \in DOMAIN t, i < j PROVE Precedes(t[i], t[j])'
  <2>1. Len(accepted) + i < Len(accepted) + j
    BY <1>1, <1>3
  <2> QED
    BY <1>1, <2>1 DEF Precedes
<1> QED
  BY <1>1, <1>2, <1>3 DEF InOrder

\* A beginning of a message goes behind what is inside.
LEMMA WriteAccounted ==
    ASSUME PipeInv, Accounted, NEW w \in Writers, Write(w)
    PROVE  Accounted'
<1>1. /\ UNCHANGED <<content, received, lost>>
      /\ accepted \in Seq(Blocks) /\ buffer \in Seq(Blocks) /\ content \in Seq(Blocks)
      /\ \A p \in DOMAIN accepted : accepted[p][1] # w
  BY DEF Write, readVars, PipeInv, TypeOK, OnlyDoneInside
<1>2. CASE UNCHANGED <<buffer, accepted>>
  BY <1>1, <1>2, DropAccounted DEF PipeInv
<1>3. CASE handle[w] = "current" /\ Open /\ Taken(w) > 0
  <2>1. PICK t : /\ t = SubSeq(Message(w), 1, Taken(w))
                 /\ buffer' = buffer \o t /\ accepted' = accepted \o t
    BY <1>3 DEF Write
  <2>2. Taken(w) \in 0 .. Size[w] /\ Size[w] \in Nat
    BY TakenBound, ConstantsAssumption DEF PipeInv
  <2>3. t \in Seq(Blocks) /\ \A i \in DOMAIN t : t[i] = <<w, i>>
    BY <2>1, <2>2, TakenBlocks
  <2>4. /\ \A b \in ToSet(accepted), j \in DOMAIN t : Precedes(b, t[j])'
        /\ InOrder(t)' /\ ToSet(accepted') = ToSet(accepted) \cup ToSet(t)
    BY <2>1, <2>3, AcceptedBehind DEF PipeInv
  <2>5. \A b, c : Precedes(b, c) => Precedes(b, c)'
    BY <2>1, <2>3, PrecedesStays DEF PipeInv
  <2>6. Inside \in Seq(Blocks) /\ Inside' = Inside \o t
    <3>1. content \o (buffer \o t) = (content \o buffer) \o t
      BY <1>1, <2>3, Regrouped
    <3>2. Inside' = content \o (buffer \o t)
      BY <1>1, <2>1 DEF Inside
    <3>3. Inside \in Seq(Blocks)
      BY <1>1 DEF Inside
    <3> QED
      BY <3>1, <3>2, <3>3 DEF Inside
  <2>7. /\ \A i \in DOMAIN Inside : i \in DOMAIN Inside' /\ Inside'[i] = Inside[i]
        /\ \A i \in DOMAIN Inside' : i \notin DOMAIN Inside =>
              /\ i > Len(Inside) /\ i - Len(Inside) \in DOMAIN t
              /\ Inside'[i] = t[i - Len(Inside)]
        /\ ToSet(Inside') = ToSet(Inside) \cup ToSet(t)
    BY <2>3, <2>6, Concatenation
  <2>8. \A b \in ToSet(Inside) : b \in ToSet(accepted)
    BY DEF Accounted
  <2>9. \A k \in DOMAIN received : \A b \in ToSet(received[k]) : b \in ToSet(accepted)
    BY DEF Accounted
  <2>10. IsInjective(accepted')
    <3> SUFFICES ASSUME NEW p \in DOMAIN accepted', NEW q \in DOMAIN accepted',
                        accepted'[p] = accepted'[q]
                 PROVE  p = q
      BY DEF IsInjective
    <3>1. /\ \A r \in DOMAIN accepted : accepted'[r] = accepted[r]
          /\ \A r \in DOMAIN accepted' : r \notin DOMAIN accepted =>
                r - Len(accepted) \in DOMAIN t /\ accepted'[r] = t[r - Len(accepted)]
      <4>1. /\ \A r \in DOMAIN accepted : (accepted \o t)[r] = accepted[r]
            /\ \A r \in DOMAIN (accepted \o t) : r \notin DOMAIN accepted =>
                  /\ r - Len(accepted) \in DOMAIN t
                  /\ (accepted \o t)[r] = t[r - Len(accepted)]
        BY <1>1, <2>3, Concatenation
      <4> QED
        BY <2>1, <4>1
    <3>2. p \in Int /\ q \in Int /\ Len(accepted) \in Int
      BY <1>1, <2>1, <2>3
    <3>3. CASE p \in DOMAIN accepted /\ q \in DOMAIN accepted
      BY <3>1, <3>3 DEF Accounted, IsInjective
    <3>4. CASE p \notin DOMAIN accepted /\ q \notin DOMAIN accepted
      <4>1. p - Len(accepted) = q - Len(accepted)
        BY <2>3, <3>1, <3>4
      <4> QED
        BY <3>2, <4>1
    <3>5. (p \in DOMAIN accepted) <=> (q \in DOMAIN accepted)
      <4>1. \A r \in DOMAIN accepted : accepted[r] # <<w, p - Len(accepted)>>
                                       /\ accepted[r] # <<w, q - Len(accepted)>>
        BY <1>1
      <4> QED
        BY <2>3, <3>1, <4>1
    <3> QED
      BY <3>3, <3>4, <3>5
  <2>12. ToSet(t) \cap lost = {}
    <3>1. \A b \in lost : b[1] # w
      BY <1>1 DEF Accounted, ToSet
    <3> QED
      BY <2>3, <3>1 DEF ToSet
  <2>13. lost' \subseteq ToSet(accepted')
    BY <1>1, <2>4 DEF Accounted
  <2>14. ToSet(accepted') \ lost' =
           (UNION {ToSet(received'[k]) : k \in DOMAIN received'}) \cup ToSet(Inside')
    BY <1>1, <2>4, <2>7, <2>12 DEF Accounted
  <2>15. InOrder(Inside)'
    <3> SUFFICES ASSUME NEW i \in DOMAIN Inside', NEW j \in DOMAIN Inside', i < j
                 PROVE  Precedes(Inside[i], Inside[j])'
      BY DEF InOrder
    <3>1. CASE i \in DOMAIN Inside /\ j \in DOMAIN Inside
      BY <2>5, <2>7, <3>1 DEF Accounted, InOrder
    <3>2. CASE i \in DOMAIN Inside /\ j \notin DOMAIN Inside
      <4>1. Inside'[i] \in ToSet(accepted)
        BY <2>7, <2>8, <3>2 DEF ToSet
      <4> QED
        BY <2>4, <2>7, <3>2, <4>1
    <3>3. CASE i \notin DOMAIN Inside
      <4>1. j \notin DOMAIN Inside /\ i - Len(Inside) < j - Len(Inside)
        BY <2>6, <2>7, <3>3
      <4> QED
        BY <2>4, <2>7, <3>3, <4>1 DEF InOrder
    <3> QED
      BY <3>1, <3>2, <3>3
  <2>16. ASSUME NEW k \in DOMAIN received'
         PROVE  /\ InOrder(received[k])'
                /\ Ahead(received[k], Inside)'
                /\ \A l \in DOMAIN received' : k < l => Ahead(received[k], received[l])'
    <3>1. InOrder(received[k])'
          /\ \A l \in DOMAIN received' : k < l => Ahead(received[k], received[l])'
      BY <1>1, <2>5 DEF Accounted, InOrder, Ahead
    <3>2. ASSUME NEW i \in DOMAIN received[k], NEW j \in DOMAIN Inside'
          PROVE  Precedes(received[k][i], Inside[j])'
      <4>1. CASE j \in DOMAIN Inside
        BY <1>1, <2>5, <2>7, <4>1 DEF Accounted, Ahead
      <4>2. CASE j \notin DOMAIN Inside
        <5>1. received[k][i] \in ToSet(accepted) /\ UNCHANGED received
          BY <1>1, <2>9 DEF ToSet
        <5> QED
          BY <2>4, <2>7, <4>2, <5>1
      <4> QED
        BY <4>1, <4>2
    <3> QED
      BY <1>1, <3>1, <3>2 DEF Ahead
  <2> QED
    BY <2>10, <2>13, <2>14, <2>15, <2>16 DEF Accounted
<1> QED
  BY <1>2, <1>3 DEF Write

\* Outside of a call that has found something, nothing has been read.
LEMMA NextNothingRead == NothingRead /\ [Next]_vars => NothingRead'
BY DEF NothingRead, Next, Read, WriteStep, vars, readVars, writeVars, ghostVars, create,
       destroy, OpenRead, PollReady, PollNothing, PollAgain, PollTimeout,
       PollInterrupted, ReadBlock, ReadEnd, CloseRead, write, OpenWrite,
       OpenWriteFails, Wake, Write, CloseWrite, Kill

\* The account is right before the first step.
LEMMA InitAccounted == Init => Accounted /\ NothingRead
BY DEF Init, Accounted, NothingRead, IsInjective, ToSet, Inside, InOrder, Ahead

LEMMA NextAccounted ==
    ASSUME PipeInv, NothingRead, Accounted, [Next]_vars
    PROVE  Accounted'
<1> USE DEF readVars, writeVars, ghostVars
<1>1. TypeOK
  BY DEF PipeInv
<1>2. CASE create \/ OpenRead \/ PollReady \/ PollNothing \/ PollAgain \/ PollTimeout
           \/ PollInterrupted \/ ReadEnd
  BY <1>1, <1>2, DropAccounted
     DEF NothingRead, create, OpenRead, PollReady, PollNothing, PollAgain, PollTimeout,
         PollInterrupted, ReadEnd
<1>3. CASE destroy
  BY <1>1, <1>3, DropAccounted DEF destroy
<1>4. CASE ReadBlock
  BY <1>1, <1>4, ReadBlockAccounted
<1>5. CASE CloseRead
  <2>1. /\ UNCHANGED accepted /\ content' = <<>>
        /\ \/ UNCHANGED <<buffer, lost>>
           \/ lost' = lost \cup ToSet(buffer) /\ buffer' = <<>>
    BY <1>5 DEF CloseRead
  <2>2. CASE content = <<>>
    BY <1>1, <1>5, <2>1, <2>2, DropAccounted DEF CloseRead
  <2>3. CASE content # <<>>
    BY <1>1, <1>5, <2>1, <2>3, ReturnAccounted DEF CloseRead
  <2> QED
    BY <2>2, <2>3
<1>6. ASSUME NEW w \in Writers, write(w) \/ WriteStep(w) \/ Kill(w) PROVE Accounted'
  <2>1. CASE Write(w)
    BY <2>1, WriteAccounted
  <2>2. CASE write(w) \/ OpenWrite(w) \/ OpenWriteFails(w) \/ Wake(w) \/ CloseWrite(w)
             \/ Kill(w)
    BY <1>1, <2>2, DropAccounted
       DEF write, OpenWrite, OpenWriteFails, Wake, CloseWrite, Kill
  <2> QED
    BY <1>6, <2>1, <2>2 DEF WriteStep
<1>7. CASE UNCHANGED vars
  BY <1>1, <1>7, DropAccounted DEF vars
<1> QED
  BY <1>2, <1>3, <1>4, <1>5, <1>6, <1>7 DEF Next, Read

-----------------------------------------------------------------------------
(***************************************************************************)
(* WholeMessages: no message is cut.                                       *)
(***************************************************************************)
\* Messages of at most PIPE_BUF bytes: write() takes them as a whole.
AtomicMessages == \A w \in Writers : Size[w] <= AtomicBlocks

\* Every block stands in a whole message.
Whole(s) ==
    \A i \in DOMAIN s :
        LET w == s[i][1]
            at == i - s[i][2]
        IN  /\ at >= 0 /\ at + Size[w] <= Len(s)
            /\ \A m \in 1 .. Size[w] : s[at + m] = <<w, m>>

\* The call that has read to the end has whole messages, and what came in since
\* is a call of its own.
Uncut ==
    /\ Whole(Inside)
    /\ reader = "drained" => Whole(content) /\ Whole(buffer)
    /\ \A k \in DOMAIN received : Whole(received[k])

\* A block is that of a writer, and one of its message.
LEMMA BlockParts ==
    \A b \in Blocks : /\ b[1] \in Writers /\ b[2] \in 1 .. Size[b[1]]
                      /\ Size[b[1]] \in Nat /\ b = <<b[1], b[2]>>
BY ConstantsAssumption DEF Blocks

LEMMA WholeEmpty == Whole(<<>>)
BY DEF Whole

LEMMA WholeMessage ==
    ASSUME NEW w \in Writers
    PROVE  Whole(Message(w)) /\ Message(w) \in Seq(Blocks)
<1>1. Size[w] \in Nat
  BY ConstantsAssumption
<1>2. \A i \in 1 .. Size[w] : <<w, i>> \in Blocks
  BY DEF Blocks
<1>3. Message(w) \in Seq(Blocks) /\ Len(Message(w)) = Size[w]
      /\ \A i \in 1 .. Size[w] : Message(w)[i] = <<w, i>>
  BY <1>1, <1>2 DEF Message
<1> QED
  BY <1>1, <1>3 DEF Whole

LEMMA WholeTogether ==
    ASSUME NEW s \in Seq(Blocks), NEW t \in Seq(Blocks), Whole(s), Whole(t)
    PROVE  Whole(s \o t)
<1> DEFINE u == s \o t
<1>1. /\ Len(u) = Len(s) + Len(t) /\ u \in Seq(Blocks)
      /\ \A i \in DOMAIN s : u[i] = s[i]
      /\ \A j \in DOMAIN t : u[Len(s) + j] = t[j]
      /\ \A i \in DOMAIN u : i \notin DOMAIN s =>
            i > Len(s) /\ i - Len(s) \in DOMAIN t /\ u[i] = t[i - Len(s)]
  BY Concatenation
<1> HIDE DEF u
<1> SUFFICES ASSUME NEW i \in DOMAIN u
             PROVE  LET w == u[i][1]
                        at == i - u[i][2]
                    IN  /\ at >= 0 /\ at + Size[w] <= Len(u)
                        /\ \A m \in 1 .. Size[w] : u[at + m] = <<w, m>>
  BY DEF Whole, u
<1> DEFINE w == u[i][1]
           n == u[i][2]
<1>2. w \in Writers /\ n \in 1 .. Size[w] /\ u[i] = <<w, n>> /\ Size[w] \in Nat
  <2>1. u[i] \in Blocks
    BY <1>1
  <2> QED
    BY <2>1, BlockParts
<1> HIDE DEF w, n
<1>3. CASE i \in DOMAIN s
  <2>1. /\ i - n >= 0 /\ i - n + Size[w] <= Len(s)
        /\ \A m \in 1 .. Size[w] : s[i - n + m] = <<w, m>>
    <3>1. s[i] = <<w, n>>
      BY <1>1, <1>2, <1>3
    <3>2. s[i][1] = w /\ s[i][2] = n
      BY <3>1
    <3>3. /\ i - s[i][2] >= 0 /\ i - s[i][2] + Size[s[i][1]] <= Len(s)
          /\ \A m \in 1 .. Size[s[i][1]] : s[i - s[i][2] + m] = <<s[i][1], m>>
      BY <1>3 DEF Whole
    <3> QED
      BY <3>2, <3>3
  <2>2. ASSUME NEW m \in 1 .. Size[w] PROVE u[i - n + m] = <<w, m>>
    <3>1. i - n + m \in DOMAIN s
      BY <1>2, <1>3, <2>1
    <3> QED
      BY <1>1, <2>1, <3>1
  <2> QED
    BY <1>1, <1>2, <2>1, <2>2 DEF w, n
<1>4. CASE i \notin DOMAIN s
  <2> DEFINE j == i - Len(s)
  <2>1. j \in DOMAIN t /\ t[j] = <<w, n>>
    BY <1>1, <1>2, <1>4
  <2>2. /\ j - n >= 0 /\ j - n + Size[w] <= Len(t)
        /\ \A m \in 1 .. Size[w] : t[j - n + m] = <<w, m>>
    BY <1>2, <2>1 DEF Whole
  <2>3. ASSUME NEW m \in 1 .. Size[w] PROVE u[i - n + m] = <<w, m>>
    <3>1. j - n + m \in DOMAIN t
      BY <1>2, <2>1, <2>2
    <3>2. u[Len(s) + (j - n + m)] = <<w, m>>
      BY <1>1, <2>2, <3>1
    <3>3. Len(s) + (j - n + m) = i - n + m
      BY <1>1, <1>2
    <3> QED
      BY <3>2, <3>3
  <2>4. i - n >= 0 /\ i - n + Size[w] <= Len(u)
    BY <1>1, <1>2, <2>2
  <2> QED
    BY <1>2, <2>3, <2>4 DEF w, n
<1> QED
  BY <1>3, <1>4

\* A message that is written is written as a whole.
LEMMA WriteUncut ==
    ASSUME AtomicMessages, PipeInv, NothingRead, Uncut, NEW w \in Writers, Write(w)
    PROVE  Uncut'
<1>1. /\ UNCHANGED <<reader, content, received>>
      /\ content \in Seq(Blocks) /\ buffer \in Seq(Blocks)
  BY DEF Write, readVars, PipeInv, TypeOK
<1>2. CASE UNCHANGED buffer
  BY <1>1, <1>2 DEF Uncut, Inside
<1>3. CASE handle[w] = "current" /\ Open /\ Taken(w) > 0
  <2>1. Size[w] \in Nat /\ Taken(w) = Size[w] /\ Message(w) \in Seq(Blocks)
        /\ Len(Message(w)) = Size[w]
    BY <1>3, ConstantsAssumption, WholeMessage DEF Taken, AtomicMessages, Message
  <2>2. SubSeq(Message(w), 1, Taken(w)) = Message(w)
    BY <2>1
  <2>3. buffer' = buffer \o Message(w)
    BY <1>3, <2>2 DEF Write
  <2>4. Inside' = Inside \o Message(w) /\ Inside \in Seq(Blocks)
    BY <1>1, <2>1, <2>3, Regrouped DEF Inside
  <2>5. Whole(Inside')
    BY <2>1, <2>4, WholeMessage, WholeTogether DEF Uncut
  <2>6. reader' = "drained" => Whole(content') /\ Whole(buffer')
    BY <1>1, <2>1, <2>3, WholeMessage, WholeTogether DEF Uncut
  <2> QED
    BY <1>1, <2>5, <2>6 DEF Uncut
<1> QED
  BY <1>2, <1>3 DEF Write

\* Reading a block moves it, and a call that returns takes what it read away.
LEMMA NextUncut ==
    ASSUME AtomicMessages, PipeInv, NothingRead, Uncut, [Next]_vars
    PROVE  Uncut'
<1> USE DEF readVars, writeVars, ghostVars
<1>1. /\ content \in Seq(Blocks) /\ buffer \in Seq(Blocks)
      /\ received \in Seq(Seq(Blocks))
  BY DEF PipeInv, TypeOK
<1>2. ASSUME UNCHANGED <<content, received>>, reader' # "drained" \/ UNCHANGED reader,
             \/ UNCHANGED buffer
             \/ content = <<>> /\ buffer' = <<>>
      PROVE  Uncut'
  <2>1. CASE UNCHANGED buffer
    BY <1>2, <2>1 DEF Uncut, Inside
  <2>2. CASE content = <<>> /\ buffer' = <<>>
    <3>1. <<>> \o <<>> = <<>>
      OBVIOUS
    <3>2. Whole(Inside') /\ Whole(content') /\ Whole(buffer')
      BY <1>2, <2>2, <3>1, WholeEmpty DEF Inside
    <3> QED
      BY <1>2, <3>2 DEF Uncut
  <2> QED
    BY <1>2, <2>1, <2>2
<1>3. CASE create \/ OpenRead \/ PollReady \/ PollNothing \/ PollAgain \/ PollTimeout
           \/ PollInterrupted
  BY <1>2, <1>3
     DEF NothingRead, create, OpenRead, PollReady, PollNothing, PollAgain, PollTimeout,
         PollInterrupted
<1>4. CASE destroy
  BY <1>2, <1>4 DEF NothingRead, destroy
<1>5. CASE ReadBlock
  <2>1. Inside' = Inside /\ reader' = "reading" /\ UNCHANGED received
    BY <1>5, ReadMoves DEF ReadBlock, PipeInv
  <2> QED
    BY <2>1 DEF Uncut
<1>6. CASE ReadEnd
  <2>1. UNCHANGED <<content, buffer, received>> /\ buffer = <<>>
    BY <1>6 DEF ReadEnd, Idle
  <2>2. Inside = content
    BY <1>1, <2>1 DEF Inside
  <2> QED
    BY <2>1, <2>2, WholeEmpty DEF Uncut, Inside
<1>7. CASE CloseRead
  <2>1. /\ reader' = "idle" /\ content' = <<>> /\ (buffer' = buffer \/ buffer' = <<>>)
        /\ received' = IF content = <<>> THEN received ELSE Append(received, content)
        /\ reader \in {"drained", "interrupted", "timeout"}
    BY <1>7 DEF CloseRead
  <2>2. Whole(content) /\ Whole(buffer)
    <3>1. CASE reader = "drained"
      BY <3>1 DEF Uncut
    <3>2. CASE reader # "drained"
      <4>1. content = <<>> /\ Inside = buffer
        BY <1>1, <2>1, <3>2 DEF NothingRead, Inside
      <4> QED
        BY <4>1, WholeEmpty DEF Uncut
    <3> QED
      BY <3>1, <3>2
  <2>3. Whole(Inside')
    <3>1. Inside' = buffer'
      BY <1>1, <2>1 DEF Inside
    <3> QED
      BY <2>1, <2>2, <3>1, WholeEmpty
  <2>4. \A k \in DOMAIN received' : Whole(received'[k])
    <3>1. CASE content = <<>>
      BY <2>1, <3>1 DEF Uncut
    <3>2. CASE content # <<>>
      <4> SUFFICES ASSUME NEW k \in DOMAIN received' PROVE Whole(received'[k])
        OBVIOUS
      <4>1. received' = Append(received, content)
        BY <2>1, <3>2
      <4>2. CASE k \in DOMAIN received
        BY <1>1, <4>1, <4>2 DEF Uncut
      <4>3. CASE k \notin DOMAIN received
        <5>1. received'[k] = content
          BY <1>1, <4>1, <4>3
        <5> QED
          BY <2>2, <5>1
      <4> QED
        BY <4>2, <4>3
    <3> QED
      BY <3>1, <3>2
  <2> QED
    BY <2>1, <2>3, <2>4 DEF Uncut
<1>8. ASSUME NEW w \in Writers, write(w) \/ WriteStep(w) \/ Kill(w) PROVE Uncut'
  <2>1. CASE Write(w)
    BY <2>1, WriteUncut
  <2>2. CASE CloseWrite(w)
    <3>1. UNCHANGED <<content, received, reader>>
          /\ (UNCHANGED buffer \/ (~Open /\ buffer' = <<>>))
      BY <2>2 DEF CloseWrite
    <3> QED
      BY <1>2, <3>1 DEF NothingRead, Open
  <2>3. CASE write(w) \/ OpenWrite(w) \/ OpenWriteFails(w) \/ Wake(w) \/ Kill(w)
    BY <1>2, <2>3 DEF write, OpenWrite, OpenWriteFails, Wake, Kill
  <2> QED
    BY <1>8, <2>1, <2>2, <2>3 DEF WriteStep
<1>9. CASE UNCHANGED vars
  BY <1>2, <1>9 DEF vars
<1> QED
  BY <1>3, <1>4, <1>5, <1>6, <1>7, <1>8, <1>9 DEF Next, Read

\* What stands in a whole message is read as one.
LEMMA UncutWhole ==
    ASSUME PipeInv, Uncut
    PROVE  WholeMessages
<1> SUFFICES ASSUME NEW k \in DOMAIN received, NEW w \in Writers,
                    NEW i \in DOMAIN received[k], received[k][i][1] = w
             PROVE  \E m \in 1 .. (Len(received[k]) - Size[w] + 1) :
                       SubSeq(received[k], m, m + Size[w] - 1) = Message(w)
  BY DEF WholeMessages, ToSet
<1> DEFINE c == received[k]
           at == i - c[i][2]
<1>1. c \in Seq(Blocks)
  BY DEF PipeInv, TypeOK
<1>2. c[i][2] \in 1 .. Size[w] /\ Size[w] \in Nat \ {0}
  BY <1>1, BlockParts, ConstantsAssumption
<1>3. /\ at >= 0 /\ at + Size[w] <= Len(c)
      /\ \A m \in 1 .. Size[w] : c[at + m] = <<w, m>>
  BY DEF Uncut, Whole
<1>4. at \in Int /\ i \in Int
  BY <1>1, <1>2
<1> HIDE DEF at, c
<1> DEFINE s == SubSeq(c, at + 1, (at + 1) + Size[w] - 1)
<1>5. s = Message(w)
  <2>1. s \in Seq(Blocks) /\ Len(s) = Size[w]
    BY <1>1, <1>2, <1>3, <1>4
  <2>2. Message(w) \in Seq(Blocks) /\ Len(Message(w)) = Size[w]
    BY <1>2, WholeMessage DEF Message
  <2>3. ASSUME NEW m \in 1 .. Size[w] PROVE s[m] = Message(w)[m]
    <3>1. s[m] = c[at + 1 + m - 1]
      BY <1>1, <1>2, <1>3, <1>4
    <3>2. at + 1 + m - 1 = at + m
      BY <1>4
    <3> QED
      BY <1>3, <3>1, <3>2 DEF Message
  <2> HIDE DEF s
  <2> QED
    BY <1>2, <2>1, <2>2, <2>3
<1>6. at + 1 \in 1 .. (Len(c) - Size[w] + 1)
  BY <1>1, <1>2, <1>3, <1>4
<1> QED
  BY <1>5, <1>6 DEF c

-----------------------------------------------------------------------------
(***************************************************************************)
(* NamedPipe implements PipeService.                                       *)
(***************************************************************************)
\* What is dropped is dropped in whole messages.
LostWhole == \A b \in lost : ToSet(Message(b[1])) \subseteq lost

ServiceInv == PipeInv /\ NothingRead /\ Accounted /\ Uncut /\ LostWhole

Within(w, s) == ToSet(Message(w)) \subseteq ToSet(s)

LEMMA MessageBlocks ==
    ASSUME NEW w \in Writers
    PROVE  /\ ToSet(Message(w)) = {<<w, i>> : i \in 1 .. Size[w]}
           /\ <<w, 1>> \in ToSet(Message(w))
<1>1. Size[w] \in Nat \ {0} /\ 1 \in 1 .. Size[w]
  BY ConstantsAssumption
<1> QED
  BY <1>1 DEF Message, ToSet

\* One block in a whole sequence brings the others of its message.
LEMMA WholeWithin ==
    ASSUME NEW s \in Seq(Blocks), Whole(s), NEW b \in ToSet(s)
    PROVE  b[1] \in Writers /\ Within(b[1], s)
<1>1. PICK i \in DOMAIN s : s[i] = b
  BY DEF ToSet
<1>2. b[1] \in Writers /\ b[2] \in 1 .. Size[b[1]] /\ Size[b[1]] \in Nat
  <2>1. s[i] \in Blocks
    OBVIOUS
  <2> QED
    BY <1>1, <2>1, BlockParts
<1>3. /\ i - b[2] >= 0 /\ i - b[2] + Size[b[1]] <= Len(s)
      /\ \A m \in 1 .. Size[b[1]] : s[i - b[2] + m] = <<b[1], m>>
  BY <1>1 DEF Whole
<1>4. ASSUME NEW m \in 1 .. Size[b[1]] PROVE <<b[1], m>> \in ToSet(s)
  <2>1. i - b[2] + m \in DOMAIN s
    BY <1>2, <1>3
  <2> QED
    BY <1>3, <2>1 DEF ToSet
<1>5. ToSet(Message(b[1])) = {<<b[1], m>> : m \in 1 .. Size[b[1]]}
  BY <1>2, MessageBlocks
<1> QED
  BY <1>2, <1>4, <1>5 DEF Within

\* Whatever is left when a call is over is whole: it may be returned or dropped.
LEMMA WholeBuffer ==
    ASSUME PipeInv, NothingRead, Uncut, reader # "reading"
    PROVE  Whole(buffer) /\ buffer \in Seq(Blocks)
<1>1. content \in Seq(Blocks) /\ buffer \in Seq(Blocks)
  BY DEF PipeInv, TypeOK
<1>2. CASE reader = "drained"
  BY <1>1, <1>2 DEF Uncut
<1>3. CASE reader # "drained"
  <2>1. Inside = buffer
    BY <1>1, <1>3 DEF NothingRead, Inside
  <2> QED
    BY <1>1, <2>1 DEF Uncut
<1> QED
  BY <1>2, <1>3

LEMMA NextLostWhole ==
    ASSUME PipeInv, NothingRead, Uncut, LostWhole, [Next]_vars
    PROVE  LostWhole'
<1> USE DEF readVars, writeVars, ghostVars
<1>1. ASSUME lost' = lost PROVE LostWhole'
  BY <1>1 DEF LostWhole
<1>2. ASSUME lost' = lost \cup ToSet(buffer), reader # "reading" PROVE LostWhole'
  <2>1. \A b \in ToSet(buffer) : ToSet(Message(b[1])) \subseteq ToSet(buffer)
    BY <1>2, WholeBuffer, WholeWithin DEF Within
  <2> QED
    BY <1>2, <2>1 DEF LostWhole
<1>3. CASE destroy
  BY <1>1, <1>2, <1>3 DEF destroy
<1>4. CASE CloseRead
  BY <1>1, <1>2, <1>4 DEF CloseRead
<1>5. ASSUME NEW w \in Writers, CloseWrite(w) PROVE LostWhole'
  BY <1>1, <1>2, <1>5 DEF CloseWrite, Open
<1>6. CASE create \/ OpenRead \/ PollReady \/ PollNothing \/ PollAgain \/ PollTimeout
           \/ PollInterrupted \/ ReadBlock \/ ReadEnd
  BY <1>1, <1>6 DEF create, OpenRead, PollReady, PollNothing, PollAgain, PollTimeout,
                    PollInterrupted, ReadBlock, ReadEnd
<1>7. ASSUME NEW w \in Writers,
             write(w) \/ OpenWrite(w) \/ OpenWriteFails(w) \/ Wake(w) \/ Write(w) \/ Kill(w)
      PROVE  LostWhole'
  BY <1>1, <1>7 DEF write, OpenWrite, OpenWriteFails, Wake, Write, Kill
<1>8. CASE UNCHANGED vars
  BY <1>1, <1>8 DEF vars
<1> QED
  BY <1>3, <1>4, <1>5, <1>6, <1>7, <1>8 DEF Next, Read, WriteStep

\* Nothing is cut: what the service sees are whole messages.
LEMMA NothingCut ==
    ServiceInv => /\ InFifo = {w \in Writers : Within(w, Inside)}
                  /\ Batches = [k \in DOMAIN received |->
                                  {w \in Writers : Within(w, received[k])}]
                  /\ Dropped = MessagesIn(lost)
<1> SUFFICES ASSUME ServiceInv
             PROVE  /\ InFifo = {w \in Writers : Within(w, Inside)}
                    /\ Batches = [k \in DOMAIN received |->
                                    {w \in Writers : Within(w, received[k])}]
                    /\ Dropped = MessagesIn(lost)
  OBVIOUS
<1>1. ASSUME NEW s \in Seq(Blocks), Whole(s)
      PROVE  Parts(ToSet(s)) = {w \in Writers : Within(w, s)}
  <2>1. Cut(ToSet(s)) = {}
    BY <1>1, WholeWithin DEF Cut, Within
  <2> QED
    BY <2>1 DEF Parts, MessagesIn, Within
<1>2. Inside \in Seq(Blocks) /\ received \in Seq(Seq(Blocks))
  BY DEF ServiceInv, PipeInv, TypeOK, Inside
<1>3. InFifo = {w \in Writers : Within(w, Inside)}
  BY <1>1, <1>2 DEF ServiceInv, Uncut, InFifo
<1>4. \A k \in DOMAIN received :
         Parts(ToSet(received[k])) = {w \in Writers : Within(w, received[k])}
  BY <1>1, <1>2 DEF ServiceInv, Uncut
<1>5. Cut(lost) = {}
  BY DEF ServiceInv, LostWhole, Cut
<1> QED
  BY <1>3, <1>4, <1>5 DEF Batches, Dropped, Parts

LEMMA NothingCutNext ==
    ServiceInv' => /\ InFifo' = {w \in Writers : Within(w, Inside')}
                   /\ Batches' = [k \in DOMAIN received' |->
                                    {w \in Writers : Within(w, received'[k])}]
                   /\ Dropped' = {w \in Writers : ToSet(Message(w)) \subseteq lost'}
<1>1. (ServiceInv => /\ InFifo = {w \in Writers : Within(w, Inside)}
                     /\ Batches = [k \in DOMAIN received |->
                                     {w \in Writers : Within(w, received[k])}]
                     /\ Dropped = MessagesIn(lost))'
  BY NothingCut, PTL
<1> QED
  BY <1>1 DEF Within, Message, MessagesIn, ToSet

\* A message whose write is not done has not gone in.
LEMMA NotWentIn ==
    ASSUME ServiceInv, NEW w \in Writers, writer[w] # "done"
    PROVE  w \notin Service!WentIn
<1>1. \A i \in DOMAIN accepted : accepted[i] # <<w, 1>>
  BY DEF ServiceInv, PipeInv, OnlyDoneInside
<1>2. <<w, 1>> \notin ToSet(accepted)
  BY <1>1 DEF ToSet
<1>3. /\ <<w, 1>> \notin lost /\ <<w, 1>> \notin ToSet(Inside)
      /\ \A k \in DOMAIN received : <<w, 1>> \notin ToSet(received[k])
  BY <1>2 DEF ServiceInv, Accounted
<1> QED
  BY <1>3, MessageBlocks, NothingCut DEF Service!WentIn, Within, MessagesIn

\* What the service sees of a step that leaves the blocks where they are.
LEMMA Stays ==
    ASSUME UNCHANGED <<Inside, received, lost, accepted>>
    PROVE  UNCHANGED <<InFifo, FifoOrder, Batches, Dropped>>
<1>1. InFifo' = InFifo
  BY DEF InFifo
<1>2. FifoOrder' = FifoOrder
  BY <1>1 DEF FifoOrder, Precedes
<1> QED
  BY <1>1, <1>2 DEF Batches, Dropped

\* A write that ends without success, or goes on.
LEMMA WriterMoves ==
    ASSUME ServiceInv, UNCHANGED <<Inside, received, lost, accepted>>,
           NEW w \in Writers, NEW next, writer' = [writer EXCEPT ![w] = next],
           writer[w] \notin Ended, next # "done"
    PROVE  Service!GiveUp(w) \/ UNCHANGED Service!vars
<1>1. UNCHANGED <<InFifo, FifoOrder, Batches, Dropped>>
  BY Stays
<1>2. writer[w] # "done" /\ DOMAIN writer = Writers
  BY DEF Ended, ServiceInv, PipeInv, TypeOK
<1>3. w \notin Service!WentIn
  BY <1>2, NotWentIn
<1>4. Outcomes[w] = "open"
  BY <1>2 DEF Outcomes
<1>5. CASE next \in Ended
  <2>1. Outcomes' = [Outcomes EXCEPT ![w] = "given up"]
    BY <1>2, <1>5 DEF Outcomes
  <2> QED
    BY <1>1, <1>3, <1>4, <2>1 DEF Service!GiveUp
<1>6. CASE next \notin Ended
  <2>1. Outcomes' = Outcomes
    BY <1>2, <1>6 DEF Outcomes
  <2> QED
    BY <1>1, <2>1 DEF Service!vars
<1> QED
  BY <1>5, <1>6

\* The messages that are dropped with what has not been read.
LEMMA LostMessages ==
    ASSUME Whole(buffer), buffer \in Seq(Blocks), lost' = lost \cup ToSet(buffer)
    PROVE  {w \in Writers : ToSet(Message(w)) \subseteq lost'}
              = MessagesIn(lost) \cup {w \in Writers : Within(w, buffer)}
<1>1. ASSUME NEW w \in Writers, ToSet(Message(w)) \subseteq lost \cup ToSet(buffer),
             ~(ToSet(Message(w)) \subseteq lost)
      PROVE  Within(w, buffer)
  <2>1. PICK b \in ToSet(Message(w)) : b \in ToSet(buffer)
    BY <1>1
  <2>2. b[1] = w
    <3>1. PICK i \in 1 .. Size[w] : b = <<w, i>>
      BY <2>1, MessageBlocks
    <3> QED
      BY <3>1
  <2> QED
    BY <2>1, <2>2, WholeWithin
<1> QED
  BY <1>1 DEF MessagesIn, Within

\* The FIFO is emptied while no call has found anything.
LEMMA Drops ==
    ASSUME ServiceInv, ServiceInv', content = <<>>, content' = <<>>, buffer' = <<>>,
           lost' = lost \cup ToSet(buffer), UNCHANGED <<accepted, received, writer>>
    PROVE  Service!Drop
<1>1. Inside = buffer /\ Inside' = <<>> /\ buffer \in Seq(Blocks)
  BY DEF Inside, ServiceInv, PipeInv, TypeOK
<1>2. Dropped' = Dropped \cup InFifo
  BY <1>1, LostMessages, NothingCut, NothingCutNext DEF ServiceInv, Uncut
<1>3. InFifo' = {}
  BY <1>1, MessageBlocks, NothingCutNext DEF Within, ToSet
<1>4. FifoOrder' = {}
  BY <1>3 DEF FifoOrder
<1>5. Outcomes' = Outcomes /\ Batches' = Batches
  BY DEF Outcomes, Batches
<1> QED
  BY <1>2, <1>3, <1>4, <1>5 DEF Service!Drop, Service!Keep

\* A message that is written goes in behind the others.
LEMMA Accepts ==
    ASSUME AtomicMessages, ServiceInv, ServiceInv', NEW w \in Writers, Write(w),
           handle[w] = "current", Open, Taken(w) > 0
    PROVE  Service!Accept(w)
<1>1. /\ UNCHANGED <<content, received, lost>> /\ writer[w] = "opened"
      /\ content \in Seq(Blocks) /\ buffer \in Seq(Blocks) /\ TypeOK
      /\ DOMAIN writer = Writers
  BY DEF Write, readVars, ServiceInv, PipeInv, TypeOK
<1>2. /\ Size[w] \in Nat \ {0} /\ Taken(w) = Size[w] /\ Message(w) \in Seq(Blocks)
      /\ Len(Message(w)) = Size[w] /\ \A i \in 1 .. Size[w] : Message(w)[i] = <<w, i>>
  BY ConstantsAssumption, WholeMessage DEF Taken, AtomicMessages, Message
<1>3. SubSeq(Message(w), 1, Taken(w)) = Message(w)
  BY <1>2
<1>4. /\ buffer' = buffer \o Message(w) /\ accepted' = accepted \o Message(w)
      /\ writer' = [writer EXCEPT ![w] = "done"]
  BY <1>3 DEF Write
<1>5. /\ ToSet(Inside') = ToSet(Inside) \cup ToSet(Message(w))
      /\ \A b \in ToSet(Inside) : b \in ToSet(accepted)
  <2>1. Inside' = Inside \o Message(w) /\ Inside \in Seq(Blocks)
    <3>1. content \o (buffer \o Message(w)) = (content \o buffer) \o Message(w)
      BY <1>1, <1>2, Regrouped
    <3>2. content \o buffer \in Seq(Blocks)
      BY <1>1
    <3> QED
      BY <1>1, <1>4, <3>1, <3>2 DEF Inside
  <2>2. ToSet(Inside \o Message(w)) = ToSet(Inside) \cup ToSet(Message(w))
    BY <1>2, <2>1, Concatenation
  <2> QED
    BY <2>1, <2>2 DEF ServiceInv, Accounted
<1>6. ASSUME NEW v \in Writers, v # w PROVE Within(v, Inside') <=> Within(v, Inside)
  <2>1. ToSet(Message(v)) \cap ToSet(Message(w)) = {}
    <3>1. /\ ToSet(Message(v)) = {<<v, i>> : i \in 1 .. Size[v]}
          /\ ToSet(Message(w)) = {<<w, i>> : i \in 1 .. Size[w]}
      BY MessageBlocks
    <3>2. \A i \in 1 .. Size[v], j \in 1 .. Size[w] : <<v, i>> # <<w, j>>
      BY <1>6
    <3> QED
      BY <3>1, <3>2
  <2> QED
    BY <1>5, <2>1 DEF Within
<1>7. InFifo' = InFifo \cup {w} /\ w \notin InFifo /\ w \notin Service!WentIn
  <2>1. w \notin Service!WentIn
    BY <1>1, NotWentIn
  <2>2. Within(w, Inside')
    BY <1>5 DEF Within
  <2>3. w \notin InFifo
    BY <2>1 DEF Service!WentIn
  <2>4. \A v \in Writers : v \in InFifo' <=> Within(v, Inside')
    BY NothingCutNext
  <2>5. InFifo' \subseteq Writers
    BY NothingCutNext
  <2> QED
    BY <1>6, <2>1, <2>2, <2>3, <2>4, <2>5, NothingCut
<1>8. ASSUME NEW v \in InFifo PROVE <<v, 1>> \in ToSet(accepted) /\ v \in Writers /\ v # w
  BY <1>5, <1>7, MessageBlocks, NothingCut DEF Within
<1>9. \A v \in InFifo : Precedes(<<v, 1>>, <<w, 1>>)'
  <2>1. 1 \in DOMAIN Message(w) /\ Message(w)[1] = <<w, 1>>
    BY <1>2
  <2>2. \A b \in ToSet(accepted), j \in DOMAIN Message(w) : Precedes(b, Message(w)[j])'
    BY <1>1, <1>2, <1>4, AcceptedBehind
  <2> QED
    BY <1>8, <2>1, <2>2
<1>10. ASSUME NEW b, NEW v \in InFifo, Precedes(b, <<v, 1>>)' PROVE Precedes(b, <<v, 1>>)
  <2>1. PICK p \in DOMAIN accepted', q \in DOMAIN accepted' :
           p < q /\ accepted'[p] = b /\ accepted'[q] = <<v, 1>>
    BY <1>10 DEF Precedes
  <2>2. /\ accepted \in Seq(Blocks)
        /\ \A i \in DOMAIN accepted : i \in DOMAIN accepted' /\ accepted'[i] = accepted[i]
        /\ \A i \in DOMAIN accepted' : i \notin DOMAIN accepted =>
              /\ i - Len(accepted) \in DOMAIN Message(w)
              /\ accepted'[i] = Message(w)[i - Len(accepted)]
        /\ accepted' \in Seq(Blocks)
    <3>1. accepted \in Seq(Blocks)
      BY <1>1 DEF TypeOK
    <3>2. /\ accepted \o Message(w) \in Seq(Blocks)
          /\ \A i \in DOMAIN accepted :
                /\ i \in DOMAIN (accepted \o Message(w))
                /\ (accepted \o Message(w))[i] = accepted[i]
          /\ \A i \in DOMAIN (accepted \o Message(w)) : i \notin DOMAIN accepted =>
                /\ i - Len(accepted) \in DOMAIN Message(w)
                /\ (accepted \o Message(w))[i] = Message(w)[i - Len(accepted)]
      BY <1>2, <3>1, Concatenation
    <3> QED
      BY <1>4, <3>1, <3>2
  <2>3. q \in DOMAIN accepted
    <3> SUFFICES ASSUME q \notin DOMAIN accepted PROVE FALSE
      OBVIOUS
    <3>1. <<v, 1>> = <<w, q - Len(accepted)>>
      BY <1>2, <2>1, <2>2
    <3> QED
      BY <1>8, <3>1
  <2>4. p \in DOMAIN accepted
    BY <2>1, <2>2, <2>3
  <2> QED
    BY <2>1, <2>2, <2>3, <2>4 DEF Precedes
<1>11. ~Precedes(<<w, 1>>, <<w, 1>>)'
  <2>1. Accounted' /\ TypeOK'
    BY WriteAccounted, WriteInv DEF ServiceInv, PipeInv
  <2>2. accepted' \in Seq(Blocks) /\ IsInjective(accepted')
    BY <2>1 DEF Accounted, TypeOK
  <2> QED
    BY <2>2 DEF Precedes, IsInjective
<1>12. ASSUME NEW v \in InFifo PROVE ~Precedes(<<w, 1>>, <<v, 1>>)'
  <2>1. \A i \in DOMAIN accepted : accepted[i] # <<w, 1>>
    BY <1>1 DEF ServiceInv, PipeInv, OnlyDoneInside
  <2> QED
    BY <1>10, <2>1 DEF Precedes
<1>13. ASSUME NEW u \in InFifo, NEW v \in InFifo, Precedes(<<u, 1>>, <<v, 1>>)
       PROVE  Precedes(<<u, 1>>, <<v, 1>>)'
  BY <1>1, <1>2, <1>4, <1>13, PrecedesStays
<1>14. FifoOrder' = FifoOrder \cup (InFifo \X {w})
  <2>1. FifoOrder' = {p \in (InFifo \cup {w}) \X (InFifo \cup {w}) :
                         Precedes(<<p[1], 1>>, <<p[2], 1>>)'}
    BY <1>7 DEF FifoOrder, Precedes
  <2>2. ASSUME NEW u \in InFifo \cup {w}, NEW v \in InFifo \cup {w}
        PROVE  Precedes(<<u, 1>>, <<v, 1>>)' <=>
                  <<u, v>> \in FifoOrder \cup (InFifo \X {w})
    <3>1. <<u, v>> \in FifoOrder <=>
             u \in InFifo /\ v \in InFifo /\ Precedes(<<u, 1>>, <<v, 1>>)
      BY DEF FifoOrder
    <3>2. CASE u \in InFifo /\ v \in InFifo
      BY <1>7, <1>10, <1>13, <3>1, <3>2
    <3>3. CASE u \in InFifo /\ v = w
      BY <1>7, <1>9, <3>1, <3>3
    <3>4. CASE u = w /\ v \in InFifo
      BY <1>7, <1>12, <3>1, <3>4
    <3>5. CASE u = w /\ v = w
      BY <1>7, <1>11, <3>1, <3>5
    <3> QED
      BY <3>2, <3>3, <3>4, <3>5
  <2>3. FifoOrder \cup (InFifo \X {w}) \subseteq (InFifo \cup {w}) \X (InFifo \cup {w})
    BY DEF FifoOrder
  <2>4. ASSUME NEW p \in (InFifo \cup {w}) \X (InFifo \cup {w})
        PROVE  p \in FifoOrder' <=> p \in FifoOrder \cup (InFifo \X {w})
    <3>1. p = <<p[1], p[2]>> /\ p[1] \in InFifo \cup {w} /\ p[2] \in InFifo \cup {w}
      OBVIOUS
    <3> QED
      BY <2>1, <2>2, <3>1
  <2>5. FifoOrder' \subseteq (InFifo \cup {w}) \X (InFifo \cup {w})
    BY <2>1
  <2> QED
    BY <2>3, <2>4, <2>5
<1>15. Outcomes[w] = "open" /\ Outcomes' = [Outcomes EXCEPT ![w] = "done"]
  BY <1>1, <1>4 DEF Outcomes, Ended
<1>16. Batches' = Batches /\ Dropped' = Dropped
  BY <1>1 DEF Batches, Dropped
<1> QED
  BY <1>7, <1>14, <1>15, <1>16 DEF Service!Accept

\* A call of read_blocking returns the first of the messages.
LEMMA Returns ==
    ASSUME ServiceInv, ServiceInv', CloseRead, content # <<>>
    PROVE  \E some \in SUBSET InFifo : Service!Return(some)
<1> DEFINE some == {w \in Writers : Within(w, content)}
           rest == {w \in Writers : Within(w, buffer)}
<1>1. /\ received' = Append(received, content) /\ content' = <<>>
      /\ UNCHANGED <<accepted, writer>>
      /\ \/ UNCHANGED <<buffer, lost>>
         \/ lost' = lost \cup ToSet(buffer) /\ buffer' = <<>>
  BY DEF CloseRead, writeVars
<1>2. /\ content \in Seq(Blocks) /\ buffer \in Seq(Blocks) /\ TypeOK /\ Accounted
      /\ received \in Seq(Seq(Blocks))
  BY DEF ServiceInv, PipeInv, TypeOK
<1>3. Whole(content) /\ Whole(buffer)
  BY DEF CloseRead, ServiceInv, NothingRead, Uncut
<1>4. InFifo = some \cup rest
  <2>1. ToSet(Inside) = ToSet(content) \cup ToSet(buffer)
    BY <1>2, InsideParts
  <2>2. ASSUME NEW w \in InFifo PROVE w \in some \cup rest
    <3>1. w \in Writers /\ <<w, 1>> \in ToSet(content) \cup ToSet(buffer)
      BY <2>1, MessageBlocks, NothingCut DEF Within
    <3>2. <<w, 1>>[1] = w
      OBVIOUS
    <3> QED
      BY <1>2, <1>3, <3>1, <3>2, WholeWithin
  <2> QED
    BY <2>1, <2>2, NothingCut DEF Within
<1>5. some \cap rest = {}
  <2>1. ToSet(buffer) \cap ToSet(content) = {}
    BY <1>2, BufferApart
  <2> QED
    BY <2>1, MessageBlocks DEF Within
<1>6. InFifo \ some = rest
  BY <1>4, <1>5
<1>7. \A u \in some, v \in rest : <<u, v>> \in FifoOrder
  <2>1. Ahead(content, buffer)
    BY <1>2, InsideParts
  <2>2. ASSUME NEW u \in some, NEW v \in rest PROVE Precedes(<<u, 1>>, <<v, 1>>)
    <3>1. <<u, 1>> \in ToSet(content) /\ <<v, 1>> \in ToSet(buffer)
      BY MessageBlocks DEF Within
    <3> QED
      BY <2>1, <3>1 DEF Ahead, ToSet
  <2> QED
    BY <1>4, <2>2 DEF FifoOrder
<1>8. some # {}
  <2>1. content[1] \in ToSet(content)
    BY <1>2 DEF ToSet
  <2> QED
    BY <1>2, <1>3, <2>1, WholeWithin
<1>9. Batches' = Append(Batches, some)
  <2>1. DOMAIN received = 1 .. Len(received) /\ Len(received) \in Nat
    BY <1>2
  <2>2. Batches \in Seq(SUBSET Writers) /\ Len(Batches) = Len(received)
    BY <2>1, NothingCut
  <2>3. /\ DOMAIN received' = 1 .. (Len(received) + 1)
        /\ \A k \in 1 .. Len(received) : received'[k] = received[k]
        /\ received'[Len(received) + 1] = content
    BY <1>1, <1>2, <2>1
  <2>4. Batches' = [k \in 1 .. (Len(received) + 1) |->
                       {w \in Writers : Within(w, received'[k])}]
    BY <2>3, NothingCutNext
  <2>5. /\ Append(Batches, some) \in Seq(SUBSET Writers)
        /\ Len(Append(Batches, some)) = Len(received) + 1
        /\ \A k \in 1 .. Len(received) : Append(Batches, some)[k] = Batches[k]
        /\ Append(Batches, some)[Len(received) + 1] = some
    BY <2>1, <2>2
  <2>6. ASSUME NEW k \in 1 .. (Len(received) + 1)
        PROVE  Batches'[k] = Append(Batches, some)[k]
    <3>1. CASE k \in 1 .. Len(received)
      <4>1. Batches[k] = {w \in Writers : Within(w, received[k])}
        BY <2>1, <3>1, NothingCut
      <4>2. Batches'[k] = {w \in Writers : Within(w, received'[k])}
        BY <2>4
      <4> QED
        BY <2>3, <2>5, <3>1, <4>1, <4>2
    <3>2. CASE k = Len(received) + 1
      <4>1. Batches'[k] = {w \in Writers : Within(w, received'[k])}
        BY <2>4
      <4>2. Batches'[k] = some
        BY <2>3, <3>2, <4>1
      <4> HIDE DEF some
      <4> QED
        BY <2>5, <3>2, <4>2
    <3>3. k \in 1 .. Len(received) \/ k = Len(received) + 1
      BY <2>1
    <3> QED
      BY <3>1, <3>2, <3>3
  <2>7. Batches' \in Seq(SUBSET Writers) /\ Len(Batches') = Len(received) + 1
    BY <2>1, <2>4
  <2> HIDE DEF some
  <2> QED
    BY <2>5, <2>6, <2>7
<1>10. Inside' = buffer'
  BY <1>1, <1>2 DEF Inside
<1>11. Outcomes' = Outcomes
  BY <1>1 DEF Outcomes
<1>12. \A b, c : Precedes(b, c)' <=> Precedes(b, c)
  BY <1>1 DEF Precedes
<1>13. ASSUME NEW S, S \subseteq InFifo, InFifo' = S PROVE Service!Keep(S)
  BY <1>12, <1>13 DEF Service!Keep, FifoOrder
<1>14. CASE UNCHANGED <<buffer, lost>>
  <2>1. InFifo' = rest
    BY <1>10, <1>14, NothingCutNext
  <2>2. Service!Keep(rest) /\ Dropped' = Dropped
    BY <1>4, <1>13, <1>14, <2>1 DEF Dropped
  <2> HIDE DEF some, rest
  <2>3. Service!Return(some)
    BY <1>4, <1>6, <1>7, <1>8, <1>9, <1>11, <2>2 DEF Service!Return
  <2> QED
    BY <1>4, <2>3
<1>15. CASE lost' = lost \cup ToSet(buffer) /\ buffer' = <<>>
  <2>1. InFifo' = {}
    BY <1>10, <1>15, MessageBlocks, NothingCutNext DEF Within, ToSet
  <2>2. Service!Keep({}) /\ Dropped' = Dropped \cup rest
    BY <1>2, <1>3, <1>13, <1>15, <2>1, LostMessages, NothingCut, NothingCutNext
  <2> HIDE DEF some, rest
  <2>3. Service!Return(some)
    BY <1>4, <1>6, <1>7, <1>8, <1>9, <1>11, <2>2 DEF Service!Return
  <2> QED
    BY <1>4, <2>3
<1> QED
  BY <1>1, <1>14, <1>15

LEMMA ServiceInit == Init => Service!Init
<1> SUFFICES ASSUME Init PROVE Service!Init
  OBVIOUS
<1>1. Inside = <<>> /\ lost = {} /\ DOMAIN received = {} /\ received = <<>>
  BY DEF Init, Inside
<1>2. Parts({}) = {}
  BY MessageBlocks DEF Parts, MessagesIn, Cut
<1>3. InFifo = {} /\ Dropped = {}
  BY <1>1, <1>2 DEF InFifo, Dropped, ToSet
<1>4. FifoOrder = {} /\ Batches = <<>>
  BY <1>1, <1>3 DEF FifoOrder, Batches
<1> QED
  BY <1>3, <1>4 DEF Init, Service!Init, Outcomes, Ended

LEMMA ServiceStep ==
    ASSUME AtomicMessages, ServiceInv, ServiceInv', [Next]_vars
    PROVE  [Service!Next]_(Service!vars)
<1> USE DEF readVars, writeVars, ghostVars
<1>1. ASSUME UNCHANGED <<Inside, received, lost, accepted, writer>>
      PROVE  UNCHANGED Service!vars
  BY <1>1, Stays DEF Service!vars, Outcomes
<1>2. CASE create \/ OpenRead \/ PollReady \/ PollNothing \/ PollAgain \/ PollTimeout
           \/ PollInterrupted \/ ReadEnd
  <2>1. UNCHANGED <<Inside, received, lost, accepted, writer>>
    BY <1>2 DEF ServiceInv, NothingRead, Inside, create, OpenRead, PollReady, PollNothing,
                PollAgain, PollTimeout, PollInterrupted, ReadEnd
  <2> QED
    BY <1>1, <2>1
<1>3. CASE ReadBlock
  BY <1>1, <1>3, ReadMoves DEF ServiceInv, PipeInv, ReadBlock
<1>4. CASE destroy
  <2>1. Service!Drop
    BY <1>4, Drops DEF destroy, ServiceInv, NothingRead
  <2> QED
    BY <2>1 DEF Service!Next
<1>5. CASE CloseRead
  <2>1. CASE content # <<>>
    BY <1>5, <2>1, Returns DEF Service!Next
  <2>2. CASE content = <<>> /\ UNCHANGED <<buffer, lost>>
    BY <1>1, <1>5, <2>2 DEF CloseRead, Inside
  <2>3. CASE content = <<>> /\ lost' = lost \cup ToSet(buffer) /\ buffer' = <<>>
    <3>1. Service!Drop
      BY <1>5, <2>3, Drops DEF CloseRead
    <3> QED
      BY <3>1 DEF Service!Next
  <2> QED
    BY <1>5, <2>1, <2>2, <2>3 DEF CloseRead
<1>6. ASSUME NEW w \in Writers, write(w) \/ WriteStep(w) \/ Kill(w)
      PROVE  [Service!Next]_(Service!vars)
  <2>1. ASSUME NEW next, UNCHANGED <<content, buffer, received, lost, accepted>>,
               writer' = [writer EXCEPT ![w] = next], writer[w] \notin Ended, next # "done"
        PROVE  [Service!Next]_(Service!vars)
    <3>1. UNCHANGED Inside
      BY <2>1 DEF Inside
    <3> QED
      BY <2>1, <3>1, WriterMoves DEF Service!Next
  <2>2. CASE write(w)
    BY <2>1, <2>2 DEF write, Ended
  <2>3. CASE OpenWrite(w)
    BY <2>1, <2>3 DEF OpenWrite, Ended
  <2>4. CASE OpenWriteFails(w)
    BY <2>1, <2>4 DEF OpenWriteFails, Ended
  <2>5. CASE Wake(w)
    BY <2>1, <2>5 DEF Wake, Ended
  <2>6. CASE Kill(w)
    BY <2>1, <2>6 DEF Kill, Ended
  <2>7. CASE Write(w)
    <3>1. CASE handle[w] = "current" /\ Open /\ Taken(w) > 0
      BY <2>7, <3>1, Accepts DEF Service!Next
    <3>2. CASE ~(handle[w] = "current" /\ Open /\ Taken(w) > 0)
      BY <2>1, <2>7, <3>2 DEF Write, Ended
    <3> QED
      BY <3>1, <3>2
  <2>8. CASE CloseWrite(w)
    <3>1. CASE UNCHANGED <<buffer, lost>>
      BY <1>1, <2>8, <3>1 DEF CloseWrite, Inside
    <3>2. CASE ~Open /\ lost' = lost \cup ToSet(buffer) /\ buffer' = <<>>
      <4>1. content = <<>>
        BY <3>2 DEF ServiceInv, NothingRead, Open
      <4>2. Service!Drop
        BY <2>8, <3>2, <4>1, Drops DEF CloseWrite
      <4> QED
        BY <4>2 DEF Service!Next
    <3> QED
      BY <2>8, <3>1, <3>2 DEF CloseWrite
  <2> QED
    BY <1>6, <2>2, <2>3, <2>4, <2>5, <2>6, <2>7, <2>8 DEF WriteStep
<1>7. CASE UNCHANGED vars
  BY <1>1, <1>7 DEF vars, Inside
<1> QED
  BY <1>2, <1>3, <1>4, <1>5, <1>6, <1>7 DEF Next, Read

-----------------------------------------------------------------------------
\* What the prover keeps: the types, the time a call has spent, and that only a write
\* that returned has blocks in the FIFO.
THEOREM PipeInvariance == Spec => []PipeInv
  BY PipeInitInv, PipeNextInv, PTL DEF Spec

\* Every variable stays in its set, whatever the writers send and whenever they
\* and the reader run.
THEOREM PipeTypeCorrect == Spec => []TypeOK
<1>1. PipeInv => TypeOK
  BY DEF PipeInv
<1> QED
  BY <1>1, PipeInvariance, PTL

\* An exception from write means that nothing of the message is in the FIFO, or
\* was, for any messages, capacity and timeouts.
THEOREM FailedWritesInvisible == Spec => []FailedWriteInvisible
<1>1. PipeInv => FailedWriteInvisible
  BY DEF PipeInv, OnlyDoneInside, FailedWriteInvisible, Ended
<1> QED
  BY <1>1, PipeInvariance, PTL

\* What write() accepted is returned once and in order, but for what the system
\* dropped with the FIFO, for any number of writers, messages and capacity.
THEOREM EveryBlockAccounted == Spec => []Accounted
<1>1. Spec => [](NothingRead /\ Accounted)
  BY InitAccounted, NextNothingRead, NextAccounted, PipeInvariance, PTL DEF Spec
<1> QED
  BY <1>1, PTL

\* When no message is larger than PIPE_BUF, a call of read_blocking returns whole
\* messages, for any number of writers and any capacity.
THEOREM MessagesWhole ==
    ASSUME AtomicMessages
    PROVE  Spec => []WholeMessages
<1>1. Init => NothingRead /\ Uncut
  <2>1. <<>> \o <<>> = <<>>
    OBVIOUS
  <2> QED
    BY <2>1, WholeEmpty DEF Init, NothingRead, Uncut, Inside
<1>2. PipeInv /\ NothingRead /\ Uncut /\ [Next]_vars => Uncut'
  BY NextUncut
<1>3. PipeInv /\ Uncut => WholeMessages
  BY UncutWhole
<1> QED
  BY <1>1, <1>2, <1>3, NextNothingRead, PipeInvariance, PTL DEF Spec

\* NamedPipe keeps the promise of PipeService: when no message is larger than
\* PIPE_BUF, messages come out whole, once and in their order, or are dropped with
\* the FIFO, and a caller of write knows which ones went in.
THEOREM PipeImplementsService ==
    ASSUME AtomicMessages
    PROVE  Spec => ServiceSpec
<1>1. Init => NothingRead /\ Uncut /\ LostWhole
  <2>1. <<>> \o <<>> = <<>>
    OBVIOUS
  <2> QED
    BY <2>1, WholeEmpty DEF Init, NothingRead, Uncut, LostWhole, Inside
<1>2. PipeInv /\ NothingRead /\ Uncut /\ LostWhole /\ [Next]_vars => Uncut' /\ LostWhole'
  BY NextUncut, NextLostWhole
<1>3. PipeInv /\ NothingRead /\ Accounted /\ [Next]_vars => Accounted'
  BY NextAccounted
<1>4. ServiceInv /\ ServiceInv' /\ [Next]_vars => [Service!Next]_(Service!vars)
  BY ServiceStep
<1>5. ServiceInv <=> PipeInv /\ NothingRead /\ Accounted /\ Uncut /\ LostWhole
  BY DEF ServiceInv
<1> QED
  BY <1>1, <1>2, <1>3, <1>4, <1>5, NextNothingRead, InitAccounted, ServiceInit, PipeInvariance, PTL
  DEF Spec, ServiceSpec, Service!Spec
=============================================================================
