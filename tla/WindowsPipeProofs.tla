------------------------- MODULE WindowsPipeProofs -------------------------
(***************************************************************************)
(* Proofs about module WindowsPipe, for any number of writers, any sizes   *)
(* and any timeouts: messages of two writers never mix in one call of      *)
(* read_blocking, and what write reports as written has been read.         *)
(***************************************************************************)
EXTENDS WindowsPipe, SequenceTheorems, TLAPS

\* The first k blocks of the message of w, and the others.
Taken(w, k) == [i \in 1 .. k |-> <<w, i>>]
Rest(w, k)  == [i \in 1 .. (Size[w] - k) |-> <<w, k + i>>]

\* A writer that left its call while the reader may have been taking the message.
GaveUp == {"timeout", "interrupted", "killed"}

\* Content is being collected only while a writer is, or was, connected.
Collecting ==
    /\ content # <<>> => reader \in {"reading", "disconnecting"} /\ Connected
    /\ reader = "disconnecting" => content # <<>>
    /\ instance = "connected" <=> peer # NoWriter
    /\ reader = "none" => instance = "absent"
    /\ peer = NoWriter => pending = <<>>

\* What has been collected is the front of the message of the writer that is
\* connected, and what is pending is the rest of it, if the call has come to
\* WriteFile.
FromPeer ==
    \A w \in Writers : peer = w =>
        /\ opened[w]
        /\ content = Taken(w, taken[w])
        /\ \/ /\ pending = Rest(w, taken[w])
              /\ \/ writer[w] \in {"pending"} \cup GaveUp
                 \/ writer[w] = "done" /\ taken[w] = Size[w]
           \/ /\ pending = <<>> /\ taken[w] = 0
              /\ writer[w] \in {"opened", "killed"}

\* What no writer can add to any more is a whole message, or the front of one
\* whose writer gave up.
Complete ==
    content # <<>> /\ (reader = "disconnecting" \/ peer = NoWriter) =>
        \E w \in Writers :
            /\ content = Taken(w, taken[w])
            /\ taken[w] = Size[w] \/ writer[w] \in GaveUp

\* A call that has not come to WriteFile has been read nothing of, one that
\* returned all; and what has been read to the end is with the reader.
Delivered ==
    \A w \in Writers :
        /\ writer[w] \in {"idle", "waiting", "found", "opened"} => taken[w] = 0
        /\ writer[w] = "done" => taken[w] = Size[w]
        /\ taken[w] = Size[w] => content = Message(w) \/ Message(w) \in ToSet(received)

WinInv ==
    /\ TypeOK
    /\ taken \in [Writers -> Nat]
    /\ Collecting /\ FromPeer /\ Complete /\ Delivered
    /\ OneWriterPerRead

-----------------------------------------------------------------------------
LEMMA Bounds ==
    /\ ReadTimeout \in Nat /\ ReadInterval \in Nat /\ ReadInterval > 0
    /\ WriteTimeout \in Nat /\ WriteInterval \in Nat /\ WriteInterval > 0
    /\ PendingInterval \in Nat /\ PendingInterval > 0
    /\ \A w \in Writers : Size[w] \in Nat /\ Size[w] > 0 /\ w # NoWriter
BY ConstantsAssumption

\* The two parts of a message are sequences of its blocks.
LEMMA Parts ==
    ASSUME NEW w \in Writers, NEW k \in 0 .. Size[w]
    PROVE  /\ Taken(w, k) \in Seq(Blocks) /\ Rest(w, k) \in Seq(Blocks)
           /\ Len(Taken(w, k)) = k /\ Len(Rest(w, k)) = Size[w] - k
           /\ \A i \in 1 .. k : Taken(w, k)[i] = <<w, i>>
           /\ \A i \in 1 .. (Size[w] - k) : Rest(w, k)[i] = <<w, k + i>>
<1>1. Size[w] \in Nat /\ k \in Nat /\ Size[w] - k \in Nat
  BY Bounds
<1>2. \A i \in 1 .. Size[w] : <<w, i>> \in Blocks
  BY DEF Blocks
<1>3. \A i \in 1 .. (Size[w] - k) : k + i \in 1 .. Size[w]
  BY <1>1
<1>4. Taken(w, k) \in [1 .. k -> Blocks]
  BY <1>1, <1>2 DEF Taken
<1>5. Rest(w, k) \in [1 .. (Size[w] - k) -> Blocks]
  BY <1>2, <1>3 DEF Rest
<1>6. Taken(w, k) \in Seq(Blocks) /\ Len(Taken(w, k)) = k
  BY <1>1, <1>4
<1>7. Rest(w, k) \in Seq(Blocks) /\ Len(Rest(w, k)) = Size[w] - k
  BY <1>1, <1>5
<1> QED
  BY <1>6, <1>7 DEF Taken, Rest

\* Nothing, and everything.
LEMMA Ends ==
    ASSUME NEW w \in Writers
    PROVE  /\ Taken(w, 0) = <<>> /\ Rest(w, Size[w]) = <<>>
           /\ Taken(w, Size[w]) = Message(w) /\ Rest(w, 0) = Message(w)
           /\ Message(w) # <<>>
<1>1. Size[w] \in Nat /\ Size[w] > 0
  BY Bounds
<1>2. 0 \in 0 .. Size[w] /\ Size[w] \in 0 .. Size[w]
  BY <1>1
<1>3. Taken(w, 0) = <<>> /\ Rest(w, Size[w]) = <<>>
  BY <1>1, <1>2, Parts
<1>4. Taken(w, Size[w]) = Message(w)
  BY DEF Taken, Message
<1>5. Rest(w, 0) = Message(w)
  BY <1>1 DEF Rest, Message
<1>6. Len(Message(w)) = Size[w]
  BY <1>2, <1>4, Parts
<1> QED
  BY <1>1, <1>3, <1>4, <1>5, <1>6

\* One block goes from the rest to what has been taken.
LEMMA Move ==
    ASSUME NEW w \in Writers, NEW k \in 0 .. Size[w], Rest(w, k) # <<>>
    PROVE  /\ k + 1 \in 0 .. Size[w]
           /\ Head(Rest(w, k)) = <<w, k + 1>>
           /\ Tail(Rest(w, k)) = Rest(w, k + 1)
           /\ Append(Taken(w, k), Head(Rest(w, k))) = Taken(w, k + 1)
<1>1. Size[w] \in Nat /\ k \in Nat /\ k <= Size[w]
  BY Bounds
<1>2. Len(Rest(w, k)) = Size[w] - k /\ Rest(w, k) \in Seq(Blocks)
  BY Parts
<1>3. k < Size[w]
  BY <1>1, <1>2
<1>4. k + 1 \in 0 .. Size[w]
  BY <1>1, <1>3
<1>5. Head(Rest(w, k)) = <<w, k + 1>>
  BY <1>1, <1>2, <1>3, Parts
<1>6. Tail(Rest(w, k)) = Rest(w, k + 1)
  <2>1. Len(Tail(Rest(w, k))) = Size[w] - (k + 1)
    BY <1>1, <1>2, <1>3
  <2>2. \A i \in 1 .. (Size[w] - (k + 1)) : Tail(Rest(w, k))[i] = <<w, k + 1 + i>>
    <3> TAKE i \in 1 .. (Size[w] - (k + 1))
    <3>1. i + 1 \in 1 .. (Size[w] - k) /\ k + (i + 1) = k + 1 + i
      BY <1>1
    <3>2. Rest(w, k)[i + 1] = <<w, k + (i + 1)>>
      BY <3>1, Parts
    <3> QED
      BY <1>2, <2>1, <3>1, <3>2
  <2>3. Tail(Rest(w, k)) \in Seq(Blocks) /\ Rest(w, k + 1) \in Seq(Blocks)
    BY <1>2, <1>3, <1>4, Parts
  <2>4. Len(Rest(w, k + 1)) = Size[w] - (k + 1)
        /\ \A i \in 1 .. (Size[w] - (k + 1)) : Rest(w, k + 1)[i] = <<w, k + 1 + i>>
    BY <1>4, Parts
  <2> QED
    BY <2>1, <2>2, <2>3, <2>4, SeqEqual
<1>7. Append(Taken(w, k), <<w, k + 1>>) = Taken(w, k + 1)
  <2>1. Taken(w, k) \in Seq(Blocks) /\ Len(Taken(w, k)) = k
        /\ \A i \in 1 .. k : Taken(w, k)[i] = <<w, i>>
    BY Parts
  <2>2. Taken(w, k + 1) \in Seq(Blocks) /\ Len(Taken(w, k + 1)) = k + 1
        /\ \A i \in 1 .. (k + 1) : Taken(w, k + 1)[i] = <<w, i>>
    BY <1>4, Parts
  <2>3. <<w, k + 1>> \in Blocks
    BY <1>1, <1>3 DEF Blocks
  <2>4. \A i \in 1 .. (k + 1) : Append(Taken(w, k), <<w, k + 1>>)[i] = <<w, i>>
    BY <1>1, <2>1, <2>3
  <2>5. Append(Taken(w, k), <<w, k + 1>>) \in Seq(Blocks)
        /\ Len(Append(Taken(w, k), <<w, k + 1>>)) = k + 1
    BY <2>1, <2>3
  <2> QED
    BY <2>2, <2>4, <2>5, SeqEqual
<1> QED
  BY <1>4, <1>5, <1>6, <1>7

\* What has been taken is a prefix of the message.
LEMMA TakenIsPrefix ==
    ASSUME NEW w \in Writers, NEW k \in 0 .. Size[w]
    PROVE  /\ IsPrefix(Taken(w, k), Message(w))
           /\ Taken(w, k) = Message(w) => k = Size[w]
<1>1. Size[w] \in Nat /\ k \in Nat /\ k <= Size[w] /\ Size[w] \in 0 .. Size[w]
  BY Bounds
<1>2. /\ Taken(w, k) \in Seq(Blocks) /\ Message(w) \in Seq(Blocks)
      /\ Len(Taken(w, k)) = k /\ Len(Message(w)) = Size[w]
      /\ \A i \in 1 .. k : Taken(w, k)[i] = <<w, i>> /\ Message(w)[i] = <<w, i>>
  <2>1. Message(w) = Taken(w, Size[w])
    BY Ends
  <2>2. /\ Message(w) \in Seq(Blocks) /\ Len(Message(w)) = Size[w]
        /\ \A i \in 1 .. Size[w] : Message(w)[i] = <<w, i>>
    BY <1>1, <2>1, Parts
  <2>3. \A i \in 1 .. k : i \in 1 .. Size[w]
    BY <1>1
  <2>4. /\ Taken(w, k) \in Seq(Blocks) /\ Len(Taken(w, k)) = k
        /\ \A i \in 1 .. k : Taken(w, k)[i] = <<w, i>>
    BY Parts
  <2> QED
    BY <2>2, <2>3, <2>4
<1>3. SubSeq(Taken(w, k), 1, k) = Taken(w, k)
  BY <1>1, <1>2
<1>4. SubSeq(Message(w), 1, k) = Taken(w, k)
  <2>1. 1 \in 1 .. (Len(Message(w)) + 1) /\ k \in (1 - 1) .. Len(Message(w))
    BY <1>1, <1>2
  <2>2. /\ SubSeq(Message(w), 1, k) \in Seq(Blocks)
        /\ Len(SubSeq(Message(w), 1, k)) = k - 1 + 1
        /\ \A i \in 1 .. (k - 1 + 1) :
              SubSeq(Message(w), 1, k)[i] = Message(w)[1 + i - 1]
    BY <1>2, <2>1, SubSeqProperties
  <2>3. k - 1 + 1 = k /\ \A i \in 1 .. k : 1 + i - 1 = i
    BY <1>1
  <2>4. /\ Len(SubSeq(Message(w), 1, k)) = k
        /\ \A i \in 1 .. k : SubSeq(Message(w), 1, k)[i] = Taken(w, k)[i]
    BY <1>2, <2>2, <2>3
  <2> QED
    BY <1>2, <2>2, <2>4, SeqEqual
<1>5. IsPrefix(Taken(w, k), Message(w))
  BY <1>1, <1>2, <1>3, <1>4 DEF IsPrefix
<1>6. Taken(w, k) = Message(w) => k = Size[w]
  BY <1>1, <1>2
<1> QED
  BY <1>5, <1>6

\* It tells whose it is, and how much it is.
LEMMA Whose ==
    ASSUME NEW w \in Writers, NEW k \in 0 .. Size[w],
           NEW v \in Writers, NEW j \in 0 .. Size[v],
           Taken(v, j) = Taken(w, k), Taken(w, k) # <<>>
    PROVE  v = w /\ j = k
<1>1. Len(Taken(v, j)) = j /\ Len(Taken(w, k)) = k
  BY Parts
<1>2. j = k /\ k \in Nat
  BY <1>1, Bounds
<1>3. k # 0
  BY Ends
<1>4. 1 \in 1 .. k
  BY <1>2, <1>3
<1>5. Taken(v, j)[1] = <<v, 1>> /\ Taken(w, k)[1] = <<w, 1>>
  BY <1>2, <1>4, Parts
<1> QED
  BY <1>2, <1>5

\* what read_blocking returns joins what it returned before
LEMMA Received ==
    ASSUME NEW s \in Seq(Seq(Blocks)), NEW c \in Seq(Blocks)
    PROVE  /\ ToSet(Append(s, c)) = ToSet(s) \cup {c}
           /\ ToSet(s) \subseteq Seq(Blocks)
<1>1. Append(s, c) \in Seq(Seq(Blocks)) /\ Len(Append(s, c)) = Len(s) + 1
      /\ Append(s, c)[Len(s) + 1] = c
      /\ \A i \in 1 .. Len(s) : Append(s, c)[i] = s[i]
  OBVIOUS
<1>2. DOMAIN Append(s, c) = 1 .. (Len(s) + 1) /\ DOMAIN s = 1 .. Len(s) /\ Len(s) \in Nat
  BY <1>1
<1>3. 1 .. (Len(s) + 1) = (1 .. Len(s)) \cup {Len(s) + 1}
  BY <1>2
<1> QED
  BY <1>1, <1>2, <1>3 DEF ToSet

-----------------------------------------------------------------------------
LEMMA WinInitInv == Init => WinInv
<1> SUFFICES ASSUME Init PROVE WinInv
  OBVIOUS
<1>1. /\ reader = "none" /\ readTime = 0 /\ content = <<>> /\ received = <<>>
      /\ instance = "absent" /\ peer = NoWriter /\ pending = <<>>
      /\ writer = [w \in Writers |-> "idle"] /\ writeTime = [w \in Writers |-> 0]
      /\ opened = [w \in Writers |-> FALSE] /\ taken = [w \in Writers |-> 0]
  BY DEF Init
<1>2. <<>> \in Seq(Blocks) /\ <<>> \in Seq(Seq(Blocks)) /\ ToSet(<<>>) = {}
  BY DEF ToSet
<1>3. 0 \in 0 .. ReadTimeout /\ 0 \in 0 .. WriteTimeout
      /\ \A w \in Writers : 0 \in 0 .. Size[w]
  BY Bounds
<1>4. TypeOK /\ taken \in [Writers -> Nat]
  BY <1>1, <1>2, <1>3 DEF TypeOK
<1>5. Collecting /\ Complete
  BY <1>1 DEF Collecting, Complete
<1>6. FromPeer
  BY <1>1, Bounds DEF FromPeer
<1>7. Delivered
  BY <1>1, Bounds DEF Delivered
<1>8. OneWriterPerRead
  BY <1>1, <1>2 DEF OneWriterPerRead
<1> QED
  BY <1>4, <1>5, <1>6, <1>7, <1>8 DEF WinInv

\* A step of the reader that collects nothing and leaves the pipe alone.
LEMMA ReaderOnly ==
    ASSUME WinInv, UNCHANGED <<received, pipeVars, writeVars, taken>>,
           content = <<>>, content' = <<>>, reader # "none",
           reader' \in {"idle", "connecting", "reconnecting", "reading", "waiting"},
           readTime' \in 0 .. ReadTimeout
    PROVE  WinInv'
<1> USE DEF pipeVars, writeVars
<1>1. TypeOK' /\ (taken \in [Writers -> Nat])'
  BY DEF WinInv, TypeOK
<1>2. Collecting' /\ Complete'
  BY DEF WinInv, Collecting, Complete
<1>3. FromPeer'
  BY DEF WinInv, FromPeer
<1>4. Delivered'
  BY DEF WinInv, Delivered
<1>5. OneWriterPerRead'
  BY DEF WinInv, OneWriterPerRead
<1> QED
  BY <1>1, <1>2, <1>3, <1>4, <1>5 DEF WinInv

\* A step that leaves the instance without a writer, while nothing has been
\* collected.
LEMMA NobodyConnected ==
    ASSUME WinInv, UNCHANGED <<received, writeVars, taken>>,
           content = <<>>, content' = <<>>, peer' = NoWriter, pending' = <<>>,
           instance' \in {"absent", "listening", "disconnected"},
           reader' \in {"none", "idle", "connecting", "reconnecting"},
           reader' = "none" => instance' = "absent",
           readTime' \in 0 .. ReadTimeout
    PROVE  WinInv'
<1> USE DEF writeVars
<1>1. TypeOK' /\ (taken \in [Writers -> Nat])'
  BY DEF WinInv, TypeOK
<1>2. Collecting' /\ Complete'
  BY DEF Collecting, Complete
<1>3. FromPeer'
  BY Bounds DEF FromPeer
<1>4. Delivered'
  BY DEF WinInv, Delivered
<1>5. OneWriterPerRead'
  BY DEF WinInv, OneWriterPerRead
<1> QED
  BY <1>1, <1>2, <1>3, <1>4, <1>5 DEF WinInv

\* A step of a writer that does not touch the pipe.
LEMMA WriterOnly ==
    ASSUME WinInv, NEW w \in Writers, NEW state,
           writer' = [writer EXCEPT ![w] = state],
           writeTime' \in [Writers -> 0 .. WriteTimeout],
           UNCHANGED <<readVars, pipeVars, opened, taken>>,
           state \in {"idle", "waiting", "found", "opened", "pending"} \cup Ended,
           writer[w] \notin GaveUp,
           state \in {"idle", "waiting", "found", "opened"} => taken[w] = 0,
           state = "done" => taken[w] = Size[w],
           peer = w =>
               \/ /\ pending = Rest(w, taken[w])
                  /\ \/ state \in {"pending"} \cup GaveUp
                     \/ state = "done" /\ taken[w] = Size[w]
               \/ /\ pending = <<>> /\ taken[w] = 0
                  /\ state \in {"opened", "killed"}
    PROVE  WinInv'
<1> USE DEF readVars, pipeVars
<1>1. writer \in [Writers -> {"idle", "waiting", "found", "opened", "pending"} \cup Ended]
  BY DEF WinInv, TypeOK
<1>2. writer'[w] = state /\ \A v \in Writers : v # w => writer'[v] = writer[v]
  BY <1>1
<1>3. TypeOK' /\ (taken \in [Writers -> Nat])'
  BY <1>1 DEF WinInv, TypeOK
<1>4. Collecting'
  BY DEF WinInv, Collecting, Connected
<1>5. Complete'
  BY <1>2 DEF WinInv, Complete
<1>6. FromPeer'
  BY <1>2 DEF WinInv, FromPeer, Rest, Taken
<1>7. Delivered'
  BY <1>2 DEF WinInv, Delivered
<1>8. OneWriterPerRead'
  BY <1>2 DEF WinInv, OneWriterPerRead, GaveUp
<1> QED
  BY <1>3, <1>4, <1>5, <1>6, <1>7, <1>8 DEF WinInv

-----------------------------------------------------------------------------
\* The owner.
LEMMA ReadBlockInv == ASSUME WinInv, ReadBlock PROVE WinInv'
<1>1. /\ reader = "reading" /\ pending # <<>>
      /\ content' = Append(content, Head(pending)) /\ pending' = Tail(pending)
      /\ taken' = [taken EXCEPT ![peer] = @ + 1]
      /\ reader' = IF Short(Head(pending)) THEN "disconnecting" ELSE "reading"
      /\ UNCHANGED <<readTime, received, instance, peer, writer, writeTime, opened>>
  BY DEF ReadBlock, writeVars
<1>2. peer \in Writers /\ instance = "connected"
  BY <1>1 DEF WinInv, Collecting, TypeOK
<1> DEFINE w == peer
           k == taken[w]
<1>3. /\ opened[w] /\ content = Taken(w, k) /\ pending = Rest(w, k)
      /\ writer[w] \in {"pending"} \cup GaveUp \/ (writer[w] = "done" /\ k = Size[w])
  BY <1>1, <1>2 DEF WinInv, FromPeer
<1>4. k \in 0 .. Size[w] /\ Size[w] \in Nat /\ k \in Nat
  BY <1>2, Bounds DEF WinInv, TypeOK
<1>5. /\ k + 1 \in 0 .. Size[w]
      /\ Head(pending) = <<w, k + 1>>
      /\ pending' = Rest(w, k + 1)
      /\ content' = Taken(w, k + 1)
  BY <1>1, <1>2, <1>3, <1>4, Move
<1>6. k # Size[w]
  BY <1>4, <1>5
<1>7. taken'[w] = k + 1 /\ \A v \in Writers : v # w => taken'[v] = taken[v]
  BY <1>1, <1>2 DEF WinInv
<1>8. content' # <<>>
  <2>1. Len(content') = k + 1
    BY <1>2, <1>5, Parts
  <2> QED
    BY <1>4, <2>1
<1>9. content' \in Seq(Blocks) /\ pending' \in Seq(Blocks)
  BY <1>2, <1>5, Parts
<1>10. (taken \in [Writers -> Nat])' /\ \A v \in Writers : taken'[v] \in 0 .. Size[v]
  BY <1>1, <1>2, <1>4, <1>5, <1>7 DEF WinInv, TypeOK
<1>11. TypeOK'
  BY <1>1, <1>9, <1>10 DEF WinInv, TypeOK
<1>12. Collecting'
  BY <1>1, <1>2, <1>8, Bounds DEF WinInv, Collecting, Connected
<1>13. FromPeer'
  <2>1. content' = Taken(w, taken'[w]) /\ pending' = Rest(w, taken'[w])
    BY <1>5, <1>7
  <2>2. writer[w] \in {"pending"} \cup GaveUp
    BY <1>3, <1>6
  <2> SUFFICES ASSUME NEW v \in Writers, peer' = v
               PROVE  /\ opened'[v]
                      /\ content' = Taken(v, taken'[v])
                      /\ pending' = Rest(v, taken'[v])
                      /\ writer'[v] \in {"pending"} \cup GaveUp
    BY DEF FromPeer, Taken, Rest, GaveUp
  <2>3. v = w
    BY <1>1
  <2> QED
    BY <1>1, <1>3, <2>1, <2>2, <2>3
<1>14. Complete'
  <2> SUFFICES ASSUME reader' = "disconnecting"
               PROVE  content' = Taken(w, taken'[w]) /\ taken'[w] = Size[w]
    BY <1>1, <1>2, Bounds DEF Complete, Taken
  <2>1. Short(Head(pending))
    BY <1>1
  <2>2. k + 1 = Size[w]
    BY <1>5, <2>1 DEF Short
  <2> QED
    BY <1>5, <1>7, <2>2
<1>15. Delivered'
  <2> SUFFICES ASSUME NEW v \in Writers
               PROVE  /\ writer'[v] \in {"idle", "waiting", "found", "opened"}
                         => taken'[v] = 0
                      /\ writer'[v] = "done" => taken'[v] = Size[v]
                      /\ taken'[v] = Size[v] =>
                            content' = Message(v) \/ Message(v) \in ToSet(received')
    BY DEF Delivered, Message
  <2>1. CASE v = w
    <3>1. writer[w] \in {"pending"} \cup GaveUp
      BY <1>3, <1>6
    <3>2. taken'[w] = Size[w] => content' = Message(w)
      BY <1>2, <1>5, <1>7, Ends
    <3> QED
      BY <1>1, <2>1, <3>1, <3>2 DEF GaveUp
  <2>2. CASE v # w
    <3>1. taken[v] = Size[v] => content # Message(v)
      <4> SUFFICES ASSUME taken[v] = Size[v], content = Message(v) PROVE FALSE
        OBVIOUS
      <4>1. Taken(w, k) = Taken(v, Size[v]) /\ Taken(v, Size[v]) # <<>>
        BY <1>3, Ends
      <4>2. Size[v] \in 0 .. Size[v]
        BY Bounds
      <4>3. w = v
        BY <1>2, <1>4, <4>1, <4>2, Whose
      <4> QED
        BY <2>2, <4>3
    <3>2. taken[v] = Size[v] => Message(v) \in ToSet(received)
      BY <3>1 DEF WinInv, Delivered
    <3> QED
      BY <1>1, <1>7, <2>2, <3>2 DEF WinInv, Delivered
  <2> QED
    BY <2>1, <2>2
<1>16. OneWriterPerRead'
  BY <1>1 DEF WinInv, OneWriterPerRead
<1> QED
  BY <1>10, <1>11, <1>12, <1>13, <1>14, <1>15, <1>16 DEF WinInv

LEMMA EndReadInv == ASSUME WinInv, EndRead PROVE WinInv'
<1>1. /\ reader = "disconnecting" /\ reader' = "idle" /\ content' = <<>>
      /\ received' = Append(received, content)
      /\ instance' = "disconnected" /\ peer' = NoWriter /\ pending' = <<>>
      /\ UNCHANGED <<readTime, writer, writeTime, opened, taken>>
  BY DEF EndRead, Release, writeVars
<1>2. content # <<>> /\ content \in Seq(Blocks) /\ received \in Seq(Seq(Blocks))
  BY <1>1 DEF WinInv, Collecting, TypeOK
<1>3. ToSet(received') = ToSet(received) \cup {content} /\ received' \in Seq(Seq(Blocks))
  BY <1>1, <1>2, Received
<1>4. TypeOK' /\ (taken \in [Writers -> Nat])'
  BY <1>1, <1>3 DEF WinInv, TypeOK
<1>5. Collecting' /\ Complete'
  BY <1>1 DEF Collecting, Complete
<1>6. FromPeer'
  BY <1>1, Bounds DEF FromPeer
<1>7. Delivered'
  BY <1>1, <1>3 DEF WinInv, Delivered, Message
<1>8. OneWriterPerRead'
  <2>1. PICK w \in Writers : /\ content = Taken(w, taken[w])
                             /\ taken[w] = Size[w] \/ writer[w] \in GaveUp
    BY <1>1, <1>2 DEF WinInv, Complete
  <2>2. taken[w] \in 0 .. Size[w]
    BY DEF WinInv, TypeOK
  <2>3. IsPrefix(content, Message(w))
    BY <2>1, <2>2, TakenIsPrefix
  <2>4. content # Message(w) => writer[w] \in {"timeout", "interrupted", "killed"}
    BY <2>1, Ends DEF GaveUp
  <2>5. \A c \in ToSet(received) : \E v \in Writers :
           /\ c # <<>> /\ IsPrefix(c, Message(v))
           /\ c # Message(v) => writer[v] \in {"timeout", "interrupted", "killed"}
    BY DEF WinInv, OneWriterPerRead
  <2>6. \A c \in ToSet(received') : \E v \in Writers :
           /\ c # <<>> /\ IsPrefix(c, Message(v))
           /\ c # Message(v) => writer[v] \in {"timeout", "interrupted", "killed"}
    BY <1>2, <1>3, <2>3, <2>4, <2>5
  <2> QED
    BY <1>1, <2>6 DEF OneWriterPerRead
<1> QED
  BY <1>4, <1>5, <1>6, <1>7, <1>8 DEF WinInv

LEMMA ReadBrokenInv == ASSUME WinInv, ReadBroken PROVE WinInv'
<1>1. /\ reader = "reading" /\ instance = "closing"
      /\ UNCHANGED <<readTime, content, received, writeVars, taken>>
  BY DEF ReadBroken
<1>2. CASE content = <<>>
  <2>1. reader' = "reconnecting" /\ instance' = "listening" /\ peer' = NoWriter
        /\ pending' = <<>> /\ content' = <<>>
    BY <1>1, <1>2 DEF ReadBroken, Release
  <2>2. readTime' \in 0 .. ReadTimeout
    BY <1>1 DEF WinInv, TypeOK
  <2> QED
    BY <1>1, <1>2, <2>1, <2>2, NobodyConnected
<1>3. CASE content # <<>>
  <2>1. reader' = "disconnecting" /\ UNCHANGED <<instance, peer, pending>>
    BY <1>3 DEF ReadBroken, pipeVars
  <2>2. peer = NoWriter
    BY <1>1 DEF WinInv, Collecting
  <2>3. TypeOK' /\ (taken \in [Writers -> Nat])'
    BY <1>1, <2>1 DEF WinInv, TypeOK, writeVars
  <2>4. Collecting'
    BY <1>1, <1>3, <2>1, <2>2 DEF WinInv, Collecting, Connected
  <2>5. FromPeer'
    BY <2>1, <2>2, Bounds DEF FromPeer
  <2>6. Complete'
    BY <1>1, <1>3, <2>2 DEF WinInv, Complete, Taken, writeVars
  <2>7. Delivered' /\ OneWriterPerRead'
    BY <1>1 DEF WinInv, Delivered, OneWriterPerRead, writeVars
  <2> QED
    BY <2>3, <2>4, <2>5, <2>6, <2>7 DEF WinInv
<1> QED
  BY <1>2, <1>3

LEMMA OwnerInv ==
    ASSUME WinInv, create \/ destroy \/ BeginRead \/ Read
    PROVE  WinInv'
<1> USE DEF pipeVars, writeVars
<1>1. readTime \in 0 .. ReadTimeout /\ ReadTimeout \in 0 .. ReadTimeout
      /\ \A d \in Nat : readTime > d => readTime - d \in 0 .. ReadTimeout
  BY Bounds DEF WinInv, TypeOK
<1>2. reader \notin {"reading", "disconnecting"} => content = <<>>
  BY DEF WinInv, Collecting
<1>3. instance # "connected" => peer = NoWriter /\ pending = <<>>
  BY DEF WinInv, Collecting
<1>4. CASE create
  <2>1. instance = "absent"
    BY <1>4 DEF create, WinInv, Collecting
  <2> QED
    BY <1>1, <1>2, <1>3, <1>4, <2>1, NobodyConnected DEF create
<1>5. CASE destroy
  BY <1>1, <1>2, <1>5, NobodyConnected DEF destroy, Release
<1>6. CASE BeginRead
  <2>1. content = <<>> /\ content' = <<>> /\ reader = "idle" /\ readTime' = ReadTimeout
        /\ UNCHANGED <<received, peer, pending, writeVars, taken>>
    BY <1>2, <1>6 DEF BeginRead
  <2>2. CASE Connected
    BY <1>1, <1>6, <2>1, <2>2, ReaderOnly DEF BeginRead, Connect
  <2>3. CASE ~Connected
    <3>1. peer = NoWriter /\ pending = <<>>
      BY <1>3, <2>3 DEF Connected
    <3> QED
      BY <1>1, <1>6, <2>1, <2>3, <3>1, NobodyConnected DEF BeginRead, Connect
  <2> QED
    BY <2>2, <2>3
<1>7. CASE ConnectDone
  BY <1>1, <1>2, <1>7, ReaderOnly DEF ConnectDone
<1>8. CASE ConnectWait
  <2>1. readTime' \in 0 .. ReadTimeout
    BY <1>1, <1>8, Bounds DEF ConnectWait
  <2> QED
    BY <1>2, <1>8, <2>1, ReaderOnly DEF ConnectWait
<1>9. CASE WaitToRead
  <2>1. readTime' \in 0 .. ReadTimeout
    BY <1>1, <1>9, Bounds DEF WaitToRead
  <2> QED
    BY <1>2, <1>9, <2>1, ReaderOnly DEF WaitToRead
<1> QED
  BY <1>4, <1>5, <1>6, <1>7, <1>8, <1>9, ReadBlockInv, EndReadInv, ReadBrokenInv
     DEF Read

-----------------------------------------------------------------------------
\* A writer.
LEMMA PauseInv ==
    ASSUME WinInv, NEW w \in Writers, NEW interval \in Nat, Pause(w, interval),
           \/ writer[w] = "waiting"
           \/ writer[w] = "pending"
    PROVE  WinInv'
<1>1. /\ writer \in [Writers -> {"idle", "waiting", "found", "opened", "pending"} \cup Ended]
      /\ writeTime \in [Writers -> 0 .. WriteTimeout]
  BY DEF WinInv, TypeOK
<1>2. UNCHANGED <<readVars, pipeVars, opened, taken>>
  BY DEF Pause
<1>3. writeTime' \in [Writers -> 0 .. WriteTimeout]
  BY <1>1, Bounds DEF Pause
<1>4. PICK state \in {writer[w], "interrupted", "timeout"} :
         writer' = [writer EXCEPT ![w] = state]
  <2>1. writer = [writer EXCEPT ![w] = writer[w]]
    BY <1>1
  <2> QED
    BY <2>1 DEF Pause, Goto
<1>5. peer = w => writer[w] = "pending" /\ pending = Rest(w, taken[w])
  BY DEF WinInv, FromPeer, GaveUp
<1>6. state = "waiting" => taken[w] = 0
  BY DEF WinInv, Delivered
<1>7. state \in {"waiting", "pending"} \cup GaveUp
  BY <1>4 DEF GaveUp
<1>8. peer = w => state \in {"pending"} \cup GaveUp
  BY <1>4, <1>5 DEF GaveUp
<1>9. writer[w] \notin GaveUp
  BY DEF GaveUp
<1>10. state \in {"idle", "waiting", "found", "opened", "pending"} \cup Ended
  BY <1>7 DEF GaveUp, Ended
<1>11. /\ state \in {"idle", "waiting", "found", "opened"} => taken[w] = 0
       /\ state # "done"
  BY <1>6, <1>7 DEF GaveUp
<1> QED
  BY <1>2, <1>3, <1>4, <1>5, <1>8, <1>9, <1>10, <1>11, WriterOnly

LEMMA GotoInv ==
    ASSUME WinInv, NEW w \in Writers,
           \/ write(w) \/ WaitNamedPipe(w) \/ WriteDone(w) \/ Kill(w)
           \/ OpenWrite(w) /\ instance # "listening"
           \/ WriteFile(w) /\ peer # w
    PROVE  WinInv'
<1> USE DEF readVars, pipeVars
<1>1. /\ WriteTimeout \in 0 .. WriteTimeout
      /\ writeTime \in [Writers -> 0 .. WriteTimeout]
  BY Bounds DEF WinInv, TypeOK
<1>2. writeTime' \in [Writers -> 0 .. WriteTimeout]
  BY <1>1 DEF write, WaitNamedPipe, WriteDone, Kill, OpenWrite, WriteFile
<1>3. UNCHANGED <<readVars, pipeVars, opened, taken>>
  BY DEF write, WaitNamedPipe, WriteDone, Kill, OpenWrite, WriteFile
<1>4. /\ writer[w] \in {"idle", "waiting", "found", "opened"} => taken[w] = 0
      /\ writer[w] \in {"idle", "waiting", "found"} => peer # w
      /\ peer = w /\ writer[w] = "opened" => pending = <<>> /\ taken[w] = 0
      /\ peer = w /\ writer[w] = "pending" => pending = Rest(w, taken[w])
  BY DEF WinInv, Delivered, FromPeer, GaveUp
<1>5. CASE write(w)
  BY <1>2, <1>3, <1>4, <1>5, WriterOnly DEF write, Goto, GaveUp, Ended
<1>6. CASE WaitNamedPipe(w)
  BY <1>2, <1>3, <1>4, <1>6, WriterOnly DEF WaitNamedPipe, Goto, GaveUp, Ended
<1>7. CASE WriteDone(w)
  BY <1>2, <1>3, <1>4, <1>7, WriterOnly DEF WriteDone, Goto, GaveUp, Ended
<1>8. CASE Kill(w)
  BY <1>2, <1>3, <1>4, <1>8, WriterOnly DEF Kill, Goto, GaveUp, Ended
<1>9. CASE OpenWrite(w) /\ instance # "listening"
  BY <1>2, <1>3, <1>4, <1>9, WriterOnly DEF OpenWrite, Goto, GaveUp, Ended
<1>10. CASE WriteFile(w) /\ peer # w
  BY <1>2, <1>3, <1>4, <1>10, WriterOnly DEF WriteFile, Goto, GaveUp, Ended
<1> QED
  BY <1>5, <1>6, <1>7, <1>8, <1>9, <1>10

\* CreateFile succeeds: nothing has been collected, and the writer is connected.
LEMMA OpenWriteInv ==
    ASSUME WinInv, NEW w \in Writers, OpenWrite(w), instance = "listening"
    PROVE  WinInv'
<1>1. /\ writer[w] = "found" /\ instance' = "connected" /\ peer' = w
      /\ opened' = [opened EXCEPT ![w] = TRUE] /\ writer' = [writer EXCEPT ![w] = "opened"]
      /\ UNCHANGED <<reader, readTime, content, received, pending, writeTime, taken>>
  BY DEF OpenWrite, Goto, readVars
<1>2. content = <<>> /\ pending = <<>> /\ reader # "none" /\ reader # "disconnecting"
  BY DEF WinInv, Collecting, Connected
<1>3. taken[w] = 0
  BY <1>1 DEF WinInv, Delivered
<1>4. /\ writer \in [Writers -> {"idle", "waiting", "found", "opened", "pending"} \cup Ended]
      /\ opened \in [Writers -> BOOLEAN]
  BY DEF WinInv, TypeOK
<1>5. /\ writer'[w] = "opened" /\ opened'[w]
      /\ \A v \in Writers : v # w => writer'[v] = writer[v]
  BY <1>1, <1>4
<1>6. TypeOK' /\ (taken \in [Writers -> Nat])'
  BY <1>1, <1>4 DEF WinInv, TypeOK
<1>7. Collecting'
  BY <1>1, <1>2, Bounds DEF Collecting, Connected
<1>8. FromPeer'
  <2>1. content' = Taken(w, taken'[w])
    BY <1>1, <1>2, <1>3, Ends
  <2> SUFFICES ASSUME NEW v \in Writers, peer' = v
               PROVE  /\ opened'[v]
                      /\ content' = Taken(v, taken'[v])
                      /\ pending' = <<>> /\ taken'[v] = 0
                      /\ writer'[v] \in {"opened", "killed"}
    BY DEF FromPeer, Taken
  <2> QED
    BY <1>1, <1>2, <1>3, <1>5, <2>1
<1>9. Complete'
  BY <1>1, <1>2 DEF Complete
<1>10. Delivered'
  BY <1>1, <1>3, <1>5 DEF WinInv, Delivered
<1>11. OneWriterPerRead'
  BY <1>1, <1>5 DEF WinInv, OneWriterPerRead
<1> QED
  BY <1>6, <1>7, <1>8, <1>9, <1>10, <1>11 DEF WinInv

\* WriteFile to the instance the writer is connected to.
LEMMA WriteFileInv ==
    ASSUME WinInv, NEW w \in Writers, WriteFile(w), peer = w
    PROVE  WinInv'
<1>1. /\ writer[w] = "opened" /\ pending' = Message(w)
      /\ writer' = [writer EXCEPT ![w] = "pending"]
      /\ UNCHANGED <<reader, readTime, content, received, instance, peer, writeTime,
                     opened, taken>>
  BY DEF WriteFile, Goto, readVars
<1>2. taken[w] = 0 /\ opened[w] /\ content = Taken(w, taken[w])
  BY <1>1 DEF WinInv, Delivered, FromPeer
<1>3. writer \in [Writers -> {"idle", "waiting", "found", "opened", "pending"} \cup Ended]
  BY DEF WinInv, TypeOK
<1>4. writer'[w] = "pending" /\ \A v \in Writers : v # w => writer'[v] = writer[v]
  BY <1>1, <1>3
<1>5. pending' = Rest(w, taken'[w])
  BY <1>1, <1>2, Ends
<1>6. pending' \in Seq(Blocks)
  <2>1. 0 \in 0 .. Size[w]
    BY Bounds
  <2> QED
    BY <1>1, <1>2, <1>5, <2>1, Parts
<1>7. TypeOK' /\ (taken \in [Writers -> Nat])'
  BY <1>1, <1>3, <1>6 DEF WinInv, TypeOK
<1>8. Collecting'
  BY <1>1, Bounds DEF WinInv, Collecting, Connected
<1>9. FromPeer'
  <2> SUFFICES ASSUME NEW v \in Writers, peer' = v
               PROVE  /\ opened'[v]
                      /\ content' = Taken(v, taken'[v])
                      /\ pending' = Rest(v, taken'[v])
                      /\ writer'[v] = "pending"
    BY DEF FromPeer, Taken, Rest
  <2> QED
    BY <1>1, <1>2, <1>4, <1>5
<1>10. Complete'
  BY <1>1, <1>4 DEF WinInv, Complete, Taken, GaveUp
<1>11. Delivered'
  BY <1>1, <1>4 DEF WinInv, Delivered
<1>12. OneWriterPerRead'
  BY <1>1, <1>4 DEF WinInv, OneWriterPerRead
<1> QED
  BY <1>7, <1>8, <1>9, <1>10, <1>11, <1>12 DEF WinInv

\* The connected writer leaves: what has been collected stays the front of its
\* message, all of it if its call returned.
LEMMA CloseWriteInv ==
    ASSUME WinInv, NEW w \in Writers, CloseWrite(w)
    PROVE  WinInv'
<1>1. /\ writer[w] \in Ended /\ opened' = [opened EXCEPT ![w] = FALSE]
      /\ UNCHANGED <<reader, readTime, content, received, writer, writeTime, taken>>
  BY DEF CloseWrite, readVars
<1>2. (opened \in [Writers -> BOOLEAN])'
  BY <1>1 DEF WinInv, TypeOK
<1>3. Delivered' /\ OneWriterPerRead'
  BY <1>1 DEF WinInv, Delivered, OneWriterPerRead
<1>4. CASE peer = w
  <2>1. instance' = "closing" /\ peer' = NoWriter /\ pending' = <<>>
    BY <1>4 DEF CloseWrite, Release
  <2>2. content = Taken(w, taken[w]) /\ (taken[w] = Size[w] \/ writer[w] \in GaveUp \/ taken[w] = 0)
    BY <1>1, <1>4 DEF WinInv, FromPeer, Ended
  <2>3. taken[w] = 0 => content = <<>>
    BY <2>2, Ends
  <2>4. instance = "connected" /\ reader # "none"
    BY <1>4, Bounds DEF WinInv, Collecting
  <2>5. TypeOK' /\ (taken \in [Writers -> Nat])'
    BY <1>1, <1>2, <2>1 DEF WinInv, TypeOK
  <2>6. Collecting'
    BY <1>1, <2>1, <2>4 DEF WinInv, Collecting, Connected
  <2>7. FromPeer'
    BY <2>1, Bounds DEF FromPeer
  <2>8. Complete'
    BY <1>1, <2>2, <2>3 DEF Complete, Taken
  <2> QED
    BY <1>3, <2>5, <2>6, <2>7, <2>8 DEF WinInv
<1>5. CASE peer # w
  <2>1. UNCHANGED <<instance, peer, pending>>
    BY <1>5 DEF CloseWrite, pipeVars
  <2>2. \A v \in Writers : v # w => opened'[v] = opened[v]
    BY <1>1 DEF WinInv, TypeOK
  <2>3. TypeOK' /\ (taken \in [Writers -> Nat])'
    BY <1>1, <1>2, <2>1 DEF WinInv, TypeOK
  <2>4. Collecting' /\ Complete'
    BY <1>1, <2>1 DEF WinInv, Collecting, Complete, Connected, Taken
  <2>5. FromPeer'
    BY <1>1, <1>5, <2>1, <2>2 DEF WinInv, FromPeer, Taken, Rest
  <2> QED
    BY <1>3, <2>3, <2>4, <2>5 DEF WinInv
<1> QED
  BY <1>4, <1>5

-----------------------------------------------------------------------------
LEMMA WinNextInv == ASSUME WinInv, [Next]_vars PROVE WinInv'
<1>1. CASE create \/ destroy \/ BeginRead \/ Read
  BY <1>1, OwnerInv
<1>2. ASSUME NEW w \in Writers, write(w) \/ WriteStep(w) \/ Kill(w)
      PROVE  WinInv'
  <2>1. CASE write(w) \/ WaitNamedPipe(w) \/ WriteDone(w) \/ Kill(w)
    BY <2>1, GotoInv
  <2>2. CASE WaitNamedPipeFails(w) \/ WriteWait(w)
    <3>1. CASE WaitNamedPipeFails(w)
      BY <3>1, PauseInv, Bounds DEF WaitNamedPipeFails
    <3>2. CASE WriteWait(w)
      BY <3>2, PauseInv, Bounds DEF WriteWait
    <3> QED
      BY <2>2, <3>1, <3>2
  <2>3. CASE OpenWrite(w)
    <3>1. CASE instance = "listening"
      BY <2>3, <3>1, OpenWriteInv
    <3>2. CASE instance # "listening"
      BY <2>3, <3>2, GotoInv
    <3> QED
      BY <3>1, <3>2
  <2>4. CASE WriteFile(w)
    <3>1. CASE peer = w
      BY <2>4, <3>1, WriteFileInv
    <3>2. CASE peer # w
      BY <2>4, <3>2, GotoInv
    <3> QED
      BY <3>1, <3>2
  <2>5. CASE CloseWrite(w)
    BY <2>5, CloseWriteInv
  <2> QED
    BY <1>2, <2>1, <2>2, <2>3, <2>4, <2>5 DEF WriteStep
<1>3. CASE UNCHANGED vars
  <2> USE <1>3 DEF vars, readVars, pipeVars, writeVars
  <2>1. TypeOK' /\ (taken \in [Writers -> Nat])'
    BY DEF WinInv, TypeOK
  <2>2. Collecting' /\ Complete'
    BY DEF WinInv, Collecting, Complete, Connected, Taken
  <2>3. FromPeer'
    BY DEF WinInv, FromPeer, Taken, Rest
  <2>4. Delivered' /\ OneWriterPerRead'
    BY DEF WinInv, Delivered, OneWriterPerRead
  <2> QED
    BY <2>1, <2>2, <2>3, <2>4 DEF WinInv
<1> QED
  BY <1>1, <1>2, <1>3 DEF Next

-----------------------------------------------------------------------------
(***************************************************************************)
(* WindowsPipe implements PipeService.                                     *)
(***************************************************************************)
\* What has been returned as a whole has been read to the end.
ReturnedWhole ==
    \A k \in DOMAIN received, w \in Writers :
        received[k] = Message(w) => taken[w] = Size[w]

\* What has been read is the front of some writer's message, and a message that
\* has been read is one that was read to the end.
LEMMA ReadInPart ==
    ASSUME WinInv
    PROVE  /\ content # <<>> =>
                 \E w \in Writers : taken[w] \in 0 .. Size[w] /\ content = Taken(w, taken[w])
           /\ \A w \in Writers : content = Message(w) => taken[w] = Size[w]
<1>1. \A w \in Writers : taken[w] \in 0 .. Size[w]
  BY DEF WinInv, TypeOK
<1>2. ASSUME content # <<>>
      PROVE  \E w \in Writers : content = Taken(w, taken[w])
  <2>1. CASE peer = NoWriter
    BY <1>2, <2>1 DEF WinInv, Complete
  <2>2. CASE peer # NoWriter
    BY <2>2 DEF WinInv, TypeOK, FromPeer
  <2> QED
    BY <2>1, <2>2
<1>3. ASSUME NEW w \in Writers, content = Message(w) PROVE taken[w] = Size[w]
  <2>1. content # <<>> /\ content = Taken(w, Size[w])
    BY <1>3, Ends
  <2>2. PICK v \in Writers : content = Taken(v, taken[v])
    BY <1>2, <2>1
  <2>3. Size[w] \in 0 .. Size[w]
    BY Bounds
  <2>4. v = w /\ taken[v] = Size[w]
    BY <1>1, <2>1, <2>2, <2>3, Whose
  <2> QED
    BY <2>4
<1> QED
  BY <1>1, <1>2, <1>3

\* A message that has not been read to the end has not gone in.
LEMMA NotWentIn ==
    ASSUME WinInv, ReturnedWhole, NEW w \in Writers, taken[w] # Size[w]
    PROVE  w \notin Service!WentIn
<1>1. w \notin WithReader
  BY ReadInPart DEF WithReader
<1>2. \A k \in DOMAIN Batches : w \notin Batches[k]
  BY DEF Batches, ReturnedWhole
<1> QED
  BY <1>1, <1>2 DEF Service!WentIn

\* What the service sees of a step of a writer.
LEMMA WriterMoves ==
    ASSUME WinInv, UNCHANGED <<content, received, taken>>,
           NEW w \in Writers, NEW next, writer' = [writer EXCEPT ![w] = next],
           writer[w] \notin Ended, next = "done" => taken[w] = Size[w]
    PROVE  Service!Confirm(w) \/ Service!GiveUp(w) \/ UNCHANGED Service!vars
<1>1. UNCHANGED <<WithReader, Batches>>
  BY DEF WithReader, Batches
<1>2. writer[w] # "done" /\ DOMAIN writer = Writers
  BY DEF Ended, WinInv, TypeOK
<1>3. Outcomes[w] = "open"
  BY <1>2 DEF Outcomes
<1>4. CASE next = "done"
  <2>1. Outcomes' = [Outcomes EXCEPT ![w] = "done"]
    BY <1>2, <1>4 DEF Outcomes, Ended
  <2>2. content = Message(w) \/ Message(w) \in ToSet(received)
    BY <1>4 DEF WinInv, Delivered
  <2>3. w \in Service!WentIn
    <3>1. CASE content = Message(w)
      BY <3>1 DEF Service!WentIn, WithReader
    <3>2. CASE Message(w) \in ToSet(received)
      <4>1. PICK k \in DOMAIN received : received[k] = Message(w)
        BY <3>2 DEF ToSet
      <4>2. k \in DOMAIN Batches /\ w \in Batches[k]
        BY <4>1 DEF Batches
      <4> QED
        BY <4>2 DEF Service!WentIn
    <3> QED
      BY <2>2, <3>1, <3>2
  <2> QED
    BY <1>1, <1>3, <2>1, <2>3 DEF Service!Confirm
<1>5. CASE next \in Ended /\ next # "done"
  <2>1. Outcomes' = [Outcomes EXCEPT ![w] = "given up"]
    BY <1>2, <1>5 DEF Outcomes
  <2> QED
    BY <1>1, <1>3, <2>1 DEF Service!GiveUp
<1>6. CASE next \notin Ended
  <2>1. Outcomes' = Outcomes
    BY <1>2, <1>6 DEF Outcomes, Ended
  <2> QED
    BY <1>1, <2>1 DEF Service!vars
<1> QED
  BY <1>4, <1>5, <1>6

\* With its last block, a message has gone in.
LEMMA Accepts ==
    ASSUME WinInv, ReturnedWhole, ReadBlock
    PROVE  /\ (\E w \in Writers : Service!Accept(w)) \/ UNCHANGED Service!vars
           /\ ReturnedWhole'
<1>1. /\ pending # <<>> /\ taken' = [taken EXCEPT ![peer] = @ + 1]
      /\ content' = Append(content, Head(pending))
      /\ UNCHANGED <<received, writer>>
  BY DEF ReadBlock, writeVars
<1>2. PICK w \in Writers : w = peer
  BY <1>1 DEF WinInv, Collecting, TypeOK
<1>3. PICK k \in 0 .. Size[w] : k = taken[w]
  BY DEF WinInv, TypeOK
<1>4. content = Taken(w, k) /\ pending = Rest(w, k)
  BY <1>1, <1>2, <1>3 DEF WinInv, FromPeer
<1>5. /\ k + 1 \in 0 .. Size[w] /\ content' = Taken(w, k + 1)
      /\ k # Size[w] /\ Size[w] \in 0 .. Size[w] /\ k \in Nat
  BY <1>1, <1>4, Move, Bounds
<1>6. WithReader = {} /\ w \notin Service!WentIn /\ writer[w] # "done"
  <2>1. \A v \in Writers : content # Message(v)
    <3> SUFFICES ASSUME NEW v \in Writers, content = Message(v) PROVE FALSE
      OBVIOUS
    <3>1. content = Taken(v, Size[v]) /\ content # <<>> /\ Size[v] \in 0 .. Size[v]
      BY Ends, Bounds
    <3>2. v = w /\ Size[v] = k
      BY <1>4, <3>1, Whose
    <3> QED
      BY <1>5, <3>2
  <2>2. w \notin Service!WentIn
    BY <1>3, <1>5, NotWentIn
  <2> QED
    BY <1>3, <1>5, <2>1, <2>2 DEF WithReader, WinInv, Delivered
<1>7. Outcomes' = Outcomes /\ Batches' = Batches /\ Outcomes[w] \in {"open", "given up"}
  BY <1>1, <1>6 DEF Outcomes, Batches
<1>8. ReturnedWhole'
  <2>1. \A v \in Writers : taken[v] = Size[v] => taken'[v] = taken[v]
    BY <1>1, <1>2, <1>3, <1>5 DEF WinInv
  <2> QED
    BY <1>1, <2>1 DEF ReturnedWhole
<1>9. ASSUME NEW v \in Writers, content' = Message(v) PROVE v = w /\ k + 1 = Size[w]
  <2>1. /\ Taken(v, Size[v]) = Taken(w, k + 1) /\ Taken(w, k + 1) # <<>>
        /\ Size[v] \in 0 .. Size[v]
    BY <1>5, <1>9, Ends, Bounds
  <2> QED
    BY <1>5, <2>1, Whose
<1>10. CASE k + 1 = Size[w]
  <2>1. content' = Message(w)
    BY <1>5, <1>10, Ends
  <2>2. WithReader' = {w}
    BY <1>9, <2>1 DEF WithReader
  <2>3. Service!Accept(w)
    BY <1>6, <1>7, <2>2 DEF Service!Accept
  <2> QED
    BY <1>8, <2>3
<1>11. CASE k + 1 # Size[w]
  <2>1. WithReader' = {}
    BY <1>9, <1>11 DEF WithReader
  <2> QED
    BY <1>6, <1>7, <1>8, <2>1 DEF Service!vars
<1> QED
  BY <1>10, <1>11

\* What the caller of read_blocking gets is what has gone in, or is in part what
\* was given up.
LEMMA Returns ==
    ASSUME WinInv, ReturnedWhole, EndRead
    PROVE  Service!Return(WithReader) /\ ReturnedWhole'
<1>1. /\ received' = Append(received, content) /\ content' = <<>>
      /\ reader = "disconnecting" /\ UNCHANGED <<writer, taken>>
  BY DEF EndRead, writeVars
<1>2. received \in Seq(Seq(Blocks)) /\ content \in Seq(Blocks) /\ content # <<>>
  BY <1>1 DEF WinInv, TypeOK, Collecting
<1>3. DOMAIN received = 1 .. Len(received) /\ Len(received) \in Nat
  BY <1>2
<1>4. /\ DOMAIN received' = 1 .. (Len(received) + 1)
      /\ \A k \in 1 .. Len(received) : received'[k] = received[k]
      /\ received'[Len(received) + 1] = content
  BY <1>1, <1>2, <1>3
<1>5. ReturnedWhole'
  <2> SUFFICES ASSUME NEW k \in 1 .. (Len(received) + 1), NEW w \in Writers,
                      received'[k] = Message(w)
               PROVE  taken[w] = Size[w]
    BY <1>1, <1>4 DEF ReturnedWhole
  <2>1. CASE k \in 1 .. Len(received)
    BY <1>3, <1>4, <2>1 DEF ReturnedWhole
  <2>2. CASE k = Len(received) + 1
    BY <1>4, <2>2, ReadInPart
  <2>3. k \in 1 .. Len(received) \/ k = Len(received) + 1
    BY <1>3
  <2> QED
    BY <2>1, <2>2, <2>3
<1>6. Batches' = Append(Batches, WithReader)
  <2>1. Batches \in Seq(SUBSET Writers) /\ Len(Batches) = Len(received)
    BY <1>3 DEF Batches
  <2>2. Batches' = [k \in 1 .. (Len(received) + 1) |->
                       {w \in Writers : received'[k] = Message(w)}]
    BY <1>4 DEF Batches
  <2>3. /\ Append(Batches, WithReader) \in Seq(SUBSET Writers)
        /\ Len(Append(Batches, WithReader)) = Len(received) + 1
        /\ \A k \in 1 .. Len(received) : Append(Batches, WithReader)[k] = Batches[k]
        /\ Append(Batches, WithReader)[Len(received) + 1] = WithReader
    <3>1. WithReader \in SUBSET Writers
      BY DEF WithReader
    <3> QED
      BY <1>3, <2>1, <3>1
  <2>4. ASSUME NEW k \in 1 .. (Len(received) + 1)
        PROVE  Batches'[k] = Append(Batches, WithReader)[k]
    <3>1. Batches'[k] = {w \in Writers : received'[k] = Message(w)}
      BY <2>2
    <3>2. CASE k \in 1 .. Len(received)
      <4>1. Batches[k] = {w \in Writers : received[k] = Message(w)}
        BY <1>3, <3>2 DEF Batches
      <4> QED
        BY <1>4, <2>3, <3>1, <3>2, <4>1
    <3>3. CASE k = Len(received) + 1
      BY <1>4, <2>3, <3>1, <3>3 DEF WithReader
    <3>4. k \in 1 .. Len(received) \/ k = Len(received) + 1
      BY <1>3
    <3> QED
      BY <3>2, <3>3, <3>4
  <2>5. Batches' \in Seq(SUBSET Writers) /\ Len(Batches') = Len(received) + 1
    BY <1>3, <2>2
  <2> QED
    BY <2>3, <2>4, <2>5
<1>7. WithReader' = {}
  BY <1>1, Ends DEF WithReader
<1>8. ASSUME WithReader = {}
      PROVE  \E w \in Writers : Outcomes[w] = "given up" /\ w \notin Service!WentIn
  <2>1. PICK w \in Writers : /\ content = Taken(w, taken[w])
                             /\ taken[w] = Size[w] \/ writer[w] \in GaveUp
    BY <1>1, <1>2 DEF WinInv, Complete
  <2>2. taken[w] # Size[w]
    BY <1>8, <2>1, Ends DEF WithReader
  <2>3. Outcomes[w] = "given up"
    BY <2>1, <2>2 DEF Outcomes, GaveUp, Ended
  <2> QED
    BY <2>2, <2>3, NotWentIn
<1>9. Outcomes' = Outcomes
  BY <1>1 DEF Outcomes
<1>10. Service!Keep({})
  BY <1>7 DEF Service!Keep
<1> QED
  BY <1>5, <1>6, <1>8, <1>9, <1>10 DEF Service!Return

LEMMA ServiceInit == Init => Service!Init /\ ReturnedWhole
BY Ends DEF Init, Service!Init, Outcomes, Ended, WithReader, Batches, ReturnedWhole

LEMMA ServiceStep ==
    ASSUME WinInv, ReturnedWhole, [Next]_vars
    PROVE  [Service!Next]_(Service!vars) /\ ReturnedWhole'
<1> USE DEF readVars, pipeVars, writeVars
<1>1. ASSUME UNCHANGED <<content, received, taken>>
      PROVE  ReturnedWhole'
  BY <1>1 DEF ReturnedWhole
<1>2. ASSUME UNCHANGED <<content, received, taken, writer>>
      PROVE  UNCHANGED Service!vars
  BY <1>2 DEF Service!vars, Outcomes, WithReader, Batches
<1>3. CASE create \/ destroy \/ BeginRead \/ ConnectDone \/ ConnectWait \/ ReadBroken
           \/ WaitToRead
  <2>1. UNCHANGED <<content, received, taken, writer>>
    BY <1>3 DEF create, destroy, BeginRead, ConnectDone, ConnectWait, ReadBroken,
                WaitToRead, WinInv, Collecting
  <2> QED
    BY <1>1, <1>2, <2>1
<1>4. CASE ReadBlock
  BY <1>4, Accepts DEF Service!Next
<1>5. CASE EndRead
  <2>1. WithReader \in SUBSET WithReader
    OBVIOUS
  <2> QED
    BY <1>5, <2>1, Returns DEF Service!Next
<1>6. ASSUME NEW w \in Writers, write(w) \/ WriteStep(w) \/ Kill(w)
      PROVE  [Service!Next]_(Service!vars) /\ ReturnedWhole'
  <2>1. UNCHANGED <<content, received, taken>>
    BY <1>6 DEF write, WriteStep, WaitNamedPipe, WaitNamedPipeFails, OpenWrite, WriteFile,
                WriteDone, WriteWait, CloseWrite, Kill, Pause
  <2> SUFFICES [Service!Next]_(Service!vars)
    BY <1>1, <2>1
  <2>2. ASSUME NEW next, writer' = [writer EXCEPT ![w] = next],
               writer[w] \notin Ended, next = "done" => taken[w] = Size[w]
        PROVE  [Service!Next]_(Service!vars)
    BY <2>1, <2>2, WriterMoves DEF Service!Next
  <2>3. CASE CloseWrite(w)
    BY <1>2, <2>1, <2>3 DEF CloseWrite
  <2>4. CASE WaitNamedPipeFails(w) \/ WriteWait(w)
    <3>1. writer[w] \notin Ended
      BY <2>4 DEF WaitNamedPipeFails, WriteWait, Ended
    <3>2. UNCHANGED writer \/ \E next \in {"interrupted", "timeout"} :
                                 writer' = [writer EXCEPT ![w] = next]
      BY <2>4 DEF WaitNamedPipeFails, WriteWait, Pause, Goto
    <3> QED
      BY <1>2, <2>1, <2>2, <3>1, <3>2
  <2>5. CASE write(w) \/ WaitNamedPipe(w) \/ Kill(w)
    BY <2>2, <2>5 DEF write, WaitNamedPipe, Kill, Goto, Ended
  <2>6. CASE OpenWrite(w) \/ WriteFile(w) \/ WriteDone(w)
    BY <2>2, <2>6 DEF OpenWrite, WriteFile, WriteDone, Goto, Ended
  <2> QED
    BY <1>6, <2>3, <2>4, <2>5, <2>6 DEF WriteStep
<1>7. CASE UNCHANGED vars
  BY <1>1, <1>2, <1>7 DEF vars
<1> QED
  BY <1>3, <1>4, <1>5, <1>6, <1>7 DEF Next, Read

(***************************************************************************)
(* The invariant of all the steps of the reader and of the writers: what   *)
(* read_blocking collects is the front of the message of the writer that   *)
(* is connected to the instance, and what WriteFile has pending the rest.  *)
(***************************************************************************)
THEOREM WinInvariance == Spec => []WinInv
<1> QED
  BY WinInitInv, WinNextInv, PTL DEF Spec

(***************************************************************************)
(* Type correctness: no wait of the Windows NamedPipe brings a timeout     *)
(* below zero, and no more blocks are read than have been written.         *)
(***************************************************************************)
THEOREM WinTypeCorrect == Spec => []TypeOK
<1>1. WinInv => TypeOK
  BY DEF WinInv
<1> QED
  BY WinInvariance, <1>1, PTL

(***************************************************************************)
(* A call of read_blocking returns blocks of one writer, all of its        *)
(* message unless that writer gave up, however many writers compete for    *)
(* the instance (NamedPipe::read_blocking and NamedPipe::write).           *)
(***************************************************************************)
THEOREM OneWriterInRead == Spec => []OneWriterPerRead
<1>1. WinInv => OneWriterPerRead
  BY DEF WinInv
<1> QED
  BY WinInvariance, <1>1, PTL

(***************************************************************************)
(* A write that returns without an exception has been read to the end, and *)
(* what was read is returned by read_blocking or still with it: no         *)
(* disconnect, timeout or interruption in between loses it.                *)
(***************************************************************************)
THEOREM DoneWritesRead == Spec => []DoneMeansRead
<1>1. WinInv => DoneMeansRead
  BY DEF WinInv, Delivered, DoneMeansRead
<1> QED
  BY WinInvariance, <1>1, PTL

(***************************************************************************)
(* The Windows NamedPipe keeps the promise of PipeService: what was read   *)
(* to the end is returned whole and once, and only what was given up is    *)
(* returned in part, whoever competes for the instance.                    *)
(***************************************************************************)
THEOREM WinImplementsService == Spec => ServiceSpec
<1>1. WinInv /\ ReturnedWhole /\ [Next]_vars
         => [Service!Next]_(Service!vars) /\ ReturnedWhole'
  BY ServiceStep
<1> QED
  BY <1>1, ServiceInit, WinInvariance, PTL DEF Spec, ServiceSpec, Service!Spec
=============================================================================
