--------------------------- MODULE RefSender_proofs ---------------------------
(***************************************************************************)
(* Proofs about the reference-forwarding wrapper of channel_spec.rs, for   *)
(* every MaxStarts satisfying MaxStartsAssumption.                        *)
(***************************************************************************)
EXTENDS RefSender, SequenceTheorems, TLAPS

(***************************************************************************)
(* The strengthening.  Each live wrapper holds its sender (so the unwrap  *)
(* in RefSenderSpecFut::poll finds it), a start future exists only when   *)
(* another start is within the bound, and the two properties themselves.  *)
(***************************************************************************)
SenderHeld == phase \in {"spec", "fut", "sup"} => sender

FutHasRoom == phase = "fut" => starts < MaxStarts

RInv ==
    /\ TypeOK
    /\ SenderNeverMissing
    /\ SenderHeld
    /\ FutHasRoom
    /\ RefsForwardedInOrder
    /\ ClosedOnlyWhenGone

-----------------------------------------------------------------------------
(* Lemmas about the observer's view, received \o queue. *)

\* Appending to the buffer appends to the concatenation.
LEMMA ConcatAppend ==
    ASSUME NEW S, NEW s \in Seq(S), NEW q \in Seq(S), NEW e \in S
    PROVE  s \o Append(q, e) = Append(s \o q, e)
<1>1. Append(q, e) = q \o <<e>>
  BY AppendIsConcat
<1>2. s \o q \in Seq(S) /\ <<e>> \in Seq(S)
  BY ConcatProperties
<1>3. Append(s \o q, e) = (s \o q) \o <<e>>
  BY <1>2, AppendIsConcat
<1>4. (s \o q) \o <<e>> = s \o (q \o <<e>>)
  BY <1>2, ConcatAssociative
<1>. QED  BY <1>1, <1>3, <1>4

\* Moving the head of the buffer to the end of what was received keeps
\* their concatenation.
LEMMA MoveHead ==
    ASSUME NEW S, NEW s \in Seq(S), NEW q \in Seq(S), q # <<>>
    PROVE  Append(s, Head(q)) \o Tail(q) = s \o q
<1>1. Head(q) \in S /\ Tail(q) \in Seq(S) /\ Len(Tail(q)) = Len(q) - 1
      /\ \A i \in 1..Len(Tail(q)) : Tail(q)[i] = q[i + 1]
  BY HeadTailProperties
<1>2. <<Head(q)>> \o Tail(q) = q
  <2>1. <<Head(q)>> \in Seq(S)
    BY <1>1
  <2>2. /\ <<Head(q)>> \o Tail(q) \in Seq(S)
        /\ Len(<<Head(q)>> \o Tail(q)) = 1 + Len(Tail(q))
        /\ \A i \in 1..(1 + Len(Tail(q))) : (<<Head(q)>> \o Tail(q))[i] =
              IF i <= 1 THEN <<Head(q)>>[i] ELSE Tail(q)[i - 1]
    BY <1>1, <2>1, ConcatProperties
  <2>3. Len(q) \in Nat /\ Len(q) # 0
    BY LenProperties, EmptySeq
  <2>4. \A i \in 1..Len(q) : (<<Head(q)>> \o Tail(q))[i] = q[i]
    BY <1>1, <2>2, <2>3
  <2>. QED  BY <1>1, <2>2, <2>3, <2>4, SeqEqual
<1>3. Append(s, Head(q)) = s \o <<Head(q)>>
  BY <1>1, AppendIsConcat
<1>4. (s \o <<Head(q)>>) \o Tail(q) = s \o (<<Head(q)>> \o Tail(q))
  BY <1>1, ConcatAssociative
<1>. QED  BY <1>2, <1>3, <1>4

\* The references of the first n starts, extended by the next one.
LEMMA RefsAppend ==
    ASSUME NEW n \in Nat
    PROVE  Append([k \in 1..n |-> k], n + 1) = [k \in 1..(n + 1) |-> k]
<1>1. [k \in 1..n |-> k] \in Seq(Nat) /\ [k \in 1..(n + 1) |-> k] \in Seq(Nat)
  OBVIOUS
<1>2. /\ Append([k \in 1..n |-> k], n + 1) \in Seq(Nat)
      /\ Len(Append([k \in 1..n |-> k], n + 1)) = n + 1
      /\ \A i \in 1..n : Append([k \in 1..n |-> k], n + 1)[i] = i
      /\ Append([k \in 1..n |-> k], n + 1)[n + 1] = n + 1
  BY <1>1, AppendProperties
<1>3. Len([k \in 1..(n + 1) |-> k]) = n + 1
  OBVIOUS
<1>4. \A i \in 1..Len(Append([k \in 1..n |-> k], n + 1)) :
        Append([k \in 1..n |-> k], n + 1)[i] = [k \in 1..(n + 1) |-> k][i]
  BY <1>2
<1>. QED  BY <1>1, <1>2, <1>3, <1>4, SeqEqual, Zenon

-----------------------------------------------------------------------------
(* The invariant is inductive. *)

LEMMA RInit == Init => RInv
<1> SUFFICES ASSUME Init PROVE RInv
  OBVIOUS
<1>1. TypeOK
  <2>1. <<>> \in Seq(1..MaxStarts)
    BY EmptySeq
  <2>2. 0 \in 0..MaxStarts
    BY MaxStartsAssumption
  <2>. QED  BY <2>1, <2>2 DEF Init, TypeOK, Gone
<1>2. RefsForwardedInOrder
  <2>1. <<>> \o <<>> = <<>>
    BY EmptySeq, ConcatEmptySeq
  <2>2. [k \in 1..0 |-> k] = <<>>
    OBVIOUS
  <2>. QED  BY <2>1, <2>2 DEF Init, RefsForwardedInOrder
<1>3. SenderNeverMissing /\ SenderHeld /\ FutHasRoom /\ ClosedOnlyWhenGone
  BY DEF Init, SenderNeverMissing, SenderHeld, FutHasRoom, ClosedOnlyWhenGone
<1>. QED  BY <1>1, <1>2, <1>3 DEF RInv

LEMMA RStep == RInv /\ [Next]_vars => RInv'
<1> SUFFICES ASSUME RInv, [Next]_vars PROVE RInv'
  OBVIOUS
<1>0. /\ queue \in Seq(1..MaxStarts) /\ received \in Seq(1..MaxStarts)
      /\ starts \in 0..MaxStarts /\ MaxStarts \in Nat
      /\ phase \in {"spec", "fut", "sup", "finished", "failed", "panicked"}
      /\ phase # "panicked"
  BY MaxStartsAssumption DEF RInv, TypeOK, Gone, SenderNeverMissing
<1>. USE DEF RInv, TypeOK, Gone, SenderNeverMissing, SenderHeld, FutHasRoom,
             RefsForwardedInOrder, ClosedOnlyWhenGone
<1>1. CASE Start
  BY <1>1, <1>0 DEF Start, observerVars
<1>2. CASE StartedOk
  \* A start future exists only with room for the next reference, and it
  \* holds the sender, so the next reference is appended.
  <2>1. sender /\ starts + 1 \in 1..MaxStarts /\ starts \in Nat
    BY <1>2, <1>0 DEF StartedOk
  <2>2. /\ phase' = "sup" /\ starts' = starts + 1 /\ queue' = Send(queue, starts + 1)
        /\ UNCHANGED <<sender, rxAlive, received, sawClosed>>
    BY <1>2, <2>1 DEF StartedOk, observerVars
  <2>3. Send(queue, starts + 1) \in Seq(1..MaxStarts)
    BY <1>0, <2>1, AppendProperties DEF Send
  <2>4. rxAlive => received \o Send(queue, starts + 1) = [k \in 1..(starts + 1) |-> k]
    <3> SUFFICES ASSUME rxAlive
                 PROVE  received \o Append(queue, starts + 1) = [k \in 1..(starts + 1) |-> k]
      BY DEF Send
    <3>1. received \o Append(queue, starts + 1) = Append(received \o queue, starts + 1)
      BY <1>0, <2>1, ConcatAppend
    <3>. QED  BY <3>1, <2>1, RefsAppend
  <2>5. ~sawClosed
    BY <1>2 DEF StartedOk
  <2>6. TypeOK'
    BY <2>1, <2>2, <2>3
  <2>7. RefsForwardedInOrder'
    BY <2>2, <2>4
  <2>8. (SenderNeverMissing /\ SenderHeld /\ FutHasRoom /\ ClosedOnlyWhenGone)'
    BY <2>1, <2>2, <2>5
  <2>. QED  BY <2>6, <2>7, <2>8
<1>3. CASE StartedFailure
  <2>1. sender
    BY <1>3 DEF StartedFailure
  <2>. QED  BY <1>3, <1>0, <2>1 DEF StartedFailure, observerVars
<1>4. CASE StartedEnd
  BY <1>4, <1>0 DEF StartedEnd, observerVars
<1>5. CASE ExitRestart
  BY <1>5, <1>0 DEF ExitRestart, observerVars
<1>6. CASE ExitEnd
  BY <1>6, <1>0 DEF ExitEnd, observerVars
<1>7. CASE Recv
  <2>1. Head(queue) \in 1..MaxStarts /\ Tail(queue) \in Seq(1..MaxStarts)
    BY <1>7, <1>0, HeadTailProperties DEF Recv
  <2>2. Append(received, Head(queue)) \in Seq(1..MaxStarts)
    BY <1>0, <2>1, AppendProperties
  <2>3. Append(received, Head(queue)) \o Tail(queue) = received \o queue
    BY <1>7, <1>0, MoveHead DEF Recv
  <2>. QED  BY <1>7, <2>1, <2>2, <2>3 DEF Recv
<1>8. CASE RecvClosed
  \* No sender is left only once the child is gone.
  <2>1. phase \in Gone
    BY <1>8, <1>0 DEF RecvClosed
  <2>. QED  BY <1>8, <2>1 DEF RecvClosed
<1>9. CASE DropReceiver
  BY <1>9, <1>0, EmptySeq DEF DropReceiver
<1>10. CASE UNCHANGED vars
  BY <1>10 DEF vars
<1>. QED  BY <1>1, <1>2, <1>3, <1>4, <1>5, <1>6, <1>7, <1>8, <1>9, <1>10 DEF Next

-----------------------------------------------------------------------------
(* The properties checked by refsender_safety, for every MaxStarts. *)

\* Every variable of the wrapper and its observer keeps its type.
THEOREM RefSenderTypeCorrect == Spec => []TypeOK
BY RInit, RStep, PTL DEF Spec, RInv

\* The sender.take().unwrap() of RefSenderSpecFut::poll never panics,
\* however failed starts and restarts interleave.
THEOREM SenderNeverLost == Spec => []SenderNeverMissing
BY RInit, RStep, PTL DEF Spec, RInv

\* While the observer holds the receiver, it has received, or finds
\* buffered, exactly the references of the successful starts, in order.
THEOREM RefsInOrder == Spec => []RefsForwardedInOrder
BY RInit, RStep, PTL DEF Spec, RInv

\* The observer sees the channel closed only after the child's final exit.
THEOREM ClosedMeansGone == Spec => []ClosedOnlyWhenGone
BY RInit, RStep, PTL DEF Spec, RInv

-----------------------------------------------------------------------------
(* The refinement of RefStream, under alive <- phase \notin Gone. *)

\* Every step of the wrappers or the observer, from a state of RInv, is a
\* step of the promised stream or leaves it alone.
LEMMA StreamStep ==
    ASSUME RInv, [Next]_vars
    PROVE  [Stream!SNext]_(Stream!svars)
<1>0. /\ phase \in {"spec", "fut", "sup", "finished", "failed", "panicked"}
      /\ phase # "panicked"
      /\ phase \in {"spec", "fut", "sup"} => sender
      /\ phase = "fut" => starts < MaxStarts
  BY DEF RInv, TypeOK, Gone, SenderNeverMissing, SenderHeld, FutHasRoom
<1>1. CASE Start \/ StartedFailure \/ ExitRestart
  \* The relay of the sender between wrappers: invisible.
  BY <1>1, <1>0 DEF Start, StartedFailure, ExitRestart, observerVars, Gone,
                    Stream!svars
<1>2. CASE StartedOk
  <2>1. Stream!SPublish
    BY <1>2, <1>0 DEF StartedOk, Send, observerVars, Gone, Stream!SPublish
  <2>. QED  BY <2>1 DEF Stream!SNext
<1>3. CASE StartedEnd \/ ExitEnd
  <2>1. Stream!SEnd
    BY <1>3, <1>0 DEF StartedEnd, ExitEnd, observerVars, Gone, Stream!SEnd
  <2>. QED  BY <2>1 DEF Stream!SNext
<1>4. CASE Recv
  <2>1. Stream!SRecv
    BY <1>4 DEF Recv, Stream!SRecv
  <2>. QED  BY <2>1 DEF Stream!SNext
<1>5. CASE RecvClosed
  \* With no sender left, no wrapper is left: the stream has ended.
  <2>1. Stream!SRecvClosed
    BY <1>5, <1>0 DEF RecvClosed, Gone, Stream!SRecvClosed
  <2>. QED  BY <2>1 DEF Stream!SNext
<1>6. CASE DropReceiver
  <2>1. Stream!SDrop
    BY <1>6 DEF DropReceiver, Stream!SDrop
  <2>. QED  BY <2>1 DEF Stream!SNext
<1>7. CASE UNCHANGED vars
  BY <1>7 DEF vars, Stream!svars
<1>. QED  BY <1>1, <1>2, <1>3, <1>4, <1>5, <1>6, <1>7 DEF Next

\* RefSenderSpec implements the stream it promises its observer: the
\* property ImplementsRefStream, for every MaxStarts.
THEOREM RefSenderImplementsStream == Spec => ImplementsRefStream
<1>1. Init => Stream!SInit
  BY DEF Init, Gone, Stream!SInit
<1>2. Spec => []RInv
  BY RInit, RStep, PTL DEF Spec
<1>. QED  BY <1>1, <1>2, StreamStep, PTL DEF Spec, ImplementsRefStream, Stream!SSpec
====
