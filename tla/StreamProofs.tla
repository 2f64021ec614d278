---------------------------- MODULE StreamProofs ----------------------------
(***************************************************************************)
(* Proofs about Stream for every set of forwarders, readers and            *)
(* indications and every buffer size: the inductive invariant, the safety  *)
(* properties that follow from it, and that a stream implements the        *)
(* abstract bounded queue.                                                 *)
(***************************************************************************)
EXTENDS Stream, SequenceTheorems, TLAPS

USE StreamAssumption

-----------------------------------------------------------------------------
(* Sequences: what one step moves between received, hand and buffer *)

\* Moving the head of the third sequence to an empty second one keeps the whole.
LEMMA HeadMovesUp ==
  ASSUME NEW S, NEW s \in Seq(S), NEW u \in Seq(S), u # <<>>
  PROVE  s \o <<>> \o u = s \o <<Head(u)>> \o Tail(u)
<1>1. Head(u) \in S /\ Tail(u) \in Seq(S) /\ <<Head(u)>> \in Seq(S)
  BY HeadTailProperties
<1>2. Len(<<Head(u)>> \o Tail(u)) = Len(u)
  <2>1. Len(<<Head(u)>>) = 1 /\ Len(Tail(u)) = Len(u) - 1 /\ Len(u) \in Nat
    BY HeadTailProperties, LenProperties
  <2>2. QED
    BY <1>1, <2>1, ConcatProperties
<1>3. ASSUME NEW i \in 1..Len(u)
      PROVE  (<<Head(u)>> \o Tail(u))[i] = u[i]
  BY <1>1, <1>2, ConcatProperties, HeadTailProperties, LenProperties
<1>4. <<Head(u)>> \o Tail(u) = u
  <2>1. <<Head(u)>> \o Tail(u) \in Seq(S)
    BY <1>1, ConcatProperties
  <2>2. QED
    BY <1>2, <1>3, <2>1, SeqEqual
<1>5. s \o <<>> = s
  BY ConcatEmptySeq
<1>6. s \o <<Head(u)>> \o Tail(u) = s \o (<<Head(u)>> \o Tail(u))
  BY <1>1, ConcatAssociative
<1>7. QED
  BY <1>4, <1>5, <1>6

\* Moving the only element of the second sequence to the first keeps the whole.
LEMMA HandMovesUp ==
  ASSUME NEW S, NEW s \in Seq(S), NEW u \in Seq(S), NEW e \in S
  PROVE  s \o <<e>> \o u = Append(s, e) \o <<>> \o u
<1>1. Append(s, e) = s \o <<e>> /\ Append(s, e) \in Seq(S)
  BY AppendIsConcat, AppendProperties
<1>2. Append(s, e) \o <<>> = Append(s, e)
  BY <1>1, ConcatEmptySeq
<1>3. QED
  BY <1>1, <1>2

-----------------------------------------------------------------------------
(* The inductive invariant *)

LEMMA StreamInit == Init => StreamInv
<1>1. <<>> \in Seq(Indications) /\ Len(<<>>) = 0 /\ <<>> \o <<>> \o <<>> = <<>>
  BY EmptySeq, ConcatEmptySeq
<1>2. Init => TypeOK
  BY <1>1 DEF Init, TypeOK
<1>3. Init => NoLossNoReorder
  BY <1>1 DEF Init, NoLossNoReorder, InHand
<1>4. QED
  BY <1>1, <1>2, <1>3 DEF Init, StreamInv, NoSleepOnWork

LEMMA StreamStep == StreamInv /\ [Next]_vars => StreamInv'
<1> SUFFICES ASSUME StreamInv, [Next]_vars
             PROVE  StreamInv'
  OBVIOUS
<1> USE DEF StreamInv, TypeOK, NoSleepOnWork
<1>0. InHand \in Seq(Indications)
  <2>1. CASE drain = "offer"
    BY <2>1 DEF InHand
  <2>2. CASE drain # "offer"
    BY <2>2 DEF InHand
  <2>3. QED
    BY <2>1, <2>2
<1>1. ASSUME NEW f \in Forwarders, NEW ind \in Indications, SendAccepted(f, ind)
      PROVE  StreamInv'
  <2>1. /\ buffer' \in Seq(Indications)
        /\ sent' \in Seq(Indications)
        /\ Len(buffer') = Len(buffer) + 1
        /\ Len(buffer) \in Nat
    BY <1>1, AppendProperties, LenProperties DEF SendAccepted
  <2>2. InHand' = InHand
    BY <1>1 DEF SendAccepted, Signal, InHand
  <2>3. NoLossNoReorder'
    <3>1. /\ received \o InHand \in Seq(Indications)
          /\ <<ind>> \in Seq(Indications)
      BY <1>0, ConcatProperties
    <3>2. /\ sent' = sent \o <<ind>>
          /\ buffer' = buffer \o <<ind>>
          /\ received' = received
      BY <1>1, AppendIsConcat DEF SendAccepted
    <3>3. (received \o InHand \o buffer) \o <<ind>>
            = received \o InHand \o (buffer \o <<ind>>)
      BY SMTT(30), <3>1, ConcatAssociative
    <3>4. QED
      BY <2>2, <3>2, <3>3 DEF NoLossNoReorder
  <2>4. drain' \in {"next", "offer", "done"} /\ (drain' = "done" => drain = "done")
    BY <1>1 DEF SendAccepted, Signal
  <2>5. QED
    BY <1>1, <2>1, <2>3, <2>4 DEF SendAccepted, Signal
<1>2. ASSUME NEW f \in Forwarders, SendRefused(f)
      PROVE  StreamInv'
  BY <1>2 DEF SendRefused, NoLossNoReorder, InHand
<1>3. CASE Close
  BY <1>3 DEF Close, NoLossNoReorder, InHand
<1>4. CASE TakeHead
  <2>1. /\ hand' \in Indications
        /\ buffer' \in Seq(Indications)
        /\ Len(buffer') = Len(buffer) - 1
        /\ Len(buffer) \in Nat
    BY <1>4, HeadTailProperties, LenProperties DEF TakeHead
  <2>2. NoLossNoReorder'
    BY <1>4, HeadMovesUp DEF TakeHead, NoLossNoReorder, InHand
  <2>3. QED
    BY <1>4, <2>1, <2>2 DEF TakeHead
<1>5. CASE Park
  BY <1>5 DEF Park, NoLossNoReorder, InHand
<1>6. CASE CloseChannel
  BY <1>6 DEF CloseChannel, NoLossNoReorder, InHand
<1>7. ASSUME NEW r \in Readers, CallRecv(r)
      PROVE  StreamInv'
  BY <1>7 DEF CallRecv, NoLossNoReorder, InHand
<1>8. ASSUME NEW r \in Readers, HandOver(r)
      PROVE  StreamInv'
  <2>1. received' \in Seq(Indications)
    BY <1>8, AppendProperties DEF HandOver
  <2>2. NoLossNoReorder'
    BY <1>8, HandMovesUp DEF HandOver, NoLossNoReorder, InHand
  <2>3. QED
    BY <1>8, <2>1, <2>2 DEF HandOver
<1>9. ASSUME NEW r \in Readers, RecvEOF(r)
      PROVE  StreamInv'
  BY <1>9 DEF RecvEOF, NoLossNoReorder, InHand
<1>10. ASSUME NEW r \in Readers, RecvCancelled(r)
       PROVE  StreamInv'
  BY <1>10 DEF RecvCancelled, NoLossNoReorder, InHand
<1>11. ASSUME NEW r \in Readers, CancelContext(r)
       PROVE  StreamInv'
  BY <1>11 DEF CancelContext, NoLossNoReorder, InHand
<1>12. CASE UNCHANGED vars
  BY <1>12 DEF vars, NoLossNoReorder, InHand
<1>13. QED
  BY <1>1, <1>2, <1>3, <1>4, <1>5, <1>6, <1>7, <1>8, <1>9, <1>10, <1>11, <1>12
     DEF Next

\* The inductive invariant of a stream holds in every reachable state.
THEOREM StreamInvariant == Spec => []StreamInv
<1>1. QED
  BY StreamInit, StreamStep, PTL DEF Spec

\* Every variable of a stream keeps its type (newBufferedStream, Send, next,
\* Close and Recv).
THEOREM StreamTypeCorrect == Spec => []TypeOK
<1>1. StreamInv => TypeOK
  BY DEF StreamInv
<1>2. QED
  BY <1>1, StreamInvariant, PTL

\* Between Send and Recv no accepted indication is lost, duplicated or
\* reordered, with any number of forwarders and readers, cancelled or not.
THEOREM StreamKeepsOrder == Spec => []NoLossNoReorder
<1>1. StreamInv => NoLossNoReorder
  BY DEF StreamInv
<1>2. QED
  BY <1>1, StreamInvariant, PTL

\* The drain goroutine is never parked in cond.Wait on a non-empty buffer.
THEOREM StreamNoSleepOnWork == Spec => []NoSleepOnWork
<1>1. StreamInv => NoSleepOnWork
  BY DEF StreamInv
<1>2. QED
  BY <1>1, StreamInvariant, PTL

\* A reader that gets io.EOF reads a closed stream of which everything accepted
\* has been obtained.
THEOREM StreamEofMeansDrained == Spec => []EofMeansDrained
<1>1. StreamInv => EofMeansDrained
  <2> SUFFICES ASSUME StreamInv, NEW r \in Readers, recv[r] = "eof"
               PROVE  closed /\ received = sent
    BY DEF EofMeansDrained
  <2>1. closed /\ InHand = <<>> /\ buffer = <<>>
    BY DEF StreamInv, InHand
  <2>2. received \o <<>> \o <<>> = received
    BY ConcatEmptySeq DEF StreamInv, TypeOK
  <2>3. QED
    BY <2>1, <2>2 DEF StreamInv, NoLossNoReorder
<1>2. QED
  BY <1>1, StreamInvariant, PTL

-----------------------------------------------------------------------------
(* A stream implements the abstract bounded queue *)

\* What is outstanding is what drain holds and what is buffered, and the next
\* indication readers obtain is the one drain holds.
LEMMA Pending ==
  ASSUME StreamInv
  PROVE  /\ Len(sent) - Len(received) = Len(InHand) + Len(buffer)
         /\ Len(InHand) = IF drain = "offer" THEN 1 ELSE 0
         /\ drain = "offer" => sent[Len(received) + 1] = hand
         /\ Len(sent) \in Nat /\ Len(received) \in Nat /\ Len(buffer) \in Nat
<1> USE DEF StreamInv, TypeOK
<1>1. Len(sent) \in Nat /\ Len(received) \in Nat /\ Len(buffer) \in Nat
  BY LenProperties
<1>2. InHand \in Seq(Indications) /\ Len(InHand) = IF drain = "offer" THEN 1 ELSE 0
  <2>1. CASE drain = "offer"
    BY <2>1 DEF InHand
  <2>2. CASE drain # "offer"
    BY <2>2, EmptySeq DEF InHand
  <2>3. QED
    BY <2>1, <2>2
<1>3. /\ received \in Seq(Indications)
      /\ received \o InHand \in Seq(Indications)
      /\ Len(received \o InHand) = Len(received) + Len(InHand)
      /\ \A i \in 1..(Len(received) + Len(InHand)) :
           (received \o InHand)[i] =
             IF i <= Len(received) THEN received[i] ELSE InHand[i - Len(received)]
  <2>1. received \in Seq(Indications)
    OBVIOUS
  <2> HIDE DEF StreamInv, TypeOK
  <2>2. QED
    BY <1>2, <2>1, ConcatProperties
<1>4. /\ Len(sent) = Len(received \o InHand) + Len(buffer)
      /\ \A i \in 1..(Len(received \o InHand) + Len(buffer)) :
           sent[i] = IF i <= Len(received \o InHand)
                       THEN (received \o InHand)[i]
                       ELSE buffer[i - Len(received \o InHand)]
  <2>1. sent = (received \o InHand) \o buffer
    BY DEF NoLossNoReorder
  <2>2. QED
    BY <1>3, <2>1, ConcatProperties
<1>5. ASSUME drain = "offer"
      PROVE  sent[Len(received) + 1] = hand
  <2>1. Len(InHand) = 1 /\ InHand[1] = hand
    BY <1>2, <1>5 DEF InHand
  <2>2. (received \o InHand)[Len(received) + 1] = InHand[1]
    BY <1>1, <1>3, <2>1
  <2>3. QED
    BY <1>1, <1>3, <1>4, <2>1, <2>2
<1>6. QED
  BY <1>1, <1>2, <1>3, <1>4, <1>5

LEMMA QueueInit == Init => Queue!Init
<1>1. QED
  BY DEF Init, Queue!Init

\* Every step of a stream is a step of the abstract queue or leaves it alone.
LEMMA QueueStep == StreamInv /\ [Next]_vars => [Queue!Next]_(Queue!absVars)
<1> SUFFICES ASSUME StreamInv, [Next]_vars
             PROVE  [Queue!Next]_(Queue!absVars)
  OBVIOUS
<1> USE DEF Queue!absVars
<1>0. /\ Len(sent) - Len(received) = Len(InHand) + Len(buffer)
      /\ Len(InHand) = IF drain = "offer" THEN 1 ELSE 0
      /\ drain = "offer" => sent[Len(received) + 1] = hand
      /\ Len(sent) \in Nat /\ Len(received) \in Nat /\ Len(buffer) \in Nat
  BY Pending
<1>1. ASSUME NEW f \in Forwarders, NEW ind \in Indications, SendAccepted(f, ind)
      PROVE  Queue!Accept(ind)
  <2>1. Len(sent) - Len(received) < BufferMaxSize + 1
    BY <1>0, <1>1 DEF StreamInv, SendAccepted
  <2>2. (drain' = "done") = (drain = "done")
    BY <1>1 DEF SendAccepted, Signal, StreamInv
  <2>3. QED
    BY <1>1, <2>1, <2>2 DEF SendAccepted, Queue!Accept, Queue!Outstanding
<1>2. ASSUME NEW f \in Forwarders, SendRefused(f)
      PROVE  UNCHANGED Queue!absVars
  BY <1>2 DEF SendRefused
<1>3. ASSUME Close
      PROVE  Queue!Shut
  BY <1>3 DEF Close, Queue!Shut
<1>4. ASSUME TakeHead \/ Park
      PROVE  UNCHANGED Queue!absVars
  BY <1>4 DEF TakeHead, Park
<1>5. ASSUME CloseChannel
      PROVE  Queue!End
  <2>1. Len(buffer) = 0 /\ drain # "offer"
    BY <1>5, EmptySeq DEF CloseChannel
  <2>2. Len(sent) - Len(received) = 0
    BY <1>0, <2>1
  <2>3. QED
    BY <1>5, <2>2 DEF CloseChannel, Queue!End, Queue!Outstanding
<1>6. ASSUME NEW r \in Readers, HandOver(r)
      PROVE  Queue!Obtain
  <2>1. Len(sent) - Len(received) > 0 /\ sent[Len(received) + 1] = hand
    BY <1>0, <1>6 DEF HandOver
  <2>2. QED
    BY <1>6, <2>1 DEF HandOver, Queue!Obtain, Queue!Outstanding
<1>7. ASSUME NEW r \in Readers,
             CallRecv(r) \/ RecvEOF(r) \/ RecvCancelled(r) \/ CancelContext(r)
      PROVE  UNCHANGED Queue!absVars
  BY <1>7 DEF CallRecv, RecvEOF, RecvCancelled, CancelContext
<1>8. ASSUME UNCHANGED vars
      PROVE  UNCHANGED Queue!absVars
  BY <1>8 DEF vars
<1>9. QED
  BY <1>1, <1>2, <1>3, <1>4, <1>5, <1>6, <1>7, <1>8 DEF Next, Queue!Next

\* A stream, with its buffer, its drain goroutine and its channel, implements
\* the bounded queue that StreamWriter and StreamReader describe.
THEOREM StreamImplementsQueue == Spec => ImplementsQueue
<1>1. QED
  BY QueueInit, QueueStep, StreamInvariant, PTL
     DEF Spec, ImplementsQueue, Queue!Spec

-----------------------------------------------------------------------------
(* A stream that is closed while drain is parked *)

Parked == closed /\ drain = "wait"

LEMMA ParkedStep == Parked /\ [Next]_vars => Parked'
<1> SUFFICES ASSUME Parked, [Next]_vars
             PROVE  Parked'
  OBVIOUS
<1>1. CASE Next
  BY <1>1 DEF Parked, Next, SendAccepted, SendRefused, Close, TakeHead, Park, CloseChannel,
              CallRecv, HandOver, RecvEOF, RecvCancelled, CancelContext
<1>2. CASE UNCHANGED vars
  BY <1>2 DEF Parked, vars
<1>3. QED
  BY <1>1, <1>2

\* Close does not signal the condition and a closed stream takes no Send, which
\* would: a stream closed while drain is parked keeps that goroutine for ever.  All
\* it accepted has been obtained, and no reader is ever told that it has ended.
THEOREM StreamParkedForGood ==
  Spec => [](Parked => [](Parked /\ received = sent /\ \A r \in Readers : recv[r] # "eof"))
<1> DEFINE Idle == received = sent /\ \A r \in Readers : recv[r] # "eof"
<1>1. StreamInv /\ Parked => Idle
  <2> SUFFICES ASSUME StreamInv, Parked
               PROVE  Idle
    OBVIOUS
  <2>1. buffer = <<>> /\ InHand = <<>> /\ received \in Seq(Indications)
    BY DEF StreamInv, NoSleepOnWork, Parked, InHand, TypeOK
  <2>2. sent = received
    BY <2>1 DEF StreamInv, NoLossNoReorder
  <2>3. QED
    BY <2>2 DEF StreamInv, Parked
<1>2. QED
  BY <1>1, ParkedStep, StreamInvariant, PTL DEF Spec
=============================================================================
