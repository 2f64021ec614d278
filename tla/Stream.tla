------------------------------- MODULE Stream -------------------------------
(***************************************************************************)
(* One subscription stream of the broker: bufferedStream in                *)
(* pkg/broker/stream.go, with the goroutines that use it.                  *)
(*                                                                         *)
(*   forwarders   goroutines of sendIndicationOnStream (subscription       *)
(*                manager): Send every indication they get from the E2     *)
(*                client, and return for good on the first error           *)
(*   drain        the goroutine that newBufferedWriter starts: takes the   *)
(*                head of the buffer and writes it to the read channel     *)
(*   readers      callers of Recv, each with a context of its own          *)
(*                                                                         *)
(* Send, next and Close run under the mutex of the condition variable and  *)
(* are one step each, except that next may park in cond.Wait.  sync.Cond   *)
(* has no spurious wake-up: only Signal makes a parked goroutine run.  The *)
(* read channel is unbuffered: handing an indication over is one joint     *)
(* step of drain and of a reader blocked in Recv.                          *)
(***************************************************************************)
EXTENDS Naturals, Sequences

CONSTANTS
  Indications,     \* payloads of the E2 nodes
  NoIndication,    \* the drain goroutine holds nothing
  Forwarders,      \* goroutines that Send
  Readers,         \* goroutines that Recv
  BufferMaxSize,   \* bufferMaxSize: capacity of the buffer (10000 in the code)
  MaxSends         \* bound of the model: Send calls that are accepted

ASSUME StreamAssumption ==
  /\ NoIndication \notin Indications
  /\ BufferMaxSize \in Nat \ {0}
  /\ MaxSends \in Nat

VARIABLES
  buffer,      \* bufferedWriter.buffer
  closed,      \* bufferedWriter.closed
  drain,       \* where the drain goroutine is: at the call of next, parked in
               \* cond.Wait, offering hand to the channel, or gone (channel closed)
  hand,        \* what drain took from the buffer and has not handed over
  forwarder,   \* forwarder[f]: still forwarding, or returned
  recv,        \* recv[r]: outside Recv, blocked in its select, or ended by an error
  ctxDone,     \* ctxDone[r]: the reader's context is cancelled
  sent,        \* history: every indication for which Send returned nil
  received     \* history: every indication some Recv returned

vars == <<buffer, closed, drain, hand, forwarder, recv, ctxDone, sent, received>>

Init ==
  /\ buffer = <<>>
  /\ closed = FALSE
  /\ drain = "next"
  /\ hand = NoIndication
  /\ forwarder = [f \in Forwarders |-> "forwarding"]
  /\ recv = [r \in Readers |-> "outside"]
  /\ ctxDone = [r \in Readers |-> FALSE]
  /\ sent = <<>>
  /\ received = <<>>

-----------------------------------------------------------------------------
(* bufferedWriter.Send, called by sendIndicationOnStream *)

\* cond.Signal: the only goroutine that waits is drain; it returns to the
\* test of next's loop.
Signal == drain' = IF drain = "wait" THEN "next" ELSE drain

\* Defective variant of SendAccepted: the indication is stored, nobody is woken.
SendWithoutSignal(f, ind) ==
  /\ forwarder[f] = "forwarding"
  /\ ~closed
  /\ Len(buffer) # BufferMaxSize
  /\ Len(sent) < MaxSends
  /\ buffer' = Append(buffer, ind)
  /\ sent' = Append(sent, ind)
  /\ UNCHANGED <<closed, drain, hand, forwarder, recv, ctxDone, received>>

\* Defective variant of SendAccepted: the bound of the buffer is not tested.
SendUnbounded(f, ind) ==
  /\ forwarder[f] = "forwarding"
  /\ ~closed
  /\ Len(sent) < MaxSends
  /\ buffer' = Append(buffer, ind)
  /\ sent' = Append(sent, ind)
  /\ Signal
  /\ UNCHANGED <<closed, hand, forwarder, recv, ctxDone, received>>

SendAccepted(f, ind) ==
  /\ forwarder[f] = "forwarding"
  /\ ~closed
  /\ Len(buffer) # BufferMaxSize
  /\ Len(sent) < MaxSends
  /\ buffer' = Append(buffer, ind)
  /\ sent' = Append(sent, ind)
  /\ Signal
  /\ UNCHANGED <<closed, hand, forwarder, recv, ctxDone, received>>

\* Send returns io.EOF on a closed stream and Unavailable on a full buffer;
\* either error ends the forwarder, although a full buffer may drain again.
SendRefused(f) ==
  /\ forwarder[f] = "forwarding"
  /\ closed \/ Len(buffer) = BufferMaxSize
  /\ forwarder' = [forwarder EXCEPT ![f] = "returned"]
  /\ UNCHANGED <<buffer, closed, drain, hand, recv, ctxDone, sent, received>>

\* bufferedWriter.Close: sets the flag and does not signal the condition.
Close ==
  /\ closed' = TRUE
  /\ UNCHANGED <<buffer, drain, hand, forwarder, recv, ctxDone, sent, received>>

-----------------------------------------------------------------------------
(* bufferedWriter.drain and next *)

TakeHead ==
  /\ drain = "next"
  /\ buffer # <<>>
  /\ hand' = Head(buffer)
  /\ buffer' = Tail(buffer)
  /\ drain' = "offer"
  /\ UNCHANGED <<closed, forwarder, recv, ctxDone, sent, received>>

Park ==
  /\ drain = "next"
  /\ buffer = <<>>
  /\ ~closed
  /\ drain' = "wait"
  /\ UNCHANGED <<buffer, closed, hand, forwarder, recv, ctxDone, sent, received>>

\* Defective variant of CloseChannel: a closed stream ends at once and drops
\* what is still buffered.
CloseChannelEarly ==
  /\ drain = "next"
  /\ closed
  /\ drain' = "done"
  /\ UNCHANGED <<buffer, closed, hand, forwarder, recv, ctxDone, sent, received>>

\* Defective variant of CloseChannel: the loop of next never looks at closed.
CloseChannelNever ==
  /\ drain = "next"
  /\ buffer = <<>>
  /\ closed
  /\ drain' = "wait"
  /\ UNCHANGED <<buffer, closed, hand, forwarder, recv, ctxDone, sent, received>>

\* next returns false and drain closes the read channel.
CloseChannel ==
  /\ drain = "next"
  /\ buffer = <<>>
  /\ closed
  /\ drain' = "done"
  /\ UNCHANGED <<buffer, closed, hand, forwarder, recv, ctxDone, sent, received>>

-----------------------------------------------------------------------------
(* bufferedReader.Recv *)

CallRecv(r) ==
  /\ recv[r] = "outside"
  /\ recv' = [recv EXCEPT ![r] = "blocked"]
  /\ UNCHANGED <<buffer, closed, drain, hand, forwarder, ctxDone, sent, received>>

\* Defective variant of HandOver: hand is reset before it is handed over.
HandOverAfterReset(r) ==
  /\ recv[r] = "blocked"
  /\ drain = "offer"
  /\ hand' = NoIndication
  /\ received' = Append(received, hand')
  /\ drain' = "next"
  /\ recv' = [recv EXCEPT ![r] = "outside"]
  /\ UNCHANGED <<buffer, closed, forwarder, ctxDone, sent>>

\* The channel branch of the select, joined with drain's write to the channel.
HandOver(r) ==
  /\ recv[r] = "blocked"
  /\ drain = "offer"
  /\ received' = Append(received, hand)
  /\ hand' = NoIndication
  /\ drain' = "next"
  /\ recv' = [recv EXCEPT ![r] = "outside"]
  /\ UNCHANGED <<buffer, closed, forwarder, ctxDone, sent>>

\* The channel branch of the select on a closed channel.
RecvEOF(r) ==
  /\ recv[r] = "blocked"
  /\ drain = "done"
  /\ recv' = [recv EXCEPT ![r] = "eof"]
  /\ UNCHANGED <<buffer, closed, drain, hand, forwarder, ctxDone, sent, received>>

\* Defective variant of RecvCancelled: the indication on offer is consumed
\* by the reader that gives up.
RecvCancelledConsuming(r) ==
  /\ recv[r] = "blocked"
  /\ ctxDone[r]
  /\ recv' = [recv EXCEPT ![r] = "cancelled"]
  /\ hand' = NoIndication
  /\ drain' = IF drain = "offer" THEN "next" ELSE drain
  /\ UNCHANGED <<buffer, closed, forwarder, ctxDone, sent, received>>

\* The context branch of the select; select picks any branch that is ready.
RecvCancelled(r) ==
  /\ recv[r] = "blocked"
  /\ ctxDone[r]
  /\ recv' = [recv EXCEPT ![r] = "cancelled"]
  /\ UNCHANGED <<buffer, closed, drain, hand, forwarder, ctxDone, sent, received>>

\* Environment: the reader's context is cancelled.
CancelContext(r) ==
  /\ ~ctxDone[r]
  /\ ctxDone' = [ctxDone EXCEPT ![r] = TRUE]
  /\ UNCHANGED <<buffer, closed, drain, hand, forwarder, recv, sent, received>>

-----------------------------------------------------------------------------
Next ==
  \/ \E f \in Forwarders : \E ind \in Indications : SendAccepted(f, ind)
  \/ \E f \in Forwarders : SendRefused(f)
  \/ Close
  \/ TakeHead
  \/ Park
  \/ CloseChannel
  \/ \E r \in Readers : CallRecv(r)
  \/ \E r \in Readers : HandOver(r)
  \/ \E r \in Readers : RecvEOF(r)
  \/ \E r \in Readers : RecvCancelled(r)
  \/ \E r \in Readers : CancelContext(r)

Spec == Init /\ [][Next]_vars

\* A goroutine that can run eventually runs: drain outside cond.Wait, a reader
\* that loops over Recv, a select with a ready branch.  Nothing obliges anyone
\* to send, to close or to cancel.
Fairness ==
  /\ WF_vars(TakeHead)
  /\ WF_vars(Park)
  /\ WF_vars(CloseChannel)
  /\ WF_vars(\E r \in Readers : HandOver(r))
  /\ \A r \in Readers :
       WF_vars(CallRecv(r)) /\ WF_vars(RecvEOF(r) \/ RecvCancelled(r))

FairSpec == Spec /\ Fairness

-----------------------------------------------------------------------------
(* Properties *)

\* Types of the variables.
TypeOK ==
  /\ buffer \in Seq(Indications)
  /\ closed \in BOOLEAN
  /\ drain \in {"next", "wait", "offer", "done"}
  /\ hand \in Indications \cup {NoIndication}
  /\ forwarder \in [Forwarders -> {"forwarding", "returned"}]
  /\ recv \in [Readers -> {"outside", "blocked", "eof", "cancelled"}]
  /\ ctxDone \in [Readers -> BOOLEAN]
  /\ sent \in Seq(Indications)
  /\ received \in Seq(Indications)

\* What drain holds, as a sequence.
InHand == IF drain = "offer" THEN <<hand>> ELSE <<>>

\* No indication for which Send returned nil is lost, duplicated or overtaken,
\* whatever readers cancel and whoever closes: what readers obtained, what
\* drain holds and what is buffered are together what was sent, in order.
NoLossNoReorder == sent = received \o InHand \o buffer

\* The drain goroutine never sleeps on a buffer that has something in it: a
\* Send between next's test and cond.Wait cannot be missed.
NoSleepOnWork == drain = "wait" => buffer = <<>>

\* "the reader will continue receiving pending indications until the buffer is
\* empty" (CloseStream): a reader sees io.EOF only on a closed stream of which
\* every accepted indication has been obtained.
EofMeansDrained ==
  (\E r \in Readers : recv[r] = "eof") => closed /\ received = sent

\* The inductive invariant: the three properties above hold because drain holds
\* an indication exactly while it offers one, the buffer never exceeds its
\* bound, drain is gone only from a closed and empty stream, and a reader sees
\* io.EOF only once drain is gone.
StreamInv ==
  /\ TypeOK
  /\ NoLossNoReorder
  /\ NoSleepOnWork
  /\ drain = "offer" => hand \in Indications
  /\ Len(buffer) <= BufferMaxSize
  /\ drain = "done" => closed /\ buffer = <<>>
  /\ \A r \in Readers : recv[r] = "eof" => drain = "done"

\* The abstract queue: one slot more than the buffer, for what drain holds.
Queue == INSTANCE IndicationQueue WITH
  Capacity  <- BufferMaxSize + 1,
  accepted  <- sent,
  delivered <- received,
  open      <- ~closed,
  ended     <- drain = "done"

\* A stream implements the abstract bounded FIFO queue.
ImplementsQueue == Queue!Spec

\* Every accepted indication is obtained by a reader, even when the stream is
\* closed meanwhile, unless every reader's context is cancelled.
AcceptedIsDelivered ==
  \A n \in 1..MaxSends :
    (Len(sent) >= n) ~> (Len(received) >= n \/ \A r \in Readers : ctxDone[r])

\* If drain is not parked when the stream is closed, the read channel is
\* closed in the end, unless readers stop reading.
BusyDrainCloses ==
  (closed /\ drain # "wait") ~> (drain = "done" \/ \A r \in Readers : ctxDone[r])

\* "If the stream has been closed, an io.EOF error will be returned" (Recv): a
\* reader blocked on a closed stream does not stay blocked.
ClosedUnblocksReader ==
  \A r \in Readers : (closed /\ recv[r] = "blocked") ~> (recv[r] # "blocked")
=============================================================================
