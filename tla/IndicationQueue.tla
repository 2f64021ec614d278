--------------------------- MODULE IndicationQueue ---------------------------
(***************************************************************************)
(* What a subscription stream promises to its two sides, without the       *)
(* goroutine, the condition variable and the channel that implement it:    *)
(* the interfaces StreamReader and StreamWriter of pkg/broker/stream.go    *)
(* and the contract of CloseStream in pkg/broker/broker.go.                *)
(*                                                                         *)
(* A writer's indications are accepted while the queue is open and has     *)
(* room; readers obtain exactly the accepted sequence, in order, each      *)
(* indication once; end-of-file is announced only on a closed queue whose  *)
(* accepted indications have all been obtained.                            *)
(***************************************************************************)
EXTENDS Naturals, Sequences

CONSTANTS
  Indications,   \* the values writers send
  Capacity       \* accepted indications that no reader has obtained yet, at most

VARIABLES
  accepted,      \* every indication accepted so far, in order
  delivered,     \* every indication obtained by some reader, in order
  open,          \* FALSE once the queue is closed
  ended          \* TRUE once end-of-file is announced

absVars == <<accepted, delivered, open, ended>>

Init ==
  /\ accepted = <<>>
  /\ delivered = <<>>
  /\ open = TRUE
  /\ ended = FALSE

Outstanding == Len(accepted) - Len(delivered)

Accept(ind) ==
  /\ open
  /\ Outstanding < Capacity
  /\ accepted' = Append(accepted, ind)
  /\ UNCHANGED <<delivered, open, ended>>

Obtain ==
  /\ Outstanding > 0
  /\ delivered' = Append(delivered, accepted[Len(delivered) + 1])
  /\ UNCHANGED <<accepted, open, ended>>

Shut ==
  /\ open' = FALSE
  /\ UNCHANGED <<accepted, delivered, ended>>

End ==
  /\ ~open
  /\ Outstanding = 0
  /\ ended' = TRUE
  /\ UNCHANGED <<accepted, delivered, open>>

Next ==
  \/ \E ind \in Indications : Accept(ind)
  \/ Obtain
  \/ Shut
  \/ End

Spec == Init /\ [][Next]_absVars
=============================================================================
