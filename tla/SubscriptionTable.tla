-------------------------- MODULE SubscriptionTable --------------------------
(***************************************************************************)
(* What the broker promises to those who open readers, without locks,      *)
(* StreamIDs and the remote call: the interface Broker of                  *)
(* pkg/broker/broker.go.                                                   *)
(*                                                                         *)
(* A table from channels to streams.  OpenReader is atomic: it returns the *)
(* stream of the channel if there is one, and else a stream that never was *)
(* in the table before.  A stream leaves the table only by CloseStream,    *)
(* with one exception: where calls of OpenReader overlapped while there    *)
(* was no stream, the channel is contested from then on, and OpenReader    *)
(* may put a new stream in the place of another.                           *)
(***************************************************************************)
CONSTANTS
  Channels,
  Openers,
  Streams,     \* streams OpenReader may mint
  NoStream

VARIABLES
  table,       \* table[c]: the stream of channel c
  minted,      \* streams that are or were in the table
  reader,      \* reader[p]: the stream opener p reads from
  contested    \* channels whose openers overlapped

absVars == <<table, minted, reader, contested>>

Init ==
  /\ table = [c \in Channels |-> NoStream]
  /\ minted = {}
  /\ reader = [p \in Openers |-> NoStream]
  /\ contested = {}

OpenExisting(p, c) ==
  /\ table[c] # NoStream
  /\ reader' = [reader EXCEPT ![p] = table[c]]
  /\ UNCHANGED <<table, minted, contested>>

OpenNew(p, c, s) ==
  /\ table[c] = NoStream \/ c \in contested
  /\ s \notin minted
  /\ table' = [table EXCEPT ![c] = s]
  /\ minted' = minted \cup {s}
  /\ reader' = [reader EXCEPT ![p] = s]
  /\ UNCHANGED contested

Overlap(c) ==
  /\ table[c] = NoStream
  /\ contested' = contested \cup {c}
  /\ UNCHANGED <<table, minted, reader>>

CloseStream(c) ==
  /\ table[c] # NoStream
  /\ table' = [table EXCEPT ![c] = NoStream]
  /\ UNCHANGED <<minted, reader, contested>>

\* An opener has done with its stream.
Release(p) ==
  /\ reader' = [reader EXCEPT ![p] = NoStream]
  /\ UNCHANGED <<table, minted, contested>>

Next ==
  \/ \E p \in Openers : \E c \in Channels : OpenExisting(p, c)
  \/ \E p \in Openers : \E c \in Channels : \E s \in Streams : OpenNew(p, c, s)
  \/ \E c \in Channels : Overlap(c) \/ CloseStream(c)
  \/ \E p \in Openers : Release(p)

Spec == Init /\ [][Next]_absVars
=============================================================================
