------------------------------- MODULE Broker -------------------------------
(***************************************************************************)
(* The subscription stream broker: streamBroker in pkg/broker/broker.go.   *)
(*                                                                         *)
(* The broker keeps two maps over the same streams: subs, by the channel   *)
(* of the E2 subscription, and streams, by the StreamID it mints.  Three   *)
(* kinds of goroutine call it:                                             *)
(*                                                                         *)
(*   openers   createSubscription: OpenReader for the channel that         *)
(*             Subscribe returned, then GetWriter with the StreamID of the *)
(*             reader (sendIndicationOnStream), then sending               *)
(*   closers   callers of CloseStream                                      *)
(*   the owner of the broker, who may Close it                             *)
(*                                                                         *)
(* A critical section of mu is one step, with two exceptions.  OpenReader  *)
(* tests subs under the read lock and inserts under the write lock, and    *)
(* lets mu go in between.  CloseStream keeps the write lock while it waits *)
(* for the E2 node to answer Unsubscribe.                                  *)
(*                                                                         *)
(* A stream is represented by its place in heap, the order of allocation:  *)
(* its address, as opposed to its StreamID.                                *)
(***************************************************************************)
EXTENDS Naturals, Sequences

CONSTANTS
  Channels,      \* channel IDs that Subscribe returns
  NoChannel,
  Openers,       \* goroutines of createSubscription
  Closers,       \* goroutines that close streams
  Nobody,        \* mu is not write-locked across steps
  MaxStreams     \* bound of the model: streams ever allocated

ASSUME BrokerAssumption ==
  /\ Nobody \notin Closers
  /\ NoChannel \notin Channels
  /\ MaxStreams \in Nat

VARIABLES
  heap,       \* allocated streams: their immutable StreamID and channel
  closed,     \* streams on which Stream.Close was called
  subs,       \* streamBroker.subs; NoStream where there is no entry
  streams,    \* streamBroker.streams; NoStream where there is no entry
  streamID,   \* streamBroker.streamID: the last StreamID minted
  mu,         \* the closer that holds the write lock during Unsubscribe
  opener,     \* opener[p]: where opener p is
  channel,    \* channel[p]: the channel p is about to insert a stream for
  reader,     \* reader[p]: the stream OpenReader returned to p, while p is at work
  writer,     \* writer[p]: the stream GetWriter returned to p, while p is sending
  target,     \* target[k]: the stream closer k unsubscribes
  shutdown,   \* history: Broker.Close was called
  raced       \* history: channels two openers tested before either inserted

callers == <<opener, channel, reader, writer>>
vars == <<heap, closed, subs, streams, streamID, mu, callers, target, shutdown, raced>>

NoStream == 0
Addresses == 1..Len(heap)
StreamIDs == 0..MaxStreams

Init ==
  /\ heap = <<>>
  /\ closed = {}
  /\ subs = [c \in Channels |-> NoStream]
  /\ streams = [id \in StreamIDs |-> NoStream]
  /\ streamID = 0
  /\ mu = Nobody
  /\ opener = [p \in Openers |-> "idle"]
  /\ channel = [p \in Openers |-> NoChannel]
  /\ reader = [p \in Openers |-> NoStream]
  /\ writer = [p \in Openers |-> NoStream]
  /\ target = [k \in Closers |-> NoStream]
  /\ shutdown = FALSE
  /\ raced = {}

Unlocked == mu = Nobody

-----------------------------------------------------------------------------
(* OpenReader *)

\* The read-locked test finds a stream, which is returned.
OpenExisting(p, c) ==
  /\ opener[p] = "idle"
  /\ Unlocked
  /\ subs[c] # NoStream
  /\ opener' = [opener EXCEPT ![p] = "opened"]
  /\ reader' = [reader EXCEPT ![p] = subs[c]]
  /\ UNCHANGED <<heap, closed, subs, streams, streamID, mu, channel, writer, target, shutdown, raced>>

\* Another opener of c is between its test and its insertion.
OtherMissed(p, c) == \E q \in Openers \ {p} : opener[q] = "missed" /\ channel[q] = c

\* Defective variant of OpenMissing: the map is not tested.
OpenMissingUntested(p, c) ==
  /\ opener[p] = "idle"
  /\ Unlocked
  /\ opener' = [opener EXCEPT ![p] = "missed"]
  /\ channel' = [channel EXCEPT ![p] = c]
  /\ raced' = IF OtherMissed(p, c) THEN raced \cup {c} ELSE raced
  /\ UNCHANGED <<heap, closed, subs, streams, streamID, mu, reader, writer, target, shutdown>>

\* The read-locked test finds none; the read lock is given back.
OpenMissing(p, c) ==
  /\ opener[p] = "idle"
  /\ Unlocked
  /\ subs[c] = NoStream
  /\ opener' = [opener EXCEPT ![p] = "missed"]
  /\ channel' = [channel EXCEPT ![p] = c]
  /\ raced' = IF OtherMissed(p, c) THEN raced \cup {c} ELSE raced
  /\ UNCHANGED <<heap, closed, subs, streams, streamID, mu, reader, writer, target, shutdown>>

\* Defective variant of Create: the counter is not advanced.
CreateSameID(p) ==
  /\ opener[p] = "missed"
  /\ Unlocked
  /\ Len(heap) < MaxStreams
  /\ heap' = Append(heap, [id |-> streamID, channel |-> channel[p]])
  /\ subs' = [subs EXCEPT ![channel[p]] = Len(heap) + 1]
  /\ streams' = [streams EXCEPT ![streamID] = Len(heap) + 1]
  /\ opener' = [opener EXCEPT ![p] = "opened"]
  /\ channel' = [channel EXCEPT ![p] = NoChannel]
  /\ reader' = [reader EXCEPT ![p] = Len(heap) + 1]
  /\ UNCHANGED <<closed, streamID, mu, writer, target, shutdown, raced>>

\* Under the write lock a stream is minted and entered in both maps, whatever
\* subs holds by now.
Create(p) ==
  /\ opener[p] = "missed"
  /\ Unlocked
  /\ Len(heap) < MaxStreams
  /\ streamID' = streamID + 1
  /\ heap' = Append(heap, [id |-> streamID', channel |-> channel[p]])
  /\ subs' = [subs EXCEPT ![channel[p]] = Len(heap) + 1]
  /\ streams' = [streams EXCEPT ![streamID'] = Len(heap) + 1]
  /\ opener' = [opener EXCEPT ![p] = "opened"]
  /\ channel' = [channel EXCEPT ![p] = NoChannel]
  /\ reader' = [reader EXCEPT ![p] = Len(heap) + 1]
  /\ UNCHANGED <<closed, mu, writer, target, shutdown, raced>>

-----------------------------------------------------------------------------
(* GetWriter, called by sendIndicationOnStream with the reader's StreamID *)

\* Defective variant of GetWriter: a StreamID that is not found is waited for.
GetWriterWaiting(p) ==
  LET found == streams[heap[reader[p]].id]
  IN  /\ opener[p] = "opened"
      /\ Unlocked
      /\ found # NoStream
      /\ writer' = [writer EXCEPT ![p] = found]
      /\ opener' = [opener EXCEPT ![p] = "sending"]
      /\ UNCHANGED <<heap, closed, subs, streams, streamID, mu, channel, reader, target, shutdown, raced>>

GetWriter(p) ==
  LET found == streams[heap[reader[p]].id]
  IN  /\ opener[p] = "opened"
      /\ Unlocked
      /\ writer' = [writer EXCEPT ![p] = found]
      /\ reader' = [reader EXCEPT ![p] = IF found = NoStream THEN NoStream ELSE @]
      /\ opener' = [opener EXCEPT ![p] = IF found = NoStream THEN "idle" ELSE "sending"]
      /\ UNCHANGED <<heap, closed, subs, streams, streamID, mu, channel, target, shutdown, raced>>

\* Send fails (closed stream, full buffer): sendIndicationOnStream returns, and
\* the goroutine's place is free for another subscription.
StopSending(p) ==
  /\ opener[p] = "sending"
  /\ opener' = [opener EXCEPT ![p] = "idle"]
  /\ reader' = [reader EXCEPT ![p] = NoStream]
  /\ writer' = [writer EXCEPT ![p] = NoStream]
  /\ UNCHANGED <<heap, closed, subs, streams, streamID, mu, channel, target, shutdown, raced>>

-----------------------------------------------------------------------------
(* CloseStream; its NotFound return changes nothing *)

\* The stream of c is found under the write lock, and Unsubscribe is called.
StartClose(k, c) ==
  /\ Unlocked
  /\ subs[c] # NoStream
  /\ mu' = k
  /\ target' = [target EXCEPT ![k] = subs[c]]
  /\ UNCHANGED <<heap, closed, subs, streams, streamID, callers, shutdown, raced>>

\* Defective variant of FinishClose: the entry by StreamID is left behind.
FinishCloseKeepingID(k) ==
  /\ mu = k
  /\ subs' = [subs EXCEPT ![heap[target[k]].channel] = NoStream]
  /\ closed' = closed \cup {target[k]}
  /\ mu' = Nobody
  /\ target' = [target EXCEPT ![k] = NoStream]
  /\ UNCHANGED <<heap, streams, streamID, callers, shutdown, raced>>

\* Defective variant of FinishClose: the stream is looked up by its channel once
\* the entry is gone.
FinishCloseLookingUpLate(k) ==
  /\ mu = k
  /\ subs' = [subs EXCEPT ![heap[target[k]].channel] = NoStream]
  /\ streams' = [streams EXCEPT ![heap[target[k]].id] = NoStream]
  /\ closed' = closed \cup {subs'[heap[target[k]].channel]}
  /\ mu' = Nobody
  /\ target' = [target EXCEPT ![k] = NoStream]
  /\ UNCHANGED <<heap, streamID, callers, shutdown, raced>>

\* Unsubscribe succeeds: both entries go and the stream is closed.
FinishClose(k) ==
  /\ mu = k
  /\ subs' = [subs EXCEPT ![heap[target[k]].channel] = NoStream]
  /\ streams' = [streams EXCEPT ![heap[target[k]].id] = NoStream]
  /\ closed' = closed \cup {target[k]}
  /\ mu' = Nobody
  /\ target' = [target EXCEPT ![k] = NoStream]
  /\ UNCHANGED <<heap, streamID, callers, shutdown, raced>>

\* Defective variant of AbortClose: the stream is closed although the E2 node
\* did not unsubscribe.
AbortCloseClosing(k) ==
  /\ mu = k
  /\ closed' = closed \cup {target[k]}
  /\ mu' = Nobody
  /\ target' = [target EXCEPT ![k] = NoStream]
  /\ UNCHANGED <<heap, subs, streams, streamID, callers, shutdown, raced>>

\* Unsubscribe fails: CloseStream returns the error and leaves the stream.
AbortClose(k) ==
  /\ mu = k
  /\ mu' = Nobody
  /\ target' = [target EXCEPT ![k] = NoStream]
  /\ UNCHANGED <<heap, closed, subs, streams, streamID, callers, shutdown, raced>>

-----------------------------------------------------------------------------
\* Defective variant of Close: the streams are found by their channels.
CloseByChannel ==
  /\ Unlocked
  /\ closed' = closed \cup {subs[c] : c \in {d \in Channels : subs[d] # NoStream}}
  /\ shutdown' = TRUE
  /\ UNCHANGED <<heap, subs, streams, streamID, mu, callers, target, raced>>

\* Broker.Close: closes every stream it knows and keeps both maps.
Close ==
  /\ Unlocked
  /\ closed' = closed \cup {streams[id] : id \in {i \in StreamIDs : streams[i] # NoStream}}
  /\ shutdown' = TRUE
  /\ UNCHANGED <<heap, subs, streams, streamID, mu, callers, target, raced>>

Next ==
  \/ \E p \in Openers : \E c \in Channels : OpenExisting(p, c)
  \/ \E p \in Openers : \E c \in Channels : OpenMissing(p, c)
  \/ \E p \in Openers : Create(p)
  \/ \E p \in Openers : GetWriter(p)
  \/ \E p \in Openers : StopSending(p)
  \/ \E k \in Closers : \E c \in Channels : StartClose(k, c)
  \/ \E k \in Closers : FinishClose(k)
  \/ \E k \in Closers : AbortClose(k)
  \/ Close

Spec == Init /\ [][Next]_vars

\* sync.RWMutex starves nobody: a goroutine that waits for mu gets it if it is
\* free again and again.  The E2 node answers every Unsubscribe.  Nobody is
\* obliged to open or to close.
Fairness ==
  /\ \A p \in Openers : SF_vars(Create(p)) /\ SF_vars(GetWriter(p))
  /\ \A k \in Closers : WF_vars(FinishClose(k) \/ AbortClose(k))

FairSpec == Spec /\ Fairness

-----------------------------------------------------------------------------
(* Properties *)

\* Types of the variables.
TypeOK ==
  /\ heap \in Seq([id : StreamIDs, channel : Channels])
  /\ Len(heap) <= MaxStreams
  /\ closed \subseteq Addresses
  /\ subs \in [Channels -> Addresses \cup {NoStream}]
  /\ streams \in [StreamIDs -> Addresses \cup {NoStream}]
  /\ streamID \in StreamIDs
  /\ mu \in Closers \cup {Nobody}
  /\ opener \in [Openers -> {"idle", "missed", "opened", "sending"}]
  /\ channel \in [Openers -> Channels \cup {NoChannel}]
  /\ reader \in [Openers -> Addresses \cup {NoStream}]
  /\ writer \in [Openers -> Addresses \cup {NoStream}]
  /\ target \in [Closers -> Addresses \cup {NoStream}]
  /\ shutdown \in BOOLEAN
  /\ raced \subseteq Channels

\* The two maps describe the same streams: a stream found by its channel is
\* found by its StreamID too, and each map files a stream under its own key.
MapsAgree ==
  /\ \A c \in Channels : subs[c] # NoStream =>
       /\ heap[subs[c]].channel = c
       /\ streams[heap[subs[c]].id] = subs[c]
  /\ \A id \in StreamIDs : streams[id] # NoStream => heap[streams[id]].id = id

\* The writer a forwarder sends to is the stream its monitor reads from, in
\* spite of closes and re-opens between OpenReader and GetWriter: a StreamID
\* is never minted twice.
WriterIsReader ==
  \A p \in Openers : opener[p] = "sending" => writer[p] = reader[p]

\* Until the broker is closed, a stream is closed exactly when the broker has
\* forgotten it: no open stream is out of GetWriter's reach, no closed one
\* within it, also when Unsubscribe fails half-way.
ClosedIffForgotten ==
  ~shutdown =>
    \A a \in Addresses : a \in closed <=> \A id \in StreamIDs : streams[id] # a

\* A subscription has at most one stream the broker knows, however many times
\* it is opened and closed, unless two openers of it were ever between the two
\* locks of OpenReader at once.
OneStreamPerChannel ==
  \A id, jd \in StreamIDs :
    /\ streams[id] # NoStream
    /\ streams[jd] # NoStream
    /\ heap[streams[id]].channel = heap[streams[jd]].channel
    /\ heap[streams[id]].channel \notin raced
    => id = jd

\* "If a stream already exists for the subscription, the existing stream will
\* be returned" (OpenReader): no step replaces the stream of a channel.
ExistingStreamReturned ==
  [][\A c \in Channels : subs[c] # NoStream => subs'[c] \in {subs[c], NoStream}]_vars

\* Only such openers replace a stream: on a channel they never raced for, an
\* existing stream is returned until it is closed.
OnlyRacersReplace ==
  [][\A c \in Channels \ raced :
       subs[c] # NoStream => subs'[c] \in {subs[c], NoStream}]_vars

\* Closing the broker closes every stream it ever minted, those also that a racing
\* opener has replaced and CloseStream can no longer find.
CloseReachesAll ==
  [][~shutdown /\ shutdown' => Addresses \subseteq closed']_vars

\* OpenReader and GetWriter return even if streams are being closed, provided
\* E2 nodes answer.
CallsReturn ==
  \A p \in Openers :
    /\ opener[p] = "missed" ~> (opener[p] = "opened" \/ Len(heap) = MaxStreams)
    /\ opener[p] = "opened" ~> opener[p] # "opened"

\* The abstract table: the entries by channel, and the streams allocated so far.
Table == INSTANCE SubscriptionTable WITH
  Streams   <- StreamIDs \ {NoStream},
  table     <- subs,
  minted    <- Addresses,
  contested <- raced

\* "If no stream exists, a new stream will be allocated" (OpenReader): for its
\* callers OpenReader is atomic in spite of its two critical sections, and so is
\* CloseStream in spite of the remote call; a channel nobody raced for has one
\* stream at a time, and a stream that was closed never comes back.
ImplementsTable == Table!Spec

\* The inductive invariant: the k-th stream allocated has StreamID k, the lock
\* holder's target is a stream both maps know, and openers past OpenReader
\* hold a stream.
BrokerInv ==
  /\ TypeOK
  /\ MapsAgree
  /\ WriterIsReader
  /\ ClosedIffForgotten
  /\ streamID = Len(heap)
  /\ \A a \in Addresses : heap[a].id = a
  /\ \A p \in Openers : opener[p] \in {"opened", "sending"} => reader[p] # NoStream
  /\ \A p \in Openers : opener[p] = "missed" => channel[p] # NoChannel
  /\ \A k \in Closers : mu = k =>
       /\ target[k] # NoStream
       /\ subs[heap[target[k]].channel] = target[k]

\* The part of the invariant that is about channels nobody raced for: at most
\* one opener is between the locks, and it finds the channel as it left it; a
\* stream found by its StreamID is the one found by its channel.
RaceInv ==
  \A c \in Channels \ raced :
    /\ \A p \in Openers : opener[p] = "missed" /\ channel[p] = c =>
         subs[c] = NoStream /\ ~OtherMissed(p, c)
    /\ \A id \in StreamIDs :
         streams[id] # NoStream /\ heap[streams[id]].channel = c => subs[c] = streams[id]
=============================================================================
