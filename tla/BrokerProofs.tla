---------------------------- MODULE BrokerProofs ----------------------------
(***************************************************************************)
(* Proofs about Broker for every set of channels, openers and closers and  *)
(* any number of streams: the inductive invariant, and with it that the    *)
(* two maps of the broker stay in step through every interleaving.         *)
(***************************************************************************)
EXTENDS Broker, SequenceTheorems, TLAPS

USE BrokerAssumption DEF NoStream, Addresses, StreamIDs, Unlocked, callers

-----------------------------------------------------------------------------
(* Facts of a state that satisfies the invariant *)

\* A StreamID is entered with the stream that bears it or with none.
LEMMA KnownByOwnID ==
  ASSUME BrokerInv, NEW id \in StreamIDs
  PROVE  streams[id] \in {NoStream, id}
BY DEF BrokerInv, MapsAgree, TypeOK

\* A stream is known to the broker exactly when its own StreamID leads to it.
LEMMA KnownIffOwnID ==
  ASSUME BrokerInv, NEW a \in Addresses
  PROVE  (\E id \in StreamIDs : streams[id] = a) <=> streams[a] = a
<1>1. a \in StreamIDs /\ a # NoStream
  BY LenProperties DEF BrokerInv, TypeOK
<1>2. QED
  BY <1>1, KnownByOwnID

-----------------------------------------------------------------------------
LEMMA BrokerInit == Init => BrokerInv
<1> SUFFICES ASSUME Init PROVE BrokerInv
  OBVIOUS
<1>1. /\ heap \in Seq([id : StreamIDs, channel : Channels])
      /\ Len(heap) = 0
  BY EmptySeq DEF Init
<1>2. TypeOK
  <2>1. /\ closed \subseteq Addresses
        /\ Len(heap) <= MaxStreams
        /\ streamID \in StreamIDs
    BY <1>1 DEF Init
  <2>2. /\ subs \in [Channels -> Addresses \cup {NoStream}]
        /\ streams \in [StreamIDs -> Addresses \cup {NoStream}]
    BY DEF Init
  <2>3. /\ opener \in [Openers -> {"idle", "missed", "opened", "sending"}]
        /\ reader \in [Openers -> Addresses \cup {NoStream}]
        /\ writer \in [Openers -> Addresses \cup {NoStream}]
        /\ target \in [Closers -> Addresses \cup {NoStream}]
    BY DEF Init
  <2>4. QED
    BY <1>1, <2>1, <2>2, <2>3 DEF Init, TypeOK
<1>3. QED
  BY <1>1, <1>2 DEF Init, BrokerInv, MapsAgree, WriterIsReader, ClosedIffForgotten

\* Entering a fresh stream in both maps keeps them in step.
LEMMA CreateStep ==
  ASSUME BrokerInv, NEW p \in Openers, Create(p)
  PROVE  BrokerInv'
<1> DEFINE new == Len(heap) + 1
           cell == [id |-> streamID', channel |-> channel[p]]
<1>1. /\ Len(heap) \in Nat
      /\ Len(heap) < MaxStreams
      /\ streamID' = new
      /\ new \in StreamIDs
      /\ cell \in [id : StreamIDs, channel : Channels]
  BY LenProperties DEF BrokerInv, TypeOK, Create
<1>2. heap' = Append(heap, cell)
  BY DEF Create
<1>3. /\ heap' \in Seq([id : StreamIDs, channel : Channels])
      /\ Len(heap') = new
      /\ \A a \in Addresses : heap'[a] = heap[a]
      /\ heap'[new] = cell
  BY <1>1, <1>2, AppendProperties DEF BrokerInv, TypeOK
<1>4. /\ Addresses' = Addresses \cup {new}
      /\ new \notin Addresses
  BY <1>1, <1>3
<1>5. /\ subs' = [subs EXCEPT ![channel[p]] = new]
      /\ streams' = [streams EXCEPT ![new] = new]
      /\ channel' = [channel EXCEPT ![p] = NoChannel]
      /\ channel[p] \in Channels
  BY <1>1 DEF Create, BrokerInv, TypeOK
<1>6. TypeOK'
  BY <1>1, <1>3, <1>4, <1>5 DEF Create, BrokerInv, TypeOK
<1>7. \A a \in Addresses' : heap'[a].id = a
  BY <1>1, <1>3, <1>4 DEF BrokerInv
<1>8. MapsAgree'
  <2>1. ASSUME NEW c \in Channels, subs'[c] # NoStream
        PROVE  heap'[subs'[c]].channel = c /\ streams'[heap'[subs'[c]].id] = subs'[c]
    <3>1. CASE c = channel[p]
      BY <1>1, <1>3, <1>5, <3>1 DEF BrokerInv, TypeOK
    <3>2. CASE c # channel[p]
      <4>1. subs'[c] = subs[c] /\ subs[c] \in Addresses
        BY <1>5, <2>1, <3>2 DEF BrokerInv, TypeOK
      <4>2. heap'[subs[c]] = heap[subs[c]] /\ heap[subs[c]].id = subs[c]
        BY <1>3, <4>1 DEF BrokerInv
      <4>3. streams[subs[c]] = subs[c] /\ heap[subs[c]].channel = c
        BY <4>1, <4>2 DEF BrokerInv, MapsAgree
      <4>4. streams'[subs[c]] = subs[c]
        BY <1>1, <1>4, <1>5, <4>1, <4>3 DEF BrokerInv, TypeOK
      <4>5. QED
        BY <4>1, <4>2, <4>3, <4>4
    <3>3. QED
      BY <3>1, <3>2
  <2>2. ASSUME NEW id \in StreamIDs, streams'[id] # NoStream
        PROVE  heap'[streams'[id]].id = id
    <3>1. streams'[id] = id /\ id \in Addresses'
      <4>1. CASE id = new
        BY <1>1, <1>4, <1>5, <4>1 DEF BrokerInv, TypeOK
      <4>2. CASE id # new
        <5>1. streams'[id] = streams[id] /\ streams[id] \in Addresses
          BY <1>5, <2>2, <4>2 DEF BrokerInv, TypeOK
        <5>2. QED
          BY <1>4, <2>2, <5>1, KnownByOwnID
      <4>3. QED
        BY <4>1, <4>2
    <3>2. QED
      BY <1>7, <3>1
  <2>3. QED
    BY <2>1, <2>2 DEF MapsAgree
<1>9. WriterIsReader'
  BY DEF Create, BrokerInv, TypeOK, WriterIsReader
<1>10. ClosedIffForgotten'
  <2> SUFFICES ASSUME ~shutdown, NEW a \in Addresses'
               PROVE  a \in closed <=> \A id \in StreamIDs : streams'[id] # a
    BY DEF Create, ClosedIffForgotten
  <2>1. CASE a = new
    <3>1. new \notin closed
      BY <1>4 DEF BrokerInv, TypeOK
    <3>2. streams'[new] = new
      BY <1>1, <1>5 DEF BrokerInv, TypeOK
    <3>3. QED
      BY <1>1, <2>1, <3>1, <3>2
  <2>2. CASE a # new
    <3>1. a \in Addresses /\ a \in StreamIDs
      BY <1>1, <1>4, <2>2
    <3>2. \A id \in StreamIDs : streams'[id] = a <=> streams[id] = a
      <4>1. streams[new] # a
        BY <1>1, <1>4, <2>2, <3>1, KnownByOwnID
      <4>2. QED
        BY <1>5, <2>2, <4>1 DEF BrokerInv, TypeOK
    <3>3. QED
      BY <3>1, <3>2 DEF BrokerInv, ClosedIffForgotten
  <2>3. QED
    BY <2>1, <2>2
<1>11. \A q \in Openers : opener'[q] \in {"opened", "sending"} => reader'[q] # NoStream
  BY <1>1 DEF Create, BrokerInv, TypeOK
<1>12. \A k \in Closers : mu' # k
  BY DEF Create
<1>13. \A q \in Openers : opener'[q] = "missed" => channel'[q] # NoChannel
  BY <1>5 DEF Create, BrokerInv, TypeOK
<1>14. QED
  BY <1>1, <1>3, <1>6, <1>7, <1>8, <1>9, <1>10, <1>11, <1>12, <1>13 DEF BrokerInv

\* Deleting both entries of the target and closing it keeps the maps in step.
LEMMA FinishCloseStep ==
  ASSUME BrokerInv, NEW k \in Closers, FinishClose(k)
  PROVE  BrokerInv'
<1> DEFINE t == target[k]
           ch == heap[t].channel
<1>1. /\ t \in Addresses
      /\ t \in StreamIDs
      /\ heap[t].id = t
      /\ ch \in Channels
      /\ subs[ch] = t
  <2>1. t \in Addresses /\ subs[ch] = t
    BY DEF FinishClose, BrokerInv, TypeOK
  <2>2. heap[t] \in [id : StreamIDs, channel : Channels]
    BY <2>1, ElementOfSeq DEF BrokerInv, TypeOK
  <2>3. heap[t].id = t
    BY <2>1 DEF BrokerInv
  <2>4. QED
    BY <2>1, <2>2, <2>3
<1>2. /\ subs' = [subs EXCEPT ![ch] = NoStream]
      /\ streams' = [streams EXCEPT ![t] = NoStream]
      /\ closed' = closed \cup {t}
      /\ UNCHANGED <<heap, shutdown, opener, reader, writer>>
  BY <1>1 DEF FinishClose
<1>3. TypeOK'
  BY ZenonT(60), <1>1, <1>2 DEF FinishClose, BrokerInv, TypeOK
<1>4. MapsAgree'
  <2>1. ASSUME NEW c \in Channels, subs'[c] # NoStream
        PROVE  heap[subs'[c]].channel = c /\ streams'[heap[subs'[c]].id] = subs'[c]
    <3>1. c # ch /\ subs'[c] = subs[c]
      BY <1>2, <2>1 DEF BrokerInv, TypeOK
    <3>2. /\ subs[c] \in Addresses
          /\ heap[subs[c]].channel = c
          /\ heap[subs[c]].id = subs[c]
          /\ streams[subs[c]] = subs[c]
      BY <2>1, <3>1 DEF BrokerInv, MapsAgree, TypeOK
    <3>3. subs[c] # t
      BY <3>1, <3>2
    <3>4. QED
      BY <1>2, <3>1, <3>2, <3>3 DEF BrokerInv, TypeOK
  <2>2. ASSUME NEW id \in StreamIDs, streams'[id] # NoStream
        PROVE  heap[streams'[id]].id = id
    BY <1>1, <1>2, <2>2 DEF BrokerInv, MapsAgree, TypeOK
  <2>3. QED
    BY <1>2, <2>1, <2>2 DEF MapsAgree
<1>5. ClosedIffForgotten'
  <2> SUFFICES ASSUME ~shutdown, NEW a \in Addresses
               PROVE  a \in closed' <=> \A id \in StreamIDs : streams'[id] # a
    BY <1>2 DEF ClosedIffForgotten
  <2>1. CASE a = t
    <3>1. \A id \in StreamIDs : streams'[id] # t
      BY SMTT(30), <1>1, <1>2, KnownByOwnID DEF BrokerInv, TypeOK
    <3>2. QED
      BY <1>2, <2>1, <3>1
  <2>2. CASE a # t
    <3>1. \A id \in StreamIDs : streams'[id] = a <=> streams[id] = a
      <4>1. a # NoStream /\ streams[t] # a
        BY <1>1, <2>2, KnownByOwnID
      <4>2. QED
        BY <1>2, <4>1 DEF BrokerInv, TypeOK
    <3>2. QED
      BY <1>2, <2>2, <3>1 DEF BrokerInv, ClosedIffForgotten
  <2>3. QED
    BY <2>1, <2>2
<1>6. \A j \in Closers : mu' # j
  BY DEF FinishClose
<1>7. QED
  BY <1>2, <1>3, <1>4, <1>5, <1>6 DEF FinishClose, BrokerInv, WriterIsReader

-----------------------------------------------------------------------------
LEMMA BrokerStep == BrokerInv /\ [Next]_vars => BrokerInv'
<1> SUFFICES ASSUME BrokerInv, [Next]_vars
             PROVE  BrokerInv'
  OBVIOUS
<1>1. ASSUME NEW p \in Openers, NEW c \in Channels, OpenExisting(p, c)
      PROVE  BrokerInv'
  BY <1>1 DEF OpenExisting, BrokerInv, TypeOK, MapsAgree, WriterIsReader, ClosedIffForgotten
<1>2. ASSUME NEW p \in Openers, NEW c \in Channels, OpenMissing(p, c)
      PROVE  BrokerInv'
  <2>1. /\ opener' = [opener EXCEPT ![p] = "missed"]
        /\ channel' = [channel EXCEPT ![p] = c]
        /\ raced' \subseteq raced \cup {c}
        /\ UNCHANGED <<heap, closed, subs, streams, streamID, mu, reader, writer, target, shutdown>>
    BY <1>2 DEF OpenMissing
  <2>2. TypeOK'
    BY <2>1 DEF BrokerInv, TypeOK
  <2>3. \A q \in Openers : opener'[q] = "missed" => channel'[q] # NoChannel
    BY <2>1 DEF BrokerInv, TypeOK
  <2>4. \A q \in Openers : opener'[q] \in {"opened", "sending"} => reader'[q] # NoStream
    BY <2>1 DEF BrokerInv, TypeOK
  <2>5. WriterIsReader'
    BY <2>1 DEF BrokerInv, TypeOK, WriterIsReader
  <2>6. QED
    BY <2>1, <2>2, <2>3, <2>4, <2>5 DEF BrokerInv, MapsAgree, ClosedIffForgotten
<1>3. ASSUME NEW p \in Openers, Create(p)
      PROVE  BrokerInv'
  BY <1>3, CreateStep
<1>4. ASSUME NEW p \in Openers, GetWriter(p)
      PROVE  BrokerInv'
  <2> DEFINE found == streams[heap[reader[p]].id]
  <2>1. /\ reader[p] \in Addresses
        /\ reader[p] \in StreamIDs
        /\ heap[reader[p]].id = reader[p]
    BY <1>4, LenProperties DEF GetWriter, BrokerInv, TypeOK
  <2>2. found \in {NoStream, reader[p]}
    BY <2>1, KnownByOwnID
  <2>3. /\ writer' = [writer EXCEPT ![p] = found]
        /\ opener' = [opener EXCEPT ![p] = IF found = NoStream THEN "idle" ELSE "sending"]
        /\ reader' = [reader EXCEPT ![p] = IF found = NoStream THEN NoStream ELSE @]
        /\ UNCHANGED <<heap, closed, subs, streams, streamID, mu, channel, target, shutdown, raced>>
    BY <1>4 DEF GetWriter
  <2>4. TypeOK'
    BY <2>1, <2>2, <2>3 DEF BrokerInv, TypeOK
  <2>5. WriterIsReader'
    BY <2>2, <2>3 DEF BrokerInv, TypeOK, WriterIsReader
  <2>6. \A q \in Openers : opener'[q] \in {"opened", "sending"} => reader'[q] # NoStream
    BY <2>1, <2>3 DEF BrokerInv, TypeOK
  <2>7. \A q \in Openers : opener'[q] = "missed" => channel'[q] # NoChannel
    BY <2>3 DEF BrokerInv, TypeOK
  <2>8. QED
    BY <2>3, <2>4, <2>5, <2>6, <2>7 DEF BrokerInv, MapsAgree, ClosedIffForgotten
<1>5. ASSUME NEW p \in Openers, StopSending(p)
      PROVE  BrokerInv'
  BY <1>5 DEF StopSending, BrokerInv, TypeOK, MapsAgree, WriterIsReader, ClosedIffForgotten
<1>6. ASSUME NEW k \in Closers, NEW c \in Channels, StartClose(k, c)
      PROVE  BrokerInv'
  <2>1. TypeOK'
    BY <1>6 DEF StartClose, BrokerInv, TypeOK
  <2>2. \A j \in Closers : mu' = j =>
          target'[j] # NoStream /\ subs[heap[target'[j]].channel] = target'[j]
    BY <1>6 DEF StartClose, BrokerInv, TypeOK, MapsAgree
  <2>3. QED
    BY <1>6, <2>1, <2>2
    DEF StartClose, BrokerInv, MapsAgree, WriterIsReader, ClosedIffForgotten
<1>7. ASSUME NEW k \in Closers, FinishClose(k)
      PROVE  BrokerInv'
  BY <1>7, FinishCloseStep
<1>8. ASSUME NEW k \in Closers, AbortClose(k)
      PROVE  BrokerInv'
  BY <1>8 DEF AbortClose, BrokerInv, TypeOK, MapsAgree, WriterIsReader, ClosedIffForgotten
<1>9. CASE Close
  <2> DEFINE known == {streams[id] : id \in {i \in StreamIDs : streams[i] # NoStream}}
  <2>1. closed' \subseteq Addresses
    <3>1. known \subseteq Addresses
      BY DEF BrokerInv, TypeOK
    <3>2. closed' = closed \cup known
      BY <1>9 DEF Close
    <3>3. QED
      BY <3>1, <3>2 DEF BrokerInv, TypeOK
  <2>2. TypeOK'
    BY <1>9, <2>1 DEF Close, BrokerInv, TypeOK
  <2>3. QED
    BY <1>9, <2>2 DEF Close, BrokerInv, MapsAgree, WriterIsReader, ClosedIffForgotten
<1>10. CASE UNCHANGED vars
  BY <1>10 DEF vars, BrokerInv, TypeOK, MapsAgree, WriterIsReader, ClosedIffForgotten
<1>11. QED
  BY <1>1, <1>2, <1>3, <1>4, <1>5, <1>6, <1>7, <1>8, <1>9, <1>10 DEF Next

-----------------------------------------------------------------------------
(* Channels nobody raced for *)

LEMMA RaceInit == Init => RaceInv
BY DEF Init, RaceInv, OtherMissed

\* Inserting a stream: on a channel nobody raced for, the opener is the only one
\* between the locks, and no stream of the channel is left from before.
LEMMA RaceCreate ==
  ASSUME BrokerInv, RaceInv, NEW p \in Openers, Create(p)
  PROVE  RaceInv'
<1> DEFINE new == Len(heap) + 1
           ch == channel[p]
<1>1. /\ new \in StreamIDs
      /\ heap' = Append(heap, [id |-> new, channel |-> ch])
      /\ ch \in Channels
      /\ opener[p] = "missed"
      /\ opener' = [opener EXCEPT ![p] = "opened"]
      /\ channel' = [channel EXCEPT ![p] = NoChannel]
      /\ subs' = [subs EXCEPT ![ch] = new]
      /\ streams' = [streams EXCEPT ![new] = new]
      /\ raced' = raced
  BY LenProperties DEF Create, BrokerInv, TypeOK
<1>2. /\ \A a \in Addresses : heap'[a] = heap[a]
      /\ heap'[new].channel = ch
  BY <1>1, AppendProperties DEF BrokerInv, TypeOK
<1>3. \A q \in Openers : opener'[q] = "missed" => q # p /\ opener[q] = "missed" /\ channel'[q] = channel[q]
  BY <1>1 DEF BrokerInv, TypeOK
<1>4. ASSUME NEW d \in Channels \ raced
      PROVE  /\ \A q \in Openers : opener'[q] = "missed" /\ channel'[q] = d =>
                  subs'[d] = NoStream /\ ~OtherMissed(q, d)'
             /\ \A id \in StreamIDs :
                  streams'[id] # NoStream /\ heap'[streams'[id]].channel = d =>
                    subs'[d] = streams'[id]
  <2>1. \A q \in Openers : OtherMissed(q, d)' => OtherMissed(q, d)
    BY <1>3 DEF OtherMissed
  <2>2. ASSUME NEW q \in Openers, opener'[q] = "missed", channel'[q] = d
        PROVE  subs'[d] = NoStream /\ ~OtherMissed(q, d)'
    <3>1. /\ opener[q] = "missed"
          /\ channel[q] = d
          /\ q # p
      BY <1>3, <2>2
    <3>2. subs[d] = NoStream /\ ~OtherMissed(q, d)
      BY <3>1 DEF RaceInv
    <3>3. d # ch
      BY <1>1, <3>1, <3>2 DEF OtherMissed
    <3>4. QED
      BY <1>1, <2>1, <3>2, <3>3 DEF BrokerInv, TypeOK
  <2>3. ASSUME NEW id \in StreamIDs, streams'[id] # NoStream,
               heap'[streams'[id]].channel = d
        PROVE  subs'[d] = streams'[id]
    <3>1. CASE id = new
      <4>1. streams'[id] = new
        BY <1>1, <3>1 DEF BrokerInv, TypeOK
      <4>2. d = ch
        BY <1>2, <2>3, <4>1
      <4>3. QED
        BY <1>1, <4>1, <4>2 DEF BrokerInv, TypeOK
    <3>2. CASE id # new
      <4>1. streams'[id] = streams[id] /\ streams[id] \in Addresses
        BY <1>1, <2>3, <3>2 DEF BrokerInv, TypeOK
      <4>2. heap[streams[id]].channel = d
        BY <1>2, <2>3, <4>1
      <4>3. subs[d] = streams[id]
        BY <2>3, <4>1, <4>2 DEF RaceInv
      <4>4. d # ch
        BY <1>1, <2>3, <4>1, <4>3 DEF RaceInv
      <4>5. QED
        BY <1>1, <4>1, <4>3, <4>4 DEF BrokerInv, TypeOK
    <3>3. QED
      BY <3>1, <3>2
  <2>4. QED
    BY <2>2, <2>3
<1>5. QED
  BY <1>1, <1>4 DEF RaceInv

LEMMA RaceStep == BrokerInv /\ RaceInv /\ [Next]_vars => RaceInv'
<1> SUFFICES ASSUME BrokerInv, RaceInv, [Next]_vars
             PROVE  RaceInv'
  OBVIOUS
<1>1. ASSUME NEW p \in Openers, NEW c \in Channels, OpenExisting(p, c)
      PROVE  RaceInv'
  BY <1>1 DEF OpenExisting, RaceInv, OtherMissed, BrokerInv, TypeOK
<1>2. ASSUME NEW p \in Openers, NEW c \in Channels, OpenMissing(p, c)
      PROVE  RaceInv'
  <2>1. /\ opener[p] = "idle"
        /\ subs[c] = NoStream
        /\ opener' = [opener EXCEPT ![p] = "missed"]
        /\ channel' = [channel EXCEPT ![p] = c]
        /\ raced' = IF OtherMissed(p, c) THEN raced \cup {c} ELSE raced
        /\ UNCHANGED <<heap, subs, streams>>
    BY <1>2 DEF OpenMissing
  <2>2. ASSUME NEW d \in Channels \ raced', NEW q \in Openers,
               opener'[q] = "missed", channel'[q] = d
        PROVE  subs[d] = NoStream /\ ~OtherMissed(q, d)'
    <3>1. d \notin raced
      BY <2>1, <2>2
    <3>2. \A r \in Openers : r # p => opener'[r] = opener[r] /\ channel'[r] = channel[r]
      BY <2>1 DEF BrokerInv, TypeOK
    <3>3. opener'[p] = "missed" /\ channel'[p] = c
      BY <2>1 DEF BrokerInv, TypeOK
    <3>4. CASE d = c
      <4>1. ~OtherMissed(p, c)
        BY <2>1, <2>2, <3>4
      <4>2. q = p
        BY <2>2, <3>2, <3>4, <4>1 DEF OtherMissed
      <4>3. ~OtherMissed(p, c)'
        BY <3>2, <4>1 DEF OtherMissed
      <4>4. QED
        BY <2>1, <3>4, <4>2, <4>3
    <3>5. CASE d # c
      <4>1. q # p
        BY <2>2, <3>3, <3>5
      <4>2. subs[d] = NoStream /\ ~OtherMissed(q, d)
        BY <2>2, <3>1, <3>2, <4>1 DEF RaceInv
      <4>3. ~OtherMissed(q, d)'
        BY <3>2, <3>3, <3>5, <4>2 DEF OtherMissed
      <4>4. QED
        BY <4>2, <4>3
    <3>6. QED
      BY <3>4, <3>5
  <2>3. \A d \in Channels \ raced' : d \notin raced
    BY <2>1
  <2>4. QED
    BY <2>1, <2>2, <2>3 DEF RaceInv
<1>3. ASSUME NEW p \in Openers, Create(p)
      PROVE  RaceInv'
  BY <1>3, RaceCreate
<1>4. ASSUME NEW p \in Openers, GetWriter(p)
      PROVE  RaceInv'
  BY <1>4 DEF GetWriter, RaceInv, OtherMissed, BrokerInv, TypeOK
<1>5. ASSUME NEW p \in Openers, StopSending(p)
      PROVE  RaceInv'
  BY <1>5 DEF StopSending, RaceInv, OtherMissed, BrokerInv, TypeOK
<1>6. ASSUME NEW k \in Closers, NEW c \in Channels, StartClose(k, c)
      PROVE  RaceInv'
  BY <1>6 DEF StartClose, RaceInv, OtherMissed
<1>7. ASSUME NEW k \in Closers, FinishClose(k)
      PROVE  RaceInv'
  <2> DEFINE t == target[k]
             ch == heap[t].channel
  <2>1. /\ t \in Addresses
        /\ t \in StreamIDs
        /\ heap[t].id = t
        /\ subs[ch] = t
    BY <1>7 DEF FinishClose, BrokerInv, TypeOK
  <2>2. /\ subs' = [subs EXCEPT ![ch] = NoStream]
        /\ streams' = [streams EXCEPT ![t] = NoStream]
        /\ UNCHANGED <<heap, opener, channel, raced>>
    BY <1>7, <2>1 DEF FinishClose
  <2>3. ASSUME NEW d \in Channels \ raced, NEW id \in StreamIDs,
               streams'[id] # NoStream, heap[streams'[id]].channel = d
        PROVE  subs'[d] = streams'[id]
    <3>1. id # t /\ streams'[id] = streams[id]
      BY <2>2, <2>3 DEF BrokerInv, TypeOK
    <3>2. streams[id] = id
      BY <2>3, <3>1, KnownByOwnID
    <3>3. subs[d] = id
      BY <2>3, <3>1, <3>2 DEF RaceInv
    <3>4. d # ch
      BY <2>1, <3>1, <3>3
    <3>5. QED
      BY <2>2, <3>1, <3>2, <3>3, <3>4 DEF BrokerInv, TypeOK
  <2>4. \A d \in Channels : subs[d] = NoStream => subs'[d] = NoStream
    BY <2>2 DEF BrokerInv, TypeOK
  <2>5. QED
    BY <2>2, <2>3, <2>4 DEF RaceInv, OtherMissed
<1>8. ASSUME NEW k \in Closers, AbortClose(k)
      PROVE  RaceInv'
  BY <1>8 DEF AbortClose, RaceInv, OtherMissed
<1>9. CASE Close
  BY <1>9 DEF Close, RaceInv, OtherMissed
<1>10. CASE UNCHANGED vars
  BY <1>10 DEF vars, RaceInv, OtherMissed
<1>11. QED
  BY <1>1, <1>2, <1>3, <1>4, <1>5, <1>6, <1>7, <1>8, <1>9, <1>10 DEF Next

\* A stream of a channel nobody raced for is replaced by no step.
LEMMA NoReplacement ==
  ASSUME BrokerInv, RaceInv, [Next]_vars
  PROVE  \A c \in Channels \ raced : subs[c] # NoStream => subs'[c] \in {subs[c], NoStream}
<1> SUFFICES ASSUME NEW c \in Channels \ raced, subs[c] # NoStream
             PROVE  subs'[c] \in {subs[c], NoStream}
  OBVIOUS
<1>1. ASSUME NEW p \in Openers, Create(p)
      PROVE  subs'[c] \in {subs[c], NoStream}
  <2>1. channel[p] # c
    BY <1>1 DEF Create, RaceInv
  <2>2. QED
    BY <1>1, <2>1 DEF Create, BrokerInv, TypeOK
<1>2. ASSUME NEW k \in Closers, FinishClose(k)
      PROVE  subs'[c] \in {subs[c], NoStream}
  BY <1>2 DEF FinishClose, BrokerInv, TypeOK
<1>3. (~ \E p \in Openers : Create(p)) /\ (~ \E k \in Closers : FinishClose(k)) => subs' = subs
  BY DEF Next, vars, OpenExisting, OpenMissing, GetWriter, StopSending, StartClose, AbortClose, Close
<1>4. QED
  BY <1>1, <1>2, <1>3

-----------------------------------------------------------------------------
(* The broker implements the table *)

LEMMA TableInit == Init => Table!Init
<1>1. Init => Addresses = {}
  BY DEF Init, Addresses
<1>2. QED
  BY <1>1 DEF Init, Table!Init

\* Under the write lock OpenReader mints, CloseStream removes; the test under the
\* read lock is an overlap if another opener had tested before.
LEMMA TableStep == BrokerInv /\ RaceInv /\ [Next]_vars => [Table!Next]_(Table!absVars)
<1> SUFFICES ASSUME BrokerInv, RaceInv, [Next]_vars
             PROVE  [Table!Next]_(Table!absVars)
  OBVIOUS
<1> USE DEF Table!absVars
<1>1. ASSUME NEW p \in Openers, NEW c \in Channels, OpenExisting(p, c)
      PROVE  Table!OpenExisting(p, c)
  BY <1>1 DEF OpenExisting, Table!OpenExisting, Addresses
<1>2. ASSUME NEW p \in Openers, NEW c \in Channels, OpenMissing(p, c)
      PROVE  Table!Overlap(c) \/ UNCHANGED Table!absVars
  BY <1>2 DEF OpenMissing, Table!Overlap, Addresses
<1>3. ASSUME NEW p \in Openers, Create(p)
      PROVE  \E c \in Channels : \E s \in StreamIDs \ {NoStream} : Table!OpenNew(p, c, s)
  <2> DEFINE s == Len(heap) + 1
             c == channel[p]
  <2>1. /\ opener[p] = "missed"
        /\ Len(heap) < MaxStreams
        /\ heap' = Append(heap, [id |-> streamID', channel |-> c])
        /\ subs' = [subs EXCEPT ![c] = s]
        /\ reader' = [reader EXCEPT ![p] = s]
        /\ raced' = raced
    BY <1>3 DEF Create
  <2>2. c \in Channels
    BY <2>1 DEF BrokerInv, TypeOK
  <2>3. Len(heap) \in Nat /\ s \in StreamIDs \ {NoStream}
    BY <2>1, LenProperties DEF BrokerInv, TypeOK, StreamIDs, NoStream
  <2>4. Len(heap') = s
    <3>1. heap \in Seq([id : StreamIDs, channel : Channels])
      BY DEF BrokerInv, TypeOK
    <3>2. QED
      BY <2>1, <3>1
  <2>5. s \notin Addresses /\ Addresses' = Addresses \cup {s}
    BY <2>3, <2>4 DEF Addresses
  <2>6. subs[c] = NoStream \/ c \in raced
    BY <2>1, <2>2 DEF RaceInv
  <2>7. Table!OpenNew(p, c, s)
    BY <2>1, <2>5, <2>6 DEF Table!OpenNew
  <2>8. QED
    BY <2>2, <2>3, <2>7
<1>4. ASSUME NEW p \in Openers, GetWriter(p)
      PROVE  Table!Release(p) \/ UNCHANGED Table!absVars
  <2>1. CASE streams[heap[reader[p]].id] = NoStream
    BY <1>4, <2>1 DEF GetWriter, Table!Release, Addresses
  <2>2. CASE streams[heap[reader[p]].id] # NoStream
    BY <1>4, <2>2 DEF GetWriter, BrokerInv, TypeOK, Addresses
  <2>3. QED
    BY <2>1, <2>2
<1>5. ASSUME NEW p \in Openers, StopSending(p)
      PROVE  Table!Release(p)
  BY <1>5 DEF StopSending, Table!Release, Addresses
<1>6. ASSUME NEW k \in Closers, FinishClose(k)
      PROVE  \E c \in Channels : Table!CloseStream(c)
  <2> DEFINE c == heap[target[k]].channel
  <2>1. target[k] # NoStream /\ subs[c] = target[k] /\ target[k] \in Addresses
    BY <1>6 DEF FinishClose, BrokerInv, TypeOK
  <2>2. c \in Channels
    <3>1. heap[target[k]] \in [id : StreamIDs, channel : Channels]
      BY <2>1, ElementOfSeq DEF BrokerInv, TypeOK, Addresses
    <3>2. QED
      BY <3>1
  <2>3. Table!CloseStream(c)
    BY <1>6, <2>1 DEF FinishClose, Table!CloseStream, Addresses
  <2>4. QED
    BY <2>2, <2>3
<1>7. ASSUME NEW k \in Closers, NEW c \in Channels, StartClose(k, c)
      PROVE  UNCHANGED Table!absVars
  BY <1>7 DEF StartClose, callers, Addresses
<1>8. ASSUME NEW k \in Closers, AbortClose(k)
      PROVE  UNCHANGED Table!absVars
  BY <1>8 DEF AbortClose, callers, Addresses
<1>9. CASE Close
  BY <1>9 DEF Close, callers, Addresses
<1>10. CASE UNCHANGED vars
  BY <1>10 DEF vars, callers, Addresses
<1>11. QED
  BY <1>1, <1>2, <1>3, <1>4, <1>5, <1>6, <1>7, <1>8, <1>9, <1>10 DEF Next, Table!Next

-----------------------------------------------------------------------------
\* The invariant of the broker holds for any number of openers, closers and
\* channels (OpenReader, GetWriter, CloseStream and Close of streamBroker).
THEOREM BrokerInvariant == Spec => []BrokerInv
<1>1. QED
  BY BrokerInit, BrokerStep, PTL DEF Spec

\* Every variable of the broker keeps its type.
THEOREM BrokerTypeCorrect == Spec => []TypeOK
<1>1. BrokerInv => TypeOK
  BY DEF BrokerInv
<1>2. QED
  BY <1>1, BrokerInvariant, PTL

\* What the broker finds by channel it finds by StreamID, filed under its own
\* keys, also while OpenReader calls race and CloseStream fails.
THEOREM BrokerMapsAgree == Spec => []MapsAgree
<1>1. BrokerInv => MapsAgree
  BY DEF BrokerInv
<1>2. QED
  BY <1>1, BrokerInvariant, PTL

\* A forwarder never sends to another stream than the one its monitor reads.
THEOREM BrokerWriterIsReader == Spec => []WriterIsReader
<1>1. BrokerInv => WriterIsReader
  BY DEF BrokerInv
<1>2. QED
  BY <1>1, BrokerInvariant, PTL

\* CloseStream closes what it forgets and forgets what it closes.
THEOREM BrokerClosedIffForgotten == Spec => []ClosedIffForgotten
<1>1. BrokerInv => ClosedIffForgotten
  BY DEF BrokerInv
<1>2. QED
  BY <1>1, BrokerInvariant, PTL

\* OpenReader, CloseStream: whatever is opened and closed in which order, a channel
\* for which no two openers were between the locks at once has one stream.
THEOREM BrokerOneStream == Spec => []OneStreamPerChannel
<1>1. BrokerInv /\ RaceInv => OneStreamPerChannel
  <2> SUFFICES ASSUME BrokerInv, RaceInv,
                      NEW id \in StreamIDs, NEW jd \in StreamIDs,
                      streams[id] # NoStream, streams[jd] # NoStream,
                      heap[streams[id]].channel = heap[streams[jd]].channel,
                      heap[streams[id]].channel \notin raced
               PROVE  id = jd
    BY DEF OneStreamPerChannel
  <2>1. streams[id] = id /\ streams[jd] = jd
    BY KnownByOwnID
  <2>2. heap[streams[id]].channel \in Channels
    <3>1. streams[id] \in Addresses
      BY DEF BrokerInv, TypeOK
    <3>2. heap[streams[id]] \in [id : StreamIDs, channel : Channels]
      BY <3>1, ElementOfSeq DEF BrokerInv, TypeOK, Addresses
    <3>3. QED
      BY <3>2
  <2>3. heap[streams[jd]].channel \in Channels \ raced
    BY <2>2
  <2>4. /\ subs[heap[streams[id]].channel] = streams[id]
        /\ subs[heap[streams[jd]].channel] = streams[jd]
    BY <2>2, <2>3 DEF RaceInv
  <2>5. QED
    BY <2>1, <2>4
<1>2. QED
  BY <1>1, BrokerInit, BrokerStep, RaceInit, RaceStep, PTL DEF Spec

\* "If a stream already exists for the subscription, the existing stream will
\* be returned", on every channel for which no two openers raced.
THEOREM BrokerOnlyRacersReplace == Spec => OnlyRacersReplace
<1>1. BrokerInv /\ RaceInv /\ [Next]_vars =>
        [\A c \in Channels \ raced :
           subs[c] # NoStream => subs'[c] \in {subs[c], NoStream}]_vars
  BY NoReplacement
<1>2. QED
  BY <1>1, BrokerInit, BrokerStep, RaceInit, RaceStep, PTL DEF Spec, OnlyRacersReplace

\* With a single goroutine that opens, no channel is ever raced for, so that both
\* theorems hold for every channel.
OneOpener == \A p, q \in Openers : p = q

THEOREM OneOpenerNeverRaces == Spec => [](OneOpener => raced = {})
<1>1. Init => (OneOpener => raced = {})
  BY DEF Init
<1>2. (OneOpener => raced = {}) /\ [Next]_vars => (OneOpener => raced = {})'
  BY DEF OneOpener, Next, vars, OtherMissed, OpenExisting, OpenMissing, Create, GetWriter,
         StopSending, StartClose, FinishClose, AbortClose, Close
<1>3. QED
  BY <1>1, <1>2, PTL DEF Spec

\* "If a stream already exists for the subscription, the existing stream will be
\* returned" without exception where one goroutine opens streams. (A goroutine of
\* createSubscription per announced node is more than one.)
THEOREM OneOpenerExistingReturned ==
  ASSUME OneOpener
  PROVE  Spec => ExistingStreamReturned
<1>1. (OneOpener => raced = {}) /\
      [\A c \in Channels \ raced :
         subs[c] # NoStream => subs'[c] \in {subs[c], NoStream}]_vars =>
      [\A c \in Channels :
         subs[c] # NoStream => subs'[c] \in {subs[c], NoStream}]_vars
  OBVIOUS
<1>2. QED
  BY <1>1, OneOpenerNeverRaces, BrokerOnlyRacersReplace, PTL
     DEF OnlyRacersReplace, ExistingStreamReturned

\* The broker, with its two maps, its locks and the remote call, implements the
\* table of streams that the interface Broker describes: openers find OpenReader
\* atomic except where they race.
THEOREM BrokerImplementsTable == Spec => ImplementsTable
<1>1. QED
  BY TableInit, TableStep, BrokerInit, BrokerStep, RaceInit, RaceStep, PTL
     DEF Spec, ImplementsTable, Table!Spec

-----------------------------------------------------------------------------
(* Streams a racing opener replaced *)

\* Closing the broker closes every stream it ever minted.
THEOREM BrokerCloseReachesAll == Spec => CloseReachesAll
<1> DEFINE Reached == ~shutdown /\ shutdown' => Addresses \subseteq closed'
<1>1. BrokerInv /\ [Next]_vars => [Reached]_vars
  <2> SUFFICES ASSUME BrokerInv, [Next]_vars, ~shutdown, shutdown'
               PROVE  Addresses \subseteq closed'
    OBVIOUS
  <2>1. Close
    BY DEF Next, vars, OpenExisting, OpenMissing, Create, GetWriter, StopSending, StartClose,
           FinishClose, AbortClose
  <2>2. ASSUME NEW a \in Addresses, a \notin closed
        PROVE  a \in closed'
    <3>1. \E id \in StreamIDs : streams[id] = a
      BY <2>2 DEF BrokerInv, ClosedIffForgotten
    <3>2. a # NoStream
      OBVIOUS
    <3>3. QED
      BY <2>1, <3>1, <3>2 DEF Close
  <2>3. QED
    BY <2>1, <2>2 DEF Close
<1>2. QED
  BY <1>1, BrokerInvariant, PTL DEF Spec, CloseReachesAll

\* An open stream that is not the one of its channel.
Orphan(a) == a \in Addresses /\ a \notin closed /\ subs[heap[a].channel] # a

LEMMA OrphanStep ==
  ASSUME NEW a
  PROVE  BrokerInv /\ (Orphan(a) \/ shutdown) /\ [Next]_vars => (Orphan(a) \/ shutdown)'
<1> SUFFICES ASSUME BrokerInv, Orphan(a) \/ shutdown, [Next]_vars
             PROVE  (Orphan(a) \/ shutdown)'
  OBVIOUS
<1>1. CASE shutdown
  BY <1>1 DEF Next, vars, OpenExisting, OpenMissing, Create, GetWriter, StopSending,
              StartClose, FinishClose, AbortClose, Close
<1>2. CASE Orphan(a)
  <2>0. /\ heap \in Seq([id : StreamIDs, channel : Channels])
        /\ a \in 1..Len(heap) /\ a # NoStream
        /\ heap[a].channel \in Channels
    <3>1. heap \in Seq([id : StreamIDs, channel : Channels]) /\ a \in 1..Len(heap)
      BY <1>2 DEF Orphan, BrokerInv, TypeOK
    <3>2. heap[a] \in [id : StreamIDs, channel : Channels]
      BY <3>1, ElementOfSeq
    <3>3. QED
      BY <3>1, <3>2
  <2>1. ASSUME NEW p \in Openers, Create(p)
        PROVE  Orphan(a)'
    <3>1. heap'[a] = heap[a] /\ a \in Addresses'
      BY <2>0, <2>1 DEF Create
    <3>2. subs'[heap[a].channel] \in {subs[heap[a].channel], Len(heap) + 1}
      BY <2>0, <2>1 DEF Create, BrokerInv, TypeOK
    <3>3. a # Len(heap) + 1
      BY <2>0
    <3>4. QED
      BY <1>2, <2>1, <3>1, <3>2, <3>3 DEF Create, Orphan
  <2>2. ASSUME NEW k \in Closers, FinishClose(k)
        PROVE  Orphan(a)'
    <3>1. target[k] # a
      BY <1>2, <2>2 DEF FinishClose, BrokerInv, Orphan
    <3>2. subs'[heap[a].channel] \in {subs[heap[a].channel], NoStream}
      BY <2>0, <2>2 DEF FinishClose, BrokerInv, TypeOK
    <3>3. QED
      BY <1>2, <2>0, <2>2, <3>1, <3>2 DEF FinishClose, Orphan
  <2>3. CASE Close
    BY <2>3 DEF Close
  <2>4. CASE UNCHANGED <<heap, closed, subs>>
    BY <1>2, <2>4 DEF Orphan
  <2>5. QED
    BY <2>1, <2>2, <2>3, <2>4
    DEF Next, vars, OpenExisting, OpenMissing, GetWriter, StopSending, StartClose, AbortClose
<1>3. QED
  BY <1>1, <1>2

\* A stream that another has replaced in its channel is open for as long as the
\* broker is: no CloseStream finds it.
THEOREM BrokerOrphanForGood ==
  ASSUME NEW a
  PROVE  Spec => [](Orphan(a) => [](Orphan(a) \/ shutdown))
<1>1. QED
  BY OrphanStep, BrokerInvariant, PTL DEF Spec

\* Until then, there is no such stream on a channel for which no two openers raced.
THEOREM BrokerOrphansAreRaced ==
  Spec => [](~shutdown => \A a \in Addresses : Orphan(a) => heap[a].channel \in raced)
<1> DEFINE Raced == ~shutdown => \A a \in Addresses : Orphan(a) => heap[a].channel \in raced
<1>1. BrokerInv /\ RaceInv => Raced
  <2> SUFFICES ASSUME BrokerInv, RaceInv, ~shutdown, NEW a \in Addresses, Orphan(a),
                      heap[a].channel \notin raced
               PROVE  FALSE
    OBVIOUS
  <2>1. heap[a].channel \in Channels
    <3>1. heap[a] \in [id : StreamIDs, channel : Channels]
      BY ElementOfSeq DEF BrokerInv, TypeOK
    <3>2. QED
      BY <3>1
  <2>2. PICK id \in StreamIDs : streams[id] = a
    BY DEF Orphan, BrokerInv, ClosedIffForgotten
  <2>3. streams[id] # NoStream
    BY <2>2
  <2>4. subs[heap[a].channel] = a
    BY <2>1, <2>2, <2>3 DEF RaceInv
  <2>5. QED
    BY <2>4 DEF Orphan
<1>2. QED
  BY <1>1, BrokerInit, BrokerStep, RaceInit, RaceStep, PTL DEF Spec
=============================================================================
