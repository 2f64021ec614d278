------------------------- MODULE SubscriptionsProofs -------------------------
(***************************************************************************)
(* Proofs about Subscriptions for every set of nodes, any number of        *)
(* connections, cells and styles, and any number of restarts: the          *)
(* inductive invariant, and with it that the action store covers every     *)
(* subscription; where measurements are filed and what a removal leaves;   *)
(* that no connection is forgotten; and what never happens again once a    *)
(* watcher has returned.                                                   *)
(***************************************************************************)
EXTENDS Subscriptions, FiniteSetTheorems, SequenceTheorems, TLAPS

USE SubscriptionsAssumption DEF outside, removal, stores, Goroutine

-----------------------------------------------------------------------------
(* Goroutines and events *)

\* A goroutine that has only its place is in a proper state.
LEMMA FreshGoroutine ==
  ASSUME NEW pc \in {"idle", "monitor", "over"} \cup OnItsWay
  PROVE  /\ Goroutine(pc) \in JobState
         /\ Goroutine(pc).pc = pc
         /\ Goroutine(pc).put = 0
         /\ Len(Goroutine(pc).cells) = 0
<1>1. <<>> \in Seq(CellIDs) /\ 0 \in 0..MaxPeriod /\ 0 \in 0..Styles /\ 0 \in 0..CellCount
  OBVIOUS
<1>2. QED
  BY <1>1 DEF JobState

\* Setting one goroutine keeps the type of job.
LEMMA SetJob ==
  ASSUME TypeOK, NEW c \in Connections, NEW r \in JobState, job' = [job EXCEPT ![c] = r]
  PROVE  /\ job' \in [Connections -> JobState]
         /\ job'[c] = r
         /\ \A k \in Connections \ {c} : job'[k] = job[k]
BY DEF TypeOK

\* A goroutine is in a proper state; in particular its list is a sequence of cells.
LEMMA JobType ==
  ASSUME TypeOK, NEW c \in Connections
  PROVE  /\ job[c] \in JobState
         /\ job[c].cells \in Seq(CellIDs)
         /\ Len(job[c].cells) \in Nat
         /\ job[c].put \in 0..CellCount
         /\ job[c].style \in 0..Styles
         /\ job[c].period \in 0..MaxPeriod
<1>1. job[c] \in JobState
  BY DEF TypeOK
<1>2. job[c].cells \in Seq(CellIDs)
  BY <1>1 DEF JobState
<1>3. QED
  BY <1>1, <1>2, LenProperties DEF JobState

\* The connections there are, are connections, and finitely many.
LEMMA PresentType ==
  ASSUME TypeOK, \A n \in connected : connection[n] > 0
  PROVE  Present \in SUBSET Connections /\ IsFiniteSet(Present)
<1>1. ASSUME NEW n \in connected
      PROVE  <<n, connection[n]>> \in Connections
  BY DEF TypeOK, Connections
<1>2. Present \in SUBSET Connections
  BY <1>1 DEF Present
<1>3. IsFiniteSet(connected)
  BY FS_Subset DEF TypeOK
<1>4. IsFiniteSet({<<n, connection[n]>> : n \in connected})
  <2> DEFINE f == [n \in connected |-> <<n, connection[n]>>]
  <2>1. f \in Surjection(connected, {<<n, connection[n]>> : n \in connected})
    BY DEF Surjection
  <2>2. QED
    BY <1>3, <2>1, FS_Surjection
<1>5. QED
  BY <1>2, <1>4 DEF Present

\* What a fresh watch replays is a sequence of events.
LEMMA ReplaysAreEvents ==
  ASSUME NEW C \in SUBSET Connections, IsFiniteSet(C), NEW r \in Replays(C)
  PROVE  r \in Seq(Event)
<1>1. PICK s \in Orders(C) : r = [i \in DOMAIN s |-> [type |-> "NONE", of |-> s[i]]]
  BY DEF Replays
<1>2. Cardinality(C) \in Nat
  BY FS_CardinalityType
<1>3. s \in [1..Cardinality(C) -> Connections]
  BY DEF Orders
<1>4. r \in [1..Cardinality(C) -> Event]
  BY <1>1, <1>3 DEF Event
<1>5. QED
  BY <1>2, <1>4, SeqDef

\* A sorted list of some of the cells is a sequence of at most CellCount of them.
LEMMA SortedListType ==
  ASSUME NEW S \in (SUBSET CellIDs) \ {{}}, NEW s \in SortedLists(S)
  PROVE  s \in Seq(CellIDs) /\ Len(s) <= CellCount /\ Len(s) > 0
<1>1. IsFiniteSet(CellIDs) /\ Cardinality(CellIDs) = CellCount
  BY FS_Interval DEF CellIDs
<1>2. IsFiniteSet(S) /\ Cardinality(S) <= CellCount
  BY <1>1, FS_Subset
<1>3. Cardinality(S) \in Nat /\ Cardinality(S) # 0
  <2>1. Cardinality(S) \in Nat
    BY <1>2, FS_CardinalityType
  <2>2. Cardinality(S) # 0
    BY <1>2, FS_EmptySet
  <2>3. QED
    BY <2>1, <2>2
<1>4. s \in [1..Cardinality(S) -> CellIDs]
  BY DEF SortedLists
<1>5. s \in Seq(CellIDs)
  BY <1>3, <1>4, SeqDef
<1>6. Len(s) = Cardinality(S)
  BY <1>3, <1>4, <1>5, LenProperties
<1>7. QED
  BY <1>2, <1>3, <1>5, <1>6

-----------------------------------------------------------------------------
(* The inductive invariant *)

\* The part of the invariant about the watcher and the topology.
WatcherInv ==
  /\ \A n \in connected : connection[n] > 0
  /\ watcher \in {"listing", "deleting"} => removing \in Nodes
  /\ watcher = "deleting" => todo \subseteq listed

LEMMA SubscriptionsInit == Init => SubscriptionsInv
<1> SUFFICES ASSUME Init PROVE SubscriptionsInv
  OBVIOUS
<1>0. /\ connected \subseteq Nodes
      /\ connection \in [Nodes -> 0..MaxConnections]
      /\ \A n \in connected : connection[n] > 0
  BY DEF Init
<1>1. events \in Seq(Event)
  <2>1. Present \in SUBSET Connections /\ IsFiniteSet(Present)
    <3>1. ASSUME NEW n \in connected
          PROVE  <<n, connection[n]>> \in Connections
      BY <1>0 DEF Connections
    <3>2. IsFiniteSet(connected)
      BY <1>0, FS_Subset
    <3>3. [n \in connected |-> <<n, connection[n]>>]
            \in Surjection(connected, {<<n, connection[n]>> : n \in connected})
      BY DEF Surjection
    <3>4. QED
      BY <3>1, <3>2, <3>3, FS_Surjection DEF Present
  <2>2. QED
    BY <2>1, ReplaysAreEvents DEF Init
<1>2. job \in [Connections -> JobState] /\ \A c \in Connections : job[c] = Goroutine("idle")
  BY FreshGoroutine DEF Init
<1>3. TypeOK
  <2>1. /\ reporting \in [Nodes -> 0..MaxPeriod]
        /\ subscribed \in [Nodes -> SUBSET (SubIDs \X CellIDs)]
        /\ actionStore \in [SubIDs -> Cells \cup {NoCell}]
        /\ period \in 1..MaxPeriod
    BY DEF Init
  <2>2. /\ watcher \in {"watching", "listing", "deleting", "returned"}
        /\ configWatcher \in {"watching", "returned"}
        /\ configChanged \in BOOLEAN
        /\ removing \in Nodes \cup {NoNode}
        /\ listed \subseteq CellIDs /\ todo \subseteq CellIDs /\ late \subseteq Cells
    BY DEF Init
  <2>3. /\ streams \subseteq Nodes
        /\ monitors \subseteq Connections
        /\ rekeyed \subseteq SubIDs
        /\ entries \subseteq [node : Nodes, cell : Cells, about : Cells]
    BY DEF Init
  <2>4. QED
    BY <1>0, <1>1, <1>2, <2>1, <2>2, <2>3 DEF TypeOK
<1>4. \A c \in Connections : job[c].pc = "idle" /\ Len(job[c].cells) <= CellCount
  BY <1>2, FreshGoroutine
<1>5. QED
  BY <1>0, <1>3, <1>4 DEF Init, SubscriptionsInv, ActionsComplete, JobInv

\* Steps that leave goroutines, definitions and subscriptions alone.
LEMMA SameJobs ==
  ASSUME SubscriptionsInv, TypeOK', WatcherInv', UNCHANGED <<job, actionStore, subscribed>>
  PROVE  SubscriptionsInv'
BY DEF SubscriptionsInv, WatcherInv, ActionsComplete, JobInv

\* Steps of one goroutine that leave definitions and subscriptions alone; it enters
\* "subscribe" and "open" only when all definitions are stored.
LEMMA JobMoves ==
  ASSUME SubscriptionsInv, TypeOK', NEW c \in Connections,
         UNCHANGED <<connected, connection, removal, actionStore, subscribed>>,
         \A k \in Connections \ {c} : job'[k] = job[k],
         job'[c].pc \in {"subscribe", "open"} =>
           job[c].pc \in {"subscribe", "open"} /\ job'[c].cells = job[c].cells,
         JobInv(c)'
  PROVE  SubscriptionsInv'
<1>1. ActionsComplete'
  <2>1. ASSUME NEW k \in Connections, job'[k].pc \in {"subscribe", "open"}
        PROVE  \A i \in 1..Len(job'[k].cells) : actionStore'[i] # NoCell
    <3>1. job[k].pc \in {"subscribe", "open"} /\ job'[k].cells = job[k].cells
      BY <2>1
    <3>2. QED
      BY <3>1 DEF SubscriptionsInv, ActionsComplete
  <2>2. QED
    BY <2>1 DEF SubscriptionsInv, ActionsComplete
<1>2. ASSUME NEW k \in Connections
      PROVE  JobInv(k)'
  <2>1. CASE k = c
    BY <2>1
  <2>2. CASE k # c
    BY <2>2 DEF SubscriptionsInv, JobInv
  <2>3. QED
    BY <2>1, <2>2
<1>3. QED
  BY <1>1, <1>2 DEF SubscriptionsInv

\* A goroutine that starts over has nothing to account for.
LEMMA FreshJobInv ==
  ASSUME NEW c \in Connections, NEW pc \in {"idle", "over", "aspects"},
         job'[c] = Goroutine(pc)
  PROVE  JobInv(c)' /\ job'[c].pc = pc
BY FreshGoroutine DEF JobInv, OnItsWay

LEMMA SubscriptionsStep == SubscriptionsInv /\ [Next]_vars => SubscriptionsInv'
<1> SUFFICES ASSUME SubscriptionsInv, [Next]_vars
             PROVE  SubscriptionsInv'
  OBVIOUS
<1>0. TypeOK /\ WatcherInv
  BY DEF SubscriptionsInv, WatcherInv
<1>1. ASSUME NEW n \in Nodes, Connect(n)
      PROVE  SubscriptionsInv'
  <2>1. connection[n] + 1 \in 1..MaxConnections
    BY <1>0, <1>1 DEF Connect, TypeOK
  <2>2. events' \in Seq(Event)
    <3>1. [type |-> "ADDED", of |-> <<n, connection[n] + 1>>] \in Event
      BY <2>1 DEF Event, Connections
    <3>2. QED
      BY <1>0, <1>1, <3>1, AppendProperties DEF Connect, TypeOK
  <2>3. connection' \in [Nodes -> 0..MaxConnections] /\ \A m \in connected' : connection'[m] > 0
    BY <1>0, <1>1, <2>1 DEF Connect, TypeOK, WatcherInv
  <2>4. TypeOK'
    BY <1>0, <1>1, <2>2, <2>3 DEF Connect, TypeOK
  <2>5. QED
    BY <1>0, <1>1, <2>3, <2>4, SameJobs DEF Connect, WatcherInv
<1>2. ASSUME NEW n \in Nodes, Disconnect(n)
      PROVE  SubscriptionsInv'
  <2>1. events' \in Seq(Event)
    <3>1. connection[n] \in 1..MaxConnections
      BY <1>0, <1>2 DEF Disconnect, TypeOK, WatcherInv
    <3>2. [type |-> "REMOVED", of |-> <<n, connection[n]>>] \in Event
      BY <3>1 DEF Event, Connections
    <3>3. QED
      BY <1>0, <1>2, <3>2, AppendProperties DEF Disconnect, TypeOK
  <2>2. TypeOK'
    BY <1>0, <1>2, <2>1 DEF Disconnect, TypeOK
  <2>3. QED
    BY <1>0, <1>2, <2>2, SameJobs DEF Disconnect, WatcherInv
<1>3. CASE ChangePeriod
  <2>1. TypeOK'
    BY <1>0, <1>3 DEF ChangePeriod, TypeOK
  <2>2. QED
    BY <1>0, <1>3, <2>1, SameJobs DEF ChangePeriod, WatcherInv
<1>4. ASSUME events # <<>>
      PROVE  /\ Head(events).of \in Connections /\ Head(events).of[1] \in Nodes
             /\ Tail(events) \in Seq(Event)
  <2>1. events \in Seq(Event)
    BY <1>0 DEF TypeOK
  <2>2. Head(events) \in Event /\ Tail(events) \in Seq(Event)
    BY <1>4, <2>1, HeadTailProperties
  <2>3. Head(events).of \in Connections
    BY <2>2 DEF Event
  <2>4. QED
    BY <2>2, <2>3 DEF Connections
\* A goroutine that is passed over or spawned.
<1>5. ASSUME NEW pc \in {"over", "aspects"}, events # <<>>, events' = Tail(events),
             job' = [job EXCEPT ![Head(events).of] = Goroutine(pc)],
             UNCHANGED <<outside, configChanged, removal, configWatcher, stores>>
      PROVE  SubscriptionsInv'
  <2>1. PICK c \in Connections : c = Head(events).of
    BY <1>4, <1>5
  <2>2. Goroutine(pc) \in JobState
    BY FreshGoroutine DEF OnItsWay
  <2>3. /\ job' \in [Connections -> JobState]
        /\ job'[c] = Goroutine(pc)
        /\ \A k \in Connections \ {c} : job'[k] = job[k]
    BY <1>0, <1>5, <2>1, <2>2, SetJob, Zenon
  <2>4. TypeOK'
    BY <1>0, <1>4, <1>5, <2>1, <2>3 DEF TypeOK
  <2>5. JobInv(c)' /\ job'[c].pc = pc
    BY <2>3, FreshJobInv
  <2>6. QED
    BY <1>5, <2>3, <2>4, <2>5, JobMoves
<1>6. CASE DropAdded \/ SpawnJob
  BY <1>5, <1>6, Zenon DEF DropAdded, SpawnJob
<1>7. CASE HandleRemoved
  <2>1. /\ watcher' \in {"watching", "listing"}
        /\ removing' \in Nodes \cup {NoNode}
        /\ watcher' = "listing" => removing' \in Nodes
    BY <1>0, <1>4, <1>7 DEF HandleRemoved, TypeOK
  <2>2. TypeOK'
    BY <1>0, <1>4, <1>7, <2>1 DEF HandleRemoved, TypeOK
  <2>3. QED
    BY <1>0, <1>7, <2>1, <2>2, SameJobs DEF HandleRemoved, WatcherInv
<1>8. CASE ListCells
  <2>1. TypeOK'
    BY <1>0, <1>8 DEF ListCells, TypeOK
  <2>2. QED
    BY <1>0, <1>8, <2>1, SameJobs DEF ListCells, WatcherInv
<1>9. CASE WatcherReturns
  <2>1. TypeOK'
    BY <1>0, <1>9 DEF WatcherReturns, TypeOK
  <2>2. QED
    BY <1>0, <1>9, <2>1, SameJobs DEF WatcherReturns, WatcherInv
<1>10. ASSUME NEW c \in CellIDs, DeleteEntry(c)
       PROVE  SubscriptionsInv'
  <2>1. /\ watcher' \in {"watching", "deleting"}
        /\ removing' \in Nodes \cup {NoNode}
        /\ listed' \subseteq CellIDs /\ todo' \subseteq CellIDs /\ late' \subseteq Cells
        /\ watcher' = "deleting" => removing' \in Nodes /\ todo' \subseteq listed'
    <3>1. CASE todo = {c}
      BY <3>1, <1>10 DEF DeleteEntry, NextToDelete
    <3>2. CASE todo # {c}
      BY <3>2, <1>0, <1>10 DEF DeleteEntry, NextToDelete, TypeOK, WatcherInv
    <3>3. QED
      BY <3>1, <3>2
  <2>2. TypeOK'
    BY <1>0, <1>10, <2>1 DEF DeleteEntry, TypeOK
  <2>3. QED
    BY <1>0, <1>10, <2>1, <2>2, SameJobs DEF DeleteEntry, WatcherInv
<1>11. ASSUME NEW c \in Connections, ReadAspects(c)
       PROVE  SubscriptionsInv'
  <2> DEFINE r == [job[c] EXCEPT !.pc = "cells"]
  <2>1. /\ r \in JobState /\ r.pc = "cells" /\ r.put = job[c].put /\ r.cells = job[c].cells
        /\ job' = [job EXCEPT ![c] = r]
    BY <1>0, <1>11, JobType DEF ReadAspects, JobState, OnItsWay
  <2> HIDE DEF r
  <2>2. TypeOK'
    BY <1>0, <1>11, <2>1, SetJob DEF ReadAspects, TypeOK
  <2>3. JobInv(c)'
    BY <1>0, <1>11, <2>1, SetJob DEF ReadAspects, SubscriptionsInv, JobInv
  <2>4. QED
    BY <1>0, <1>11, <2>1, <2>2, <2>3, SetJob, JobMoves DEF ReadAspects
<1>12. ASSUME NEW c \in Connections, ReadCells(c)
       PROVE  SubscriptionsInv'
  <2>0. PICK S \in (SUBSET CellIDs) \ {{}} : \E s \in SortedLists(S) :
          job' = [job EXCEPT ![c].pc = "config", ![c].cells = s]
    BY <1>12 DEF ReadCells
  <2>1. PICK s \in SortedLists(S) :
          job' = [job EXCEPT ![c].pc = "config", ![c].cells = s]
    BY <2>0
  <2> DEFINE r == [job[c] EXCEPT !.pc = "config", !.cells = s]
  <2>2. s \in Seq(CellIDs) /\ Len(s) <= CellCount /\ Len(s) > 0
    BY SortedListType
  <2>3. r \in JobState /\ r.pc = "config" /\ r.put = job[c].put /\ r.cells = s
    <3>1. job[c] \in JobState
      BY <1>0, JobType
    <3>2. r \in JobState
      BY <2>2, <3>1, Zenon DEF JobState, OnItsWay
    <3>3. QED
      BY <3>1, <3>2 DEF JobState
  <2>4. job' = [job EXCEPT ![c] = r]
    BY <2>1
  <2> HIDE DEF r
  <2>5. TypeOK'
    BY <1>0, <1>12, <2>3, <2>4, SetJob DEF ReadCells, TypeOK
  <2>6. JobInv(c)'
    BY <1>0, <1>12, <2>2, <2>3, <2>4, SetJob DEF ReadCells, SubscriptionsInv, JobInv
  <2>7. QED
    BY <1>0, <1>12, <2>3, <2>4, <2>5, <2>6, SetJob, JobMoves DEF ReadCells
<1>13. ASSUME NEW c \in Connections, ReadConfig(c)
       PROVE  SubscriptionsInv'
  <2> DEFINE r == [job[c] EXCEPT !.pc = "actions", !.period = period, !.style = 1]
  <2>1. CASE job' = [job EXCEPT ![c] = Goroutine("over")]
    <3>1. Goroutine("over") \in JobState
      BY FreshGoroutine DEF OnItsWay
    <3>2. /\ job' \in [Connections -> JobState]
          /\ job'[c] = Goroutine("over")
          /\ \A k \in Connections \ {c} : job'[k] = job[k]
      BY <1>0, <2>1, <3>1, SetJob, Zenon
    <3>3. TypeOK'
      BY <1>0, <1>13, <3>2 DEF ReadConfig, TypeOK
    <3>4. JobInv(c)' /\ job'[c].pc = "over"
      BY <3>2, FreshJobInv
    <3>5. QED
      BY <1>13, <3>2, <3>3, <3>4, JobMoves DEF ReadConfig
  <2>2. CASE Styles > 0 /\ job' = [job EXCEPT ![c].pc = "actions", ![c].period = period,
                                              ![c].style = 1]
    <3>1. job[c] \in JobState /\ period \in 0..MaxPeriod /\ 1 \in 0..Styles
      BY <1>0, <2>2, JobType DEF TypeOK
    <3>2. r \in JobState
      BY <3>1, Zenon DEF JobState, OnItsWay
    <3>3. r.pc = "actions" /\ r.put = job[c].put /\ r.cells = job[c].cells
      BY <3>1 DEF JobState
    <3>4. job' = [job EXCEPT ![c] = r]
      BY <2>2
    <3> HIDE DEF r
    <3>5. TypeOK'
      BY <1>0, <1>13, <3>2, <3>4, SetJob DEF ReadConfig, TypeOK
    <3>6. job[c].put = 0 /\ Len(job[c].cells) > 0 /\ Len(job[c].cells) <= CellCount
      BY <1>13 DEF ReadConfig, SubscriptionsInv, JobInv
    <3>7. job'[c] = r /\ \A k \in Connections \ {c} : job'[k] = job[k]
      BY <1>0, <3>2, <3>4, SetJob
    <3>8. JobInv(c)'
      BY <3>3, <3>6, <3>7 DEF JobInv
    <3>9. QED
      BY <1>13, <3>3, <3>5, <3>7, <3>8, JobMoves DEF ReadConfig
  <2>3. QED
    BY <1>13, <2>1, <2>2 DEF ReadConfig
<1>14. ASSUME NEW c \in Connections, PutAction(c)
       PROVE  SubscriptionsInv'
  <2> DEFINE i == job[c].put + 1
             pc == IF i = Len(job[c].cells) THEN "subscribe" ELSE "actions"
             r == [job[c] EXCEPT !.put = i, !.pc = pc]
             cell == <<c[1], job[c].cells[i]>>
  <2>1. /\ job[c] \in JobState /\ job[c].cells \in Seq(CellIDs)
        /\ Len(job[c].cells) \in 0..CellCount /\ job[c].put \in 0..CellCount
        /\ job[c].put < Len(job[c].cells)
    BY <1>0, <1>14, JobType DEF PutAction, SubscriptionsInv, JobInv
  <2>2. i \in 1..Len(job[c].cells) /\ i \in SubIDs /\ i \in 0..CellCount
    BY <2>1 DEF SubIDs
  <2>3. cell \in Cells
    <3>1. job[c].cells[i] \in CellIDs
      BY <2>1, <2>2, ElementOfSeq
    <3>2. c[1] \in Nodes
      BY DEF Connections
    <3>3. QED
      BY <3>1, <3>2 DEF Cells
  <2>4. r \in JobState /\ r.put = i /\ r.pc = pc /\ r.cells = job[c].cells
    <3>1. pc \in OnItsWay
      BY DEF OnItsWay
    <3> HIDE DEF pc, i
    <3>2. r \in JobState
      BY <2>1, <2>2, <3>1, Zenon DEF JobState
    <3>3. QED
      BY <2>1, <3>2 DEF JobState
  <2>5. job' = [job EXCEPT ![c] = r]
    BY <1>14 DEF PutAction, NextToPut
  <2>6. /\ actionStore' = [actionStore EXCEPT ![i] = cell]
        /\ rekeyed' = IF actionStore[i] \in {NoCell, cell} THEN rekeyed ELSE rekeyed \cup {i}
    BY <1>14 DEF PutAction
  <2>7. i = job[c].put + 1
    OBVIOUS
  <2>8. /\ pc = "subscribe" => i = Len(job[c].cells)
        /\ pc = "actions" => i # Len(job[c].cells)
        /\ pc \in {"subscribe", "actions"}
    OBVIOUS
  <2> HIDE DEF r, i, cell, pc
  <2>9. /\ actionStore' \in [SubIDs -> Cells \cup {NoCell}]
        /\ actionStore'[i] # NoCell
        /\ \A k \in SubIDs : actionStore[k] # NoCell => actionStore'[k] # NoCell
    BY <1>0, <2>2, <2>3, <2>6 DEF TypeOK
  <2>10. rekeyed' \subseteq SubIDs
    BY <1>0, <2>2, <2>6 DEF TypeOK
  <2>11. /\ job' \in [Connections -> JobState]
         /\ job'[c] = r
         /\ \A k \in Connections \ {c} : job'[k] = job[k]
    BY <1>0, <2>4, <2>5, SetJob
  <2>12. TypeOK'
    BY <1>0, <1>14, <2>9, <2>10, <2>11 DEF PutAction, TypeOK
  <2>13. \A k \in 1..i : actionStore'[k] # NoCell
    <3>1. \A k \in 1..job[c].put : k \in SubIDs /\ actionStore[k] # NoCell
      BY <1>14, <2>1 DEF PutAction, SubscriptionsInv, JobInv, SubIDs
    <3>2. \A k \in 1..i : k = i \/ k \in 1..job[c].put
      BY <2>1, <2>7
    <3>3. QED
      BY <2>9, <3>1, <3>2
  <2>14. ASSUME NEW k \in Connections
         PROVE  /\ JobInv(k)'
                /\ job'[k].pc \in {"subscribe", "open"} =>
                     \A l \in 1..Len(job'[k].cells) : actionStore'[l] # NoCell
    <3>1. CASE k = c
      <4>1. job'[k] = r
        BY <2>11, <3>1
      <4>2. CASE pc = "subscribe"
        BY <2>1, <2>4, <2>8, <2>13, <4>1, <4>2 DEF JobInv
      <4>3. CASE pc = "actions"
        BY <2>1, <2>2, <2>4, <2>8, <2>13, <4>1, <4>3 DEF JobInv
      <4>4. QED
        BY <2>8, <4>2, <4>3
    <3>2. CASE k # c
      <4>1. job'[k] = job[k]
        BY <2>11, <3>2
      <4>2. JobInv(k) /\ Len(job[k].cells) <= CellCount
        BY DEF SubscriptionsInv, JobInv
      <4>3. Len(job[k].cells) \in Nat /\ job[k].put \in 0..CellCount
        BY <1>0, JobType
      <4>4. /\ \A l \in 1..Len(job[k].cells) : l \in SubIDs
            /\ \A l \in 1..job[k].put : l \in SubIDs
        BY <4>2, <4>3 DEF SubIDs
      <4>5. QED
        BY <2>9, <4>1, <4>2, <4>4 DEF JobInv, SubscriptionsInv, ActionsComplete
    <3>3. QED
      BY <3>1, <3>2
  <2>15. ActionsComplete'
    <3>1. \A n \in Nodes : \A k \in subscribed'[n] : actionStore'[k[1]] # NoCell
      BY <1>0, <1>14, <2>9 DEF PutAction, SubscriptionsInv, ActionsComplete, TypeOK
    <3>2. QED
      BY <2>14, <3>1 DEF ActionsComplete
  <2>16. QED
    BY <1>14, <2>12, <2>14, <2>15 DEF PutAction, SubscriptionsInv
<1>15. ASSUME NEW c \in Connections, Subscribe(c)
       PROVE  SubscriptionsInv'
  <2> DEFINE r == [job[c] EXCEPT !.pc = "open"]
             new == {<<i, job[c].cells[i]>> : i \in 1..Len(job[c].cells)}
  <2>1. job[c] \in JobState /\ job[c].cells \in Seq(CellIDs) /\ c[1] \in Nodes
    BY <1>0, JobType DEF Connections
  <2>2. /\ r \in JobState /\ r.pc = "open" /\ r.put = job[c].put /\ r.cells = job[c].cells
        /\ job' = [job EXCEPT ![c] = r]
    BY <1>15, <2>1 DEF Subscribe, JobState, OnItsWay
  <2>3. Len(job[c].cells) \in 0..CellCount /\ job[c].period \in 0..MaxPeriod
    BY <1>0, JobType DEF SubscriptionsInv, JobInv
  <2>4. \A k \in new : k \in SubIDs \X CellIDs /\ actionStore[k[1]] # NoCell
    <3>1. ASSUME NEW i \in 1..Len(job[c].cells)
          PROVE  i \in SubIDs /\ job[c].cells[i] \in CellIDs /\ actionStore[i] # NoCell
      <4>1. i \in SubIDs
        BY <2>3 DEF SubIDs
      <4>2. job[c].cells[i] \in CellIDs
        BY <2>1, ElementOfSeq
      <4>3. actionStore[i] # NoCell
        BY <1>15 DEF Subscribe, SubscriptionsInv, ActionsComplete
      <4>4. QED
        BY <4>1, <4>2, <4>3
    <3>2. QED
      BY <3>1
  <2>5. subscribed' = [subscribed EXCEPT ![c[1]] = @ \cup new]
    BY <1>15 DEF Subscribe
  <2>6. reporting' = [reporting EXCEPT ![c[1]] = job[c].period]
    BY <1>15 DEF Subscribe
  <2> HIDE DEF r, new
  <2>7. /\ subscribed' \in [Nodes -> SUBSET (SubIDs \X CellIDs)]
        /\ \A n \in Nodes : \A k \in subscribed'[n] : k \in subscribed[n] \/ k \in new
    BY <1>0, <2>1, <2>4, <2>5 DEF TypeOK
  <2>8. reporting' \in [Nodes -> 0..MaxPeriod]
    BY <1>0, <2>1, <2>3, <2>6 DEF TypeOK
  <2>9. /\ job' \in [Connections -> JobState]
        /\ job'[c] = r
        /\ \A k \in Connections \ {c} : job'[k] = job[k]
    BY <1>0, <2>2, SetJob
  <2>10. TypeOK'
    BY <1>0, <1>15, <2>7, <2>8, <2>9 DEF Subscribe, TypeOK
  <2>11. actionStore' = actionStore
    BY <1>15 DEF Subscribe
  <2>12. ASSUME NEW k \in Connections
         PROVE  /\ JobInv(k)'
                /\ job'[k].pc \in {"subscribe", "open"} =>
                     \A l \in 1..Len(job'[k].cells) : actionStore'[l] # NoCell
    <3>1. CASE k = c
      BY <1>15, <2>2, <2>9, <2>11, <3>1 DEF Subscribe, SubscriptionsInv, ActionsComplete, JobInv
    <3>2. CASE k # c
      BY <2>9, <2>11, <3>2 DEF SubscriptionsInv, ActionsComplete, JobInv
    <3>3. QED
      BY <3>1, <3>2
  <2>13. ActionsComplete'
    <3>1. \A n \in Nodes : \A k \in subscribed'[n] : actionStore'[k[1]] # NoCell
      BY <2>4, <2>7, <2>11 DEF SubscriptionsInv, ActionsComplete
    <3>2. QED
      BY <2>12, <3>1 DEF ActionsComplete
  <2>14. QED
    BY <1>15, <2>10, <2>12, <2>13 DEF Subscribe, SubscriptionsInv
<1>16. ASSUME NEW c \in Connections, CreationFails(c)
       PROVE  SubscriptionsInv'
  <2>1. Goroutine("over") \in JobState
    BY FreshGoroutine DEF OnItsWay
  <2>2. /\ job' \in [Connections -> JobState]
        /\ job'[c] = Goroutine("over")
        /\ \A k \in Connections \ {c} : job'[k] = job[k]
    BY <1>0, <1>16, <2>1, SetJob, Zenon DEF CreationFails
  <2>3. TypeOK'
    BY <1>0, <1>16, <2>2 DEF CreationFails, TypeOK
  <2>4. JobInv(c)' /\ job'[c].pc = "over"
    BY <2>2, FreshJobInv
  <2>5. QED
    BY <1>16, <2>2, <2>3, <2>4, JobMoves DEF CreationFails
<1>17. ASSUME NEW c \in Connections, OpenReader(c)
       PROVE  SubscriptionsInv'
  <2>0. c[1] \in Nodes
    BY DEF Connections
  <2>1. CASE job' = [job EXCEPT ![c] = Goroutine("over")]
    <3>1. Goroutine("over") \in JobState
      BY FreshGoroutine DEF OnItsWay
    <3>2. /\ job' \in [Connections -> JobState]
          /\ job'[c] = Goroutine("over")
          /\ \A k \in Connections \ {c} : job'[k] = job[k]
      BY <1>0, <2>1, <3>1, SetJob, Zenon
    <3>3. TypeOK'
      BY <1>0, <1>17, <2>0, <3>2 DEF OpenReader, TypeOK
    <3>4. JobInv(c)' /\ job'[c].pc = "over"
      BY <3>2, FreshJobInv
    <3>5. QED
      BY <1>17, <3>2, <3>3, <3>4, JobMoves DEF OpenReader
  <2>2. CASE job[c].style < Styles /\ job' = [job EXCEPT ![c].pc = "monitor"]
    <3> DEFINE r == [job[c] EXCEPT !.pc = "monitor"]
    <3>1. /\ r \in JobState /\ r.pc = "monitor" /\ r.put = job[c].put
          /\ r.cells = job[c].cells /\ r.style = job[c].style
          /\ job' = [job EXCEPT ![c] = r]
      BY <1>0, <2>2, JobType DEF JobState
    <3> HIDE DEF r
    <3>2. /\ job' \in [Connections -> JobState]
          /\ job'[c] = r
          /\ \A k \in Connections \ {c} : job'[k] = job[k]
      BY <1>0, <3>1, SetJob
    <3>3. TypeOK'
      BY <1>0, <1>17, <2>0, <3>2 DEF OpenReader, TypeOK
    <3>4. JobInv(c)'
      BY <1>17, <2>2, <3>1, <3>2 DEF OpenReader, SubscriptionsInv, JobInv
    <3>5. QED
      BY <1>17, <3>1, <3>2, <3>3, <3>4, JobMoves DEF OpenReader
  <2>3. QED
    BY <1>17, <2>1, <2>2 DEF OpenReader
<1>18. ASSUME NEW c \in Connections, StartReturns(c)
       PROVE  SubscriptionsInv'
  <2> DEFINE i == job[c].style + 1
             r == [job[c] EXCEPT !.pc = "actions", !.style = i, !.put = 0]
  <2>1. /\ job[c] \in JobState /\ i \in 0..Styles /\ 0 \in 0..CellCount
        /\ Len(job[c].cells) > 0 /\ Len(job[c].cells) <= CellCount
    BY <1>0, <1>18, JobType DEF StartReturns, SubscriptionsInv, JobInv
  <2>2. job' = [job EXCEPT ![c] = r]
    BY <1>18 DEF StartReturns
  <2> HIDE DEF i
  <2>3. r \in JobState /\ r.pc = "actions" /\ r.put = 0 /\ r.cells = job[c].cells
    <3>1. r \in JobState
      BY <2>1, Zenon DEF JobState, OnItsWay
    <3>2. QED
      BY <2>1, <3>1 DEF JobState
  <2> HIDE DEF r
  <2>4. /\ job' \in [Connections -> JobState]
        /\ job'[c] = r
        /\ \A k \in Connections \ {c} : job'[k] = job[k]
    BY <1>0, <2>2, <2>3, SetJob
  <2>5. TypeOK'
    BY <1>0, <1>18, <2>4 DEF StartReturns, TypeOK
  <2>6. JobInv(c)'
    <3>1. 1..0 = {} /\ 0 < Len(job[c].cells)
      BY <1>0, <2>1, JobType
    <3>2. QED
      BY <2>1, <2>3, <2>4, <3>1 DEF JobInv
  <2>7. QED
    BY <1>18, <2>3, <2>4, <2>5, <2>6, JobMoves DEF StartReturns
<1>19. ASSUME NEW n \in Nodes, NEW i \in SubIDs, NEW c \in CellIDs, NEW named \in BOOLEAN,
              Report(n, i, c, named)
       PROVE  SubscriptionsInv'
  <2> DEFINE filed == IF named THEN <<n, c>> ELSE actionStore[i]
  <2>1. <<n, c>> \in Cells /\ filed \in Cells
    <3>1. <<n, c>> \in Cells
      BY DEF Cells
    <3>2. CASE named
      BY <3>1, <3>2
    <3>3. CASE ~named
      <4>1. actionStore[i] # NoCell
        BY <1>19, <3>3, Zenon DEF Report
      <4>2. actionStore[i] \in Cells
        BY <1>0, <4>1 DEF TypeOK
      <4>3. filed = actionStore[i]
        BY <3>3, Zenon
      <4>4. QED
        BY <3>1, <4>2, <4>3
    <3>4. QED
      BY <3>1, <3>2, <3>3
  <2>2. /\ entries' = {e \in entries : e.node # n \/ e.cell # filed}
                      \cup {[node |-> n, cell |-> filed, about |-> <<n, c>>]}
        /\ late' \in {late, late \cup {filed}}
    <3> HIDE DEF filed
    <3>1. /\ entries' = {e \in entries : e.node # n \/ e.cell # filed}
                        \cup {[node |-> n, cell |-> filed, about |-> <<n, c>>]}
          /\ late' = IF watcher = "deleting" /\ n = removing THEN late \cup {filed} ELSE late
      BY <1>19, Zenon DEF Report, PutEntry, filed
    <3>2. QED
      BY <3>1
  <2> HIDE DEF filed
  <2>3. /\ entries' \subseteq [node : Nodes, cell : Cells, about : Cells]
        /\ late' \subseteq Cells
    <3>1. /\ entries \subseteq [node : Nodes, cell : Cells, about : Cells]
          /\ late \subseteq Cells
      BY <1>0 DEF TypeOK
    <3>2. [node |-> n, cell |-> filed, about |-> <<n, c>>]
            \in [node : Nodes, cell : Cells, about : Cells]
      BY <2>1
    <3>3. late' \subseteq Cells
      BY <2>1, <2>2, <3>1
    <3>4. QED
      BY <2>2, <3>1, <3>2, <3>3, Zenon
  <2>4. TypeOK'
    BY <1>0, <1>19, <2>3 DEF Report, TypeOK
  <2>5. QED
    BY <1>0, <1>19, <2>4, SameJobs DEF Report, WatcherInv
<1>20. CASE ConfigEvent
  <2>1. streams' \subseteq streams /\ configWatcher' \in {"watching", "returned"}
    BY <1>20 DEF ConfigEvent
  <2>2. TypeOK'
    BY <1>0, <1>20, <2>1 DEF ConfigEvent, TypeOK
  <2>3. QED
    BY <1>0, <1>20, <2>2, SameJobs DEF ConfigEvent, WatcherInv
<1>21. CASE Restart
  <2>1. events' \in Seq(Event)
    BY <1>0, <1>21, PresentType, ReplaysAreEvents DEF Restart, WatcherInv
  <2>2. /\ job' \in [Connections -> JobState]
        /\ \A c \in Connections : job'[c] = Goroutine("idle")
    BY <1>21, FreshGoroutine DEF Restart
  <2>3. TypeOK'
    <3>1. /\ actionStore' \in [SubIDs -> Cells \cup {NoCell}]
          /\ subscribed' \in [Nodes -> SUBSET (SubIDs \X CellIDs)]
      BY <1>21 DEF Restart
    <3>2. /\ connected' \subseteq Nodes
          /\ connection' \in [Nodes -> 0..MaxConnections]
          /\ period' \in 1..MaxPeriod
          /\ reporting' \in [Nodes -> 0..MaxPeriod]
      BY <1>0, <1>21 DEF Restart, TypeOK
    <3>3. /\ configChanged' \in BOOLEAN
          /\ watcher' \in {"watching", "listing", "deleting", "returned"}
          /\ removing' \in Nodes \cup {NoNode}
          /\ listed' \subseteq CellIDs /\ todo' \subseteq CellIDs /\ late' \subseteq Cells
          /\ configWatcher' \in {"watching", "returned"}
          /\ rekeyed' \subseteq SubIDs
          /\ streams' \subseteq Nodes
          /\ monitors' \subseteq Connections
          /\ entries' \subseteq [node : Nodes, cell : Cells, about : Cells]
      BY <1>21 DEF Restart
    <3>4. QED
      BY <2>1, <2>2, <3>1, <3>2, <3>3 DEF TypeOK
  <2>4. \A c \in Connections : JobInv(c)' /\ job'[c].pc = "idle"
    BY <2>2, FreshJobInv
  <2>5. ActionsComplete'
    BY <1>21, <2>4 DEF Restart, ActionsComplete
  <2>6. QED
    BY <1>0, <1>21, <2>3, <2>4, <2>5 DEF Restart, SubscriptionsInv, WatcherInv
<1>22. CASE UNCHANGED vars
  BY <1>22 DEF vars, SubscriptionsInv, TypeOK, ActionsComplete, JobInv
<1>23. QED
  BY <1>1, <1>2, <1>3, <1>6, <1>7, <1>8, <1>9, <1>10, <1>11, <1>12, <1>13, <1>14, <1>15,
     <1>16, <1>17, <1>18, <1>19, <1>20, <1>21, <1>22 DEF Next

-----------------------------------------------------------------------------
\* The invariant holds for any nodes, connections, cells, styles and restarts.
THEOREM SubscriptionsInvariant == Spec => []SubscriptionsInv
<1>1. QED
  BY SubscriptionsInit, SubscriptionsStep, PTL DEF Spec

\* Every variable of the manager keeps its type.
THEOREM SubscriptionsTypeCorrect == Spec => []TypeOK
<1>1. SubscriptionsInv => TypeOK
  BY DEF SubscriptionsInv
<1>2. QED
  BY <1>1, SubscriptionsInvariant, PTL

\* No monitor fails to find the action definition of its own subscription
\* (createSubscriptionActions stores all of them before Subscribe).
THEOREM SubscriptionsActionsComplete == Spec => []ActionsComplete
<1>1. SubscriptionsInv => ActionsComplete
  BY DEF SubscriptionsInv
<1>2. QED
  BY <1>1, SubscriptionsInvariant, PTL

-----------------------------------------------------------------------------
(* Where measurements are filed *)

\* SubID i has the definition of the cell v, unless it was re-keyed.
Keyed(i, v) == i \in rekeyed \/ actionStore[i] = v

\* What goroutines have stored and nodes were told is what the action store has,
\* but for re-keyed SubIDs.
KeysInv ==
  /\ \A n \in Nodes : \A k \in subscribed[n] : Keyed(k[1], <<n, k[2]>>)
  /\ \A c \in Connections :
       job[c].pc \in {"actions", "subscribe"} =>
         \A i \in 1..job[c].put : Keyed(i, <<c[1], job[c].cells[i]>>)
  /\ \A c \in Connections :
       job[c].pc = "subscribe" => job[c].put = Len(job[c].cells)

\* The cells a goroutine works on are cells of its node.
LEMMA JobCell ==
  ASSUME SubscriptionsInv, NEW c \in Connections, NEW i \in 1..Len(job[c].cells)
  PROVE  i \in SubIDs /\ <<c[1], job[c].cells[i]>> \in Cells
<1>1. job[c].cells \in Seq(CellIDs) /\ Len(job[c].cells) \in 0..CellCount
  BY JobType DEF SubscriptionsInv, JobInv
<1>2. job[c].cells[i] \in CellIDs
  BY <1>1, ElementOfSeq
<1>3. QED
  BY <1>1, <1>2 DEF SubIDs, Cells, Connections

\* Storing a definition re-keys a SubID that had another one, and no other.
LEMMA PutKeeps ==
  ASSUME SubscriptionsInv, NEW c \in Connections, PutAction(c),
         NEW i, i = job[c].put + 1
  PROVE  /\ i \in 1..Len(job[c].cells)
         /\ actionStore'[i] = <<c[1], job[c].cells[i]>>
         /\ \A j \in SubIDs, v \in Cells :
              Keyed(j, v) => j \in rekeyed' \/ actionStore'[j] = v
<1> DEFINE cell == <<c[1], job[c].cells[i]>>
<1>1. TypeOK /\ job[c].put < Len(job[c].cells)
  BY DEF PutAction, SubscriptionsInv, JobInv
<1>2. i \in 1..Len(job[c].cells)
  BY <1>1, JobType
<1>3. i \in SubIDs /\ cell \in Cells
  BY <1>2, JobCell
<1>4. /\ actionStore' = [actionStore EXCEPT ![i] = cell]
      /\ rekeyed' = IF actionStore[i] \in {NoCell, cell} THEN rekeyed ELSE rekeyed \cup {i}
  BY DEF PutAction
<1> HIDE DEF cell
<1>5. actionStore \in [SubIDs -> Cells \cup {NoCell}]
  BY <1>1 DEF TypeOK
<1>6. actionStore'[i] = cell /\ \A j \in SubIDs \ {i} : actionStore'[j] = actionStore[j]
  BY <1>3, <1>4, <1>5
<1>7. ASSUME NEW j \in SubIDs, NEW v \in Cells, Keyed(j, v)
      PROVE  j \in rekeyed' \/ actionStore'[j] = v
  <2>1. rekeyed \subseteq rekeyed'
    BY <1>4
  <2>2. CASE j = i
    BY <1>4, <1>6, <1>7, <2>1, <2>2 DEF Keyed
  <2>3. CASE j # i
    BY <1>6, <1>7, <2>1, <2>3 DEF Keyed
  <2>4. QED
    BY <2>2, <2>3
<1>8. QED
  BY <1>2, <1>6, <1>7 DEF cell

\* Steps that leave definitions and subscriptions alone, and in which a goroutine
\* that has stored definitions is one that had stored them before.
LEMMA SameKeys ==
  ASSUME KeysInv, UNCHANGED <<actionStore, rekeyed, subscribed>>,
         \A c \in Connections :
           \/ job'[c] = job[c]
           \/ job'[c].pc \notin {"actions", "subscribe"}
           \/ job'[c].pc = "actions" /\ 1..job'[c].put = {}
  PROVE  KeysInv'
<1>1. ASSUME NEW c \in Connections, job'[c].pc \in {"actions", "subscribe"}
      PROVE  /\ \A i \in 1..job'[c].put :
                  i \in rekeyed' \/ actionStore'[i] = <<c[1], job'[c].cells[i]>>
             /\ job'[c].pc = "subscribe" => job'[c].put = Len(job'[c].cells)
  BY <1>1 DEF KeysInv, Keyed
<1>2. \A n \in Nodes : \A k \in subscribed'[n] :
        k[1] \in rekeyed' \/ actionStore'[k[1]] = <<n, k[2]>>
  BY DEF KeysInv, Keyed
<1>3. QED
  BY <1>1, <1>2 DEF KeysInv, Keyed

\* What the steps of goroutines other than PutAction and Subscribe do to them.
LEMMA JobSteps ==
  ASSUME SubscriptionsInv, [Next]_vars
  PROVE  \/ \E c \in Connections : PutAction(c) \/ Subscribe(c)
         \/ Restart
         \/ /\ UNCHANGED <<actionStore, rekeyed, subscribed>>
            /\ \A c \in Connections :
                 \/ job'[c] = job[c]
                 \/ job'[c].pc \notin {"actions", "subscribe"}
                 \/ job'[c].pc = "actions" /\ 1..job'[c].put = {}
<1> DEFINE Same == UNCHANGED <<actionStore, rekeyed, subscribed>>
           Moved(c) == \/ job'[c] = job[c]
                       \/ job'[c].pc \notin {"actions", "subscribe"}
                       \/ job'[c].pc = "actions" /\ 1..job'[c].put = {}
<1>0. TypeOK /\ 1..0 = {}
  BY DEF SubscriptionsInv
<1>1. CASE UNCHANGED <<job, actionStore, rekeyed, subscribed>>
  BY <1>1
<1>2. ASSUME NEW c \in Connections, NEW r \in JobState, Same, job' = [job EXCEPT ![c] = r],
             \/ r.pc \notin {"actions", "subscribe"}
             \/ r.pc = "actions" /\ r.put = 0
      PROVE  Same /\ \A k \in Connections : Moved(k)
  BY <1>0, <1>2, SetJob
<1>3. CASE DropAdded \/ SpawnJob
  <2>1. events # <<>> /\ Same
    BY <1>3 DEF DropAdded, SpawnJob
  <2>2. PICK c \in Connections : c = Head(events).of
    <3>1. events \in Seq(Event)
      BY <1>0 DEF TypeOK
    <3>2. Head(events) \in Event
      BY <2>1, <3>1, HeadTailProperties
    <3>3. QED
      BY <3>2 DEF Event
  <2>3. PICK pc \in {"over", "aspects"} : job' = [job EXCEPT ![c] = Goroutine(pc)]
    BY <1>3, <2>2, Zenon DEF DropAdded, SpawnJob
  <2>4. Goroutine(pc) \in JobState /\ Goroutine(pc).pc \notin {"actions", "subscribe"}
    BY FreshGoroutine DEF OnItsWay
  <2> DEFINE r == Goroutine(pc)
  <2>5. r \in JobState /\ r.pc \notin {"actions", "subscribe"} /\ job' = [job EXCEPT ![c] = r]
    BY <2>3, <2>4
  <2> HIDE DEF r
  <2>6. QED
    BY <1>2, <2>1, <2>5
<1>4. ASSUME NEW c \in Connections, ReadAspects(c)
      PROVE  Same /\ \A k \in Connections : Moved(k)
  <2> DEFINE r == [job[c] EXCEPT !.pc = "cells"]
  <2>1. r \in JobState /\ r.pc = "cells" /\ job' = [job EXCEPT ![c] = r] /\ Same
    BY <1>0, <1>4, JobType DEF ReadAspects, JobState, OnItsWay
  <2> HIDE DEF r
  <2>2. QED
    BY <1>2, <2>1
<1>5. ASSUME NEW c \in Connections, ReadCells(c)
      PROVE  Same /\ \A k \in Connections : Moved(k)
  <2>1. Same /\ job'[c].pc = "config" /\ \A k \in Connections \ {c} : job'[k] = job[k]
    BY <1>0, <1>5, JobType DEF ReadCells, JobState, TypeOK
  <2>2. QED
    BY <2>1
<1>6. ASSUME NEW c \in Connections, ReadConfig(c)
      PROVE  Same /\ \A k \in Connections : Moved(k)
  <2>1. Same /\ \A k \in Connections \ {c} : job'[k] = job[k]
    <3>1. Same
      BY <1>6 DEF ReadConfig
    <3>2. CASE job' = [job EXCEPT ![c] = Goroutine("over")]
      BY <1>0, <3>1, <3>2 DEF TypeOK
    <3>3. CASE job' = [job EXCEPT ![c].pc = "actions", ![c].period = period, ![c].style = 1]
      BY <1>0, <3>1, <3>3 DEF TypeOK
    <3>4. QED
      BY <1>6, <3>2, <3>3 DEF ReadConfig
  <2>2. job[c] \in JobState /\ job[c].put = 0
    BY <1>0, <1>6, JobType DEF ReadConfig, SubscriptionsInv, JobInv
  <2>3. job'[c].pc = "over" \/ (job'[c].pc = "actions" /\ job'[c].put = 0)
    <3>1. CASE job' = [job EXCEPT ![c] = Goroutine("over")]
      BY <1>0, <3>1 DEF TypeOK
    <3>2. CASE job' = [job EXCEPT ![c].pc = "actions", ![c].period = period, ![c].style = 1]
      BY <1>0, <2>2, <3>2 DEF TypeOK, JobState
    <3>3. QED
      BY <1>6, <3>1, <3>2 DEF ReadConfig
  <2>4. QED
    BY <1>0, <2>1, <2>3
<1>7. ASSUME NEW c \in Connections, CreationFails(c)
      PROVE  Same /\ \A k \in Connections : Moved(k)
  <2>1. Same /\ job'[c].pc = "over" /\ \A k \in Connections \ {c} : job'[k] = job[k]
    BY <1>0, <1>7 DEF CreationFails, TypeOK
  <2>2. QED
    BY <2>1
<1>8. ASSUME NEW c \in Connections, OpenReader(c)
      PROVE  Same /\ \A k \in Connections : Moved(k)
  <2>1. job[c] \in JobState
    BY <1>0, JobType
  <2>2. /\ Same /\ job'[c].pc \in {"over", "monitor"}
        /\ \A k \in Connections \ {c} : job'[k] = job[k]
    BY <1>0, <1>8, <2>1 DEF OpenReader, TypeOK, JobState
  <2>3. QED
    BY <2>2
<1>9. ASSUME NEW c \in Connections, StartReturns(c)
      PROVE  Same /\ \A k \in Connections : Moved(k)
  <2>1. job[c] \in JobState
    BY <1>0, JobType
  <2>2. /\ Same /\ job'[c].pc = "actions" /\ job'[c].put = 0
        /\ \A k \in Connections \ {c} : job'[k] = job[k]
    BY <1>0, <1>9, <2>1 DEF StartReturns, TypeOK, JobState
  <2>3. QED
    BY <1>0, <2>2
<1> HIDE DEF Same, Moved
<1>10. CASE \/ \E n \in Nodes : Connect(n) \/ Disconnect(n)
            \/ ChangePeriod \/ HandleRemoved \/ ListCells \/ WatcherReturns \/ ConfigEvent
            \/ \E c \in CellIDs : DeleteEntry(c)
            \/ \E n \in Nodes : \E i \in SubIDs : \E c \in CellIDs : \E named \in BOOLEAN :
                 Report(n, i, c, named)
            \/ UNCHANGED vars
  BY <1>1, <1>10 DEF Connect, Disconnect, ChangePeriod, HandleRemoved, ListCells,
     WatcherReturns, ConfigEvent, DeleteEntry, Report, vars
<1>11. CASE Same /\ \A k \in Connections : Moved(k)
  BY <1>11 DEF Same, Moved
<1>12. QED
  BY <1>3, <1>4, <1>5, <1>6, <1>7, <1>8, <1>9, <1>10, <1>11 DEF Next

LEMMA KeysStep == SubscriptionsInv /\ KeysInv /\ [Next]_vars => KeysInv'
<1> SUFFICES ASSUME SubscriptionsInv, KeysInv, [Next]_vars
             PROVE  KeysInv'
  OBVIOUS
<1>0. TypeOK
  BY DEF SubscriptionsInv
<1>1. ASSUME NEW c \in Connections, PutAction(c)
      PROVE  KeysInv'
  <2>0. PICK i : i = job[c].put + 1
    OBVIOUS
  <2>1. /\ i \in 1..Len(job[c].cells)
        /\ actionStore'[i] = <<c[1], job[c].cells[i]>>
        /\ \A j \in SubIDs, v \in Cells :
             Keyed(j, v) => j \in rekeyed' \/ actionStore'[j] = v
    BY <1>1, <2>0, PutKeeps
  <2>2. /\ job[c] \in JobState /\ job[c].pc = "actions"
        /\ job[c].put \in Nat /\ Len(job[c].cells) \in Nat
    BY <1>0, <1>1, JobType DEF PutAction
  <2>3. /\ subscribed' = subscribed
        /\ job' = [job EXCEPT ![c].put = i,
                              ![c].pc = IF i = Len(job[c].cells) THEN "subscribe" ELSE "actions"]
    BY <1>1, <2>0 DEF PutAction, NextToPut
  <2>4. /\ \A k \in Connections \ {c} : job'[k] = job[k]
        /\ job'[c].put = i /\ job'[c].cells = job[c].cells
        /\ job'[c].pc = "subscribe" => i = Len(job[c].cells)
    BY <1>0, <2>2, <2>3 DEF TypeOK, JobState
  <2>5. ASSUME NEW n \in Nodes, NEW k \in subscribed'[n]
        PROVE  Keyed(k[1], <<n, k[2]>>)'
    <3>1. k \in SubIDs \X CellIDs /\ Keyed(k[1], <<n, k[2]>>)
      BY <1>0, <2>3, <2>5 DEF KeysInv, TypeOK
    <3>2. k[1] \in SubIDs /\ <<n, k[2]>> \in Cells
      BY <3>1 DEF Cells
    <3>3. QED
      BY <2>1, <3>1, <3>2 DEF Keyed
  <2>6. ASSUME NEW d \in Connections, job'[d].pc \in {"actions", "subscribe"}
        PROVE  /\ \A j \in 1..job'[d].put :
                    j \in rekeyed' \/ actionStore'[j] = <<d[1], job'[d].cells[j]>>
               /\ job'[d].pc = "subscribe" => job'[d].put = Len(job'[d].cells)
    <3>1. job'[d].cells = job[d].cells
      BY <2>4
    <3>2. ASSUME NEW j \in 1..job[d].put, job[d].pc \in {"actions", "subscribe"}
          PROVE  j \in rekeyed' \/ actionStore'[j] = <<d[1], job[d].cells[j]>>
      <4>1. j \in 1..Len(job[d].cells)
        <5>1. job[d].put \in Nat /\ Len(job[d].cells) \in Nat
          BY <1>0, JobType
        <5>2. job[d].put <= Len(job[d].cells)
          BY <3>2, <5>1 DEF KeysInv, SubscriptionsInv, JobInv
        <5>3. QED
          BY <5>1, <5>2
      <4>2. j \in SubIDs /\ <<d[1], job[d].cells[j]>> \in Cells
        BY <4>1, JobCell
      <4>3. Keyed(j, <<d[1], job[d].cells[j]>>)
        BY <3>2 DEF KeysInv
      <4>4. QED
        BY <2>1, <4>2, <4>3
    <3>3. CASE d = c
      <4>1. ASSUME NEW j \in 1..job'[d].put
            PROVE  j = i \/ j \in 1..job[d].put
        BY <2>0, <2>2, <2>4, <3>3
      <4>2. QED
        BY <2>1, <2>2, <2>4, <3>1, <3>2, <3>3, <4>1
    <3>4. CASE d # c
      <4>1. job'[d] = job[d]
        BY <2>4, <3>4
      <4>2. QED
        BY <2>6, <3>2, <4>1 DEF KeysInv
    <3>5. QED
      BY <3>3, <3>4
  <2>7. QED
    BY <2>5, <2>6 DEF KeysInv, Keyed
<1>2. ASSUME NEW c \in Connections, Subscribe(c)
      PROVE  KeysInv'
  <2> DEFINE new == {<<i, job[c].cells[i]>> : i \in 1..Len(job[c].cells)}
  <2>1. /\ subscribed' = [subscribed EXCEPT ![c[1]] = @ \cup new]
        /\ job' = [job EXCEPT ![c].pc = "open"]
        /\ UNCHANGED <<actionStore, rekeyed>>
    BY <1>2 DEF Subscribe
  <2>2. job[c] \in JobState /\ c[1] \in Nodes /\ job[c].pc = "subscribe"
    BY <1>0, <1>2, JobType DEF Subscribe, Connections
  <2>3. \A k \in new : k[1] \in rekeyed \/ actionStore[k[1]] = <<c[1], k[2]>>
    <3>1. \A i \in 1..Len(job[c].cells) :
            i \in rekeyed \/ actionStore[i] = <<c[1], job[c].cells[i]>>
      BY <2>2 DEF KeysInv, Keyed
    <3>2. QED
      BY <3>1
  <2> HIDE DEF new
  <2>4. ASSUME NEW n \in Nodes, NEW k \in subscribed'[n]
        PROVE  k[1] \in rekeyed' \/ actionStore'[k[1]] = <<n, k[2]>>
    <3>1. k \in subscribed[n] \/ (n = c[1] /\ k \in new)
      BY <1>0, <2>1, <2>2, <2>4 DEF TypeOK
    <3>2. QED
      BY <2>1, <2>3, <3>1 DEF KeysInv, Keyed
  <2>5. job'[c].pc = "open" /\ \A d \in Connections \ {c} : job'[d] = job[d]
    BY <1>0, <2>1, <2>2 DEF TypeOK, JobState
  <2>6. ASSUME NEW d \in Connections, job'[d].pc \in {"actions", "subscribe"}
        PROVE  /\ \A j \in 1..job'[d].put :
                    j \in rekeyed' \/ actionStore'[j] = <<d[1], job'[d].cells[j]>>
               /\ job'[d].pc = "subscribe" => job'[d].put = Len(job'[d].cells)
    BY <2>1, <2>5, <2>6 DEF KeysInv, Keyed
  <2>7. QED
    BY <2>4, <2>6 DEF KeysInv, Keyed
<1>3. CASE Restart
  BY <1>3 DEF Restart, KeysInv
<1>4. QED
  BY <1>1, <1>2, <1>3, JobSteps, SameKeys

LEMMA KeysHold == Spec => []KeysInv
<1>1. Init => KeysInv
  BY DEF Init, KeysInv
<1>2. QED
  BY <1>1, KeysStep, SubscriptionsInvariant, PTL DEF Spec

\* Only the monitors, the deletion and a restart change the measurements, and only
\* the watcher, the monitors and a restart what is known of a removal.
LEMMA EntriesChange ==
  ASSUME [Next]_vars
  PROVE  \/ UNCHANGED <<entries, watcher, removing, listed, todo, late>>
         \/ HandleRemoved \/ ListCells \/ WatcherReturns
         \/ \E c \in CellIDs : DeleteEntry(c)
         \/ \E n \in Nodes : \E i \in SubIDs : \E c \in CellIDs : \E named \in BOOLEAN :
              Report(n, i, c, named)
         \/ Restart
BY DEF Next, vars, Connect, Disconnect, ChangePeriod, DropAdded, SpawnJob, ReadAspects,
   ReadCells, ReadConfig, PutAction, Subscribe, CreationFails, OpenReader, StartReturns,
   ConfigEvent

\* SubIDs are places in the list of one subscription, and the action store has one
\* definition per SubID (createSubscriptionActions): a measurement goes under a
\* cell it was not taken at only if its SubID was re-keyed by a later subscription.
THEOREM SubscriptionsMisfiledOnlyIfRekeyed == Spec => MisfiledOnlyIfRekeyed
<1> DEFINE Filed ==
      \A e \in entries' \ entries : e.cell # e.about =>
        \E i \in rekeyed : <<i, e.about[2]>> \in subscribed[e.node] /\ actionStore[i] = e.cell
<1>1. SubscriptionsInv /\ KeysInv /\ [Next]_vars => [Filed]_vars
  <2> SUFFICES ASSUME SubscriptionsInv, KeysInv, [Next]_vars,
                      NEW e \in entries', e \notin entries, e.cell # e.about
               PROVE  \E i \in rekeyed : /\ <<i, e.about[2]>> \in subscribed[e.node]
                                         /\ actionStore[i] = e.cell
    OBVIOUS
  <2>1. PICK n \in Nodes, i \in SubIDs, c \in CellIDs, named \in BOOLEAN :
          Report(n, i, c, named)
    BY EntriesChange DEF HandleRemoved, ListCells, WatcherReturns, DeleteEntry, Restart
  <2> DEFINE filed == IF named THEN <<n, c>> ELSE actionStore[i]
             put == [node |-> n, cell |-> filed, about |-> <<n, c>>]
  <2>2. entries' = {f \in entries : f.node # n \/ f.cell # filed} \cup {put}
    BY <2>1, Zenon DEF Report, PutEntry
  <2>3. e = put
    BY <2>2
  <2>4. e.node = n /\ e.cell = filed /\ e.about = <<n, c>>
    BY <2>3
  <2>5. e.cell = actionStore[i]
    BY <2>4
  <2>6. <<i, c>> \in subscribed[n]
    BY <2>1 DEF Report
  <2>7. i \in rekeyed \/ actionStore[i] = <<n, c>>
    BY <2>6 DEF KeysInv, Keyed
  <2>8. i \in rekeyed
    BY <2>4, <2>5, <2>7
  <2>9. QED
    BY <2>4, <2>5, <2>6, <2>8
<1>2. QED
  BY <1>1, SubscriptionsInvariant, KeysHold, PTL DEF Spec, MisfiledOnlyIfRekeyed

-----------------------------------------------------------------------------
(* The removal of a node *)

\* While the removal of a node is handled, what is under its cells whose entry was
\* deleted has been put there since.
RemovalInv ==
  watcher = "deleting" =>
    \A e \in entries :
      e.node = removing /\ e.cell \in {removing} \X (listed \ todo) => e.cell \in late

LEMMA RemovalStep == SubscriptionsInv /\ RemovalInv /\ [Next]_vars => RemovalInv'
<1> SUFFICES ASSUME SubscriptionsInv, RemovalInv, [Next]_vars, watcher' = "deleting",
                    NEW e \in entries', e.node = removing',
                    NEW x \in listed' \ todo', e.cell = <<removing', x>>
             PROVE  e.cell \in late'
  BY DEF RemovalInv
<1>1. CASE UNCHANGED <<entries, watcher, removing, listed, todo, late>>
  BY <1>1 DEF RemovalInv
<1>2. CASE HandleRemoved \/ ListCells \/ WatcherReturns \/ Restart
  BY <1>2 DEF HandleRemoved, ListCells, WatcherReturns, Restart
<1>3. ASSUME NEW c \in CellIDs, DeleteEntry(c)
      PROVE  e.cell \in late'
  <2>1. /\ todo # {c} /\ watcher = "deleting"
        /\ todo' = todo \ {c} /\ late' = late \ {<<removing, c>>}
        /\ UNCHANGED <<removing, listed>>
        /\ e \in entries /\ e.cell # <<removing, c>>
    BY <1>3 DEF DeleteEntry, NextToDelete
  <2>2. x # c /\ x \in listed \ todo
    BY <2>1
  <2>3. QED
    BY <2>1, <2>2 DEF RemovalInv
<1>4. ASSUME NEW n \in Nodes, NEW i \in SubIDs, NEW c \in CellIDs, NEW named \in BOOLEAN,
             Report(n, i, c, named)
      PROVE  e.cell \in late'
  <2> DEFINE filed == IF named THEN <<n, c>> ELSE actionStore[i]
             put == [node |-> n, cell |-> filed, about |-> <<n, c>>]
  <2>1. /\ entries' = {f \in entries : f.node # n \/ f.cell # filed} \cup {put}
        /\ late' = IF watcher = "deleting" /\ n = removing THEN late \cup {filed} ELSE late
        /\ UNCHANGED <<watcher, removing, listed, todo>>
    BY <1>4, Zenon DEF Report, PutEntry
  <2>2. put.node = n /\ put.cell = filed
    OBVIOUS
  <2> HIDE DEF filed, put
  <2>3. CASE e \in entries
    BY <2>1, <2>3 DEF RemovalInv
  <2>4. CASE e = put
    BY <2>1, <2>2, <2>4
  <2>5. QED
    BY <2>1, <2>3, <2>4
<1>5. QED
  BY <1>1, <1>2, <1>3, <1>4, EntriesChange

\* When the removal of a node has been handled (the REMOVED branch of
\* watchE2Connections), what is left under a cell that was listed was put there
\* after the cell's own deletion.
THEOREM SubscriptionsRemovalLeavesOnlyLate == Spec => RemovalLeavesOnlyLate
<1> DEFINE Left == watcher = "deleting" /\ watcher' = "watching" =>
                     \A e \in entries' :
                       e.node = removing /\ e.cell \in {removing} \X listed => e.cell \in late
<1>1. SubscriptionsInv /\ RemovalInv /\ [Next]_vars => [Left]_vars
  <2> SUFFICES ASSUME SubscriptionsInv, RemovalInv, [Next]_vars,
                      watcher = "deleting", watcher' = "watching",
                      NEW e \in entries', e.node = removing,
                      NEW x \in listed, e.cell = <<removing, x>>
               PROVE  e.cell \in late
    OBVIOUS
  <2>1. PICK c \in CellIDs : DeleteEntry(c)
    BY EntriesChange DEF HandleRemoved, ListCells, WatcherReturns, Report, Restart
  <2>2. todo = {c} /\ e \in entries /\ e.cell # <<removing, c>>
    BY <2>1 DEF DeleteEntry, NextToDelete
  <2>3. x \in listed \ todo
    BY <2>2
  <2>4. QED
    BY <2>2, <2>3 DEF RemovalInv
<1>2. Init => RemovalInv
  BY DEF Init, RemovalInv
<1>3. Spec => []RemovalInv
  BY <1>2, RemovalStep, SubscriptionsInvariant, PTL DEF Spec
<1>4. QED
  BY <1>1, <1>3, SubscriptionsInvariant, PTL DEF Spec, RemovalLeavesOnlyLate

-----------------------------------------------------------------------------
(* What becomes of a connection *)

\* The watcher has handled the announcement of c, and its goroutine is on its way
\* to a monitor, has started one, or has given up.
Handled(c) == job[c].pc \in OnItsWay \/ Settled(c)

\* A connection there is was announced, and the announcement is kept or handled.
Accounted(c) == c \in Present => Announced(c) \/ Handled(c)

\* Setting one goroutine leaves handled connections handled if it leaves its own so.
LEMMA HandledKept ==
  ASSUME NEW c \in Connections, \A k \in Connections \ {c} : job'[k] = job[k],
         monitors \subseteq monitors',
         job'[c].pc \in OnItsWay \cup {"over"} \/ c \in monitors',
         NEW d \in Connections, Handled(d)
  PROVE  Handled(d)'
<1>1. CASE d = c
  BY <1>1 DEF Handled, Settled
<1>2. CASE d # c
  BY <1>2 DEF Handled, Settled
<1>3. QED
  BY <1>1, <1>2

\* Where one step of a goroutine, or of the watcher on its behalf, takes it.
LEMMA GoroutineMoves ==
  ASSUME SubscriptionsInv, NEW c \in Connections,
         \/ ReadAspects(c) \/ ReadCells(c) \/ ReadConfig(c) \/ PutAction(c) \/ Subscribe(c)
         \/ CreationFails(c) \/ OpenReader(c) \/ StartReturns(c)
  PROVE  /\ \A k \in Connections \ {c} : job'[k] = job[k]
         /\ \/ job'[c].pc \in OnItsWay \cup {"over"}
            \/ OpenReader(c)
         /\ job'[c].pc # "open" \/ Subscribe(c)
<1>0. TypeOK /\ job[c] \in JobState
  BY JobType DEF SubscriptionsInv
<1>1. CASE ReadAspects(c)
  BY <1>0, <1>1 DEF ReadAspects, TypeOK, JobState, OnItsWay
<1>2. CASE ReadCells(c)
  <2>1. PICK s : job' = [job EXCEPT ![c].pc = "config", ![c].cells = s]
    BY <1>2, Zenon DEF ReadCells
  <2>2. QED
    BY <1>0, <2>1 DEF TypeOK, JobState, OnItsWay
<1>3. CASE ReadConfig(c)
  <2>1. CASE job' = [job EXCEPT ![c] = Goroutine("over")]
    BY <1>0, <2>1 DEF TypeOK, OnItsWay
  <2>2. CASE job' = [job EXCEPT ![c].pc = "actions", ![c].period = period, ![c].style = 1]
    BY <1>0, <2>2 DEF TypeOK, JobState, OnItsWay
  <2>3. QED
    BY <1>3, <2>1, <2>2 DEF ReadConfig
<1>4. CASE PutAction(c)
  <2>1. PICK i, pc : /\ job' = [job EXCEPT ![c].put = i, ![c].pc = pc]
                     /\ pc \in {"subscribe", "actions"}
    <3>1. NextToPut(c, job[c].put + 1)
      BY <1>4 DEF PutAction
    <3>2. QED
      BY <3>1, Zenon DEF NextToPut
  <2>2. QED
    BY <1>0, <2>1 DEF TypeOK, JobState, OnItsWay
<1>5. CASE Subscribe(c)
  BY <1>0, <1>5 DEF Subscribe, TypeOK, JobState, OnItsWay
<1>6. CASE CreationFails(c)
  BY <1>0, <1>6 DEF CreationFails, TypeOK, OnItsWay
<1>7. CASE OpenReader(c)
  <2>1. CASE job' = [job EXCEPT ![c] = Goroutine("over")]
    BY <1>0, <1>7, <2>1 DEF TypeOK, OnItsWay
  <2>2. CASE job' = [job EXCEPT ![c].pc = "monitor"]
    BY <1>0, <1>7, <2>2 DEF TypeOK, JobState, OnItsWay
  <2>3. QED
    BY <1>7, <2>1, <2>2 DEF OpenReader
<1>8. CASE StartReturns(c)
  BY <1>0, <1>8 DEF StartReturns, TypeOK, JobState, OnItsWay
<1>9. QED
  BY <1>1, <1>2, <1>3, <1>4, <1>5, <1>6, <1>7, <1>8

\* The other steps that concern connections.
LEMMA ConnectionSteps ==
  ASSUME [Next]_vars
  PROVE  \/ UNCHANGED <<connected, connection, events, watcher, job, monitors>>
         \/ \E n \in Nodes : Connect(n) \/ Disconnect(n)
         \/ DropAdded \/ SpawnJob \/ HandleRemoved
         \/ /\ UNCHANGED <<connected, connection, events, job, monitors>>
            /\ watcher # "returned"
         \/ /\ UNCHANGED <<connected, connection, events, watcher>>
            /\ \E c \in Connections :
                 \/ ReadAspects(c) \/ ReadCells(c) \/ ReadConfig(c) \/ PutAction(c)
                 \/ Subscribe(c) \/ CreationFails(c) \/ OpenReader(c) \/ StartReturns(c)
         \/ Restart
<1>1. CASE UNCHANGED vars \/ ChangePeriod \/ ConfigEvent
  BY <1>1 DEF vars, ChangePeriod, ConfigEvent
<1>2. CASE ListCells \/ WatcherReturns \/ \E c \in CellIDs : DeleteEntry(c)
  BY <1>2 DEF ListCells, WatcherReturns, DeleteEntry
<1>3. CASE \E n \in Nodes : \E i \in SubIDs : \E c \in CellIDs : \E named \in BOOLEAN :
             Report(n, i, c, named)
  BY <1>3 DEF Report
<1>4. ASSUME NEW c \in Connections,
             \/ ReadAspects(c) \/ ReadCells(c) \/ ReadConfig(c) \/ PutAction(c)
             \/ Subscribe(c) \/ CreationFails(c) \/ OpenReader(c) \/ StartReturns(c)
      PROVE  UNCHANGED <<connected, connection, events, watcher>>
  BY <1>4 DEF ReadAspects, ReadCells, ReadConfig, PutAction, Subscribe, CreationFails,
     OpenReader, StartReturns
<1>5. QED
  BY <1>1, <1>2, <1>3, <1>4 DEF Next

\* A fresh watch replays every connection there is.
LEMMA ReplayAnnounces ==
  ASSUME NEW C \in SUBSET Connections, IsFiniteSet(C), NEW r \in Replays(C), NEW c \in C
  PROVE  \E i \in 1..Len(r) : r[i].type = "NONE" /\ r[i].of = c
<1>1. PICK s \in Orders(C) : r = [i \in DOMAIN s |-> [type |-> "NONE", of |-> s[i]]]
  BY DEF Replays
<1>2. Cardinality(C) \in Nat
  BY FS_CardinalityType
<1>3. DOMAIN s = 1..Cardinality(C) /\ \E i \in DOMAIN s : s[i] = c
  BY DEF Orders
<1>4. Len(r) = Cardinality(C)
  BY <1>1, <1>2, <1>3, ReplaysAreEvents, LenProperties
<1>5. QED
  BY <1>1, <1>3, <1>4

\* An event at the end of the queue leaves the others in it, and is in it.
LEMMA AppendAnnounces ==
  ASSUME TypeOK, NEW e, events' = Append(events, e), NEW c \in Connections
  PROVE  /\ Announced(c) => Announced(c)'
         /\ e.type = "ADDED" /\ e.of = c => Announced(c)'
<1>1. events \in Seq(Event)
  BY DEF TypeOK
<1>2. /\ Len(events') = Len(events) + 1
      /\ Len(events) \in Nat
      /\ \A i \in 1..Len(events) : events'[i] = events[i]
      /\ events'[Len(events) + 1] = e
  BY <1>1
<1>3. \A i \in 1..Len(events) : i \in 1..Len(events')
  BY <1>2
<1>4. Len(events) + 1 \in 1..Len(events')
  BY <1>2
<1>5. QED
  BY <1>2, <1>3, <1>4 DEF Announced

\* Taking the first event leaves the others in the queue.
LEMMA TailAnnounces ==
  ASSUME TypeOK, events # <<>>, events' = Tail(events), NEW c \in Connections, Announced(c),
         ~(Head(events).type \in {"ADDED", "NONE"} /\ Head(events).of = c)
  PROVE  Announced(c)'
<1>1. events \in Seq(Event)
  BY DEF TypeOK
<1>2. PICK i \in 1..Len(events) :
        events[i].type \in {"ADDED", "NONE"} /\ events[i].of = c
  BY DEF Announced
<1>3. Head(events) = events[1]
  BY <1>1
<1>4. i # 1
  BY <1>2, <1>3
<1>5. Len(Tail(events)) = Len(events) - 1 /\ Len(events) \in Nat
  BY <1>1
<1>6. i - 1 \in 1..Len(Tail(events))
  BY <1>4, <1>5
<1>7. Tail(events)[i - 1] = events[i]
  BY <1>1, <1>2, <1>4, <1>5, <1>6
<1>8. QED
  BY <1>2, <1>6, <1>7 DEF Announced

\* A goroutine started for, or instead of, the announcement taken.
LEMMA AnnouncementTaken ==
  ASSUME SubscriptionsInv, NEW c \in Connections, Announced(c) \/ Handled(c),
         DropAdded \/ SpawnJob
  PROVE  Announced(c)' \/ Handled(c)'
<1>1. TypeOK /\ events # <<>> /\ events' = Tail(events) /\ monitors' = monitors
  BY DEF SubscriptionsInv, DropAdded, SpawnJob
<1>2. PICK d \in Connections : d = Head(events).of
  <2>1. events \in Seq(Event)
    BY <1>1 DEF TypeOK
  <2>2. Head(events) \in Event
    BY <1>1, <2>1, HeadTailProperties
  <2>3. QED
    BY <2>2 DEF Event
<1>3. PICK pc \in {"over", "aspects"} : job' = [job EXCEPT ![d] = Goroutine(pc)]
  BY <1>2, Zenon DEF DropAdded, SpawnJob
<1>4. job'[d].pc = pc /\ \A k \in Connections \ {d} : job'[k] = job[k]
  BY <1>1, <1>3 DEF TypeOK
<1>5. job'[d].pc \in OnItsWay \cup {"over"}
  BY <1>4 DEF OnItsWay
<1>6. Handled(d)' /\ (Handled(c) => Handled(c)')
  BY <1>1, <1>4, <1>5, HandledKept DEF Handled, Settled
<1>7. CASE d = c
  BY <1>6, <1>7
<1>8. CASE d # c
  BY <1>1, <1>2, <1>6, <1>8, TailAnnounces
<1>9. QED
  BY <1>7, <1>8

LEMMA AccountedStep ==
  ASSUME SubscriptionsInv, [Next]_vars, NEW c \in Connections, Accounted(c)
  PROVE  Accounted(c)'
<1> SUFFICES ASSUME c \in Present'
             PROVE  Announced(c)' \/ Handled(c)'
  BY DEF Accounted
<1>0. TypeOK
  BY DEF SubscriptionsInv
<1>1. CASE UNCHANGED <<connected, connection, events, job, monitors>>
  BY <1>1 DEF Accounted, Present, Announced, Handled, Settled
<1>2. ASSUME NEW n \in Nodes, Connect(n)
      PROVE  Announced(c)' \/ Handled(c)'
  <2> DEFINE e == [type |-> "ADDED", of |-> <<n, connection[n] + 1>>]
  <2>1. /\ e.type = "ADDED" /\ e.of = <<n, connection[n] + 1>> /\ events' = Append(events, e)
        /\ connected' = connected \cup {n}
        /\ connection' = [connection EXCEPT ![n] = @ + 1]
        /\ UNCHANGED <<job, monitors>>
    BY <1>2 DEF Connect
  <2> HIDE DEF e
  <2>2. PICK m \in connected' : c = <<m, connection'[m]>>
    BY DEF Present
  <2>3. CASE m = n
    <3>1. c = e.of
      BY <1>0, <2>1, <2>2, <2>3 DEF TypeOK
    <3>2. QED
      BY <1>0, <2>1, <3>1, AppendAnnounces
  <2>4. CASE m # n
    <3>1. m \in connected /\ connection'[m] = connection[m]
      BY <1>0, <2>1, <2>4 DEF TypeOK
    <3>2. c \in Present
      BY <2>2, <3>1 DEF Present
    <3>3. Handled(c) => Handled(c)'
      BY <2>1 DEF Handled, Settled
    <3>4. QED
      BY <1>0, <2>1, <3>2, <3>3, AppendAnnounces DEF Accounted
  <2>5. QED
    BY <2>3, <2>4
<1>3. ASSUME NEW n \in Nodes, Disconnect(n)
      PROVE  Announced(c)' \/ Handled(c)'
  <2>1. c \in Present
    BY <1>3 DEF Disconnect, Present
  <2>2. Handled(c) => Handled(c)'
    BY <1>3 DEF Disconnect, Handled, Settled
  <2>3. Announced(c) => Announced(c)'
    BY <1>0, <1>3, AppendAnnounces DEF Disconnect
  <2>4. QED
    BY <2>1, <2>2, <2>3 DEF Accounted
<1>4. CASE DropAdded \/ SpawnJob
  <2>1. c \in Present
    BY <1>4 DEF DropAdded, SpawnJob, Present
  <2>2. QED
    BY <1>4, <2>1, AnnouncementTaken DEF Accounted
<1>5. CASE HandleRemoved
  <2>1. /\ events # <<>> /\ events' = Tail(events) /\ Head(events).type = "REMOVED"
        /\ UNCHANGED <<connected, connection, job, monitors>>
    BY <1>5 DEF HandleRemoved
  <2>2. c \in Present /\ (Handled(c) => Handled(c)')
    BY <2>1 DEF Present, Handled, Settled
  <2>3. QED
    BY <1>0, <2>1, <2>2, TailAnnounces DEF Accounted
<1>6. ASSUME NEW d \in Connections, UNCHANGED <<connected, connection, events>>,
             \/ ReadAspects(d) \/ ReadCells(d) \/ ReadConfig(d) \/ PutAction(d) \/ Subscribe(d)
             \/ CreationFails(d) \/ OpenReader(d) \/ StartReturns(d)
      PROVE  Announced(c)' \/ Handled(c)'
  <2>1. c \in Present /\ (Announced(c) => Announced(c)')
    BY <1>6 DEF Present, Announced
  <2>2. /\ monitors \subseteq monitors'
        /\ OpenReader(d) => d \in monitors'
    BY <1>6 DEF ReadAspects, ReadCells, ReadConfig, PutAction, Subscribe, CreationFails,
       OpenReader, StartReturns
  <2>3. Handled(c) => Handled(c)'
    BY <1>6, <2>2, GoroutineMoves, HandledKept
  <2>4. QED
    BY <2>1, <2>3 DEF Accounted
<1>7. CASE Restart
  <2>1. Present \in SUBSET Connections /\ IsFiniteSet(Present)
    BY PresentType DEF SubscriptionsInv
  <2>2. events' \in Replays(Present) /\ c \in Present
    BY <1>7 DEF Restart, Present
  <2>3. \E i \in 1..Len(events') : events'[i].type = "NONE" /\ events'[i].of = c
    BY <2>1, <2>2, ReplayAnnounces
  <2>4. QED
    BY <2>3 DEF Announced
<1>8. QED
  BY <1>1, <1>2, <1>3, <1>4, <1>5, <1>6, <1>7, ConnectionSteps

\* No connection is forgotten (watchE2Connections), a later one of the same node no
\* more than the first, and across restarts: its event is still to be handled, its
\* goroutine is on its way to a monitor, it has had a monitor since the process
\* started, or it was given up.
THEOREM NobodyForgotten ==
  Spec => [](\A c \in Present : Announced(c) \/ job[c].pc \in OnItsWay \/ Settled(c))
<1>1. Init => \A c \in Connections : Accounted(c)
  <2> SUFFICES ASSUME Init, NEW c \in Connections, c \in Present
               PROVE  Announced(c)
    BY DEF Accounted
  <2>1. Present \in SUBSET Connections /\ IsFiniteSet(Present)
    BY SubscriptionsInit, PresentType DEF SubscriptionsInv
  <2>2. \E i \in 1..Len(events) : events[i].type = "NONE" /\ events[i].of = c
    BY <2>1, ReplayAnnounces DEF Init
  <2>3. QED
    BY <2>2 DEF Announced
<1>2. SubscriptionsInv /\ (\A c \in Connections : Accounted(c)) /\ [Next]_vars =>
        (\A c \in Connections : Accounted(c))'
  BY AccountedStep
<1>3. SubscriptionsInv /\ (\A c \in Connections : Accounted(c)) =>
        \A c \in Present : Announced(c) \/ job[c].pc \in OnItsWay \/ Settled(c)
  <2>1. SubscriptionsInv => Present \in SUBSET Connections
    BY PresentType DEF SubscriptionsInv
  <2>2. QED
    BY <2>1 DEF Accounted, Handled
<1>4. QED
  BY <1>1, <1>2, <1>3, SubscriptionsInvariant, PTL DEF Spec

-----------------------------------------------------------------------------
(* When the watchers have returned *)

\* The watcher of connections has returned, n has no monitor, and no goroutine
\* is about to start one.
Missed(n) ==
  /\ Cancelled
  /\ ~Monitored(n)
  /\ \A c \in Connections : job[c].pc = "open" => c[1] # n

LEMMA MissedStep ==
  ASSUME SubscriptionsInv, [Next]_vars, ~Restart, NEW n \in Nodes, Missed(n)
  PROVE  Missed(n)'
<1>0. watcher = "returned" /\ ~Monitored(n)
  BY DEF Missed, Cancelled
<1>1. CASE UNCHANGED <<watcher, job, monitors>>
  BY <1>1 DEF Missed, Cancelled, Monitored
<1>2. ASSUME NEW c \in Connections, watcher' = watcher,
             \/ ReadAspects(c) \/ ReadCells(c) \/ ReadConfig(c) \/ PutAction(c) \/ Subscribe(c)
             \/ CreationFails(c) \/ OpenReader(c) \/ StartReturns(c)
      PROVE  Missed(n)'
  <2>1. ~Subscribe(c)
    BY <1>0 DEF Subscribe, Cancelled
  <2>2. job'[c].pc # "open" /\ \A k \in Connections \ {c} : job'[k] = job[k]
    BY <1>2, <2>1, GoroutineMoves
  <2>3. ~Monitored(n)'
    <3>1. CASE OpenReader(c)
      <4>1. monitors' = monitors \cup {c} /\ c[1] # n
        BY <3>1 DEF OpenReader, Missed
      <4>2. QED
        BY <1>0, <4>1 DEF Monitored
    <3>2. CASE ~OpenReader(c)
      <4>1. monitors' = monitors
        BY <1>2, <3>2 DEF ReadAspects, ReadCells, ReadConfig, PutAction, Subscribe,
           CreationFails, StartReturns
      <4>2. QED
        BY <1>0, <4>1 DEF Monitored
    <3>3. QED
      BY <3>1, <3>2
  <2>4. QED
    BY <1>2, <2>2, <2>3 DEF Missed, Cancelled
<1>3. ASSUME NEW m \in Nodes, Connect(m) \/ Disconnect(m)
      PROVE  Missed(n)'
  BY <1>1, <1>3 DEF Connect, Disconnect
<1>4. ~(DropAdded \/ SpawnJob \/ HandleRemoved)
  BY <1>0 DEF DropAdded, SpawnJob, HandleRemoved
<1>5. QED
  BY <1>0, <1>1, <1>2, <1>3, <1>4, ConnectionSteps

\* A failed GetCells ends watchE2Connections for good: a node that has no monitor
\* by then, and no goroutine that has subscribed to it, gets none before the
\* process is restarted, whatever is connected, announced or tried.
THEOREM MissedUntilRestart ==
  Spec => [][\A n \in Nodes : Missed(n) /\ ~Restart => Missed(n)']_vars
<1>1. SubscriptionsInv /\ [Next]_vars =>
        [\A n \in Nodes : Missed(n) /\ ~Restart => Missed(n)']_vars
  BY MissedStep
<1>2. QED
  BY <1>1, SubscriptionsInvariant, PTL DEF Spec

\* With a stream open, every list that ChannelIDs returns starts with an empty ID.
LEMMA FirstListedIsEmpty ==
  ASSUME TypeOK, streams # {}, NEW ids \in ChannelIDs
  PROVE  DOMAIN ids \subseteq Nat \ {0} /\ 1 \in DOMAIN ids /\ ids[1] = EmptyID
<1> DEFINE c == Cardinality(streams)
           empty == [i \in 1..c |-> EmptyID]
<1>1. c \in Nat \ {0}
  <2>1. IsFiniteSet(streams)
    BY FS_Subset DEF TypeOK
  <2>2. QED
    BY <2>1, FS_CardinalityType, FS_EmptySet
<1>2. PICK s \in Orders(streams) : ids = empty \o s
  BY DEF ChannelIDs
<1> HIDE DEF c
<1>3. s \in Seq(Nodes) /\ Len(s) = c
  <2>1. s \in [1..c -> Nodes]
    BY DEF Orders, TypeOK, c
  <2>2. QED
    BY <1>1, <2>1
<1>4. empty \in Seq({EmptyID}) /\ Len(empty) = c
  <2>1. empty \in [1..c -> {EmptyID}]
    OBVIOUS
  <2>2. QED
    BY <1>1, <2>1
<1> HIDE DEF empty
<1>5. /\ Len(empty \o s) = c + c
      /\ (empty \o s)[1] = empty[1]
      /\ DOMAIN (empty \o s) = 1..(c + c)
  <2>1. empty \in Seq(Nodes \cup {EmptyID}) /\ s \in Seq(Nodes \cup {EmptyID})
    BY <1>3, <1>4
  <2>2. QED
    BY <1>1, <1>3, <1>4, <2>1
<1>6. empty[1] = EmptyID
  BY <1>1 DEF empty
<1>7. QED
  BY <1>1, <1>2, <1>5, <1>6

\* A change of period with a stream open: the first CloseStream fails.
LEMMA FirstCloseFails ==
  ASSUME TypeOK, ConfigEvent, streams # {}
  PROVE  configWatcher' = "returned" /\ streams' = streams
<1> DEFINE unknown(ids) == {i \in DOMAIN ids : ids[i] \notin streams}
           closed(ids) == {ids[i] : i \in {k \in DOMAIN ids : \A u \in unknown(ids) : k < u}}
<1>1. PICK ids \in ChannelIDs :
        /\ streams' = streams \ closed(ids)
        /\ configWatcher' = IF unknown(ids) = {} THEN "watching" ELSE "returned"
  BY DEF ConfigEvent
<1>2. DOMAIN ids \subseteq Nat \ {0} /\ 1 \in DOMAIN ids /\ ids[1] = EmptyID
  BY FirstListedIsEmpty
<1>3. 1 \in unknown(ids)
  BY <1>2 DEF TypeOK
<1>4. closed(ids) = {}
  BY <1>2, <1>3
<1>5. QED
  BY <1>1, <1>3, <1>4

\* No other step handles a change of the period or closes a stream, but for a
\* restart.
LEMMA OnlyConfigEvent ==
  ASSUME TypeOK, [Next]_vars, ~Restart, ~ConfigEvent
  PROVE  (configChanged => configChanged') /\ streams \subseteq streams'
<1>1. CASE UNCHANGED <<configChanged, streams>>
  BY <1>1
<1>2. CASE \/ DropAdded \/ SpawnJob \/ HandleRemoved \/ ListCells \/ WatcherReturns
           \/ \E c \in CellIDs : DeleteEntry(c)
  BY <1>1, <1>2 DEF DropAdded, SpawnJob, HandleRemoved, ListCells, WatcherReturns, DeleteEntry
<1>3. CASE ChangePeriod
  BY <1>3 DEF ChangePeriod
<1>4. ASSUME NEW n \in Nodes, Connect(n) \/ Disconnect(n)
      PROVE  UNCHANGED <<configChanged, streams>>
  BY <1>4 DEF Connect, Disconnect
<1>5. ASSUME NEW c \in Connections,
             \/ ReadAspects(c) \/ ReadCells(c) \/ ReadConfig(c) \/ PutAction(c)
             \/ Subscribe(c) \/ CreationFails(c) \/ StartReturns(c)
      PROVE  UNCHANGED <<configChanged, streams>>
  BY <1>5 DEF ReadAspects, ReadCells, ReadConfig, PutAction, Subscribe, CreationFails,
              StartReturns
<1>6. ASSUME NEW c \in Connections, OpenReader(c)
      PROVE  configChanged' = configChanged /\ streams \subseteq streams'
  BY <1>6 DEF OpenReader
<1>7. ASSUME NEW n \in Nodes, NEW i \in SubIDs, NEW c \in CellIDs, NEW named \in BOOLEAN,
             Report(n, i, c, named)
      PROVE  UNCHANGED <<configChanged, streams>>
  BY <1>7 DEF Report
<1>8. QED
  BY <1>1, <1>2, <1>3, <1>4, <1>5, <1>6, <1>7 DEF Next, vars

\* The first change of the report period with a subscription up ends
\* watchConfigChanges, which has closed nothing by then (Broker.ChannelIDs appends
\* to a slice that already has the length of the map, so the list begins with IDs
\* nobody has).
THEOREM PeriodChangeEndsWatcher ==
  Spec => [][configChanged /\ ~configChanged' /\ streams # {} /\ ~Restart =>
               configWatcher' = "returned" /\ streams' = streams]_vars
<1> DEFINE Ends == configChanged /\ ~configChanged' /\ streams # {} /\ ~Restart =>
                     configWatcher' = "returned" /\ streams' = streams
<1>1. TypeOK /\ [Next]_vars => [Ends]_vars
  <2> SUFFICES ASSUME TypeOK, Next, configChanged, ~configChanged', streams # {},
                      ~Restart
               PROVE  configWatcher' = "returned" /\ streams' = streams
    OBVIOUS
  <2>1. ConfigEvent
    BY OnlyConfigEvent
  <2>2. QED
    BY <2>1, FirstCloseFails
<1>2. QED
  BY <1>1, SubscriptionsTypeCorrect, PTL DEF Spec

\* No step of the manager closes a stream it has opened: with a stream open the
\* first ID it tries is not one of them, and without there is none to try.
THEOREM StreamsStayOpen ==
  Spec => [][~Restart => streams \subseteq streams']_vars
<1>1. TypeOK /\ [Next]_vars => [~Restart => streams \subseteq streams']_vars
  <2> SUFFICES ASSUME TypeOK, Next, ~Restart, streams # {}
               PROVE  streams \subseteq streams'
    OBVIOUS
  <2>1. CASE ConfigEvent
    BY <2>1, FirstCloseFails
  <2>2. CASE ~ConfigEvent
    BY <2>2, OnlyConfigEvent
  <2>3. QED
    BY <2>1, <2>2
<1>2. QED
  BY <1>1, SubscriptionsTypeCorrect, PTL DEF Spec
=============================================================================
