---------------------------- MODULE Subscriptions ----------------------------
(***************************************************************************)
(* The subscription manager: pkg/southbound/e2/subscription, with the      *)
(* stores and the topology as it sees them.                                *)
(*                                                                         *)
(*   watcher        watchE2Connections: handles topology events in order,  *)
(*                  spawns a job per connection announced, deletes the     *)
(*                  measurements of a removed node cell by cell            *)
(*   job            the goroutines of createSubscription, one for every    *)
(*                  connection announced: read the topology and the        *)
(*                  configuration, and for each report style store an      *)
(*                  action definition per cell, subscribe, open the        *)
(*                  stream, start a monitor, and stay in Monitor.Start     *)
(*   configWatcher  watchConfigChanges                                     *)
(*   monitors       the goroutines of Monitor.Start, which go on when      *)
(*                  Start has returned                                     *)
(*                                                                         *)
(* The process may die and be restarted at any moment.  Nothing it keeps   *)
(* survives; the topology and the E2 nodes do.                             *)
(*                                                                         *)
(* Abstractions.  The entities of nodes and cells in the topology come and *)
(* go between any two calls, so what a call reads is chosen at the call:   *)
(* the KPM RAN function or none, any set of cells, any number of report    *)
(* styles, or an error.  E2T derives the channel of a subscription from    *)
(* the node and the constant subscription name, so a channel is            *)
(* represented by its node.  Calls of the broker are atomic (module Broker *)
(* has their interleavings), and so is the processing of an indication up  *)
(* to its Put (module Monitor has its steps).                              *)
(***************************************************************************)
EXTENDS Naturals, Sequences, FiniteSets

CONSTANTS
  Nodes,          \* E2 nodes
  NoNode,
  CellCount,      \* most cells of a node
  NoCell,         \* no action definition under a SubID
  EmptyID,        \* the empty channel ID
  Styles,         \* most report styles of a KPM RAN function
  MaxConnections, \* bound of the model: times a node connects
  MaxPeriod       \* bound of the model: values of the report period

\* The cells of a node, in the order of CellObjectID.
CellIDs == 1..CellCount
Cells == Nodes \X CellIDs

\* A SubID is a place in the list of cells subscribed to, counted from 1.
SubIDs == 1..CellCount

\* The k-th time a node connects; every connection is a relation of its own.
Connections == Nodes \X (1..MaxConnections)

ASSUME SubscriptionsAssumption ==
  /\ IsFiniteSet(Nodes)
  /\ NoNode \notin Nodes
  /\ EmptyID \notin Nodes
  /\ CellCount \in Nat
  /\ NoCell \notin Cells
  /\ Styles \in Nat
  /\ MaxConnections \in Nat \ {0}
  /\ MaxPeriod \in Nat \ {0}

VARIABLES
  connected,      \* nodes with a control relation in the topology
  connection,     \* connection[n]: how often n has connected
  period,         \* the report period in the configuration
  reporting,      \* reporting[n]: the period of the last Subscribe n accepted
  subscribed,     \* subscribed[n]: which cell a SubID stands for in the subscriptions of n
  events,         \* topology events not yet handled
  configChanged,  \* a change of the report period is not yet handled
  watcher,        \* watchE2Connections: watching, listing, deleting, or returned
  removing,       \* the node whose REMOVED event is being handled
  listed,         \* the cells GetCells has answered for it
  todo,           \* those whose entry is still to be deleted
  late,           \* history: cells under which a monitor of it has put an entry
                  \* since the deletion began, and since their own deletion
  configWatcher,  \* watchConfigChanges: watching or returned
  job,            \* job[c]: the goroutine of createSubscription for connection c
  actionStore,    \* actionStore[i]: cell of the definition stored under SubID i
  rekeyed,        \* history: SubIDs whose definition was replaced by that of another cell
  streams,        \* channels (nodes) with a stream in the broker
  monitors,       \* connections for which a monitor was started
  entries         \* the measurement store: key (node and cell) and the cell measured

outside == <<connected, connection, period, reporting, subscribed>>
removal == <<watcher, removing, listed, todo, late>>
stores == <<actionStore, rekeyed, streams, monitors, entries>>
vars == <<outside, events, configChanged, removal, configWatcher, job, stores>>

Event == [type : {"ADDED", "NONE", "REMOVED"}, of : Connections]
Goroutine(pc) == [pc |-> pc, cells |-> <<>>, period |-> 0, style |-> 0, put |-> 0]

\* The orders in which the elements of S can be listed.
Orders(S) ==
  {s \in [1..Cardinality(S) -> S] : \A e \in S : \E i \in DOMAIN s : s[i] = e}

\* What a fresh topology watch replays for the connections C.
Replays(C) ==
  {[i \in DOMAIN s |-> [type |-> "NONE", of |-> s[i]]] : s \in Orders(C)}

\* The connections there are now.
Present == {<<n, connection[n]>> : n \in connected}

Init ==
  /\ connected \in SUBSET Nodes
  /\ connection = [n \in Nodes |-> IF n \in connected THEN 1 ELSE 0]
  /\ period = 1
  /\ reporting = [n \in Nodes |-> 0]
  /\ subscribed = [n \in Nodes |-> {}]
  /\ events \in Replays(Present)
  /\ configChanged = FALSE
  /\ watcher = "watching"
  /\ removing = NoNode
  /\ listed = {} /\ todo = {} /\ late = {}
  /\ configWatcher = "watching"
  /\ job = [c \in Connections |-> Goroutine("idle")]
  /\ actionStore = [i \in SubIDs |-> NoCell]
  /\ rekeyed = {}
  /\ streams = {}
  /\ monitors = {}
  /\ entries = {}

\* The context of the jobs and monitors is cancelled when the watcher returns.
Cancelled == watcher = "returned"

\* A monitor of node n runs.
Monitored(n) == \E c \in monitors : c[1] = n

-----------------------------------------------------------------------------
(* Topology, configuration and E2 nodes *)

Connect(n) ==
  /\ n \notin connected
  /\ connection[n] < MaxConnections
  /\ connected' = connected \cup {n}
  /\ connection' = [connection EXCEPT ![n] = @ + 1]
  /\ events' = Append(events, [type |-> "ADDED", of |-> <<n, connection[n] + 1>>])
  /\ UNCHANGED <<period, reporting, subscribed, configChanged, removal, configWatcher,
                 job, stores>>

Disconnect(n) ==
  /\ n \in connected
  /\ connected' = connected \ {n}
  /\ events' = Append(events, [type |-> "REMOVED", of |-> <<n, connection[n]>>])
  /\ UNCHANGED <<connection, period, reporting, subscribed, configChanged, removal,
                 configWatcher, job, stores>>

\* The report period is set, perhaps to the value it has.
ChangePeriod ==
  /\ period' \in 1..MaxPeriod
  /\ configChanged' = TRUE
  /\ UNCHANGED <<connected, connection, reporting, subscribed, events, removal,
                 configWatcher, job, stores>>

-----------------------------------------------------------------------------
(* watchE2Connections *)

\* The KPM RAN function is not found, or asking for it fails: the connection is
\* passed over, for good.
DropAdded ==
  /\ watcher = "watching"
  /\ events # <<>>
  /\ Head(events).type \in {"ADDED", "NONE"}
  /\ events' = Tail(events)
  /\ job' = [job EXCEPT ![Head(events).of] = Goroutine("over")]
  /\ UNCHANGED <<outside, configChanged, removal, configWatcher, stores>>

\* Defective variant of SpawnJob: connections replayed by the watch are ignored.
SpawnJobForAdded ==
  /\ watcher = "watching"
  /\ events # <<>>
  /\ Head(events).type \in {"ADDED", "NONE"}
  /\ events' = Tail(events)
  /\ job' = IF Head(events).type = "ADDED"
            THEN [job EXCEPT ![Head(events).of] = Goroutine("aspects")]
            ELSE job
  /\ UNCHANGED <<outside, configChanged, removal, configWatcher, stores>>

SpawnJob ==
  /\ watcher = "watching"
  /\ events # <<>>
  /\ Head(events).type \in {"ADDED", "NONE"}
  /\ events' = Tail(events)
  /\ job' = [job EXCEPT ![Head(events).of] = Goroutine("aspects")]
  /\ UNCHANGED <<outside, configChanged, removal, configWatcher, stores>>

\* REMOVED: without the RAN function the event is passed over, otherwise the
\* cells of the node are asked for.
HandleRemoved ==
  /\ watcher = "watching"
  /\ events # <<>>
  /\ Head(events).type = "REMOVED"
  /\ events' = Tail(events)
  /\ \/ UNCHANGED <<watcher, removing>>
     \/ watcher' = "listing" /\ removing' = Head(events).of[1]
  /\ UNCHANGED <<outside, configChanged, listed, todo, late, configWatcher, job, stores>>

\* GetCells answers with the cells that have an entity at this moment.
ListCells ==
  /\ watcher = "listing"
  /\ listed' \in (SUBSET CellIDs) \ {{}}
  /\ todo' = listed'
  /\ late' = {}
  /\ watcher' = "deleting"
  /\ UNCHANGED <<outside, events, configChanged, removing, configWatcher, job, stores>>

\* GetCells fails, or there is no cell: the watcher returns and cancels the
\* context of everyone.
WatcherReturns ==
  /\ watcher = "listing"
  /\ watcher' = "returned"
  /\ removing' = NoNode
  /\ UNCHANGED <<outside, events, configChanged, listed, todo, late, configWatcher, job,
                 stores>>

\* With the last listed cell the handling of the event ends.
NextToDelete(c) ==
  IF todo = {c}
  THEN watcher' = "watching" /\ removing' = NoNode /\ listed' = {} /\ todo' = {} /\ late' = {}
  ELSE /\ todo' = todo \ {c}
       /\ late' = late \ {<<removing, c>>}
       /\ UNCHANGED <<watcher, removing, listed>>

\* Defective variant of DeleteEntry: the loop ends one cell too early.
DeleteEntryButLast(c) ==
  /\ watcher = "deleting"
  /\ c \in todo
  /\ entries' = IF todo = {c} THEN entries
                ELSE {e \in entries : ~(e.node = removing /\ e.cell = <<removing, c>>)}
  /\ NextToDelete(c)
  /\ UNCHANGED <<outside, events, configChanged, configWatcher, job, actionStore, rekeyed,
                 streams, monitors>>

\* The entry of one listed cell is deleted; each deletion takes the lock of the
\* store for itself, and monitors put entries between them.
DeleteEntry(c) ==
  /\ watcher = "deleting"
  /\ c \in todo
  /\ entries' = {e \in entries : ~(e.node = removing /\ e.cell = <<removing, c>>)}
  /\ NextToDelete(c)
  /\ UNCHANGED <<outside, events, configChanged, configWatcher, job, actionStore, rekeyed,
                 streams, monitors>>

-----------------------------------------------------------------------------
(* createSubscription and createSubscriptionActions *)

\* The lists in which sort.Slice may leave the set of cells S.
SortedLists(S) ==
  {s \in [1..Cardinality(S) -> S] : \A i, j \in DOMAIN s : i < j => s[i] < s[j]}

\* GetE2NodeAspects and the report styles of the RAN function.
ReadAspects(c) ==
  /\ job[c].pc = "aspects"
  /\ ~Cancelled
  /\ job' = [job EXCEPT ![c].pc = "cells"]
  /\ UNCHANGED <<outside, events, configChanged, removal, configWatcher, stores>>

\* GetCells: the cells that have an entity at this moment, sorted as they are
\* before their definitions are made.
ReadCells(c) ==
  /\ job[c].pc = "cells"
  /\ ~Cancelled
  /\ \E S \in (SUBSET CellIDs) \ {{}} : \E s \in SortedLists(S) :
       job' = [job EXCEPT ![c].pc = "config", ![c].cells = s]
  /\ UNCHANGED <<outside, events, configChanged, removal, configWatcher, stores>>

\* The periods are read.  If there are no report styles, that is all: no
\* subscription, no monitor, and no error.  Otherwise the first one begins.
ReadConfig(c) ==
  /\ job[c].pc = "config"
  /\ \/ job' = [job EXCEPT ![c] = Goroutine("over")]
     \/ /\ Styles > 0
        /\ job' = [job EXCEPT ![c].pc = "actions", ![c].period = period, ![c].style = 1]
  /\ UNCHANGED <<outside, events, configChanged, removal, configWatcher, stores>>

\* The goroutine has put the definition of its i-th cell.
NextToPut(c, i) ==
  job' = [job EXCEPT ![c].put = i,
                     ![c].pc = IF i = Len(job[c].cells) THEN "subscribe" ELSE "actions"]

\* Defective variant of PutAction: the key is the place counted from 0, while
\* the definition carries the place counted from 1.
PutActionByIndex(c) ==
  LET i == job[c].put + 1
  IN  /\ job[c].pc = "actions"
      /\ actionStore' = [k \in SubIDs |-> IF k = i - 1 THEN <<c[1], job[c].cells[i]>>
                                         ELSE actionStore[k]]
      /\ NextToPut(c, i)
      /\ UNCHANGED <<outside, events, configChanged, removal, configWatcher, rekeyed, streams,
                     monitors, entries>>

\* The definition of the next cell, under its place in the list of this goroutine.
PutAction(c) ==
  LET i == job[c].put + 1
      cell == <<c[1], job[c].cells[i]>>
  IN  /\ job[c].pc = "actions"
      /\ actionStore' = [actionStore EXCEPT ![i] = cell]
      /\ rekeyed' = IF actionStore[i] \in {NoCell, cell} THEN rekeyed ELSE rekeyed \cup {i}
      /\ NextToPut(c, i)
      /\ UNCHANGED <<outside, events, configChanged, removal, configWatcher, streams,
                     monitors, entries>>

Subscribe(c) ==
  /\ job[c].pc = "subscribe"
  /\ ~Cancelled
  /\ c[1] \in connected
  /\ job' = [job EXCEPT ![c].pc = "open"]
  /\ reporting' = [reporting EXCEPT ![c[1]] = job[c].period]
  /\ subscribed' = [subscribed EXCEPT ![c[1]] =
                      @ \cup {<<i, job[c].cells[i]>> : i \in 1..Len(job[c].cells)}]
  /\ UNCHANGED <<connected, connection, period, events, configChanged, removal,
                 configWatcher, stores>>

\* Any of the calls up to Subscribe fails: the goroutine returns, and nobody
\* tries again.
CreationFails(c) ==
  /\ job[c].pc \in {"aspects", "cells", "config", "actions", "subscribe"}
  /\ job' = [job EXCEPT ![c] = Goroutine("over")]
  /\ UNCHANGED <<outside, events, configChanged, removal, configWatcher, stores>>

\* Defective variant of OpenReader: after the last style there is another.
OpenReaderOnceMore(c) ==
  /\ job[c].pc = "open"
  /\ streams' = streams \cup {c[1]}
  /\ monitors' = monitors \cup {c}
  /\ job' = [job EXCEPT ![c].pc = "monitor"]
  /\ UNCHANGED <<outside, events, configChanged, removal, configWatcher, actionStore,
                 rekeyed, entries>>

\* OpenReader, the forwarder and the monitor.  Monitor.Start keeps the goroutine
\* from the next style; when there is none, all that is left to it is to return.
OpenReader(c) ==
  /\ job[c].pc = "open"
  /\ streams' = streams \cup {c[1]}
  /\ monitors' = monitors \cup {c}
  /\ \/ job' = [job EXCEPT ![c] = Goroutine("over")]
     \/ job[c].style < Styles /\ job' = [job EXCEPT ![c].pc = "monitor"]
  /\ UNCHANGED <<outside, events, configChanged, removal, configWatcher, actionStore,
                 rekeyed, entries>>

\* Monitor.Start returns, on an error or because the context is cancelled.
StartReturns(c) ==
  /\ job[c].pc = "monitor"
  /\ job' = [job EXCEPT ![c].pc = "actions", ![c].style = @ + 1, ![c].put = 0]
  /\ UNCHANGED <<outside, events, configChanged, removal, configWatcher, stores>>

-----------------------------------------------------------------------------
(* Monitors: processIndicationFormat1 *)

\* The entry of n under the cell filed, about the cell measured; it replaces the
\* entry that was there.
PutEntry(n, filed, measured) ==
  /\ entries' = {e \in entries : e.node # n \/ e.cell # filed}
                \cup {[node |-> n, cell |-> filed, about |-> measured]}
  /\ late' = IF watcher = "deleting" /\ n = removing THEN late \cup {filed} ELSE late

\* Defective variant of Report: an indication without a cell is filed under
\* the cell stored last, whatever its SubID.
ReportIgnoringSubID(n, i, c, named) ==
  /\ Monitored(n)
  /\ <<i, c>> \in subscribed[n]
  /\ named \/ actionStore[i] # NoCell
  /\ PutEntry(n, IF named \/ actionStore[CellCount] = NoCell THEN <<n, c>>
                 ELSE actionStore[CellCount], <<n, c>>)
  /\ UNCHANGED <<outside, events, configChanged, watcher, removing, listed, todo,
                 configWatcher, job, actionStore, rekeyed, streams, monitors>>

\* A monitor of n takes an indication about cell c of n, sent under SubID i of a
\* subscription.  The indication names the cell, or else its SubID is looked up
\* in the action store.
Report(n, i, c, named) ==
  /\ Monitored(n)
  /\ <<i, c>> \in subscribed[n]
  /\ named \/ actionStore[i] # NoCell
  /\ PutEntry(n, IF named THEN <<n, c>> ELSE actionStore[i], <<n, c>>)
  /\ UNCHANGED <<outside, events, configChanged, watcher, removing, listed, todo,
                 configWatcher, job, actionStore, rekeyed, streams, monitors>>

-----------------------------------------------------------------------------
(* watchConfigChanges *)

\* Broker.ChannelIDs: the slice is made as long as the map, and the IDs are
\* appended to that.
ChannelIDs ==
  {[i \in 1..Cardinality(streams) |-> EmptyID] \o s : s \in Orders(streams)}

\* A change of the report period: CloseStream for every listed ID up to the
\* first that fails, which makes the watcher return.
ConfigEvent ==
  /\ configWatcher = "watching"
  /\ configChanged
  /\ configChanged' = FALSE
  /\ \E ids \in ChannelIDs :
       LET unknown == {i \in DOMAIN ids : ids[i] \notin streams}
           closed == {ids[i] : i \in {k \in DOMAIN ids : \A u \in unknown : k < u}}
       IN  /\ streams' = streams \ closed
           /\ configWatcher' = IF unknown = {} THEN "watching" ELSE "returned"
  /\ UNCHANGED <<outside, events, removal, job, actionStore, rekeyed, monitors, entries>>

-----------------------------------------------------------------------------
\* The process dies, of a panic or with its pod, and is restarted.  Nobody listens
\* to what it had subscribed to: indications go to the channel given to Subscribe.
Restart ==
  /\ events' \in Replays(Present)
  /\ configChanged' = FALSE
  /\ watcher' = "watching"
  /\ removing' = NoNode
  /\ listed' = {} /\ todo' = {} /\ late' = {}
  /\ configWatcher' = "watching"
  /\ job' = [c \in Connections |-> Goroutine("idle")]
  /\ actionStore' = [i \in SubIDs |-> NoCell]
  /\ rekeyed' = {}
  /\ streams' = {}
  /\ monitors' = {}
  /\ entries' = {}
  /\ subscribed' = [n \in Nodes |-> {}]
  /\ UNCHANGED <<connected, connection, period, reporting>>

Next ==
  \/ \E n \in Nodes : Connect(n)
  \/ \E n \in Nodes : Disconnect(n)
  \/ ChangePeriod
  \/ DropAdded
  \/ SpawnJob
  \/ HandleRemoved
  \/ ListCells
  \/ WatcherReturns
  \/ \E c \in CellIDs : DeleteEntry(c)
  \/ \E c \in Connections : ReadAspects(c)
  \/ \E c \in Connections : ReadCells(c)
  \/ \E c \in Connections : ReadConfig(c)
  \/ \E c \in Connections : PutAction(c)
  \/ \E c \in Connections : Subscribe(c)
  \/ \E c \in Connections : CreationFails(c)
  \/ \E c \in Connections : OpenReader(c)
  \/ \E c \in Connections : StartReturns(c)
  \/ \E n \in Nodes : \E i \in SubIDs : \E c \in CellIDs : \E named \in BOOLEAN :
       Report(n, i, c, named)
  \/ ConfigEvent
  \/ Restart

Spec == Init /\ [][Next]_vars

\* The Go scheduler runs every goroutine that can run, and remote calls answer or
\* fail; the process dies finitely often.  Nothing obliges nodes, topology,
\* configuration or monitors to do anything.
Fairness ==
  /\ WF_vars(DropAdded \/ SpawnJob \/ HandleRemoved)
  /\ WF_vars(ListCells \/ WatcherReturns \/ \E c \in CellIDs : DeleteEntry(c))
  /\ WF_vars(ConfigEvent)
  /\ \A c \in Connections :
       WF_vars(\/ ReadAspects(c) \/ ReadCells(c) \/ ReadConfig(c) \/ PutAction(c)
               \/ Subscribe(c) \/ CreationFails(c) \/ OpenReader(c))
  /\ <>[][~Restart]_vars

FairSpec == Spec /\ Fairness

-----------------------------------------------------------------------------
(* Properties *)

\* Where a goroutine is on its way to a monitor.
OnItsWay == {"aspects", "cells", "config", "actions", "subscribe", "open"}

JobState ==
  [pc : {"idle", "monitor", "over"} \cup OnItsWay, cells : Seq(CellIDs),
   period : 0..MaxPeriod, style : 0..Styles, put : 0..CellCount]

\* Types of the variables.
TypeOK ==
  /\ connected \subseteq Nodes
  /\ connection \in [Nodes -> 0..MaxConnections]
  /\ period \in 1..MaxPeriod
  /\ reporting \in [Nodes -> 0..MaxPeriod]
  /\ subscribed \in [Nodes -> SUBSET (SubIDs \X CellIDs)]
  /\ events \in Seq(Event)
  /\ configChanged \in BOOLEAN
  /\ watcher \in {"watching", "listing", "deleting", "returned"}
  /\ removing \in Nodes \cup {NoNode}
  /\ listed \subseteq CellIDs
  /\ todo \subseteq CellIDs
  /\ late \subseteq Cells
  /\ configWatcher \in {"watching", "returned"}
  /\ job \in [Connections -> JobState]
  /\ actionStore \in [SubIDs -> Cells \cup {NoCell}]
  /\ rekeyed \subseteq SubIDs
  /\ streams \subseteq Nodes
  /\ monitors \subseteq Connections
  /\ entries \subseteq [node : Nodes, cell : Cells, about : Cells]

\* By the time a node can report, every SubID it was given is in the action
\* store: no monitor fails to resolve an indication of its own subscription.
ActionsComplete ==
  /\ \A c \in Connections : job[c].pc \in {"subscribe", "open"} =>
       \A i \in 1..Len(job[c].cells) : actionStore[i] # NoCell
  /\ \A n \in Nodes : \A k \in subscribed[n] : actionStore[k[1]] # NoCell

\* "Use the actions store to find cell object Id based on sub ID in action
\* definition" (processIndicationFormat1): measurements are filed under the cell
\* they were taken at.
FiledUnderOwnCell == \A e \in entries : e.cell = e.about

\* A measurement goes under a cell it was not taken at only through a SubID that
\* createSubscriptionActions has re-keyed: by then its definition is that of
\* another cell, which a later subscription counted at the same place, be it one
\* of another node or of the same node with other cells in the topology.
MisfiledOnlyIfRekeyed ==
  [][\A e \in entries' \ entries : e.cell # e.about =>
       \E i \in rekeyed : <<i, e.about[2]>> \in subscribed[e.node] /\ actionStore[i] = e.cell]_vars

\* When the removal of a node has been handled, an entry is left under a cell that
\* was listed only if a monitor still running has put it there after the cell's own
\* deletion.
RemovalLeavesOnlyLate ==
  [][watcher = "deleting" /\ watcher' = "watching" =>
       \A e \in entries' :
         e.node = removing /\ e.cell \in {removing} \X listed => e.cell \in late]_vars

\* The event of a connection is not yet handled.
Announced(c) ==
  \E i \in 1..Len(events) : events[i].type \in {"ADDED", "NONE"} /\ events[i].of = c

\* A connection has a monitor, or was given up: passed over, without report
\* styles, or its subscription failed.
Settled(c) == c \in monitors \/ job[c].pc = "over"

\* Every connection there is gets settled once announced, one that comes after
\* another of the same node as well, unless the watcher returns.  A restart
\* announces all of them again: "onos-kpimon recovers from crashes"
\* (TestKPIMonRestart).
AnnouncedIsSettled ==
  \A c \in Connections : Announced(c) ~> (Settled(c) \/ Cancelled \/ c \notin Present)

\* "creates a new subscription whenever there is a new E2 node connected and
\* supports KPM service model" (watchE2Connections).
NewNodeIsMonitored ==
  \A c \in Connections : Announced(c) ~> Settled(c)

\* "Gets all of connected E2 nodes and creates new subscriptions based on new
\* report interval" (watchConfigChanges).
PeriodReachesNodes ==
  \A n \in Nodes :
    (configChanged /\ Monitored(n)) ~> (reporting[n] = period \/ n \notin connected)

\* What holds of a goroutine at its place: it has a cell left to put, has stored
\* the definitions it counts, and has a style left when it waits in Monitor.Start.
JobInv(c) ==
  /\ Len(job[c].cells) <= CellCount
  /\ job[c].pc \in {"aspects", "cells", "config"} => job[c].put = 0
  /\ job[c].pc \in {"config", "subscribe", "open", "monitor"} => Len(job[c].cells) > 0
  /\ job[c].pc = "actions" =>
       /\ job[c].put < Len(job[c].cells)
       /\ \A i \in 1..job[c].put : actionStore[i] # NoCell
  /\ job[c].pc = "monitor" => job[c].style < Styles

\* The inductive invariant.
SubscriptionsInv ==
  /\ TypeOK
  /\ ActionsComplete
  /\ \A n \in connected : connection[n] > 0
  /\ watcher \in {"listing", "deleting"} => removing \in Nodes
  /\ watcher = "deleting" => todo \subseteq listed
  /\ \A c \in Connections : JobInv(c)
=============================================================================
