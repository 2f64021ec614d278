----------------------------- MODULE Northbound -----------------------------
(***************************************************************************)
(* The northbound service (pkg/northbound/kpimon.go) on the measurement    *)
(* store, and the start of the application (pkg/manager/manager.go).       *)
(*                                                                         *)
(*   listers    calls of ListMeasurements, each with the goroutine that    *)
(*              collects the entries                                       *)
(*   watchers   calls of WatchMeasurements                                 *)
(*   start      Manager.start, which waits for the gRPC server before it   *)
(*              starts the subscription manager, whose monitors put        *)
(*                                                                         *)
(* The store is MeasurementStore; its steps are taken together with the    *)
(* handlers' where a channel joins them.                                   *)
(***************************************************************************)
EXTENDS Naturals, Sequences

CONSTANTS Keys, Watchers, Listers, Nobody, MaxPuts

ASSUME NorthboundAssumption ==
  /\ Nobody \notin Listers \cup Watchers \cup Keys
  /\ MaxPuts \in Nat

VARIABLES measurements, puts, mu, left, watchers, watch, delivery, todo, target,
          live, crash, last, overlap

VARIABLES
  server,      \* Serve of the gRPC server
  start,       \* startNorthboundServer: waiting at doneCh, or what followed
  handler,     \* handler[w]: WatchMeasurements not called, in its loop, returned
  holding,     \* holding[w]: the event w received and is telling the client
  done,        \* watchers whose context has ended
  told,        \* history: told[w]: the events the client of w was sent
  list,        \* list[l]: where ListMeasurements is
  collector,   \* collector[l]: where its goroutine is
  looking,     \* looking[l]: the entry the goroutine looks up, with its key
  response,    \* response[l]: the entries collected
  snapshot     \* history: snapshot[l]: the store when Entries took mu

Store == INSTANCE MeasurementStore

storeVars == <<measurements, puts, mu, left, watchers, watch, delivery, todo, target,
               live, crash, last, overlap>>
watching == <<handler, holding, done, told>>
listing == <<list, collector, looking, response, snapshot>>
starting == <<server, start>>
vars == <<storeVars, watching, listing, starting>>

Nothing == [key |-> Nobody, entry |-> Store!NoEntry]

Init ==
  /\ Store!Init
  /\ server = "starting"
  /\ start = "waiting"
  /\ handler = [w \in Watchers |-> "none"]
  /\ holding = [w \in Watchers |-> Store!NoEntry]
  /\ done = {}
  /\ told = [w \in Watchers |-> <<>>]
  /\ list = [l \in Listers |-> "none"]
  /\ collector = [l \in Listers |-> "none"]
  /\ looking = [l \in Listers |-> Nothing]
  /\ response = [l \in Listers |-> [k \in Keys |-> Store!NoEntry]]
  /\ snapshot = [l \in Listers |-> [k \in Keys |-> Store!NoEntry]]

-----------------------------------------------------------------------------
(* Manager.start and the goroutine that calls Serve *)

\* The server reports its start: doneCh is closed, and start goes on to the
\* subscription manager.
ServeStarts ==
  /\ Store!Running
  /\ server = "starting"
  /\ server' = "serving"
  /\ start' = "up"
  /\ UNCHANGED <<storeVars, watching, listing>>

\* Serve fails before: the error reaches start, which returns it.
ServeFails ==
  /\ Store!Running
  /\ server = "starting"
  /\ server' = "failed"
  /\ start' = "failed"
  /\ UNCHANGED <<storeVars, watching, listing>>

\* Serve fails later: the error is sent on the closed channel, a panic.
ServeEnds ==
  /\ Store!ProcessEnds
  /\ server = "serving"
  /\ server' = "failed"
  /\ UNCHANGED <<start, watching, listing>>

-----------------------------------------------------------------------------
(* What monitors and the topology watcher do to the store *)

Put(k) ==
  /\ start = "up"
  /\ Store!Put(k)
  /\ UNCHANGED <<watching, listing, starting>>

Delete(k) ==
  /\ start = "up"
  /\ Store!Delete(k)
  /\ UNCHANGED <<watching, listing, starting>>

-----------------------------------------------------------------------------
(* WatchMeasurements *)

Watch(w) ==
  /\ server = "serving"
  /\ handler[w] = "none"
  /\ Store!AddWatcher(w)
  /\ handler' = [handler EXCEPT ![w] = "looping"]
  /\ UNCHANGED <<holding, done, told, listing, starting>>

WatchRaces(w) ==
  /\ server = "serving"
  /\ handler[w] = "none"
  /\ Store!MapRace(w)
  /\ UNCHANGED <<watching, listing, starting>>

\* The delivery of e and the loop of w meet at the channel.
Receive(e, w) ==
  /\ handler[w] = "looping"
  /\ holding[w] = Store!NoEntry
  /\ Store!Deliver(e, w)
  /\ holding' = [holding EXCEPT ![w] = e]
  /\ UNCHANGED <<handler, done, told, listing, starting>>

\* Defective variant of Tell: the loop does not notice that the channel is closed
\* and tells the client of the zero event.
TellZero(w) ==
  /\ Store!Running
  /\ holding[w] # Store!NoEntry \/ watch[w] = "closed"
  /\ told' = [told EXCEPT ![w] = Append(@, holding[w])]
  /\ holding' = [holding EXCEPT ![w] = Store!NoEntry]
  /\ UNCHANGED <<storeVars, handler, done, listing, starting>>

\* The entry is parsed, the topology asked for the cell, and the client told.
Tell(w) ==
  /\ Store!Running
  /\ holding[w] # Store!NoEntry
  /\ told' = [told EXCEPT ![w] = Append(@, holding[w])]
  /\ holding' = [holding EXCEPT ![w] = Store!NoEntry]
  /\ UNCHANGED <<storeVars, handler, done, listing, starting>>

\* server.Send fails: the handler returns, which ends its context.
TellFails(w) ==
  /\ Store!Running
  /\ holding[w] # Store!NoEntry
  /\ holding' = [holding EXCEPT ![w] = Store!NoEntry]
  /\ handler' = [handler EXCEPT ![w] = "returned"]
  /\ done' = done \cup {w}
  /\ UNCHANGED <<storeVars, told, listing, starting>>

\* The client goes away.
Leave(w) ==
  /\ Store!Running
  /\ handler[w] = "looping"
  /\ w \notin done
  /\ done' = done \cup {w}
  /\ UNCHANGED <<storeVars, handler, holding, told, listing, starting>>

\* The channel is closed: the loop of the handler ends.
LoopEnds(w) ==
  /\ Store!Running
  /\ handler[w] = "looping"
  /\ holding[w] = Store!NoEntry
  /\ watch[w] = "closed"
  /\ handler' = [handler EXCEPT ![w] = "returned"]
  /\ UNCHANGED <<storeVars, holding, done, told, listing, starting>>

\* The goroutine of Watch, once the context has ended.
Remove(w) ==
  /\ w \in done
  /\ Store!RemoveWatcher(w)
  /\ UNCHANGED <<watching, listing, starting>>

CloseWatch(w) ==
  /\ Store!CloseChannel(w)
  /\ UNCHANGED <<watching, listing, starting>>

\* The goroutine that delivers e.
Delivery(e) ==
  /\ \/ Store!BeginDelivery(e)
     \/ \E w \in Watchers : Store!NextWatcher(e, w)
     \/ Store!EndDelivery(e)
     \/ Store!SendOnClosed(e)
  /\ UNCHANGED <<watching, listing, starting>>

-----------------------------------------------------------------------------
(* ListMeasurements *)

List(l) ==
  /\ Store!Running
  /\ server = "serving"
  /\ list[l] = "none"
  /\ list' = [list EXCEPT ![l] = "called"]
  /\ collector' = [collector EXCEPT ![l] = "ranging"]
  /\ UNCHANGED <<storeVars, looking, response, snapshot, watching, starting>>

\* Entries takes mu.
EnterEntries(l) ==
  /\ list[l] = "called"
  /\ Store!LockEntries(l)
  /\ list' = [list EXCEPT ![l] = "handing out"]
  /\ snapshot' = [snapshot EXCEPT ![l] = measurements]
  /\ UNCHANGED <<collector, looking, response, watching, starting>>

\* Entries finds nothing: its error is returned, and done is not read.
ListFails(l) ==
  /\ list[l] = "called"
  /\ Store!EntriesEmpty(l)
  /\ list' = [list EXCEPT ![l] = "failed"]
  /\ UNCHANGED <<collector, looking, response, snapshot, watching, starting>>

\* Entries and the collector meet at the channel.
Collect(l, k) ==
  /\ collector[l] = "ranging"
  /\ Store!HandOut(l, k)
  /\ looking' = [looking EXCEPT ![l] = [key |-> k, entry |-> measurements[k]]]
  /\ collector' = [collector EXCEPT ![l] = "looking up"]
  /\ UNCHANGED <<list, response, snapshot, watching, starting>>

\* The entry is parsed and filed; a cell the topology does not know or a failed
\* call gives a key that ends with the empty string.
LookedUp(l) ==
  /\ Store!Running
  /\ collector[l] = "looking up"
  /\ response' = [response EXCEPT ![l][looking[l].key] = looking[l].entry]
  /\ looking' = [looking EXCEPT ![l] = Nothing]
  /\ collector' = [collector EXCEPT ![l] = "ranging"]
  /\ UNCHANGED <<storeVars, list, snapshot, watching, starting>>

LeaveEntries(l) ==
  /\ list[l] = "handing out"
  /\ Store!UnlockEntries(l)
  /\ list' = [list EXCEPT ![l] = "awaiting"]
  /\ UNCHANGED <<collector, looking, response, snapshot, watching, starting>>

\* The collector finds the channel closed and offers done.
CollectorDone(l) ==
  /\ Store!Running
  /\ collector[l] = "ranging"
  /\ list[l] \in {"awaiting", "failed"}
  /\ collector' = [collector EXCEPT ![l] = "offering done"]
  /\ UNCHANGED <<storeVars, list, looking, response, snapshot, watching, starting>>

\* ListMeasurements reads done and answers.
Answer(l) ==
  /\ Store!Running
  /\ list[l] = "awaiting"
  /\ collector[l] = "offering done"
  /\ list' = [list EXCEPT ![l] = "answered"]
  /\ collector' = [collector EXCEPT ![l] = "ended"]
  /\ UNCHANGED <<storeVars, looking, response, snapshot, watching, starting>>

-----------------------------------------------------------------------------
Next ==
  \/ ServeStarts
  \/ ServeFails
  \/ ServeEnds
  \/ \E k \in Keys : Put(k)
  \/ \E k \in Keys : Delete(k)
  \/ \E w \in Watchers : Watch(w)
  \/ \E w \in Watchers : WatchRaces(w)
  \/ \E e \in Store!Events : \E w \in Watchers : Receive(e, w)
  \/ \E w \in Watchers : Tell(w)
  \/ \E w \in Watchers : TellFails(w)
  \/ \E w \in Watchers : Leave(w)
  \/ \E w \in Watchers : LoopEnds(w)
  \/ \E w \in Watchers : Remove(w)
  \/ \E w \in Watchers : CloseWatch(w)
  \/ \E e \in Store!Events : Delivery(e)
  \/ \E l \in Listers : List(l)
  \/ \E l \in Listers : EnterEntries(l)
  \/ \E l \in Listers : ListFails(l)
  \/ \E l \in Listers : \E k \in Keys : Collect(l, k)
  \/ \E l \in Listers : LookedUp(l)
  \/ \E l \in Listers : LeaveEntries(l)
  \/ \E l \in Listers : CollectorDone(l)
  \/ \E l \in Listers : Answer(l)

Spec == Init /\ [][Next]_vars

\* Go runs every goroutine that can run.  mu starves nobody (a waiting
\* goroutine is handed the mutex after a millisecond).  The topology answers the
\* collector, or its context ends.  Monitors and clients are free: nobody is
\* obliged to put, to call, to take what Tell sends or to go away.
Fairness ==
  /\ WF_vars(ServeStarts \/ ServeFails)
  /\ \A e \in Store!Events :
       /\ WF_vars(Delivery(e))
       /\ \A w \in Watchers : WF_vars(Receive(e, w))
  /\ \A w \in Watchers : WF_vars(Remove(w)) /\ WF_vars(CloseWatch(w)) /\ WF_vars(LoopEnds(w))
  /\ \A l \in Listers :
       /\ SF_vars(EnterEntries(l) \/ ListFails(l))
       /\ WF_vars(LookedUp(l) \/ CollectorDone(l) \/ \E k \in Keys : Collect(l, k))
       /\ WF_vars(LeaveEntries(l) \/ Answer(l))

FairSpec == Spec /\ Fairness

-----------------------------------------------------------------------------
(* Properties *)

StoreTypes ==
  /\ measurements \in [Keys -> 0..MaxPuts]
  /\ puts \in 0..MaxPuts
  /\ mu \in Listers \cup {Nobody}
  /\ left \subseteq Keys
  /\ crash \in {"no", "elsewhere", "send on closed channel",
                "concurrent map iteration and map write"}

WatchTypes ==
  /\ watchers \subseteq Watchers
  /\ watch \in [Watchers -> {"none", "open", "removed", "closed"}]
  /\ delivery \in [Store!Events -> {"none", "spawned", "ranging", "sending", "done"}]
  /\ todo \in [Store!Events -> SUBSET Watchers]
  /\ target \in [Store!Events -> Watchers \cup {Nobody}]
  /\ live \subseteq Store!Events
  /\ last \in [Watchers -> 0..MaxPuts]
  /\ overlap \subseteq Store!Events \X Store!Events
  /\ handler \in [Watchers -> {"none", "looping", "returned"}]
  /\ holding \in [Watchers -> 0..MaxPuts]
  /\ done \subseteq Watchers
  /\ told \in [Watchers -> Seq(Store!Events)]

ListTypes ==
  /\ server \in {"starting", "serving", "failed"}
  /\ start \in {"waiting", "up", "failed"}
  /\ list \in [Listers -> {"none", "called", "handing out", "awaiting", "answered", "failed"}]
  /\ collector \in [Listers -> {"none", "ranging", "looking up", "offering done", "ended"}]
  /\ looking \in [Listers -> [key : Keys \cup {Nobody}, entry : 0..MaxPuts]]
  /\ response \in [Listers -> [Keys -> 0..MaxPuts]]
  /\ snapshot \in [Listers -> [Keys -> 0..MaxPuts]]

\* Types of the variables.
TypeOK == StoreTypes /\ WatchTypes /\ ListTypes

\* The answer of ListMeasurements is the whole store as it was at one moment
\* of the call, however many monitors put and delete while entries are handed
\* out and looked up ("get a snapshot of measurements", kpimon.go:48).
ListIsSnapshot ==
  \A l \in Listers : list[l] = "answered" => response[l] = snapshot[l]

\* A watch tells its client of no Put twice, and of an earlier Put after a later
\* one only if the later was put while the earlier was being delivered.
OrderUnlessOverlap ==
  \A w \in Watchers : \A i, j \in 1..Len(told[w]) :
    i < j => told[w][i] < told[w][j] \/ <<told[w][j], told[w][i]>> \in overlap

\* A panic on a closed channel comes from a Put that preceded the removal of the
\* watch, never from a later one, and none comes from a watch whose context has
\* not ended.
PanicCauses ==
  crash = "send on closed channel" =>
    \E e \in Store!Events : \E w \in done :
      delivery[e] = "sending" /\ target[e] = w /\ e <= last[w]

\* The events the client of w was sent.
Told(w) == {told[w][i] : i \in 1..Len(told[w])}

\* A client hears of nothing that was put after its watch was removed, although
\* deliveries read the map of watchers without a lock and late, and the loop of the
\* handler goes on until the channel is closed.
NothingAfterRemoval ==
  \A w \in Watchers : watch[w] \in {"removed", "closed"} =>
    \A e \in Told(w) \cup {holding[w]} : e <= last[w]

\* ListMeasurements returns and, unless the store was empty, so does its
\* collector; the lock of the store is given back; the start of the application
\* does not hang.  All of it whatever watchers and monitors do.
CallsReturn ==
  /\ \A l \in Listers :
       /\ (list[l] = "called") ~> (list[l] \in {"answered", "failed"} \/ ~Store!Running)
       /\ (collector[l] # "none") ~>
            (collector[l] = "ended" \/ list[l] = "failed" \/ ~Store!Running)
  /\ (mu # Nobody) ~> (mu = Nobody \/ ~Store!Running)
  /\ (start = "waiting") ~> (start # "waiting")

\* A client that watches when an event is about to be delivered is told of it, also
\* if other watches end meanwhile, as long as the clients take what they are sent:
\* unless its own watch ends, the process does, or the end of another watch has
\* dropped it from the map of watchers (RemoveWatcher keeps one of the others).
EventReachesWatchers ==
  (\A w \in Watchers : []<>(holding[w] = Store!NoEntry)) =>
    \A e \in Store!Events : \A w \in Watchers :
      (delivery[e] = "spawned" /\ w \in watchers) ~>
        \/ e \in Told(w)
        \/ w \in done \/ w \notin watchers \/ ~Store!Running

-----------------------------------------------------------------------------
(* The inductive invariant, one part per safety property *)

\* A lister in Entries holds mu and the store stays as it was; what it has not
\* handed out and what is being looked up is all that the response lacks.
ListState(l) ==
  /\ mu = l <=> list[l] = "handing out"
  /\ mu = l => measurements = snapshot[l]
  /\ collector[l] = "looking up" =>
       /\ list[l] \in {"handing out", "awaiting"}
       /\ looking[l].key \in Keys
       /\ looking[l].entry = snapshot[l][looking[l].key]
  /\ collector[l] = "ranging" => list[l] # "answered"
  /\ collector[l] = "offering done" => list[l] \in {"awaiting", "failed"}
  /\ list[l] \in {"none", "called"} =>
       collector[l] # "looking up" /\ response[l] = [k \in Keys |-> Store!NoEntry]
  /\ list[l] \in {"handing out", "awaiting"} => \A k \in Keys :
       \/ response[l][k] = snapshot[l][k]
       \/ mu = l /\ k \in left
       \/ collector[l] = "looking up" /\ looking[l].key = k

ListInv == \A l \in Listers : ListState(l)

\* A delivery comes to watches that were added and, of those that were removed,
\* only if its Put preceded the removal.
DeliveryState(e) ==
  /\ delivery[e] # "none" => e <= puts
  /\ delivery[e] \notin {"ranging", "sending"} => todo[e] = {} /\ e \notin live
  /\ delivery[e] = "sending" <=> target[e] # Nobody
  /\ target[e] \notin todo[e]
  /\ \A w \in Watchers : w \in todo[e] \/ target[e] = w =>
       /\ watch[w] # "none"
       /\ watch[w] # "open" => e <= last[w]

RemovalInv ==
  /\ server = "serving" => start = "up"
  /\ \A e \in Store!Events : DeliveryState(e)
  /\ \A w \in Watchers :
       /\ w \in watchers => watch[w] = "open"
       /\ watch[w] \in {"removed", "closed"} => w \in done

\* What is still to come to a watch is new to it, and later than what it was
\* told of unless the two overlap.
OrderInv ==
  /\ \A e, f \in Store!Events :
       e < f /\ delivery[f] # "none" /\ Store!UnderWay(e) => <<e, f>> \in overlap
  /\ \A e \in Store!Events : \A w \in Watchers :
       delivery[e] \in {"none", "spawned"} \/ w \in todo[e] \/ target[e] = w =>
         e \notin Told(w) /\ holding[w] # e
  /\ \A w \in Watchers :
       /\ handler[w] = "none" => told[w] = <<>> /\ holding[w] = Store!NoEntry
       /\ holding[w] # Store!NoEntry => \A f \in Told(w) :
            f < holding[w] \/ <<holding[w], f>> \in overlap
=============================================================================
