-------------------------- MODULE MeasurementStore --------------------------
(***************************************************************************)
(* The measurement store and its watchers: store in                        *)
(* pkg/store/measurements/measurements.go, Watchers in                     *)
(* pkg/store/watcher/watcher.go.                                           *)
(*                                                                         *)
(* Put, Delete and Entries run under mu.  Put and Delete are one step      *)
(* each; Entries keeps mu while it hands the entries, one by one, to       *)
(* whoever reads its channel.  Every Put starts a goroutine of its own     *)
(* that delivers the event: it reads the map of watchers once, without a   *)
(* lock, and offers the event to the watchers in it one after the other.   *)
(* Their channels are unbuffered.                                          *)
(*                                                                         *)
(* The module has the steps of store and watchers; Northbound says which   *)
(* handler takes part in each of them.  An entry is represented by the     *)
(* number of the Put that made it, the event of which has the same number. *)
(* Entries are never modified once they are in the store.                  *)
(***************************************************************************)
EXTENDS Naturals

CONSTANTS
  Keys,        \* node and cell of a measurement
  Watchers,    \* calls of Watch, told apart by their UUID
  Listers,     \* callers of Entries
  Nobody,      \* mu is not held across steps; a delivery offers to nobody
  MaxPuts      \* bound of the model: calls of Put

VARIABLES
  measurements,   \* store.measurements; NoEntry where there is none
  puts,           \* entries put so far
  mu,             \* the lister in Entries, which holds store.mu
  left,           \* keys the lister has not handed out yet
  watchers,       \* the watchers in Watchers.watchers
  watch,          \* watch[w]: not called, open, removed from the map, channel closed
  delivery,       \* delivery[e]: where the goroutine of event e is
  todo,           \* todo[e]: watchers of its map that it will still visit
  target,         \* target[e]: the watcher it offers the event to
  live,           \* deliveries whose map is still the one of Watchers
  crash,          \* what ended the process
  last,           \* history: last[w]: the last entry put when w was removed
  overlap         \* history: <<e, f>> where f was put while e was under way

vars == <<measurements, puts, mu, left, watchers, watch, delivery, todo, target,
          live, crash, last, overlap>>
deliveries == <<delivery, todo, target, live>>
entries == <<mu, left>>

NoEntry == 0
Events == 1..MaxPuts
Stored == {k \in Keys : measurements[k] # NoEntry}
Unlocked == mu = Nobody
Running == crash = "no"
UnderWay(e) == delivery[e] \in {"spawned", "ranging", "sending"}

Init ==
  /\ measurements = [k \in Keys |-> NoEntry]
  /\ puts = 0
  /\ mu = Nobody
  /\ left = {}
  /\ watchers = {}
  /\ watch = [w \in Watchers |-> "none"]
  /\ delivery = [e \in Events |-> "none"]
  /\ todo = [e \in Events |-> {}]
  /\ target = [e \in Events |-> Nobody]
  /\ live = {}
  /\ crash = "no"
  /\ last = [w \in Watchers |-> NoEntry]
  /\ overlap = {}

-----------------------------------------------------------------------------
(* Put, which calls Watchers.Send, and Delete, which tells nobody *)

\* Defective variant of Put: mu is not taken.
PutUnlocked(k) ==
  /\ Running
  /\ puts < MaxPuts
  /\ puts' = puts + 1
  /\ measurements' = [measurements EXCEPT ![k] = puts']
  /\ delivery' = [delivery EXCEPT ![puts'] = "spawned"]
  /\ overlap' = overlap \cup {<<e, puts'>> : e \in {d \in Events : UnderWay(d)}}
  /\ UNCHANGED <<entries, watchers, watch, todo, target, live, crash, last>>

Put(k) ==
  /\ Running
  /\ Unlocked
  /\ puts < MaxPuts
  /\ puts' = puts + 1
  /\ measurements' = [measurements EXCEPT ![k] = puts']
  /\ delivery' = [delivery EXCEPT ![puts'] = "spawned"]
  /\ overlap' = overlap \cup {<<e, puts'>> : e \in {d \in Events : UnderWay(d)}}
  /\ UNCHANGED <<entries, watchers, watch, todo, target, live, crash, last>>

Delete(k) ==
  /\ Running
  /\ Unlocked
  /\ measurements[k] # NoEntry
  /\ measurements' = [measurements EXCEPT ![k] = NoEntry]
  /\ UNCHANGED <<puts, entries, watchers, watch, deliveries, crash, last, overlap>>

-----------------------------------------------------------------------------
(* The goroutine of Watchers.Send *)

\* It reads ws.watchers, whatever map that is by now.
BeginDelivery(e) ==
  /\ Running
  /\ delivery[e] = "spawned"
  /\ delivery' = [delivery EXCEPT ![e] = "ranging"]
  /\ todo' = [todo EXCEPT ![e] = watchers]
  /\ live' = live \cup {e}
  /\ UNCHANGED <<measurements, puts, entries, watchers, watch, target, crash, last, overlap>>

\* Defective variant of NextWatcher: a watcher may be visited again.
NextWatcherAgain(e, w) ==
  /\ Running
  /\ delivery[e] = "ranging"
  /\ w \in todo[e]
  /\ delivery' = [delivery EXCEPT ![e] = "sending"]
  /\ target' = [target EXCEPT ![e] = w]
  /\ UNCHANGED <<measurements, puts, entries, watchers, watch, todo, live, crash, last, overlap>>

\* range goes on to another watcher, in any order.
NextWatcher(e, w) ==
  /\ Running
  /\ delivery[e] = "ranging"
  /\ w \in todo[e]
  /\ delivery' = [delivery EXCEPT ![e] = "sending"]
  /\ todo' = [todo EXCEPT ![e] = @ \ {w}]
  /\ target' = [target EXCEPT ![e] = w]
  /\ UNCHANGED <<measurements, puts, entries, watchers, watch, live, crash, last, overlap>>

\* watcher.ch <- event, received by w.
Deliver(e, w) ==
  /\ Running
  /\ delivery[e] = "sending"
  /\ target[e] = w
  /\ watch[w] # "closed"
  /\ delivery' = [delivery EXCEPT ![e] = "ranging"]
  /\ target' = [target EXCEPT ![e] = Nobody]
  /\ UNCHANGED <<measurements, puts, entries, watchers, watch, todo, live, crash, last, overlap>>

\* The channel was closed, before the send or while it was blocked: a panic.
SendOnClosed(e) ==
  /\ Running
  /\ delivery[e] = "sending"
  /\ watch[target[e]] = "closed"
  /\ crash' = "send on closed channel"
  /\ UNCHANGED <<measurements, puts, entries, watchers, watch, deliveries, last, overlap>>

\* Defective variant of EndDelivery: the range is left after one watcher.
EndDeliveryEarly(e) ==
  /\ Running
  /\ delivery[e] = "ranging"
  /\ delivery' = [delivery EXCEPT ![e] = "done"]
  /\ todo' = [todo EXCEPT ![e] = {}]
  /\ live' = live \ {e}
  /\ UNCHANGED <<measurements, puts, entries, watchers, watch, target, crash, last, overlap>>

EndDelivery(e) ==
  /\ Running
  /\ delivery[e] = "ranging"
  /\ todo[e] = {}
  /\ delivery' = [delivery EXCEPT ![e] = "done"]
  /\ live' = live \ {e}
  /\ UNCHANGED <<measurements, puts, entries, watchers, watch, todo, target, crash, last, overlap>>

-----------------------------------------------------------------------------
(* Watch, with the goroutine that waits for the end of its context *)

\* AddWatcher writes into the map that deliveries may be ranging over: each of
\* them may or may not come to the new watcher.
AddWatcher(w) ==
  /\ Running
  /\ watch[w] = "none"
  /\ watch' = [watch EXCEPT ![w] = "open"]
  /\ watchers' = watchers \cup {w}
  /\ \E D \in SUBSET live :
       todo' = [e \in Events |-> IF e \in D THEN todo[e] \cup {w} ELSE todo[e]]
  /\ UNCHANGED <<measurements, puts, entries, delivery, target, live, crash, last, overlap>>

\* A delivery is about to take the next watcher from that very map, or the
\* first one: Go's maps may detect the write and end the process.
MapRace(w) ==
  /\ Running
  /\ watch[w] = "none"
  /\ watchers # {}
  /\ \E e \in Events :
       \/ delivery[e] = "spawned"
       \/ delivery[e] = "ranging" /\ e \in live
  /\ crash' = "concurrent map iteration and map write"
  /\ UNCHANGED <<measurements, puts, entries, watchers, watch, deliveries, last, overlap>>

\* RemoveWatcher makes a map without w, in which it files every other watcher
\* under the ID of w: one of them remains.
Remaining(w) ==
  IF watchers \ {w} = {} THEN {{}} ELSE {{x} : x \in watchers \ {w}}

\* Defective variant of RemoveWatcher: w stays in the map.
RemoveWatcherKeeping(w) ==
  /\ Running
  /\ watch[w] = "open"
  /\ watch' = [watch EXCEPT ![w] = "removed"]
  /\ watchers' = watchers
  /\ live' = {}
  /\ last' = [last EXCEPT ![w] = puts]
  /\ UNCHANGED <<measurements, puts, entries, delivery, todo, target, crash, overlap>>

RemoveWatcher(w) ==
  /\ Running
  /\ watch[w] = "open"
  /\ watch' = [watch EXCEPT ![w] = "removed"]
  /\ watchers' \in Remaining(w)
  /\ live' = {}
  /\ last' = [last EXCEPT ![w] = puts]
  /\ UNCHANGED <<measurements, puts, entries, delivery, todo, target, crash, overlap>>

\* Defective variant of CloseChannel: the channel is closed first.
CloseChannelFirst(w) ==
  /\ Running
  /\ watch[w] \in {"open", "removed"}
  /\ watch' = [watch EXCEPT ![w] = "closed"]
  /\ UNCHANGED <<measurements, puts, entries, watchers, deliveries, crash, last, overlap>>

CloseChannel(w) ==
  /\ Running
  /\ watch[w] = "removed"
  /\ watch' = [watch EXCEPT ![w] = "closed"]
  /\ UNCHANGED <<measurements, puts, entries, watchers, deliveries, crash, last, overlap>>

-----------------------------------------------------------------------------
(* Entries *)

\* mu is taken and the range over the entries starts.
LockEntries(l) ==
  /\ Running
  /\ Unlocked
  /\ Stored # {}
  /\ mu' = l
  /\ left' = Stored
  /\ UNCHANGED <<measurements, puts, watchers, watch, deliveries, crash, last, overlap>>

\* Defective variant of EntriesEmpty: the error return leaves mu locked.
EntriesEmptyLocked(l) ==
  /\ Running
  /\ Unlocked
  /\ Stored = {}
  /\ mu' = l
  /\ UNCHANGED <<measurements, puts, left, watchers, watch, deliveries, crash, last, overlap>>

\* An empty store: the channel is closed and an error returned.
EntriesEmpty(l) ==
  /\ Running
  /\ Unlocked
  /\ Stored = {}
  /\ UNCHANGED vars

\* ch <- entry, received by whoever collects for l.
HandOut(l, k) ==
  /\ Running
  /\ mu = l
  /\ k \in left
  /\ left' = left \ {k}
  /\ UNCHANGED <<measurements, puts, mu, watchers, watch, deliveries, crash, last, overlap>>

UnlockEntries(l) ==
  /\ Running
  /\ mu = l
  /\ left = {}
  /\ mu' = Nobody
  /\ UNCHANGED <<measurements, puts, left, watchers, watch, deliveries, crash, last, overlap>>

-----------------------------------------------------------------------------
\* Another part of the program ends the process.
ProcessEnds ==
  /\ Running
  /\ crash' = "elsewhere"
  /\ UNCHANGED <<measurements, puts, entries, watchers, watch, deliveries, last, overlap>>
=============================================================================
