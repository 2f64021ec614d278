-------------------------- MODULE NorthboundProofs --------------------------
(***************************************************************************)
(* Proofs about Northbound, for any number of watches, lists, cells and    *)
(* Puts: what ListMeasurements answers is a snapshot of the store, events  *)
(* keep their order unless their deliveries overlap, what a client hears   *)
(* of and when it hears nothing any more, what can end the process, and    *)
(* which goroutine is there for which at a channel.                        *)
(***************************************************************************)
EXTENDS Northbound, TLAPS

USE NorthboundAssumption DEF Store!Events, Store!NoEntry, storeVars, watching, listing,
    starting, Store!deliveries, Store!entries, Store!Running, Store!Unlocked

\* The steps of ListMeasurements and its collector.
ListStep(l) ==
  \/ List(l)
  \/ EnterEntries(l)
  \/ ListFails(l)
  \/ \E k \in Keys : Collect(l, k)
  \/ LookedUp(l)
  \/ LeaveEntries(l)
  \/ CollectorDone(l)
  \/ Answer(l)

\* They touch nothing of the watches, of deliveries and of the start.
LEMMA ListStepFrame ==
  ASSUME NEW l \in Listers, ListStep(l)
  PROVE  /\ crash = "no"
         /\ UNCHANGED <<puts, watchers, watch, delivery, todo, target, live, crash,
                        last, overlap, handler, holding, done, told, server, start>>
BY DEF ListStep, List, EnterEntries, ListFails, Collect, LookedUp, LeaveEntries,
       CollectorDone, Answer, Store!LockEntries, Store!EntriesEmpty, Store!HandOut,
       Store!UnlockEntries, Store!vars

-----------------------------------------------------------------------------
(* Types *)

LEMMA TypeInit == Init => TypeOK
BY DEF Init, Store!Init, TypeOK, StoreTypes, WatchTypes, ListTypes, Nothing

LEMMA StoreTypeStep ==
  ASSUME TypeOK, [Next]_vars
  PROVE  StoreTypes'
<1>1. ASSUME ServeStarts
      PROVE  StoreTypes'
  BY <1>1 DEF ServeStarts, TypeOK, StoreTypes, WatchTypes, ListTypes
<1>2. ASSUME ServeFails
      PROVE  StoreTypes'
  BY <1>2 DEF ServeFails, TypeOK, StoreTypes, WatchTypes, ListTypes
<1>3. ASSUME ServeEnds
      PROVE  StoreTypes'
  BY <1>3 DEF ServeEnds, Store!ProcessEnds, TypeOK, StoreTypes, WatchTypes, ListTypes
<1>4. ASSUME NEW k \in Keys, Put(k)
      PROVE  StoreTypes'
  <2>1. puts + 1 \in 0..MaxPuts
    BY <1>4 DEF Put, Store!Put, TypeOK, StoreTypes
  <2>2. measurements' \in [Keys -> 0..MaxPuts]
    BY <1>4, <2>1 DEF Put, Store!Put, TypeOK, StoreTypes
  <2>3. QED
    BY <1>4, <2>1, <2>2 DEF Put, Store!Put, TypeOK, StoreTypes
<1>5. ASSUME NEW k \in Keys, Delete(k)
      PROVE  StoreTypes'
  <2>1. measurements' \in [Keys -> 0..MaxPuts]
    BY <1>5 DEF Delete, Store!Delete, TypeOK, StoreTypes
  <2>2. QED
    BY <1>5, <2>1 DEF Delete, Store!Delete, TypeOK, StoreTypes
<1>6. ASSUME NEW w \in Watchers, Watch(w)
      PROVE  StoreTypes'
  BY <1>6 DEF Watch, Store!AddWatcher, TypeOK, StoreTypes, WatchTypes, ListTypes
<1>7. ASSUME NEW w \in Watchers, WatchRaces(w)
      PROVE  StoreTypes'
  BY <1>7 DEF WatchRaces, Store!MapRace, TypeOK, StoreTypes, WatchTypes, ListTypes
<1>8. ASSUME NEW e \in Store!Events, NEW w \in Watchers, Receive(e, w)
      PROVE  StoreTypes'
  BY <1>8 DEF Receive, Store!Deliver, TypeOK, StoreTypes, WatchTypes, ListTypes
<1>9. ASSUME NEW w \in Watchers, Tell(w)
      PROVE  StoreTypes'
  BY <1>9 DEF Tell, TypeOK, StoreTypes, WatchTypes, ListTypes
<1>10. ASSUME NEW w \in Watchers, TellFails(w)
      PROVE  StoreTypes'
  BY <1>10 DEF TellFails, TypeOK, StoreTypes, WatchTypes, ListTypes
<1>11. ASSUME NEW w \in Watchers, Leave(w)
      PROVE  StoreTypes'
  BY <1>11 DEF Leave, TypeOK, StoreTypes, WatchTypes, ListTypes
<1>12. ASSUME NEW w \in Watchers, LoopEnds(w)
      PROVE  StoreTypes'
  BY <1>12 DEF LoopEnds, TypeOK, StoreTypes, WatchTypes, ListTypes
<1>13. ASSUME NEW w \in Watchers, Remove(w)
      PROVE  StoreTypes'
  BY <1>13 DEF Remove, Store!RemoveWatcher, Store!Remaining, TypeOK, StoreTypes, WatchTypes,
       ListTypes
<1>14. ASSUME NEW w \in Watchers, CloseWatch(w)
      PROVE  StoreTypes'
  BY <1>14 DEF CloseWatch, Store!CloseChannel, TypeOK, StoreTypes, WatchTypes, ListTypes
<1>15. ASSUME NEW e \in Store!Events, Delivery(e)
      PROVE  StoreTypes'
  BY <1>15 DEF Delivery, Store!BeginDelivery, Store!NextWatcher, Store!EndDelivery,
       Store!SendOnClosed, TypeOK, StoreTypes, WatchTypes, ListTypes
<1>16. ASSUME NEW l \in Listers, List(l)
      PROVE  StoreTypes'
  BY <1>16 DEF List, TypeOK, StoreTypes, WatchTypes, ListTypes
<1>17. ASSUME NEW l \in Listers, EnterEntries(l)
      PROVE  StoreTypes'
  BY <1>17 DEF EnterEntries, Store!LockEntries, Store!Stored, TypeOK, StoreTypes, WatchTypes,
       ListTypes
<1>18. ASSUME NEW l \in Listers, ListFails(l)
      PROVE  StoreTypes'
  BY <1>18 DEF ListFails, Store!EntriesEmpty, Store!vars, TypeOK, StoreTypes, WatchTypes,
       ListTypes
<1>19. ASSUME NEW l \in Listers, NEW k \in Keys, Collect(l, k)
      PROVE  StoreTypes'
  BY <1>19 DEF Collect, Store!HandOut, TypeOK, StoreTypes, WatchTypes, ListTypes
<1>20. ASSUME NEW l \in Listers, LookedUp(l)
      PROVE  StoreTypes'
  BY <1>20 DEF LookedUp, TypeOK, StoreTypes, WatchTypes, ListTypes
<1>21. ASSUME NEW l \in Listers, LeaveEntries(l)
      PROVE  StoreTypes'
  BY <1>21 DEF LeaveEntries, Store!UnlockEntries, TypeOK, StoreTypes, WatchTypes, ListTypes
<1>22. ASSUME NEW l \in Listers, CollectorDone(l)
      PROVE  StoreTypes'
  BY <1>22 DEF CollectorDone, TypeOK, StoreTypes, WatchTypes, ListTypes
<1>23. ASSUME NEW l \in Listers, Answer(l)
      PROVE  StoreTypes'
  BY <1>23 DEF Answer, TypeOK, StoreTypes, WatchTypes, ListTypes
<1>24. CASE UNCHANGED vars
  BY <1>24 DEF vars, TypeOK, StoreTypes, WatchTypes, ListTypes
<1>25. QED
  BY <1>1, <1>2, <1>3, <1>4, <1>5, <1>6, <1>7, <1>8, <1>9, <1>10, <1>11, <1>12, <1>13, <1>14,
       <1>15, <1>16, <1>17, <1>18, <1>19, <1>20, <1>21, <1>22, <1>23, <1>24 DEF Next

LEMMA WatchTypeStep ==
  ASSUME TypeOK, [Next]_vars
  PROVE  WatchTypes'
<1>1. ASSUME ServeStarts
      PROVE  WatchTypes'
  BY <1>1 DEF ServeStarts, TypeOK, StoreTypes, WatchTypes
<1>2. ASSUME ServeFails
      PROVE  WatchTypes'
  BY <1>2 DEF ServeFails, TypeOK, StoreTypes, WatchTypes
<1>3. ASSUME ServeEnds
      PROVE  WatchTypes'
  BY <1>3 DEF ServeEnds, Store!ProcessEnds, TypeOK, StoreTypes, WatchTypes
<1>4. ASSUME NEW k \in Keys, Put(k)
      PROVE  WatchTypes'
  BY <1>4 DEF Put, Store!Put, TypeOK, StoreTypes, WatchTypes
<1>5. ASSUME NEW k \in Keys, Delete(k)
      PROVE  WatchTypes'
  BY <1>5 DEF Delete, Store!Delete, TypeOK, StoreTypes, WatchTypes
<1>6. ASSUME NEW w \in Watchers, Watch(w)
      PROVE  WatchTypes'
  BY <1>6 DEF Watch, Store!AddWatcher, TypeOK, StoreTypes, WatchTypes
<1>7. ASSUME NEW w \in Watchers, WatchRaces(w)
      PROVE  WatchTypes'
  BY <1>7 DEF WatchRaces, Store!MapRace, TypeOK, StoreTypes, WatchTypes
<1>8. ASSUME NEW e \in Store!Events, NEW w \in Watchers, Receive(e, w)
      PROVE  WatchTypes'
  BY <1>8 DEF Receive, Store!Deliver, TypeOK, StoreTypes, WatchTypes
<1>9. ASSUME NEW w \in Watchers, Tell(w)
      PROVE  WatchTypes'
  BY <1>9 DEF Tell, TypeOK, StoreTypes, WatchTypes
<1>10. ASSUME NEW w \in Watchers, TellFails(w)
      PROVE  WatchTypes'
  BY <1>10 DEF TellFails, TypeOK, StoreTypes, WatchTypes
<1>11. ASSUME NEW w \in Watchers, Leave(w)
      PROVE  WatchTypes'
  BY <1>11 DEF Leave, TypeOK, StoreTypes, WatchTypes
<1>12. ASSUME NEW w \in Watchers, LoopEnds(w)
      PROVE  WatchTypes'
  BY <1>12 DEF LoopEnds, TypeOK, StoreTypes, WatchTypes
<1>13. ASSUME NEW w \in Watchers, Remove(w)
      PROVE  WatchTypes'
  BY SMTT(30), <1>13 DEF Remove, Store!RemoveWatcher, Store!Remaining, TypeOK, StoreTypes, WatchTypes
<1>14. ASSUME NEW w \in Watchers, CloseWatch(w)
      PROVE  WatchTypes'
  BY <1>14 DEF CloseWatch, Store!CloseChannel, TypeOK, StoreTypes, WatchTypes
<1>15. ASSUME NEW e \in Store!Events, Delivery(e)
      PROVE  WatchTypes'
  <2>1. CASE Store!BeginDelivery(e)
    BY <1>15, <2>1 DEF Delivery, Store!BeginDelivery, TypeOK, WatchTypes
  <2>2. ASSUME NEW w \in Watchers, Store!NextWatcher(e, w)
        PROVE  WatchTypes'
    BY <1>15, <2>2 DEF Delivery, Store!NextWatcher, TypeOK, WatchTypes
  <2>3. CASE Store!EndDelivery(e)
    BY <1>15, <2>3 DEF Delivery, Store!EndDelivery, TypeOK, WatchTypes
  <2>4. CASE Store!SendOnClosed(e)
    BY <1>15, <2>4 DEF Delivery, Store!SendOnClosed, TypeOK, WatchTypes
  <2>5. QED
    BY <1>15, <2>1, <2>2, <2>3, <2>4 DEF Delivery
<1>16. ASSUME NEW l \in Listers, List(l)
      PROVE  WatchTypes'
  BY <1>16 DEF List, TypeOK, StoreTypes, WatchTypes
<1>17. ASSUME NEW l \in Listers, EnterEntries(l)
      PROVE  WatchTypes'
  BY <1>17 DEF EnterEntries, Store!LockEntries, Store!Stored, TypeOK, StoreTypes, WatchTypes
<1>18. ASSUME NEW l \in Listers, ListFails(l)
      PROVE  WatchTypes'
  BY <1>18 DEF ListFails, Store!EntriesEmpty, Store!vars, TypeOK, StoreTypes, WatchTypes
<1>19. ASSUME NEW l \in Listers, NEW k \in Keys, Collect(l, k)
      PROVE  WatchTypes'
  BY <1>19 DEF Collect, Store!HandOut, TypeOK, StoreTypes, WatchTypes
<1>20. ASSUME NEW l \in Listers, LookedUp(l)
      PROVE  WatchTypes'
  BY <1>20 DEF LookedUp, TypeOK, StoreTypes, WatchTypes
<1>21. ASSUME NEW l \in Listers, LeaveEntries(l)
      PROVE  WatchTypes'
  BY <1>21 DEF LeaveEntries, Store!UnlockEntries, TypeOK, StoreTypes, WatchTypes
<1>22. ASSUME NEW l \in Listers, CollectorDone(l)
      PROVE  WatchTypes'
  BY <1>22 DEF CollectorDone, TypeOK, StoreTypes, WatchTypes
<1>23. ASSUME NEW l \in Listers, Answer(l)
      PROVE  WatchTypes'
  BY <1>23 DEF Answer, TypeOK, StoreTypes, WatchTypes
<1>24. CASE UNCHANGED vars
  BY <1>24 DEF vars, TypeOK, StoreTypes, WatchTypes
<1>25. QED
  BY <1>1, <1>2, <1>3, <1>4, <1>5, <1>6, <1>7, <1>8, <1>9, <1>10, <1>11, <1>12, <1>13, <1>14,
       <1>15, <1>16, <1>17, <1>18, <1>19, <1>20, <1>21, <1>22, <1>23, <1>24 DEF Next

LEMMA ListTypeStep ==
  ASSUME TypeOK, [Next]_vars
  PROVE  ListTypes'
<1>1. ASSUME ServeStarts
      PROVE  ListTypes'
  BY <1>1 DEF ServeStarts, TypeOK, StoreTypes, ListTypes, Nothing
<1>2. ASSUME ServeFails
      PROVE  ListTypes'
  BY <1>2 DEF ServeFails, TypeOK, StoreTypes, ListTypes, Nothing
<1>3. ASSUME ServeEnds
      PROVE  ListTypes'
  BY <1>3 DEF ServeEnds, Store!ProcessEnds, TypeOK, StoreTypes, ListTypes, Nothing
<1>4. ASSUME NEW k \in Keys, Put(k)
      PROVE  ListTypes'
  BY <1>4 DEF Put, Store!Put, TypeOK, StoreTypes, ListTypes, Nothing
<1>5. ASSUME NEW k \in Keys, Delete(k)
      PROVE  ListTypes'
  BY <1>5 DEF Delete, Store!Delete, TypeOK, StoreTypes, ListTypes, Nothing
<1>6. ASSUME NEW w \in Watchers, Watch(w)
      PROVE  ListTypes'
  BY <1>6 DEF Watch, Store!AddWatcher, TypeOK, StoreTypes, ListTypes, Nothing
<1>7. ASSUME NEW w \in Watchers, WatchRaces(w)
      PROVE  ListTypes'
  BY <1>7 DEF WatchRaces, Store!MapRace, TypeOK, StoreTypes, ListTypes, Nothing
<1>8. ASSUME NEW e \in Store!Events, NEW w \in Watchers, Receive(e, w)
      PROVE  ListTypes'
  BY <1>8 DEF Receive, Store!Deliver, TypeOK, StoreTypes, ListTypes, Nothing
<1>9. ASSUME NEW w \in Watchers, Tell(w)
      PROVE  ListTypes'
  BY <1>9 DEF Tell, TypeOK, StoreTypes, ListTypes, Nothing
<1>10. ASSUME NEW w \in Watchers, TellFails(w)
      PROVE  ListTypes'
  BY <1>10 DEF TellFails, TypeOK, StoreTypes, ListTypes, Nothing
<1>11. ASSUME NEW w \in Watchers, Leave(w)
      PROVE  ListTypes'
  BY <1>11 DEF Leave, TypeOK, StoreTypes, ListTypes, Nothing
<1>12. ASSUME NEW w \in Watchers, LoopEnds(w)
      PROVE  ListTypes'
  BY <1>12 DEF LoopEnds, TypeOK, StoreTypes, ListTypes, Nothing
<1>13. ASSUME NEW w \in Watchers, Remove(w)
      PROVE  ListTypes'
  BY <1>13 DEF Remove, Store!RemoveWatcher, Store!Remaining, TypeOK, StoreTypes, ListTypes,
       Nothing
<1>14. ASSUME NEW w \in Watchers, CloseWatch(w)
      PROVE  ListTypes'
  BY <1>14 DEF CloseWatch, Store!CloseChannel, TypeOK, StoreTypes, ListTypes, Nothing
<1>15. ASSUME NEW e \in Store!Events, Delivery(e)
      PROVE  ListTypes'
  BY <1>15 DEF Delivery, Store!BeginDelivery, Store!NextWatcher, Store!EndDelivery,
       Store!SendOnClosed, TypeOK, StoreTypes, ListTypes, Nothing
<1>16. ASSUME NEW l \in Listers, List(l)
      PROVE  ListTypes'
  BY <1>16 DEF List, TypeOK, StoreTypes, ListTypes, Nothing
<1>17. ASSUME NEW l \in Listers, EnterEntries(l)
      PROVE  ListTypes'
  BY <1>17 DEF EnterEntries, Store!LockEntries, Store!Stored, TypeOK, StoreTypes, ListTypes,
       Nothing
<1>18. ASSUME NEW l \in Listers, ListFails(l)
      PROVE  ListTypes'
  BY <1>18 DEF ListFails, Store!EntriesEmpty, Store!vars, TypeOK, StoreTypes, ListTypes, Nothing
<1>19. ASSUME NEW l \in Listers, NEW k \in Keys, Collect(l, k)
      PROVE  ListTypes'
  BY <1>19 DEF Collect, Store!HandOut, TypeOK, StoreTypes, ListTypes, Nothing
<1>20. ASSUME NEW l \in Listers, LookedUp(l)
      PROVE  ListTypes'
  <2>1. looking[l].entry \in 0..MaxPuts
    BY DEF TypeOK, ListTypes
  <2>2. response[l] \in [Keys -> 0..MaxPuts]
    BY DEF TypeOK, ListTypes
  <2>3. [response[l] EXCEPT ![looking[l].key] = looking[l].entry] \in [Keys -> 0..MaxPuts]
    BY <2>1, <2>2
  <2>4. response' \in [Listers -> [Keys -> 0..MaxPuts]]
    BY <1>20, <2>3 DEF LookedUp, TypeOK, ListTypes
  <2>5. looking' \in [Listers -> [key : Keys \cup {Nobody}, entry : 0..MaxPuts]]
    <3>1. Nothing \in [key : Keys \cup {Nobody}, entry : 0..MaxPuts]
      BY DEF Nothing
    <3>2. QED
      BY <1>20, <3>1 DEF LookedUp, TypeOK, ListTypes
  <2>6. QED
    BY <1>20, <2>4, <2>5 DEF LookedUp, TypeOK, ListTypes
<1>21. ASSUME NEW l \in Listers, LeaveEntries(l)
      PROVE  ListTypes'
  BY <1>21 DEF LeaveEntries, Store!UnlockEntries, TypeOK, StoreTypes, ListTypes, Nothing
<1>22. ASSUME NEW l \in Listers, CollectorDone(l)
      PROVE  ListTypes'
  BY <1>22 DEF CollectorDone, TypeOK, StoreTypes, ListTypes, Nothing
<1>23. ASSUME NEW l \in Listers, Answer(l)
      PROVE  ListTypes'
  BY <1>23 DEF Answer, TypeOK, StoreTypes, ListTypes, Nothing
<1>24. CASE UNCHANGED vars
  BY <1>24 DEF vars, TypeOK, StoreTypes, ListTypes, Nothing
<1>25. QED
  BY <1>1, <1>2, <1>3, <1>4, <1>5, <1>6, <1>7, <1>8, <1>9, <1>10, <1>11, <1>12, <1>13, <1>14,
       <1>15, <1>16, <1>17, <1>18, <1>19, <1>20, <1>21, <1>22, <1>23, <1>24 DEF Next

LEMMA TypeStep == TypeOK /\ [Next]_vars => TypeOK'
BY StoreTypeStep, WatchTypeStep, ListTypeStep DEF TypeOK

-----------------------------------------------------------------------------
(* ListMeasurements *)

LEMMA ListInit == Init => ListInv /\ ListIsSnapshot
BY DEF Init, Store!Init, ListInv, ListState, ListIsSnapshot

\* The state of a lister depends on nothing else.
LEMMA ListFrame ==
  ASSUME NEW l \in Listers, ListState(l),
         mu' = l <=> mu = l, mu = l => UNCHANGED <<measurements, left>>,
         list'[l] = list[l], collector'[l] = collector[l], looking'[l] = looking[l],
         response'[l] = response[l], snapshot'[l] = snapshot[l]
  PROVE  ListState(l)'
BY DEF ListState

LEMMA ListStepInv ==
  ASSUME TypeOK, ListInv, [Next]_vars
  PROVE  ListInv'
<1>1. ASSUME NEW l \in Listers, List(l)
      PROVE  ListInv'
  <2>1. ListState(l)'
    <3>1. /\ list[l] = "none" /\ list'[l] = "called" /\ collector'[l] = "ranging"
          /\ UNCHANGED <<mu, measurements, response>>
      BY <1>1 DEF List, TypeOK, ListTypes
    <3>2. mu # l /\ response[l] = [k \in Keys |-> 0]
      BY <3>1 DEF ListInv, ListState
    <3>3. QED
      BY <3>1, <3>2 DEF ListState
  <2>2. ASSUME NEW x \in Listers \ {l} PROVE ListState(x)'
    BY <1>1, <2>2, ListFrame DEF List, TypeOK, StoreTypes, ListTypes, ListInv
  <2>3. QED
    BY <2>1, <2>2 DEF ListInv
<1>2. ASSUME NEW l \in Listers, EnterEntries(l)
      PROVE  ListInv'
  <2>1. ListState(l)'
    <3>1. /\ mu' = l /\ list'[l] = "handing out"
          /\ snapshot'[l] = measurements /\ measurements' = measurements
          /\ left' = {k \in Keys : measurements[k] # 0}
          /\ response' = response /\ collector' = collector
      BY <1>2 DEF EnterEntries, Store!LockEntries, Store!Stored, TypeOK, ListTypes
    <3>2. /\ response[l] = [k \in Keys |-> 0]
          /\ collector[l] \notin {"looking up", "offering done"}
      BY <1>2 DEF EnterEntries, ListInv, ListState
    <3>3. QED
      BY <3>1, <3>2 DEF ListState
  <2>2. ASSUME NEW x \in Listers \ {l} PROVE ListState(x)'
    BY <1>2, <2>2, ListFrame DEF EnterEntries, Store!LockEntries, Store!Stored, TypeOK,
         StoreTypes, ListTypes, ListInv
  <2>3. QED
    BY <2>1, <2>2 DEF ListInv
<1>3. ASSUME NEW l \in Listers, ListFails(l)
      PROVE  ListInv'
  <2>1. ListState(l)'
    <3>1. /\ list[l] = "called" /\ list'[l] = "failed"
          /\ UNCHANGED <<mu, measurements, collector, response, looking, snapshot>>
      BY <1>3 DEF ListFails, Store!EntriesEmpty, Store!vars, TypeOK, ListTypes
    <3>2. mu # l /\ collector[l] \notin {"looking up", "offering done"}
      BY <3>1 DEF ListInv, ListState
    <3>3. QED
      BY <3>1, <3>2 DEF ListState
  <2>2. ASSUME NEW x \in Listers \ {l} PROVE ListState(x)'
    BY <1>3, <2>2, ListFrame DEF ListFails, Store!EntriesEmpty, Store!vars, TypeOK, StoreTypes,
         ListTypes, ListInv
  <2>3. QED
    BY <2>1, <2>2 DEF ListInv
<1>4. ASSUME NEW l \in Listers, NEW k \in Keys, Collect(l, k)
      PROVE  ListInv'
  <2>1. ListState(l)'
    BY <1>4 DEF Collect, Store!HandOut, TypeOK, StoreTypes, ListTypes, ListInv, ListState
  <2>2. ASSUME NEW x \in Listers \ {l} PROVE ListState(x)'
    BY <1>4, <2>2, ListFrame DEF Collect, Store!HandOut, TypeOK, StoreTypes, ListTypes, ListInv
  <2>3. QED
    BY <2>1, <2>2 DEF ListInv
<1>5. ASSUME NEW l \in Listers, LookedUp(l)
      PROVE  ListInv'
  <2>1. ListState(l)'
    <3> DEFINE key == looking[l].key
    <3>1. /\ list[l] \in {"handing out", "awaiting"}
          /\ key \in Keys /\ looking[l].entry = snapshot[l][key]
          /\ mu = l <=> list[l] = "handing out"
          /\ mu = l => measurements = snapshot[l]
      BY <1>5 DEF LookedUp, ListInv, ListState
    <3>2. /\ UNCHANGED <<mu, left, measurements, list, snapshot>>
          /\ collector'[l] = "ranging"
          /\ response'[l] = [response[l] EXCEPT ![key] = looking[l].entry]
      BY <1>5 DEF LookedUp, TypeOK, ListTypes
    <3>3. response[l] \in [Keys -> 0..MaxPuts]
      BY DEF TypeOK, ListTypes
    <3>4. ASSUME NEW k \in Keys, ~(mu = l /\ k \in left)
          PROVE  response'[l][k] = snapshot[l][k]
      <4>1. response[l][k] = snapshot[l][k] \/ key = k
        BY <3>1, <3>4 DEF ListInv, ListState
      <4>2. CASE key = k
        BY <3>1, <3>2, <3>3, <4>2
      <4>3. CASE key # k
        BY <3>2, <3>3, <4>1, <4>3
      <4>4. QED
        BY <4>2, <4>3
    <3>5. QED
      BY <3>1, <3>2, <3>4 DEF ListState
  <2>2. ASSUME NEW x \in Listers \ {l} PROVE ListState(x)'
    BY <1>5, <2>2, ListFrame DEF LookedUp, TypeOK, StoreTypes, ListTypes, ListInv
  <2>3. QED
    BY <2>1, <2>2 DEF ListInv
<1>6. ASSUME NEW l \in Listers, LeaveEntries(l)
      PROVE  ListInv'
  <2>1. ListState(l)'
    BY <1>6 DEF LeaveEntries, Store!UnlockEntries, TypeOK, StoreTypes, ListTypes, ListInv,
         ListState
  <2>2. ASSUME NEW x \in Listers \ {l} PROVE ListState(x)'
    BY <1>6, <2>2, ListFrame DEF LeaveEntries, Store!UnlockEntries, TypeOK, StoreTypes,
         ListTypes, ListInv
  <2>3. QED
    BY <2>1, <2>2 DEF ListInv
<1>7. ASSUME NEW l \in Listers, CollectorDone(l)
      PROVE  ListInv'
  <2>1. ListState(l)'
    BY <1>7 DEF CollectorDone, TypeOK, StoreTypes, ListTypes, ListInv, ListState
  <2>2. ASSUME NEW x \in Listers \ {l} PROVE ListState(x)'
    BY <1>7, <2>2, ListFrame DEF CollectorDone, TypeOK, StoreTypes, ListTypes, ListInv
  <2>3. QED
    BY <2>1, <2>2 DEF ListInv
<1>8. ASSUME NEW l \in Listers, Answer(l)
      PROVE  ListInv'
  <2>1. ListState(l)'
    BY <1>8 DEF Answer, TypeOK, StoreTypes, ListTypes, ListInv, ListState
  <2>2. ASSUME NEW x \in Listers \ {l} PROVE ListState(x)'
    BY <1>8, <2>2, ListFrame DEF Answer, TypeOK, StoreTypes, ListTypes, ListInv
  <2>3. QED
    BY <2>1, <2>2 DEF ListInv
<1>9. CASE ServeStarts \/ ServeFails \/ ServeEnds
  BY <1>9, ListFrame DEF ServeStarts, ServeFails, ServeEnds, Store!ProcessEnds, ListInv
<1>10. ASSUME NEW k \in Keys, Put(k) \/ Delete(k)
      PROVE  ListInv'
  BY <1>10, ListFrame DEF Put, Delete, Store!Put, Store!Delete, ListInv
<1>11. ASSUME NEW w \in Watchers,
             \/ Watch(w) \/ WatchRaces(w) \/ Tell(w) \/ TellFails(w) \/ Leave(w)
             \/ LoopEnds(w) \/ Remove(w) \/ CloseWatch(w)
      PROVE  ListInv'
  BY <1>11, ListFrame DEF Watch, Store!AddWatcher, WatchRaces, Store!MapRace, Tell, TellFails,
       Leave, LoopEnds, Remove, Store!RemoveWatcher, Store!Remaining, CloseWatch,
       Store!CloseChannel, ListInv
<1>12. ASSUME NEW e \in Store!Events, Delivery(e) \/ \E w \in Watchers : Receive(e, w)
      PROVE  ListInv'
  BY <1>12, ListFrame DEF Delivery, Store!BeginDelivery, Store!NextWatcher, Store!EndDelivery,
       Store!SendOnClosed, Receive, Store!Deliver, ListInv
<1>13. CASE UNCHANGED vars
  BY <1>13, ListFrame DEF vars, ListInv
<1>14. QED
  BY <1>1, <1>2, <1>3, <1>4, <1>5, <1>6, <1>7, <1>8, <1>9, <1>10, <1>11, <1>12, <1>13 DEF Next

LEMMA SnapshotStep ==
  ASSUME TypeOK, TypeOK', ListInv, ListIsSnapshot, [Next]_vars
  PROVE  ListIsSnapshot'
<1> SUFFICES ASSUME NEW l \in Listers, list'[l] = "answered"
             PROVE  response'[l] = snapshot'[l]
  BY DEF ListIsSnapshot
<1>1. CASE Answer(l)
  <2>1. /\ list[l] = "awaiting" /\ collector[l] = "offering done"
        /\ response' = response /\ snapshot' = snapshot
    BY <1>1 DEF Answer
  <2>2. mu # l
    BY <2>1 DEF ListInv, ListState
  <2>3. \A k \in Keys : response[l][k] = snapshot[l][k]
    BY <2>1, <2>2 DEF ListInv, ListState
  <2>4. response[l] \in [Keys -> 0..MaxPuts] /\ snapshot[l] \in [Keys -> 0..MaxPuts]
    BY DEF TypeOK, ListTypes
  <2>5. response[l] = snapshot[l]
    BY <2>3, <2>4
  <2>6. QED
    BY <2>1, <2>5
<1>2. CASE ~Answer(l)
  <2>1. /\ list[l] = "answered"
        /\ response'[l] = response[l] /\ snapshot'[l] = snapshot[l]
    <3>1. ASSUME NEW x \in Listers, ListStep(x)
          PROVE  /\ list[l] = "answered"
                 /\ response'[l] = response[l] /\ snapshot'[l] = snapshot[l]
      <4>1. CASE EnterEntries(x)
        BY <4>1 DEF EnterEntries, TypeOK, ListTypes
      <4>2. CASE LookedUp(x)
        <5>1. list' = list /\ snapshot' = snapshot /\ collector[x] = "looking up"
          BY <4>2 DEF LookedUp
        <5>2. x # l
          BY <5>1 DEF ListInv, ListState
        <5>3. response'[l] = response[l]
          BY ZenonT(60), <4>2, <5>2 DEF LookedUp, TypeOK, ListTypes
        <5>4. QED
          BY <5>1, <5>3
      <4>3. CASE Answer(x)
        BY <1>2, <4>3 DEF Answer, TypeOK, ListTypes
      <4>4. CASE List(x) \/ ListFails(x) \/ LeaveEntries(x) \/ CollectorDone(x)
                 \/ \E k \in Keys : Collect(x, k)
        BY <4>4 DEF List, ListFails, LeaveEntries, CollectorDone, Collect, TypeOK, ListTypes
      <4>5. QED
        BY <3>1, <4>1, <4>2, <4>3, <4>4 DEF ListStep
    <3>2. CASE ~ \E x \in Listers : ListStep(x)
      <4>1. UNCHANGED listing
        BY <3>2 DEF ListStep, Next, vars, ServeStarts, ServeFails, ServeEnds, Put, Delete, Watch,
                    WatchRaces, Receive, Tell, TellFails, Leave, LoopEnds, Remove, CloseWatch, Delivery
      <4>2. QED
        BY <4>1
    <3>3. QED
      BY <3>1, <3>2
  <2>2. QED
    BY <2>1 DEF ListIsSnapshot
<1>3. QED
  BY <1>1, <1>2

-----------------------------------------------------------------------------
(* What can end the process *)

LEMMA RemovalInit == Init => RemovalInv /\ PanicCauses
BY DEF Init, Store!Init, RemovalInv, DeliveryState, PanicCauses

LEMMA RemovalFrame ==
  ASSUME RemovalInv, UNCHANGED <<puts, watchers, watch, delivery, todo, target, live, last, server, start>>,
         done \subseteq done'
  PROVE  RemovalInv'
BY DEF RemovalInv, DeliveryState

LEMMA RemovalStep ==
  ASSUME TypeOK, RemovalInv, [Next]_vars
  PROVE  RemovalInv'
<1>1. ASSUME ServeStarts
      PROVE  RemovalInv'
  BY <1>1 DEF ServeStarts, RemovalInv, DeliveryState
<1>2. ASSUME ServeEnds
      PROVE  RemovalInv'
  BY <1>2 DEF ServeEnds, Store!ProcessEnds, RemovalInv, DeliveryState
<1>3. ASSUME NEW k \in Keys, Put(k)
      PROVE  RemovalInv'
  BY <1>3 DEF Put, Store!Put, TypeOK, StoreTypes, WatchTypes, RemovalInv, DeliveryState
<1>4. ASSUME NEW w \in Watchers, Watch(w)
      PROVE  RemovalInv'
  BY <1>4 DEF Watch, Store!AddWatcher, TypeOK, StoreTypes, WatchTypes, RemovalInv, DeliveryState
<1>5. ASSUME NEW e \in Store!Events, NEW w \in Watchers, Receive(e, w)
      PROVE  RemovalInv'
  BY <1>5 DEF Receive, Store!Deliver, TypeOK, StoreTypes, WatchTypes, RemovalInv, DeliveryState
<1>6. ASSUME NEW w \in Watchers, Remove(w)
      PROVE  RemovalInv'
  BY SMTT(30), <1>6 DEF Remove, Store!RemoveWatcher, Store!Remaining, TypeOK, StoreTypes, WatchTypes,
       RemovalInv, DeliveryState
<1>7. ASSUME NEW w \in Watchers, CloseWatch(w)
      PROVE  RemovalInv'
  BY <1>7 DEF CloseWatch, Store!CloseChannel, TypeOK, StoreTypes, WatchTypes, RemovalInv,
       DeliveryState
<1>8. ASSUME NEW e \in Store!Events, Delivery(e)
      PROVE  RemovalInv'
  <2>1. CASE Store!BeginDelivery(e)
    <3>1. /\ delivery'[e] = "ranging" /\ todo'[e] = watchers
          /\ target'[e] = target[e] /\ target[e] = Nobody /\ e <= puts
      BY <1>8, <2>1 DEF Delivery, Store!BeginDelivery, TypeOK, WatchTypes, RemovalInv,
           DeliveryState
    <3>2. /\ UNCHANGED <<puts, watch, watchers, last, done, server, start>>
          /\ \A x \in Store!Events \ {e} :
               /\ UNCHANGED <<delivery[x], todo[x], target[x]>>
               /\ x \in live' <=> x \in live
      BY <1>8, <2>1 DEF Delivery, Store!BeginDelivery, TypeOK, WatchTypes, RemovalInv
    <3>3. DeliveryState(e)'
      BY <3>1, <3>2 DEF DeliveryState, RemovalInv, TypeOK, WatchTypes
    <3>4. ASSUME NEW x \in Store!Events \ {e}
          PROVE  DeliveryState(x)'
      BY <3>2 DEF DeliveryState, RemovalInv
    <3>5. QED
      BY <3>2, <3>3, <3>4 DEF RemovalInv
  <2>2. ASSUME NEW w \in Watchers, Store!NextWatcher(e, w)
        PROVE  RemovalInv'
    BY <1>8, <2>2 DEF Delivery, Store!NextWatcher, TypeOK, StoreTypes, WatchTypes, RemovalInv,
         DeliveryState
  <2>3. CASE Store!EndDelivery(e)
    <3>1. /\ delivery'[e] = "done" /\ todo'[e] = {} /\ e \notin live'
          /\ target'[e] = target[e] /\ target[e] = Nobody /\ e <= puts
      BY <1>8, <2>3 DEF Delivery, Store!EndDelivery, TypeOK, WatchTypes, RemovalInv, DeliveryState
    <3>2. /\ UNCHANGED <<puts, watch, watchers, last, done, server, start>>
          /\ \A x \in Store!Events \ {e} :
               /\ UNCHANGED <<delivery[x], todo[x], target[x]>>
               /\ x \in live' <=> x \in live
      BY <1>8, <2>3 DEF Delivery, Store!EndDelivery, TypeOK, WatchTypes, RemovalInv
    <3>3. DeliveryState(e)'
      BY <3>1, <3>2 DEF DeliveryState, RemovalInv, TypeOK, WatchTypes
    <3>4. ASSUME NEW x \in Store!Events \ {e}
          PROVE  DeliveryState(x)'
      BY <3>2 DEF DeliveryState, RemovalInv
    <3>5. QED
      BY <3>2, <3>3, <3>4 DEF RemovalInv
  <2>4. CASE Store!SendOnClosed(e)
    BY <1>8, <2>4, RemovalFrame DEF Delivery, Store!SendOnClosed, TypeOK, StoreTypes,
         WatchTypes, RemovalInv, DeliveryState
  <2>5. QED
    BY <1>8, <2>1, <2>2, <2>3, <2>4 DEF Delivery
<1>9. ASSUME NEW l \in Listers, ListStep(l)
      PROVE  RemovalInv'
  BY <1>9, ListStepFrame, RemovalFrame
<1>10. ASSUME NEW w \in Watchers,
             WatchRaces(w) \/ Tell(w) \/ TellFails(w) \/ Leave(w) \/ LoopEnds(w)
      PROVE  RemovalInv'
  BY <1>10, RemovalFrame DEF WatchRaces, Store!MapRace, Tell, TellFails, Leave, LoopEnds
<1>11. CASE ServeFails \/ \E k \in Keys : Delete(k)
  BY <1>11 DEF ServeFails, Delete, Store!Delete, RemovalInv, DeliveryState
<1>12. CASE UNCHANGED vars
  BY <1>12, RemovalFrame DEF vars
<1>13. QED
  BY <1>1, <1>2, <1>3, <1>4, <1>5, <1>6, <1>7, <1>8, <1>9, <1>10, <1>11, <1>12 DEF Next, ListStep

LEMMA PanicStep ==
  ASSUME TypeOK, RemovalInv, PanicCauses, [Next]_vars
  PROVE  PanicCauses'
<1>1. CASE crash # "no"
  <2>1. UNCHANGED vars
    BY <1>1 DEF Next, vars, ServeStarts, ServeFails, ServeEnds, Put, Delete, Watch, WatchRaces,
       Receive, Tell, TellFails, Leave, LoopEnds, Remove, CloseWatch, Delivery, List, EnterEntries,
       ListFails, Collect, LookedUp, LeaveEntries, CollectorDone, Answer, Store!ProcessEnds,
       Store!Put, Store!Delete, Store!AddWatcher, Store!MapRace, Store!Deliver, Store!RemoveWatcher,
       Store!CloseChannel, Store!BeginDelivery, Store!NextWatcher, Store!EndDelivery,
       Store!SendOnClosed, Store!LockEntries, Store!EntriesEmpty, Store!HandOut, Store!UnlockEntries
  <2>2. QED
    BY <2>1 DEF vars, PanicCauses, Store!UnderWay
<1>2. ASSUME NEW e \in Store!Events, Store!SendOnClosed(e), UNCHANGED <<watching, listing, starting>>
      PROVE  PanicCauses'
  <2>1. /\ delivery[e] = "sending" /\ watch[target[e]] = "closed"
        /\ crash' = "send on closed channel"
        /\ UNCHANGED <<delivery, target, last, done>>
    BY <1>2 DEF Store!SendOnClosed
  <2>2. target[e] \in Watchers
    <3>1. target[e] # Nobody
      BY <2>1 DEF RemovalInv, DeliveryState
    <3>2. QED
      BY <3>1 DEF TypeOK, WatchTypes
  <2>3. target[e] \in done /\ e <= last[target[e]]
    BY <2>1, <2>2 DEF RemovalInv, DeliveryState
  <2>4. QED
    BY <2>1, <2>2, <2>3 DEF PanicCauses
<1>3. ASSUME NEW w \in Watchers, WatchRaces(w)
      PROVE  PanicCauses'
  BY <1>3 DEF WatchRaces, Store!MapRace, PanicCauses, Store!UnderWay
<1>4. CASE ServeEnds
  BY <1>4 DEF ServeEnds, Store!ProcessEnds, PanicCauses, RemovalInv
<1>5. CASE crash' = "no"
  BY <1>5 DEF PanicCauses
<1>6. CASE /\ crash = "no" /\ crash' # "no"
           /\ ~ServeEnds
           /\ ~ \E w \in Watchers : WatchRaces(w)
  <2>1. PICK e \in Store!Events : Delivery(e)
    BY <1>6, ListStepFrame DEF Next, vars, ListStep, ServeStarts, ServeFails, Put, Delete, Watch,
       Receive, Tell, TellFails, Leave, LoopEnds, Remove, CloseWatch, Store!Put, Store!Delete,
       Store!AddWatcher, Store!Deliver, Store!RemoveWatcher, Store!CloseChannel
  <2>2. Store!SendOnClosed(e)
    BY <1>6, <2>1 DEF Delivery, Store!BeginDelivery, Store!NextWatcher, Store!EndDelivery
  <2>3. QED
    BY <1>2, <2>1, <2>2 DEF Delivery
<1>7. QED
  BY <1>1, <1>2, <1>3, <1>4, <1>5, <1>6

-----------------------------------------------------------------------------
(* The order of events *)

LEMMA OrderInit == Init => OrderInv /\ OrderUnlessOverlap
BY DEF Init, Store!Init, OrderInv, Told, OrderUnlessOverlap

LEMMA OrderFrame ==
  ASSUME OrderInv, UNCHANGED <<delivery, todo, target, overlap, handler, holding, told>>
  PROVE  OrderInv'
BY DEF OrderInv, Told, Store!UnderWay

LEMMA OrderInvStep ==
  ASSUME TypeOK, RemovalInv, OrderInv, [Next]_vars
  PROVE  OrderInv'
<1>1. ASSUME NEW k \in Keys, Put(k)
      PROVE  OrderInv'
  BY SMTT(30), <1>1 DEF Put, Store!Put, TypeOK, StoreTypes, WatchTypes, RemovalInv, DeliveryState,
       OrderInv, Told, Store!UnderWay
<1>2. ASSUME NEW w \in Watchers, Watch(w)
      PROVE  OrderInv'
  BY SMTT(30), <1>2 DEF Watch, Store!AddWatcher, TypeOK, StoreTypes, WatchTypes, RemovalInv,
       DeliveryState, OrderInv, Told, Store!UnderWay
<1>3. ASSUME NEW e \in Store!Events, NEW w \in Watchers, Receive(e, w)
      PROVE  OrderInv'
  BY SMTT(30), <1>3 DEF Receive, Store!Deliver, TypeOK, StoreTypes, WatchTypes, RemovalInv, DeliveryState,
       OrderInv, Told, Store!UnderWay
<1>4. ASSUME NEW w \in Watchers, Tell(w)
      PROVE  OrderInv'
  BY SMTT(30), <1>4 DEF Tell, TypeOK, StoreTypes, WatchTypes, RemovalInv, DeliveryState, OrderInv, Told,
       Store!UnderWay
<1>5. ASSUME NEW w \in Watchers, TellFails(w)
      PROVE  OrderInv'
  BY <1>5 DEF TellFails, TypeOK, StoreTypes, WatchTypes, RemovalInv, DeliveryState, OrderInv,
       Told, Store!UnderWay
<1>6. ASSUME NEW w \in Watchers, LoopEnds(w)
      PROVE  OrderInv'
  BY <1>6 DEF LoopEnds, TypeOK, StoreTypes, WatchTypes, RemovalInv, DeliveryState, OrderInv,
       Told, Store!UnderWay
<1>7. ASSUME NEW e \in Store!Events, Delivery(e)
      PROVE  OrderInv'
  <2>1. CASE Store!BeginDelivery(e)
    BY <1>7, <2>1 DEF Delivery, Store!BeginDelivery, TypeOK, StoreTypes, WatchTypes, RemovalInv,
         DeliveryState, OrderInv, Told, Store!UnderWay
  <2>2. ASSUME NEW w \in Watchers, Store!NextWatcher(e, w)
        PROVE  OrderInv'
    BY SMTT(30), <1>7, <2>2 DEF Delivery, Store!NextWatcher, TypeOK, StoreTypes, WatchTypes, RemovalInv,
         DeliveryState, OrderInv, Told, Store!UnderWay
  <2>3. CASE Store!EndDelivery(e)
    BY <1>7, <2>3 DEF Delivery, Store!EndDelivery, TypeOK, StoreTypes, WatchTypes, RemovalInv,
         DeliveryState, OrderInv, Told, Store!UnderWay
  <2>4. CASE Store!SendOnClosed(e)
    BY <1>7, <2>4, OrderFrame DEF Delivery, Store!SendOnClosed, TypeOK, StoreTypes, WatchTypes,
         RemovalInv, DeliveryState, OrderInv, Told, Store!UnderWay
  <2>5. QED
    BY <1>7, <2>1, <2>2, <2>3, <2>4 DEF Delivery
<1>8. ASSUME NEW l \in Listers, ListStep(l)
      PROVE  OrderInv'
  BY <1>8, ListStepFrame, OrderFrame
<1>9. ASSUME NEW w \in Watchers, WatchRaces(w) \/ Leave(w) \/ Remove(w) \/ CloseWatch(w)
      PROVE  OrderInv'
  BY <1>9, OrderFrame DEF WatchRaces, Store!MapRace, Leave, Remove, CloseWatch,
     Store!RemoveWatcher, Store!CloseChannel
<1>10. CASE ServeStarts \/ ServeFails \/ ServeEnds \/ \E k \in Keys : Delete(k)
  BY <1>10, OrderFrame DEF ServeStarts, ServeFails, ServeEnds, Delete, Store!ProcessEnds,
       Store!Delete
<1>11. CASE UNCHANGED vars
  BY <1>11, OrderFrame DEF vars
<1>12. QED
  BY <1>1, <1>2, <1>3, <1>4, <1>5, <1>6, <1>7, <1>8, <1>9, <1>10, <1>11 DEF Next, ListStep

LEMMA OrderStep ==
  ASSUME TypeOK, OrderInv, OrderUnlessOverlap, [Next]_vars
  PROVE  OrderUnlessOverlap'
<1>1. ASSUME NEW w \in Watchers, Tell(w)
      PROVE  OrderUnlessOverlap'
  <2>1. /\ holding[w] # 0 /\ overlap' = overlap
        /\ told' = [told EXCEPT ![w] = Append(told[w], holding[w])]
    BY <1>1 DEF Tell
  <2>2. told[w] \in Seq(Store!Events) /\ holding[w] \in Store!Events
    BY <2>1 DEF TypeOK, WatchTypes
  <2>3. ASSUME NEW x \in Watchers, NEW i \in 1..Len(told'[x]), NEW j \in 1..Len(told'[x]), i < j
        PROVE  told'[x][i] < told'[x][j] \/ <<told'[x][j], told'[x][i]>> \in overlap
    <3>1. CASE x # w
      <4>1. told'[x] = told[x]
        BY <2>1, <3>1 DEF TypeOK, WatchTypes
      <4>2. QED
        BY <2>3, <4>1 DEF OrderUnlessOverlap
    <3>2. CASE x = w
      <4>1. told'[w] = Append(told[w], holding[w])
        BY <2>1 DEF TypeOK, WatchTypes
      <4>2. /\ i \in 1..Len(told[w]) /\ told'[w][i] = told[w][i]
            /\ j \in 1..Len(told[w]) \/ j = Len(told[w]) + 1
        BY <2>2, <2>3, <3>2, <4>1
      <4>3. CASE j \in 1..Len(told[w])
        <5>1. told'[w][j] = told[w][j]
          BY <2>2, <4>1, <4>3
        <5>2. QED
          BY <2>3, <3>2, <4>2, <4>3, <5>1 DEF OrderUnlessOverlap
      <4>4. CASE j = Len(told[w]) + 1
        <5>1. told'[w][j] = holding[w]
          BY <2>2, <4>1, <4>4
        <5>2. told[w][i] \in Told(w)
          BY <4>2 DEF Told
        <5>3. told[w][i] < holding[w] \/ <<holding[w], told[w][i]>> \in overlap
          BY <2>1, <5>2 DEF OrderInv
        <5>4. QED
          BY <3>2, <4>2, <5>1, <5>3
      <4>5. QED
        BY <4>2, <4>3, <4>4
    <3>3. QED
      BY <3>1, <3>2
  <2>4. QED
    BY <2>1, <2>3 DEF OrderUnlessOverlap
<1>2. CASE ~ \E w \in Watchers : Tell(w)
  <2>1. told' = told /\ overlap \subseteq overlap'
    BY <1>2, ListStepFrame DEF Next, vars, ListStep, ServeStarts, ServeFails, ServeEnds, Put,
         Delete, Watch, WatchRaces, Receive, TellFails,
       Leave, LoopEnds, Remove, CloseWatch, Delivery, Store!ProcessEnds, Store!Put, Store!Delete,
       Store!AddWatcher, Store!MapRace, Store!Deliver, Store!RemoveWatcher, Store!CloseChannel,
       Store!BeginDelivery, Store!NextWatcher, Store!EndDelivery, Store!SendOnClosed
  <2>2. QED
    BY <2>1 DEF OrderUnlessOverlap
<1>3. QED
  BY <1>1, <1>2

-----------------------------------------------------------------------------
(* What a client hears of *)

\* A client has heard only of what was put and, once its watch is removed, of
\* what was put before.
HeardInv ==
  /\ \A w \in Watchers : \A e \in Told(w) \cup {holding[w]} : e <= puts
  /\ NothingAfterRemoval

LEMMA HeardInit == Init => HeardInv
BY DEF Init, Store!Init, HeardInv, Told, NothingAfterRemoval

\* What is held is told next.
LEMMA ToldGrows ==
  ASSUME TypeOK, NEW w \in Watchers, Tell(w)
  PROVE  /\ Told(w)' = Told(w) \cup {holding[w]}
         /\ holding'[w] = Store!NoEntry
         /\ \A x \in Watchers \ {w} : Told(x)' = Told(x) /\ holding'[x] = holding[x]
         /\ UNCHANGED <<puts, watch, last>>
<1>1. /\ holding[w] # 0
      /\ told' = [told EXCEPT ![w] = Append(told[w], holding[w])]
      /\ holding' = [holding EXCEPT ![w] = 0]
      /\ UNCHANGED <<puts, watch, last>>
  BY DEF Tell
<1>2. told[w] \in Seq(Store!Events) /\ holding[w] \in Store!Events
  BY <1>1 DEF TypeOK, WatchTypes
<1>3. told'[w] = Append(told[w], holding[w])
  BY <1>1 DEF TypeOK, WatchTypes
<1>4. /\ Len(told'[w]) = Len(told[w]) + 1
      /\ \A i \in 1..Len(told[w]) : told'[w][i] = told[w][i]
      /\ told'[w][Len(told[w]) + 1] = holding[w]
      /\ Len(told[w]) \in Nat
  BY <1>2, <1>3
<1>5. 1..Len(told'[w]) = 1..Len(told[w]) \cup {Len(told[w]) + 1}
  BY <1>4
<1>6. Told(w)' = Told(w) \cup {holding[w]}
  BY SMTT(30), <1>4, <1>5 DEF Told
<1>7. \A x \in Watchers \ {w} : told'[x] = told[x] /\ holding'[x] = holding[x]
  BY <1>1 DEF TypeOK, WatchTypes
<1>8. holding'[w] = Store!NoEntry
  BY <1>1 DEF TypeOK, WatchTypes
<1>9. QED
  BY SMTT(30), <1>1, <1>6, <1>7, <1>8 DEF Told

LEMMA HeardStep ==
  ASSUME TypeOK, RemovalInv, HeardInv, [Next]_vars
  PROVE  HeardInv'
<1>0. /\ puts \in Nat
      /\ last \in [Watchers -> 0..MaxPuts]
      /\ watch \in [Watchers -> {"none", "open", "removed", "closed"}]
  <2>1. puts \in 0..MaxPuts
    BY DEF TypeOK, StoreTypes
  <2>2. puts \in Nat
    BY <2>1
  <2>3. QED
    BY <2>2 DEF TypeOK, WatchTypes
<1>1. ASSUME NEW w \in Watchers, NEW e \in Told(w) \cup {holding[w]}
       PROVE  e \in Nat
  <2>1. told[w] \in Seq(Store!Events) /\ holding[w] \in 0..MaxPuts
    BY DEF TypeOK, WatchTypes
  <2>2. Told(w) \subseteq Nat
    BY <2>1 DEF Told
  <2>3. QED
    BY <2>1, <2>2
<1>2. CASE UNCHANGED <<puts, watch, last, told, holding>>
  BY <1>2 DEF HeardInv, NothingAfterRemoval, Told
<1>3. ASSUME NEW k \in Keys, Put(k)
      PROVE  HeardInv'
  <2>1. puts' = puts + 1 /\ UNCHANGED <<watch, last, told, holding>>
    BY <1>3 DEF Put, Store!Put
  <2>2. \A w \in Watchers : Told(w)' = Told(w) /\ holding'[w] = holding[w]
    BY <2>1 DEF Told
  <2>3. \A w \in Watchers : \A e \in Told(w) \cup {holding[w]} : e <= puts'
    BY <1>0, <1>1, <2>1 DEF HeardInv
  <2>4. QED
    BY <2>1, <2>2, <2>3 DEF HeardInv, NothingAfterRemoval
<1>4. ASSUME NEW e \in Store!Events, NEW w \in Watchers, Receive(e, w)
      PROVE  HeardInv'
  <2>1. /\ holding' = [holding EXCEPT ![w] = e]
        /\ UNCHANGED <<puts, watch, last, told>>
        /\ delivery[e] = "sending" /\ target[e] = w
    BY <1>4 DEF Receive, Store!Deliver
  <2>2. e <= puts /\ (watch[w] # "open" => e <= last[w])
    BY <2>1 DEF RemovalInv, DeliveryState
  <2>3. holding'[w] = e /\ \A x \in Watchers \ {w} : holding'[x] = holding[x]
    BY <2>1 DEF TypeOK, WatchTypes
  <2>4. ASSUME NEW x \in Watchers, NEW f \in (Told(x) \cup {holding[x]})'
        PROVE  f <= puts' /\ (watch'[x] \in {"removed", "closed"} => f <= last'[x])
    <3>1. (x = w /\ f = e) \/ f \in Told(x) \cup {holding[x]}
      BY <2>1, <2>3, <2>4 DEF Told
    <3>2. QED
      BY <2>1, <2>2, <3>1 DEF HeardInv, NothingAfterRemoval
  <2>5. QED
    BY <2>4 DEF HeardInv, NothingAfterRemoval
<1>5. ASSUME NEW w \in Watchers, Tell(w)
      PROVE  HeardInv'
  BY <1>0, <1>5, <1>1, ToldGrows DEF HeardInv, NothingAfterRemoval
<1>6. ASSUME NEW w \in Watchers, TellFails(w)
      PROVE  HeardInv'
  BY SMTT(30), <1>0, <1>6 DEF TellFails, TypeOK, WatchTypes, HeardInv, NothingAfterRemoval, Told
<1>7. ASSUME NEW w \in Watchers, Remove(w)
      PROVE  HeardInv'
  <2>1. /\ last' = [last EXCEPT ![w] = puts]
        /\ watch' = [watch EXCEPT ![w] = "removed"]
        /\ UNCHANGED <<puts, told, holding>>
    BY <1>7 DEF Remove, Store!RemoveWatcher
  <2>2. QED
    BY <1>0, <2>1 DEF HeardInv, NothingAfterRemoval, Told
<1>8. ASSUME NEW w \in Watchers, Watch(w) \/ CloseWatch(w)
      PROVE  HeardInv'
  <2>1. UNCHANGED <<puts, last, told, holding>>
    BY <1>8 DEF Watch, CloseWatch, Store!AddWatcher, Store!CloseChannel
  <2>2. \A x \in Watchers :
          watch'[x] \in {"removed", "closed"} => watch[x] \in {"removed", "closed"}
    BY <1>0, <1>8 DEF Watch, CloseWatch, Store!AddWatcher, Store!CloseChannel
  <2>3. QED
    BY <2>1, <2>2 DEF HeardInv, NothingAfterRemoval, Told
<1>9. ASSUME NEW l \in Listers, ListStep(l)
      PROVE  HeardInv'
  BY <1>2, <1>9, ListStepFrame
<1>10. ASSUME NEW e \in Store!Events, Delivery(e)
      PROVE  HeardInv'
  BY <1>2, <1>10 DEF Delivery, Store!BeginDelivery, Store!NextWatcher, Store!EndDelivery,
                    Store!SendOnClosed
<1>11. ASSUME NEW w \in Watchers, WatchRaces(w) \/ Leave(w) \/ LoopEnds(w)
       PROVE  HeardInv'
  BY <1>2, <1>11 DEF WatchRaces, Leave, LoopEnds, Store!MapRace
<1>12. CASE ServeStarts \/ ServeFails \/ ServeEnds \/ \E k \in Keys : Delete(k)
  BY <1>2, <1>12 DEF ServeStarts, ServeFails, ServeEnds, Delete, Store!ProcessEnds, Store!Delete
<1>13. CASE UNCHANGED vars
  BY <1>2, <1>13 DEF vars
<1>14. QED
  BY <1>3, <1>4, <1>5, <1>6, <1>7, <1>8, <1>9, <1>10, <1>11, <1>12, <1>13 DEF Next, ListStep

\* Nothing is on its way to w: it is not in the map of watchers, no delivery will
\* still visit it or offers to it, and its handler holds no event.
Silent(w) ==
  /\ watch[w] # "none"
  /\ w \notin watchers
  /\ \A e \in Store!Events : w \notin todo[e] /\ target[e] # w
  /\ holding[w] = Store!NoEntry

LEMMA SilentStep ==
  ASSUME TypeOK, [Next]_vars, NEW w \in Watchers, Silent(w)
  PROVE  Silent(w)' /\ told'[w] = told[w]
<1>1. CASE UNCHANGED <<watch, watchers, todo, target, holding, told>>
  BY <1>1 DEF Silent
<1>2. ASSUME NEW x \in Watchers, Watch(x)
      PROVE  Silent(w)' /\ told'[w] = told[w]
  BY <1>2 DEF Watch, Store!AddWatcher, TypeOK, WatchTypes, Silent
<1>3. ASSUME NEW e \in Store!Events, NEW x \in Watchers, Receive(e, x)
      PROVE  Silent(w)' /\ told'[w] = told[w]
  <2>1. x # w
    BY <1>3 DEF Receive, Store!Deliver, Silent
  <2>2. QED
    BY <1>3, <2>1 DEF Receive, Store!Deliver, TypeOK, WatchTypes, Silent
<1>4. ASSUME NEW x \in Watchers, Tell(x) \/ TellFails(x)
      PROVE  Silent(w)' /\ told'[w] = told[w]
  <2>1. x # w
    BY <1>4 DEF Tell, TellFails, Silent
  <2>2. QED
    BY <1>4, <2>1 DEF Tell, TellFails, TypeOK, WatchTypes, Silent
<1>5. ASSUME NEW x \in Watchers, Remove(x) \/ CloseWatch(x)
      PROVE  Silent(w)' /\ told'[w] = told[w]
  BY <1>5 DEF Remove, CloseWatch, Store!RemoveWatcher, Store!Remaining, Store!CloseChannel,
              TypeOK, WatchTypes, Silent
<1>6. ASSUME NEW e \in Store!Events, Delivery(e)
      PROVE  Silent(w)' /\ told'[w] = told[w]
  <2>1. UNCHANGED <<watch, watchers, holding, told>>
    BY <1>6 DEF Delivery, Store!BeginDelivery, Store!NextWatcher, Store!EndDelivery,
                Store!SendOnClosed
  <2>2. CASE Store!BeginDelivery(e)
    BY <2>1, <2>2 DEF Store!BeginDelivery, TypeOK, WatchTypes, Silent
  <2>3. ASSUME NEW x \in Watchers, Store!NextWatcher(e, x)
        PROVE  Silent(w)'
    BY <2>1, <2>3 DEF Store!NextWatcher, TypeOK, WatchTypes, Silent
  <2>4. CASE Store!EndDelivery(e) \/ Store!SendOnClosed(e)
    BY <2>1, <2>4 DEF Store!EndDelivery, Store!SendOnClosed, Silent
  <2>5. QED
    BY <1>6, <2>1, <2>2, <2>3, <2>4 DEF Delivery
<1>7. ASSUME NEW l \in Listers, ListStep(l)
      PROVE  Silent(w)' /\ told'[w] = told[w]
  BY <1>1, <1>7, ListStepFrame
<1>8. ASSUME NEW x \in Watchers, WatchRaces(x) \/ Leave(x) \/ LoopEnds(x)
      PROVE  Silent(w)' /\ told'[w] = told[w]
  BY <1>1, <1>8 DEF WatchRaces, Leave, LoopEnds, Store!MapRace
<1>9. CASE ServeStarts \/ ServeFails \/ ServeEnds \/ \E k \in Keys : Put(k) \/ Delete(k)
  BY <1>1, <1>9 DEF ServeStarts, ServeFails, ServeEnds, Put, Delete, Store!ProcessEnds,
                    Store!Put, Store!Delete
<1>10. CASE UNCHANGED vars
  BY <1>1, <1>10 DEF vars
<1>11. QED
  BY <1>2, <1>3, <1>4, <1>5, <1>6, <1>7, <1>8, <1>9, <1>10 DEF Next, ListStep

-----------------------------------------------------------------------------
(* ListMeasurements and its collector *)

\* The collector is there for whoever waits for it; after an error of Entries
\* nobody reads done.
CollectorInv ==
  \A l \in Listers :
    /\ list[l] = "called" => collector[l] = "ranging"
    /\ list[l] = "failed" => collector[l] \in {"ranging", "offering done"}
    /\ list[l] = "handing out" => collector[l] \in {"ranging", "looking up"}
    /\ list[l] = "awaiting" => collector[l] \in {"ranging", "looking up", "offering done"}

LEMMA CollectorStep ==
  ASSUME TypeOK, ListInv, CollectorInv, [Next]_vars
  PROVE  CollectorInv'
<1>1. CASE UNCHANGED <<list, collector>>
  BY <1>1 DEF CollectorInv
<1>2. ASSUME NEW l \in Listers, ListStep(l)
      PROVE  CollectorInv'
  <2>1. \A x \in Listers \ {l} : list'[x] = list[x] /\ collector'[x] = collector[x]
    BY <1>2 DEF ListStep, List, EnterEntries, ListFails, Collect, LookedUp, LeaveEntries,
                CollectorDone, Answer, TypeOK, ListTypes
  <2>2. /\ list'[l] = "called" => collector'[l] = "ranging"
        /\ list'[l] = "failed" => collector'[l] \in {"ranging", "offering done"}
        /\ list'[l] = "handing out" => collector'[l] \in {"ranging", "looking up"}
        /\ list'[l] = "awaiting" => collector'[l] \in {"ranging", "looking up", "offering done"}
    <3>1. CASE List(l) \/ EnterEntries(l) \/ ListFails(l) \/ LeaveEntries(l)
      BY <3>1 DEF List, EnterEntries, ListFails, LeaveEntries, TypeOK, ListTypes, CollectorInv
    <3>2. CASE LookedUp(l) \/ CollectorDone(l) \/ Answer(l)
      BY ZenonT(60), <3>2 DEF LookedUp, CollectorDone, Answer, TypeOK, ListTypes, ListInv, ListState,
                  CollectorInv
    <3>3. ASSUME NEW k \in Keys, Collect(l, k)
          PROVE  list'[l] = "handing out" /\ collector'[l] = "looking up"
      BY <3>3 DEF Collect, Store!HandOut, ListInv, ListState, TypeOK, ListTypes
    <3>4. QED
      BY <1>2, <3>1, <3>2, <3>3 DEF ListStep
  <2>3. QED
    BY <2>1, <2>2 DEF CollectorInv
<1>3. CASE ~ \E l \in Listers : ListStep(l)
  <2>1. UNCHANGED listing
    BY <1>3 DEF ListStep, Next, vars, ServeStarts, ServeFails, ServeEnds, Put, Delete, Watch,
                WatchRaces, Receive, Tell, TellFails, Leave, LoopEnds, Remove, CloseWatch, Delivery
  <2>2. QED
    BY <1>1, <2>1
<1>4. QED
  BY <1>2, <1>3

-----------------------------------------------------------------------------
\* Every variable of the service and of its store keeps its type.
THEOREM NorthboundTypeCorrect == Spec => []TypeOK
<1>1. QED
  BY TypeInit, TypeStep, PTL DEF Spec

\* What ListMeasurements answers is the store as it was at one moment of the call
\* (Entries under mu, the collector goroutine, done).
THEOREM NorthboundListIsSnapshot == Spec => []ListIsSnapshot
<1>1. QED
  BY TypeInit, TypeStep, ListInit, ListStepInv, SnapshotStep, PTL DEF Spec

\* A ListMeasurements that found the store empty leaves its collector behind for
\* good: it ranges, then offers done, and nobody reads it (ListMeasurements returns
\* the error of Entries before it comes to done).
THEOREM NorthboundFailedListLeaks ==
  Spec => [](\A l \in Listers :
               list[l] = "failed" => collector[l] \in {"ranging", "offering done"})
<1>1. Init => CollectorInv
  BY DEF Init, CollectorInv
<1>2. CollectorInv => \A l \in Listers :
        list[l] = "failed" => collector[l] \in {"ranging", "offering done"}
  BY DEF CollectorInv
<1>3. QED
  BY <1>1, <1>2, TypeInit, TypeStep, ListInit, ListStepInv, CollectorStep, PTL DEF Spec

\* A lister that holds the lock of the store has a collector that takes entries, or
\* is looking one up and comes back for the next: no goroutine keeps mu for want of
\* a partner at the channel. One that waits for done has a collector that has not
\* ended (Entries, ListMeasurements).
THEOREM NorthboundCollectorServes ==
  Spec => [](\A l \in Listers :
               /\ mu = l => collector[l] \in {"ranging", "looking up"}
               /\ list[l] = "awaiting" =>
                    collector[l] \in {"ranging", "looking up", "offering done"})
<1>1. Init => CollectorInv
  BY DEF Init, CollectorInv
<1>2. ListInv /\ CollectorInv => \A l \in Listers :
        /\ mu = l => collector[l] \in {"ranging", "looking up"}
        /\ list[l] = "awaiting" => collector[l] \in {"ranging", "looking up", "offering done"}
  BY DEF ListInv, ListState, CollectorInv
<1>3. QED
  BY <1>1, <1>2, TypeInit, TypeStep, ListInit, ListStepInv, CollectorStep, PTL DEF Spec

\* WatchMeasurements sends no Put twice, and Puts in their order as long as they
\* are delivered one after the other (Watchers.Send).
THEOREM NorthboundOrder == Spec => []OrderUnlessOverlap
<1>1. QED
  BY TypeInit, TypeStep, RemovalInit, RemovalStep, OrderInit, OrderInvStep, OrderStep, PTL DEF
       Spec

\* A send on a closed channel comes from a Put that preceded the removal of a watch
\* whose context had ended.
THEOREM NorthboundPanicCauses == Spec => []PanicCauses
<1>1. QED
  BY TypeInit, TypeStep, RemovalInit, RemovalStep, PanicStep, PTL DEF Spec

\* A watch hears of nothing that was put after its removal, whenever deliveries
\* begin and however long the handler goes on reading its channel
\* (Watchers.Send, RemoveWatcher, WatchMeasurements).
THEOREM NorthboundNothingAfterRemoval == Spec => []NothingAfterRemoval
<1>1. HeardInv => NothingAfterRemoval
  BY DEF HeardInv
<1>2. QED
  BY <1>1, TypeInit, TypeStep, RemovalInit, RemovalStep, HeardInit, HeardStep, PTL DEF Spec

\* A watch that RemoveWatcher has dropped together with another is never told of
\* anything again, once what was on its way to it has come: nothing puts a
\* watch back into the map. Its client waits for ever, and its context may well
\* not have ended.
THEOREM NorthboundDroppedForGood ==
  Spec => [][\A w \in Watchers : Silent(w) => Silent(w)' /\ told'[w] = told[w]]_vars
<1>1. TypeOK /\ [Next]_vars =>
        [\A w \in Watchers : Silent(w) => Silent(w)' /\ told'[w] = told[w]]_vars
  BY SilentStep
<1>2. QED
  BY <1>1, NorthboundTypeCorrect, PTL DEF Spec
=============================================================================
