---------------------------- MODULE MonitorProofs ----------------------------
(***************************************************************************)
(* Proofs about Monitor: for every set of monitors, when a monitor is      *)
(* stuck, that it stays so, and what brings the process down; when the     *)
(* measurements shown go back; and that the cell entity follows the        *)
(* measurement store as long as one monitor takes all indications.         *)
(***************************************************************************)
EXTENDS Monitor, TLAPS

USE MonitorAssumption DEF stream, store, cell

-----------------------------------------------------------------------------
(* Every set of monitors *)

LEMMA MonitorInit == Init => MonitorInv
<1> SUFFICES ASSUME Init PROVE MonitorInv
  OBVIOUS
<1>1. /\ pc \in [Monitors -> Places]
      /\ current \in [Monitors -> 0..taken]
      /\ start \in [Monitors -> {"waiting", "failed", "cancelled"}]
      /\ errors \in [Monitors -> 0..2]
  BY DEF Init, Places
<1>2. TypeOK
  <2>1. /\ arrived \in 0..MaxArrivals
        /\ taken \in 0..arrived
        /\ entry \in 0..taken
        /\ newest \in 0..taken
        /\ report \in 0..taken
        /\ dropped \subseteq 0..taken
    BY DEF Init
  <2>2. /\ ended \in BOOLEAN
        /\ ctxDone \in BOOLEAN
        /\ crashed \in BOOLEAN
        /\ stale \subseteq Monitors
    BY DEF Init
  <2>3. QED
    BY <1>1, <2>1, <2>2 DEF TypeOK
<1>3. QED
  BY <1>2 DEF Init, MonitorInv, PanicCauses, SecondErrorIsFinal, Stuck

\* The errors monitor m has met, its place and its Start fit together.
MonitorState(m) ==
  /\ pc[m] = "zero" => errors[m] = 1
  /\ errors[m] = 2 => Stuck(m)
  /\ start[m] = "failed" => errors[m] >= 1
  /\ start[m] = "waiting" /\ pc[m] \notin {"recvError", "processError"} => errors[m] = 0
  /\ start[m] = "waiting" => errors[m] <= 1
  /\ start[m] = "failed" /\ Stuck(m) => errors[m] = 2
  /\ pc[m] \in {"recvError", "zero"} => ctxDone \/ ended
  /\ pc[m] \in {"recvError", "processError"} => errors[m] >= 1

LEMMA MonitorByMonitor ==
  MonitorInv <=> TypeOK /\ PanicCauses /\ \A m \in Monitors : MonitorState(m)
BY DEF MonitorInv, SecondErrorIsFinal, MonitorState

\* A monitor whose own variables stay keeps its state.
LEMMA OthersStay ==
  ASSUME NEW m \in Monitors, MonitorState(m),
         pc'[m] = pc[m], start'[m] = start[m], errors'[m] = errors[m],
         ctxDone => ctxDone', ended => ended'
  PROVE  MonitorState(m)'
BY DEF MonitorState, Stuck

\* A step that leaves the process alive does not ask what brought it down.
LEMMA PanicStep ==
  ASSUME TypeOK, PanicCauses, \A m \in Monitors : MonitorState(m), [Next]_vars
  PROVE  PanicCauses'
<1>1. CASE UNCHANGED vars
  BY <1>1 DEF vars, PanicCauses
<1>2. ASSUME NEW m \in Monitors, Panic(m)
      PROVE  PanicCauses'
  <2>1. pc[m] = "malformed" \/ (pc[m] = "zero" /\ errors[m] = 1 /\ (ctxDone \/ ended))
    BY <1>2 DEF Panic, MonitorState
  <2>2. UNCHANGED <<pc, errors, ctxDone, ended>>
    BY <1>2 DEF Panic
  <2>3. QED
    BY <2>1, <2>2 DEF PanicCauses
<1>3. CASE Next /\ ~\E m \in Monitors : Panic(m)
  <2>1. ~crashed'
    BY <1>3
    DEF Next, Arrive, EndStream, CancelContext, CellChanges, DeleteEntry, Recv, RecvFails,
        ReportRecvError, DecodeFails, PutMeasurements, ReadCell, NotACell, UpdateCell,
        TopologyFails, UpdateAnswerLost, ReportProcessError, StartCancelled
  <2>2. QED
    BY <2>1 DEF PanicCauses
<1>4. QED
  BY <1>1, <1>2, <1>3

LEMMA MonitorStep == MonitorInv /\ [Next]_vars => MonitorInv'
<1> SUFFICES ASSUME MonitorInv, [Next]_vars
             PROVE  MonitorInv'
  OBVIOUS
<1>0. TypeOK /\ PanicCauses' /\ \A m \in Monitors : MonitorState(m)
  BY MonitorByMonitor, PanicStep
<1>1. CASE UNCHANGED vars
  BY <1>1 DEF vars, MonitorInv, TypeOK, PanicCauses, SecondErrorIsFinal, Stuck
<1>2. CASE Arrive \/ EndStream \/ CancelContext \/ CellChanges \/ DeleteEntry
  <2>1. TypeOK'
    <3>1. CASE Arrive
      <4>1. arrived' \in 0..MaxArrivals /\ taken' \in 0..arrived'
        BY <1>0, <3>1 DEF Arrive, TypeOK
      <4>2. QED
        BY <1>0, <3>1, <4>1 DEF Arrive, TypeOK
    <3>2. CASE EndStream
      BY <1>0, <3>2 DEF EndStream, TypeOK
    <3>3. CASE CancelContext
      BY <1>0, <3>3 DEF CancelContext, TypeOK
    <3>4. CASE CellChanges
      BY <1>0, <3>4 DEF CellChanges, TypeOK
    <3>5. CASE DeleteEntry
      BY <1>0, <3>5 DEF DeleteEntry, TypeOK
    <3>6. QED
      BY <1>2, <3>1, <3>2, <3>3, <3>4, <3>5
  <2>2. \A m \in Monitors : MonitorState(m)'
    BY <1>0, <1>2, OthersStay DEF Arrive, EndStream, CancelContext, CellChanges, DeleteEntry
  <2>3. QED
    BY <1>0, <2>1, <2>2 DEF MonitorInv, SecondErrorIsFinal, MonitorState
\* A step of one monitor: the others keep their state.
<1>3. ASSUME NEW m \in Monitors, TypeOK', MonitorState(m)',
             \A k \in Monitors \ {m} :
               pc'[k] = pc[k] /\ start'[k] = start[k] /\ errors'[k] = errors[k],
             ctxDone' = ctxDone, ended' = ended
      PROVE  MonitorInv'
  <2>1. \A k \in Monitors \ {m} : MonitorState(k)'
    BY <1>0, <1>3, OthersStay
  <2>2. QED
    BY <1>0, <1>3, <2>1 DEF MonitorInv, SecondErrorIsFinal, MonitorState
<1>4. ASSUME NEW m \in Monitors, Recv(m)
      PROVE  MonitorInv'
  <2>1. taken + 1 \in 0..arrived /\ 0..taken \subseteq 0..(taken + 1)
    BY <1>0, <1>4 DEF Recv, TypeOK
  <2>2. current' \in [Monitors -> 0..taken']
    BY <1>0, <1>4, <2>1 DEF Recv, TypeOK
  <2>3. TypeOK'
    BY <1>0, <1>4, <2>1, <2>2 DEF Recv, Goto, TypeOK, Places
  <2>4. MonitorState(m)'
    BY <1>0, <1>4 DEF Recv, Goto, TypeOK, MonitorState, Stuck
  <2>5. QED
    BY <1>0, <1>3, <1>4, <2>3, <2>4 DEF Recv, Goto, TypeOK
<1>5. ASSUME NEW m \in Monitors, RecvFails(m)
      PROVE  MonitorInv'
  <2>1. errors[m] \in 0..1
    BY <1>0, <1>5 DEF RecvFails, TypeOK, MonitorState, Stuck
  <2>2. TypeOK'
    BY <1>0, <1>5, <2>1 DEF RecvFails, Goto, TypeOK, Places
  <2>3. MonitorState(m)'
    BY <1>0, <1>5, <2>1 DEF RecvFails, Goto, TypeOK, MonitorState, Stuck
  <2>4. QED
    BY <1>0, <1>3, <1>5, <2>2, <2>3 DEF RecvFails, Goto, TypeOK
<1>6. ASSUME NEW m \in Monitors, ReportRecvError(m)
      PROVE  MonitorInv'
  <2>1. TypeOK'
    <3>1. /\ start' \in [Monitors -> {"waiting", "failed", "cancelled"}]
          /\ pc' \in [Monitors -> Places]
      BY <1>0, <1>6 DEF ReportRecvError, Goto, TypeOK, Places
    <3>2. UNCHANGED <<stream, current, errors, store, cell, dropped, crashed>>
      BY <1>6 DEF ReportRecvError
    <3>3. QED
      BY <1>0, <3>1, <3>2 DEF TypeOK, stream
  <2>2. errors[m] = 1 /\ (ctxDone \/ ended)
    <3>1. pc[m] = "recvError" /\ start[m] = "waiting"
      BY <1>6 DEF ReportRecvError
    <3>2. MonitorState(m)
      BY <1>0
    <3>3. errors[m] \in 0..2
      BY <1>0 DEF TypeOK
    <3>4. errors[m] = 1
      BY <3>1, <3>2, <3>3 DEF MonitorState
    <3>5. ctxDone \/ ended
      BY <3>1, <3>2, Zenon DEF MonitorState
    <3>6. QED
      BY <3>4, <3>5
  <2>3. MonitorState(m)'
    BY <1>0, <1>6, <2>2 DEF ReportRecvError, Goto, TypeOK, MonitorState, Stuck
  <2>4. QED
    BY <1>0, <1>3, <1>6, <2>1, <2>3 DEF ReportRecvError, Goto, TypeOK
<1>7. ASSUME NEW m \in Monitors, Panic(m)
      PROVE  MonitorInv'
  <2>1. TypeOK'
    BY <1>0, <1>7 DEF Panic, TypeOK
  <2>2. MonitorState(m)'
    BY <1>0, <1>7, OthersStay DEF Panic
  <2>3. QED
    BY <1>3, <1>7, <2>1, <2>2 DEF Panic
<1>8. ASSUME NEW m \in Monitors, DecodeFails(m) \/ TopologyFails(m)
      PROVE  MonitorInv'
  <2>1. errors[m] \in 0..1 /\ current[m] \in 0..taken
    <3>1. pc[m] \in {"process", "malformed", "locate", "update"}
      BY <1>8 DEF DecodeFails, TopologyFails
    <3>2. QED
      BY <1>0, <3>1 DEF TypeOK, MonitorState, Stuck
  <2>2. TypeOK'
    <3>1. /\ Fail(m)
          /\ UNCHANGED <<stream, current, start, store, cell, crashed>>
      BY <1>8 DEF DecodeFails, TopologyFails
    <3>2. errors' \in [Monitors -> 0..2]
      BY <1>0, <2>1, <3>1 DEF Fail, TypeOK
    <3>3. dropped' \subseteq 0..taken
      BY <1>0, <2>1, <3>1 DEF Fail, TypeOK
    <3>4. pc' \in [Monitors -> Places]
      BY <1>0, <3>1 DEF Fail, Goto, TypeOK, Places
    <3>5. QED
      BY <1>0, <3>1, <3>2, <3>3, <3>4 DEF TypeOK, stream
  <2>3. MonitorState(m)'
    BY <1>0, <1>8, <2>1 DEF DecodeFails, TopologyFails, Fail, Goto, TypeOK, MonitorState, Stuck
  <2>4. QED
    BY <1>0, <1>3, <1>8, <2>2, <2>3 DEF DecodeFails, TopologyFails, Fail, Goto, TypeOK
<1>9. ASSUME NEW m \in Monitors,
             PutMeasurements(m) \/ ReadCell(m) \/ NotACell(m) \/ UpdateCell(m)
      PROVE  MonitorInv'
  <2>1. TypeOK'
    <3>1. CASE PutMeasurements(m)
      <4>1. entry' \in 0..taken /\ newest' \in 0..taken
        BY <1>0, <3>1 DEF PutMeasurements, Put, TypeOK
      <4>2. QED
        BY <1>0, <3>1, <4>1 DEF PutMeasurements, Goto, TypeOK, Places
    <3>2. CASE ReadCell(m)
      BY <1>0, <3>2 DEF ReadCell, Goto, TypeOK, Places
    <3>3. CASE UpdateCell(m)
      BY <1>0, <3>3 DEF UpdateCell, Goto, TypeOK, Places
    <3>4. CASE NotACell(m)
      BY <1>0, <3>4 DEF NotACell, Goto, TypeOK, Places
    <3>5. QED
      BY <1>9, <3>1, <3>2, <3>3, <3>4
  <2>2. MonitorState(m)'
    BY <1>0, <1>9
    DEF PutMeasurements, ReadCell, NotACell, UpdateCell, Goto, TypeOK, MonitorState, Stuck
  <2>3. QED
    BY <1>0, <1>3, <1>9, <2>1, <2>2
    DEF PutMeasurements, ReadCell, NotACell, UpdateCell, Goto, TypeOK
<1>10. ASSUME NEW m \in Monitors, ReportProcessError(m)
       PROVE  MonitorInv'
  <2>1. TypeOK'
    <3>1. /\ start' \in [Monitors -> {"waiting", "failed", "cancelled"}]
          /\ pc' \in [Monitors -> Places]
      BY <1>0, <1>10 DEF ReportProcessError, Goto, TypeOK, Places
    <3>2. QED
      BY <1>0, <1>10, <3>1 DEF ReportProcessError, TypeOK
  <2>2. MonitorState(m)'
    BY <1>0, <1>10 DEF ReportProcessError, Goto, TypeOK, MonitorState, Stuck
  <2>3. QED
    BY <1>0, <1>3, <1>10, <2>1, <2>2 DEF ReportProcessError, Goto, TypeOK
<1>11. ASSUME NEW m \in Monitors, StartCancelled(m)
       PROVE  MonitorInv'
  <2>1. TypeOK'
    BY <1>0, <1>11 DEF StartCancelled, TypeOK
  <2>2. MonitorState(m)'
    BY <1>0, <1>11 DEF StartCancelled, TypeOK, MonitorState, Stuck
  <2>3. QED
    BY <1>0, <1>3, <1>11, <2>1, <2>2 DEF StartCancelled, TypeOK
<1>12. ASSUME NEW m \in Monitors, UpdateAnswerLost(m)
       PROVE  MonitorInv'
  <2>1. errors[m] \in 0..1 /\ current[m] \in 0..taken
    BY <1>0, <1>12 DEF UpdateAnswerLost, TypeOK, MonitorState, Stuck
  <2>2. TypeOK'
    <3>1. /\ Fail(m)
          /\ report' = current[m]
          /\ stale' = Monitors \ {m}
          /\ UNCHANGED <<stream, current, start, store, crashed>>
      BY <1>12 DEF UpdateAnswerLost
    <3>2. errors' \in [Monitors -> 0..2]
      BY <1>0, <2>1, <3>1 DEF Fail, TypeOK
    <3>3. dropped' \subseteq 0..taken
      BY <1>0, <2>1, <3>1 DEF Fail, TypeOK
    <3>4. pc' \in [Monitors -> Places]
      BY <1>0, <3>1 DEF Fail, Goto, TypeOK, Places
    <3>5. QED
      BY <1>0, <2>1, <3>1, <3>2, <3>3, <3>4 DEF TypeOK, stream
  <2>3. MonitorState(m)'
    BY <1>0, <1>12, <2>1 DEF UpdateAnswerLost, Fail, Goto, TypeOK, MonitorState, Stuck
  <2>4. QED
    BY <1>0, <1>3, <1>12, <2>2, <2>3 DEF UpdateAnswerLost, Fail, Goto, TypeOK
<1>13. QED
  BY <1>1, <1>2, <1>4, <1>5, <1>6, <1>7, <1>8, <1>9, <1>10, <1>11, <1>12 DEF Next

\* The invariant holds for any number of monitors.
THEOREM MonitorInvariant == Spec => []MonitorInv
<1>1. QED
  BY MonitorInit, MonitorStep, PTL DEF Spec

\* Every variable of the monitors keeps its type; no monitor meets three errors.
THEOREM MonitorTypeCorrect == Spec => []TypeOK
<1>1. MonitorInv => TypeOK
  BY DEF MonitorInv
<1>2. QED
  BY <1>1, MonitorInvariant, PTL

\* Monitor.Start reads one error: after its second error a monitor stands still.
THEOREM MonitorSecondErrorIsFinal == Spec => []SecondErrorIsFinal
<1>1. MonitorInv => SecondErrorIsFinal
  BY DEF MonitorInv
<1>2. QED
  BY <1>1, MonitorInvariant, PTL

\* No error of processing brings the process down: only one of Recv does, or an
\* indication that is malformed.
THEOREM MonitorPanicCauses == Spec => []PanicCauses
<1>1. MonitorInv => PanicCauses
  BY DEF MonitorInv
<1>2. QED
  BY <1>1, MonitorInvariant, PTL

-----------------------------------------------------------------------------
(* After the second error *)

\* No step moves a goroutine that waits for a Start that returned.
LEMMA StuckStep ==
  ASSUME TypeOK, [Next]_vars, NEW m \in Monitors, Stuck(m)
  PROVE  Stuck(m)'
<1>1. CASE UNCHANGED <<pc, start>>
  BY <1>1 DEF Stuck
<1>2. ASSUME NEW k \in Monitors, k # m,
             \E place : Goto(k, place), start' = [start EXCEPT ![k] = start'[k]]
      PROVE  Stuck(m)'
  BY <1>2 DEF TypeOK, Goto, Stuck
<1>3. ASSUME NEW k \in Monitors,
             \/ Recv(k) \/ RecvFails(k) \/ DecodeFails(k) \/ PutMeasurements(k)
             \/ ReadCell(k) \/ NotACell(k) \/ UpdateCell(k) \/ TopologyFails(k)
             \/ UpdateAnswerLost(k)
      PROVE  Stuck(m)'
  <2>1. pc[k] \in {"recv", "process", "malformed", "locate", "update"}
    BY <1>3 DEF Recv, RecvFails, DecodeFails, PutMeasurements, ReadCell, NotACell,
                UpdateCell, TopologyFails, UpdateAnswerLost
  <2>2. k # m
    BY <2>1 DEF Stuck
  <2>3. (\E place : Goto(k, place)) /\ start' = start
    BY <1>3 DEF Recv, RecvFails, DecodeFails, PutMeasurements, ReadCell, NotACell,
                UpdateCell, TopologyFails, UpdateAnswerLost, Fail
  <2>4. start' = [start EXCEPT ![k] = start'[k]]
    BY <2>3 DEF TypeOK
  <2>5. QED
    BY <1>2, <2>2, <2>3, <2>4
<1>4. ASSUME NEW k \in Monitors, ReportRecvError(k) \/ ReportProcessError(k)
      PROVE  Stuck(m)'
  <2>1. k # m
    BY <1>4 DEF ReportRecvError, ReportProcessError, Stuck
  <2>2. (\E place : Goto(k, place)) /\ start' = [start EXCEPT ![k] = start'[k]]
    BY <1>4 DEF TypeOK, ReportRecvError, ReportProcessError
  <2>3. QED
    BY <1>2, <2>1, <2>2
<1>5. ASSUME NEW k \in Monitors, StartCancelled(k)
      PROVE  Stuck(m)'
  BY <1>5 DEF TypeOK, StartCancelled, Stuck
<1>6. CASE Arrive \/ EndStream \/ CancelContext \/ CellChanges \/ DeleteEntry
  BY <1>1, <1>6 DEF Arrive, EndStream, CancelContext, CellChanges, DeleteEntry
<1>7. ASSUME NEW k \in Monitors, Panic(k)
      PROVE  Stuck(m)'
  BY <1>1, <1>7 DEF Panic
<1>8. QED
  BY <1>1, <1>3, <1>4, <1>5, <1>6, <1>7 DEF Next, vars

\* Nothing gets a monitor out of its second error, neither the end of the stream
\* nor the cancellation of its context (monitor.go: errCh is unbuffered and Start
\* reads it once).
THEOREM MonitorStuckForGood ==
  ASSUME NEW m \in Monitors
  PROVE  Spec => [](Stuck(m) => []Stuck(m))
<1>1. TypeOK /\ Stuck(m) /\ [Next]_vars => Stuck(m)'
  BY StuckStep
<1>2. QED
  BY <1>1, MonitorTypeCorrect, PTL DEF Spec

AllStuck == \A m \in Monitors : Stuck(m)

\* When every monitor of the stream is stuck, no measurement gets to store or cell
\* entity any more: indications go on arriving and none is taken; what is shown stays
\* until others delete it, the entry with its node or the entity itself.
THEOREM MonitorsStuckFreezeMeasurements ==
  Spec => [][AllStuck => /\ taken' = taken
                         /\ entry' \in {entry, 0}
                         /\ report' \in {report, 0}
                         /\ AllStuck']_vars
<1> DEFINE Frozen == /\ taken' = taken
                     /\ entry' \in {entry, 0}
                     /\ report' \in {report, 0}
                     /\ AllStuck'
<1>1. TypeOK /\ [Next]_vars => [AllStuck => Frozen]_vars
  <2> SUFFICES ASSUME TypeOK, Next, AllStuck
               PROVE  Frozen
    OBVIOUS
  <2>1. AllStuck'
    BY StuckStep DEF AllStuck
  <2>2. ASSUME NEW m \in Monitors
        PROVE  /\ ~Recv(m) /\ ~PutMeasurements(m) /\ ~UpdateCell(m) /\ ~UpdateAnswerLost(m)
               /\ ~ReadCell(m) /\ ~NotACell(m) /\ ~DecodeFails(m) /\ ~TopologyFails(m)
               /\ ~RecvFails(m) /\ ~ReportRecvError(m) /\ ~ReportProcessError(m)
               /\ ~StartCancelled(m)
    <3>1. pc[m] \in {"recvError", "processError"} /\ start[m] # "waiting"
      BY DEF AllStuck, Stuck
    <3>2. QED
      BY <3>1
      DEF Recv, PutMeasurements, UpdateCell, UpdateAnswerLost, ReadCell, NotACell, DecodeFails,
          TopologyFails, RecvFails, ReportRecvError, ReportProcessError, StartCancelled
  <2>3. taken' = taken /\ entry' \in {entry, 0} /\ report' \in {report, 0}
    BY <2>2 DEF Next, Arrive, EndStream, CancelContext, CellChanges, DeleteEntry, Panic
  <2>4. QED
    BY <2>1, <2>3
<1>2. QED
  BY <1>1, MonitorTypeCorrect, PTL DEF Spec

-----------------------------------------------------------------------------
(* Which indication is shown *)

\* The steps of a goroutine between Recv and its next Recv, and the others.
LEMMA Steps ==
  ASSUME TypeOK, [Next]_vars
  PROVE  \/ UNCHANGED <<pc, current, entry, newest, report, dropped>>
         \/ \E m \in Monitors :
              \/ Recv(m) \/ RecvFails(m) \/ ReportRecvError(m) \/ ReportProcessError(m)
              \/ DecodeFails(m) \/ PutMeasurements(m) \/ ReadCell(m) \/ NotACell(m)
              \/ UpdateCell(m) \/ TopologyFails(m) \/ UpdateAnswerLost(m)
         \/ /\ entry' \in {entry, 0} /\ report' \in {report, 0}
            /\ UNCHANGED <<pc, current, newest, dropped>>
<1>1. CASE Arrive \/ EndStream \/ CancelContext \/ CellChanges \/ DeleteEntry
  BY <1>1 DEF Arrive, EndStream, CancelContext, CellChanges, DeleteEntry
<1>2. ASSUME NEW m \in Monitors, Panic(m) \/ StartCancelled(m)
      PROVE  UNCHANGED <<pc, current, entry, newest, report, dropped>>
  BY <1>2 DEF Panic, StartCancelled
<1>3. QED
  BY <1>1, <1>2 DEF Next, vars

\* A goroutine between Recv and its next Recv: with an indication in hand, before
\* its Put, and before its Update.
Busy(m) ==
  pc[m] \in {"process", "malformed", "locate", "update", "processError"}
BeforePut(m) == pc[m] \in {"process", "malformed"}
BeforeUpdate(m) == pc[m] \in {"process", "malformed", "locate", "update"}

\* What is known of each monitor: it has an indication in hand when it is busy, and
\* has put it before it updates the cell entity.
HandInv ==
  \A m \in Monitors :
    /\ Busy(m) => current[m] > 0
    /\ pc[m] \in {"locate", "update"} => current[m] <= newest

\* The latest indication put was taken by a monitor that has it still, or a later one;
\* so was the indication the cell entity shows.
TakenInv ==
  /\ newest = 0 \/ \E k \in Monitors :
       current[k] >= newest /\ (BeforePut(k) => current[k] > newest)
  /\ report = 0 \/ \E k \in Monitors :
       current[k] >= report /\ (BeforeUpdate(k) => current[k] > report)

\* What is shown after a step that shows another indication.
Advance ==
  /\ entry' \notin {0, entry} => entry' > newest \/ Late(entry', newest)
  /\ report' \notin {0, report} =>
       (report' > report \/ Late(report', report)) /\ report' <= newest'

LEMMA HandStep == TypeOK /\ HandInv /\ [Next]_vars => HandInv'
<1> SUFFICES ASSUME TypeOK, HandInv, [Next]_vars
             PROVE  HandInv'
  OBVIOUS
<1>1. newest \in Nat /\ taken \in Nat /\ \A m \in Monitors : current[m] \in Nat
  BY DEF TypeOK
<1>2. CASE UNCHANGED <<pc, current, newest>>
  BY <1>2 DEF HandInv, Busy
<1>3. ASSUME NEW m \in Monitors, Recv(m)
      PROVE  HandInv'
  BY <1>1, <1>3 DEF Recv, Goto, TypeOK, HandInv, Busy
<1>4. ASSUME NEW m \in Monitors, UNCHANGED <<current, newest>>,
             NEW place \in {"recv", "update", "recvError", "processError", "zero"},
             Goto(m, place),
             place = "processError" => Busy(m),
             place = "update" => pc[m] = "locate"
      PROVE  HandInv'
  BY <1>1, <1>4 DEF Goto, TypeOK, HandInv, Busy
<1>5. ASSUME NEW m \in Monitors,
             \/ RecvFails(m) \/ ReportRecvError(m) \/ ReportProcessError(m)
             \/ ReadCell(m) \/ NotACell(m) \/ UpdateCell(m)
      PROVE  HandInv'
  BY <1>4, <1>5 DEF RecvFails, ReportRecvError, ReportProcessError, ReadCell, NotACell,
                    UpdateCell
<1>6. ASSUME NEW m \in Monitors, DecodeFails(m) \/ TopologyFails(m) \/ UpdateAnswerLost(m)
      PROVE  HandInv'
  BY <1>4, <1>6 DEF DecodeFails, TopologyFails, UpdateAnswerLost, Fail, Busy
<1>7. ASSUME NEW m \in Monitors, PutMeasurements(m)
      PROVE  HandInv'
  <2>1. newest' \in Nat /\ newest' >= newest /\ newest' >= current[m]
    BY <1>1, <1>7 DEF PutMeasurements, Put
  <2>2. pc' = [pc EXCEPT ![m] = "locate"] /\ current' = current /\ pc[m] = "process"
    BY <1>7 DEF PutMeasurements, Goto
  <2>3. QED
    BY <1>1, <2>1, <2>2 DEF TypeOK, HandInv, Busy
<1>8. QED
  BY <1>2, <1>3, <1>5, <1>6, <1>7, Steps

LEMMA TakenStep == TypeOK /\ HandInv /\ TakenInv /\ [Next]_vars => TakenInv' /\ Advance
<1> SUFFICES ASSUME TypeOK, HandInv, TakenInv, [Next]_vars
             PROVE  TakenInv' /\ Advance
  OBVIOUS
<1>1. /\ newest \in 0..taken /\ report \in 0..taken /\ entry \in 0..taken /\ taken \in Nat
      /\ \A m \in Monitors : current[m] \in 0..taken
  BY DEF TypeOK
\* A monitor that moves without a write keeps what it has taken.
<1>2. ASSUME NEW m \in Monitors, NEW place, Goto(m, place),
             place \in {"process", "malformed"} => pc[m] = "recv",
             place \in {"locate", "update"} => BeforeUpdate(m),
             place \notin {"process", "malformed"} => current'[m] = current[m],
             place \in {"process", "malformed"} => current'[m] = taken + 1,
             \A k \in Monitors \ {m} : current'[k] = current[k]
      PROVE  /\ newest = 0 \/ \E k \in Monitors :
                  current'[k] >= newest /\ (BeforePut(k)' => current'[k] > newest)
             /\ report = 0 \/ \E k \in Monitors :
                  current'[k] >= report /\ (BeforeUpdate(k)' => current'[k] > report)
  <2>1. /\ pc'[m] = place
        /\ \A k \in Monitors \ {m} : pc'[k] = pc[k]
    BY <1>2 DEF Goto, TypeOK
  <2>2. CASE place \in {"process", "malformed"}
    <3>1. /\ current'[m] >= newest /\ current'[m] > newest
          /\ current'[m] >= report /\ current'[m] > report
      BY <1>1, <1>2, <2>2
    <3>2. QED
      BY <3>1
  <2>3. CASE place \notin {"process", "malformed"}
    <3>1. \A k \in Monitors : /\ current'[k] = current[k]
                              /\ BeforePut(k)' => BeforePut(k)
                              /\ BeforeUpdate(k)' => BeforeUpdate(k)
      BY <1>2, <2>1, <2>3 DEF BeforePut, BeforeUpdate
    <3>2. QED
      BY <3>1 DEF TakenInv
  <2>4. QED
    BY <2>2, <2>3
<1>3. CASE /\ entry' \in {entry, 0} /\ report' \in {report, 0}
           /\ UNCHANGED <<pc, current, newest>>
  BY <1>3 DEF TakenInv, BeforePut, BeforeUpdate, Advance
<1>4. ASSUME NEW m \in Monitors,
             \/ Recv(m) \/ RecvFails(m) \/ ReportRecvError(m) \/ ReportProcessError(m)
             \/ DecodeFails(m) \/ ReadCell(m) \/ NotACell(m) \/ TopologyFails(m)
      PROVE  TakenInv' /\ Advance
  <2>1. UNCHANGED <<entry, newest, report>>
    BY <1>4 DEF Recv, RecvFails, ReportRecvError, ReportProcessError, DecodeFails, ReadCell,
                NotACell, TopologyFails
  <2>2. CASE Recv(m)
    BY <1>2, <2>1, <2>2 DEF Recv, TypeOK, TakenInv, Advance
  <2>3. CASE ~Recv(m)
    <3>1. PICK place \in {"recv", "update", "recvError", "processError", "zero"} :
            Goto(m, place) /\ (place = "update" => BeforeUpdate(m)) /\ current' = current
      BY <1>4, <2>3
      DEF RecvFails, ReportRecvError, ReportProcessError, DecodeFails, ReadCell, NotACell,
          TopologyFails, Fail, BeforeUpdate
    <3>2. QED
      BY <1>2, <2>1, <3>1 DEF TakenInv, Advance
  <2>4. QED
    BY <2>2, <2>3
<1>5. ASSUME NEW m \in Monitors, PutMeasurements(m)
      PROVE  TakenInv' /\ Advance
  <2>1. /\ pc[m] = "process" /\ Goto(m, "locate") /\ current' = current /\ report' = report
        /\ entry' = current[m]
        /\ newest' = IF current[m] > newest THEN current[m] ELSE newest
    BY <1>5 DEF PutMeasurements, Put
  <2>2. current[m] > 0 /\ BeforeUpdate(m)
    BY <2>1 DEF HandInv, Busy, BeforeUpdate
  <2>3. pc'[m] = "locate" /\ ~BeforePut(m)'
    BY <2>1 DEF Goto, TypeOK, BeforePut
  <2>4. TakenInv'
    <3>1. /\ newest = 0 \/ \E k \in Monitors :
               current'[k] >= newest /\ (BeforePut(k)' => current'[k] > newest)
          /\ report = 0 \/ \E k \in Monitors :
               current'[k] >= report /\ (BeforeUpdate(k)' => current'[k] > report)
      BY <1>2, <2>1, <2>2
    <3>2. CASE current[m] > newest
      <4>1. newest' = current[m] /\ current'[m] >= current[m]
        BY <1>1, <2>1, <3>2
      <4>2. QED
        BY <2>1, <2>3, <3>1, <4>1 DEF TakenInv
    <3>3. CASE ~(current[m] > newest)
      BY <2>1, <3>1, <3>3 DEF TakenInv
    <3>4. QED
      BY <3>2, <3>3
  <2>5. entry' > newest \/ Late(entry', newest)
    <3>1. CASE newest = 0
      BY <2>1, <2>2, <3>1
    <3>2. ASSUME NEW k \in Monitors, current[k] >= newest,
                 BeforePut(k) => current[k] > newest
          PROVE  current[m] > newest \/ Late(current[m], newest)
      <4>1. CASE k = m
        BY <2>1, <3>2, <4>1 DEF BeforePut
      <4>2. CASE k # m
        BY <3>2, <4>2 DEF Late
      <4>3. QED
        BY <4>1, <4>2
    <3>3. current[m] > newest \/ Late(current[m], newest)
      BY <2>1, <3>1, <3>2 DEF TakenInv
    <3>4. QED
      BY <2>1, <3>3
  <2>6. QED
    BY <2>1, <2>4, <2>5 DEF Advance
<1>6. ASSUME NEW m \in Monitors, UpdateCell(m) \/ UpdateAnswerLost(m)
      PROVE  TakenInv' /\ Advance
  <2>1. PICK place \in {"recv", "processError"} :
          /\ pc[m] = "update" /\ Goto(m, place) /\ current' = current
          /\ UNCHANGED <<entry, newest>> /\ report' = current[m]
    BY <1>6 DEF UpdateCell, UpdateAnswerLost, Fail
  <2>2. current[m] > 0 /\ current[m] <= newest /\ BeforeUpdate(m)
    BY <2>1 DEF HandInv, Busy, BeforeUpdate
  <2>3. ~BeforeUpdate(m)'
    BY <2>1 DEF Goto, TypeOK, BeforeUpdate
  <2>4. TakenInv'
    BY <1>1, <1>2, <2>1, <2>2, <2>3 DEF TakenInv
  <2>5. report' > report \/ Late(report', report)
    <3>1. CASE report = 0
      BY <2>1, <2>2, <3>1
    <3>2. ASSUME NEW k \in Monitors, current[k] >= report,
                 BeforeUpdate(k) => current[k] > report
          PROVE  current[m] > report \/ Late(current[m], report)
      <4>1. CASE k = m
        BY <2>2, <3>2, <4>1
      <4>2. CASE k # m
        BY <3>2, <4>2 DEF Late
      <4>3. QED
        BY <4>1, <4>2
    <3>3. current[m] > report \/ Late(current[m], report)
      BY <2>1, <3>1, <3>2 DEF TakenInv
    <3>4. QED
      BY <2>1, <3>3
  <2>6. QED
    BY <2>1, <2>2, <2>4, <2>5 DEF Advance
<1>7. QED
  BY <1>3, <1>4, <1>5, <1>6, Steps

LEMMA TakenHolds == Spec => [](HandInv /\ TakenInv)
<1>1. Init => HandInv /\ TakenInv
  BY DEF Init, HandInv, TakenInv, Busy
<1>2. QED
  BY <1>1, HandStep, TakenStep, MonitorTypeCorrect, PTL DEF Spec

\* Whatever monitors share the stream, and whenever the entry is deleted, what store
\* and cell entity show goes back only where one monitor overtakes another.
THEOREM MonitorMeasurementsAdvance == Spec => MeasurementsAdvance
<1>1. TypeOK /\ HandInv /\ TakenInv /\ [Next]_vars =>
        [/\ entry' \notin {0, entry} => entry' > newest \/ Late(entry', newest)
         /\ report' \notin {0, report} =>
              (report' > report \/ Late(report', report)) /\ report' <= newest']_vars
  BY TakenStep DEF Advance
<1>2. QED
  BY <1>1, TakenHolds, MonitorTypeCorrect, PTL DEF Spec, MeasurementsAdvance

-----------------------------------------------------------------------------
(* A monitor that has the stream for itself *)

\* While an indication of m is on its way from store to topology the store shows it;
\* otherwise the two agree, or the topology was not given what the store shows.
InStep(m) ==
  IF pc[m] \in {"locate", "update"}
  THEN entry \in {0, current[m]}
  ELSE entry = 0 \/ report \in {0, entry} \/ entry \in dropped

LEMMA SoleReaderStep ==
  ASSUME TypeOK, HandInv, [Next]_vars, NEW m \in Monitors, SoleReader(m), InStep(m)
  PROVE  SoleReader(m)' => InStep(m)'
<1>1. CASE /\ entry' \in {entry, 0} /\ report' \in {report, 0}
           /\ UNCHANGED <<pc, current, dropped>>
  BY <1>1 DEF InStep
<1>2. ASSUME NEW k \in Monitors, k # m
      PROVE  ~Busy(k)
  BY <1>2 DEF HandInv, SoleReader, TypeOK
<1>3. ASSUME NEW k \in Monitors, k # m, Recv(k)
      PROVE  ~SoleReader(m)'
  BY <1>3 DEF Recv, TypeOK, SoleReader
<1>4. ASSUME NEW k \in Monitors, k # m, RecvFails(k) \/ ReportRecvError(k)
      PROVE  InStep(m)'
  BY <1>4 DEF RecvFails, ReportRecvError, Goto, TypeOK, InStep
<1>5. ASSUME NEW k \in Monitors, k # m
      PROVE  /\ ~DecodeFails(k) /\ ~TopologyFails(k) /\ ~PutMeasurements(k)
             /\ ~ReadCell(k) /\ ~NotACell(k) /\ ~UpdateCell(k) /\ ~UpdateAnswerLost(k)
             /\ ~ReportProcessError(k)
  BY <1>2, <1>5
  DEF Busy, DecodeFails, TopologyFails, PutMeasurements, ReadCell, NotACell, UpdateCell,
      UpdateAnswerLost, ReportProcessError
<1>6. CASE Recv(m) \/ RecvFails(m) \/ ReportRecvError(m) \/ ReportProcessError(m)
  BY <1>6 DEF Recv, RecvFails, ReportRecvError, ReportProcessError, Goto, TypeOK, InStep
<1>7. CASE DecodeFails(m) \/ TopologyFails(m) \/ NotACell(m)
  BY <1>7 DEF DecodeFails, TopologyFails, NotACell, Fail, Goto, TypeOK, InStep
<1>8. CASE PutMeasurements(m) \/ ReadCell(m)
  BY <1>8 DEF PutMeasurements, Put, ReadCell, Goto, TypeOK, InStep
<1>9. CASE UpdateCell(m) \/ UpdateAnswerLost(m)
  BY <1>9 DEF UpdateCell, UpdateAnswerLost, Fail, Goto, TypeOK, InStep
<1>10. QED
  BY <1>1, <1>3, <1>4, <1>5, <1>6, <1>7, <1>8, <1>9, Steps

\* What stays true of a monitor that has the stream for itself.
SoleInv == \A m \in Monitors : SoleReader(m) => InStep(m)

LEMMA SoleInvStep == TypeOK /\ HandInv /\ SoleInv /\ [Next]_vars => SoleInv'
<1> SUFFICES ASSUME TypeOK, HandInv, SoleInv, [Next]_vars
             PROVE  SoleInv'
  OBVIOUS
<1>1. ASSUME NEW m \in Monitors, SoleReader(m)'
      PROVE  SoleReader(m)
  <2>1. \A k \in Monitors \ {m} : current'[k] = current[k] \/ current'[k] = taken + 1
    <3>1. current' = current \/ \E k \in Monitors : Recv(k)
      BY Steps DEF RecvFails, ReportRecvError, ReportProcessError, DecodeFails, PutMeasurements,
         ReadCell, NotACell, UpdateCell, TopologyFails, UpdateAnswerLost
    <3>2. QED
      BY <3>1 DEF Recv, TypeOK
  <2>2. QED
    BY <1>1, <2>1 DEF SoleReader, TypeOK
<1>2. QED
  BY <1>1, SoleReaderStep DEF SoleInv

\* A monitor that has the stream for itself leaves measurement store and cell entity
\* in agreement between indications, unless the last one put met an error, or no cell.
THEOREM MonitorTopologyFollowsStore == Spec => []TopologyFollowsStore
<1>1. Init => SoleInv
  BY DEF Init, SoleInv, InStep
<1>2. SoleInv => TopologyFollowsStore
  BY DEF SoleInv, InStep, TopologyFollowsStore
<1>3. QED
  BY <1>1, <1>2, SoleInvStep, TakenHolds, MonitorTypeCorrect, PTL DEF Spec
=============================================================================
