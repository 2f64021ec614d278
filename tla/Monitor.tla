------------------------------- MODULE Monitor -------------------------------
(***************************************************************************)
(* The indication monitors of one subscription stream:                     *)
(* pkg/monitoring/monitor.go, with the measurement store and the cell      *)
(* entity they write.                                                      *)
(*                                                                         *)
(* Monitor.Start runs a goroutine that loops for ever over Recv and        *)
(* processIndication, and itself waits for one error of the goroutine or   *)
(* for its context, then returns.  The error channel is unbuffered, and    *)
(* only that wait reads it: the goroutine goes on after its first error    *)
(* and is stuck at its second.  After an error of Recv it goes on with the *)
(* zero indication, which has no header: getTimeStampFromHeader panics,    *)
(* and the process is gone.  An indication that is decoded, but has no     *)
(* start time of four bytes or fewer names than values, ends it as well.   *)
(*                                                                         *)
(* A node that is announced again, or has several report styles, gets      *)
(* another monitor on the same stream.  All indications here are about the *)
(* same cell; they are numbered in the order in which the stream has them. *)
(* The topology accepts an Update only if the entity has not changed since *)
(* the Get it is based on.  The watcher of the topology deletes the        *)
(* measurements of the cell when the node is removed, which stops no       *)
(* monitor.                                                                *)
(***************************************************************************)
EXTENDS Naturals

CONSTANTS
  Monitors,      \* monitors that read the stream
  MaxArrivals    \* bound of the model: indications that arrive

ASSUME MonitorAssumption == MaxArrivals \in Nat

VARIABLES
  arrived,     \* indications the stream has received
  taken,       \* indications Recv has returned
  ended,       \* the read channel of the stream is closed
  ctxDone,     \* the context of the monitors is cancelled
  pc,          \* pc[m]: where the goroutine of monitor m is
  current,     \* current[m]: the indication m is processing
  start,       \* start[m]: where Monitor.Start is: waiting, or what it returned
  errors,      \* history: errors[m], errors m has met
  entry,       \* the indication the measurement store shows; 0 for none
  newest,      \* history: the latest indication whose measurements were put
  report,      \* the indication the cell entity shows; 0 for none
  stale,       \* monitors whose copy of the cell entity is out of date
  dropped,     \* history: indications that met an error, or no cell to be written to
  crashed      \* the process has panicked

stream == <<arrived, taken, ended, ctxDone>>
store == <<entry, newest>>
cell == <<report, stale>>
vars == <<stream, pc, current, start, errors, store, cell, dropped, crashed>>

Init ==
  /\ arrived = 0
  /\ taken = 0
  /\ ended = FALSE
  /\ ctxDone = FALSE
  /\ pc = [m \in Monitors |-> "recv"]
  /\ current = [m \in Monitors |-> 0]
  /\ start = [m \in Monitors |-> "waiting"]
  /\ errors = [m \in Monitors |-> 0]
  /\ entry = 0
  /\ newest = 0
  /\ report = 0
  /\ stale = {}
  /\ dropped = {}
  /\ crashed = FALSE

Goto(m, place) == pc' = [pc EXCEPT ![m] = place]

-----------------------------------------------------------------------------
(* The stream, the context, and other writers of store and topology *)

Arrive ==
  /\ ~crashed
  /\ ~ended
  /\ arrived < MaxArrivals
  /\ arrived' = arrived + 1
  /\ UNCHANGED <<taken, ended, ctxDone, pc, current, start, errors, store, cell, dropped,
                 crashed>>

EndStream ==
  /\ ~crashed
  /\ ~ended
  /\ ended' = TRUE
  /\ UNCHANGED <<arrived, taken, ctxDone, pc, current, start, errors, store, cell, dropped,
                 crashed>>

CancelContext ==
  /\ ~crashed
  /\ ~ctxDone
  /\ ctxDone' = TRUE
  /\ UNCHANGED <<arrived, taken, ended, pc, current, start, errors, store, cell, dropped,
                 crashed>>

\* Another component updates the cell entity, or removes it and creates it anew.
CellChanges ==
  /\ ~crashed
  /\ stale' = Monitors
  /\ report' \in {report, 0}
  /\ UNCHANGED <<stream, pc, current, start, errors, store, dropped, crashed>>

\* The node of the cell is removed: watchE2Connections deletes the measurements.
DeleteEntry ==
  /\ ~crashed
  /\ entry' = 0
  /\ UNCHANGED <<stream, pc, current, start, errors, newest, cell, dropped, crashed>>

-----------------------------------------------------------------------------
(* The goroutine: Recv *)

\* Defective variant of Recv: the goroutine takes one indication, and no other.
RecvOnce(m) ==
  /\ ~crashed
  /\ pc[m] = "recv"
  /\ taken < arrived
  /\ current[m] = 0
  /\ taken' = taken + 1
  /\ current' = [current EXCEPT ![m] = taken + 1]
  /\ \E place \in {"process", "malformed"} : Goto(m, place)
  /\ UNCHANGED <<arrived, ended, ctxDone, start, errors, store, cell, dropped, crashed>>

\* What a node has sent may be malformed: it is decoded without an error, but has
\* no start time of four bytes, or fewer names than an item has values.
Recv(m) ==
  /\ ~crashed
  /\ pc[m] = "recv"
  /\ taken < arrived
  /\ taken' = taken + 1
  /\ current' = [current EXCEPT ![m] = taken + 1]
  /\ \E place \in {"process", "malformed"} : Goto(m, place)
  /\ UNCHANGED <<arrived, ended, ctxDone, start, errors, store, cell, dropped, crashed>>

\* Recv returns the error of its context, or io.EOF at the end of the stream.
RecvFails(m) ==
  /\ ~crashed
  /\ pc[m] = "recv"
  /\ ctxDone \/ (ended /\ taken = arrived)
  /\ errors' = [errors EXCEPT ![m] = @ + 1]
  /\ Goto(m, "recvError")
  /\ UNCHANGED <<stream, current, start, store, cell, dropped, crashed>>

\* The error of Recv reaches Start; the goroutine goes on to processIndication.
ReportRecvError(m) ==
  /\ ~crashed
  /\ pc[m] = "recvError"
  /\ start[m] = "waiting"
  /\ start' = [start EXCEPT ![m] = "failed"]
  /\ Goto(m, "zero")
  /\ UNCHANGED <<stream, current, errors, store, cell, dropped, crashed>>

\* The zero indication has no header to take the start time from; a malformed one has
\* none, or one too short, or values beyond its list of names.
Panic(m) ==
  /\ ~crashed
  /\ pc[m] \in {"zero", "malformed"}
  /\ crashed' = TRUE
  /\ UNCHANGED <<stream, pc, current, start, errors, store, cell, dropped>>

-----------------------------------------------------------------------------
(* The goroutine: processIndicationFormat1 *)

Fail(m) ==
  /\ errors' = [errors EXCEPT ![m] = @ + 1]
  /\ dropped' = dropped \cup {current[m]}
  /\ Goto(m, "processError")

\* Decoding, the granularity period, the action store or the Put fails.
DecodeFails(m) ==
  /\ ~crashed
  /\ pc[m] \in {"process", "malformed"}
  /\ Fail(m)
  /\ UNCHANGED <<stream, current, start, store, cell, crashed>>

Put(indication) ==
  /\ entry' = indication
  /\ newest' = IF indication > newest THEN indication ELSE newest

\* Defective variant of PutMeasurements: what is put are the measurements of the
\* indication before.
PutPrevious(m) ==
  /\ ~crashed
  /\ pc[m] = "process"
  /\ Put(current[m] - 1)
  /\ Goto(m, "locate")
  /\ UNCHANGED <<stream, current, start, errors, cell, dropped, crashed>>

\* The measurements are decoded and put in the store.
PutMeasurements(m) ==
  /\ ~crashed
  /\ pc[m] = "process"
  /\ Put(current[m])
  /\ Goto(m, "locate")
  /\ UNCHANGED <<stream, current, start, errors, cell, dropped, crashed>>

\* GetCellTopoID, and the Get of UpdateCellAspects.
ReadCell(m) ==
  /\ ~crashed
  /\ pc[m] = "locate"
  /\ stale' = stale \ {m}
  /\ Goto(m, "update")
  /\ UNCHANGED <<stream, current, start, errors, store, report, dropped, crashed>>

\* The Get answers with nothing, or with an entity that is no cell: nothing is
\* written, and that is no error.
NotACell(m) ==
  /\ ~crashed
  /\ pc[m] = "locate"
  /\ dropped' = dropped \cup {current[m]}
  /\ Goto(m, "recv")
  /\ UNCHANGED <<stream, current, start, errors, store, cell, crashed>>

\* The Update of UpdateCellAspects; other copies are out of date.
UpdateCell(m) ==
  /\ ~crashed
  /\ pc[m] = "update"
  /\ m \notin stale
  /\ report' = current[m]
  /\ stale' = Monitors \ {m}
  /\ Goto(m, "recv")
  /\ UNCHANGED <<stream, current, start, errors, store, dropped, crashed>>

\* Defective variant of TopologyFails: the error is logged and dropped.
TopologyFailsSilently(m) ==
  /\ ~crashed
  /\ pc[m] \in {"locate", "update"}
  /\ Goto(m, "recv")
  /\ UNCHANGED <<stream, current, start, errors, store, cell, dropped, crashed>>

\* A call of the topology fails; the measurements stay in the store.
TopologyFails(m) ==
  /\ ~crashed
  /\ pc[m] \in {"locate", "update"}
  /\ Fail(m)
  /\ UNCHANGED <<stream, current, start, store, cell, crashed>>

\* The topology applies the Update, but its answer is lost: an error all the same.
UpdateAnswerLost(m) ==
  /\ ~crashed
  /\ pc[m] = "update"
  /\ m \notin stale
  /\ report' = current[m]
  /\ stale' = Monitors \ {m}
  /\ Fail(m)
  /\ UNCHANGED <<stream, current, start, store, crashed>>

\* Defective variant of ReportProcessError: the goroutine goes on to process
\* the zero indication, as it does after an error of Recv.
ReportProcessErrorZero(m) ==
  /\ ~crashed
  /\ pc[m] = "processError"
  /\ start[m] = "waiting"
  /\ start' = [start EXCEPT ![m] = "failed"]
  /\ Goto(m, "zero")
  /\ UNCHANGED <<stream, current, errors, store, cell, dropped, crashed>>

\* Defective variant of ReportProcessError: the error ends the goroutine.
ReportProcessErrorEnding(m) ==
  /\ ~crashed
  /\ pc[m] = "processError"
  /\ start[m] = "waiting"
  /\ start' = [start EXCEPT ![m] = "failed"]
  /\ Goto(m, "ended")
  /\ UNCHANGED <<stream, current, errors, store, cell, dropped, crashed>>

\* Defective variant of ReportProcessError: the channel never blocks.
ReportProcessErrorUnheard(m) ==
  /\ ~crashed
  /\ pc[m] = "processError"
  /\ start' = [start EXCEPT ![m] = "failed"]
  /\ Goto(m, "recv")
  /\ UNCHANGED <<stream, current, errors, store, cell, dropped, crashed>>

\* The error reaches Start; the goroutine goes on to the next indication.
ReportProcessError(m) ==
  /\ ~crashed
  /\ pc[m] = "processError"
  /\ start[m] = "waiting"
  /\ start' = [start EXCEPT ![m] = "failed"]
  /\ Goto(m, "recv")
  /\ UNCHANGED <<stream, current, errors, store, cell, dropped, crashed>>

\* Start returns because its context is cancelled.
StartCancelled(m) ==
  /\ ~crashed
  /\ start[m] = "waiting"
  /\ ctxDone
  /\ start' = [start EXCEPT ![m] = "cancelled"]
  /\ UNCHANGED <<stream, pc, current, errors, store, cell, dropped, crashed>>

Next ==
  \/ Arrive
  \/ EndStream
  \/ CancelContext
  \/ CellChanges
  \/ DeleteEntry
  \/ \E m \in Monitors : Recv(m)
  \/ \E m \in Monitors : RecvFails(m)
  \/ \E m \in Monitors : ReportRecvError(m)
  \/ \E m \in Monitors : Panic(m)
  \/ \E m \in Monitors : DecodeFails(m)
  \/ \E m \in Monitors : PutMeasurements(m)
  \/ \E m \in Monitors : ReadCell(m)
  \/ \E m \in Monitors : NotACell(m)
  \/ \E m \in Monitors : UpdateCell(m)
  \/ \E m \in Monitors : TopologyFails(m)
  \/ \E m \in Monitors : UpdateAnswerLost(m)
  \/ \E m \in Monitors : ReportProcessError(m)
  \/ \E m \in Monitors : StartCancelled(m)

Spec == Init /\ [][Next]_vars

\* Go runs every goroutine that can run, and the calls of stores and topology
\* return.  Nothing arrives, ends or is cancelled by obligation, and a monitor
\* whose Start and goroutine are both ready may do either.
Fairness ==
  \A m \in Monitors :
    /\ WF_vars(Recv(m) \/ RecvFails(m))
    /\ WF_vars(ReportRecvError(m) \/ ReportProcessError(m))
    /\ WF_vars(PutMeasurements(m) \/ DecodeFails(m) \/ Panic(m))
    /\ WF_vars(\/ ReadCell(m) \/ NotACell(m) \/ UpdateCell(m) \/ TopologyFails(m)
               \/ UpdateAnswerLost(m))

FairSpec == Spec /\ Fairness

-----------------------------------------------------------------------------
(* Properties *)

Places ==
  {"recv", "process", "malformed", "locate", "update", "recvError", "processError", "zero"}

\* Types of the variables.
TypeOK ==
  /\ arrived \in 0..MaxArrivals
  /\ taken \in 0..arrived
  /\ ended \in BOOLEAN
  /\ ctxDone \in BOOLEAN
  /\ pc \in [Monitors -> Places]
  /\ current \in [Monitors -> 0..taken]
  /\ start \in [Monitors -> {"waiting", "failed", "cancelled"}]
  /\ errors \in [Monitors -> 0..2]
  /\ entry \in 0..taken
  /\ newest \in 0..taken
  /\ report \in 0..taken
  /\ stale \subseteq Monitors
  /\ dropped \subseteq 0..taken
  /\ crashed \in BOOLEAN

\* The goroutine of m waits for ever to hand an error to a Start that returned.
Stuck(m) == pc[m] \in {"recvError", "processError"} /\ start[m] # "waiting"

\* A monitor survives one error of processing, and only one: the second finds
\* nobody at the error channel.
SecondErrorIsFinal == \A m \in Monitors : errors[m] = 2 => Stuck(m)

\* What brings the process down: an indication that is malformed; or the end of a
\* stream or a cancelled context, in a monitor that had met no error before.  Errors
\* of processing do not (processIndication logs them and returns them to Start).
PanicCauses ==
  crashed =>
    \E m \in Monitors :
      \/ pc[m] = "malformed"
      \/ pc[m] = "zero" /\ errors[m] = 1 /\ (ctxDone \/ ended)

\* No other monitor has ever taken an indication.
SoleReader(m) == \A k \in Monitors \ {m} : current[k] = 0

\* A monitor that has the stream for itself leaves store and cell entity in
\* agreement between indications, unless the last one put met an error, or no cell
\* (UpdateCellAspects).  An entry deleted with its node leaves the entity as it was,
\* and an entity created anew shows nothing.
TopologyFollowsStore ==
  \A m \in Monitors :
    SoleReader(m) /\ pc[m] = "recv" /\ entry # 0 /\ report # 0 =>
      report = entry \/ entry \in dropped

\* The monitor that shows indication a took it, and another one has taken
\* indication b: it had it while a was on its way.
Late(a, b) == \E m, k \in Monitors : m # k /\ current[m] = a /\ current[k] >= b

\* What the store shows goes forward, also over a deletion of the entry, and so does
\* what the cell entity shows, which is never ahead of the store.  Only where two
\* monitors read the stream, one may be overtaken by the other between Recv and the
\* write, and show an earlier indication last.
MeasurementsAdvance ==
  [][/\ entry' \notin {0, entry} => entry' > newest \/ Late(entry', newest)
     /\ report' \notin {0, report} =>
          (report' > report \/ Late(report', report)) /\ report' <= newest']_vars

\* What arrives is taken from the stream, unless the process panics or every
\* monitor is stuck.
ArrivedIsTaken ==
  \A n \in 1..MaxArrivals :
    arrived >= n ~> (taken >= n \/ crashed \/ \A m \in Monitors : Stuck(m))

\* "The associated stream will be closed gracefully" (CloseStream): the end of a
\* stream, with nothing malformed in it, does not bring the process down.
CloseIsGraceful ==
  ended /\ ~ctxDone /\ (\A m \in Monitors : pc[m] # "malformed") => ~crashed

\* The inductive invariant: the number of errors a monitor has met tells where
\* its goroutine and its Start can be.
MonitorInv ==
  /\ TypeOK
  /\ PanicCauses
  /\ SecondErrorIsFinal
  /\ \A m \in Monitors :
       /\ start[m] = "failed" => errors[m] >= 1
       /\ start[m] = "waiting" /\ pc[m] \notin {"recvError", "processError"} =>
            errors[m] = 0
       /\ start[m] = "waiting" => errors[m] <= 1
       /\ start[m] = "failed" /\ Stuck(m) => errors[m] = 2
       /\ pc[m] \in {"recvError", "zero"} => ctxDone \/ ended
       /\ pc[m] \in {"recvError", "processError"} => errors[m] >= 1
       /\ pc[m] = "zero" => errors[m] = 1
=============================================================================
