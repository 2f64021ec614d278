------------------------------ MODULE Records ------------------------------
(***************************************************************************)
(* What is in an indication, and what becomes of it: the pure parts of     *)
(* pkg/monitoring (processIndicationFormat1, utils.go), of pkg/rnib        *)
(* (UpdateCellAspects) and of pkg/utils/parser.go (ParseEntry).            *)
(*                                                                         *)
(* A message has a list of names (measInfoList) and items, each a sequence *)
(* of values; the j-th value of an item belongs to the j-th name.  Integers *)
(* of 64 bits are integers here, those of 32 bits wrap at Word, and a clock *)
(* of 64 bits wraps at Clock.  A loop of the code is a function from the   *)
(* number of passes to what the loop has computed after them.              *)
(***************************************************************************)
EXTENDS Integers, Sequences

CONSTANTS
  Names,         \* names of measurements
  NoName,        \* the empty name
  NoID,          \* an info without MeasId
  NameOf,        \* the measurements of the RAN function: a function from ID to name
  NoReport,      \* a name the cell entity has no report for
  Word,          \* number of values of uint32
  Clock          \* number of values of uint64

ASSUME RecordsAssumption ==
  /\ NoName \notin Names
  /\ NoReport \notin Int
  /\ \A id \in DOMAIN NameOf : NameOf[id] \in Names \cup {NoName}
  /\ Word \in Nat \ {0}
  /\ Clock \in Nat \ {0}

\* A value: its type in the message, and its number.
Values == [kind : {"integer", "noValue", "real", "unset"}, number : Int]

\* A message has a name for every value; the code indexes the names by the place
\* of the value.
IsMessage(msg) ==
  /\ msg.start \in Nat
  /\ msg.granularity \in Nat
  /\ msg.data \in Seq(Seq(Values))
  /\ Len(msg.info) \in Nat
  /\ \A j \in 1..Len(msg.info) : msg.info[j].name \in Names \cup {NoName}
  /\ \A i \in 1..Len(msg.data) : Len(msg.data[i]) <= Len(msg.info)

-----------------------------------------------------------------------------
(* processIndicationFormat1: from a message to the items of the store *)

\* The startTime of the header plus a granularity per item before, in uint64.
TimeStamp(msg, i) == (msg.start + msg.granularity * (i - 1)) % Clock

\* getMeasurementName: the empty name for an ID the RAN function does not have.
GetMeasurementName(id) == IF id \in DOMAIN NameOf THEN NameOf[id] ELSE NoName

\* An info with neither a name nor an ID: its values are dropped.
Anonymous(info) == info.name = NoName /\ info.id = NoID

MeasurementName(info) ==
  IF info.name # NoName THEN info.name ELSE GetMeasurementName(info.id)

Record(msg, i, j) ==
  [time |-> TimeStamp(msg, i),
   name |-> MeasurementName(msg.info[j]),
   value |-> msg.data[i][j]]

Item(msg, i) ==
  LET upTo[j \in 0..Len(msg.data[i])] ==
        IF j = 0 THEN <<>>
        ELSE IF Anonymous(msg.info[j]) THEN upTo[j - 1]
        ELSE Append(upTo[j - 1], Record(msg, i, j))
  IN  upTo[Len(msg.data[i])]

Items(msg) == [i \in 1..Len(msg.data) |-> Item(msg, i)]

-----------------------------------------------------------------------------
(* UpdateCellAspects: from the items to the reports of the cell entity *)

\* uint32(...) of an int64 or an int32; any other value counts as 0.
Uint32(value) ==
  IF value.kind \in {"integer", "noValue"} THEN value.number % Word ELSE 0

\* Defective variant of KpiReport: of records with the same time stamp the first
\* is taken.
KpiReportFirst(sofar, record) ==
  IF sofar.latest < record.time
  THEN [latest |-> record.time,
        reports |-> [sofar.reports EXCEPT ![record.name] = Uint32(record.value)]]
  ELSE sofar

\* A record is passed over if one before it had a later time stamp.
KpiReport(sofar, record) ==
  IF sofar.latest <= record.time
  THEN [latest |-> record.time,
        reports |-> [sofar.reports EXCEPT ![record.name] = Uint32(record.value)]]
  ELSE sofar

ItemReports(sofar, item) ==
  LET after[j \in 0..Len(item)] ==
        IF j = 0 THEN sofar ELSE KpiReport(after[j - 1], item[j])
  IN  after[Len(item)]

NoReports == [latest |-> 0, reports |-> [n \in Names \cup {NoName} |-> NoReport]]

KpiReports(items) ==
  LET after[i \in 0..Len(items)] ==
        IF i = 0 THEN NoReports ELSE ItemReports(after[i - 1], items[i])
  IN  after[Len(items)].reports

-----------------------------------------------------------------------------
(* ParseEntry: from the items to the answer of the northbound service *)

\* An int, which is what the default value is, has no case: the value is nil.
AnyValue(value) == IF value.kind = "unset" THEN [kind |-> "nil", number |-> 0] ELSE value

ParseItem(item) ==
  [j \in 1..Len(item) |->
     [time |-> item[j].time, name |-> item[j].name, value |-> AnyValue(item[j].value)]]

\* Defective variant of ParseEntry: the item is filled once.
ParseEntryFirst(items) == [i \in 1..Len(items) |-> ParseItem(items[1])]

\* measItem is one object, filled anew for every item of the entry and appended
\* as a pointer: in the end every item of the answer is the last one.
ParseEntry(items) == [i \in 1..Len(items) |-> ParseItem(items[Len(items)])]
=============================================================================
