---------------------------- MODULE MonitorData ----------------------------
(***************************************************************************)
(* Monitor together with the contents of indications.  Content gives every *)
(* indication its message; one that is malformed has none, and Monitor     *)
(* never puts it.  Messages are the messages of which ReportsAreLatest     *)
(* speaks, whichever indication carries them.                              *)
(***************************************************************************)
EXTENDS Monitor, Records

CONSTANTS
  Messages,    \* messages E2 nodes send
  Content      \* Content[i]: the message of the i-th indication

ASSUME MessagesAssumption ==
  /\ \A msg \in Messages : IsMessage(msg)
  /\ \A i \in 1..MaxArrivals : IsMessage(Content[i])

\* The time stamps of the message do not wrap.
InTime(msg) == msg.start + msg.granularity * Len(msg.data) < Clock

\* A number that uint32 can represent.
Fits(value) == value.kind = "integer" /\ value.number \in 0..Word - 1

\* The j-th value of an item is filed under name n.
Named(msg, j, n) == ~Anonymous(msg.info[j]) /\ MeasurementName(msg.info[j]) = n

\* The places of the values a message has for name n: item, and place in the item.
PlacesOf(msg, n) ==
  {p \in (1..Len(msg.data)) \X (1..Len(msg.info)) :
     p[2] <= Len(msg.data[p[1]]) /\ Named(msg, p[2], n)}

NotAfter(q, p) == q[1] < p[1] \/ (q[1] = p[1] /\ q[2] <= p[2])

LastPlace(S) == CHOOSE p \in S : \A q \in S : NotAfter(q, p)

\* The report r of a name whose values are at the places S.
ReportIsLatest(msg, S, r) ==
  IF S = {} THEN r = NoReport
  ELSE LET last == LastPlace(S)
           value == msg.data[last[1]][last[2]]
       IN  /\ r \in 0..Word - 1
           /\ Fits(value) => r = value.number
           /\ value.kind \in {"integer", "noValue"} => r = value.number % Word
           /\ value.kind \in {"real", "unset"} => r = 0

LatestReports(msg) ==
  LET reports == KpiReports(Items(msg))
  IN  \A n \in Names \cup {NoName} : ReportIsLatest(msg, PlacesOf(msg, n), reports[n])

AllLatest == \A msg \in Messages : InTime(msg) => LatestReports(msg)

\* What UpdateCellAspects is about to write for a name is the last value the
\* message has for it, if that is an integer uint32 can represent; a negative or
\* larger one is cut to its low 32 bits, and a real number counts as 0.  A name the
\* message has no value for gets no report.
ReportsAreLatest == \A m \in Monitors : pc[m] = "update" => AllLatest

\* The places of the records of a sequence that have name n, and the last of them.
NamedIn(records, n) == {k \in 1..Len(records) : records[k].name = n}
LastOf(S) == CHOOSE k \in S : \A l \in S : l <= k

\* The last item a client is shown of the items put in the store agrees with the
\* reports of a cell entity: of every name in it the entity reports the value shown
\* last, if uint32 can represent it.
LastItemAgrees(items, reports) ==
  LET answer == ParseEntry(items)
      last == answer[Len(answer)]
  IN  answer # <<>> =>
        \A n \in Names \cup {NoName} :
          LET S == NamedIn(last, n)
          IN  S # {} /\ Fits(last[LastOf(S)].value) => reports[n] = last[LastOf(S)].value.number

\* What the northbound service answers (ParseEntry) and what the topology shows
\* (UpdateCellAspects) agree about the end of the last indication, although the one
\* is made of the entry in the store when a client asks, and the other was written by
\* the monitor: between the indications of a monitor that has the stream for itself,
\* if the entry is in the topology too.
EntityAgreesWithAnswer ==
  \A m \in Monitors :
    /\ SoleReader(m) /\ pc[m] = "recv"
    /\ entry \notin dropped \cup {0} /\ report # 0
    /\ InTime(Content[entry])
    => LastItemAgrees(Items(Content[entry]), KpiReports(Items(Content[report])))
=============================================================================
