--------------------------- MODULE RecordsProofs ---------------------------
(***************************************************************************)
(* Proofs about Records, for messages of any number of items, values and   *)
(* names: what the three loops over an indication compute.  A loop is a    *)
(* recursive function; that it has an invariant is lemma Loop, which rests *)
(* on induction over a set of numbers, and that on the least element.      *)
(* With the proofs about Monitor: what a client sees is what the topology  *)
(* shows.                                                                  *)
(***************************************************************************)
EXTENDS MonitorData, MonitorProofs, WellFoundedInduction

-----------------------------------------------------------------------------
(* Loops *)

\* A set of numbers has a least one.
LEMMA Least ==
  ASSUME NEW T, T \subseteq Nat, T # {}
  PROVE  \E x \in T : \A y \in T : x <= y
<1>1. \E x \in T : \A y \in T : ~(<<y, x>> \in OpToRel(<, Nat))
  BY NatLessThanWellFounded, WFMin
<1>2. PICK x \in T : \A y \in T : ~(<<y, x>> \in OpToRel(<, Nat))
  BY <1>1
<1>3. \A y \in T : ~(y < x)
  BY <1>2 DEF OpToRel
<1>4. QED
  BY <1>3

\* Induction, for a set of numbers.
LEMMA SetInduction ==
  ASSUME NEW S, 0 \in S, \A n \in Nat : n \in S => n + 1 \in S
  PROVE  Nat \subseteq S
<1> SUFFICES ASSUME Nat \ S # {}
             PROVE  FALSE
  OBVIOUS
<1>1. PICK x \in Nat \ S : \A y \in Nat \ S : x <= y
  BY Least
<1>2. x # 0 /\ x - 1 \in Nat
  BY <1>1
<1>3. x - 1 \in S
  BY <1>1, <1>2
<1>4. QED
  BY <1>1, <1>2, <1>3

\* The function of a loop of n passes over states of V.
HasLoop(n, V, b, step) ==
  \E f \in [0..n -> V] : f[0] = b /\ \A i \in 1..n : f[i] = step[i][f[i - 1]]

\* It exists.
LEMMA Loop ==
  ASSUME NEW n \in Nat, NEW V, NEW b \in V, NEW step \in [1..n -> [V -> V]]
  PROVE  HasLoop(n, V, b, step)
<1> DEFINE Passes(k, f) == f[0] = b /\ \A i \in 1..k : f[i] = step[i][f[i - 1]]
           S == {k \in Nat : k <= n => \E f \in [0..k -> V] : Passes(k, f)}
<1>1. 0 \in S
  <2> DEFINE f == [i \in 0..0 |-> b]
  <2>1. f \in [0..0 -> V] /\ f[0] = b
    OBVIOUS
  <2> HIDE DEF f
  <2>2. Passes(0, f)
    BY <2>1
  <2> HIDE DEF Passes
  <2>3. QED
    BY <2>1, <2>2
<1>2. ASSUME NEW k \in Nat, k \in S
      PROVE  k + 1 \in S
  <2> SUFFICES ASSUME k + 1 <= n
               PROVE  \E f \in [0..(k + 1) -> V] : Passes(k + 1, f)
    <3> HIDE DEF Passes
    <3>1. QED
      OBVIOUS
  <2>1. PICK f \in [0..k -> V] : Passes(k, f)
    BY <1>2
  <2> DEFINE g == [i \in 0..(k + 1) |-> IF i = k + 1 THEN step[k + 1][f[k]] ELSE f[i]]
  <2>2. f[k] \in V /\ step[k + 1][f[k]] \in V
    <3>1. f[k] \in V /\ k + 1 \in 1..n
      BY <2>1
    <3>2. QED
      BY <3>1
  <2>3. g \in [0..(k + 1) -> V]
    BY <2>2
  <2>4. g[0] = b
    BY <2>1
  <2>5. ASSUME NEW i \in 1..(k + 1)
        PROVE  g[i] = step[i][g[i - 1]]
    <3>1. CASE i = k + 1
      <4>1. g[i] = step[k + 1][f[k]] /\ g[i - 1] = f[k]
        BY <3>1
      <4>2. QED
        BY <3>1, <4>1
    <3>2. CASE i # k + 1
      <4>1. i \in 1..k /\ g[i] = f[i] /\ g[i - 1] = f[i - 1]
        BY <3>2
      <4>2. QED
        BY <2>1, <4>1
    <3>3. QED
      BY <3>1, <3>2
  <2>6. QED
    BY <2>3, <2>4, <2>5
<1>3. n \in S
  <2> HIDE DEF S
  <2>1. QED
    BY <1>1, <1>2, SetInduction
<1>4. QED
  BY <1>3 DEF HasLoop

\* What holds before a loop and is kept by every pass holds after it.
LEMMA LoopInvariant ==
  ASSUME NEW n \in Nat, NEW f, NEW inv,
         f[0] \in inv[0],
         \A i \in 1..n : f[i - 1] \in inv[i - 1] => f[i] \in inv[i]
  PROVE  \A i \in 0..n : f[i] \in inv[i]
<1> DEFINE S == {k \in Nat : k <= n => f[k] \in inv[k]}
<1>1. 0 \in S
  OBVIOUS
<1>2. ASSUME NEW k \in Nat, k \in S
      PROVE  k + 1 \in S
  <2> SUFFICES ASSUME k + 1 <= n
               PROVE  f[k + 1] \in inv[k + 1]
    OBVIOUS
  <2>1. k + 1 \in 1..n /\ (k + 1) - 1 = k
    OBVIOUS
  <2>2. f[k] \in inv[k]
    BY <1>2
  <2>3. QED
    BY <2>1, <2>2
<1>3. Nat \subseteq S
  <2> HIDE DEF S
  <2>1. QED
    BY <1>1, <1>2, SetInduction
<1>4. QED
  BY <1>3

-----------------------------------------------------------------------------
(* From a message to an item of the store *)

RecordSet == [time : Nat, name : Names \cup {NoName}, value : Values]

\* The places of an item of the message up to place j that have name n.
PositionsUpTo(msg, j, n) == {k \in 1..j : Named(msg, k, n)}

IsLast(k, S) == k \in S /\ \A l \in S : l <= k

\* The records are, of the first j values of item i, those with a name: of every
\* name there are both or neither, and the last of both are the same value.
HasValues(records, msg, i, j) ==
  /\ records \in Seq(RecordSet)
  /\ \A k \in 1..Len(records) : records[k].time = TimeStamp(msg, i)
  /\ \A n \in Names \cup {NoName} :
       \/ NamedIn(records, n) = {} /\ PositionsUpTo(msg, j, n) = {}
       \/ \E k \in NamedIn(records, n), l \in PositionsUpTo(msg, j, n) :
            /\ IsLast(k, NamedIn(records, n))
            /\ IsLast(l, PositionsUpTo(msg, j, n))
            /\ records[k].value = msg.data[i][l]

LEMMA TimeStampType ==
  ASSUME NEW msg, IsMessage(msg), NEW i \in 1..Len(msg.data)
  PROVE  TimeStamp(msg, i) \in Nat
<1>1. /\ msg.start \in Nat /\ msg.granularity \in Nat /\ i - 1 \in Nat
      /\ Clock \in Nat \ {0}
  BY RecordsAssumption DEF IsMessage
<1>2. msg.granularity * (i - 1) \in Nat
  BY <1>1
<1>3. QED
  BY <1>1, <1>2 DEF TimeStamp

LEMMA RecordType ==
  ASSUME NEW msg, IsMessage(msg),
         NEW i \in 1..Len(msg.data), NEW j \in 1..Len(msg.data[i])
  PROVE  /\ Record(msg, i, j) \in RecordSet
         /\ Record(msg, i, j).time = TimeStamp(msg, i)
         /\ Record(msg, i, j).name = MeasurementName(msg.info[j])
         /\ Record(msg, i, j).value = msg.data[i][j]
<1>1. msg.data[i] \in Seq(Values) /\ msg.data[i][j] \in Values
  BY DEF IsMessage
<1>2. j \in 1..Len(msg.info)
  BY <1>1 DEF IsMessage
<1>3. MeasurementName(msg.info[j]) \in Names \cup {NoName}
  BY <1>2, RecordsAssumption DEF IsMessage, MeasurementName, GetMeasurementName
<1>4. QED
  BY <1>1, <1>3, TimeStampType DEF Record, RecordSet

\* The next value, if its name is empty and has no ID.
LEMMA SkipValue ==
  ASSUME NEW msg, NEW i, NEW j \in Nat, NEW records,
         HasValues(records, msg, i, j), Anonymous(msg.info[j + 1])
  PROVE  HasValues(records, msg, i, j + 1)
<1>1. ASSUME NEW n \in Names \cup {NoName}
      PROVE  PositionsUpTo(msg, j + 1, n) = PositionsUpTo(msg, j, n)
  BY DEF PositionsUpTo, Named
<1>2. QED
  BY <1>1 DEF HasValues

\* The next value, if it has a name.
LEMMA AppendValue ==
  ASSUME NEW msg, IsMessage(msg), NEW i \in 1..Len(msg.data),
         NEW j \in Nat, j + 1 <= Len(msg.data[i]),
         NEW records, HasValues(records, msg, i, j), ~Anonymous(msg.info[j + 1])
  PROVE  HasValues(Append(records, Record(msg, i, j + 1)), msg, i, j + 1)
<1> DEFINE r == Record(msg, i, j + 1)
           more == Append(records, r)
<1>0. j + 1 \in 1..Len(msg.data[i])
  <2>1. Len(msg.data[i]) \in Nat
    BY DEF IsMessage
  <2>2. QED
    BY <2>1
<1>1. /\ r \in RecordSet
      /\ r.time = TimeStamp(msg, i)
      /\ r.name = MeasurementName(msg.info[j + 1])
      /\ r.value = msg.data[i][j + 1]
  BY <1>0, RecordType
<1> HIDE DEF r
<1>2. /\ records \in Seq(RecordSet)
      /\ more \in Seq(RecordSet)
      /\ Len(records) \in Nat
      /\ Len(more) = Len(records) + 1
      /\ more[Len(records) + 1] = r
      /\ \A k \in 1..Len(records) : more[k] = records[k]
  BY <1>1 DEF HasValues
<1> HIDE DEF more
<1>3. ASSUME NEW k \in 1..Len(more)
      PROVE  more[k].time = TimeStamp(msg, i)
  BY <1>1, <1>2 DEF HasValues
<1>4. ASSUME NEW n \in Names \cup {NoName}
      PROVE  \/ NamedIn(more, n) = {} /\ PositionsUpTo(msg, j + 1, n) = {}
             \/ \E k \in NamedIn(more, n), l \in PositionsUpTo(msg, j + 1, n) :
                  /\ IsLast(k, NamedIn(more, n))
                  /\ IsLast(l, PositionsUpTo(msg, j + 1, n))
                  /\ more[k].value = msg.data[i][l]
  <2>1. CASE r.name = n
    <3>1. IsLast(Len(records) + 1, NamedIn(more, n))
      BY <1>2, <2>1 DEF NamedIn, IsLast
    <3>2. Named(msg, j + 1, n)
      BY <1>1, <2>1 DEF Named
    <3>3. IsLast(j + 1, PositionsUpTo(msg, j + 1, n))
      BY <3>2 DEF PositionsUpTo, IsLast
    <3>4. QED
      BY <1>1, <1>2, <3>1, <3>3 DEF IsLast
  <2>2. CASE r.name # n
    <3>1. NamedIn(more, n) = NamedIn(records, n)
      BY <1>2, <2>2 DEF NamedIn
    <3>2. PositionsUpTo(msg, j + 1, n) = PositionsUpTo(msg, j, n)
      BY <1>1, <2>2 DEF PositionsUpTo, Named
    <3>3. \A k \in NamedIn(records, n) : more[k] = records[k]
      BY <1>2 DEF NamedIn
    <3>4. QED
      BY <3>1, <3>2, <3>3 DEF HasValues
  <2>3. QED
    BY <2>1, <2>2
<1>5. HasValues(more, msg, i, j + 1)
  BY <1>2, <1>3, <1>4 DEF HasValues
<1>6. QED
  BY <1>5 DEF more, r

\* The inner loop of processIndicationFormat1.
LEMMA ItemHasValues ==
  ASSUME NEW msg, IsMessage(msg), NEW i \in 1..Len(msg.data)
  PROVE  HasValues(Item(msg, i), msg, i, Len(msg.data[i]))
<1> DEFINE n == Len(msg.data[i])
           V == Seq(RecordSet)
           Pass(j, v) == IF Anonymous(msg.info[j]) THEN v ELSE Append(v, Record(msg, i, j))
           step == [j \in 1..n |-> [v \in V |-> Pass(j, v)]]
           inv == [j \in 0..n |-> {v \in V : HasValues(v, msg, i, j)}]
<1>1. n \in Nat
  BY DEF IsMessage
<1>2. <<>> \in V
  OBVIOUS
<1>3. ASSUME NEW j \in 1..n, NEW v \in V
      PROVE  Pass(j, v) \in V
  <2> DEFINE record == Record(msg, i, j)
  <2>1. record \in RecordSet
    BY <1>3, RecordType
  <2> HIDE DEF record
  <2>2. Append(v, record) \in Seq(RecordSet)
    BY <1>3, <2>1
  <2>3. QED
    BY <1>3, <2>2 DEF record
<1>4. PICK f : f = [j \in 0..n |-> IF j = 0 THEN <<>> ELSE Pass(j, f[j - 1])]
  <2> HIDE DEF n, V, Pass
  <2>1. \A j \in 1..n : \A v \in V : step[j][v] = Pass(j, v)
    OBVIOUS
  <2>2. step \in [1..n -> [V -> V]]
    BY <1>3
  <2> HIDE DEF step
  <2>3. PICK f \in [0..n -> V] : f[0] = <<>> /\ \A j \in 1..n : f[j] = step[j][f[j - 1]]
    <3>1. HasLoop(n, V, <<>>, step)
      BY <1>1, <1>2, <2>2, Loop
    <3>2. QED
      BY <3>1 DEF HasLoop
  <2>4. ASSUME NEW j \in 0..n
        PROVE  f[j] = IF j = 0 THEN <<>> ELSE Pass(j, f[j - 1])
    <3>1. CASE j = 0
      BY <2>3, <3>1
    <3>2. CASE j # 0
      <4>1. j \in 1..n /\ j - 1 \in 0..n
        BY <1>1, <3>2
      <4>2. f[j - 1] \in V
        BY <2>3, <4>1
      <4>3. f[j] = step[j][f[j - 1]]
        BY <2>3, <4>1
      <4>4. QED
        BY <2>1, <3>2, <4>1, <4>2, <4>3
    <3>3. QED
      BY <3>1, <3>2
  <2>5. f = [j \in 0..n |-> IF j = 0 THEN <<>> ELSE Pass(j, f[j - 1])]
    BY <2>3, <2>4
  <2>6. QED
    BY <2>5
<1>5. PICK g : /\ g = [j \in 0..n |-> IF j = 0 THEN <<>> ELSE Pass(j, g[j - 1])]
               /\ Item(msg, i) = g[n]
  BY <1>4 DEF Item
<1>6. g[0] \in inv[0]
  <2>1. g[0] = <<>>
    BY <1>1, <1>5
  <2>2. HasValues(<<>>, msg, i, 0)
    BY <1>2 DEF HasValues, NamedIn, PositionsUpTo
  <2>3. QED
    BY <1>1, <1>2, <2>1, <2>2
<1>7. ASSUME NEW j \in 1..n, g[j - 1] \in inv[j - 1]
      PROVE  g[j] \in inv[j]
  <2>1. j \in 0..n /\ j # 0 /\ j - 1 \in 0..n /\ j - 1 \in Nat /\ (j - 1) + 1 = j
    BY <1>1
  <2>2. g[j] = Pass(j, g[j - 1])
    <3> HIDE DEF Pass, n
    <3>1. QED
      BY <1>5, <2>1
  <2>3. HasValues(g[j - 1], msg, i, j - 1)
    <3> HIDE DEF n, V
    <3>1. QED
      BY <1>7, <2>1
  <2>4. HasValues(Pass(j, g[j - 1]), msg, i, j)
    <3>1. CASE Anonymous(msg.info[j])
      BY <2>1, <2>3, <3>1, SkipValue
    <3>2. CASE ~Anonymous(msg.info[j])
      <4>1. j <= Len(msg.data[i])
        BY <1>1
      <4>2. QED
        BY <2>1, <2>3, <3>2, <4>1, AppendValue
    <3>3. QED
      BY <3>1, <3>2
  <2>5. g[j] \in V
    BY <2>2, <2>4 DEF HasValues
  <2>6. QED
    <3> HIDE DEF n, V, Pass
    <3>1. QED
      BY <2>1, <2>2, <2>4, <2>5
<1>8. g[n] \in inv[n]
  <2> HIDE DEF inv, n
  <2>1. QED
    BY <1>1, <1>6, <1>7, LoopInvariant
<1>9. QED
  BY <1>1, <1>5, <1>8

-----------------------------------------------------------------------------
(* From an item of the store to the reports of the cell entity *)

State == [latest : Nat, reports : [Names \cup {NoName} -> Int \cup {NoReport}]]

NamedUpTo(records, j, n) == {k \in 1..j : records[k].name = n}

\* The state v after j records of an item of time stamp time, when it was u before
\* the item: a name the records have not reports as before.
AfterRecords(u, item, time, j, v) ==
  /\ v \in State
  /\ v.latest <= time
  /\ \A n \in Names \cup {NoName} :
       \/ NamedUpTo(item, j, n) = {} /\ v.reports[n] = u.reports[n]
       \/ \E k \in NamedUpTo(item, j, n) :
            IsLast(k, NamedUpTo(item, j, n)) /\ v.reports[n] = Uint32(item[k].value)

\* What becomes of a value: a number of uint32, and which.
LEMMA Uint32Value ==
  ASSUME NEW value \in Values
  PROVE  /\ Uint32(value) \in 0..Word - 1
         /\ Fits(value) => Uint32(value) = value.number
         /\ value.kind \in {"integer", "noValue"} => Uint32(value) = value.number % Word
         /\ value.kind \in {"real", "unset"} => Uint32(value) = 0
<1>1. Word \in Nat \ {0} /\ value.number \in Int
  BY RecordsAssumption DEF Values
<1>2. value.number % Word \in 0..Word - 1
  BY <1>1
<1>3. value.number \in 0..Word - 1 => value.number % Word = value.number
  BY <1>1
<1>4. QED
  BY <1>1, <1>2, <1>3 DEF Uint32, Fits

LEMMA KpiReportType ==
  ASSUME NEW v \in State, NEW record \in RecordSet
  PROVE  KpiReport(v, record) \in State
<1>1. Uint32(record.value) \in Int
  BY Uint32Value, RecordsAssumption DEF RecordSet
<1>2. QED
  BY <1>1 DEF KpiReport, State, RecordSet

\* A record that is not earlier than those before it is taken.
LEMMA NextRecord ==
  ASSUME NEW u, NEW item \in Seq(RecordSet), NEW time \in Nat,
         NEW j \in 1..Len(item), item[j].time = time,
         NEW v, AfterRecords(u, item, time, j - 1, v)
  PROVE  AfterRecords(u, item, time, j, KpiReport(v, item[j]))
<1> DEFINE w == KpiReport(v, item[j])
<1>1. v \in State /\ v.latest <= time /\ item[j] \in RecordSet
  BY DEF AfterRecords
<1>2. w = [latest |-> time,
           reports |-> [v.reports EXCEPT ![item[j].name] = Uint32(item[j].value)]]
  BY <1>1 DEF KpiReport
<1>3. w \in State
  BY <1>1, KpiReportType
<1>4. w.latest = time
  BY <1>2
<1>5. \A n \in Names \cup {NoName} :
        w.reports[n] = IF n = item[j].name THEN Uint32(item[j].value) ELSE v.reports[n]
  BY <1>1, <1>2 DEF State
<1> HIDE DEF w
<1>6. ASSUME NEW n \in Names \cup {NoName}
      PROVE  \/ NamedUpTo(item, j, n) = {} /\ w.reports[n] = u.reports[n]
             \/ \E k \in NamedUpTo(item, j, n) :
                  IsLast(k, NamedUpTo(item, j, n)) /\ w.reports[n] = Uint32(item[k].value)
  <2>1. CASE n = item[j].name
    <3>1. j \in NamedUpTo(item, j, n) /\ IsLast(j, NamedUpTo(item, j, n))
      BY <2>1 DEF NamedUpTo, IsLast
    <3>2. QED
      BY <1>5, <2>1, <3>1
  <2>2. CASE n # item[j].name
    <3>1. NamedUpTo(item, j, n) = NamedUpTo(item, j - 1, n)
      BY <2>2 DEF NamedUpTo
    <3>2. w.reports[n] = v.reports[n]
      BY <1>5, <2>2
    <3>3. QED
      BY <3>1, <3>2 DEF AfterRecords
  <2>3. QED
    BY <2>1, <2>2
<1>7. AfterRecords(u, item, time, j, w)
  BY <1>3, <1>4, <1>6 DEF AfterRecords
<1>8. QED
  BY <1>7 DEF w

\* The function of the inner loop of UpdateCellAspects.
IsItemLoop(g, u, item) ==
  g = [j \in 0..Len(item) |-> IF j = 0 THEN u ELSE KpiReport(g[j - 1], item[j])]

LEMMA ItemLoop ==
  ASSUME NEW item \in Seq(RecordSet), NEW u \in State
  PROVE  \E g : IsItemLoop(g, u, item) /\ ItemReports(u, item) = g[Len(item)]
<1> DEFINE n == Len(item)
           step == [j \in 1..n |-> [v \in State |-> KpiReport(v, item[j])]]
<1>1. n \in Nat /\ \A j \in 1..n : item[j] \in RecordSet
  OBVIOUS
<1> HIDE DEF n
<1>2. \A j \in 1..n : \A v \in State : step[j][v] = KpiReport(v, item[j])
  OBVIOUS
<1>3. step \in [1..n -> [State -> State]]
  BY <1>1, KpiReportType
<1> HIDE DEF step
<1>4. PICK f \in [0..n -> State] :
        f[0] = u /\ \A j \in 1..n : f[j] = step[j][f[j - 1]]
  <2>1. HasLoop(n, State, u, step)
    BY <1>1, <1>3, Loop
  <2>2. QED
    BY <2>1 DEF HasLoop
<1>5. f = [j \in 0..n |-> IF j = 0 THEN u ELSE KpiReport(f[j - 1], item[j])]
  <2>1. ASSUME NEW j \in 0..n
        PROVE  f[j] = IF j = 0 THEN u ELSE KpiReport(f[j - 1], item[j])
    <3>1. CASE j = 0
      BY <1>4, <3>1
    <3>2. CASE j # 0
      <4>1. j \in 1..n /\ j - 1 \in 0..n
        BY <1>1, <3>2
      <4>2. f[j - 1] \in State
        BY <4>1
      <4>3. QED
        BY <1>2, <1>4, <3>2, <4>1, <4>2
    <3>3. QED
      BY <3>1, <3>2
  <2>2. QED
    BY <2>1
<1>6. QED
  BY <1>5 DEF ItemReports, IsItemLoop, n

LEMMA ItemReportsType ==
  ASSUME NEW item \in Seq(RecordSet), NEW u \in State
  PROVE  ItemReports(u, item) \in State
<1> DEFINE n == Len(item)
           inv == [j \in 0..n |-> State]
<1>1. PICK g : IsItemLoop(g, u, item) /\ ItemReports(u, item) = g[n]
  BY ItemLoop
<1>2. n \in Nat /\ \A j \in 1..n : item[j] \in RecordSet
  OBVIOUS
<1>3. g[0] \in inv[0]
  BY <1>1, <1>2 DEF IsItemLoop
<1>4. ASSUME NEW j \in 1..n, g[j - 1] \in inv[j - 1]
      PROVE  g[j] \in inv[j]
  <2>1. j - 1 \in 0..n /\ j \in 0..n /\ j # 0
    BY <1>2
  <2>2. g[j - 1] \in State
    BY <1>4, <2>1
  <2>3. g[j] = KpiReport(g[j - 1], item[j])
    BY <1>1, <2>1 DEF IsItemLoop
  <2>4. g[j] \in State
    BY <1>2, <2>2, <2>3, KpiReportType
  <2>5. QED
    BY <2>1, <2>4
<1>5. g[n] \in inv[n]
  <2> HIDE DEF inv, n
  <2>1. \A j \in 1..n : g[j - 1] \in inv[j - 1] => g[j] \in inv[j]
    BY <1>4
  <2>2. \A j \in 0..n : g[j] \in inv[j]
    BY <1>2, <1>3, <2>1, LoopInvariant
  <2>3. QED
    BY <1>2, <2>2
<1>6. QED
  BY <1>1, <1>2, <1>5

\* What the inner loop does to the reports.
LEMMA ItemReportsAreLatest ==
  ASSUME NEW item \in Seq(RecordSet), NEW time \in Nat,
         \A k \in 1..Len(item) : item[k].time = time,
         NEW u \in State, u.latest <= time
  PROVE  AfterRecords(u, item, time, Len(item), ItemReports(u, item))
<1> DEFINE n == Len(item)
           inv == [j \in 0..n |-> {v \in State : AfterRecords(u, item, time, j, v)}]
<1>1. n \in Nat /\ \A j \in 1..n : item[j] \in RecordSet
  OBVIOUS
<1> HIDE DEF n
<1>2. PICK g : /\ g = [j \in 0..n |-> IF j = 0 THEN u ELSE KpiReport(g[j - 1], item[j])]
               /\ ItemReports(u, item) = g[n]
  BY ItemLoop DEF IsItemLoop, n
<1>3. g[0] \in inv[0]
  <2>1. g[0] = u
    BY <1>1, <1>2
  <2>2. AfterRecords(u, item, time, 0, u)
    BY DEF AfterRecords, NamedUpTo
  <2>3. QED
    BY <1>1, <2>1, <2>2
<1>4. ASSUME NEW j \in 1..n, g[j - 1] \in inv[j - 1]
      PROVE  g[j] \in inv[j]
  <2>1. j \in 0..n /\ j # 0 /\ j - 1 \in 0..n /\ j \in 1..Len(item)
    BY <1>1 DEF n
  <2>2. g[j] = KpiReport(g[j - 1], item[j])
    BY <1>2, <2>1
  <2>3. AfterRecords(u, item, time, j - 1, g[j - 1])
    BY <1>4, <2>1
  <2>4. AfterRecords(u, item, time, j, g[j])
    BY <2>1, <2>2, <2>3, NextRecord
  <2>5. g[j] \in State
    BY <2>4 DEF AfterRecords
  <2>6. QED
    BY <2>1, <2>4, <2>5
<1>5. g[n] \in inv[n]
  <2> HIDE DEF inv
  <2>1. \A j \in 1..n : g[j - 1] \in inv[j - 1] => g[j] \in inv[j]
    BY <1>4
  <2>2. \A j \in 0..n : g[j] \in inv[j]
    BY <1>1, <1>3, <2>1, LoopInvariant
  <2>3. QED
    BY <1>1, <2>2
<1>6. QED
  BY <1>1, <1>2, <1>5 DEF n

-----------------------------------------------------------------------------
(* From a message to the reports of the cell entity *)

LEMMA TimeStampsAdvance ==
  ASSUME NEW msg, IsMessage(msg), InTime(msg),
         NEW i \in 1..Len(msg.data), NEW k \in 1..Len(msg.data), i <= k
  PROVE  TimeStamp(msg, i) <= TimeStamp(msg, k)
<1> DEFINE g == msg.granularity
           s == msg.start
           n == Len(msg.data)
<1>1. g \in Nat /\ s \in Nat /\ n \in Nat /\ Clock \in Nat \ {0} /\ s + g * n < Clock
  BY RecordsAssumption DEF IsMessage, InTime
<1>2. i - 1 \in Nat /\ k - 1 \in Nat /\ i - 1 <= k - 1 /\ k - 1 <= n
  BY <1>1
<1> HIDE DEF g, s, n
<1>3. \A a, b \in Nat : a <= b => g * a \in Nat /\ g * b \in Nat /\ g * a <= g * b
  BY <1>1
<1>4. /\ g * (i - 1) \in Nat /\ g * (k - 1) \in Nat /\ g * n \in Nat
      /\ g * (i - 1) <= g * (k - 1) /\ g * (k - 1) <= g * n
  BY <1>1, <1>2, <1>3
<1>5. s + g * (i - 1) \in 0..Clock - 1 /\ s + g * (k - 1) \in 0..Clock - 1
  BY <1>1, <1>4
<1>6. \A a \in 0..Clock - 1 : a % Clock = a
  BY <1>1
<1>7. TimeStamp(msg, i) = s + g * (i - 1) /\ TimeStamp(msg, k) = s + g * (k - 1)
  BY <1>5, <1>6 DEF TimeStamp, s, g
<1>8. QED
  BY <1>1, <1>4, <1>7

PlacesUpTo(msg, i, n) == {p \in PlacesOf(msg, n) : p[1] <= i}

IsLastPlace(p, S) == p \in S /\ \A q \in S : NotAfter(q, p)

LEMMA OnlyOneLast ==
  ASSUME NEW S, S \subseteq Nat, NEW k, NEW l, IsLast(k, S), IsLast(l, S)
  PROVE  k = l
BY DEF IsLast

LEMMA OnlyOneLastPlace ==
  ASSUME NEW msg, NEW n, NEW S, S \subseteq PlacesOf(msg, n),
         NEW p, NEW q, IsLastPlace(p, S), IsLastPlace(q, S)
  PROVE  p = q
<1>1. p \in Int \X Int /\ q \in Int \X Int
  BY DEF IsLastPlace, PlacesOf
<1>2. p[1] = q[1] /\ p[2] = q[2]
  BY <1>1 DEF IsLastPlace, NotAfter
<1>3. QED
  BY <1>1, <1>2

\* The state v after i items of the message.
AfterItems(msg, i, v) ==
  /\ v \in State
  /\ \A k \in i + 1..Len(msg.data) : v.latest <= TimeStamp(msg, k)
  /\ \A n \in Names \cup {NoName} :
       \/ PlacesUpTo(msg, i, n) = {} /\ v.reports[n] = NoReport
       \/ \E p \in PlacesUpTo(msg, i, n) :
            /\ IsLastPlace(p, PlacesUpTo(msg, i, n))
            /\ v.reports[n] = Uint32(msg.data[p[1]][p[2]])

LEMMA NextItem ==
  ASSUME NEW msg, IsMessage(msg), InTime(msg), NEW i \in 1..Len(msg.data),
         NEW v, AfterItems(msg, i - 1, v)
  PROVE  AfterItems(msg, i, ItemReports(v, Item(msg, i)))
<1> DEFINE item == Item(msg, i)
           time == TimeStamp(msg, i)
           w == ItemReports(v, item)
           n == Len(msg.data[i])
<1>1. /\ Len(msg.data) \in Nat /\ n \in Nat
      /\ Len(msg.info) \in Nat /\ n <= Len(msg.info)
  BY DEF IsMessage
<1>2. HasValues(item, msg, i, n)
  BY ItemHasValues
<1>3. v \in State /\ v.latest <= time
  BY <1>1 DEF AfterItems
<1>4. /\ item \in Seq(RecordSet) /\ time \in Nat
      /\ \A k \in 1..Len(item) : item[k].time = time
  BY <1>2, TimeStampType DEF HasValues
<1> HIDE DEF item, time, n
<1>5. AfterRecords(v, item, time, Len(item), w)
  BY <1>3, <1>4, ItemReportsAreLatest
<1> HIDE DEF w
<1>6. w \in State /\ w.latest <= time
  BY <1>5 DEF AfterRecords
<1>7. ASSUME NEW k \in i + 1..Len(msg.data)
      PROVE  w.latest <= TimeStamp(msg, k)
  <2>1. k \in 1..Len(msg.data) /\ i <= k
    BY <1>1
  <2>2. time <= TimeStamp(msg, k) /\ TimeStamp(msg, k) \in Nat
    BY <2>1, TimeStampsAdvance, TimeStampType DEF time
  <2>3. QED
    BY <1>4, <1>6, <2>2 DEF State
<1>8. ASSUME NEW name \in Names \cup {NoName}
      PROVE  \/ PlacesUpTo(msg, i, name) = {} /\ w.reports[name] = NoReport
             \/ \E p \in PlacesUpTo(msg, i, name) :
                  /\ IsLastPlace(p, PlacesUpTo(msg, i, name))
                  /\ w.reports[name] = Uint32(msg.data[p[1]][p[2]])
  <2>1. NamedUpTo(item, Len(item), name) = NamedIn(item, name)
    BY DEF NamedUpTo, NamedIn
  <2>2. CASE PositionsUpTo(msg, n, name) = {}
    <3>1. NamedIn(item, name) = {}
      BY <1>2, <2>2 DEF HasValues
    <3>2. w.reports[name] = v.reports[name]
      BY <1>5, <2>1, <3>1 DEF AfterRecords
    <3>3. PlacesUpTo(msg, i, name) = PlacesUpTo(msg, i - 1, name)
      <4>1. ASSUME NEW p \in PlacesUpTo(msg, i, name)
            PROVE  p[1] <= i - 1
        <5>1. p[1] \in Int /\ p[2] \in Int /\ p[1] <= i /\ p[2] >= 1
          BY DEF PlacesUpTo, PlacesOf
        <5>2. ASSUME p[1] = i
              PROVE  p[2] \in PositionsUpTo(msg, n, name)
          BY <1>1, <5>1, <5>2 DEF PlacesUpTo, PlacesOf, PositionsUpTo, n
        <5>3. QED
          BY <2>2, <5>1, <5>2
      <4>2. ASSUME NEW p \in PlacesOf(msg, name), p[1] <= i - 1
            PROVE  p[1] <= i
        BY <4>2 DEF PlacesOf
      <4>3. QED
        BY <4>1, <4>2 DEF PlacesUpTo
    <3>4. QED
      BY <3>2, <3>3 DEF AfterItems
  <2>3. CASE PositionsUpTo(msg, n, name) # {}
    <3>1. PICK k \in NamedIn(item, name), l \in PositionsUpTo(msg, n, name) :
                 /\ IsLast(k, NamedIn(item, name))
                 /\ IsLast(l, PositionsUpTo(msg, n, name))
                 /\ item[k].value = msg.data[i][l]
      BY <1>2, <2>3 DEF HasValues
    <3>2. PICK m \in NamedIn(item, name) :
                 IsLast(m, NamedIn(item, name)) /\ w.reports[name] = Uint32(item[m].value)
      BY <1>5, <2>1, <3>1 DEF AfterRecords
    <3>3. k = m
      <4>1. NamedIn(item, name) \subseteq Nat
        BY DEF NamedIn
      <4>2. QED
        BY <3>1, <3>2, <4>1, OnlyOneLast
    <3>4. w.reports[name] = Uint32(msg.data[i][l])
      BY <3>1, <3>2, <3>3
    <3>5. l \in 1..n /\ Named(msg, l, name)
      BY DEF PositionsUpTo
    <3> DEFINE p == <<i, l>>
    <3>6. p \in PlacesUpTo(msg, i, name)
      BY <1>1, <3>5 DEF PlacesUpTo, PlacesOf, n
    <3>7. ASSUME NEW q \in PlacesUpTo(msg, i, name)
          PROVE  NotAfter(q, p)
      <4>1. q[1] \in Int /\ q[2] \in Int /\ q[1] <= i /\ q[2] >= 1
        BY DEF PlacesUpTo, PlacesOf
      <4>2. ASSUME q[1] = i
            PROVE  q[2] <= l
        <5>1. q[2] \in PositionsUpTo(msg, n, name)
          BY <1>1, <4>1, <4>2 DEF PlacesUpTo, PlacesOf, PositionsUpTo, n
        <5>2. QED
          BY <3>1, <5>1 DEF IsLast
      <4>3. QED
        BY <4>1, <4>2 DEF NotAfter
    <3>8. IsLastPlace(p, PlacesUpTo(msg, i, name))
      BY <3>6, <3>7 DEF IsLastPlace
    <3>9. w.reports[name] = Uint32(msg.data[p[1]][p[2]])
      BY <3>4
    <3>10. QED
      BY <3>6, <3>8, <3>9
  <2>4. QED
    BY <2>2, <2>3
<1>9. AfterItems(msg, i, w)
  BY <1>6, <1>7, <1>8 DEF AfterItems
<1>10. QED
  BY <1>9 DEF w, item

\* The outer loop of UpdateCellAspects.
LEMMA KpiReportsAfterItems ==
  ASSUME NEW msg, IsMessage(msg), InTime(msg)
  PROVE  \E v : AfterItems(msg, Len(msg.data), v) /\ KpiReports(Items(msg)) = v.reports
<1> DEFINE n == Len(msg.data)
           items == Items(msg)
           step == [i \in 1..n |-> [v \in State |-> ItemReports(v, items[i])]]
           inv == [i \in 0..n |-> {v \in State : AfterItems(msg, i, v)}]
<1>1. n \in Nat /\ Len(items) = n /\ \A i \in 1..n : items[i] = Item(msg, i)
  BY DEF IsMessage, Items
<1>2. \A i \in 1..n : items[i] \in Seq(RecordSet)
  BY <1>1, ItemHasValues DEF HasValues
<1> HIDE DEF items
<1>3. NoReports \in State
  BY DEF NoReports, State
<1>4. \E f : f = [i \in 0..n |-> IF i = 0 THEN NoReports ELSE ItemReports(f[i - 1], items[i])]
  <2> HIDE DEF n
  <2>1. \A i \in 1..n : \A v \in State : step[i][v] = ItemReports(v, items[i])
    OBVIOUS
  <2>2. step \in [1..n -> [State -> State]]
    BY <1>2, ItemReportsType
  <2> HIDE DEF step
  <2>3. HasLoop(n, State, NoReports, step)
    BY <1>1, <1>3, <2>2, Loop
  <2>4. PICK f \in [0..n -> State] :
          f[0] = NoReports /\ \A i \in 1..n : f[i] = step[i][f[i - 1]]
    BY <2>3 DEF HasLoop
  <2>5. ASSUME NEW i \in 0..n
        PROVE  f[i] = IF i = 0 THEN NoReports ELSE ItemReports(f[i - 1], items[i])
    <3>1. CASE i = 0
      BY <2>4, <3>1
    <3>2. CASE i # 0
      <4>1. i \in 1..n /\ i - 1 \in 0..n
        BY <1>1, <3>2
      <4>2. f[i - 1] \in State
        BY <4>1
      <4>3. QED
        BY <2>1, <2>4, <3>2, <4>1, <4>2
    <3>3. QED
      BY <3>1, <3>2
  <2>6. f = [i \in 0..n |-> IF i = 0 THEN NoReports ELSE ItemReports(f[i - 1], items[i])]
    BY <2>5
  <2>7. QED
    BY <2>6
<1> HIDE DEF n
<1>5. PICK g : /\ g = [i \in 0..n |-> IF i = 0 THEN NoReports
                                      ELSE ItemReports(g[i - 1], items[i])]
               /\ KpiReports(items) = g[n].reports
  BY <1>1, <1>4 DEF KpiReports
<1>6. g[0] \in inv[0]
  <2>1. g[0] = NoReports
    BY <1>1, <1>5
  <2>2. ASSUME NEW k \in 0 + 1..Len(msg.data)
        PROVE  NoReports.latest <= TimeStamp(msg, k)
    BY <2>2, TimeStampType DEF NoReports
  <2>3. ASSUME NEW name \in Names \cup {NoName}
        PROVE  PlacesUpTo(msg, 0, name) = {} /\ NoReports.reports[name] = NoReport
    BY DEF PlacesUpTo, PlacesOf, NoReports
  <2>4. AfterItems(msg, 0, NoReports)
    BY <1>3, <2>2, <2>3 DEF AfterItems
  <2>5. QED
    BY <1>1, <1>3, <2>1, <2>4
<1>7. ASSUME NEW i \in 1..n, g[i - 1] \in inv[i - 1]
      PROVE  g[i] \in inv[i]
  <2>1. i \in 0..n /\ i # 0 /\ i - 1 \in 0..n /\ i \in 1..Len(msg.data)
    BY <1>1 DEF n
  <2>2. g[i] = ItemReports(g[i - 1], Item(msg, i))
    BY <1>1, <1>5, <2>1
  <2>3. AfterItems(msg, i - 1, g[i - 1])
    BY <1>7, <2>1
  <2>4. AfterItems(msg, i, g[i])
    BY <2>1, <2>2, <2>3, NextItem
  <2>5. g[i] \in State
    BY <2>4 DEF AfterItems
  <2>6. QED
    BY <2>1, <2>4, <2>5
<1>8. g[n] \in inv[n]
  <2> HIDE DEF inv
  <2>1. \A i \in 1..n : g[i - 1] \in inv[i - 1] => g[i] \in inv[i]
    BY <1>7
  <2>2. \A i \in 0..n : g[i] \in inv[i]
    BY <1>1, <1>6, <2>1, LoopInvariant
  <2>3. QED
    BY <1>1, <2>2
<1>9. AfterItems(msg, n, g[n])
  BY <1>1, <1>8
<1>10. QED
  BY <1>5, <1>9 DEF n, items

LEMMA ReportOfPlace ==
  ASSUME NEW msg, IsMessage(msg), InTime(msg), NEW n \in Names \cup {NoName}
  PROVE  \/ PlacesOf(msg, n) = {} /\ KpiReports(Items(msg))[n] = NoReport
         \/ \E p \in PlacesOf(msg, n) :
              /\ IsLastPlace(p, PlacesOf(msg, n))
              /\ KpiReports(Items(msg))[n] = Uint32(msg.data[p[1]][p[2]])
<1>1. PICK v : AfterItems(msg, Len(msg.data), v) /\ KpiReports(Items(msg)) = v.reports
  BY KpiReportsAfterItems
<1>2. PlacesUpTo(msg, Len(msg.data), n) = PlacesOf(msg, n)
  BY DEF PlacesUpTo, PlacesOf, IsMessage
<1>3. QED
  BY <1>1, <1>2 DEF AfterItems

\* UpdateCellAspects gives every name of a message the last value the message has
\* for it, whatever the number of items, values and names, if time stamps do not wrap.
THEOREM ReportsLatest ==
  ASSUME NEW msg, IsMessage(msg), InTime(msg)
  PROVE  LatestReports(msg)
<1> SUFFICES ASSUME NEW n \in Names \cup {NoName}
             PROVE  ReportIsLatest(msg, PlacesOf(msg, n), KpiReports(Items(msg))[n])
  BY DEF LatestReports
<1> DEFINE S == PlacesOf(msg, n)
           r == KpiReports(Items(msg))[n]
<1>1. CASE S = {}
  BY <1>1, ReportOfPlace DEF ReportIsLatest
<1>2. CASE S # {}
  <2>1. PICK p \in S : IsLastPlace(p, S) /\ r = Uint32(msg.data[p[1]][p[2]])
    BY <1>2, ReportOfPlace
  <2>2. LastPlace(S) = p
    <3>1. IsLastPlace(LastPlace(S), S)
      BY <2>1 DEF IsLastPlace, LastPlace
    <3>2. QED
      BY <2>1, <3>1, OnlyOneLastPlace
  <2>3. msg.data[p[1]][p[2]] \in Values
    <3>1. /\ p[1] \in 1..Len(msg.data)
          /\ p[2] \in 1..Len(msg.info) /\ p[2] <= Len(msg.data[p[1]])
      BY DEF PlacesOf
    <3>2. msg.data[p[1]] \in Seq(Values) /\ Len(msg.info) \in Nat
      BY <3>1 DEF IsMessage
    <3>3. p[2] \in 1..Len(msg.data[p[1]])
      BY <3>1, <3>2
    <3>4. QED
      BY <3>2, <3>3
  <2>4. QED
    BY <1>2, <2>1, <2>2, <2>3, Uint32Value DEF ReportIsLatest
<1>3. QED
  BY <1>1, <1>2

-----------------------------------------------------------------------------
(* The answer of the northbound service *)

\* Of what is in the last item of the answer, whatever a client is shown last for a
\* name is what the cell entity reports, if it is an integer that uint32 can represent.
THEOREM AnswerShowsReports ==
  ASSUME NEW msg, IsMessage(msg), InTime(msg)
  PROVE  LastItemAgrees(Items(msg), KpiReports(Items(msg)))
<1> DEFINE items == Items(msg)
           answer == ParseEntry(items)
           last == Len(msg.data)
           item == Item(msg, last)
<1>1. last \in Nat /\ Len(items) = last /\ \A i \in 1..last : items[i] = Item(msg, i)
  BY DEF IsMessage, Items
<1>2. Len(answer) = last
  BY <1>1 DEF ParseEntry
<1>3. ASSUME NEW i, i = Len(answer), answer # <<>>, NEW n \in Names \cup {NoName},
             NamedIn(answer[i], n) # {},
             Fits(answer[i][LastOf(NamedIn(answer[i], n))].value)
      PROVE  KpiReports(items)[n] = answer[i][LastOf(NamedIn(answer[i], n))].value.number
  <2>0. i \in 1..last
    BY <1>1, <1>2, <1>3 DEF ParseEntry
  <2>1. last \in 1..Len(msg.data)
    BY <1>1, <2>0
  <2>2. HasValues(item, msg, last, Len(msg.data[last])) /\ item \in Seq(RecordSet)
    BY <2>1, ItemHasValues DEF HasValues
  <2>3. answer[i] = ParseItem(item)
    BY <1>1, <2>0, <2>1 DEF ParseEntry
  <2> HIDE DEF answer, items, item
  <2>4. /\ Len(answer[i]) = Len(item)
        /\ \A k \in 1..Len(item) :
             answer[i][k].name = item[k].name /\ answer[i][k].value = AnyValue(item[k].value)
    BY <2>2, <2>3 DEF ParseItem
  <2>5. NamedIn(answer[i], n) = NamedIn(item, n)
    BY <2>4 DEF NamedIn
  <2>6. PICK k \in NamedIn(item, n), l \in PositionsUpTo(msg, Len(msg.data[last]), n) :
               /\ IsLast(k, NamedIn(item, n))
               /\ IsLast(l, PositionsUpTo(msg, Len(msg.data[last]), n))
               /\ item[k].value = msg.data[last][l]
    BY <1>3, <2>2, <2>5 DEF HasValues
  <2>7. LastOf(NamedIn(answer[i], n)) = k
    <3>1. IsLast(LastOf(NamedIn(item, n)), NamedIn(item, n))
      BY <2>6 DEF IsLast, LastOf
    <3>2. NamedIn(item, n) \subseteq Nat
      BY DEF NamedIn
    <3>3. QED
      BY <2>5, <2>6, <3>1, <3>2, OnlyOneLast
  <2>8. /\ item[k].value \in Values /\ Fits(item[k].value)
        /\ answer[i][k].value.number = item[k].value.number
    <3>1. k \in 1..Len(item) /\ item[k].value \in Values
      <4>1. k \in 1..Len(item)
        BY DEF NamedIn
      <4>2. item[k] \in RecordSet
        BY <2>2, <4>1
      <4>3. QED
        BY <4>1, <4>2 DEF RecordSet
    <3>2. answer[i][k].value = AnyValue(item[k].value) /\ Fits(AnyValue(item[k].value))
      BY <1>3, <2>4, <2>7, <3>1
    <3>3. AnyValue(item[k].value) = item[k].value
      BY <3>2 DEF AnyValue, Fits
    <3>4. QED
      BY <3>1, <3>2, <3>3
  <2> DEFINE S == PlacesOf(msg, n)
             p == <<last, l>>
  <2>9. p \in S
    <3>1. /\ Len(msg.info) \in Nat /\ Len(msg.data[last]) \in Nat
          /\ Len(msg.data[last]) <= Len(msg.info)
      BY <2>1 DEF IsMessage
    <3>2. l \in 1..Len(msg.data[last]) /\ Named(msg, l, n)
      BY DEF PositionsUpTo
    <3>3. l \in 1..Len(msg.info) /\ l <= Len(msg.data[last])
      BY <3>1, <3>2
    <3>4. QED
      BY <2>1, <3>2, <3>3 DEF PlacesOf
  <2>10. IsLastPlace(p, S)
    <3>1. ASSUME NEW q \in S
          PROVE  NotAfter(q, p)
      <4>1. q[1] \in 1..last /\ q[2] \in 1..Len(msg.info)
        BY DEF PlacesOf
      <4>2. Len(msg.info) \in Nat /\ Len(msg.data[last]) \in Nat
        BY <2>1 DEF IsMessage
      <4>3. ASSUME q[1] = last
            PROVE  q[2] <= l
        <5>1. q[2] \in PositionsUpTo(msg, Len(msg.data[last]), n)
          BY <4>1, <4>2, <4>3 DEF PlacesOf, PositionsUpTo
        <5>2. QED
          BY <2>6, <5>1 DEF IsLast
      <4>4. QED
        BY <1>1, <4>1, <4>3 DEF NotAfter
    <3>2. QED
      BY <2>9, <3>1 DEF IsLastPlace
  <2>11. KpiReports(items)[n] = Uint32(msg.data[last][l])
    <3>1. PICK q \in S : /\ IsLastPlace(q, S)
                         /\ KpiReports(Items(msg))[n] = Uint32(msg.data[q[1]][q[2]])
      BY <2>9, ReportOfPlace
    <3>2. q = p
      BY <2>10, <3>1, OnlyOneLastPlace
    <3>3. QED
      BY <3>1, <3>2 DEF items
  <2>12. QED
    BY <2>6, <2>7, <2>8, <2>11, Uint32Value
<1>4. QED
  BY <1>3 DEF LastItemAgrees

-----------------------------------------------------------------------------
(* Every run of the monitors *)

\* Whenever a monitor is about to write a cell entity, it writes the last value of
\* every name of the indication, whatever the indication is.
THEOREM MonitorReportsAreLatest == Spec => []ReportsAreLatest
<1>1. AllLatest
  BY ReportsLatest, MessagesAssumption DEF AllLatest
<1>2. ReportsAreLatest
  BY <1>1 DEF ReportsAreLatest
<1>3. QED
  BY <1>2, PTL

\* Between the indications of a monitor that has the stream for itself, what a client
\* is shown last agrees with the cell entity: the two are about the same indication,
\* and are computed from it to the same end.
THEOREM MonitorEntityAgreesWithAnswer == Spec => []EntityAgreesWithAnswer
<1>1. TypeOK /\ TopologyFollowsStore => EntityAgreesWithAnswer
  <2> SUFFICES ASSUME TypeOK, TopologyFollowsStore, NEW m \in Monitors,
                      SoleReader(m), pc[m] = "recv",
                      entry \notin dropped \cup {0}, report # 0,
                      InTime(Content[entry])
               PROVE  LastItemAgrees(Items(Content[entry]), KpiReports(Items(Content[report])))
    BY DEF EntityAgreesWithAnswer
  <2>1. report = entry
    BY DEF TopologyFollowsStore
  <2>2. entry \in 1..MaxArrivals
    BY MonitorAssumption DEF TypeOK
  <2>3. IsMessage(Content[entry])
    BY <2>2, MessagesAssumption
  <2>4. QED
    BY <2>1, <2>3, AnswerShowsReports
<1>2. QED
  BY <1>1, MonitorTypeCorrect, MonitorTopologyFollowsStore, PTL
=============================================================================
