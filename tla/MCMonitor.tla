------------------------------ MODULE MCMonitor ------------------------------
(* Finite instances of Monitor with the contents of indications.  The          *)
(* constants get their values here and in the .cfg files; liveness is checked  *)
(* with safety, so no symmetry is declared.                                    *)
EXTENDS MonitorData, TLC

CONSTANTS n1, n2, i1, i2

\* The RAN function knows one of the two IDs.
MCNameOf == i1 :> n1

MCInfos ==
  {[name |-> n1, id |-> NoID], [name |-> n2, id |-> i2], [name |-> NoName, id |-> i1],
   [name |-> NoName, id |-> i2], [name |-> NoName, id |-> NoID]}

\* Numbers below, inside and above the range of four values, and no numbers.
MCValues ==
  {[kind |-> "integer", number |-> v] : v \in {-1, 2, 4}}
    \cup {[kind |-> k, number |-> 1] : k \in {"noValue", "real", "unset"}}

MCItems == {<<>>} \cup {<<v>> : v \in MCValues} \cup (MCValues \X MCValues)

\* Two names and up to two items, with and without a granularity, early and
\* late on the clock.
MCMessages ==
  [info : MCInfos \X MCInfos,
   data : {<<a>> : a \in MCItems} \cup (MCItems \X MCItems),
   start : {0, 5}, granularity : {0, 1}]

Number(v) == [kind |-> "integer", number |-> v]

\* Three indications: two items about the same names, an item less for one of the
\* names, and one item only.
MCContent ==
  << [info |-> <<[name |-> n1, id |-> NoID], [name |-> n2, id |-> i2]>>,
      data |-> <<<<Number(1), Number(2)>>, <<Number(3), Number(0)>>>>,
      start |-> 0, granularity |-> 1],
     [info |-> <<[name |-> n2, id |-> NoID], [name |-> NoName, id |-> i1]>>,
      data |-> <<<<Number(2), Number(3)>>, <<Number(1)>>>>,
      start |-> 2, granularity |-> 1],
     [info |-> <<[name |-> NoName, id |-> i2], [name |-> n1, id |-> NoID]>>,
      data |-> <<<<Number(0), Number(2)>>>>,
      start |-> 5, granularity |-> 0] >>
=============================================================================
