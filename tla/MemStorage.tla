----------------------------- MODULE MemStorage -----------------------------
(***************************************************************************)
(* The in-memory metric store (internal/repository/memstorage.go) and the  *)
(* metric it keeps (internal/model/metrics.go).                            *)
(*                                                                         *)
(* data maps every ID to the metric stored under it, or to Absent.  An ID  *)
(* is represented by its rank in the lexicographic order of the IDs.  Of a *)
(* metric the type and the field its type uses are kept: Val is *Delta of  *)
(* a counter and *Value of a gauge, Nil when the pointer is nil.  A delta  *)
(* may be negative.  NaN is the gauge values encoding/json refuses (NaN    *)
(* and the infinities).  The hash is a function of the other fields and is *)
(* left out.                                                               *)
(*                                                                         *)
(* The operators are what the methods do while they hold ms.mutex.         *)
(***************************************************************************)
EXTENDS Integers, Sequences, FiniteSets

CONSTANTS Absent, Nil, NaN

Counter == "counter"
Gauge   == "gauge"
Other   == "other"      \* any type that is neither

(* What a request carries, and what the store keeps.                       *)
Metrics(ids) ==
  [ID : ids, MType : {Counter}, Val : Int \cup {Nil}]
    \cup [ID : ids, MType : {Gauge, Other}, Val : Int \cup {Nil, NaN}]

Stored ==
  [MType : {Counter}, Val : Int] \cup [MType : {Gauge}, Val : Int \cup {NaN}]

ASSUME MemAssumption == Absent \notin Stored

Empty(ids) == [id \in ids |-> Absent]

(* validateMetric and buildMetric of the handlers.                         *)
WellFormed(m) == m.MType \in {Counter, Gauge} /\ m.Val # Nil

(* Faulty variant: a gauge overwrites whatever is stored.                  *)
Refuses_OnlyCounters(data, id, mtype) ==
  mtype = Counter /\ data[id] # Absent /\ data[id].MType # Counter

(* setGaugeInMutex, addCounterInMutex: a metric of another type refuses    *)
(* the update with ErrIncorrectAccess.                                     *)
Refuses(data, id, mtype) == data[id] # Absent /\ data[id].MType # mtype

setGaugeInMutex(data, id, value) ==
  IF Refuses(data, id, Gauge)
    THEN data
    ELSE [data EXCEPT ![id] = [MType |-> Gauge, Val |-> value]]

addCounterInMutex(data, id, delta) ==
  IF Refuses(data, id, Counter)
    THEN data
    ELSE [data EXCEPT ![id] =
            [MType |-> Counter, Val |-> (IF @ = Absent THEN 0 ELSE @.Val) + delta]]

(* Faulty variant: a counter is created before its value is looked at.     *)
Accumulate_NoNilCheck(data, m) ==
  CASE m.MType = Counter /\ m.Val = Nil /\ data[m.ID] = Absent ->
         [data EXCEPT ![m.ID] = [MType |-> Counter, Val |-> Nil]]
    [] m.MType = Counter /\ m.Val # Nil -> addCounterInMutex(data, m.ID, m.Val)
    [] m.MType = Gauge /\ m.Val # Nil   -> setGaugeInMutex(data, m.ID, m.Val)
    [] OTHER                            -> data

(* The body of BatchUpdate's second loop, for one metric: a missing value  *)
(* and an unknown type are skipped, the error of the update is dropped.    *)
Accumulate(data, m) ==
  CASE m.MType = Counter /\ m.Val # Nil -> addCounterInMutex(data, m.ID, m.Val)
    [] m.MType = Gauge /\ m.Val # Nil   -> setGaugeInMutex(data, m.ID, m.Val)
    [] OTHER                            -> data

(* BatchUpdate's first loop compares each metric with what is stored.      *)
BatchIsValid(data, metrics) ==
  \A i \in DOMAIN metrics : ~ Refuses(data, metrics[i].ID, metrics[i].MType)

(* GetAllSorted's order: the k-th ID has k - 1 before it.                  *)
SortedIDs(ids) ==
  [k \in 1 .. Cardinality(ids) |->
     CHOOSE id \in ids : Cardinality({other \in ids : other < id}) = k - 1]

(* SetAll, of the metrics a file lists.                                    *)
SetAll(data, listed) ==
  [id \in DOMAIN data |-> IF listed[id] = Absent THEN data[id] ELSE listed[id]]
=============================================================================
