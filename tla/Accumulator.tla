----------------------------- MODULE Accumulator -----------------------------
(***************************************************************************)
(* The metric accumulator of the agent                                     *)
(* (internal/agent/accumulation/accumulator.go).                           *)
(*                                                                         *)
(* An accumulator is a record with the fields of MetricAccumulator.  The   *)
(* nil pointer of Delta is NoDelta; a slice is a sequence, which is sound  *)
(* because stageGaugeChanges copies Values before it truncates them, so no *)
(* two live slices of an accumulator share elements.  A gauge sample is    *)
(* represented by the number of the poll that read it, and the average     *)
(* that is sent by the sequence of samples it is taken over.               *)
(*                                                                         *)
(* The operators are the critical sections of the methods; the parts of a  *)
(* method that run outside ma.mutex are operators of their own.            *)
(***************************************************************************)
EXTENDS Integers, Sequences

CONSTANT NoDelta    \* Delta == nil

ASSUME NoDeltaAssumption == NoDelta \notin Int

Unset   == ""       \* len(ma.MType) == 0
Counter == "counter"
Gauge   == "gauge"

MType == {Unset, Counter, Gauge}

Samples == Seq(Nat)

MetricAccumulator ==
  [ MType        : MType,
    Delta        : Nat \cup {NoDelta},
    Values       : Samples,
    isStaged     : BOOLEAN,
    stagedDelta  : Nat,
    stagedValues : Samples ]

NewMetricAccumulator ==
  [ MType        |-> Unset,
    Delta        |-> NoDelta,
    Values       |-> << >>,
    isStaged     |-> FALSE,
    stagedDelta  |-> 0,
    stagedValues |-> << >> ]

(* *ma.Delta, or nothing.                                                  *)
PendingDelta(ma) == IF ma.Delta = NoDelta THEN 0 ELSE ma.Delta

-----------------------------------------------------------------------------
(* AccumulateCounter and AccumulateGauge set an unset type before they     *)
(* take the mutex, and refuse a metric that has the other type.            *)
ClaimMType(ma, t) == IF ma.MType = Unset THEN [ma EXCEPT !.MType = t] ELSE ma

(* Faulty variant: a staged metric takes the increment into what is sent.  *)
AccumulateCounter_IntoStaged(ma, inc) ==
  IF ma.MType # Counter
    THEN ma
    ELSE IF ma.isStaged THEN [ma EXCEPT !.stagedDelta = @ + inc]
                        ELSE [ma EXCEPT !.Delta = PendingDelta(ma) + inc]

AccumulateCounter(ma, inc) ==
  IF ma.MType # Counter
    THEN ma
    ELSE [ma EXCEPT !.Delta = PendingDelta(ma) + inc]

AccumulateGauge(ma, value) ==
  IF ma.MType # Gauge
    THEN ma
    ELSE [ma EXCEPT !.Values = Append(@, value)]

-----------------------------------------------------------------------------
stageCounterChanges(ma) ==
  [ma EXCEPT !.isStaged = TRUE, !.stagedDelta = ma.Delta, !.Delta = NoDelta]

(* Faulty variant: ma.Values is copied and not truncated.                  *)
stageGaugeChanges_KeepsValues(ma) ==
  [ma EXCEPT !.isStaged = TRUE, !.stagedValues = ma.Values]

stageGaugeChanges(ma) ==
  [ma EXCEPT !.isStaged = TRUE, !.stagedValues = ma.Values, !.Values = << >>]

(* Faulty variant: the check for ma.Delta == nil is missing.               *)
HasMetricToStage_NoNilCheck(ma) ==
  /\ ~ ma.isStaged
  /\ \/ ma.MType = Counter
     \/ ma.MType = Gauge /\ ma.Values # << >>

(* StageChanges returns a metric, rather than an error or nil.             *)
HasMetricToStage(ma) ==
  /\ ~ ma.isStaged
  /\ \/ ma.MType = Counter /\ ma.Delta # NoDelta
     \/ ma.MType = Gauge /\ ma.Values # << >>

StageChanges(ma) ==
  IF ~ HasMetricToStage(ma)
    THEN ma
    ELSE IF ma.MType = Counter THEN stageCounterChanges(ma)
                               ELSE stageGaugeChanges(ma)

(* Faulty variant: what was polled while the metric was staged is lost.    *)
rollbackStagedCounter_Overwrites(ma) ==
  [ma EXCEPT !.isStaged = FALSE, !.Delta = ma.stagedDelta, !.stagedDelta = 0]

rollbackStagedCounter(ma) ==
  [ma EXCEPT !.isStaged = FALSE,
             !.Delta = PendingDelta(ma) + ma.stagedDelta,
             !.stagedDelta = 0]

(* Faulty variant: the staged samples go behind the newer ones.            *)
rollbackStagedGauge_AppendsLast(ma) ==
  [ma EXCEPT !.isStaged = FALSE,
             !.Values = @ \o ma.stagedValues,
             !.stagedValues = << >>]

(* The staged samples are older than the ones polled since: they go first. *)
rollbackStagedGauge(ma) ==
  [ma EXCEPT !.isStaged = FALSE,
             !.Values = ma.stagedValues \o @,
             !.stagedValues = << >>]

(* Faulty variant: isStaged is not reset.                                  *)
RollbackStaged_StaysStaged(ma) ==
  IF ~ ma.isStaged
    THEN ma
    ELSE CASE ma.MType = Counter -> [rollbackStagedCounter(ma) EXCEPT !.isStaged = TRUE]
           [] ma.MType = Gauge   -> [rollbackStagedGauge(ma) EXCEPT !.isStaged = TRUE]
           [] OTHER              -> ma

RollbackStaged(ma) ==
  IF ~ ma.isStaged
    THEN ma
    ELSE CASE ma.MType = Counter -> rollbackStagedCounter(ma)
           [] ma.MType = Gauge   -> rollbackStagedGauge(ma)
           [] OTHER              -> [ma EXCEPT !.isStaged = FALSE]

CommitStaged(ma) ==
  IF ~ ma.isStaged
    THEN ma         \* ErrWrongStagingState, which execReport logs
    ELSE CASE ma.MType = Counter -> [ma EXCEPT !.isStaged = FALSE,
                                               !.stagedDelta = 0]
           [] ma.MType = Gauge   -> [ma EXCEPT !.isStaged = FALSE,
                                               !.stagedValues = << >>]
           [] OTHER              -> [ma EXCEPT !.isStaged = FALSE]
=============================================================================
