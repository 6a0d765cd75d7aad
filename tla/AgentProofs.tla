----------------------------- MODULE AgentProofs -----------------------------
(***************************************************************************)
(* Proofs about Agent, for every set of metrics, every poll order, both    *)
(* executors and every number of polls.                                    *)
(*                                                                         *)
(* Conservation is not inductive by itself.  That a commit or a rollback   *)
(* keeps it needs the metric to be staged and of the type it is polled     *)
(* with; that an accumulation keeps it needs the poller's MType claim to   *)
(* still hold when it takes the mutex.  AgentInv collects these facts.     *)
(***************************************************************************)
EXTENDS Agent, SequenceTheorems, TLAPS

(* What holds between any two operations on an accumulator that is only    *)
(* used with type t.  Each operation keeps it; the lemmas also say what it *)
(* does to the amounts held.                                               *)
AccumulatorOK(ma, t) ==
  /\ ma.MType \in {Unset, t}
  /\ ma.MType = Unset => /\ ~ ma.isStaged
                         /\ ma.Delta = NoDelta
                         /\ ma.Values = << >>
  /\ ~ ma.isStaged => ma.stagedDelta = 0 /\ ma.stagedValues = << >>
  /\ t = Counter => ma.Values = << >> /\ ma.stagedValues = << >>
  /\ t = Gauge => ma.Delta = NoDelta /\ ma.stagedDelta = 0

(* Sequences of samples.                                                   *)
LEMMA SamplesClosed ==
  /\ << >> \in Samples
  /\ \A s, t \in Samples : s \o t \in Samples
  /\ \A s \in Samples, v \in Nat : Append(s, v) \in Samples
  /\ \A s \in Samples : s \o << >> = s /\ << >> \o s = s
  /\ \A s, t, u \in Samples : (s \o t) \o u = s \o (t \o u)
  /\ \A s, t \in Samples, v \in Nat : s \o Append(t, v) = Append(s \o t, v)
<1>1. << >> \in Samples
  BY EmptySeq DEF Samples
<1>2. \A s, t \in Samples : s \o t \in Samples
  BY ConcatProperties DEF Samples
<1>3. \A s \in Samples, v \in Nat : Append(s, v) \in Samples
  BY AppendProperties DEF Samples
<1>4. \A s \in Samples : s \o << >> = s /\ << >> \o s = s
  BY ConcatEmptySeq DEF Samples
<1>5. \A s, t, u \in Samples : (s \o t) \o u = s \o (t \o u)
  BY ConcatAssociative DEF Samples
<1>6. ASSUME NEW s \in Samples, NEW t \in Samples, NEW v \in Nat
      PROVE  s \o Append(t, v) = Append(s \o t, v)
  <2>1. <<v>> \in Samples /\ s \o t \in Samples
    BY <1>1, <1>2, <1>3 DEF Samples
  <2>2. Append(t, v) = t \o <<v>> /\ Append(s \o t, v) = (s \o t) \o <<v>>
    BY <2>1, AppendIsConcat DEF Samples
  <2> QED
    BY <2>1, <2>2, <1>5
<1> QED
  BY <1>1, <1>2, <1>3, <1>4, <1>5, <1>6

(* Claiming an unset type changes nothing but the type.                    *)
LEMMA ClaimKeeps ==
  ASSUME NEW ma \in MetricAccumulator, NEW t \in {Counter, Gauge},
         AccumulatorOK(ma, t)
  PROVE  /\ ClaimMType(ma, t) \in MetricAccumulator
         /\ AccumulatorOK(ClaimMType(ma, t), t)
         /\ ClaimMType(ma, t).MType = t
         /\ ClaimMType(ma, t).isStaged = ma.isStaged
         /\ ClaimMType(ma, t).stagedDelta = ma.stagedDelta
         /\ ClaimMType(ma, t).stagedValues = ma.stagedValues
         /\ ClaimMType(ma, t).Delta = ma.Delta
         /\ ClaimMType(ma, t).Values = ma.Values
BY DEF MetricAccumulator, AccumulatorOK, ClaimMType, MType, Unset, Counter, Gauge

(* A counter increment goes to the pending delta.                          *)
LEMMA AccumulateCounterKeeps ==
  ASSUME NEW ma \in MetricAccumulator, NEW inc \in Nat,
         AccumulatorOK(ma, Counter), ma.MType = Counter
  PROVE  LET mb == AccumulateCounter(ma, inc)
         IN  /\ mb \in MetricAccumulator
             /\ AccumulatorOK(mb, Counter)
             /\ mb.MType = ma.MType
             /\ mb.isStaged = ma.isStaged
             /\ mb.stagedDelta = ma.stagedDelta
             /\ mb.stagedValues = ma.stagedValues
             /\ PendingDelta(mb) = PendingDelta(ma) + inc
             /\ mb.Values = ma.Values
<1>1. PendingDelta(ma) + inc \in Nat /\ PendingDelta(ma) + inc # NoDelta
  BY NoDeltaAssumption DEF PendingDelta, MetricAccumulator
<1>2. AccumulateCounter(ma, inc) = [ma EXCEPT !.Delta = PendingDelta(ma) + inc]
  BY DEF AccumulateCounter
<1> QED
  BY <1>1, <1>2 DEF MetricAccumulator, AccumulatorOK, PendingDelta, MType, Unset, Counter, Gauge

(* A gauge sample goes to the end of the pending values.                   *)
LEMMA AccumulateGaugeKeeps ==
  ASSUME NEW ma \in MetricAccumulator, NEW value \in Nat,
         AccumulatorOK(ma, Gauge), ma.MType = Gauge
  PROVE  LET mb == AccumulateGauge(ma, value)
         IN  /\ mb \in MetricAccumulator
             /\ AccumulatorOK(mb, Gauge)
             /\ mb.MType = ma.MType
             /\ mb.isStaged = ma.isStaged
             /\ mb.stagedDelta = ma.stagedDelta
             /\ mb.stagedValues = ma.stagedValues
             /\ mb.Delta = ma.Delta
             /\ mb.Values = Append(ma.Values, value)
<1>1. Append(ma.Values, value) \in Samples
  BY SamplesClosed DEF MetricAccumulator
<1>2. AccumulateGauge(ma, value) = [ma EXCEPT !.Values = Append(ma.Values, value)]
  BY DEF AccumulateGauge
<1> QED
  BY <1>1, <1>2 DEF MetricAccumulator, AccumulatorOK, MType, Unset, Counter, Gauge

(* Staging moves the pending part to the staged part, or does nothing.     *)
LEMMA StageKeeps ==
  ASSUME NEW ma \in MetricAccumulator, NEW t \in {Counter, Gauge},
         AccumulatorOK(ma, t),
         NEW mb, mb = StageChanges(ma)
  PROVE  /\ mb \in MetricAccumulator
         /\ AccumulatorOK(mb, t)
         /\ mb.MType = ma.MType
         /\ mb.stagedDelta + PendingDelta(mb) = ma.stagedDelta + PendingDelta(ma)
         /\ mb.stagedValues \o mb.Values = ma.stagedValues \o ma.Values
         /\ mb.isStaged <=> ma.isStaged \/ HasMetricToStage(ma)
         /\ ma.isStaged => mb = ma
<1>1. CASE ~ HasMetricToStage(ma)
  <2>1. mb = ma
    BY <1>1 DEF StageChanges
  <2> QED
    BY <2>1, <1>1 DEF AccumulatorOK, MetricAccumulator
<1>2. CASE HasMetricToStage(ma) /\ ma.MType = Counter
  <2>1. /\ ma.Delta \in Nat /\ ma.Delta # NoDelta /\ ~ ma.isStaged
        /\ ma.stagedDelta = 0 /\ ma.stagedValues = << >>
    BY <1>2 DEF HasMetricToStage, MetricAccumulator, Counter, Gauge, AccumulatorOK
  <2>2. mb = [ma EXCEPT !.isStaged = TRUE, !.stagedDelta = ma.Delta, !.Delta = NoDelta]
    BY <1>2 DEF StageChanges, stageCounterChanges
  <2>3. /\ mb \in MetricAccumulator /\ mb.MType = Counter /\ mb.isStaged
        /\ mb.stagedDelta = ma.Delta /\ mb.Delta = NoDelta
        /\ mb.stagedValues = ma.stagedValues /\ mb.Values = ma.Values
    BY <1>2, <2>1, <2>2 DEF MetricAccumulator, MType
  <2>4. PendingDelta(ma) = ma.Delta /\ PendingDelta(mb) = 0
    BY <2>1, <2>3 DEF PendingDelta
  <2> QED
    BY <1>2, <2>1, <2>3, <2>4 DEF AccumulatorOK, Unset, Counter, Gauge
<1>3. CASE HasMetricToStage(ma) /\ ma.MType # Counter
  <2>1. /\ ma.MType = Gauge /\ ~ ma.isStaged /\ ma.Values \in Samples
        /\ ma.stagedDelta = 0 /\ ma.stagedValues = << >>
    BY <1>3 DEF HasMetricToStage, MetricAccumulator, AccumulatorOK
  <2>2. mb = [ma EXCEPT !.isStaged = TRUE, !.stagedValues = ma.Values, !.Values = << >>]
    BY <1>3 DEF StageChanges, stageGaugeChanges
  <2>3. /\ mb \in MetricAccumulator /\ mb.MType = Gauge /\ mb.isStaged
        /\ mb.stagedDelta = ma.stagedDelta /\ mb.Delta = ma.Delta
        /\ mb.stagedValues = ma.Values /\ mb.Values = << >>
    BY <2>1, <2>2, SamplesClosed DEF MetricAccumulator, MType
  <2>4. PendingDelta(ma) = PendingDelta(mb)
    BY <2>3 DEF PendingDelta
  <2>5. mb.stagedValues \o mb.Values = ma.stagedValues \o ma.Values
    BY <2>1, <2>3, SamplesClosed
  <2> QED
    BY <1>3, <2>1, <2>3, <2>4, <2>5 DEF AccumulatorOK, Unset, Counter, Gauge
<1> QED
  BY <1>1, <1>2, <1>3

(* Staging keeps the accumulator usable.                                   *)
LEMMA StageKeepsOK ==
  ASSUME NEW ma \in MetricAccumulator, NEW t \in {Counter, Gauge},
         AccumulatorOK(ma, t)
  PROVE  AccumulatorOK(StageChanges(ma), t)
BY StageKeeps DEF AccumulatorOK

(* Rolling back returns the staged part to the pending one, in front.      *)
LEMMA RollbackKeeps ==
  ASSUME NEW ma \in MetricAccumulator, NEW t \in {Counter, Gauge},
         AccumulatorOK(ma, t)
  PROVE  ma.isStaged =>
         LET mb == RollbackStaged(ma)
         IN  /\ mb \in MetricAccumulator
             /\ AccumulatorOK(mb, t)
             /\ mb.MType = ma.MType
             /\ ~ mb.isStaged
             /\ mb.stagedDelta = 0
             /\ mb.stagedValues = << >>
             /\ PendingDelta(mb) = ma.stagedDelta + PendingDelta(ma)
             /\ mb.Values = ma.stagedValues \o ma.Values
<1> DEFINE n == PendingDelta(ma) + ma.stagedDelta
           s == ma.stagedValues \o ma.Values
           mc == [ma EXCEPT !.isStaged = FALSE, !.Delta = n, !.stagedDelta = 0]
           mg == [ma EXCEPT !.isStaged = FALSE, !.Values = s, !.stagedValues = << >>]
<1>1. n \in Nat /\ n # NoDelta /\ n = ma.stagedDelta + PendingDelta(ma)
  BY NoDeltaAssumption DEF PendingDelta, MetricAccumulator
<1>2. s \in Samples /\ << >> \in Samples
  BY SamplesClosed DEF MetricAccumulator
<1>3. /\ mc \in MetricAccumulator /\ mc.MType = ma.MType /\ ~ mc.isStaged
      /\ mc.stagedDelta = 0 /\ mc.Delta = n
      /\ mc.stagedValues = ma.stagedValues /\ mc.Values = ma.Values
  <2> HIDE DEF n
  <2> QED BY <1>1 DEF MetricAccumulator
<1>4. /\ mg \in MetricAccumulator /\ mg.MType = ma.MType /\ ~ mg.isStaged
      /\ mg.stagedDelta = ma.stagedDelta /\ mg.Delta = ma.Delta
      /\ mg.stagedValues = << >> /\ mg.Values = s
  <2> HIDE DEF s
  <2> QED BY <1>2 DEF MetricAccumulator
<1>5. PendingDelta(mc) = n /\ PendingDelta(mg) = PendingDelta(ma)
  <2> HIDE DEF n, mc, mg
  <2> QED BY <1>1, <1>3, <1>4 DEF PendingDelta
<1>6. SUFFICES ASSUME ma.isStaged
               PROVE  LET mb == RollbackStaged(ma)
                      IN  /\ mb \in MetricAccumulator
                          /\ AccumulatorOK(mb, t)
                          /\ mb.MType = ma.MType
                          /\ ~ mb.isStaged
                          /\ mb.stagedDelta = 0
                          /\ mb.stagedValues = << >>
                          /\ PendingDelta(mb) = n
                          /\ mb.Values = s
  BY <1>1
<1>7. ma.MType = t
  BY <1>6 DEF AccumulatorOK
<1>8. CASE t = Counter
  <2>1. RollbackStaged(ma) = mc
    BY <1>6, <1>7, <1>8 DEF RollbackStaged, rollbackStagedCounter, Counter, Gauge
  <2>2. ma.Values = << >> /\ ma.stagedValues = << >> /\ s = << >>
    BY <1>8, SamplesClosed DEF AccumulatorOK
  <2> HIDE DEF n, s, mc
  <2> QED
    BY <1>3, <1>5, <1>7, <1>8, <2>1, <2>2 DEF AccumulatorOK, Unset, Counter, Gauge
<1>9. CASE t = Gauge
  <2>1. RollbackStaged(ma) = mg
    BY <1>6, <1>7, <1>9 DEF RollbackStaged, rollbackStagedGauge, Counter, Gauge
  <2>2. ma.Delta = NoDelta /\ ma.stagedDelta = 0 /\ n = PendingDelta(ma)
    BY <1>9 DEF AccumulatorOK, PendingDelta
  <2> HIDE DEF n, s, mg
  <2> QED
    BY <1>4, <1>5, <1>7, <1>9, <2>1, <2>2 DEF AccumulatorOK, Unset, Counter, Gauge
<1> QED
  BY <1>8, <1>9

(* Committing drops the staged part and leaves the pending one.            *)
LEMMA CommitKeeps ==
  ASSUME NEW ma \in MetricAccumulator, NEW t \in {Counter, Gauge},
         AccumulatorOK(ma, t)
  PROVE  ma.isStaged =>
         LET mb == CommitStaged(ma)
         IN  /\ mb \in MetricAccumulator
             /\ AccumulatorOK(mb, t)
             /\ mb.MType = ma.MType
             /\ ~ mb.isStaged
             /\ mb.stagedDelta = 0
             /\ mb.stagedValues = << >>
             /\ PendingDelta(mb) = PendingDelta(ma)
             /\ mb.Values = ma.Values
<1> DEFINE mc == [ma EXCEPT !.isStaged = FALSE, !.stagedDelta = 0]
           mg == [ma EXCEPT !.isStaged = FALSE, !.stagedValues = << >>]
<1>1. /\ mc \in MetricAccumulator /\ mc.MType = ma.MType /\ ~ mc.isStaged
      /\ mc.stagedDelta = 0 /\ mc.Delta = ma.Delta
      /\ mc.stagedValues = ma.stagedValues /\ mc.Values = ma.Values
  BY DEF MetricAccumulator
<1>2. /\ mg \in MetricAccumulator /\ mg.MType = ma.MType /\ ~ mg.isStaged
      /\ mg.stagedDelta = ma.stagedDelta /\ mg.Delta = ma.Delta
      /\ mg.stagedValues = << >> /\ mg.Values = ma.Values
  BY SamplesClosed DEF MetricAccumulator
<1>3. PendingDelta(mc) = PendingDelta(ma) /\ PendingDelta(mg) = PendingDelta(ma)
  BY <1>1, <1>2 DEF PendingDelta
<1>4. SUFFICES ASSUME ma.isStaged
               PROVE  LET mb == CommitStaged(ma)
                      IN  /\ mb \in MetricAccumulator
                          /\ AccumulatorOK(mb, t)
                          /\ mb.MType = ma.MType
                          /\ ~ mb.isStaged
                          /\ mb.stagedDelta = 0
                          /\ mb.stagedValues = << >>
                          /\ PendingDelta(mb) = PendingDelta(ma)
                          /\ mb.Values = ma.Values
  OBVIOUS
<1>5. ma.MType = t
  BY <1>4 DEF AccumulatorOK
<1>6. CASE t = Counter
  <2>1. CommitStaged(ma) = mc
    BY <1>4, <1>5, <1>6 DEF CommitStaged, Counter, Gauge
  <2> HIDE DEF mc
  <2> QED
    BY <1>1, <1>3, <1>5, <1>6, <2>1 DEF AccumulatorOK, Unset, Counter, Gauge
<1>7. CASE t = Gauge
  <2>1. CommitStaged(ma) = mg
    BY <1>4, <1>5, <1>7 DEF CommitStaged, Counter, Gauge
  <2> HIDE DEF mg
  <2> QED
    BY <1>2, <1>3, <1>5, <1>7, <2>1 DEF AccumulatorOK, Unset, Counter, Gauge
<1> QED
  BY <1>6, <1>7

-----------------------------------------------------------------------------
(* The invariant of the agent.                                             *)
AccumsOK == \A id \in ID : AccumulatorOK(accums[id], Kind(id))

(* A poller past GetOrNew has a metric in hand; past ClaimMType that       *)
(* metric has its type.                                                    *)
PollersOK ==
  \A p \in Poller :
    /\ pollPc[p] \in {"claim", "add"} => pollQueue[p] # << >>
    /\ pollPc[p] = "add" =>
         accums[Head(pollQueue[p])].MType = Kind(Head(pollQueue[p]))

PhasesOK ==
  /\ repPc = "staging" => successIDs = {} /\ failureIDs = {}
  /\ repPc = "resolving" => unsent = {}

AgentInv ==
  /\ TypeOK
  /\ AccumsOK /\ PollersOK /\ PhasesOK
  /\ StagedHasOneOwner
  /\ CounterConserved /\ GaugeConserved

-----------------------------------------------------------------------------
LEMMA KindIsType == \A id : Kind(id) \in {Counter, Gauge}
BY DEF Kind

(* The initial state satisfies the invariant.                              *)
LEMMA InitHolds == Init => AgentInv
<1> SUFFICES ASSUME Init PROVE AgentInv
  OBVIOUS
<1> USE DEF Init
<1>1. NewMetricAccumulator \in MetricAccumulator
  BY SamplesClosed DEF NewMetricAccumulator, MetricAccumulator, MType
<1>2. TypeOK
  <2>1. << >> \in Samples /\ << >> \in Seq(ID)
    BY SamplesClosed, EmptySeq
  <2> QED
    BY <1>1, <2>1 DEF TypeOK, Poller
<1>3. AccumsOK
  BY DEF AccumsOK, AccumulatorOK, NewMetricAccumulator
<1>4. PollersOK /\ PhasesOK
  BY DEF PollersOK, PhasesOK
<1>5. StagedHasOneOwner
  BY DEF StagedHasOneOwner, NewMetricAccumulator
<1>6. CounterConserved
  BY IDAssumption DEF CounterConserved, OwedDelta, PendingDelta, NewMetricAccumulator
<1>7. GaugeConserved
  BY SamplesClosed DEF GaugeConserved, OwedValues, NewMetricAccumulator
<1> QED
  BY <1>2, <1>3, <1>4, <1>5, <1>6, <1>7 DEF AgentInv

(* A step that leaves the accumulators, the results and the history alone  *)
(* keeps everything but the control state.                                 *)
LEMMA ControlStep ==
  ASSUME AgentInv,
         UNCHANGED <<accums, unsent, successIDs, failureIDs, polledVars, ackedVars>>,
         repPc' \in {"select", "done", "shutdown"} =>
           unsent \cup successIDs \cup failureIDs = {}
  PROVE  AccumsOK' /\ StagedHasOneOwner' /\ CounterConserved' /\ GaugeConserved'
BY DEF AgentInv, AccumsOK, StagedHasOneOwner, CounterConserved, GaugeConserved,
       OwedDelta, OwedValues, polledVars, ackedVars

(* A poller keeps its metric and its claim while others change types only  *)
(* to the one the metric is polled with.                                   *)
LEMMA PollerKept ==
  ASSUME AgentInv, NEW p \in Poller,
         pollPc'[p] = pollPc[p], pollQueue'[p] = pollQueue[p],
         \A id \in ID : \/ accums'[id].MType = accums[id].MType
                        \/ accums'[id].MType = Kind(id)
  PROVE  /\ pollPc'[p] \in {"claim", "add"} => pollQueue'[p] # << >>
         /\ pollPc'[p] = "add" =>
              accums'[Head(pollQueue'[p])].MType = Kind(Head(pollQueue'[p]))
<1>1. pollPc[p] = "add" => Head(pollQueue[p]) \in ID
  BY HeadTailProperties DEF AgentInv, TypeOK, PollersOK
<1> QED
  BY <1>1 DEF AgentInv, PollersOK

-----------------------------------------------------------------------------
(* The pollers' steps outside the accumulators.                            *)
LEMMA PollerControlStep ==
  ASSUME AgentInv,
         ExecMemstatsPoll \/ ExecGopsPoll \/ ReadCPUPercent
           \/ (\E p \in Poller : PollReturns(p) \/ GetOrNew(p) \/ PollerStops(p))
  PROVE  AgentInv'
<1> USE DEF storageVars, pollVars, reportVars, polledVars, ackedVars, finalVars
<1>1. TypeOK
  BY DEF AgentInv
<1>2. << >> \in Seq(ID)
  BY EmptySeq
<1>3. CASE ExecMemstatsPoll
  <2>1. TypeOK'
    BY <1>1, <1>3, IDAssumption DEF ExecMemstatsPoll, Tick, TypeOK, Poller
  <2>2. PollersOK' /\ PhasesOK'
    BY <1>1, <1>3 DEF AgentInv, PollersOK, PhasesOK, ExecMemstatsPoll, Tick, TypeOK
  <2> QED
    BY <1>3, <2>1, <2>2, ControlStep DEF AgentInv, StagedHasOneOwner, ExecMemstatsPoll
<1>4. CASE ExecGopsPoll
  <2>1. TypeOK'
    <3>1. polls' \in [Poller -> Nat]
      BY <1>1, <1>4 DEF ExecGopsPoll, Tick, TypeOK, Poller
    <3>2. pollQueue' \in [Poller -> Seq(ID)]
      BY <1>1, <1>2, <1>4, IDAssumption DEF ExecGopsPoll, TypeOK
    <3>3. /\ pollPc' \in [Poller -> {"select", "get", "claim", "add", "done"}]
          /\ gopsRead' \in {"none", "memory", "cpu"}
      BY <1>1, <1>4 DEF ExecGopsPoll, TypeOK
    <3> QED
      BY <1>1, <1>4, <3>1, <3>2, <3>3 DEF ExecGopsPoll, TypeOK
  <2>2. PollersOK' /\ PhasesOK'
    BY <1>1, <1>4 DEF AgentInv, PollersOK, PhasesOK, ExecGopsPoll, Tick, TypeOK
  <2> QED
    BY <1>4, <2>1, <2>2, ControlStep DEF AgentInv, StagedHasOneOwner, ExecGopsPoll
<1>5. CASE ReadCPUPercent
  <2>1. TypeOK'
    BY <1>1, <1>2, <1>5, IDAssumption DEF ReadCPUPercent, TypeOK, Poller
  <2>2. PollersOK' /\ PhasesOK'
    BY <1>1, <1>5 DEF AgentInv, PollersOK, PhasesOK, ReadCPUPercent, TypeOK
  <2> QED
    BY <1>5, <2>1, <2>2, ControlStep DEF AgentInv, StagedHasOneOwner, ReadCPUPercent
<1>6. ASSUME NEW p \in Poller, PollReturns(p)
      PROVE  AgentInv'
  <2>1. TypeOK'
    BY <1>1, <1>6 DEF PollReturns, TypeOK
  <2>2. PollersOK' /\ PhasesOK'
    BY <1>1, <1>6 DEF AgentInv, PollersOK, PhasesOK, PollReturns, TypeOK
  <2> QED
    BY <1>6, <2>1, <2>2, ControlStep DEF AgentInv, StagedHasOneOwner, PollReturns
<1>7. ASSUME NEW p \in Poller, GetOrNew(p)
      PROVE  AgentInv'
  <2>1. Head(pollQueue[p]) \in ID
    BY <1>1, <1>7, HeadTailProperties DEF GetOrNew, TypeOK
  <2>2. TypeOK'
    BY <1>1, <1>7, <2>1 DEF GetOrNew, TypeOK
  <2>3. PollersOK' /\ PhasesOK'
    BY <1>1, <1>7 DEF AgentInv, PollersOK, PhasesOK, GetOrNew, TypeOK
  <2> QED
    BY <1>7, <2>2, <2>3, ControlStep DEF AgentInv, StagedHasOneOwner, GetOrNew
<1>8. ASSUME NEW p \in Poller, PollerStops(p)
      PROVE  AgentInv'
  <2>1. TypeOK'
    BY <1>1, <1>8 DEF PollerStops, TypeOK
  <2>2. PollersOK' /\ PhasesOK'
    BY <1>1, <1>8 DEF AgentInv, PollersOK, PhasesOK, PollerStops, TypeOK
  <2> QED
    BY <1>8, <2>1, <2>2, ControlStep DEF AgentInv, StagedHasOneOwner, PollerStops
<1> QED
  BY <1>3, <1>4, <1>5, <1>6, <1>7, <1>8

(* The reporter's and the process's steps outside the accumulators.        *)
LEMMA ReporterControlStep ==
  ASSUME AgentInv,
         ReportTick \/ FinalReport \/ StagingDone \/ ExecuteReturns \/ ReportReturns
           \/ ExecutorShutdown \/ Signal \/ RunReturns
  PROVE  AgentInv'
<1> USE DEF storageVars, pollVars, reportVars, polledVars, ackedVars, finalVars
<1>1. TypeOK
  BY DEF AgentInv
<1>2. \A id \in ID : Polled(id) \in Nat
  BY <1>1, LenProperties DEF TypeOK, Polled, Samples
<1>3. TypeOK'
  BY <1>1, <1>2
  DEF TypeOK, ReportTick, FinalReport, StartReport, StagingDone, ExecuteReturns,
      ReportReturns, ExecutorShutdown, Signal, RunReturns
<1>4. /\ UNCHANGED <<accums, unsent, successIDs, failureIDs, polledVars, ackedVars>>
      /\ UNCHANGED pollVars
  BY DEF ReportTick, FinalReport, StartReport, StagingDone, ExecuteReturns,
         ReportReturns, ExecutorShutdown, Signal, RunReturns
<1>5. PollersOK'
  BY <1>4 DEF AgentInv, PollersOK
<1>6. PhasesOK'
  BY DEF AgentInv, PhasesOK, StagedHasOneOwner, ReportTick, FinalReport, StartReport,
         StagingDone, ExecuteReturns, ReportReturns, ExecutorShutdown, Signal, RunReturns
<1>7. repPc' \in {"select", "done", "shutdown"} =>
        unsent \cup successIDs \cup failureIDs = {}
  BY DEF AgentInv, PhasesOK, StagedHasOneOwner, ReportTick, FinalReport, StartReport,
         StagingDone, ExecuteReturns, ReportReturns, ExecutorShutdown, Signal, RunReturns
<1> QED
  BY <1>3, <1>4, <1>5, <1>6, <1>7, ControlStep DEF AgentInv

-----------------------------------------------------------------------------
(* A poller claims the type of its metric: no amount changes.              *)
LEMMA SetMTypeStep ==
  ASSUME AgentInv, NEW p \in Poller, SetMType(p)
  PROVE  AgentInv'
<1> USE DEF storageVars, pollVars, reportVars, polledVars, ackedVars, finalVars
<1> DEFINE id == Head(pollQueue[p])
           mb == ClaimMType(accums[id], Kind(id))
<1>1. TypeOK /\ AccumsOK /\ PollersOK
  BY DEF AgentInv
<1>2. id \in ID
  BY <1>1, HeadTailProperties DEF SetMType, PollersOK, TypeOK
<1>3. accums' = [accums EXCEPT ![id] = mb]
  BY DEF SetMType
<1>4. /\ mb \in MetricAccumulator
      /\ AccumulatorOK(mb, Kind(id))
      /\ mb.MType = Kind(id)
      /\ mb.isStaged = accums[id].isStaged
      /\ mb.stagedDelta = accums[id].stagedDelta
      /\ mb.stagedValues = accums[id].stagedValues
      /\ mb.Delta = accums[id].Delta
      /\ mb.Values = accums[id].Values
  <2>1. /\ accums[id] \in MetricAccumulator
        /\ AccumulatorOK(accums[id], Kind(id))
        /\ Kind(id) \in {Counter, Gauge}
    BY <1>1, <1>2, KindIsType DEF TypeOK, AccumsOK
  <2> QED
    BY <2>1, ClaimKeeps
<1> HIDE DEF mb
<1>5. TypeOK'
  BY <1>1, <1>2, <1>3, <1>4 DEF TypeOK, SetMType
<1>6. AccumsOK'
  BY <1>1, <1>2, <1>3, <1>4 DEF TypeOK, AccumsOK
<1>7. PollersOK'
  <2>1. \A i \in ID : accums'[i].MType = accums[i].MType \/ accums'[i].MType = Kind(i)
    BY <1>1, <1>2, <1>3, <1>4 DEF TypeOK
  <2>2. ASSUME NEW q \in Poller, q # p
        PROVE  pollPc'[q] = pollPc[q] /\ pollQueue'[q] = pollQueue[q]
    BY <1>1, <2>2 DEF SetMType, TypeOK
  <2>3. /\ pollQueue'[p] # << >>
        /\ accums'[Head(pollQueue'[p])].MType = Kind(Head(pollQueue'[p]))
    BY <1>1, <1>2, <1>3, <1>4 DEF SetMType, PollersOK, TypeOK
  <2> QED
    BY <2>1, <2>2, <2>3, PollerKept DEF PollersOK
<1>8. PhasesOK'
  BY DEF AgentInv, PhasesOK, SetMType
<1>9. StagedHasOneOwner'
  BY <1>1, <1>2, <1>3, <1>4 DEF AgentInv, StagedHasOneOwner, SetMType, TypeOK
<1>10. CounterConserved' /\ GaugeConserved'
  <2>1. \A i \in ID : /\ accums'[i].stagedDelta = accums[i].stagedDelta
                      /\ accums'[i].stagedValues = accums[i].stagedValues
                      /\ accums'[i].Delta = accums[i].Delta
                      /\ accums'[i].Values = accums[i].Values
    BY <1>1, <1>2, <1>3, <1>4 DEF TypeOK
  <2>2. \A i \in ID : OwedDelta(i)' = OwedDelta(i) /\ OwedValues(i)' = OwedValues(i)
    BY <2>1 DEF OwedDelta, OwedValues, PendingDelta, SetMType
  <2> QED
    BY <2>2, IDAssumption DEF AgentInv, CounterConserved, GaugeConserved, SetMType
<1> QED
  BY <1>5, <1>6, <1>7, <1>8, <1>9, <1>10 DEF AgentInv

(* A poller accumulates: the pending part grows as the history does.       *)
LEMMA AccumulateStep ==
  ASSUME AgentInv, NEW p \in Poller, Accumulate(p)
  PROVE  AgentInv'
<1> USE DEF storageVars, pollVars, reportVars, polledVars, ackedVars, finalVars
<1> DEFINE id == Head(pollQueue[p])
           ma == accums[id]
           mc == AccumulateCounter(ma, 1)
           mg == AccumulateGauge(ma, polls[p])
           mb == IF id \in CounterIDs THEN mc ELSE mg
<1>1. TypeOK /\ AccumsOK /\ PollersOK
  BY DEF AgentInv
<1>2. id \in ID /\ Tail(pollQueue[p]) \in Seq(ID) /\ polls[p] \in Nat
  BY <1>1, HeadTailProperties DEF Accumulate, PollersOK, TypeOK
<1>3. ma \in MetricAccumulator /\ AccumulatorOK(ma, Kind(id)) /\ ma.MType = Kind(id)
  BY <1>1, <1>2 DEF TypeOK, AccumsOK, PollersOK, Accumulate
<1>4. accums' = [accums EXCEPT ![id] = mb]
  BY DEF Accumulate
<1>5. id \in CounterIDs =>
        /\ mb \in MetricAccumulator /\ AccumulatorOK(mb, Kind(id)) /\ mb.MType = Kind(id)
        /\ mb.isStaged = ma.isStaged
        /\ mb.stagedDelta = ma.stagedDelta /\ mb.stagedValues = ma.stagedValues
        /\ PendingDelta(mb) = PendingDelta(ma) + 1 /\ mb.Values = ma.Values
  BY <1>3, AccumulateCounterKeeps DEF Kind
<1>6. id \notin CounterIDs =>
        /\ mb \in MetricAccumulator /\ AccumulatorOK(mb, Kind(id)) /\ mb.MType = Kind(id)
        /\ mb.isStaged = ma.isStaged
        /\ mb.stagedDelta = ma.stagedDelta /\ mb.stagedValues = ma.stagedValues
        /\ mb.Delta = ma.Delta /\ mb.Values = Append(ma.Values, polls[p])
  BY <1>2, <1>3, AccumulateGaugeKeeps DEF Kind
<1> HIDE DEF mb
<1>7. polledDelta' \in [ID -> Nat] /\ polledValues' \in [ID -> Samples]
  <2>1. Append(polledValues[id], polls[p]) \in Samples
    BY <1>1, <1>2, SamplesClosed DEF TypeOK
  <2>2. polledValues' \in [ID -> Samples]
    BY <1>1, <1>2, <2>1 DEF Accumulate, TypeOK
  <2>3. \/ polledDelta' = [polledDelta EXCEPT ![id] = @ + 1]
        \/ polledDelta' = polledDelta
    BY DEF Accumulate
  <2>4. polledDelta' \in [ID -> Nat]
    <3>1. polledDelta \in [ID -> Nat] /\ polledDelta[id] + 1 \in Nat
      BY <1>1, <1>2 DEF TypeOK
    <3> HIDE DEF id
    <3> QED
      BY <1>2, <2>3, <3>1
  <2> QED
    BY <2>2, <2>4
<1>8. TypeOK'
  BY <1>1, <1>2, <1>4, <1>5, <1>6, <1>7 DEF TypeOK, Accumulate
<1>9. AccumsOK'
  BY <1>1, <1>2, <1>4, <1>5, <1>6 DEF TypeOK, AccumsOK
<1>10. PollersOK'
  <2>1. \A i \in ID : accums'[i].MType = accums[i].MType \/ accums'[i].MType = Kind(i)
    BY <1>1, <1>2, <1>4, <1>5, <1>6 DEF TypeOK
  <2>2. ASSUME NEW q \in Poller, q # p
        PROVE  pollPc'[q] = pollPc[q] /\ pollQueue'[q] = pollQueue[q]
    BY <1>1, <2>2 DEF Accumulate, TypeOK
  <2>3. pollPc'[p] = "get"
    BY <1>1 DEF Accumulate, TypeOK
  <2> QED
    BY <2>1, <2>2, <2>3, PollerKept DEF PollersOK
<1>11. PhasesOK'
  BY DEF AgentInv, PhasesOK, Accumulate
<1>12. StagedHasOneOwner'
  BY <1>1, <1>2, <1>4, <1>5, <1>6 DEF AgentInv, StagedHasOneOwner, Accumulate, TypeOK
<1>13. CounterConserved'
  <2> SUFFICES ASSUME NEW c \in CounterIDs
               PROVE  polledDelta'[c] = ackedDelta'[c] + OwedDelta(c)'
    BY DEF CounterConserved
  <2>1. c \in ID /\ polledDelta[c] = ackedDelta[c] + OwedDelta(c)
    BY IDAssumption DEF AgentInv, CounterConserved
  <2>2. UNCHANGED <<ackedDelta, successIDs>>
    BY DEF Accumulate
  <2>3. CASE c = id
    <3>1. polledDelta'[c] = polledDelta[c] + 1
      BY <1>1, <1>2, <2>3 DEF Accumulate, TypeOK
    <3>2. accums'[c] = mb
      BY <1>1, <1>2, <1>4, <2>3 DEF TypeOK
    <3>3. PendingDelta(ma) \in Nat /\ ma.stagedDelta \in Nat /\ ackedDelta[c] \in Nat
      BY <1>1, <1>3, <2>1 DEF PendingDelta, MetricAccumulator, TypeOK
    <3> QED
      BY <1>5, <2>1, <2>2, <2>3, <3>1, <3>2, <3>3 DEF OwedDelta
  <2>4. CASE c # id
    <3>1. polledDelta'[c] = polledDelta[c] /\ accums'[c] = accums[c]
      BY <1>1, <1>2, <1>4, <2>1, <2>4 DEF Accumulate, TypeOK
    <3> QED
      BY <2>1, <2>2, <3>1 DEF OwedDelta
  <2> QED
    BY <2>3, <2>4
<1>14. GaugeConserved'
  <2> SUFFICES ASSUME NEW g \in ID \ CounterIDs
               PROVE  polledValues'[g] = ackedValues'[g] \o OwedValues(g)'
    BY DEF GaugeConserved
  <2>1. polledValues[g] = ackedValues[g] \o OwedValues(g)
    BY DEF AgentInv, GaugeConserved
  <2>2. UNCHANGED <<ackedValues, successIDs>>
    BY DEF Accumulate
  <2>3. CASE g = id
    <3> DEFINE front == IF g \in successIDs THEN << >> ELSE ma.stagedValues
               v == polls[p]
    <3>1. polledValues'[g] = Append(polledValues[g], v)
      BY <1>1, <1>2, <2>3 DEF Accumulate, TypeOK
    <3>2. accums'[g] = mb
      BY <1>1, <1>2, <1>4, <2>3 DEF TypeOK
    <3>3. front \in Samples /\ ma.Values \in Samples /\ ackedValues[g] \in Samples
      BY <1>1, <1>3, SamplesClosed DEF MetricAccumulator, TypeOK
    <3>4. OwedValues(g) = front \o ma.Values
      BY <2>3 DEF OwedValues
    <3>5. OwedValues(g)' = front \o Append(ma.Values, v)
      BY <1>6, <2>2, <2>3, <3>2 DEF OwedValues
    <3> HIDE DEF front, v
    <3>6. front \o Append(ma.Values, v) = Append(front \o ma.Values, v)
      BY <1>2, <3>3, SamplesClosed DEF v
    <3>7. ackedValues[g] \o Append(front \o ma.Values, v)
            = Append(ackedValues[g] \o (front \o ma.Values), v)
      <4>1. front \o ma.Values \in Samples
        BY <3>3, SamplesClosed
      <4> HIDE DEF ma
      <4> QED
        BY <1>2, <3>3, <4>1, SamplesClosed DEF v
    <3> QED
      BY <2>1, <2>2, <3>1, <3>4, <3>5, <3>6, <3>7
  <2>4. CASE g # id
    <3>1. polledValues'[g] = polledValues[g] /\ accums'[g] = accums[g]
      BY <1>1, <1>2, <1>4, <2>4 DEF Accumulate, TypeOK
    <3> QED
      BY <2>1, <2>2, <3>1 DEF OwedValues
  <2> QED
    BY <2>3, <2>4
<1> QED
  BY <1>8, <1>9, <1>10, <1>11, <1>12, <1>13, <1>14 DEF AgentInv

-----------------------------------------------------------------------------
(* The reporter stages one metric: pending becomes staged.                 *)
LEMMA StageNextStep ==
  ASSUME AgentInv, NEW id \in ID, StageNext(id)
  PROVE  AgentInv'
<1> USE DEF storageVars, pollVars, reportVars, polledVars, ackedVars, finalVars
<1> DEFINE ma == accums[id]
           mb == StageChanges(ma)
<1>1. TypeOK /\ AccumsOK /\ StagedHasOneOwner /\ PhasesOK
  BY DEF AgentInv
<1>2. ma \in MetricAccumulator /\ AccumulatorOK(ma, Kind(id)) /\ Kind(id) \in {Counter, Gauge}
  BY <1>1, KindIsType DEF TypeOK, AccumsOK
<1>3. CASE UNCHANGED <<accums, unsent>>
  <2>1. TypeOK'
    BY <1>1, <1>3 DEF TypeOK, StageNext
  <2>2. PollersOK' /\ PhasesOK'
    BY <1>3 DEF AgentInv, PollersOK, PhasesOK, StageNext
  <2>3. repPc' \notin {"select", "done", "shutdown"}
    BY DEF StageNext
  <2> QED
    BY <1>3, <2>1, <2>2, <2>3, ControlStep DEF AgentInv, StageNext
<1>4. CASE /\ process' = process
           /\ accums' = [accums EXCEPT ![id] = mb]
           /\ unsent' = IF HasMetricToStage(ma) THEN unsent \cup {id} ELSE unsent
  <2>1. /\ mb \in MetricAccumulator
        /\ AccumulatorOK(mb, Kind(id))
        /\ mb.MType = ma.MType
        /\ mb.stagedDelta + PendingDelta(mb) = ma.stagedDelta + PendingDelta(ma)
        /\ mb.stagedValues \o mb.Values = ma.stagedValues \o ma.Values
        /\ mb.isStaged <=> ma.isStaged \/ HasMetricToStage(ma)
        /\ ma.isStaged => mb = ma
    <3>1. AccumulatorOK(mb, Kind(id))
      BY <1>2, StageKeepsOK
    <3> QED
      BY <1>2, <3>1, StageKeeps
  <2>2. /\ repPc = "staging" /\ repPc' = "staging"
        /\ successIDs = {} /\ failureIDs = {}
        /\ UNCHANGED <<pollVars, successIDs, failureIDs, polledVars, ackedVars>>
    BY <1>1 DEF StageNext, PhasesOK
  <2>3. accums'[id] = mb /\ \A i \in ID \ {id} : accums'[i] = accums[i]
    BY <1>1, <1>4 DEF TypeOK
  <2> HIDE DEF mb
  <2>4. TypeOK'
    BY <1>1, <1>4, <2>1 DEF TypeOK, StageNext
  <2>5. AccumsOK'
    BY <1>1, <2>1, <2>3 DEF AccumsOK
  <2>6. PollersOK'
    BY <2>1, <2>2, <2>3, PollerKept DEF PollersOK
  <2>7. PhasesOK'
    BY <2>2 DEF PhasesOK
  <2>8. StagedHasOneOwner'
    BY <1>1, <1>4, <2>1, <2>2, <2>3 DEF StagedHasOneOwner
  <2>9. CounterConserved'
    <3>1. \A i \in ID : OwedDelta(i)' = OwedDelta(i)
      BY <2>1, <2>2, <2>3 DEF OwedDelta
    <3> QED
      BY <2>2, <3>1, IDAssumption DEF AgentInv, CounterConserved
  <2>10. GaugeConserved'
    <3>1. \A i \in ID : OwedValues(i)' = OwedValues(i)
      BY <2>1, <2>2, <2>3 DEF OwedValues
    <3> QED
      BY <2>2, <3>1 DEF AgentInv, GaugeConserved
  <2> QED
    BY <2>4, <2>5, <2>6, <2>7, <2>8, <2>9, <2>10 DEF AgentInv
<1> QED
  BY <1>3, <1>4 DEF StageNext

(* A metric whose send succeeded is committed: its staged part was already *)
(* counted as acknowledged.                                                *)
LEMMA CommitNextStep ==
  ASSUME AgentInv, NEW id \in ID, CommitNext(id)
  PROVE  AgentInv'
<1> USE DEF storageVars, pollVars, reportVars, polledVars, ackedVars, finalVars
<1> DEFINE ma == accums[id]
           mb == CommitStaged(ma)
<1>1. TypeOK /\ AccumsOK /\ StagedHasOneOwner /\ PhasesOK
  BY DEF AgentInv
<1>2. ma \in MetricAccumulator /\ AccumulatorOK(ma, Kind(id)) /\ Kind(id) \in {Counter, Gauge}
  BY <1>1, KindIsType DEF TypeOK, AccumsOK
<1>3. id \in successIDs /\ id \notin failureIDs /\ id \notin unsent /\ ma.isStaged
  BY <1>1 DEF CommitNext, StagedHasOneOwner
<1>4. /\ mb \in MetricAccumulator
      /\ AccumulatorOK(mb, Kind(id))
      /\ mb.MType = ma.MType
      /\ ~ mb.isStaged
      /\ mb.stagedDelta = 0
      /\ mb.stagedValues = << >>
      /\ PendingDelta(mb) = PendingDelta(ma)
      /\ mb.Values = ma.Values
  BY <1>2, <1>3, CommitKeeps
<1>5. accums'[id] = mb /\ \A i \in ID \ {id} : accums'[i] = accums[i]
  BY <1>1 DEF TypeOK, CommitNext
<1>6. accums' = [accums EXCEPT ![id] = mb]
  BY DEF CommitNext
<1> HIDE DEF mb
<1>7. TypeOK'
  BY <1>1, <1>4, <1>6 DEF TypeOK, CommitNext
<1>8. AccumsOK'
  BY <1>1, <1>4, <1>5 DEF AccumsOK
<1>9. PollersOK'
  BY <1>4, <1>5, PollerKept DEF PollersOK, CommitNext
<1>10. PhasesOK'
  BY <1>1 DEF PhasesOK, CommitNext
<1>11. StagedHasOneOwner'
  BY <1>1, <1>3, <1>4, <1>5 DEF StagedHasOneOwner, CommitNext
<1>12. CounterConserved'
  <2>1. \A i \in ID : OwedDelta(i)' = OwedDelta(i)
    BY <1>3, <1>4, <1>5 DEF OwedDelta, CommitNext
  <2> QED
    BY <2>1, IDAssumption DEF AgentInv, CounterConserved, CommitNext
<1>13. GaugeConserved'
  <2>1. \A i \in ID : /\ i \in successIDs' <=> i \in successIDs /\ i # id
                      /\ accums'[i].Values = accums[i].Values
                      /\ i # id => accums'[i].stagedValues = accums[i].stagedValues
    BY <1>4, <1>5 DEF CommitNext
  <2>2. \A i \in ID : OwedValues(i)' = OwedValues(i)
    BY <1>3, <1>4, <1>5, <2>1 DEF OwedValues
  <2> QED
    BY <2>2 DEF AgentInv, GaugeConserved, CommitNext
<1> QED
  BY <1>7, <1>8, <1>9, <1>10, <1>11, <1>12, <1>13 DEF AgentInv

(* A metric whose send failed is rolled back: staged becomes pending.      *)
LEMMA RollbackNextStep ==
  ASSUME AgentInv, NEW id \in ID, RollbackNext(id)
  PROVE  AgentInv'
<1> USE DEF storageVars, pollVars, reportVars, polledVars, ackedVars, finalVars
<1> DEFINE ma == accums[id]
           mb == RollbackStaged(ma)
<1>1. TypeOK /\ AccumsOK /\ StagedHasOneOwner /\ PhasesOK
  BY DEF AgentInv
<1>2. ma \in MetricAccumulator /\ AccumulatorOK(ma, Kind(id)) /\ Kind(id) \in {Counter, Gauge}
  BY <1>1, KindIsType DEF TypeOK, AccumsOK
<1>3. id \in failureIDs /\ successIDs = {} /\ id \notin unsent /\ ma.isStaged
  BY <1>1 DEF RollbackNext, StagedHasOneOwner
<1>4. /\ mb \in MetricAccumulator
      /\ AccumulatorOK(mb, Kind(id))
      /\ mb.MType = ma.MType
      /\ ~ mb.isStaged
      /\ mb.stagedDelta = 0
      /\ mb.stagedValues = << >>
      /\ PendingDelta(mb) = ma.stagedDelta + PendingDelta(ma)
      /\ mb.Values = ma.stagedValues \o ma.Values
  BY <1>2, <1>3, RollbackKeeps
<1>5. accums'[id] = mb /\ \A i \in ID \ {id} : accums'[i] = accums[i]
  BY <1>1 DEF TypeOK, RollbackNext
<1>6. accums' = [accums EXCEPT ![id] = mb]
  BY DEF RollbackNext
<1> HIDE DEF mb
<1>7. TypeOK'
  BY <1>1, <1>4, <1>6 DEF TypeOK, RollbackNext
<1>8. AccumsOK'
  BY <1>1, <1>4, <1>5 DEF AccumsOK
<1>9. PollersOK'
  BY <1>4, <1>5, PollerKept DEF PollersOK, RollbackNext
<1>10. PhasesOK'
  BY <1>1 DEF PhasesOK, RollbackNext
<1>11. StagedHasOneOwner'
  BY <1>1, <1>3, <1>4, <1>5 DEF StagedHasOneOwner, RollbackNext
<1>12. CounterConserved'
  <2>1. PendingDelta(mb) \in Nat
    BY <1>4 DEF PendingDelta, MetricAccumulator
  <2>2. OwedDelta(id)' = OwedDelta(id)
    BY <1>3, <1>4, <1>5, <2>1 DEF OwedDelta, RollbackNext
  <2>3. \A i \in ID \ {id} : OwedDelta(i)' = OwedDelta(i)
    BY <1>5 DEF OwedDelta, RollbackNext
  <2> QED
    BY <2>2, <2>3, IDAssumption DEF AgentInv, CounterConserved, RollbackNext
<1>13. GaugeConserved'
  <2>1. OwedValues(id)' = << >> \o mb.Values /\ mb.Values \in Samples
    BY <1>3, <1>4, <1>5 DEF OwedValues, RollbackNext, MetricAccumulator
  <2>2. OwedValues(id)' = OwedValues(id)
    BY <1>3, <1>4, <2>1, SamplesClosed DEF OwedValues
  <2>3. \A i \in ID \ {id} : OwedValues(i)' = OwedValues(i)
    <3>1. successIDs' = successIDs
      BY DEF RollbackNext
    <3> QED
      BY <1>5, <3>1 DEF OwedValues
  <2> QED
    BY <2>2, <2>3 DEF AgentInv, GaugeConserved, RollbackNext
<1> QED
  BY <1>7, <1>8, <1>9, <1>10, <1>11, <1>12, <1>13 DEF AgentInv

-----------------------------------------------------------------------------
(* Where a result leaves the reporter: in the request, or resolving when   *)
(* nothing is left to send.                                                *)
AfterSend(sent) == repPc' = "executing" \/ (repPc' = "resolving" /\ sent = unsent)

LEMMA SendBatchIsSend ==
  ASSUME SendBatch
  PROVE  \E ok \in BOOLEAN : SendResult(unsent, ok) /\ AfterSend(unsent)
BY DEF SendBatch, AfterSend

LEMMA SendOneIsSend ==
  ASSUME SendOne
  PROVE  \E id \in unsent, ok \in BOOLEAN : SendResult({id}, ok) /\ AfterSend({id})
BY DEF SendOne, SendResult, AfterSend

(* Some of the metrics being sent get their result.  On success what was   *)
(* staged moves from owed to acknowledged.                                 *)
LEMMA SendResultStep ==
  ASSUME AgentInv, NEW sent \in SUBSET unsent, NEW ok \in BOOLEAN, SendResult(sent, ok),
         AfterSend(sent)
  PROVE  AgentInv'
<1> USE DEF storageVars, pollVars, reportVars, polledVars, ackedVars, finalVars
<1>1. TypeOK /\ StagedHasOneOwner
  BY DEF AgentInv
<1>2. /\ repPc = "executing" /\ AfterSend(sent)
      /\ UNCHANGED <<accums, pollVars, polledVars>>
      /\ unsent' = unsent \ sent
  BY DEF SendResult
<1> USE DEF AfterSend
<1>3. AccumsOK' /\ PollersOK' /\ PhasesOK'
  BY <1>2 DEF AgentInv, AccumsOK, PollersOK, PhasesOK
<1>4. CASE ~ ok
  <2>1. /\ failureIDs' = failureIDs \cup sent
        /\ UNCHANGED <<successIDs, ackedVars>>
    BY <1>4 DEF SendResult
  <2>2. TypeOK'
    BY <1>1, <1>4 DEF SendResult, TypeOK
  <2>3. StagedHasOneOwner'
    BY <1>1, <1>2, <2>1 DEF StagedHasOneOwner
  <2>4. CounterConserved' /\ GaugeConserved'
    BY <1>2, <2>1 DEF AgentInv, CounterConserved, GaugeConserved, OwedDelta, OwedValues
  <2> QED
    BY <1>3, <2>2, <2>3, <2>4 DEF AgentInv
<1>5. CASE ok
  <2>1. /\ successIDs' = successIDs \cup sent
        /\ UNCHANGED <<failureIDs, finalFailed>>
        /\ \A id \in ID : /\ ackedDelta'[id] = ackedDelta[id] +
                               (IF id \in sent THEN accums[id].stagedDelta ELSE 0)
                          /\ ackedValues'[id] = ackedValues[id] \o
                               (IF id \in sent THEN accums[id].stagedValues ELSE << >>)
    BY <1>5 DEF SendResult
  <2>2. \A id \in ID :
          /\ accums[id].stagedDelta \in Nat /\ PendingDelta(accums[id]) \in Nat
          /\ accums[id].stagedValues \in Samples /\ accums[id].Values \in Samples
          /\ ackedDelta[id] \in Nat /\ ackedValues[id] \in Samples
    BY <1>1 DEF TypeOK, MetricAccumulator, PendingDelta
  <2>3. ackedDelta' \in [ID -> Nat] /\ ackedValues' \in [ID -> Samples]
    <3>1. \A id \in ID :
            ackedDelta[id] + (IF id \in sent THEN accums[id].stagedDelta ELSE 0) \in Nat
      BY <2>2
    <3>2. ASSUME NEW id \in ID
          PROVE  ackedValues[id] \o (IF id \in sent THEN accums[id].stagedValues ELSE << >>)
                   \in Samples
      <4>1. (IF id \in sent THEN accums[id].stagedValues ELSE << >>) \in Samples
        BY <2>2, SamplesClosed
      <4> QED
        BY <2>2, <4>1, SamplesClosed
    <3> QED
      BY <1>5, <3>1, <3>2 DEF SendResult
  <2>4. TypeOK'
    <3>1. sent \subseteq ID
      BY <1>1 DEF TypeOK
    <3> QED
      BY <1>1, <1>2, <2>1, <2>3, <3>1 DEF SendResult, TypeOK
  <2>5. StagedHasOneOwner'
    BY <1>1, <1>2, <2>1 DEF StagedHasOneOwner
  <2>6. \A id \in sent : id \notin successIDs
    BY <1>1 DEF StagedHasOneOwner
  <2>7. CounterConserved'
    <3> SUFFICES ASSUME NEW c \in CounterIDs
                 PROVE  polledDelta'[c] = ackedDelta'[c] + OwedDelta(c)'
      BY DEF CounterConserved
    <3>1. c \in ID /\ polledDelta[c] = ackedDelta[c] + OwedDelta(c)
      BY IDAssumption DEF AgentInv, CounterConserved
    <3>2. polledDelta'[c] = polledDelta[c] /\ accums'[c] = accums[c]
      BY <1>2
    <3>3. CASE c \in sent
      <4>1. OwedDelta(c) = accums[c].stagedDelta + PendingDelta(accums[c])
        BY <2>6, <3>3 DEF OwedDelta
      <4>2. OwedDelta(c)' = 0 + PendingDelta(accums[c])
        BY <2>1, <3>2, <3>3 DEF OwedDelta
      <4>3. ackedDelta'[c] = ackedDelta[c] + accums[c].stagedDelta
        BY <2>1, <3>1, <3>3
      <4> QED
        BY <2>2, <3>1, <3>2, <4>1, <4>2, <4>3
    <3>4. CASE c \notin sent
      <4>1. OwedDelta(c)' = OwedDelta(c)
        BY <2>1, <3>2, <3>4 DEF OwedDelta
      <4>2. ackedDelta'[c] = ackedDelta[c] + 0 /\ ackedDelta[c] \in Nat
        BY <2>1, <2>2, <3>1, <3>4
      <4> QED
        BY <3>1, <3>2, <4>1, <4>2
    <3> QED
      BY <3>3, <3>4
  <2>8. GaugeConserved'
    <3> SUFFICES ASSUME NEW g \in ID \ CounterIDs
                 PROVE  polledValues'[g] = ackedValues'[g] \o OwedValues(g)'
      BY DEF GaugeConserved
    <3>1. polledValues'[g] = ackedValues[g] \o OwedValues(g)
      BY <1>2 DEF AgentInv, GaugeConserved
    <3>2. CASE g \in sent
      <4>1. OwedValues(g) = accums[g].stagedValues \o accums[g].Values
        BY <2>6, <3>2 DEF OwedValues
      <4>2. OwedValues(g)' = << >> \o accums[g].Values
        BY <1>2, <2>1, <3>2 DEF OwedValues
      <4>3. ackedValues'[g] = ackedValues[g] \o accums[g].stagedValues
        BY <2>1, <3>2
      <4>4. << >> \o accums[g].Values = accums[g].Values
        BY <2>2, SamplesClosed
      <4>5. (ackedValues[g] \o accums[g].stagedValues) \o accums[g].Values
              = ackedValues[g] \o (accums[g].stagedValues \o accums[g].Values)
        <5>1. /\ ackedValues[g] \in Samples
              /\ accums[g].stagedValues \in Samples
              /\ accums[g].Values \in Samples
          BY <2>2
        <5>2. \A s, t, u \in Samples : (s \o t) \o u = s \o (t \o u)
          BY SamplesClosed
        <5> QED
          BY <5>1, <5>2, Zenon
      <4> QED
        BY <3>1, <4>1, <4>2, <4>3, <4>4, <4>5
    <3>3. CASE g \notin sent
      <4>1. OwedValues(g)' = OwedValues(g)
        BY <1>2, <2>1, <3>3 DEF OwedValues
      <4>2. ackedValues'[g] = ackedValues[g]
        BY <2>1, <2>2, <3>3, SamplesClosed
      <4> QED
        BY <3>1, <4>1, <4>2
    <3> QED
      BY <3>2, <3>3
  <2> QED
    BY <1>3, <2>4, <2>5, <2>7, <2>8 DEF AgentInv
<1> QED
  BY <1>4, <1>5

-----------------------------------------------------------------------------
(* Every step keeps the invariant.                                         *)
LEMMA NextKeeps == AgentInv /\ [Next]_vars => AgentInv'
<1> SUFFICES ASSUME AgentInv, [Next]_vars
             PROVE  AgentInv'
  OBVIOUS
<1>1. CASE UNCHANGED vars
  BY <1>1
  DEF vars, storageVars, pollVars, reportVars, polledVars, ackedVars, finalVars,
      AgentInv, TypeOK, AccumsOK, PollersOK, PhasesOK, StagedHasOneOwner,
      CounterConserved, GaugeConserved, OwedDelta, OwedValues
<1>2. CASE ExecMemstatsPoll \/ ExecGopsPoll \/ ReadCPUPercent
  BY <1>2, PollerControlStep
<1>3. ASSUME NEW p \in Poller, PollerNext(p) \/ PollerStops(p)
      PROVE  AgentInv'
  BY <1>3, PollerControlStep, SetMTypeStep, AccumulateStep DEF PollerNext
<1>4. CASE ReportTick \/ FinalReport \/ Signal \/ RunReturns
  BY <1>4, ReporterControlStep
<1>5. CASE ReporterNext
  <2>1. CASE StagingDone \/ ExecuteReturns \/ ReportReturns \/ ExecutorShutdown
    BY <2>1, ReporterControlStep
  <2>2. CASE SendBatch
    BY <2>2, SendBatchIsSend, SendResultStep
  <2>3. CASE SendOne
    BY <2>3, SendOneIsSend, SendResultStep
  <2>4. ASSUME NEW id \in ID, StageNext(id) \/ CommitNext(id) \/ RollbackNext(id)
        PROVE  AgentInv'
    BY <2>4, StageNextStep, CommitNextStep, RollbackNextStep
  <2> QED
    BY <1>5, <2>1, <2>2, <2>3, <2>4 DEF ReporterNext
<1>6. CASE Terminated
  BY <1>1, <1>6 DEF Terminated
<1> QED
  BY <1>1, <1>2, <1>3, <1>4, <1>5, <1>6 DEF Next

(* The agent's invariant holds in every reachable state.                   *)
THEOREM AgentInvariant == Spec => []AgentInv
<1> QED
  BY InitHolds, NextKeeps, PTL DEF Spec

(* Every variable keeps its type.                                          *)
THEOREM TypeCorrect == Spec => []TypeOK
<1>1. AgentInv => TypeOK
  BY DEF AgentInv
<1> QED
  BY <1>1, AgentInvariant, PTL

(* No increment and no sample is lost, repeated or reordered between the   *)
(* pollers and the acknowledged sends (accumulator.go, reporter.go).       *)
THEOREM NothingLostOrRepeated == Spec => [](CounterConserved /\ GaugeConserved)
<1>1. AgentInv => CounterConserved /\ GaugeConserved
  BY DEF AgentInv
<1> QED
  BY <1>1, AgentInvariant, PTL

(* No metric is left staged by a finished report, so none is refused by    *)
(* StageChanges for ever.                                                  *)
THEOREM StagedIsOwned == Spec => []StagedHasOneOwner
<1>1. AgentInv => StagedHasOneOwner
  BY DEF AgentInv
<1> QED
  BY <1>1, AgentInvariant, PTL

(* The same for the gauges alone, whose samples also keep their order.     *)
THEOREM GaugesKeepOrder == Spec => []GaugeConserved
<1>1. AgentInv => GaugeConserved
  BY DEF AgentInv
<1> QED
  BY <1>1, AgentInvariant, PTL

-----------------------------------------------------------------------------
(* What is being sent does not change.                                     *)
InFlightKept ==
  \A id \in ID : accums[id].isStaged /\ accums'[id].isStaged =>
    /\ accums'[id].stagedDelta = accums[id].stagedDelta
    /\ accums'[id].stagedValues = accums[id].stagedValues

(* A step of one accumulator: the others are as they were.                 *)
LEMMA OneAccumulatorChanges ==
  ASSUME AgentInv, NEW id \in ID, NEW mb, accums' = [accums EXCEPT ![id] = mb],
         accums[id].isStaged /\ mb.isStaged =>
           /\ mb.stagedDelta = accums[id].stagedDelta
           /\ mb.stagedValues = accums[id].stagedValues
  PROVE  InFlightKept
<1>1. accums'[id] = mb /\ \A i \in ID \ {id} : accums'[i] = accums[i]
  BY DEF AgentInv, TypeOK
<1> QED
  BY <1>1 DEF InFlightKept

(* Every step keeps what is being sent: accumulations and type claims go   *)
(* to other fields, a staged metric is not staged again, and commits and   *)
(* rollbacks end the sending.                                              *)
LEMMA StepKeepsInFlight == AgentInv /\ [Next]_vars => InFlightKept
<1> SUFFICES ASSUME AgentInv, [Next]_vars PROVE InFlightKept
  OBVIOUS
<1> USE DEF storageVars, pollVars, reportVars, polledVars, ackedVars, finalVars
<1>1. CASE UNCHANGED accums
  BY <1>1 DEF InFlightKept
<1>2. \A id \in ID : /\ accums[id] \in MetricAccumulator
                     /\ AccumulatorOK(accums[id], Kind(id))
                     /\ Kind(id) \in {Counter, Gauge}
  BY KindIsType DEF AgentInv, TypeOK, AccumsOK
<1>3. ASSUME NEW p \in Poller, SetMType(p)
      PROVE  InFlightKept
  <2> DEFINE id == Head(pollQueue[p])
             mb == ClaimMType(accums[id], Kind(id))
  <2>1. id \in ID
    BY <1>3, HeadTailProperties DEF AgentInv, SetMType, PollersOK, TypeOK
  <2>2. accums' = [accums EXCEPT ![id] = mb]
    BY <1>3 DEF SetMType
  <2>3. /\ mb.stagedDelta = accums[id].stagedDelta
        /\ mb.stagedValues = accums[id].stagedValues
    BY <1>2, <2>1, ClaimKeeps
  <2> QED
    BY <2>1, <2>2, <2>3, OneAccumulatorChanges
<1>4. ASSUME NEW p \in Poller, Accumulate(p)
      PROVE  InFlightKept
  <2> DEFINE id == Head(pollQueue[p])
             ma == accums[id]
             mc == AccumulateCounter(ma, 1)
             mg == AccumulateGauge(ma, polls[p])
             mb == IF id \in CounterIDs THEN mc ELSE mg
  <2>1. id \in ID /\ polls[p] \in Nat /\ ma.MType = Kind(id)
    BY <1>4, HeadTailProperties DEF AgentInv, Accumulate, PollersOK, TypeOK
  <2>2. accums' = [accums EXCEPT ![id] = mb]
    BY <1>4 DEF Accumulate
  <2>3. mb.stagedDelta = ma.stagedDelta /\ mb.stagedValues = ma.stagedValues
    BY <1>2, <2>1, AccumulateCounterKeeps, AccumulateGaugeKeeps DEF Kind
  <2> QED
    BY <2>1, <2>2, <2>3, OneAccumulatorChanges
<1>5. ASSUME NEW id \in ID, StageNext(id)
      PROVE  InFlightKept
  <2>1. accums[id].isStaged => StageChanges(accums[id]) = accums[id]
    BY DEF StageChanges, HasMetricToStage
  <2>2. CASE accums' = [accums EXCEPT ![id] = StageChanges(accums[id])]
    BY <2>1, <2>2, OneAccumulatorChanges
  <2> QED
    BY <1>1, <1>5, <2>2 DEF StageNext
<1>6. ASSUME NEW id \in ID, CommitNext(id)
      PROVE  InFlightKept
  <2>1. accums[id].isStaged
    BY <1>6 DEF AgentInv, StagedHasOneOwner, CommitNext
  <2>2. ~ CommitStaged(accums[id]).isStaged
    BY <1>2, <2>1, CommitKeeps
  <2> QED
    BY <1>6, <2>2, OneAccumulatorChanges DEF CommitNext
<1>7. ASSUME NEW id \in ID, RollbackNext(id)
      PROVE  InFlightKept
  <2>1. accums[id].isStaged
    BY <1>7 DEF AgentInv, StagedHasOneOwner, RollbackNext
  <2>2. ~ RollbackStaged(accums[id]).isStaged
    BY <1>2, <2>1, RollbackKeeps
  <2> QED
    BY <1>7, <2>2, OneAccumulatorChanges DEF RollbackNext
<1>8. CASE UNCHANGED vars \/ Terminated
  BY <1>1, <1>8 DEF vars, Terminated
<1>9. CASE \/ ExecMemstatsPoll \/ ExecGopsPoll \/ ReadCPUPercent
           \/ \E p \in Poller : PollReturns(p) \/ GetOrNew(p) \/ PollerStops(p)
           \/ ReportTick \/ FinalReport \/ StagingDone \/ SendBatch \/ SendOne
           \/ ExecuteReturns \/ ReportReturns \/ ExecutorShutdown \/ Signal \/ RunReturns
  BY <1>1, <1>9
  DEF ExecMemstatsPoll, ExecGopsPoll, ReadCPUPercent, PollReturns, GetOrNew, PollerStops,
      ReportTick, FinalReport, StartReport, StagingDone, SendBatch, SendOne, SendResult,
      ExecuteReturns, ReportReturns, ExecutorShutdown, Signal, RunReturns
<1> QED
  BY <1>3, <1>4, <1>5, <1>6, <1>7, <1>8, <1>9 DEF Next, PollerNext, ReporterNext

(* The executor's pointers into the accumulators see no change, although   *)
(* pollers keep accumulating while a request is under way                  *)
(* (stageCounterChanges passes &ma.stagedDelta).                           *)
THEOREM SentIsStable == Spec => InFlightIsStable
<1>1. AgentInv /\ [Next]_vars => [InFlightKept]_vars
  BY StepKeepsInFlight
<1> QED
  BY <1>1, AgentInvariant, PTL DEF Spec, InFlightIsStable, InFlightKept

-----------------------------------------------------------------------------
(* The final report.  What a metric had when the report began is, while    *)
(* the report runs, still to be visited, in a request or acknowledged; a   *)
(* metric that is not in the map yet had nothing.                          *)

StagedCount(id) ==
  IF id \in CounterIDs THEN accums[id].stagedDelta ELSE Len(accums[id].stagedValues)

InRequest(id) == IF id \in unsent THEN StagedCount(id) ELSE 0

KeysOK ==
  /\ \A p \in Poller : pollPc[p] \in {"claim", "add"} => Head(pollQueue[p]) \in keys
  /\ \A id \in ID \ keys : Polled(id) = 0
  /\ repPc = "staging" => unsent \subseteq visited
  /\ \A p \in Poller : polls[p] <= PollLimit

FinalOK ==
  /\ \A id \in ID : atFinal[id] <= Polled(id)
  /\ repPc \in {"done", "shutdown"} => final
  /\ final /\ repPc # "select" =>
       \A id \in ID \ finalFailed :
         \/ repPc = "staging" /\ id \in unvisited
         \/ atFinal[id] <= Acked(id) + InRequest(id)

(* The counts are numbers, before and after a step.                        *)
LEMMA CountsAreNumbers ==
  ASSUME TypeOK, NEW id \in ID
  PROVE  /\ Polled(id) \in Nat /\ Acked(id) \in Nat
         /\ InRequest(id) \in Nat /\ atFinal[id] \in Nat
BY LenProperties
DEF TypeOK, Polled, Acked, StagedCount, InRequest, Samples, MetricAccumulator

LEMMA CountsStayNumbers ==
  ASSUME TypeOK', NEW id \in ID
  PROVE  /\ Polled(id)' \in Nat /\ Acked(id)' \in Nat
         /\ InRequest(id)' \in Nat /\ atFinal'[id] \in Nat
BY LenProperties
DEF TypeOK, Polled, Acked, StagedCount, InRequest, Samples, MetricAccumulator

(* What a metric was polled for grows by one with an accumulation and      *)
(* changes with no other step.                                             *)
LEMMA PolledOnlyGrows ==
  ASSUME AgentInv, [Next]_vars, NEW id \in ID
  PROVE  /\ Polled(id)' >= Polled(id)
         /\ \/ Polled(id)' = Polled(id)
            \/ \E p \in Poller : Accumulate(p) /\ id = Head(pollQueue[p])
<1> USE DEF storageVars, pollVars, reportVars, polledVars, ackedVars, finalVars
<1>1. polledDelta \in [ID -> Nat] /\ polledValues \in [ID -> Samples]
  BY DEF AgentInv, TypeOK
<1>2. CASE UNCHANGED <<polledDelta, polledValues>>
  BY <1>1, <1>2, LenProperties DEF Polled, Samples
<1>3. ASSUME NEW p \in Poller, Accumulate(p)
      PROVE  /\ Polled(id)' >= Polled(id)
             /\ Polled(id)' = Polled(id) \/ id = Head(pollQueue[p])
  <2> DEFINE h == Head(pollQueue[p])
  <2>1. h \in ID /\ polls[p] \in Nat
    BY <1>3, HeadTailProperties DEF AgentInv, Accumulate, PollersOK, TypeOK
  <2>2. CASE h \in CounterIDs
    <3>1. /\ polledDelta' = [polledDelta EXCEPT ![h] = @ + 1]
          /\ polledValues' = polledValues
      BY <1>3, <2>2 DEF Accumulate
    <3> HIDE DEF h
    <3>2. polledDelta'[id] = IF id = h THEN polledDelta[id] + 1 ELSE polledDelta[id]
      BY <1>1, <2>1, <3>1
    <3> QED
      BY <1>1, <3>1, <3>2, LenProperties DEF Polled, Samples, h
  <2>3. CASE h \notin CounterIDs
    <3>1. /\ polledValues' = [polledValues EXCEPT ![h] = Append(@, polls[p])]
          /\ polledDelta' = polledDelta
      BY <1>3, <2>3 DEF Accumulate
    <3> HIDE DEF h
    <3>2. polledValues'[id] = IF id = h THEN Append(polledValues[id], polls[p])
                                        ELSE polledValues[id]
      BY <1>1, <2>1, <3>1
    <3>3. /\ Len(polledValues[id]) \in Nat
          /\ Len(Append(polledValues[id], polls[p])) = Len(polledValues[id]) + 1
      BY <1>1, <2>1, LenProperties, AppendProperties DEF Samples
    <3> QED
      BY <1>1, <3>1, <3>2, <3>3 DEF Polled, h
  <2> QED
    BY <2>2, <2>3
<1>4. CASE UNCHANGED vars \/ Terminated
  BY <1>2, <1>4 DEF vars, Terminated
<1>5. CASE \/ ExecMemstatsPoll \/ ExecGopsPoll \/ ReadCPUPercent
           \/ \E p \in Poller : PollReturns(p) \/ GetOrNew(p) \/ SetMType(p) \/ PollerStops(p)
           \/ ReportTick \/ FinalReport \/ ReporterNext \/ Signal \/ RunReturns
  BY <1>2, <1>5
  DEF ExecMemstatsPoll, ExecGopsPoll, ReadCPUPercent, PollReturns, GetOrNew, SetMType,
      PollerStops, ReportTick, FinalReport, StartReport, ReporterNext, StagingDone,
      SendBatch, SendOne, SendResult, ExecuteReturns, ReportReturns, ExecutorShutdown,
      StageNext, CommitNext, RollbackNext, Signal, RunReturns
<1> QED
  BY <1>3, <1>4, <1>5 DEF Next, PollerNext

(* A poller inserts its metric before it accumulates; the reporter stages  *)
(* only what it visits.                                                    *)
LEMMA KeysKept == AgentInv /\ KeysOK /\ [Next]_vars => KeysOK'
<1> SUFFICES ASSUME AgentInv, KeysOK, [Next]_vars PROVE KeysOK'
  OBVIOUS
<1> USE DEF storageVars, pollVars, reportVars, polledVars, ackedVars, finalVars
<1>1. TypeOK /\ StagedHasOneOwner
  BY DEF AgentInv
<1>2. \A id \in ID \ keys : Polled(id)' = 0
  <2> SUFFICES ASSUME NEW id \in ID \ keys PROVE Polled(id)' = 0
    OBVIOUS
  <2>1. ASSUME NEW p \in Poller, Accumulate(p)
        PROVE  Head(pollQueue[p]) \in keys
    BY <2>1 DEF KeysOK, Accumulate
  <2>2. Polled(id) = 0
    BY DEF KeysOK
  <2> QED
    BY <2>1, <2>2, PolledOnlyGrows
<1>3. CASE UNCHANGED vars \/ Terminated
  BY <1>2, <1>3 DEF KeysOK, vars, Terminated
<1>4. CASE ExecMemstatsPoll \/ ExecGopsPoll \/ ReadCPUPercent
  <2>1. UNCHANGED <<keys, repPc, unsent, visited>>
    BY <1>4 DEF ExecMemstatsPoll, ExecGopsPoll, ReadCPUPercent
  <2>2. \A p \in Poller : \/ pollPc'[p] \in {"get", "select"}
                          \/ pollPc'[p] = pollPc[p] /\ pollQueue'[p] = pollQueue[p]
    BY <1>1, <1>4 DEF TypeOK, ExecMemstatsPoll, ExecGopsPoll, ReadCPUPercent, Poller
  <2>3. \A p \in Poller : polls'[p] <= PollLimit
    <3>1. \/ UNCHANGED polls
          \/ \E q \in Poller : /\ polls[q] < PollLimit
                               /\ polls' = [polls EXCEPT ![q] = polls[q] + 1]
      BY <1>4 DEF ExecMemstatsPoll, ExecGopsPoll, ReadCPUPercent, Tick, Poller
    <3>2. polls \in [Poller -> Nat] /\ \A p \in Poller : polls[p] <= PollLimit
      BY <1>1 DEF KeysOK, TypeOK
    <3> QED
      BY <3>1, <3>2, IDAssumption
  <2> QED
    BY <1>2, <2>1, <2>2, <2>3 DEF KeysOK
<1>5. ASSUME NEW p \in Poller, PollerNext(p) \/ PollerStops(p)
      PROVE  KeysOK'
  <2>1. keys \subseteq keys' /\ UNCHANGED <<polls, repPc, unsent, visited>>
    BY <1>5 DEF PollerNext, PollReturns, GetOrNew, SetMType, Accumulate, PollerStops
  <2>2. \A q \in Poller \ {p} : UNCHANGED <<pollPc[q], pollQueue[q]>>
    BY <1>1, <1>5
    DEF TypeOK, PollerNext, PollReturns, GetOrNew, SetMType, Accumulate, PollerStops
  <2>3. pollPc'[p] \in {"claim", "add"} => Head(pollQueue'[p]) \in keys'
    BY <1>1, <1>5
    DEF KeysOK, TypeOK, PollerNext, PollReturns, GetOrNew, SetMType, Accumulate, PollerStops
  <2> QED
    BY <1>2, <2>1, <2>2, <2>3 DEF KeysOK
<1>6. CASE ReportTick \/ FinalReport
  BY <1>1, <1>2, <1>6 DEF KeysOK, ReportTick, FinalReport, StartReport, StagedHasOneOwner
<1>7. CASE ReporterNext
  <2>1. UNCHANGED <<keys, pollVars>>
    BY <1>7 DEF ReporterNext, StagingDone, SendBatch, SendOne, SendResult, ExecuteReturns,
                ReportReturns, ExecutorShutdown, StageNext, CommitNext, RollbackNext
  <2>2. repPc' = "staging" => unsent' \subseteq visited'
    BY <1>7
    DEF KeysOK, ReporterNext, StagingDone, SendBatch, SendOne, SendResult, ExecuteReturns,
        ReportReturns, ExecutorShutdown, StageNext, CommitNext, RollbackNext
  <2> QED
    BY <1>2, <2>1, <2>2 DEF KeysOK
<1>8. CASE Signal \/ RunReturns
  BY <1>2, <1>8 DEF KeysOK, Signal, RunReturns
<1> QED
  BY <1>3, <1>4, <1>5, <1>6, <1>7, <1>8 DEF Next

(* A metric that a report has just visited has nothing pending: all it was *)
(* polled for is acknowledged or in the request.                           *)
LEMMA VisitedIsSent ==
  ASSUME AgentInv, AgentInv', KeysOK, NEW id \in ID, StageNext(id)
  PROVE  Polled(id)' = Acked(id)' + InRequest(id)'
<1> USE DEF storageVars, pollVars, reportVars, polledVars, ackedVars, finalVars
<1> DEFINE ma == accums[id]
           mb == accums'[id]
<1>1. /\ ma \in MetricAccumulator /\ AccumulatorOK(ma, Kind(id))
      /\ mb \in MetricAccumulator /\ AccumulatorOK(mb, Kind(id))
      /\ accums \in [ID -> MetricAccumulator]
  BY DEF AgentInv, TypeOK, AccumsOK, Kind
<1>2. ~ ma.isStaged /\ id \notin unsent /\ successIDs' = {}
  BY DEF AgentInv, StagedHasOneOwner, PhasesOK, KeysOK, StageNext
<1>3. /\ PendingDelta(mb) = 0 /\ mb.Values = << >>
      /\ id \notin unsent' => mb.stagedDelta = 0 /\ mb.stagedValues = << >>
  <2>1. CASE ~ HasMetricToStage(ma)
    <3>1. mb = ma
      BY <1>1, <2>1 DEF StageNext, StageChanges
    <3>2. ma.Delta = NoDelta /\ ma.Values = << >>
      BY <1>1, <1>2, <2>1 DEF AccumulatorOK, HasMetricToStage, Kind, Unset, Counter, Gauge
    <3> QED
      BY <1>1, <1>2, <3>1, <3>2 DEF AccumulatorOK, PendingDelta
  <2>2. CASE HasMetricToStage(ma)
    <3>1. ma.MType # Unset
      BY <2>2 DEF HasMetricToStage, Unset, Counter, Gauge
    <3>2. mb = StageChanges(ma) /\ unsent' = unsent \cup {id}
      BY <1>1, <2>2, <3>1 DEF StageNext
    <3>3. mb.Delta = NoDelta /\ mb.Values = << >>
      BY <1>1, <2>2, <3>1, <3>2
      DEF StageChanges, stageCounterChanges, stageGaugeChanges, AccumulatorOK,
          MetricAccumulator, Kind, Unset, Counter, Gauge
    <3> QED
      BY <3>2, <3>3 DEF PendingDelta
  <2> QED
    BY <2>1, <2>2
<1>4. CASE id \in CounterIDs
  <2>1. polledDelta'[id] = ackedDelta'[id] + (mb.stagedDelta + 0)
    BY <1>2, <1>3, <1>4 DEF AgentInv, CounterConserved, OwedDelta
  <2>2. ackedDelta'[id] \in Nat /\ mb.stagedDelta \in Nat
    BY <1>1 DEF AgentInv, TypeOK, MetricAccumulator
  <2> QED
    BY <1>3, <1>4, <2>1, <2>2 DEF Polled, Acked, InRequest, StagedCount
<1>5. CASE id \notin CounterIDs
  <2>1. polledValues'[id] = ackedValues'[id] \o (mb.stagedValues \o << >>)
    BY <1>2, <1>3, <1>5 DEF AgentInv, GaugeConserved, OwedValues
  <2>2. ackedValues'[id] \in Samples /\ mb.stagedValues \in Samples
    BY <1>1 DEF AgentInv, TypeOK, MetricAccumulator
  <2>3. polledValues'[id] = ackedValues'[id] \o mb.stagedValues
    BY <2>1, <2>2, SamplesClosed
  <2>4. /\ Len(polledValues'[id]) = Len(ackedValues'[id]) + Len(mb.stagedValues)
        /\ Len(ackedValues'[id]) \in Nat
    BY <2>2, <2>3, ConcatProperties, LenProperties DEF Samples
  <2>5. mb.stagedValues = << >> => Len(mb.stagedValues) = 0
    BY EmptySeq
  <2> QED
    BY <1>3, <1>5, <2>4, <2>5 DEF Polled, Acked, InRequest, StagedCount
<1> QED
  BY <1>4, <1>5

(* A metric that stays in the request is there with the same count.        *)
LEMMA RequestKept ==
  ASSUME AgentInv, AgentInv', [Next]_vars, NEW id \in ID,
         id \in unsent, id \in unsent'
  PROVE  InRequest(id)' = InRequest(id)
<1>1. accums[id].isStaged /\ accums'[id].isStaged
  BY DEF AgentInv, StagedHasOneOwner
<1>2. /\ accums'[id].stagedDelta = accums[id].stagedDelta
      /\ accums'[id].stagedValues = accums[id].stagedValues
  BY <1>1, StepKeepsInFlight DEF InFlightKept
<1> QED
  BY <1>2 DEF InRequest, StagedCount

(* A step that neither begins a report, ends its staging, visits a metric  *)
(* nor gives one a result.                                                 *)
LEMMA FinalControlStep ==
  ASSUME AgentInv, AgentInv', FinalOK, [Next]_vars,
         UNCHANGED <<final, unsent, unvisited, ackedVars, finalVars>>,
         repPc' = "staging" <=> repPc = "staging",
         repPc' # "select" => repPc # "select",
         repPc' \in {"done", "shutdown"} => final
  PROVE  FinalOK'
<1>1. ASSUME NEW id \in ID
      PROVE  /\ Acked(id)' = Acked(id) /\ atFinal'[id] = atFinal[id]
             /\ InRequest(id)' = InRequest(id)
  <2>1. Acked(id)' = Acked(id) /\ atFinal'[id] = atFinal[id]
    BY DEF Acked, ackedVars, finalVars
  <2>2. CASE id \in unsent
    BY <2>1, <2>2, RequestKept
  <2>3. CASE id \notin unsent
    BY <2>1, <2>3 DEF InRequest
  <2> QED
    BY <2>2, <2>3
<1>2. \A id \in ID : atFinal'[id] <= Polled(id)'
  <2> SUFFICES ASSUME NEW id \in ID PROVE atFinal'[id] <= Polled(id)'
    OBVIOUS
  <2>1. PICK before \in Nat, after \in Nat : /\ before = Polled(id)
                                             /\ after = Polled(id)'
    BY CountsAreNumbers, CountsStayNumbers DEF AgentInv
  <2>2. after >= before
    BY <2>1, PolledOnlyGrows
  <2>3. atFinal[id] \in Nat /\ atFinal[id] <= before
    BY <2>1 DEF AgentInv, TypeOK, FinalOK
  <2>4. atFinal[id] <= after
    BY <2>2, <2>3
  <2> QED
    BY <1>1, <2>1, <2>4
<1>3. finalFailed' = finalFailed /\ final' = final /\ unvisited' = unvisited
  BY DEF finalVars
<1>4. ASSUME final', repPc' # "select", NEW id \in ID \ finalFailed'
      PROVE  \/ repPc' = "staging" /\ id \in unvisited'
             \/ atFinal'[id] <= Acked(id)' + InRequest(id)'
  <2>1. \/ repPc = "staging" /\ id \in unvisited
        \/ atFinal[id] <= Acked(id) + InRequest(id)
    BY <1>3, <1>4 DEF FinalOK
  <2> QED
    BY <1>1, <1>3, <2>1
<1> QED
  BY <1>2, <1>3, <1>4 DEF FinalOK

(* The final report begins: every metric with samples is to be visited.    *)
LEMMA FinalReportStep ==
  ASSUME AgentInv, AgentInv', KeysOK, FinalOK, FinalReport
  PROVE  FinalOK'
<1>1. /\ repPc' = "staging" /\ unvisited' = keys /\ unsent' = unsent
      /\ atFinal' = [id \in ID |-> Polled(id)]
      /\ UNCHANGED <<polledVars, ackedVars>>
  BY DEF FinalReport, StartReport
<1>2. \A id \in ID : Polled(id)' = Polled(id)
  BY <1>1 DEF Polled, polledVars
<1>3. \A id \in ID : atFinal'[id] = Polled(id) /\ Polled(id) \in Nat
  BY <1>1, CountsAreNumbers DEF AgentInv
<1>4. ASSUME NEW id \in ID \ keys
      PROVE  atFinal'[id] <= Acked(id)' + InRequest(id)'
  <2>1. PICK a \in Nat, r \in Nat : a = Acked(id)' /\ r = InRequest(id)'
    BY CountsStayNumbers DEF AgentInv
  <2>2. atFinal'[id] = 0
    BY <1>3 DEF KeysOK
  <2>3. 0 <= a + r
    OBVIOUS
  <2> QED
    BY <2>1, <2>2, <2>3
<1>5. \A id \in ID : atFinal'[id] <= Polled(id)'
  BY <1>2, <1>3
<1> QED
  BY <1>1, <1>4, <1>5 DEF FinalOK

(* A metric is visited: what it had pending is in the request.             *)
LEMMA FinalStageStep ==
  ASSUME AgentInv, AgentInv', KeysOK, FinalOK, [Next]_vars, NEW id \in ID, StageNext(id)
  PROVE  FinalOK'
<1> USE DEF polledVars, ackedVars, finalVars
<1>1. /\ repPc = "staging" /\ repPc' = "staging" /\ unvisited' = unvisited \ {id}
      /\ UNCHANGED <<final, polledVars, ackedVars, finalVars>>
      /\ unsent' \in {unsent, unsent \cup {id}}
  BY DEF StageNext
<1>2. \A i \in ID : Polled(i)' = Polled(i) /\ Acked(i)' = Acked(i)
  BY <1>1 DEF Polled, Acked
<1>3. \A i \in ID : atFinal'[i] <= Polled(i)'
  BY <1>1, <1>2 DEF FinalOK
<1>4. atFinal'[id] <= Acked(id)' + InRequest(id)'
  BY <1>3, VisitedIsSent
<1>5. ASSUME NEW i \in ID \ {id}
      PROVE  InRequest(i)' = InRequest(i)
  <2>1. CASE i \in unsent
    BY <1>1, <2>1, RequestKept
  <2>2. CASE i \notin unsent
    BY <1>1, <2>2 DEF InRequest
  <2> QED
    BY <2>1, <2>2
<1>6. ASSUME final', NEW i \in ID \ finalFailed'
      PROVE  \/ i \in unvisited'
             \/ atFinal'[i] <= Acked(i)' + InRequest(i)'
  <2>1. CASE i = id
    BY <1>4, <2>1
  <2>2. CASE i # id
    <3>1. i \in unvisited \/ atFinal[i] <= Acked(i) + InRequest(i)
      BY <1>1, <1>6 DEF FinalOK
    <3>2. Acked(i)' = Acked(i) /\ InRequest(i)' = InRequest(i) /\ atFinal'[i] = atFinal[i]
      BY <1>1, <1>2, <1>5, <2>2
    <3> QED
      BY <1>1, <2>2, <3>1, <3>2
  <2> QED
    BY <2>1, <2>2
<1> QED
  BY <1>1, <1>3, <1>6 DEF FinalOK

(* Metrics get their result: on success they move from the request to the  *)
(* acknowledged ones, on failure the report counts them as failed.         *)
LEMMA FinalSendStep ==
  ASSUME AgentInv, AgentInv', FinalOK, [Next]_vars,
         NEW sent \in SUBSET unsent, NEW ok \in BOOLEAN, SendResult(sent, ok),
         AfterSend(sent)
  PROVE  FinalOK'
<1> USE DEF polledVars, ackedVars, finalVars
<1>1. /\ repPc = "executing" /\ repPc' \in {"executing", "resolving"}
      /\ unsent' = unsent \ sent
      /\ UNCHANGED <<final, accums, polledVars, atFinal>>
  BY DEF SendResult, AfterSend, storageVars
<1>2. \A id \in ID : atFinal'[id] <= Polled(id)'
  BY <1>1 DEF FinalOK, Polled
<1>3. ASSUME final, NEW id \in ID \ finalFailed'
      PROVE  atFinal'[id] <= Acked(id)' + InRequest(id)'
  <2>1. id \notin finalFailed
    BY <1>3 DEF SendResult
  <2>2. atFinal[id] <= Acked(id) + InRequest(id)
    BY <1>1, <1>3, <2>1 DEF FinalOK
  <2>3. CASE id \notin sent
    <3>1. InRequest(id)' = InRequest(id)
      BY <1>1, <2>3 DEF InRequest, StagedCount
    <3>2. Acked(id)' = Acked(id)
      <4>1. CASE ~ ok
        BY <4>1 DEF SendResult, Acked
      <4>2. CASE ok
        <5>1. /\ ackedDelta'[id] = ackedDelta[id] + 0
              /\ ackedValues'[id] = ackedValues[id] \o << >>
          BY <2>3, <4>2 DEF SendResult
        <5>2. ackedDelta[id] \in Nat /\ ackedValues[id] \in Samples
          BY DEF AgentInv, TypeOK
        <5> QED
          BY <5>1, <5>2, SamplesClosed DEF Acked
      <4> QED
        BY <4>1, <4>2
    <3> QED
      BY <1>1, <2>2, <3>1, <3>2
  <2>4. CASE id \in sent
    <3>1. ok
      BY <1>3, <2>4 DEF SendResult
    <3>2. /\ ackedDelta'[id] = ackedDelta[id] + accums[id].stagedDelta
          /\ ackedValues'[id] = ackedValues[id] \o accums[id].stagedValues
      BY <2>4, <3>1 DEF SendResult
    <3>3. ackedValues[id] \in Samples /\ accums[id].stagedValues \in Samples
      BY DEF AgentInv, TypeOK, MetricAccumulator
    <3>4. Len(ackedValues'[id]) = Len(ackedValues[id]) + Len(accums[id].stagedValues)
      BY <3>2, <3>3, ConcatProperties DEF Samples
    <3>5. Acked(id)' = Acked(id) + InRequest(id)
      BY <2>4, <3>2, <3>4 DEF Acked, InRequest, StagedCount
    <3>6. InRequest(id)' = 0
      BY <1>1, <2>4 DEF InRequest
    <3>7. PICK a \in Nat : a = Acked(id)'
      BY CountsStayNumbers DEF AgentInv
    <3>8. atFinal[id] <= a
      BY <2>2, <3>5, <3>7
    <3>9. a + 0 = a
      OBVIOUS
    <3> QED
      BY <1>1, <3>6, <3>7, <3>8, <3>9
  <2> QED
    BY <2>3, <2>4
<1> QED
  BY <1>1, <1>2, <1>3 DEF FinalOK

(* Every step keeps it.                                                    *)
LEMMA FinalKept ==
  AgentInv /\ KeysOK /\ FinalOK /\ [Next]_vars => FinalOK'
<1> SUFFICES ASSUME AgentInv, KeysOK, FinalOK, [Next]_vars PROVE FinalOK'
  OBVIOUS
<1> USE DEF storageVars, pollVars, reportVars
<1>1. AgentInv'
  BY NextKeeps
<1>2. CASE UNCHANGED <<reportVars, ackedVars, finalVars>>
  BY <1>1, <1>2, FinalControlStep DEF FinalOK
<1>3. CASE \/ UNCHANGED vars \/ Terminated
           \/ ExecMemstatsPoll \/ ExecGopsPoll \/ ReadCPUPercent
           \/ \E p \in Poller : PollerNext(p) \/ PollerStops(p)
           \/ Signal \/ RunReturns
  BY <1>2, <1>3
  DEF vars, Terminated, ExecMemstatsPoll, ExecGopsPoll, ReadCPUPercent, PollerNext,
      PollReturns, GetOrNew, SetMType, Accumulate, PollerStops, Signal, RunReturns
<1>4. CASE ReportTick
  <2>1. /\ final' = FALSE /\ repPc' = "staging"
        /\ UNCHANGED <<polledVars, finalVars>>
    BY <1>4 DEF ReportTick, StartReport
  <2>2. \A id \in ID : atFinal'[id] <= Polled(id)'
    BY <2>1 DEF FinalOK, Polled, polledVars, finalVars
  <2> QED
    BY <2>1, <2>2 DEF FinalOK
<1>5. CASE FinalReport
  BY <1>1, <1>5, FinalReportStep
<1>6. CASE StagingDone
  <2>1. /\ repPc = "staging" /\ repPc' = "executing" /\ unvisited = {}
        /\ UNCHANGED <<final, unsent, accums, polledVars, ackedVars, finalVars>>
    BY <1>6 DEF StagingDone
  <2> QED
    BY <2>1 DEF FinalOK, Polled, Acked, InRequest, StagedCount, polledVars, ackedVars,
                finalVars
<1>7. CASE SendBatch \/ SendOne
  BY <1>1, <1>7, SendBatchIsSend, SendOneIsSend, FinalSendStep
<1>8. CASE ExecuteReturns \/ ReportReturns \/ ExecutorShutdown
  <2>1. /\ UNCHANGED <<final, unsent, unvisited, ackedVars, finalVars>>
        /\ repPc # "staging" /\ repPc # "select" /\ repPc' # "staging"
        /\ repPc' \in {"done", "shutdown"} => final
    BY <1>8 DEF FinalOK, ExecuteReturns, ReportReturns, ExecutorShutdown
  <2> QED
    BY <1>1, <2>1, FinalControlStep
<1>9. ASSUME NEW id \in ID, CommitNext(id) \/ RollbackNext(id)
      PROVE  FinalOK'
  <2>1. /\ UNCHANGED <<repPc, final, unsent, unvisited, ackedVars, finalVars>>
        /\ repPc = "resolving"
    BY <1>9 DEF CommitNext, RollbackNext
  <2> QED
    BY <1>1, <2>1, FinalControlStep
<1>10. ASSUME NEW id \in ID, StageNext(id)
       PROVE  FinalOK'
  BY <1>1, <1>10, FinalStageStep
<1> QED
  BY <1>3, <1>4, <1>5, <1>6, <1>7, <1>8, <1>9, <1>10 DEF Next, ReporterNext

(* Once the reporter is done, everything polled before its final report    *)
(* was acknowledged, but for the metrics whose send failed in that report  *)
(* (the ctx.Done() branch of the reporter's loop).                         *)
THEOREM FinalReportIsComplete == Spec => []FinalReportDelivers
<1>1. Init => KeysOK /\ FinalOK
  <2>1. Init => KeysOK
    BY IDAssumption, EmptySeq DEF Init, KeysOK, Polled
  <2>2. Init => FinalOK
    BY EmptySeq DEF Init, FinalOK, Polled
  <2> QED
    BY <2>1, <2>2
<1>2. ASSUME AgentInv, KeysOK, FinalOK, repPc \in {"done", "shutdown"},
             NEW id \in ID \ finalFailed
      PROVE  Acked(id) >= atFinal[id]
  <2>1. InRequest(id) = 0
    BY <1>2 DEF AgentInv, StagedHasOneOwner, InRequest
  <2>2. atFinal[id] <= Acked(id) + InRequest(id)
    BY <1>2 DEF FinalOK
  <2> QED
    BY <1>2, <2>1, <2>2, CountsAreNumbers DEF AgentInv
<1>3. AgentInv /\ KeysOK /\ FinalOK => FinalReportDelivers
  BY <1>2 DEF FinalReportDelivers
<1> QED
  BY <1>1, <1>3, AgentInvariant, KeysKept, FinalKept, PTL DEF Spec

-----------------------------------------------------------------------------
(* The ledger.  Conservation determines what is owed: a step that changes  *)
(* neither what was polled nor what was acknowledged leaves the ledger     *)
(* alone, whatever it does to the accumulators.                            *)

(* Sequences of samples with the same beginning.                           *)
LEMMA SamplesCancel ==
  ASSUME NEW s \in Samples, NEW t \in Samples, NEW u \in Samples, s \o t = s \o u
  PROVE  t = u
<1>1. /\ Len(s \o t) = Len(s) + Len(t) /\ Len(s \o u) = Len(s) + Len(u)
      /\ Len(s) \in Nat /\ Len(t) \in Nat /\ Len(u) \in Nat
  BY ConcatProperties, LenProperties DEF Samples
<1>2. Len(t) = Len(u)
  BY <1>1
<1>3. ASSUME NEW i \in 1 .. Len(t)
      PROVE  t[i] = u[i]
  <2>1. /\ Len(s) + i \in 1 .. Len(s) + Len(t) /\ Len(s) + i > Len(s)
        /\ (Len(s) + i) - Len(s) = i
    BY <1>1
  <2>2. (s \o t)[Len(s) + i] = t[i] /\ (s \o u)[Len(s) + i] = u[i]
    BY <1>1, <1>2, <2>1, ConcatProperties DEF Samples
  <2> QED
    BY <2>2
<1> QED
  BY <1>2, <1>3, SeqEqual DEF Samples

(* The beginning and the rest of a concatenation.                          *)
LEMMA SamplesSplit ==
  ASSUME NEW s \in Samples, NEW t \in Samples
  PROVE  /\ SubSeq(s \o t, 1, Len(s)) = s
         /\ SubSeq(s \o t, Len(s) + 1, Len(s \o t)) = t
         /\ Len(s) \in 0 .. Len(s \o t)
<1>1. /\ s \o t \in Samples /\ Len(s \o t) = Len(s) + Len(t)
      /\ Len(s) \in Nat /\ Len(t) \in Nat
  BY ConcatProperties, LenProperties DEF Samples
<1>2. SubSeq(s \o t, 1, Len(s)) = s
  <2> DEFINE q == SubSeq(s \o t, 1, Len(s))
  <2>1. /\ q \in Seq(Nat) /\ Len(q) = Len(s)
        /\ \A i \in 1 .. Len(s) : q[i] = (s \o t)[i]
    BY <1>1, SubSeqProperties DEF Samples
  <2>2. \A i \in 1 .. Len(s) : (s \o t)[i] = s[i]
    BY <1>1, ConcatProperties DEF Samples
  <2> QED
    BY <2>1, <2>2, SeqEqual DEF Samples
<1>3. SubSeq(s \o t, Len(s) + 1, Len(s \o t)) = t
  <2> DEFINE q == SubSeq(s \o t, Len(s) + 1, Len(s \o t))
  <2>1. /\ q \in Seq(Nat) /\ Len(q) = Len(t)
        /\ \A i \in 1 .. Len(t) : q[i] = (s \o t)[Len(s) + i]
    BY <1>1, SubSeqProperties DEF Samples
  <2>2. \A i \in 1 .. Len(t) : (s \o t)[Len(s) + i] = t[i]
    BY <1>1, ConcatProperties DEF Samples
  <2> QED
    BY <2>1, <2>2, SeqEqual DEF Samples
<1> QED
  BY <1>1, <1>2, <1>3

(* A counter owes no samples and a gauge no increments.                    *)
LEMMA OwedForm ==
  ASSUME AgentInv, NEW id \in ID
  PROVE  /\ OwedDelta(id) \in Nat /\ OwedValues(id) \in Samples
         /\ id \in CounterIDs => OwedValues(id) = << >>
         /\ id \notin CounterIDs => OwedDelta(id) = 0
<1>1. accums[id] \in MetricAccumulator /\ AccumulatorOK(accums[id], Kind(id))
  BY DEF AgentInv, TypeOK, AccumsOK
<1>2. OwedDelta(id) \in Nat
  BY <1>1 DEF OwedDelta, PendingDelta, MetricAccumulator
<1>3. OwedValues(id) \in Samples
  BY <1>1, SamplesClosed DEF OwedValues, MetricAccumulator
<1>4. id \in CounterIDs => OwedValues(id) = << >>
  BY <1>1, SamplesClosed DEF OwedValues, AccumulatorOK, Kind
<1>5. id \notin CounterIDs => OwedDelta(id) = 0
  BY <1>1 DEF OwedDelta, PendingDelta, AccumulatorOK, Kind
<1> QED
  BY <1>2, <1>3, <1>4, <1>5

LEMMA OwedFormNext ==
  ASSUME AgentInv', NEW id \in ID
  PROVE  /\ OwedDelta(id)' \in Nat /\ OwedValues(id)' \in Samples
         /\ id \in CounterIDs => OwedValues(id)' = << >>
         /\ id \notin CounterIDs => OwedDelta(id)' = 0
<1>1. accums'[id] \in MetricAccumulator /\ AccumulatorOK(accums'[id], Kind(id))
  BY DEF AgentInv, TypeOK, AccumsOK
<1>2. OwedDelta(id)' \in Nat
  BY <1>1 DEF OwedDelta, PendingDelta, MetricAccumulator
<1>3. OwedValues(id)' \in Samples
  BY <1>1, SamplesClosed DEF OwedValues, MetricAccumulator
<1>4. id \in CounterIDs => OwedValues(id)' = << >>
  BY <1>1, SamplesClosed DEF OwedValues, AccumulatorOK, Kind
<1>5. id \notin CounterIDs => OwedDelta(id)' = 0
  BY <1>1 DEF OwedDelta, PendingDelta, AccumulatorOK, Kind
<1> QED
  BY <1>2, <1>3, <1>4, <1>5

(* What was polled and what was acknowledged determine what is owed.       *)
LEMMA OwedIsDetermined ==
  ASSUME AgentInv, AgentInv', NEW id \in ID, UNCHANGED <<polledDelta[id], polledValues[id]>>,
         UNCHANGED <<ackedDelta[id], ackedValues[id]>>
  PROVE  OwedDelta(id)' = OwedDelta(id) /\ OwedValues(id)' = OwedValues(id)
<1>1. CASE id \in CounterIDs
  <2>1. PICK d \in Nat, e \in Nat : d = OwedDelta(id) /\ e = OwedDelta(id)'
    BY OwedForm, OwedFormNext
  <2>2. ackedDelta[id] + d = ackedDelta[id] + e /\ ackedDelta[id] \in Nat
    BY <1>1, <2>1 DEF AgentInv, TypeOK, CounterConserved
  <2>3. d = e
    BY <2>2
  <2> QED
    BY <1>1, <2>1, <2>3, OwedForm, OwedFormNext
<1>2. CASE id \notin CounterIDs
  <2>1. ackedValues[id] \o OwedValues(id)' = ackedValues[id] \o OwedValues(id)
    BY <1>2 DEF AgentInv, GaugeConserved
  <2>2. ackedValues[id] \in Samples
    BY DEF AgentInv, TypeOK
  <2>3. OwedValues(id) \in Samples /\ OwedValues(id)' \in Samples
    BY OwedForm, OwedFormNext
  <2>4. OwedValues(id)' = OwedValues(id)
    BY <2>1, <2>2, <2>3, SamplesCancel
  <2> QED
    BY <1>2, <2>4, OwedForm, OwedFormNext
<1> QED
  BY <1>1, <1>2

(* An accumulation is one of the ledger.                                   *)
LEMMA AccumulateIsLedgerStep ==
  ASSUME AgentInv, AgentInv', KeysOK, NEW p \in Poller, Accumulate(p)
  PROVE  Ledger!Next
<1>1. UNCHANGED <<ackedDelta, ackedValues>>
  BY DEF Accumulate, ackedVars
<1> PICK h \in ID : h = Head(pollQueue[p])
  BY HeadTailProperties DEF AgentInv, Accumulate, PollersOK, TypeOK
<1>2. /\ polledDelta \in [ID -> Nat] /\ polledValues \in [ID -> Samples]
      /\ ackedDelta \in [ID -> Nat] /\ ackedValues \in [ID -> Samples]
  BY DEF AgentInv, TypeOK
<1>3. CASE h \in CounterIDs
  <2>1. /\ polledDelta' = [polledDelta EXCEPT ![h] = @ + 1]
        /\ polledValues' = polledValues
    BY <1>3 DEF Accumulate
  <2>2. \A id \in ID : polledDelta'[id] = IF id = h THEN polledDelta[id] + 1
                                                    ELSE polledDelta[id]
    BY <1>1, <1>2, <2>1
  <2>3. \A id \in ID \ {h} : OwedDelta(id)' = OwedDelta(id) /\ OwedValues(id)' = OwedValues(id)
    BY <1>1, <2>1, <2>2, OwedIsDetermined
  <2>4. OwedDelta(h)' = OwedDelta(h) + 1 /\ OwedValues(h)' = OwedValues(h)
    <3>1. PICK d \in Nat, e \in Nat : d = OwedDelta(h) /\ e = OwedDelta(h)'
      BY <1>1, OwedForm, OwedFormNext
    <3>2. ackedDelta[h] + e = (ackedDelta[h] + d) + 1 /\ ackedDelta[h] \in Nat
      BY <1>1, <1>2, <1>3, <2>2, <3>1 DEF AgentInv, CounterConserved
    <3>3. e = d + 1
      BY <3>2
    <3> QED
      BY <1>1, <1>3, <3>1, <3>3, OwedForm, OwedFormNext
  <2>5. Ledger!AccumulateCounter(h)
    BY <1>1, <1>3, <2>3, <2>4 DEF Ledger!AccumulateCounter
  <2> QED
    BY <1>1, <2>5 DEF Ledger!Next
<1>4. CASE h \notin CounterIDs
  <2> PICK v \in 0 .. PollLimit : v = polls[p]
    BY IDAssumption DEF AgentInv, TypeOK, KeysOK
  <2>1. /\ polledValues' = [polledValues EXCEPT ![h] = Append(@, v)]
        /\ polledDelta' = polledDelta
    BY <1>4 DEF Accumulate
  <2>2. v \in Nat
    BY IDAssumption
  <2>3. \A id \in ID : polledValues'[id] = IF id = h THEN Append(polledValues[id], v)
                                                     ELSE polledValues[id]
    BY <1>1, <1>2, <2>1
  <2>4. \A id \in ID \ {h} : OwedDelta(id)' = OwedDelta(id) /\ OwedValues(id)' = OwedValues(id)
    BY <1>1, <2>1, <2>3, OwedIsDetermined
  <2>5. OwedDelta(h)' = OwedDelta(h) /\ OwedValues(h)' = Append(OwedValues(h), v)
    <3>1. PICK s \in Samples, t \in Samples : s = OwedValues(h) /\ t = OwedValues(h)'
      BY <1>1, OwedForm, OwedFormNext
    <3>2. ackedValues[h] \o t = Append(ackedValues[h] \o s, v)
      BY <1>1, <1>4, <2>3, <3>1 DEF AgentInv, GaugeConserved
    <3>3. ackedValues[h] \o Append(s, v) = Append(ackedValues[h] \o s, v)
      <4>1. ackedValues[h] \in Samples
        BY <1>2
      <4>2. \A x, y \in Samples, n \in Nat : x \o Append(y, n) = Append(x \o y, n)
        BY SamplesClosed
      <4> QED
        BY <2>2, <4>1, <4>2, Zenon
    <3>4. Append(s, v) \in Samples
      BY <2>2, SamplesClosed
    <3>5. t = Append(s, v)
      <4>1. ackedValues[h] \in Samples
        BY <1>2
      <4>2. ackedValues[h] \o t = ackedValues[h] \o Append(s, v)
        BY <3>2, <3>3
      <4> QED
        BY <3>4, <4>1, <4>2, SamplesCancel
    <3> QED
      BY <1>1, <1>4, <3>1, <3>5, OwedForm, OwedFormNext
  <2>6. Ledger!AccumulateGauge(h, v)
    BY <1>1, <1>4, <2>4, <2>5 DEF Ledger!AccumulateGauge
  <2> QED
    BY <1>1, <2>2, <2>6 DEF Ledger!Next
<1> QED
  BY <1>3, <1>4

(* A successful request acknowledges, of the metrics it carries, exactly   *)
(* the staged part, which is the oldest part of what they owe.             *)
LEMMA SendIsLedgerStep ==
  ASSUME AgentInv, NEW sent \in SUBSET unsent, SendResult(sent, TRUE)
  PROVE  Ledger!Next
<1>1. /\ UNCHANGED accums /\ successIDs' = successIDs \cup sent
      /\ \A id \in ID : /\ ackedDelta'[id] = ackedDelta[id] +
                             (IF id \in sent THEN accums[id].stagedDelta ELSE 0)
                        /\ ackedValues'[id] = ackedValues[id] \o
                             (IF id \in sent THEN accums[id].stagedValues ELSE << >>)
  BY DEF SendResult, storageVars
<1>2. ASSUME NEW id \in ID
      PROVE  \E delta \in 0 .. OwedDelta(id), count \in 0 .. Len(OwedValues(id)) :
               /\ OwedDelta(id)' = OwedDelta(id) - delta
               /\ ackedDelta'[id] = ackedDelta[id] + delta
               /\ OwedValues(id)' = SubSeq(OwedValues(id), count + 1, Len(OwedValues(id)))
               /\ ackedValues'[id] = ackedValues[id] \o SubSeq(OwedValues(id), 1, count)
  <2> DEFINE s == IF id \in sent THEN accums[id].stagedValues ELSE << >>
             d == IF id \in sent THEN accums[id].stagedDelta ELSE 0
  <2>1. /\ accums[id].stagedDelta \in Nat /\ PendingDelta(accums[id]) \in Nat
        /\ accums[id].stagedValues \in Samples /\ accums[id].Values \in Samples
    BY DEF AgentInv, TypeOK, MetricAccumulator, PendingDelta
  <2>2. id \in sent => id \notin successIDs
    BY DEF AgentInv, StagedHasOneOwner
  <2>3. /\ OwedDelta(id) \in Nat /\ d \in 0 .. OwedDelta(id)
        /\ OwedDelta(id)' = OwedDelta(id) - d
    <3>1. CASE id \in sent
      <4>1. OwedDelta(id) = accums[id].stagedDelta + PendingDelta(accums[id])
        BY <2>2, <3>1 DEF OwedDelta
      <4>2. OwedDelta(id)' = 0 + PendingDelta(accums[id])
        BY <1>1, <3>1 DEF OwedDelta
      <4> QED
        BY <2>1, <3>1, <4>1, <4>2
    <3>2. CASE id \notin sent
      <4>1. OwedDelta(id)' = OwedDelta(id) /\ OwedDelta(id) \in Nat /\ d = 0
        BY <1>1, <3>2, OwedForm DEF OwedDelta
      <4> HIDE DEF d
      <4> QED
        BY <4>1
    <3> QED
      BY <3>1, <3>2
  <2>4. /\ s \in Samples /\ OwedValues(id)' \in Samples
        /\ OwedValues(id) = s \o OwedValues(id)'
    <3>1. CASE id \in sent
      <4>1. OwedValues(id) = s \o accums[id].Values
        BY <2>2, <3>1 DEF OwedValues
      <4>2. OwedValues(id)' = << >> \o accums[id].Values
        BY <1>1, <3>1 DEF OwedValues
      <4>3. << >> \o accums[id].Values = accums[id].Values
        BY <2>1, SamplesClosed
      <4> QED
        BY <2>1, <3>1, <4>1, <4>2, <4>3
    <3>2. CASE id \notin sent
      <4>1. OwedValues(id)' = OwedValues(id) /\ OwedValues(id) \in Samples /\ s = << >>
        BY <1>1, <3>2, OwedForm DEF OwedValues
      <4> HIDE DEF s
      <4> QED
        BY <4>1, SamplesClosed
    <3> QED
      BY <3>1, <3>2
  <2>5. ackedDelta'[id] = ackedDelta[id] + d /\ ackedValues'[id] = ackedValues[id] \o s
    BY <1>1
  <2>6. PICK t \in Samples : t = OwedValues(id)'
    BY <2>4
  <2> HIDE DEF s, d
  <2>7. /\ SubSeq(s \o t, 1, Len(s)) = s
        /\ SubSeq(s \o t, Len(s) + 1, Len(s \o t)) = t
        /\ Len(s) \in 0 .. Len(s \o t)
    BY <2>4, SamplesSplit
  <2>8. OwedValues(id) = s \o t
    BY <2>4, <2>6
  <2> QED
    BY <2>3, <2>5, <2>6, <2>7, <2>8
<1>3. Ledger!Acknowledge
  BY <1>2 DEF Ledger!Acknowledge, Ledger!Moves
<1> QED
  BY <1>3 DEF Ledger!Next

(* A step that polls nothing and acknowledges nothing is no step of the    *)
(* ledger.                                                                 *)
LEMMA LedgerStutters ==
  ASSUME AgentInv, AgentInv', UNCHANGED <<polledVars, ackedVars>>
  PROVE  UNCHANGED Ledger!ledger
<1>1. UNCHANGED <<polledDelta, polledValues, ackedDelta, ackedValues>>
  BY DEF polledVars, ackedVars
<1>2. \A id \in ID : OwedDelta(id)' = OwedDelta(id) /\ OwedValues(id)' = OwedValues(id)
  BY <1>1, OwedIsDetermined
<1> QED
  BY <1>1, <1>2 DEF Ledger!ledger

(* The agent, with its staging, locks, reports and shutdown, implements    *)
(* the ledger of samples: polling adds to what is owed, a successful send  *)
(* acknowledges the oldest part of it once, and nothing else changes it.   *)
THEOREM AgentImplementsLedger == Spec => ImplementsLedger
<1>1. Init => Ledger!Init
  <2> SUFFICES ASSUME Init PROVE Ledger!Init
    OBVIOUS
  <2>1. \A id \in ID : OwedDelta(id) = 0
    BY DEF Init, OwedDelta, PendingDelta, NewMetricAccumulator
  <2>2. \A id \in ID : OwedValues(id) = << >>
    BY SamplesClosed DEF Init, OwedValues, NewMetricAccumulator
  <2> QED
    BY <2>1, <2>2 DEF Init, Ledger!Init
<1>2. AgentInv /\ KeysOK /\ [Next]_vars => [Ledger!Next]_(Ledger!ledger)
  <2> SUFFICES ASSUME AgentInv, KeysOK, [Next]_vars
               PROVE  Ledger!Next \/ UNCHANGED Ledger!ledger
    OBVIOUS
  <2>1. AgentInv'
    BY NextKeeps
  <2>2. CASE UNCHANGED <<polledVars, ackedVars>>
    BY <2>1, <2>2, LedgerStutters
  <2>3. ASSUME NEW p \in Poller, Accumulate(p)
        PROVE  Ledger!Next
    BY <2>1, <2>3, AccumulateIsLedgerStep
  <2>4. ASSUME NEW sent \in SUBSET unsent, NEW ok \in BOOLEAN, SendResult(sent, ok)
        PROVE  Ledger!Next \/ UNCHANGED Ledger!ledger
    <3>1. CASE ok = TRUE
      BY <2>4, <3>1, SendIsLedgerStep
    <3>2. CASE ok = FALSE
      BY <2>2, <2>4, <3>2 DEF SendResult
    <3> QED
      BY <3>1, <3>2
  <2>5. CASE SendBatch \/ SendOne
    BY <2>4, <2>5 DEF SendBatch, SendOne
  <2>6. CASE \/ UNCHANGED vars \/ Terminated
             \/ ExecMemstatsPoll \/ ExecGopsPoll \/ ReadCPUPercent
             \/ \E p \in Poller : PollReturns(p) \/ GetOrNew(p) \/ SetMType(p) \/ PollerStops(p)
             \/ ReportTick \/ FinalReport \/ StagingDone \/ ExecuteReturns
             \/ ReportReturns \/ ExecutorShutdown \/ Signal \/ RunReturns
             \/ \E id \in ID : StageNext(id) \/ CommitNext(id) \/ RollbackNext(id)
    BY <2>2, <2>6
    DEF vars, Terminated, ExecMemstatsPoll, ExecGopsPoll, ReadCPUPercent, PollReturns,
        GetOrNew, SetMType, PollerStops, ReportTick, FinalReport, StartReport, StagingDone,
        ExecuteReturns, ReportReturns, ExecutorShutdown, StageNext, CommitNext,
        RollbackNext, Signal, RunReturns
  <2> QED
    BY <2>3, <2>5, <2>6 DEF Next, PollerNext, ReporterNext
<1>3. Init => KeysOK
  BY IDAssumption, EmptySeq DEF Init, KeysOK, Polled
<1> QED
  BY <1>1, <1>2, <1>3, AgentInvariant, KeysKept, PTL DEF Spec, ImplementsLedger, Ledger!Spec
=============================================================================
