--------------------------- MODULE DeliveryProofs ---------------------------
(***************************************************************************)
(* Proofs about Delivery, for both ways of sending, every retry policy,    *)
(* every set of faults and every number of faults and increments.          *)
(***************************************************************************)
EXTENDS Delivery, TLAPS

(* A counter's accumulator has something staged only while isStaged.       *)
CounterOK(ma) ==
  /\ ma.MType = Counter
  /\ ~ ma.isStaged => ma.stagedDelta = 0

AccumOK == CounterOK(accum)

(* What was polled is committed, staged or pending.                        *)
Conserved == polled = acked + accum.stagedDelta + PendingDelta(accum)

(* The retrier calls and loops only while a report is staged, one request  *)
(* at a time; its attempts count its requests, and its delay is the one of *)
(* the last attempt.                                                       *)
RetrierOK ==
  /\ waiting => run.pc = "call"
  /\ run.pc # "returned" => accum.isStaged /\ run.attempt <= MaxRetries
  /\ run.pc = "loop" => run.err = "retryable"
  /\ run.pc = "call" =>
       /\ calls = run.attempt + (IF waiting THEN 1 ELSE 0)
       /\ IF run.attempt = 0 THEN run.delay = 0
            ELSE run.delay = InitialDelay + (run.attempt - 1) * DelayIncrease

SenderInv == TypeOK /\ AccumOK /\ Conserved /\ RetrierOK /\ RetriesAreExact

-----------------------------------------------------------------------------
(* What the methods of MetricAccumulator do to a counter.  An increment    *)
(* goes to the pending delta and leaves what is staged alone.              *)
LEMMA IncrementCounter ==
  ASSUME NEW ma \in MetricAccumulator, CounterOK(ma), NEW inc \in Nat,
         NEW mb, mb = AccumulateCounter(ma, inc)
  PROVE  /\ mb \in MetricAccumulator /\ CounterOK(mb)
         /\ mb.isStaged = ma.isStaged /\ mb.stagedDelta = ma.stagedDelta
         /\ PendingDelta(mb) = PendingDelta(ma) + inc
<1> DEFINE n == PendingDelta(ma) + inc
           mc == [ma EXCEPT !.Delta = n]
<1>1. n \in Nat /\ n # NoDelta
  BY NoDeltaAssumption DEF PendingDelta, MetricAccumulator
<1>2. mb = mc
  BY DEF AccumulateCounter, CounterOK
<1>3. /\ mc \in MetricAccumulator /\ mc.MType = ma.MType /\ mc.isStaged = ma.isStaged
      /\ mc.stagedDelta = ma.stagedDelta /\ mc.Delta = n
  <2> HIDE DEF n
  <2> QED BY <1>1 DEF MetricAccumulator
<1>4. PendingDelta(mb) = n
  <2> HIDE DEF n, mc
  <2> QED BY <1>1, <1>2, <1>3 DEF PendingDelta
<1> HIDE DEF mc
<1> QED
  BY <1>2, <1>3, <1>4 DEF CounterOK

(* Staging moves the pending delta to the staged one.                      *)
LEMMA StageCounter ==
  ASSUME NEW ma \in MetricAccumulator, CounterOK(ma), HasMetricToStage(ma),
         NEW mb, mb = StageChanges(ma)
  PROVE  /\ mb \in MetricAccumulator /\ CounterOK(mb) /\ mb.isStaged
         /\ mb.stagedDelta + PendingDelta(mb) = ma.stagedDelta + PendingDelta(ma)
<1>1. ma.Delta \in Nat /\ ma.Delta # NoDelta /\ ma.stagedDelta = 0
  BY DEF HasMetricToStage, MetricAccumulator, Counter, Gauge, CounterOK
<1>2. mb = [ma EXCEPT !.isStaged = TRUE, !.stagedDelta = ma.Delta, !.Delta = NoDelta]
  BY DEF StageChanges, stageCounterChanges, CounterOK
<1>3. /\ mb \in MetricAccumulator /\ mb.MType = Counter /\ mb.isStaged
      /\ mb.stagedDelta = ma.Delta /\ mb.Delta = NoDelta
  BY <1>1, <1>2 DEF MetricAccumulator, MType, CounterOK
<1> QED
  BY <1>1, <1>3 DEF CounterOK, PendingDelta

(* Committing drops the staged delta and leaves the pending one.           *)
LEMMA CommitCounter ==
  ASSUME NEW ma \in MetricAccumulator, CounterOK(ma), ma.isStaged,
         NEW mb, mb = CommitStaged(ma)
  PROVE  /\ mb \in MetricAccumulator /\ CounterOK(mb)
         /\ ~ mb.isStaged /\ mb.stagedDelta = 0
         /\ PendingDelta(mb) = PendingDelta(ma)
<1> DEFINE mc == [ma EXCEPT !.isStaged = FALSE, !.stagedDelta = 0]
<1>1. mb = mc
  BY DEF CommitStaged, CounterOK, Counter, Gauge
<1>2. /\ mc \in MetricAccumulator /\ mc.MType = ma.MType /\ ~ mc.isStaged
      /\ mc.stagedDelta = 0 /\ mc.Delta = ma.Delta
  BY DEF MetricAccumulator
<1> HIDE DEF mc
<1> QED
  BY <1>1, <1>2 DEF CounterOK, PendingDelta

(* Rolling back adds the staged delta to the pending one.                  *)
LEMMA RollbackCounter ==
  ASSUME NEW ma \in MetricAccumulator, CounterOK(ma), ma.isStaged,
         NEW mb, mb = RollbackStaged(ma)
  PROVE  /\ mb \in MetricAccumulator /\ CounterOK(mb)
         /\ ~ mb.isStaged /\ mb.stagedDelta = 0
         /\ PendingDelta(mb) = ma.stagedDelta + PendingDelta(ma)
<1> DEFINE n == PendingDelta(ma) + ma.stagedDelta
           mc == [ma EXCEPT !.isStaged = FALSE, !.Delta = n, !.stagedDelta = 0]
<1>1. n \in Nat /\ n # NoDelta /\ n = ma.stagedDelta + PendingDelta(ma)
  BY NoDeltaAssumption DEF PendingDelta, MetricAccumulator
<1>2. mb = mc
  BY DEF RollbackStaged, rollbackStagedCounter, CounterOK, Counter, Gauge
<1>3. /\ mc \in MetricAccumulator /\ mc.MType = ma.MType /\ ~ mc.isStaged
      /\ mc.stagedDelta = 0 /\ mc.Delta = n
  <2> HIDE DEF n
  <2> QED BY <1>1 DEF MetricAccumulator
<1> HIDE DEF n, mc
<1> QED
  BY <1>1, <1>2, <1>3 DEF CounterOK, PendingDelta

-----------------------------------------------------------------------------
(* The policy's constants.                                                 *)
LEMMA PolicyIsLinear ==
  /\ MaxRetries \in Nat /\ InitialDelay \in Nat \ {0} /\ DelayIncrease \in Nat
  /\ policy.maxRetries = MaxRetries /\ policy.initialDelay = InitialDelay
  /\ policy.delayIncrease = DelayIncrease
BY DeliveryAssumption DEF policy, LinearPolicy

(* What the retrier makes of an outcome, and its loop of an attempt.       *)
LEMMA CallKeeps ==
  ASSUME NEW r \in Execution, NEW outcome \in Outcome
  PROVE  /\ Call(policy, r, outcome) \in Execution
         /\ Call(policy, r, outcome).attempt = r.attempt
         /\ Call(policy, r, outcome).err = outcome
         /\ outcome = "retryable" =>
              /\ Call(policy, r, outcome).pc = "loop"
              /\ Call(policy, r, outcome).delay = NextDelay(policy, r.delay)
         /\ outcome # "retryable" => Call(policy, r, outcome).pc = "returned"
<1>1. NextDelay(policy, r.delay) \in Nat
  BY DeliveryAssumption DEF NextDelay, Execution, LinearPolicy, policy
<1> QED
  BY <1>1 DEF Call, Execution, Outcome

LEMMA LoopKeeps ==
  ASSUME NEW r \in Execution
  PROVE  /\ Loop(policy, r) \in Execution
         /\ Loop(policy, r).err = r.err /\ Loop(policy, r).delay = r.delay
         /\ r.attempt < MaxRetries =>
              Loop(policy, r).pc = "call" /\ Loop(policy, r).attempt = r.attempt + 1
         /\ ~ r.attempt < MaxRetries =>
              Loop(policy, r).pc = "returned" /\ Loop(policy, r).attempt = r.attempt
<1>1. CASE r.attempt < MaxRetries
  <2>1. Loop(policy, r) = [r EXCEPT !.pc = "call", !.attempt = r.attempt + 1]
    BY <1>1, PolicyIsLinear DEF Loop
  <2>2. r.attempt + 1 \in Nat
    BY DEF Execution
  <2> QED
    BY <1>1, <2>1, <2>2 DEF Execution
<1>2. CASE ~ r.attempt < MaxRetries
  <2>1. Loop(policy, r) = [r EXCEPT !.pc = "returned"]
    BY <1>2, PolicyIsLinear DEF Loop
  <2> QED
    BY <1>2, <2>1 DEF Execution
<1> QED
  BY <1>1, <1>2

(* The initial state.                                                      *)
LEMMA SenderInit == Init => SenderInv
<1> SUFFICES ASSUME Init PROVE SenderInv
  OBVIOUS
<1>1. /\ accum \in MetricAccumulator /\ accum.MType = Counter /\ ~ accum.isStaged
      /\ accum.Delta = NoDelta /\ accum.stagedDelta = 0
      /\ accum.Values = << >> /\ accum.stagedValues = << >>
  <2>1. << >> \in Samples
    BY DEF Samples
  <2> QED
    BY <2>1 DEF Init, NewMetricAccumulator, MetricAccumulator, MType
<1>2. AccumOK /\ Conserved
  BY <1>1 DEF Init, AccumOK, CounterOK, Conserved, PendingDelta, Unset, Counter, Gauge
<1>3. run \in Execution /\ run.pc = "returned" /\ run.err = "nil"
  BY DEF Init, Run, Execution, Outcome
<1>4. TypeOK
  <2>1. faults \in 0 .. FaultLimit
    BY DeliveryAssumption DEF Init
  <2>2. waiting \in BOOLEAN /\ seq \in Nat /\ requests = {} /\ responses = {}
    BY DEF Init
  <2> QED
    BY <1>1, <1>3, <2>1, <2>2 DEF Init, TypeOK
<1>5. RetrierOK /\ RetriesAreExact
  BY <1>3, PolicyIsLinear DEF Init, RetrierOK, RetriesAreExact, FollowsPolicy
<1> QED
  BY <1>2, <1>4, <1>5 DEF SenderInv

(* An increment goes to the pending part.                                  *)
LEMMA PollStep ==
  ASSUME SenderInv, Poll
  PROVE  /\ SenderInv'
         /\ accum'.isStaged = accum.isStaged /\ accum'.stagedDelta = accum.stagedDelta
<1>1. TypeOK /\ AccumOK
  BY DEF SenderInv
<1>2. /\ accum' \in MetricAccumulator
      /\ AccumOK'
      /\ accum'.isStaged = accum.isStaged /\ accum'.stagedDelta = accum.stagedDelta
      /\ PendingDelta(accum') = PendingDelta(accum) + 1
  BY <1>1, IncrementCounter DEF Poll, TypeOK, AccumOK
<1>3. TypeOK'
  BY <1>1, <1>2 DEF Poll, TypeOK
<1>4. Conserved'
  <2>1. PendingDelta(accum) \in Nat /\ accum.stagedDelta \in Nat /\ acked \in Nat
    BY <1>1 DEF TypeOK, MetricAccumulator, PendingDelta
  <2> QED
    BY <1>2, <2>1 DEF SenderInv, Conserved, Poll
<1>5. RetrierOK' /\ RetriesAreExact'
  BY <1>2 DEF SenderInv, RetrierOK, RetriesAreExact, FollowsPolicy, Poll
<1> QED
  BY <1>2, <1>3, <1>4, <1>5 DEF SenderInv

(* A report stages the pending part and starts a new Run.                  *)
LEMMA StageStep ==
  ASSUME SenderInv, Stage
  PROVE  /\ SenderInv'
         /\ accum.stagedDelta = 0 /\ run'.pc = "call"
<1>1. TypeOK /\ AccumOK
  BY DEF SenderInv
<1>2. /\ accum' \in MetricAccumulator
      /\ AccumOK'
      /\ accum'.isStaged
      /\ accum'.stagedDelta + PendingDelta(accum') = accum.stagedDelta + PendingDelta(accum)
  BY <1>1, StageCounter DEF Stage, TypeOK, AccumOK
<1>3. accum.stagedDelta = 0
  BY <1>1 DEF Stage, Idle, AccumOK, CounterOK
<1>4. /\ run' \in Execution /\ run'.pc = "call" /\ run'.attempt = 0
      /\ run'.delay = 0 /\ calls' = 0 /\ run.pc = "returned" /\ ~ waiting'
  BY DEF Stage, Run, Execution, Outcome, SenderInv, RetrierOK, Idle, TypeOK
<1>5. TypeOK'
  BY <1>1, <1>2, <1>4 DEF Stage, TypeOK
<1>6. Conserved'
  <2>1. /\ PendingDelta(accum) \in Nat /\ accum.stagedDelta \in Nat /\ acked \in Nat
        /\ PendingDelta(accum') \in Nat /\ accum'.stagedDelta \in Nat
    BY <1>1, <1>2 DEF TypeOK, MetricAccumulator, PendingDelta
  <2> QED
    BY <1>2, <2>1 DEF SenderInv, Conserved, Stage
<1>7. RetrierOK' /\ RetriesAreExact'
  BY <1>2, <1>4, PolicyIsLinear DEF RetrierOK, RetriesAreExact, FollowsPolicy
<1> QED
  BY <1>2, <1>3, <1>4, <1>5, <1>6, <1>7 DEF SenderInv

(* A request is made: it is the next call of f.                            *)
LEMMA DoStep ==
  ASSUME SenderInv, Do
  PROVE  SenderInv'
<1>1. TypeOK /\ RetrierOK /\ RetriesAreExact
  BY DEF SenderInv
<1>2. accum.stagedDelta \in Nat /\ acked + accum.stagedDelta \in Nat
  BY <1>1 DEF TypeOK, MetricAccumulator
<1>3. /\ seq' \in Nat /\ calls' \in Nat
      /\ \A n \in 1 .. seq : n \in 1 .. seq'
      /\ seq + 1 \in 1 .. seq'
  BY <1>1 DEF Do, TypeOK
<1>4. TypeOK'
  <2>1. \A r \in requests' : r \in [seq : 1 .. seq', delta : Nat, last : Nat]
    BY <1>1, <1>2, <1>3 DEF Do, TypeOK
  <2>2. \A r \in responses' : r \in Response(seq')
    BY <1>1, <1>3 DEF Do, TypeOK, Response
  <2> QED
    BY <1>1, <1>3, <2>1, <2>2 DEF Do, TypeOK
<1>5. RetrierOK' /\ RetriesAreExact'
  <2>1. run.attempt \in Nat /\ calls \in Nat /\ calls' = run.attempt + 1
    BY <1>1 DEF Do, TypeOK, Execution, RetrierOK
  <2> QED
    BY <1>1, <2>1, PolicyIsLinear DEF Do, RetrierOK, RetriesAreExact, FollowsPolicy
<1>6. AccumOK' /\ Conserved'
  BY DEF SenderInv, AccumOK, Conserved, Do
<1> QED
  BY <1>4, <1>5, <1>6 DEF SenderInv

(* A failure that the server knew to have had no effect, where it tells.   *)
Refuses(r) == r.code # 200 /\ r.effect = "known"

(* A request ends with an outcome: without a definite answer, or with a    *)
(* response to it, a success or a refusal.                                 *)
Ended(outcome) ==
  /\ waiting /\ waiting' = FALSE
  /\ run' = Call(policy, run, outcome)
  /\ responses' \subseteq responses /\ faults' \in 0 .. FaultLimit
  /\ \/ outcome # "nil" /\ unsure' = unsure + accum.stagedDelta
     \/ /\ unsure' = unsure
        /\ \E r \in responses :
             r.seq = seq /\ IF outcome = "nil" THEN r.code = 200 ELSE Refuses(r)
  /\ UNCHANGED <<accum, seq, requests, stored, polled, acked, reached, calls>>

(* The retrier returns, or has a delay for the next attempt.               *)
LEMMA EndsStep ==
  ASSUME SenderInv, NEW outcome \in Outcome, Ended(outcome)
  PROVE  SenderInv'
<1>1. TypeOK /\ RetrierOK /\ RetriesAreExact
  BY DEF SenderInv
<1>2. /\ run \in Execution /\ run.attempt \in Nat /\ run.delay \in Nat /\ calls \in Nat
      /\ accum.stagedDelta \in Nat /\ unsure \in Nat
  BY <1>1 DEF TypeOK, Execution, MetricAccumulator
<1>3. /\ waiting /\ waiting' = FALSE /\ run.pc = "call" /\ accum.isStaged
      /\ run.attempt <= MaxRetries /\ calls = run.attempt + 1
      /\ run' = Call(policy, run, outcome)
      /\ UNCHANGED <<accum, seq, requests, stored, polled, acked, reached, calls>>
  BY <1>1 DEF Ended, RetrierOK, TypeOK
<1>4. /\ run' \in Execution /\ run'.attempt = run.attempt /\ run'.err = outcome
      /\ outcome = "retryable" =>
           run'.pc = "loop" /\ run'.delay = NextDelay(policy, run.delay)
      /\ outcome # "retryable" => run'.pc = "returned"
  BY <1>2, <1>3, CallKeeps
<1>5. NextDelay(policy, run.delay) = InitialDelay + run.attempt * DelayIncrease
  <2>1. CASE run.attempt = 0
    BY <1>1, <1>3, <2>1, PolicyIsLinear DEF RetrierOK, NextDelay
  <2>2. CASE run.attempt # 0
    <3>1. run.delay = InitialDelay + (run.attempt - 1) * DelayIncrease
      BY <1>1, <1>3, <2>2 DEF RetrierOK
    <3>2. (run.attempt - 1) * DelayIncrease + DelayIncrease = run.attempt * DelayIncrease
      BY <1>2, PolicyIsLinear
    <3>3. (run.attempt - 1) * DelayIncrease \in Nat
      BY <1>2, <2>2, PolicyIsLinear
    <3>4. run.delay # 0
      BY <3>1, <3>3, PolicyIsLinear
    <3>5. NextDelay(policy, run.delay) = run.delay + DelayIncrease
      BY <3>4, PolicyIsLinear DEF NextDelay
    <3> HIDE DEF NextDelay
    <3> QED
      BY <3>1, <3>2, <3>3, <3>5, PolicyIsLinear
  <2> QED
    BY <2>1, <2>2
<1>6. TypeOK'
  <2>1. unsure' \in Nat
    BY <1>2 DEF Ended
  <2>2. /\ responses' \subseteq Response(seq)
        /\ faults' \in 0 .. FaultLimit
    BY <1>1 DEF TypeOK, Ended
  <2> QED
    BY <1>1, <1>3, <1>4, <2>1, <2>2 DEF TypeOK
<1>7. RetrierOK'
  BY <1>3, <1>4 DEF RetrierOK, Outcome
<1>8. RetriesAreExact'
  <2>1. calls' <= policy.maxRetries + 1
    BY <1>2, <1>3, PolicyIsLinear
  <2>2. run'.pc = "loop" =>
          /\ calls' = run'.attempt + 1
          /\ run'.delay = policy.initialDelay + run'.attempt * policy.delayIncrease
    BY <1>3, <1>4, <1>5, PolicyIsLinear
  <2>3. ~ (run'.pc = "returned" /\ run'.err = "retryable")
    BY <1>4
  <2> QED
    BY <2>1, <2>2, <2>3 DEF RetriesAreExact, FollowsPolicy
<1>9. AccumOK' /\ Conserved'
  BY <1>3 DEF SenderInv, AccumOK, Conserved
<1> QED
  BY <1>6, <1>7, <1>8, <1>9 DEF SenderInv

(* The three ways a request ends: an answer, a transport error, a 504.     *)
LEMMA RequestEnds ==
  ASSUME SenderInv, (\E r \in responses : Receive(r)) \/ TransportError \/ GatewayTimeout
  PROVE  \E outcome \in Outcome : Ended(outcome)
<1>1. /\ faults \in 0 .. FaultLimit
      /\ accum.stagedDelta \in Nat /\ unsure \in Nat
      /\ \A r \in responses : r.code \in {200, 400, 500}
  BY DEF SenderInv, TypeOK, Response, MetricAccumulator
<1>2. \A fault : Happens(fault) => faults' \in 0 .. FaultLimit
  BY <1>1, DeliveryAssumption DEF Happens
<1>3. CASE TransportError
  <2>1. Ended("final")
    BY <1>2, <1>3 DEF TransportError, Ends, Ended
  <2> QED
    BY <2>1 DEF Outcome
<1>4. CASE GatewayTimeout
  <2>1. Ended("retryable")
    BY <1>2, <1>4 DEF GatewayTimeout, Ends, Ended, OfStatus
  <2> QED
    BY <2>1 DEF Outcome
<1>5. ASSUME NEW r \in responses, Receive(r)
      PROVE  \E outcome \in Outcome : Ended(outcome)
  <2>1. CASE Ends("retryable", FALSE) /\ Happens("cut")
    <3>1. Ended("retryable")
      BY <1>2, <1>5, <2>1 DEF Receive, Ends, Ended
    <3> QED
      BY <3>1 DEF Outcome
  <2>2. CASE Ends(OfStatus(r.code), Definite(r)) /\ UNCHANGED faults
    <3>1. CASE r.code = 200
      <4>1. Ended("nil")
        BY <1>1, <1>5, <2>2, <3>1 DEF Receive, Ends, Ended, OfStatus, Definite
      <4> QED
        BY <4>1 DEF Outcome
    <3>2. CASE r.code \in {400, 500}
      <4>1. Ended("final")
        <5>1. Definite(r) => Refuses(r)
          BY <3>2 DEF Definite, Refuses
        <5> QED
          BY <1>1, <1>5, <2>2, <3>2, <5>1 DEF Receive, Ends, Ended, OfStatus
      <4> QED
        BY <4>1 DEF Outcome
    <3> QED
      BY <1>1, <3>1, <3>2
  <2> QED
    BY <1>5, <2>1, <2>2 DEF Receive
<1> QED
  BY <1>3, <1>4, <1>5

(* The loop makes another attempt, or returns after the last one allowed.  *)
LEMMA RetryStep ==
  ASSUME SenderInv, Retry
  PROVE  SenderInv'
<1>1. TypeOK /\ RetrierOK /\ RetriesAreExact
  BY DEF SenderInv
<1>2. run \in Execution /\ run.attempt \in Nat /\ calls \in Nat /\ run.pc = "loop"
  BY <1>1 DEF TypeOK, Execution, Retry
<1>3. /\ ~ waiting /\ accum.isStaged /\ run.attempt <= MaxRetries
      /\ calls = run.attempt + 1 /\ calls <= MaxRetries + 1
      /\ run.delay = InitialDelay + run.attempt * DelayIncrease
  BY <1>1, <1>2, PolicyIsLinear DEF RetrierOK, RetriesAreExact, FollowsPolicy
<1>4. /\ run' = Loop(policy, run)
      /\ UNCHANGED <<accum, waiting, seq, requests, responses, stored, polled, acked,
                     reached, unsure, calls, faults>>
  BY DEF Retry
<1>5. /\ run' \in Execution /\ run'.delay = run.delay /\ run'.err = run.err
      /\ run.attempt < MaxRetries => run'.pc = "call" /\ run'.attempt = run.attempt + 1
      /\ ~ run.attempt < MaxRetries => run'.pc = "returned"
  BY <1>2, <1>4, LoopKeeps
<1>6. TypeOK'
  BY <1>1, <1>4, <1>5 DEF TypeOK
<1>7. AccumOK' /\ Conserved'
  BY <1>4 DEF SenderInv, AccumOK, Conserved
<1>8. CASE run.attempt < MaxRetries
  <2>1. run'.attempt # 0 /\ run'.attempt - 1 = run.attempt /\ run'.attempt <= MaxRetries
    BY <1>2, <1>5, <1>8, PolicyIsLinear
  <2>2. RetrierOK' /\ RetriesAreExact'
    BY <1>3, <1>4, <1>5, <1>8, <2>1, PolicyIsLinear
    DEF RetrierOK, RetriesAreExact, FollowsPolicy
  <2> QED
    BY <1>6, <1>7, <2>2 DEF SenderInv
<1>9. CASE ~ run.attempt < MaxRetries
  <2>1. calls' = MaxRetries + 1
    BY <1>2, <1>3, <1>4, <1>9, PolicyIsLinear
  <2>2. RetrierOK' /\ RetriesAreExact'
    BY <1>3, <1>4, <1>5, <1>9, <2>1, PolicyIsLinear
    DEF RetrierOK, RetriesAreExact, FollowsPolicy
  <2> QED
    BY <1>6, <1>7, <2>2 DEF SenderInv
<1> QED
  BY <1>8, <1>9

(* The agent commits or rolls back what the sender returned.               *)
LEMMA ResolveStep ==
  ASSUME SenderInv, Commit \/ Rollback
  PROVE  /\ SenderInv'
         /\ ~ accum'.isStaged /\ accum'.stagedDelta = 0
<1>1. TypeOK /\ AccumOK
  BY DEF SenderInv
<1>2. /\ accum.isStaged /\ run.pc = "returned" /\ ~ waiting
      /\ UNCHANGED <<run, waiting, seq, requests, responses, stored, polled, reached,
                     unsure, calls, faults>>
  BY DEF Commit, Rollback, Returned, Idle, SenderInv, RetrierOK, TypeOK
<1>3. PendingDelta(accum) \in Nat /\ accum.stagedDelta \in Nat /\ acked \in Nat
  BY <1>1 DEF TypeOK, MetricAccumulator, PendingDelta
<1>4. /\ accum' \in MetricAccumulator /\ AccumOK'
      /\ ~ accum'.isStaged /\ accum'.stagedDelta = 0
      /\ acked' \in Nat /\ Conserved'
  <2>1. CASE Commit
    <3>1. /\ accum' \in MetricAccumulator /\ AccumOK'
          /\ ~ accum'.isStaged /\ accum'.stagedDelta = 0
          /\ PendingDelta(accum') = PendingDelta(accum)
      BY <1>1, <1>2, <2>1, CommitCounter DEF Commit, TypeOK, AccumOK
    <3> QED
      BY <1>3, <2>1, <3>1 DEF SenderInv, Conserved, Commit
  <2>2. CASE Rollback
    <3>1. /\ accum' \in MetricAccumulator /\ AccumOK'
          /\ ~ accum'.isStaged /\ accum'.stagedDelta = 0
          /\ PendingDelta(accum') = accum.stagedDelta + PendingDelta(accum)
      <4>1. accum \in MetricAccumulator /\ CounterOK(accum)
        BY <1>1 DEF TypeOK, AccumOK
      <4>2. accum' = RollbackStaged(accum)
        BY <2>2 DEF Rollback
      <4>3. /\ accum' \in MetricAccumulator /\ CounterOK(accum')
            /\ ~ accum'.isStaged /\ accum'.stagedDelta = 0
            /\ PendingDelta(accum') = accum.stagedDelta + PendingDelta(accum)
        BY <1>2, <4>1, <4>2, RollbackCounter
      <4> QED
        BY <1>1, <4>3 DEF AccumOK
    <3>2. UNCHANGED <<acked, polled>>
      BY <2>2 DEF Rollback
    <3>3. polled = acked + accum.stagedDelta + PendingDelta(accum)
      BY DEF SenderInv, Conserved
    <3>4. polled' = acked' + accum'.stagedDelta + PendingDelta(accum')
      BY <1>3, <3>1, <3>2, <3>3
    <3> QED
      BY <1>3, <3>1, <3>2, <3>4 DEF Conserved
  <2> QED
    BY <2>1, <2>2
<1>5. TypeOK'
  BY <1>1, <1>2, <1>4 DEF TypeOK
<1>6. RetrierOK' /\ RetriesAreExact'
  BY <1>2 DEF SenderInv, RetrierOK, RetriesAreExact, FollowsPolicy
<1> QED
  BY <1>4, <1>5, <1>6 DEF SenderInv

(* A request is handled with an answer: applied, which is answered with a  *)
(* failure known to the server only after ErrStore, or not applied, which  *)
(* is answered 200 only by a batch whose storage failed.                   *)
Handled(r, status, effect) ==
  /\ requests' = requests \ {r}
  /\ responses' = IF Awaited(r)
                    THEN {[seq |-> r.seq, code |-> status, effect |-> effect]}
                    ELSE responses
  /\ UNCHANGED <<accum, run, waiting, seq, polled, acked, unsure, calls>>
  /\ faults' \in 0 .. FaultLimit
  /\ \/ /\ status # 200 /\ effect = "known" => ~ BatchMode /\ "store_error" \in Faults
        /\ stored' = stored + r.delta
        /\ reached' = IF r.last > reached THEN r.last ELSE reached
     \/ /\ effect = "known"
        /\ status = 200 => BatchMode /\ "no_effect" \in Faults
        /\ UNCHANGED <<stored, reached>>

(* The four ways the server handles a request are of this kind.            *)
LEMMA ServerHandles ==
  ASSUME SenderInv, NEW r \in requests, ServerNext(r)
  PROVE  \E status \in {200, 400, 500}, effect \in {"known", "unknown"} :
           Handled(r, status, effect)
<1>1. faults \in 0 .. FaultLimit
  BY DEF SenderInv, TypeOK
<1>2. \A fault : Happens(fault) => faults' \in 0 .. FaultLimit /\ fault \in Faults
  BY <1>1, DeliveryAssumption DEF Happens
<1>3. StorageErrorCode \in {200, 500} /\ (StorageErrorCode = 200 <=> BatchMode)
  BY DEF StorageErrorCode
<1>4. CASE Update(r)
  <2>1. Handled(r, 200, "known")
    BY <1>1, <1>4 DEF Update, Handle, Handled, Awaited
  <2> QED
    BY <2>1
<1>5. CASE Refuse(r)
  <2>1. Handled(r, 400, "known")
    BY <1>2, <1>5 DEF Refuse, Handle, Handled, Awaited
  <2> QED
    BY <2>1
<1>6. CASE FailBefore(r)
  <2>1. Handled(r, StorageErrorCode, "known")
    BY <1>2, <1>3, <1>6 DEF FailBefore, Handle, Handled, Awaited
  <2> QED
    BY <1>3, <2>1
<1>7. CASE FailAfter(r)
  <2>1. PICK fault \in {"lost_commit", "store_error"} :
          /\ Happens(fault)
          /\ Handle(r, TRUE, StorageErrorCode,
                    IF fault = "lost_commit" THEN "unknown" ELSE "known")
    BY <1>7 DEF FailAfter
  <2>2. CASE fault = "lost_commit"
    <3>1. Handled(r, StorageErrorCode, "unknown")
      BY <1>2, <1>3, <2>1, <2>2 DEF Handle, Handled, Awaited
    <3> QED
      BY <1>3, <3>1
  <2>3. CASE fault = "store_error"
    <3>1. Handled(r, StorageErrorCode, "known")
      BY <1>2, <1>3, <2>1, <2>3 DEF Handle, Handled, Awaited
    <3> QED
      BY <1>3, <3>1
  <2> QED
    BY <2>2, <2>3
<1> QED
  BY <1>4, <1>5, <1>6, <1>7 DEF ServerNext

LEMMA HandleStep ==
  ASSUME SenderInv, NEW r \in requests, NEW status \in {200, 400, 500},
         NEW effect \in {"known", "unknown"}, Handled(r, status, effect)
  PROVE  SenderInv'
<1>1. TypeOK
  BY DEF SenderInv
<1>2. r \in [seq : 1 .. seq, delta : Nat, last : Nat]
  BY <1>1 DEF TypeOK
<1>3. stored' \in Nat /\ reached' \in Nat
  BY <1>1, <1>2 DEF Handled, Awaited, TypeOK
<1>4. responses' \subseteq Response(seq)
  BY <1>1, <1>2 DEF Handled, Awaited, TypeOK, Response
<1>5. TypeOK'
  BY <1>1, <1>3, <1>4 DEF Handled, Awaited, TypeOK
<1>6. AccumOK' /\ Conserved' /\ RetrierOK' /\ RetriesAreExact'
  BY DEF SenderInv, AccumOK, Conserved, RetrierOK, RetriesAreExact, FollowsPolicy, Handled
<1> QED
  BY <1>5, <1>6 DEF SenderInv

(* Every step keeps the sender's invariant.                                *)
LEMMA SenderKeeps == SenderInv /\ [Next]_vars => SenderInv'
<1> SUFFICES ASSUME SenderInv, [Next]_vars PROVE SenderInv'
  OBVIOUS
<1>1. CASE UNCHANGED vars
  BY <1>1 DEF vars, SenderInv, TypeOK, AccumOK, Conserved, RetrierOK, RetriesAreExact,
              FollowsPolicy
<1>2. CASE (\E r \in responses : Receive(r)) \/ TransportError \/ GatewayTimeout
  BY <1>2, RequestEnds, EndsStep
<1>3. ASSUME NEW r \in requests, ServerNext(r)
      PROVE  SenderInv'
  BY <1>3, ServerHandles, HandleStep
<1> QED
  BY <1>1, <1>2, <1>3, PollStep, StageStep, DoStep, RetryStep, ResolveStep
  DEF Next, ReporterNext, Terminated

-----------------------------------------------------------------------------
(* What is committed has reached the storage, where a request that the     *)
(* storage did not apply is not answered with 200.  updateBatch answers so *)
(* when the database fails.                                                *)
FailuresAreReported == ~ BatchMode \/ "no_effect" \notin Faults

(* The request whose answer is awaited carries what is staged.             *)
AwaitedOK ==
  waiting => \A r \in requests : r.seq = seq =>
               /\ r.delta = accum.stagedDelta
               /\ r.last = acked + accum.stagedDelta

(* An answer that the agent will take for a success, and one it has taken. *)
SuccessOK ==
  /\ waiting => \A r \in responses :
                  r.seq = seq /\ r.code = 200 => acked + accum.stagedDelta <= reached
  /\ Returned({"nil"}) => acked + accum.stagedDelta <= reached

StoredInv == AwaitedOK /\ (FailuresAreReported => SuccessOK /\ CommittedIsStored)

(* The initial state.                                                      *)
LEMMA StoredInit == Init => StoredInv
<1> SUFFICES ASSUME Init PROVE StoredInv
  OBVIOUS
<1>1. accum.isStaged = FALSE
  BY DEF Init, NewMetricAccumulator
<1> QED
  BY <1>1 DEF Init, StoredInv, AwaitedOK, SuccessOK, CommittedIsStored, Returned, Idle

(* Every step keeps it, beside the sender's invariant.                     *)
LEMMA StoredKeeps ==
  ASSUME SenderInv, StoredInv, [Next]_vars
  PROVE  StoredInv'
<1> USE DEF StoredInv, CommittedIsStored
<1>1. /\ acked \in Nat /\ reached \in Nat /\ seq \in Nat /\ accum.stagedDelta \in Nat
      /\ \A r \in requests : r.seq \in 1 .. seq /\ r.delta \in Nat /\ r.last \in Nat
      /\ \A r \in responses : r.seq \in 1 .. seq
      /\ waiting \in BOOLEAN
  BY DEF SenderInv, TypeOK, Response, MetricAccumulator
<1>2. CASE UNCHANGED vars
  BY <1>2 DEF vars, AwaitedOK, SuccessOK, Returned, Idle
<1>3. CASE Poll
  <2>1. /\ accum'.isStaged = accum.isStaged /\ accum'.stagedDelta = accum.stagedDelta
        /\ UNCHANGED <<run, waiting, seq, requests, responses, acked, reached>>
    BY <1>3, PollStep DEF Poll
  <2> QED
    BY <2>1 DEF AwaitedOK, SuccessOK, Returned, Idle
<1>4. CASE Stage
  <2>1. /\ run'.pc = "call" /\ waiting' = FALSE /\ UNCHANGED <<acked, reached>>
    BY <1>1, <1>4, StageStep DEF Stage, SenderInv, RetrierOK, Idle
  <2> QED
    BY <2>1 DEF AwaitedOK, SuccessOK, Returned
<1>5. CASE Do
  <2>1. /\ run'.pc = "call" /\ seq' = seq + 1 /\ UNCHANGED <<accum, acked, reached, responses>>
        /\ requests' = requests \cup
             {[seq |-> seq + 1, delta |-> accum.stagedDelta,
               last |-> acked + accum.stagedDelta]}
    BY <1>5 DEF Do
  <2>2. \A r \in requests \cup responses : r.seq # seq'
    BY <1>1, <2>1
  <2>3. AwaitedOK'
    BY <2>1, <2>2 DEF AwaitedOK
  <2>4. FailuresAreReported => SuccessOK' /\ CommittedIsStored'
    BY <2>1, <2>2 DEF SuccessOK, Returned
  <2> QED
    BY <2>3, <2>4 DEF FailuresAreReported
<1>6. CASE (\E r \in responses : Receive(r)) \/ TransportError \/ GatewayTimeout
  <2>1. PICK outcome \in Outcome : Ended(outcome)
    BY <1>6, RequestEnds
  <2>2. run'.err = outcome
    BY <2>1, CallKeeps DEF SenderInv, TypeOK, Ended
  <2>3. /\ waiting /\ waiting' = FALSE /\ UNCHANGED <<accum, acked, reached>>
        /\ outcome = "nil" => \E r \in responses : r.seq = seq /\ r.code = 200
    BY <2>1 DEF Ended
  <2>4. FailuresAreReported => SuccessOK' /\ CommittedIsStored'
    BY <2>2, <2>3 DEF SuccessOK, Returned
  <2> QED
    BY <2>3, <2>4 DEF AwaitedOK, FailuresAreReported
<1>7. CASE Retry
  <2>1. /\ run'.err = "retryable" /\ waiting = FALSE
        /\ UNCHANGED <<waiting, acked, reached>>
    BY <1>1, <1>7, LoopKeeps DEF Retry, SenderInv, TypeOK, RetrierOK
  <2> QED
    BY <2>1 DEF AwaitedOK, SuccessOK, Returned
<1>8. CASE Commit
  <2>1. /\ accum'.isStaged = FALSE /\ waiting' = FALSE
        /\ acked' = acked + accum.stagedDelta /\ reached' = reached
        /\ Returned({"nil"})
    BY <1>1, <1>8, ResolveStep DEF Commit, Returned, SenderInv, RetrierOK, TypeOK,
                                   MetricAccumulator
  <2> QED
    BY <2>1 DEF AwaitedOK, SuccessOK, Returned, Idle
<1>9. CASE Rollback
  <2>1. /\ accum'.isStaged = FALSE /\ waiting' = FALSE
        /\ acked' = acked /\ reached' = reached
    BY <1>1, <1>9, ResolveStep DEF Rollback, Returned, SenderInv, RetrierOK, TypeOK,
                                   MetricAccumulator
  <2> QED
    BY <2>1 DEF AwaitedOK, SuccessOK, Returned, Idle
<1>10. ASSUME NEW r \in requests, ServerNext(r)
       PROVE  StoredInv'
  <2>1. PICK status \in {200, 400, 500}, effect \in {"known", "unknown"} :
          Handled(r, status, effect)
    BY <1>10, ServerHandles
  <2>2. /\ UNCHANGED <<accum, run, waiting, seq, acked>>
        /\ requests' \subseteq requests
        /\ responses' = IF Awaited(r)
                          THEN {[seq |-> r.seq, code |-> status, effect |-> effect]}
                          ELSE responses
        /\ reached' \in Nat /\ reached <= reached'
    BY <1>1, <2>1 DEF Handled
  <2>3. FailuresAreReported /\ status = 200 => r.last <= reached'
    BY <1>1, <2>1 DEF Handled, FailuresAreReported
  <2>4. AwaitedOK'
    BY <2>2 DEF AwaitedOK
  <2>5. ASSUME FailuresAreReported
        PROVE  SuccessOK' /\ CommittedIsStored'
    <3>1. CommittedIsStored'
      BY <1>1, <2>2, <2>5
    <3>2. Returned({"nil"})' => (acked + accum.stagedDelta <= reached)'
      BY <1>1, <2>2, <2>5 DEF SuccessOK, Returned, Idle
    <3>3. ASSUME waiting', NEW s \in responses', s.seq = seq', s.code = 200
          PROVE  (acked + accum.stagedDelta <= reached)'
      <4>1. CASE Awaited(r)
        <5>1. s.code = status /\ r.seq = seq /\ waiting
          BY <2>2, <3>3, <4>1 DEF Awaited
        <5> QED
          BY <2>2, <2>3, <2>5, <3>3, <5>1 DEF AwaitedOK
      <4>2. CASE ~ Awaited(r)
        BY <1>1, <2>2, <2>5, <3>3, <4>2 DEF SuccessOK
      <4> QED
        BY <4>1, <4>2
    <3> QED
      BY <3>1, <3>2, <3>3 DEF SuccessOK
  <2> QED
    BY <2>4, <2>5 DEF FailuresAreReported
<1> QED
  BY <1>2, <1>3, <1>4, <1>5, <1>6, <1>7, <1>8, <1>9, <1>10
  DEF Next, ReporterNext, Terminated

-----------------------------------------------------------------------------
(* ErrStore is answered 500 although the memory has the update, except for *)
(* a batch.  The count below is that of a server that does not do so.      *)
StoreErrorsHaveNoImpact == BatchMode \/ "store_error" \notin Faults

(* How often increments are counted.  Requests that the agent gave up stay *)
(* under way, any number of them, and may still be applied, so the bound   *)
(* has to cover the sum of what they carry.  The sum is stated by its      *)
(* partial sums: upTo[n] bounds what the requests under way up to number n *)
(* carry.                                                                  *)
UniqueSeq == \A r, s \in requests : r.seq = s.seq => r = s

Covers(upTo) ==
  /\ \A m, n \in 0 .. seq : m <= n => upTo[m] <= upTo[n]
  /\ \A r \in requests : upTo[r.seq - 1] + r.delta <= upTo[r.seq]

(* What is staged and neither under way nor counted: it waits for another  *)
(* attempt or for the rollback, or its request was refused.                *)
Refused == \E r \in responses : r.seq = seq /\ Refuses(r)

ToBeSent ==
  IF Returned({"nil"}) \/ (waiting /\ ~ Refused) THEN 0 ELSE accum.stagedDelta

Bounded(sum) == stored + sum + ToBeSent <= acked + accum.stagedDelta + unsure

CountedInv ==
  /\ UniqueSeq
  /\ \E upTo \in [0 .. seq -> Nat] : Covers(upTo) /\ Bounded(upTo[seq])

(* The numbers the argument is about.                                      *)
LEMMA Amounts ==
  ASSUME SenderInv
  PROVE  /\ stored \in Nat /\ acked \in Nat /\ unsure \in Nat /\ seq \in Nat
         /\ accum.stagedDelta \in Nat /\ PendingDelta(accum) \in Nat
         /\ ToBeSent \in Nat /\ waiting \in BOOLEAN
         /\ \A r \in requests : r.seq \in 1 .. seq /\ r.delta \in Nat
         /\ \A r \in responses : r.seq \in 1 .. seq
BY DEF SenderInv, TypeOK, Response, MetricAccumulator, PendingDelta, ToBeSent

(* The initial state.                                                      *)
LEMMA CountedInit == Init => CountedInv
<1> SUFFICES ASSUME Init PROVE CountedInv
  OBVIOUS
<1>1. accum.stagedDelta = 0
  BY DEF Init, NewMetricAccumulator
<1>2. UniqueSeq
  BY DEF Init, UniqueSeq
<1> DEFINE zero == [n \in 0 .. seq |-> 0]
<1>3. zero \in [0 .. seq -> Nat] /\ zero[seq] = 0 /\ Covers(zero)
  BY DEF Init, Covers
<1>4. Bounded(zero[seq])
  BY <1>1, <1>3 DEF Init, Bounded, ToBeSent
<1> QED
  BY <1>2, <1>3, <1>4 DEF CountedInv

(* A step that leaves the requests alone keeps the partial sums.           *)
LEMMA SameRequests ==
  ASSUME CountedInv, seq \in Nat, UNCHANGED <<seq, requests>>,
         \A sum \in Nat : Bounded(sum) => Bounded(sum)'
  PROVE  CountedInv'
<1>1. PICK upTo \in [0 .. seq -> Nat] : Covers(upTo) /\ Bounded(upTo[seq])
  BY DEF CountedInv
<1>2. upTo \in [0 .. seq' -> Nat] /\ Covers(upTo)' /\ UniqueSeq'
  BY <1>1 DEF Covers, CountedInv, UniqueSeq
<1>3. PICK sum \in Nat : sum = upTo[seq]
  <2>1. seq \in 0 .. seq
    OBVIOUS
  <2> QED
    BY <1>1, <2>1
<1>4. Bounded(sum)'
  BY <1>1, <1>3
<1>5. Bounded(upTo[seq])'
  BY <1>3, <1>4 DEF Bounded
<1> QED
  BY <1>2, <1>5 DEF CountedInv

(* Partial sums: one more is added at the end, or one is taken out.        *)
Ascending(N, f) == \A m, n \in 0 .. N : m <= n => f[m] <= f[n]

LEMMA PartialSumsExtend ==
  ASSUME NEW N \in Nat, NEW f \in [0 .. N -> Nat], Ascending(N, f), NEW d \in Nat
  PROVE  \E g \in [0 .. N + 1 -> Nat] :
           /\ Ascending(N + 1, g)
           /\ \A n \in 0 .. N : g[n] = f[n]
           /\ g[N + 1] = f[N] + d
<1> DEFINE g == [n \in 0 .. N + 1 |-> IF n <= N THEN f[n] ELSE f[N] + d]
<1>1. N \in 0 .. N /\ f[N] \in Nat
  OBVIOUS
<1>2. /\ g \in [0 .. N + 1 -> Nat]
      /\ \A n \in 0 .. N : g[n] = f[n]
      /\ g[N + 1] = f[N] + d
  BY <1>1
<1> HIDE DEF g
<1>3. ASSUME NEW m \in 0 .. N + 1, NEW n \in 0 .. N + 1, m <= n
      PROVE  g[m] <= g[n]
  <2>1. CASE n \in 0 .. N
    <3>1. m \in 0 .. N
      BY <1>3, <2>1
    <3> QED
      BY <1>2, <1>3, <2>1, <3>1 DEF Ascending
  <2>2. CASE n = N + 1 /\ m \in 0 .. N
    <3>1. f[m] <= f[N] /\ f[m] \in Nat
      BY <1>1, <2>2 DEF Ascending
    <3> QED
      BY <1>1, <1>2, <2>2, <3>1
  <2>3. CASE n = N + 1 /\ m = N + 1
    BY <1>1, <1>2, <2>3
  <2> QED
    BY <1>3, <2>1, <2>2, <2>3
<1> QED
  BY <1>2, <1>3 DEF Ascending

(* g has the partial sums of f without the amount d at place k.            *)
Drops(N, f, k, d, g) ==
  /\ Ascending(N, g)
  /\ g[N] = f[N] - d
  /\ \A j \in 1 .. N, e \in Nat :
       j # k /\ f[j - 1] + e <= f[j] => g[j - 1] + e <= g[j]

LEMMA PartialSumsDrop ==
  ASSUME NEW N \in Nat, NEW f \in [0 .. N -> Nat], Ascending(N, f),
         NEW k \in 1 .. N, NEW d \in Nat, f[k - 1] + d <= f[k]
  PROVE  \E g \in [0 .. N -> Nat] : Drops(N, f, k, d, g)
<1>1. /\ k \in 0 .. N /\ k - 1 \in 0 .. N /\ N \in 0 .. N
      /\ \A n \in 0 .. N : f[n] \in Nat
  OBVIOUS
<1>2. \A n \in 0 .. N : k <= n => f[n] - d \in Nat
  <2> TAKE n \in 0 .. N
  <2> HAVE k <= n
  <2>1. f[k] <= f[n]
    BY <1>1 DEF Ascending
  <2>2. f[k] \in Nat /\ f[n] \in Nat /\ f[k - 1] \in Nat
    BY <1>1
  <2> QED
    BY <2>1, <2>2
<1> DEFINE g == [n \in 0 .. N |-> IF n < k THEN f[n] ELSE f[n] - d]
<1>3. /\ g \in [0 .. N -> Nat]
      /\ \A n \in 0 .. N : n < k => g[n] = f[n]
      /\ \A n \in 0 .. N : k <= n => g[n] = f[n] - d
  <2>1. \A n \in 0 .. N : n < k \/ k <= n
    BY <1>1
  <2> QED
    BY <1>1, <1>2, <2>1
<1> HIDE DEF g
<1>4. ASSUME NEW m \in 0 .. N, NEW n \in 0 .. N, m <= n
      PROVE  g[m] <= g[n]
  <2>1. f[m] <= f[n] /\ f[m] \in Nat /\ f[n] \in Nat
    BY <1>1, <1>4 DEF Ascending
  <2>2. CASE n < k
    <3>1. m < k
      BY <1>4, <2>2
    <3>2. g[m] = f[m] /\ g[n] = f[n]
      BY <1>3, <2>2, <3>1
    <3> QED
      BY <2>1, <3>2
  <2>3. CASE k <= m
    <3>1. k <= n
      BY <1>4, <2>3
    <3>2. g[m] = f[m] - d /\ g[n] = f[n] - d
      BY <1>3, <2>3, <3>1
    <3> QED
      BY <2>1, <3>2
  <2>4. CASE m < k /\ k <= n
    <3>1. m <= k - 1
      BY <2>4
    <3>2. f[m] <= f[k - 1] /\ f[k] <= f[n] /\ f[k - 1] \in Nat /\ f[k] \in Nat
      BY <1>1, <2>4, <3>1 DEF Ascending
    <3>3. g[m] = f[m] /\ g[n] = f[n] - d
      BY <1>3, <2>4
    <3> QED
      BY <2>1, <3>2, <3>3
  <2> QED
    BY <2>2, <2>3, <2>4
<1>5. ASSUME NEW j \in 1 .. N, NEW e \in Nat, j # k, f[j - 1] + e <= f[j]
      PROVE  g[j - 1] + e <= g[j]
  <2>1. j \in 0 .. N /\ j - 1 \in 0 .. N
    OBVIOUS
  <2>2. f[j] \in Nat /\ f[j - 1] \in Nat
    BY <1>1, <2>1
  <2>3. CASE j < k
    <3>1. j - 1 < k
      BY <2>3
    <3>2. g[j - 1] = f[j - 1] /\ g[j] = f[j]
      BY <1>3, <2>1, <2>3, <3>1
    <3> QED
      BY <1>5, <3>2
  <2>4. CASE k < j
    <3>1. k <= j - 1 /\ k <= j
      BY <2>4
    <3>2. g[j - 1] = f[j - 1] - d /\ g[j] = f[j] - d
      BY <1>3, <2>1, <3>1
    <3> QED
      BY <1>5, <2>2, <3>2
  <2> QED
    BY <1>5, <2>3, <2>4
<1>6. g[N] = f[N] - d
  BY <1>1, <1>3
<1>7. Drops(N, f, k, d, g)
  BY <1>4, <1>5, <1>6 DEF Drops, Ascending
<1> QED
  BY <1>3, <1>7

(* A request is made: the partial sums get one more.                       *)
LEMMA CountedDo ==
  ASSUME SenderInv, CountedInv, Do
  PROVE  CountedInv'
<1>1. PICK D \in Nat : D = accum.stagedDelta
  BY Amounts
<1>2. /\ stored \in Nat /\ acked \in Nat /\ unsure \in Nat /\ seq \in Nat
      /\ \A r \in requests : r.seq \in 1 .. seq
      /\ \A r \in responses : r.seq \in 1 .. seq
  BY Amounts
<1>3. /\ seq' = seq + 1 /\ waiting' = TRUE /\ waiting = FALSE /\ run.pc = "call"
      /\ requests' = requests \cup {[seq |-> seq + 1, delta |-> D, last |-> acked + D]}
      /\ UNCHANGED <<accum, run, responses, stored, acked, unsure>>
  BY <1>1, Amounts DEF Do
<1>4. PICK upTo \in [0 .. seq -> Nat] : Covers(upTo) /\ Bounded(upTo[seq])
  BY DEF CountedInv
<1>5. seq \in 0 .. seq /\ upTo[seq] \in Nat /\ Ascending(seq, upTo)
  BY <1>2, <1>4 DEF Covers, Ascending
<1>6. PICK more \in [0 .. seq + 1 -> Nat] :
        /\ Ascending(seq + 1, more)
        /\ \A n \in 0 .. seq : more[n] = upTo[n]
        /\ more[seq + 1] = upTo[seq] + D
  BY <1>2, <1>5, PartialSumsExtend
<1>7. ASSUME NEW r \in requests'
      PROVE  more[r.seq - 1] + r.delta <= more[r.seq]
  <2>1. CASE r \in requests
    <3>1. r.seq - 1 \in 0 .. seq /\ r.seq \in 0 .. seq
      BY <1>2, <2>1
    <3> QED
      BY <1>4, <1>6, <2>1, <3>1 DEF Covers
  <2>2. CASE r.seq = seq + 1 /\ r.delta = D
    <3>1. r.seq - 1 = seq /\ more[seq] = upTo[seq]
      BY <1>2, <1>5, <1>6, <2>2
    <3> QED
      BY <1>5, <1>6, <2>2, <3>1
  <2> QED
    BY <1>3, <2>1, <2>2
<1>8. Covers(more)'
  BY <1>3, <1>6, <1>7 DEF Covers, Ascending
<1>9. UniqueSeq'
  <2>1. \A r \in requests : r.seq # seq + 1
    BY <1>2
  <2> QED
    BY <1>3, <2>1 DEF CountedInv, UniqueSeq
<1>10. Bounded(more[seq])'
  <2>1. ToBeSent = D
    BY <1>1, <1>3 DEF ToBeSent, Returned
  <2>2. ToBeSent' = 0
    <3>1. ~ Refused'
      BY <1>2, <1>3 DEF Refused
    <3> QED
      BY <1>3, <3>1 DEF ToBeSent
  <2>3. stored + upTo[seq] + D <= acked + D + unsure
    BY <1>1, <1>4, <2>1 DEF Bounded
  <2>4. stored + more[seq + 1] + 0 <= acked + D + unsure
    BY <1>2, <1>5, <1>6, <2>3
  <2> QED
    BY <1>1, <1>3, <2>2, <2>4 DEF Bounded
<1> QED
  BY <1>3, <1>6, <1>8, <1>9, <1>10 DEF CountedInv

(* A request is handled: what it carries leaves the partial sums, to the   *)
(* storage or, if it was refused, to what has to be sent again.            *)
LEMMA CountedHandle ==
  ASSUME SenderInv, AwaitedOK, CountedInv, NEW r \in requests,
         NEW status \in {200, 400, 500}, NEW effect \in {"known", "unknown"},
         Handled(r, status, effect), StoreErrorsHaveNoImpact
  PROVE  CountedInv'
<1>1. PICK staged \in Nat, d \in Nat, k \in Nat :
        staged = accum.stagedDelta /\ d = r.delta /\ k = r.seq
  BY Amounts
<1>2. /\ stored \in Nat /\ acked \in Nat /\ unsure \in Nat /\ seq \in Nat
      /\ \A q \in requests : q.seq \in 1 .. seq /\ q.delta \in Nat
      /\ waiting \in BOOLEAN /\ ToBeSent \in Nat
  BY Amounts
<1>3. /\ requests' = requests \ {r}
      /\ responses' = IF Awaited(r)
                        THEN {[seq |-> r.seq, code |-> status, effect |-> effect]}
                        ELSE responses
      /\ UNCHANGED <<accum, run, waiting, seq, acked, unsure>>
      /\ \/ stored' = stored + d /\ (status = 200 \/ effect # "known")
         \/ stored' = stored
  BY <1>1 DEF Handled, StoreErrorsHaveNoImpact
<1>4. PICK upTo \in [0 .. seq -> Nat] : Covers(upTo) /\ Bounded(upTo[seq])
  BY DEF CountedInv
<1>5. /\ seq \in 0 .. seq /\ upTo[seq] \in Nat /\ Ascending(seq, upTo)
      /\ upTo[k - 1] + d <= upTo[k]
  BY <1>1, <1>2, <1>4 DEF Covers, Ascending
<1>6. PICK less \in [0 .. seq -> Nat] : Drops(seq, upTo, k, d, less)
  <2>1. seq \in Nat /\ Ascending(seq, upTo) /\ upTo[k - 1] + d <= upTo[k] /\ k \in 1 .. seq
    BY <1>1, <1>2, <1>5
  <2> QED
    BY <2>1, PartialSumsDrop
<1>7. ASSUME NEW q \in requests'
      PROVE  less[q.seq - 1] + q.delta <= less[q.seq]
  <2>1. q \in requests /\ q.seq # k
    BY <1>1, <1>3 DEF CountedInv, UniqueSeq
  <2>2. q.seq \in 1 .. seq /\ q.delta \in Nat /\ upTo[q.seq - 1] + q.delta <= upTo[q.seq]
    BY <1>2, <1>4, <2>1 DEF Covers
  <2> QED
    BY <1>1, <1>6, <2>1, <2>2 DEF Drops
<1>8. Covers(less)'
  BY <1>3, <1>6, <1>7 DEF Covers, Ascending, Drops
<1>9. UniqueSeq'
  BY <1>3 DEF CountedInv, UniqueSeq
<1>10. /\ stored' + ToBeSent' <= stored + d + ToBeSent
       /\ stored' \in Nat /\ ToBeSent' \in Nat
  <2>1. PICK again \in Nat : again = ToBeSent' /\ again <= staged
    <3>1. ToBeSent' = 0 \/ ToBeSent' = staged
      BY <1>1, <1>3 DEF ToBeSent
    <3> QED
      BY <3>1, <1>2
  <2>2. CASE ~ Awaited(r)
    <3>1. ToBeSent' = ToBeSent
      BY <1>3, <2>2 DEF ToBeSent, Refused, Returned, Idle
    <3> QED
      BY <1>2, <1>3, <3>1
  <2>3. CASE Awaited(r) /\ status # 200 /\ effect = "known"
    <3>1. stored' = stored /\ d = staged
      BY <1>1, <1>3, <2>3 DEF Awaited, AwaitedOK
    <3>2. ToBeSent \in Nat /\ stored \in Nat /\ seq \in Nat
      BY <1>2
    <3>3. again \in Nat /\ again <= d
      BY <2>1, <3>1
    <3>4. stored + again <= stored + d + ToBeSent
      BY <1>2, <3>2, <3>3
    <3> QED
      BY <2>1, <3>1, <3>2, <3>4
  <2>4. CASE Awaited(r) /\ ~ (status # 200 /\ effect = "known")
    <3>1. ~ Refused'
      BY <1>3, <2>4 DEF Refused, Refuses
    <3>2. ToBeSent' = 0
      BY <1>3, <2>4, <3>1 DEF ToBeSent, Awaited
    <3> QED
      BY <1>2, <1>3, <3>2
  <2> QED
    BY <2>2, <2>3, <2>4
<1>11. Bounded(less[seq])'
  <2>1. stored + upTo[seq] + ToBeSent <= acked + staged + unsure
    BY <1>1, <1>4 DEF Bounded
  <2>2. stored' + less[seq] + ToBeSent' <= acked + staged + unsure
    <3>1. /\ stored \in Nat /\ acked \in Nat /\ unsure \in Nat /\ ToBeSent \in Nat
          /\ seq \in Nat /\ upTo[seq] \in Nat /\ less[seq] = upTo[seq] - d
      BY <1>2, <1>5, <1>6 DEF Drops
    <3>2. PICK kept \in Nat, again \in Nat : kept = stored' /\ again = ToBeSent'
      BY <1>10
    <3>3. kept + again <= stored + d + ToBeSent
      BY <1>10, <3>2
    <3>4. kept + less[seq] + again <= acked + staged + unsure
      BY <2>1, <3>1, <3>3
    <3> QED
      BY <3>2, <3>4
  <2> QED
    BY <1>1, <1>3, <2>2 DEF Bounded
<1> QED
  BY <1>3, <1>6, <1>8, <1>9, <1>11 DEF CountedInv

(* Every step keeps the count, beside the invariants before it.            *)
LEMMA CountedKeeps ==
  ASSUME SenderInv, StoredInv, CountedInv, [Next]_vars, StoreErrorsHaveNoImpact
  PROVE  CountedInv'
<1>1. /\ stored \in Nat /\ acked \in Nat /\ unsure \in Nat /\ seq \in Nat
      /\ waiting \in BOOLEAN
  BY Amounts
<1>2. PICK staged \in Nat : staged = accum.stagedDelta
  BY Amounts
<1>3. CASE UNCHANGED vars
  <2>1. \A sum \in Nat : Bounded(sum) => Bounded(sum)'
    BY <1>3 DEF vars, Bounded, ToBeSent, Refused, Returned, Idle
  <2> QED
    BY <1>1, <1>3, <2>1, SameRequests DEF vars
<1>4. CASE Poll
  <2>1. /\ accum'.isStaged = accum.isStaged /\ accum'.stagedDelta = accum.stagedDelta
        /\ UNCHANGED <<run, waiting, seq, requests, responses, stored, acked, unsure>>
    BY <1>4, PollStep DEF Poll
  <2>2. \A sum \in Nat : Bounded(sum) => Bounded(sum)'
    BY <2>1 DEF Bounded, ToBeSent, Refused, Returned, Idle
  <2> QED
    BY <1>1, <2>1, <2>2, SameRequests
<1>5. CASE Stage
  <2>1. /\ run'.pc = "call" /\ waiting' = FALSE /\ accum.stagedDelta = 0
        /\ UNCHANGED <<seq, requests, stored, acked, unsure>>
    BY <1>1, <1>5, StageStep DEF Stage, SenderInv, RetrierOK, Idle
  <2>2. PICK now \in Nat : now = accum'.stagedDelta
    BY <1>5, StageStep DEF SenderInv, TypeOK, MetricAccumulator
  <2>3. ToBeSent = 0 /\ ToBeSent' = now
    BY <2>1, <2>2 DEF ToBeSent, Returned
  <2>4. ASSUME NEW sum \in Nat, Bounded(sum)
        PROVE  Bounded(sum)'
    <3>1. stored + sum + 0 <= acked + 0 + unsure
      BY <2>1, <2>3, <2>4 DEF Bounded
    <3>2. stored + sum + now <= acked + now + unsure
      BY <1>1, <3>1
    <3> QED
      BY <2>1, <2>2, <2>3, <3>2 DEF Bounded
  <2> QED
    BY <1>1, <2>1, <2>4, SameRequests
<1>6. CASE (\E r \in responses : Receive(r)) \/ TransportError \/ GatewayTimeout
  <2>1. PICK outcome \in Outcome : Ended(outcome)
    BY <1>6, RequestEnds
  <2>2. /\ run'.err = outcome /\ (outcome # "retryable" => run'.pc = "returned")
        /\ accum.isStaged
    BY <2>1, CallKeeps DEF SenderInv, TypeOK, RetrierOK, Ended
  <2>3. /\ waiting = TRUE /\ waiting' = FALSE
        /\ UNCHANGED <<accum, seq, requests, stored, acked>>
    BY <1>1, <2>1 DEF Ended
  <2>4. ASSUME NEW sum \in Nat, Bounded(sum)
        PROVE  Bounded(sum)'
    <3>1. PICK before \in Nat : before = ToBeSent
      BY Amounts
    <3>2. stored + sum + before <= acked + staged + unsure
      BY <1>2, <2>4, <3>1 DEF Bounded
    <3>3. CASE outcome = "nil"
      <4>1. ToBeSent' = 0 /\ unsure' = unsure
        BY <2>1, <2>2, <2>3, <3>3 DEF ToBeSent, Returned, Idle, Ended
      <4>2. stored + sum + 0 <= acked + staged + unsure
        BY <1>1, <3>1, <3>2
      <4> QED
        BY <1>2, <2>3, <4>1, <4>2 DEF Bounded
    <3>4. CASE outcome # "nil"
      <4>1. ToBeSent' = staged
        BY <1>2, <2>2, <2>3, <3>4 DEF ToBeSent, Returned
      <4>2. CASE unsure' = unsure + staged
        <5>1. stored + sum + staged <= acked + staged + (unsure + staged)
          BY <1>1, <3>1, <3>2
        <5> QED
          BY <1>2, <2>3, <4>1, <4>2, <5>1 DEF Bounded
      <4>3. CASE unsure' = unsure /\ Refused
        <5>1. before = staged
          BY <1>2, <2>2, <2>3, <3>1, <4>3 DEF ToBeSent, Returned, SenderInv, RetrierOK
        <5> QED
          BY <1>2, <2>3, <3>2, <4>1, <4>3, <5>1 DEF Bounded
      <4> QED
        BY <1>2, <2>1, <3>4, <4>2, <4>3 DEF Ended, Refused
    <3> QED
      BY <3>3, <3>4
  <2> QED
    BY <1>1, <2>3, <2>4, SameRequests
<1>7. CASE Retry
  <2>1. /\ run'.err = "retryable" /\ run.pc = "loop" /\ waiting = FALSE
        /\ UNCHANGED <<accum, waiting, seq, requests, stored, acked, unsure>>
    BY <1>1, <1>7, LoopKeeps DEF Retry, SenderInv, TypeOK, RetrierOK
  <2>2. ToBeSent = accum.stagedDelta /\ ToBeSent' = accum.stagedDelta
    BY <2>1 DEF ToBeSent, Returned
  <2>3. \A sum \in Nat : Bounded(sum) => Bounded(sum)'
    BY <2>1, <2>2 DEF Bounded
  <2> QED
    BY <1>1, <2>1, <2>3, SameRequests
<1>8. CASE Commit
  <2>1. /\ accum'.isStaged = FALSE /\ accum'.stagedDelta = 0 /\ waiting' = FALSE
        /\ acked' = acked + accum.stagedDelta
        /\ Returned({"nil"}) /\ UNCHANGED <<seq, requests, stored, unsure>>
    BY <1>1, <1>8, ResolveStep DEF Commit, Returned, SenderInv, RetrierOK, TypeOK,
                                   MetricAccumulator
  <2>2. ToBeSent = 0 /\ ToBeSent' = 0
    BY <2>1 DEF ToBeSent
  <2>3. ASSUME NEW sum \in Nat, Bounded(sum)
        PROVE  Bounded(sum)'
    <3>1. stored + sum + 0 <= acked + staged + unsure
      BY <1>2, <2>2, <2>3 DEF Bounded
    <3>2. stored + sum + 0 <= (acked + staged) + 0 + unsure
      BY <1>1, <3>1
    <3> QED
      BY <1>2, <2>1, <2>2, <3>2 DEF Bounded
  <2> QED
    BY <1>1, <2>1, <2>3, SameRequests
<1>9. CASE Rollback
  <2>1. /\ accum'.stagedDelta = 0 /\ waiting = FALSE
        /\ run.err # "nil" /\ UNCHANGED <<seq, requests, stored, acked, unsure>>
        /\ waiting' = FALSE /\ run' = run
    BY <1>1, <1>9, ResolveStep DEF Rollback, Returned, SenderInv, RetrierOK
  <2>2. ToBeSent = staged /\ ToBeSent' = 0
    BY <1>2, <2>1 DEF ToBeSent, Returned
  <2>3. ASSUME NEW sum \in Nat, Bounded(sum)
        PROVE  Bounded(sum)'
    <3>1. stored + sum + staged <= acked + staged + unsure
      BY <1>2, <2>2, <2>3 DEF Bounded
    <3>2. stored + sum + 0 <= acked + 0 + unsure
      BY <1>1, <3>1
    <3> QED
      BY <2>1, <2>2, <3>2 DEF Bounded
  <2> QED
    BY <1>1, <2>1, <2>3, SameRequests
<1>10. ASSUME NEW r \in requests, ServerNext(r)
       PROVE  CountedInv'
  <2>1. PICK status \in {200, 400, 500}, effect \in {"known", "unknown"} :
          Handled(r, status, effect)
    BY <1>10, ServerHandles
  <2> QED
    BY <2>1, CountedHandle DEF StoredInv
<1> QED
  BY <1>3, <1>4, <1>5, <1>6, <1>7, <1>8, <1>9, <1>10, CountedDo
  DEF Next, ReporterNext, Terminated

(* The count gives the bound on what is counted twice.                     *)
LEMMA CountedIsBounded ==
  ASSUME SenderInv, CountedInv
  PROVE  NoDoubleAccumulation
<1>1. /\ stored \in Nat /\ acked \in Nat /\ unsure \in Nat /\ seq \in Nat
  BY Amounts
<1>2. PICK staged \in Nat, pending \in Nat, again \in Nat :
        staged = accum.stagedDelta /\ pending = PendingDelta(accum) /\ again = ToBeSent
  BY Amounts
<1>3. PICK sum \in Nat : Bounded(sum)
  <2>1. PICK upTo \in [0 .. seq -> Nat] : Bounded(upTo[seq])
    BY DEF CountedInv
  <2>2. seq \in 0 .. seq
    BY <1>1
  <2> QED
    BY <1>1, <2>1, <2>2
<1>4. stored + sum + again <= acked + staged + unsure
  BY <1>2, <1>3 DEF Bounded
<1>5. polled = acked + staged + pending
  BY <1>2 DEF SenderInv, Conserved
<1>6. PICK next \in Nat :
        /\ next = IF waiting \/ Returned({"nil"}) THEN 0 ELSE accum.stagedDelta
        /\ next <= again
  BY <1>2 DEF ToBeSent
<1>7. stored + pending + next <= polled + unsure
  BY <1>1, <1>4, <1>5, <1>6
<1> QED
  BY <1>2, <1>6, <1>7 DEF NoDoubleAccumulation

-----------------------------------------------------------------------------
DeliveryInv == SenderInv /\ StoredInv /\ (StoreErrorsHaveNoImpact => CountedInv)

(* The invariants hold together in every reachable state.                  *)
THEOREM DeliveryInvariant == Spec => []DeliveryInv
<1>1. Init => DeliveryInv
  BY SenderInit, StoredInit, CountedInit DEF DeliveryInv
<1>2. DeliveryInv /\ [Next]_vars => DeliveryInv'
  BY SenderKeeps, StoredKeeps, CountedKeeps DEF DeliveryInv, StoreErrorsHaveNoImpact
<1> QED
  BY <1>1, <1>2, PTL DEF Spec

(* Every variable keeps its type.                                          *)
THEOREM TypeCorrect == Spec => []TypeOK
<1>1. DeliveryInv => TypeOK
  BY DEF DeliveryInv, SenderInv
<1> QED
  BY <1>1, DeliveryInvariant, PTL

(* One report makes the requests, and waits the delays, that its linear    *)
(* policy promises, whatever network and server do (retrying.Executor.Run, *)
(* LinearPolicy.NextDelay).                                                *)
THEOREM RetriesFollowPolicy == Spec => []RetriesAreExact
<1>1. DeliveryInv => RetriesAreExact
  BY DEF DeliveryInv, SenderInv
<1> QED
  BY <1>1, DeliveryInvariant, PTL

(* An increment that the agent committed is in the server's storage, where *)
(* single updates are sent, and for batches where the storage does not     *)
(* fail without effect: updateBatch answers 200 to such a failure.         *)
THEOREM CommitImpliesStored ==
  ASSUME FailuresAreReported
  PROVE  Spec => []CommittedIsStored
<1>1. DeliveryInv => CommittedIsStored
  BY DEF DeliveryInv, StoredInv
<1> QED
  BY <1>1, DeliveryInvariant, PTL

(* An increment counts twice only if a request that carried it ended       *)
(* without a definite answer, however many requests are still under way,   *)
(* where ErrStore is not answered 500 (processUpdateMetric does so).       *)
THEOREM DoubleCountIsBounded ==
  ASSUME StoreErrorsHaveNoImpact
  PROVE  Spec => []NoDoubleAccumulation
<1>1. DeliveryInv => NoDoubleAccumulation
  BY CountedIsBounded DEF DeliveryInv
<1> QED
  BY <1>1, DeliveryInvariant, PTL
=============================================================================
