---------------------------- MODULE SampleLedger ----------------------------
(***************************************************************************)
(* What the agent's accumulation promises, with no staging, no locks and   *)
(* no report: every metric has what it owes and what was acknowledged.     *)
(* Polling adds to what is owed; an acknowledgement moves the oldest part  *)
(* of what is owed, never more and never out of order                      *)
(* (the comment on MetricAccumulator, accumulation/accumulator.go).        *)
(***************************************************************************)
EXTENDS Integers, Sequences

CONSTANTS ID, CounterIDs, Sample

VARIABLES owedDelta, owedValues, ackedDelta, ackedValues

ledger == <<owedDelta, owedValues, ackedDelta, ackedValues>>

Init ==
  /\ owedDelta = [id \in ID |-> 0] /\ ackedDelta = [id \in ID |-> 0]
  /\ owedValues = [id \in ID |-> << >>] /\ ackedValues = [id \in ID |-> << >>]

AccumulateCounter(id) ==
  /\ id \in CounterIDs
  /\ owedDelta' = [owedDelta EXCEPT ![id] = @ + 1]
  /\ UNCHANGED <<owedValues, ackedDelta, ackedValues>>

AccumulateGauge(id, sample) ==
  /\ id \notin CounterIDs
  /\ owedValues' = [owedValues EXCEPT ![id] = Append(@, sample)]
  /\ UNCHANGED <<owedDelta, ackedDelta, ackedValues>>

(* One successful request: of each metric it carries, the oldest part of   *)
(* what is owed becomes acknowledged; the other metrics move nothing.      *)
Moves(id, delta, count) ==
  /\ owedDelta'[id] = owedDelta[id] - delta
  /\ ackedDelta'[id] = ackedDelta[id] + delta
  /\ owedValues'[id] = SubSeq(owedValues[id], count + 1, Len(owedValues[id]))
  /\ ackedValues'[id] = ackedValues[id] \o SubSeq(owedValues[id], 1, count)

Acknowledge ==
  \A id \in ID :
    \E delta \in 0 .. owedDelta[id], count \in 0 .. Len(owedValues[id]) :
      Moves(id, delta, count)

Next ==
  \/ \E id \in ID : AccumulateCounter(id)
  \/ \E id \in ID, sample \in Sample : AccumulateGauge(id, sample)
  \/ Acknowledge

Spec == Init /\ [][Next]_ledger
=============================================================================
