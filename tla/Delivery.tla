------------------------------ MODULE Delivery ------------------------------
(***************************************************************************)
(* One counter from the agent's accumulator to the server's storage: the   *)
(* report that stages it, RestSender with its retries, a network that      *)
(* loses, delays and cuts, the server's handler with a storage that fails, *)
(* and the commit or rollback that the agent makes of the answer.          *)
(*                                                                         *)
(* It composes the accumulator (module Accumulator) and the retry executor *)
(* (module Retrying) with the answers of the server (module Server).  The  *)
(* network and a proxy in front of the server are external.                *)
(***************************************************************************)
EXTENDS Accumulator, Retrying, FiniteSets

CONSTANTS
  BatchMode,    \* SendMetricArray to /updates, else SendMetric to /update
  MaxRetries, InitialDelay, DelayIncrease,  \* the sender's retry policy
  Faults,       \* the faults that may happen, see Fault
  FaultLimit,   \* bound: faults
  PollLimit     \* bound: increments

(* "transport": cl.Do fails, whatever became of the request;               *)
(* "gateway_timeout": a proxy answers 504 while the request is under way;  *)
(* "cut": the answer's body cannot be read;                                *)
(* "refused": the server answers 400 or 401 and does nothing;              *)
(* "no_effect": the storage fails before it changed anything (database);   *)
(* "lost_commit": the database has changed and its connection is lost;     *)
(* "store_error": the memory has changed and its file cannot be written    *)
(* (ErrStore).                                                             *)
Fault == {"transport", "gateway_timeout", "cut", "refused", "no_effect",
          "lost_commit", "store_error"}

policy == [maxRetries |-> MaxRetries, initialDelay |-> InitialDelay,
           delayIncrease |-> DelayIncrease]

ASSUME DeliveryAssumption ==
  /\ BatchMode \in BOOLEAN /\ policy \in LinearPolicy
  /\ Faults \subseteq Fault
  /\ FaultLimit \in Nat /\ PollLimit \in Nat

VARIABLES
  accum,     \* the agent's accumulator of the counter
  run,       \* the sender's call of retrier.Run
  waiting,   \* it is inside cl.Do
  seq,       \* number of the current request
  requests,  \* requests under way: number, delta in the body, last increment in it
  responses, \* responses under way: number, status code and, for the
             \* history, whether the server knew the effect it answers for
  stored,    \* the counter in the server's storage
  \* history
  polled,    \* increments accumulated
  acked,     \* increments committed by the agent
  reached,   \* the last increment that is in the storage
  unsure,    \* increments in requests that ended without a definite answer
  calls,     \* requests made for the current report
  faults

vars == <<accum, run, waiting, seq, requests, responses, stored, polled, acked,
          reached, unsure, calls, faults>>

(* Nothing is being sent.                                                  *)
Idle == ~ accum.isStaged

Init ==
  /\ accum = [NewMetricAccumulator EXCEPT !.MType = Counter]
  /\ run = [Run EXCEPT !.pc = "returned"] /\ waiting = FALSE
  /\ seq = 0
  /\ requests = {} /\ responses = {}
  /\ stored = 0
  /\ polled = 0 /\ acked = 0 /\ reached = 0 /\ unsure = 0
  /\ calls = 0 /\ faults = 0

Happens(fault) ==
  /\ fault \in Faults /\ faults < FaultLimit
  /\ faults' = faults + 1

-----------------------------------------------------------------------------
(* The agent.                                                              *)

Poll ==
  /\ polled < PollLimit
  /\ polled' = polled + 1
  /\ accum' = AccumulateCounter(accum, 1)
  /\ UNCHANGED <<run, waiting, seq, requests, responses, stored, acked, reached,
                 unsure, calls, faults>>

(* execReport stages, and the sender marshals the body before its first    *)
(* attempt.                                                                *)
Stage ==
  /\ Idle /\ HasMetricToStage(accum)
  /\ accum' = StageChanges(accum)
  /\ run' = Run /\ calls' = 0
  /\ UNCHANGED <<waiting, seq, requests, responses, stored, polled, acked, reached,
                 unsure, faults>>

(* rs.cl.Do: every attempt is a new request with the same body.            *)
Do ==
  /\ run.pc = "call" /\ ~ waiting
  /\ seq' = seq + 1 /\ calls' = calls + 1
  /\ requests' = requests \cup
       {[seq |-> seq + 1, delta |-> accum.stagedDelta, last |-> acked + accum.stagedDelta]}
  /\ waiting' = TRUE
  /\ UNCHANGED <<accum, run, responses, stored, polled, acked, reached, unsure, faults>>

(* The request ends with an outcome for the retrier, definite or not.      *)
Ends(outcome, definite) ==
  /\ waiting
  /\ waiting' = FALSE
  /\ run' = Call(policy, run, outcome)
  /\ unsure' = unsure + (IF definite THEN 0 ELSE accum.stagedDelta)
  /\ UNCHANGED <<accum, seq, requests, stored, polled, acked, reached, calls>>

(* Faulty variant: an error status is taken for a success.                 *)
OfStatus_AnyCode(code) == IF code = 504 THEN "retryable" ELSE "nil"

(* sendRequest's reading of the status code: of the codes its switch lists *)
(* only the last one, 504, reaches the return of a retryable error.        *)
OfStatus(code) ==
  CASE code = 200 -> "nil"
    [] code = 504 -> "retryable"
    [] OTHER      -> "final"

(* The agent may rely on the answer: a success, or a failure of which the  *)
(* server knew whether the storage has the update.                         *)
Definite(r) == r.code = 200 \/ r.effect = "known"

Receive(r) ==
  /\ r \in responses /\ r.seq = seq
  /\ responses' = responses \ {r}
  /\ \/ Ends(OfStatus(r.code), Definite(r)) /\ UNCHANGED faults
     \/ Ends("retryable", FALSE) /\ Happens("cut")

(* A transport error is not retryable.                                     *)
TransportError ==
  /\ Ends("final", FALSE) /\ Happens("transport")
  /\ responses' = {}

GatewayTimeout ==
  /\ Ends(OfStatus(504), FALSE) /\ Happens("gateway_timeout")
  /\ responses' = {}

(* The retrier's loop.                                                     *)
Retry ==
  /\ run.pc = "loop"
  /\ run' = Loop(policy, run)
  /\ UNCHANGED <<accum, waiting, seq, requests, responses, stored, polled, acked,
                 reached, unsure, calls, faults>>

Returned(outcomes) == ~ Idle /\ run.pc = "returned" /\ run.err \in outcomes

(* Faulty variant: what was sent is put back after a success.              *)
Commit_PutsBack ==
  /\ Returned({"nil"})
  /\ acked' = acked + accum.stagedDelta
  /\ accum' = RollbackStaged(accum)
  /\ UNCHANGED <<run, waiting, seq, requests, responses, stored, polled, reached,
                 unsure, calls, faults>>

Commit ==
  /\ Returned({"nil"})
  /\ acked' = acked + accum.stagedDelta
  /\ accum' = CommitStaged(accum)
  /\ UNCHANGED <<run, waiting, seq, requests, responses, stored, polled, reached,
                 unsure, calls, faults>>

(* Faulty variant: a failed send is cleaned like a successful one.         *)
Rollback_Drops ==
  /\ Returned({"retryable", "final"})
  /\ accum' = CommitStaged(accum)
  /\ UNCHANGED <<run, waiting, seq, requests, responses, stored, polled, acked,
                 reached, unsure, calls, faults>>

Rollback ==
  /\ Returned({"retryable", "final"})
  /\ accum' = RollbackStaged(accum)
  /\ UNCHANGED <<run, waiting, seq, requests, responses, stored, polled, acked,
                 reached, unsure, calls, faults>>

-----------------------------------------------------------------------------
(* The server.                                                             *)

Awaited(r) == waiting /\ r.seq = seq

(* A request is handled, perhaps after the agent gave it up: then nobody   *)
(* reads the response.                                                     *)
Handle(r, applied, status, effect) ==
  /\ r \in requests
  /\ requests' = requests \ {r}
  /\ IF applied
       THEN /\ stored' = stored + r.delta
            /\ reached' = IF r.last > reached THEN r.last ELSE reached
       ELSE UNCHANGED <<stored, reached>>
  /\ responses' = IF Awaited(r)
                    THEN {[seq |-> r.seq, code |-> status, effect |-> effect]}
                    ELSE responses
  /\ UNCHANGED <<accum, run, waiting, seq, polled, acked, unsure, calls>>

(* processUpdateMetric answers 500 to a storage error, ErrStore included;  *)
(* updateBatch answers 200 to every error but ErrIncorrectAccess.          *)
StorageErrorCode == IF BatchMode THEN 200 ELSE 500

Update(r)     == Handle(r, TRUE, 200, "known") /\ UNCHANGED faults
Refuse(r)     == Handle(r, FALSE, 400, "known") /\ Happens("refused")
FailBefore(r) == Handle(r, FALSE, StorageErrorCode, "known") /\ Happens("no_effect")
FailAfter(r)  ==
  \E fault \in {"lost_commit", "store_error"} :
    /\ Happens(fault)
    /\ Handle(r, TRUE, StorageErrorCode, IF fault = "lost_commit" THEN "unknown" ELSE "known")

ServerNext(r) == Update(r) \/ Refuse(r) \/ FailBefore(r) \/ FailAfter(r)

Terminated ==
  /\ Idle /\ polled = PollLimit /\ ~ HasMetricToStage(accum)
  /\ UNCHANGED vars

ReporterNext ==
  \/ Stage \/ Do \/ Retry \/ Commit \/ Rollback
  \/ \E r \in responses : Receive(r)

Next ==
  \/ Poll \/ ReporterNext \/ TransportError \/ GatewayTimeout
  \/ \E r \in requests : ServerNext(r)
  \/ Terminated

Spec == Init /\ [][Next]_vars

(* The report ticker keeps firing, an answer that arrived is read, and     *)
(* there are at most FaultLimit faults.  That a request is answered is not *)
(* assumed.                                                                *)
Fairness == WF_vars(ReporterNext)

FairSpec == Spec /\ Fairness

-----------------------------------------------------------------------------
(* A response to one of the first n requests.                              *)
Response(n) ==
  [seq : 1 .. n, code : {200, 400, 500}, effect : {"known", "unknown"}]

(* Every variable has the type of its Go counterpart.                      *)
TypeOK ==
  /\ accum \in MetricAccumulator
  /\ run \in Execution /\ waiting \in BOOLEAN /\ seq \in Nat
  /\ requests \subseteq [seq : 1 .. seq, delta : Nat, last : Nat]
  /\ responses \subseteq Response(seq)
  /\ stored \in Nat /\ polled \in Nat /\ acked \in Nat /\ reached \in Nat
  /\ unsure \in Nat /\ calls \in Nat
  /\ faults \in 0 .. FaultLimit

(* Whatever the network does, one report makes the requests, and waits the *)
(* delays, that the retry policy of the sender promises.                   *)
RetriesAreExact == FollowsPolicy(policy, run, calls)

(* What the agent commits, the server has: an increment that is no longer  *)
(* in the accumulator is in the storage.  (Increments are numbered in the  *)
(* order they were polled; another one counted twice does not make up for  *)
(* one that is missing.)                                                   *)
CommittedIsStored == acked <= reached

(* The accumulator is cleaned in the success case "to eliminate double     *)
(* accumulation on agent and server sides".  What the server counts and    *)
(* what the agent has still to send, again or for the first time, exceeds  *)
(* what was polled at most by the increments of requests that ended        *)
(* without a definite answer (a transport error, a cut body, a status of   *)
(* 504, a 500 for a commit whose result is lost): no increment counts      *)
(* twice unless there was such a request.  A 500 of a server that knows    *)
(* what its storage holds is no excuse.                                    *)
NoDoubleAccumulation ==
  LET toBeSent == IF waiting \/ Returned({"nil"}) THEN 0 ELSE accum.stagedDelta
  IN  stored + PendingDelta(accum) + toBeSent <= polled + unsure

(* Every increment reaches the storage in the end, unless the sender waits *)
(* for ever for the answer to one request (its client has no timeout).     *)
EventuallyStored ==
  \A n \in 1 .. PollLimit : polled >= n ~> (reached >= n \/ []waiting)
=============================================================================
