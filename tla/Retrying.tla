------------------------------ MODULE Retrying ------------------------------
(***************************************************************************)
(* The retry executor and its linear policy                                *)
(* (internal/retrying/{executor,policy,error}.go).  One call of            *)
(* Executor.Run(f) is a record that the caller's module keeps in its       *)
(* state; the operators are what Run does around the calls of f.           *)
(* Durations are numbers of seconds.                                       *)
(***************************************************************************)
EXTENDS Integers

(* NextDelay takes a last delay of zero for "no delay yet", so the initial *)
(* delay is not zero; ConfigProofs shows that Read never leaves it so.     *)
(* Negative settings, which the sources may give, are outside the model.   *)
(* NoRetryPolicy is the policy with no retries.                            *)
LinearPolicy ==
  [maxRetries : Nat, initialDelay : Nat \ {0}, delayIncrease : Nat]

(* What f returns: nil, an error the predicate accepts, any other error.   *)
Outcome == {"nil", "retryable", "final"}

(* A call of Run is about to call f, in its loop, or has returned err.     *)
Execution ==
  [pc : {"call", "loop", "returned"}, attempt : Nat, delay : Nat, err : Outcome]

NextDelay(policy, lastDelay) ==
  IF lastDelay = 0 THEN policy.initialDelay ELSE lastDelay + policy.delayIncrease

Run == [pc |-> "call", attempt |-> 0, delay |-> 0, err |-> "nil"]

(* err = f(): the first call and the calls of the loop go on alike.        *)
Call(policy, run, outcome) ==
  IF outcome = "retryable"
    THEN [run EXCEPT !.pc = "loop", !.err = outcome, !.delay = NextDelay(policy, @)]
    ELSE [run EXCEPT !.pc = "returned", !.err = outcome]

(* Faulty variant: attempt <= MaxAttempts().                               *)
Loop_OneMore(policy, run) ==
  IF run.attempt <= policy.maxRetries
    THEN [run EXCEPT !.pc = "call", !.attempt = @ + 1]
    ELSE [run EXCEPT !.pc = "returned"]

(* for attempt < e.policy.MaxAttempts() { time.Sleep(delay); attempt += 1  *)
Loop(policy, run) ==
  IF run.attempt < policy.maxRetries
    THEN [run EXCEPT !.pc = "call", !.attempt = @ + 1]
    ELSE [run EXCEPT !.pc = "returned"]

(* What the policy promises of a call of Run in which f was called calls   *)
(* times: one call and one per retry, never more than the policy allows,   *)
(* fewer only after a success or a final error, and delays that start with *)
(* initialDelay and grow by delayIncrease.                                 *)
FollowsPolicy(policy, run, calls) ==
  /\ calls <= policy.maxRetries + 1
  /\ run.pc = "loop" =>
       /\ calls = run.attempt + 1
       /\ run.delay = policy.initialDelay + run.attempt * policy.delayIncrease
  /\ (run.pc = "returned" /\ run.err = "retryable") => calls = policy.maxRetries + 1
=============================================================================
