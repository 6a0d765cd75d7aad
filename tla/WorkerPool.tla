----------------------------- MODULE WorkerPool -----------------------------
(***************************************************************************)
(* The worker pool executor (internal/agent/reporting/pooler.go): rate     *)
(* workers between two buffered channels, a feeder goroutine per Execute   *)
(* and the reporter goroutine, which collects one result per metric and,   *)
(* after its last report, closes both channels.                            *)
(*                                                                         *)
(* A channel is a sequence of at most Rate elements.  The order in which   *)
(* the feeder offers the metrics is the order of a Go map iteration, so    *)
(* any order.                                                              *)
(***************************************************************************)
EXTENDS Integers, Sequences, FiniteSets

CONSTANTS
  ID,          \* metric names
  Rate,        \* MaxNumberOfRequests: workers, and capacity of the channels
  ReportLimit  \* bound: calls of Execute

ASSUME PoolAssumption ==
  IsFiniteSet(ID) /\ Rate \in Nat \ {0} /\ ReportLimit \in Nat

VARIABLES
  tasks,       \* chan *model.Metrics
  results,     \* chan *Result; a result names one metric
  tasksClosed, resultsClosed,
  toFeed,      \* metrics the feeder goroutine has still to put into tasks
  worker,      \* what each worker goroutine does
  repPc,       \* the reporter: "idle", "collecting", "shutdown", "done"
  ms,          \* the metrics of the current or last Execute
  collected,   \* results received so far: the i of the collecting loop
  successIDs, failureIDs,   \* the Result being built
  reports,     \* calls of Execute so far
  panicked     \* a goroutine sent on a closed channel

vars == <<tasks, results, tasksClosed, resultsClosed, toFeed, worker, repPc, ms,
          collected, successIDs, failureIDs, reports, panicked>>

Worker == 1 .. Rate

Result == [id : ID, ok : BOOLEAN]

(* A worker receives, sends its metric to the server, or has a result to   *)
(* put into the results channel.                                           *)
Receiving    == [at |-> "receive"]
Sending(id)  == [at |-> "send", id |-> id]
Replying(r)  == [at |-> "reply", result |-> r]
Exited       == [at |-> "exited"]

(* NewWorkerPoolExecutor: both channels are made and the workers started.  *)
Init ==
  /\ tasks = << >> /\ results = << >>
  /\ tasksClosed = FALSE /\ resultsClosed = FALSE
  /\ toFeed = {}
  /\ worker = [w \in Worker |-> Receiving]
  /\ repPc = "idle"
  /\ ms = {} /\ collected = 0 /\ successIDs = {} /\ failureIDs = {}
  /\ reports = 0
  /\ panicked = FALSE

(* Execute starts the feeder and an empty Result.                          *)
Execute(metrics) ==
  /\ repPc = "idle" /\ reports < ReportLimit
  /\ reports' = reports + 1
  /\ repPc' = "collecting"
  /\ ms' = metrics /\ toFeed' = metrics
  /\ collected' = 0 /\ successIDs' = {} /\ failureIDs' = {}
  /\ UNCHANGED <<tasks, results, tasksClosed, resultsClosed, worker, panicked>>

(* The feeder: e.tasks <- m                                                *)
Feed(id) ==
  /\ id \in toFeed
  /\ tasksClosed \/ Len(tasks) < Rate
  /\ panicked' = (panicked \/ tasksClosed)
  /\ tasks' = Append(tasks, id)
  /\ toFeed' = toFeed \ {id}
  /\ UNCHANGED <<results, tasksClosed, resultsClosed, worker, repPc, ms, collected,
                 successIDs, failureIDs, reports>>

(* A worker: for m := range e.tasks                                        *)
Receive(w) ==
  /\ worker[w] = Receiving /\ tasks # << >>
  /\ worker' = [worker EXCEPT ![w] = Sending(Head(tasks))]
  /\ tasks' = Tail(tasks)
  /\ UNCHANGED <<results, tasksClosed, resultsClosed, toFeed, repPc, ms, collected,
                 successIDs, failureIDs, reports, panicked>>

(* Faulty variant: a worker that finds no task leaves.                     *)
Exit_WhenIdle(w) ==
  /\ worker[w] = Receiving /\ tasks = << >>
  /\ worker' = [worker EXCEPT ![w] = Exited]
  /\ UNCHANGED <<tasks, results, tasksClosed, resultsClosed, toFeed, repPc, ms,
                 collected, successIDs, failureIDs, reports, panicked>>

Exit(w) ==
  /\ worker[w] = Receiving /\ tasks = << >> /\ tasksClosed
  /\ worker' = [worker EXCEPT ![w] = Exited]
  /\ UNCHANGED <<tasks, results, tasksClosed, resultsClosed, toFeed, repPc, ms,
                 collected, successIDs, failureIDs, reports, panicked>>

(* Faulty variant: a failed send has no result.                            *)
SendMetric_Silent(w, ok) ==
  /\ worker[w].at = "send"
  /\ worker' = [worker EXCEPT ![w] =
                   IF ok THEN Replying([id |-> @.id, ok |-> ok]) ELSE Receiving]
  /\ UNCHANGED <<tasks, results, tasksClosed, resultsClosed, toFeed, repPc, ms,
                 collected, successIDs, failureIDs, reports, panicked>>

(* SendMetric returns, with an error or without.                           *)
SendMetric(w, ok) ==
  /\ worker[w].at = "send"
  /\ worker' = [worker EXCEPT ![w] = Replying([id |-> @.id, ok |-> ok])]
  /\ UNCHANGED <<tasks, results, tasksClosed, resultsClosed, toFeed, repPc, ms,
                 collected, successIDs, failureIDs, reports, panicked>>

(* e.results <- FailureResult(m.ID) or SuccessResult(m.ID)                 *)
Reply(w) ==
  /\ worker[w].at = "reply"
  /\ resultsClosed \/ Len(results) < Rate
  /\ panicked' = (panicked \/ resultsClosed)
  /\ results' = Append(results, worker[w].result)
  /\ worker' = [worker EXCEPT ![w] = Receiving]
  /\ UNCHANGED <<tasks, tasksClosed, resultsClosed, toFeed, repPc, ms, collected,
                 successIDs, failureIDs, reports>>

(* result.Append(<-e.results), len(ms) times                               *)
Collect ==
  /\ repPc = "collecting" /\ collected < Cardinality(ms) /\ results # << >>
  /\ LET r == Head(results)
     IN  /\ successIDs' = IF r.ok THEN successIDs \cup {r.id} ELSE successIDs
         /\ failureIDs' = IF r.ok THEN failureIDs ELSE failureIDs \cup {r.id}
  /\ results' = Tail(results)
  /\ collected' = collected + 1
  /\ UNCHANGED <<tasks, tasksClosed, resultsClosed, toFeed, worker, repPc, ms,
                 reports, panicked>>

(* Faulty variant: one result per worker is waited for.                    *)
ExecuteReturns_PerWorker ==
  /\ repPc = "collecting"
  /\ collected = Cardinality(ms) \/ collected = Rate
  /\ repPc' = "idle"
  /\ UNCHANGED <<tasks, results, tasksClosed, resultsClosed, toFeed, worker, ms,
                 collected, successIDs, failureIDs, reports, panicked>>

ExecuteReturns ==
  /\ repPc = "collecting" /\ collected = Cardinality(ms)
  /\ repPc' = "idle"
  /\ UNCHANGED <<tasks, results, tasksClosed, resultsClosed, toFeed, worker, ms,
                 collected, successIDs, failureIDs, reports, panicked>>

(* Faulty variant: Shutdown does not wait for Execute.                     *)
CloseTasks_DuringExecute ==
  /\ repPc \in {"idle", "collecting"}
  /\ repPc' = "shutdown" /\ tasksClosed' = TRUE
  /\ UNCHANGED <<tasks, results, resultsClosed, toFeed, worker, ms, collected,
                 successIDs, failureIDs, reports, panicked>>

(* Shutdown, after the last report: close(e.tasks), then close(e.results). *)
CloseTasks ==
  /\ repPc = "idle"
  /\ repPc' = "shutdown" /\ tasksClosed' = TRUE
  /\ UNCHANGED <<tasks, results, resultsClosed, toFeed, worker, ms, collected,
                 successIDs, failureIDs, reports, panicked>>

CloseResults ==
  /\ repPc = "shutdown"
  /\ repPc' = "done" /\ resultsClosed' = TRUE
  /\ UNCHANGED <<tasks, results, tasksClosed, toFeed, worker, ms, collected,
                 successIDs, failureIDs, reports, panicked>>

Terminated ==
  /\ repPc = "done" /\ \A w \in Worker : worker[w] = Exited
  /\ UNCHANGED vars

WorkerNext(w) ==
  Receive(w) \/ Exit(w) \/ Reply(w) \/ \E ok \in BOOLEAN : SendMetric(w, ok)

FeederNext == \E id \in ID : Feed(id)

CollectorNext == Collect \/ ExecuteReturns \/ CloseResults

Next ==
  \/ \E metrics \in SUBSET ID : Execute(metrics)
  \/ FeederNext \/ CollectorNext \/ CloseTasks
  \/ \E w \in Worker : WorkerNext(w)
  \/ Terminated

Spec == Init /\ [][Next]_vars

(* Every goroutine that can run does; a send to the server ends.           *)
Fairness ==
  /\ WF_vars(FeederNext) /\ WF_vars(CollectorNext)
  /\ \A w \in Worker : WF_vars(WorkerNext(w))

FairSpec == Spec /\ Fairness

-----------------------------------------------------------------------------
(* The types of the variables, for the proofs.                             *)
TypeOK ==
  /\ tasks \in Seq(ID)
  /\ results \in Seq(Result)
  /\ tasksClosed \in BOOLEAN /\ resultsClosed \in BOOLEAN /\ panicked \in BOOLEAN
  /\ toFeed \subseteq ID /\ ms \subseteq ID
  /\ successIDs \subseteq ID /\ failureIDs \subseteq ID
  /\ worker \in [Worker -> {Receiving, Exited} \cup {Sending(id) : id \in ID}
                             \cup {Replying(r) : r \in Result}]
  /\ repPc \in {"idle", "collecting", "shutdown", "done"}
  /\ collected \in Nat /\ reports \in Nat

(* Where the metrics of the running Execute are.                           *)
InTasks    == {tasks[i] : i \in DOMAIN tasks}
InResults  == {results[i].id : i \in DOMAIN results}
AtWorkers  == {worker[w].id : w \in {v \in Worker : worker[v].at = "send"}}
                \cup {worker[w].result.id : w \in {v \in Worker : worker[v].at = "reply"}}
Unresolved == toFeed \cup InTasks \cup AtWorkers \cup InResults

(* A metric without a result is in exactly one place, and the collecting   *)
(* loop waits for as many results as there are such metrics: it neither    *)
(* waits for a result that will not come nor leaves one behind in the      *)
(* channel for the next report to mistake for its own.                     *)
OneResultEach ==
  /\ Unresolved = ms \ (successIDs \cup failureIDs)
  /\ successIDs \cap failureIDs = {}
  /\ Cardinality(Unresolved) = Cardinality(ms) - collected
  /\ Cardinality(toFeed) + Len(tasks) + Len(results)
       + Cardinality({w \in Worker : worker[w].at \in {"send", "reply"}})
       = Cardinality(ms) - collected

(* Closing the channels never meets a feeder or a worker that still has    *)
(* something to put into them.                                             *)
NoSendOnClosedChannel == ~ panicked

(* Execute returns, whatever the number of metrics and of workers, and     *)
(* whichever sends fail; after Shutdown no worker goroutine is left.       *)
PoolMakesProgress ==
  /\ repPc = "collecting" ~> repPc = "idle"
  /\ repPc = "done" ~> \A w \in Worker : worker[w] = Exited

(* The pool implements the abstract executor.                              *)
Abstract == INSTANCE Executor WITH
  executing <- (repPc = "collecting"),
  unresolved <- ms \ (successIDs \cup failureIDs)

ImplementsExecutor == Abstract!Spec
=============================================================================
