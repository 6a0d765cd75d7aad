-------------------------------- MODULE Agent --------------------------------
(***************************************************************************)
(* The agent process: two poller goroutines, the reporter goroutine, the   *)
(* accumulation storage they share, and Agent.Run, which waits for a       *)
(* signal and then for the three goroutines                                *)
(* (internal/agent/{agent,poller,reporter}.go, accumulation/*.go).         *)
(*                                                                         *)
(* The executor is abstract here: Execute gives every metric one result.   *)
(* WorkerPool shows that reporting/pooler.go does.                         *)
(*                                                                         *)
(* One action is one critical section, or one read or write that another   *)
(* goroutine can see.                                                      *)
(***************************************************************************)
EXTENDS Accumulator, FiniteSets

CONSTANTS
  ID,                \* the metric names
  CounterIDs,        \* the ones stored with storeCounterMetric (PollCount)
  MemstatsIDs,       \* the names execMemstatsPoll stores, in program order
  VirtualMemoryIDs,  \* the names execGopsPoll stores after mem.VirtualMemory
  CPUIDs,            \* ... and after cpu.Percent
  BatchMode,         \* MaxNumberOfRequests = 0: the BatchExecutor is used
  PollLimit          \* bound: ticks a poller handles

ASSUME IDAssumption ==
  /\ CounterIDs \subseteq ID
  /\ MemstatsIDs \in Seq(ID) /\ VirtualMemoryIDs \in Seq(ID) /\ CPUIDs \in Seq(ID)
  /\ BatchMode \in BOOLEAN
  /\ PollLimit \in Nat

VARIABLES
  \* accumulation.Storage
  keys,        \* the keys of storage.accums
  accums,      \* the accumulator of every key, NewMetricAccumulator elsewhere
  \* the pollers
  pollPc,      \* where each poller goroutine is
  pollQueue,   \* the names its pf() has still to store before the next read
  gopsRead,    \* the read execGopsPoll made last, "none" outside it
  polls,       \* ticks handled; also the value a poll reads
  \* the reporter
  repPc,       \* where the reporter goroutine is
  final,       \* the report is the one the ctx.Done() branch makes
  unvisited,   \* keys present when the iteration began and not yet visited
  visited,     \* keys the iteration has visited
  unsent,      \* staged metrics without a result yet
  successIDs,  \* result.SuccessIDs still to be committed
  failureIDs,  \* result.FailureIDs still to be rolled back
  \* the process
  ctxDone,     \* the NotifyContext is cancelled
  process,     \* "running", "stopped" (Run returned) or "crashed"
  \* history
  polledDelta, polledValues,  \* everything accumulated, per metric
  ackedDelta, ackedValues,    \* everything sent with a success result
  atFinal,     \* polled samples per metric when the final report began
  finalFailed  \* metrics whose send failed in the final report

storageVars == <<keys, accums>>
pollVars    == <<pollPc, pollQueue, gopsRead, polls>>
reportVars  == <<repPc, final, unvisited, visited, unsent, successIDs, failureIDs>>
polledVars  == <<polledDelta, polledValues>>
ackedVars   == <<ackedDelta, ackedValues>>
finalVars   == <<atFinal, finalFailed>>

vars == <<storageVars, pollVars, reportVars, ctxDone, process,
          polledVars, ackedVars, finalVars>>

Poller == {"memstats", "gops"}

Kind(id) == IF id \in CounterIDs THEN Counter ELSE Gauge

(* The number of samples a metric has been polled or acknowledged for.     *)
Polled(id) == IF id \in CounterIDs THEN polledDelta[id] ELSE Len(polledValues[id])
Acked(id)  == IF id \in CounterIDs THEN ackedDelta[id] ELSE Len(ackedValues[id])

Init ==
  /\ keys = {}
  /\ accums = [id \in ID |-> NewMetricAccumulator]
  /\ pollPc = [p \in Poller |-> "select"]
  /\ pollQueue = [p \in Poller |-> << >>]
  /\ gopsRead = "none"
  /\ polls = [p \in Poller |-> 0]
  /\ repPc = "select"
  /\ final = FALSE
  /\ unvisited = {} /\ visited = {} /\ unsent = {}
  /\ successIDs = {} /\ failureIDs = {}
  /\ ctxDone = FALSE
  /\ process = "running"
  /\ polledDelta = [id \in ID |-> 0] /\ polledValues = [id \in ID |-> << >>]
  /\ ackedDelta = [id \in ID |-> 0] /\ ackedValues = [id \in ID |-> << >>]
  /\ atFinal = [id \in ID |-> 0]
  /\ finalFailed = {}

-----------------------------------------------------------------------------
(* The pollers.  select takes either ready branch, so a tick may still be  *)
(* handled after the context is done.                                      *)

Tick(p) ==
  /\ process = "running"
  /\ pollPc[p] = "select"
  /\ polls[p] < PollLimit
  /\ polls' = [polls EXCEPT ![p] = @ + 1]

(* execMemstatsPoll: ReadMemStats cannot fail.                             *)
ExecMemstatsPoll ==
  /\ Tick("memstats")
  /\ pollPc' = [pollPc EXCEPT !["memstats"] = "get"]
  /\ pollQueue' = [pollQueue EXCEPT !["memstats"] = MemstatsIDs]
  /\ UNCHANGED <<storageVars, gopsRead, reportVars, ctxDone, process,
                 polledVars, ackedVars, finalVars>>

(* execGopsPoll: an error of mem.VirtualMemory ends the poll.              *)
ExecGopsPoll ==
  /\ Tick("gops")
  /\ \E ok \in BOOLEAN :
       /\ pollPc' = [pollPc EXCEPT !["gops"] = IF ok THEN "get" ELSE "select"]
       /\ pollQueue' = [pollQueue EXCEPT !["gops"] =
                          IF ok THEN VirtualMemoryIDs ELSE << >>]
  /\ gopsRead' = IF pollPc'["gops"] = "get" THEN "memory" ELSE "none"
  /\ UNCHANGED <<storageVars, reportVars, ctxDone, process,
                 polledVars, ackedVars, finalVars>>

(* ... and so does an error of cpu.Percent.                                *)
ReadCPUPercent ==
  /\ process = "running"
  /\ pollPc["gops"] = "get" /\ pollQueue["gops"] = << >> /\ gopsRead = "memory"
  /\ \E ok \in BOOLEAN :
       /\ pollPc' = [pollPc EXCEPT !["gops"] = IF ok THEN "get" ELSE "select"]
       /\ pollQueue' = [pollQueue EXCEPT !["gops"] = IF ok THEN CPUIDs ELSE << >>]
  /\ gopsRead' = IF pollPc'["gops"] = "get" THEN "cpu" ELSE "none"
  /\ UNCHANGED <<storageVars, polls, reportVars, ctxDone, process,
                 polledVars, ackedVars, finalVars>>

PollReturns(p) ==
  /\ process = "running"
  /\ pollPc[p] = "get" /\ pollQueue[p] = << >>
  /\ p = "gops" => gopsRead = "cpu"
  /\ pollPc' = [pollPc EXCEPT ![p] = "select"]
  /\ gopsRead' = IF p = "gops" THEN "none" ELSE gopsRead
  /\ UNCHANGED <<storageVars, pollQueue, polls, reportVars, ctxDone,
                 process, polledVars, ackedVars, finalVars>>

(* storeCounterMetric and storeGaugeMetric, first step.                    *)
(* GetAll returns a lazy iterator: the reporter ranges over the map        *)
(* without the lock while this inserts a key under it.  The runtime may    *)
(* abort the process on finding the two together.                          *)
GetOrNew(p) ==
  /\ process = "running"
  /\ pollPc[p] = "get" /\ pollQueue[p] # << >>
  /\ LET id == Head(pollQueue[p])
     IN  /\ keys' = keys \cup {id}
         /\ \/ process' = process
            \/ /\ id \notin keys /\ repPc = "staging"
               /\ process' = "crashed"
  /\ pollPc' = [pollPc EXCEPT ![p] = "claim"]
  /\ UNCHANGED <<accums, pollQueue, gopsRead, polls, reportVars, ctxDone,
                 polledVars, ackedVars, finalVars>>

(* AccumulateX writes MType outside the mutex.                             *)
SetMType(p) ==
  /\ process = "running"
  /\ pollPc[p] = "claim"
  /\ LET id == Head(pollQueue[p])
     IN  accums' = [accums EXCEPT ![id] = ClaimMType(@, Kind(id))]
  /\ pollPc' = [pollPc EXCEPT ![p] = "add"]
  /\ UNCHANGED <<keys, pollQueue, gopsRead, polls, reportVars, ctxDone, process,
                 polledVars, ackedVars, finalVars>>

(* The rest of AccumulateCounter(1) or AccumulateGauge(reading).           *)
Accumulate(p) ==
  /\ process = "running"
  /\ pollPc[p] = "add"
  /\ LET id == Head(pollQueue[p])
     IN  IF id \in CounterIDs
           THEN /\ accums' = [accums EXCEPT ![id] = AccumulateCounter(@, 1)]
                /\ polledDelta' = [polledDelta EXCEPT ![id] = @ + 1]
                /\ UNCHANGED polledValues
           ELSE /\ accums' = [accums EXCEPT ![id] = AccumulateGauge(@, polls[p])]
                /\ polledValues' = [polledValues EXCEPT ![id] = Append(@, polls[p])]
                /\ UNCHANGED polledDelta
  /\ pollPc' = [pollPc EXCEPT ![p] = "get"]
  /\ pollQueue' = [pollQueue EXCEPT ![p] = Tail(@)]
  /\ UNCHANGED <<keys, gopsRead, polls, reportVars, ctxDone, process,
                 ackedVars, finalVars>>

(* The ctx.Done() branch: return, with wg.Done() deferred.                 *)
PollerStops(p) ==
  /\ process = "running"
  /\ pollPc[p] = "select" /\ ctxDone
  /\ pollPc' = [pollPc EXCEPT ![p] = "done"]
  /\ UNCHANGED <<storageVars, pollQueue, gopsRead, polls, reportVars, ctxDone,
                 process, polledVars, ackedVars, finalVars>>

-----------------------------------------------------------------------------
(* The reporter: execReport on every tick, and once more when the context  *)
(* is done.                                                                *)

StartReport(isFinal) ==
  /\ process = "running"
  /\ repPc = "select"
  /\ repPc' = "staging"
  /\ final' = isFinal
  /\ unvisited' = keys
  /\ UNCHANGED <<storageVars, pollVars, visited, unsent, successIDs, failureIDs,
                 ctxDone, process, polledVars, ackedVars>>

ReportTick ==
  /\ StartReport(FALSE)
  /\ UNCHANGED finalVars

FinalReport ==
  /\ ctxDone
  /\ StartReport(TRUE)
  /\ atFinal' = [id \in ID |-> Polled(id)]
  /\ UNCHANGED finalFailed

(* One turn of the range loop.  A key inserted during the iteration may or *)
(* may not be visited.  A poller writing the two words of an unset MType   *)
(* may be caught between them, which faults.                               *)
StageNext(id) ==
  /\ process = "running"
  /\ repPc = "staging"
  /\ id \in keys \ visited
  /\ \/ /\ process' = process
        /\ accums' = [accums EXCEPT ![id] = StageChanges(@)]
        /\ unsent' = IF HasMetricToStage(accums[id]) THEN unsent \cup {id} ELSE unsent
     \/ /\ accums[id].MType = Unset
        /\ \E p \in Poller : pollPc[p] = "claim" /\ Head(pollQueue[p]) = id
        /\ process' = "crashed"
        /\ UNCHANGED <<accums, unsent>>
  /\ visited' = visited \cup {id}
  /\ unvisited' = unvisited \ {id}
  /\ UNCHANGED <<keys, pollVars, repPc, final, successIDs, failureIDs, ctxDone,
                 polledVars, ackedVars, finalVars>>

(* Faulty variant: a metric without changes ends the loop (break where     *)
(* continue is meant).                                                     *)
StagingDone_Breaks ==
  /\ process = "running"
  /\ repPc = "staging"
  /\ repPc' = "executing"
  /\ visited' = {} /\ unvisited' = {}
  /\ UNCHANGED <<storageVars, pollVars, final, unsent, successIDs,
                 failureIDs, ctxDone, process, polledVars, ackedVars, finalVars>>

StagingDone ==
  /\ process = "running"
  /\ repPc = "staging" /\ unvisited = {}
  /\ repPc' = "executing"
  /\ visited' = {}
  /\ UNCHANGED <<storageVars, pollVars, final, unvisited, unsent, successIDs,
                 failureIDs, ctxDone, process, polledVars, ackedVars, finalVars>>

(* executor.Execute: the metrics of sent get the same result.  The value   *)
(* of a counter is read through the pointer to stagedDelta, so it is what  *)
(* stagedDelta holds at this moment.                                       *)
SendResult(sent, ok) ==
  /\ process = "running"
  /\ repPc = "executing"
  /\ unsent' = unsent \ sent
  /\ IF ok
       THEN /\ successIDs' = successIDs \cup sent
            /\ ackedDelta' = [id \in ID |-> ackedDelta[id] +
                                IF id \in sent THEN accums[id].stagedDelta ELSE 0]
            /\ ackedValues' = [id \in ID |-> ackedValues[id] \o
                                IF id \in sent THEN accums[id].stagedValues ELSE << >>]
            /\ UNCHANGED <<failureIDs, finalFailed>>
       ELSE /\ failureIDs' = failureIDs \cup sent
            /\ finalFailed' = IF final THEN finalFailed \cup sent ELSE finalFailed
            /\ UNCHANGED <<successIDs, ackedVars>>
  /\ UNCHANGED <<storageVars, pollVars, final, unvisited, visited, ctxDone,
                 process, polledVars, atFinal>>

(* BatchExecutor: one request for all metrics, which is made also when     *)
(* nothing is staged; Execute returns its result.                          *)
SendBatch ==
  /\ BatchMode
  /\ \E ok \in BOOLEAN : SendResult(unsent, ok)
  /\ repPc' = "resolving"

(* WorkerPoolExecutor: one request per metric, in any order.               *)
SendOne ==
  /\ ~ BatchMode
  /\ \E id \in unsent, ok \in BOOLEAN : SendResult({id}, ok)
  /\ UNCHANGED repPc

(* ... and Execute returns when every metric has its result.               *)
ExecuteReturns ==
  /\ ~ BatchMode
  /\ process = "running"
  /\ repPc = "executing" /\ unsent = {}
  /\ repPc' = "resolving"
  /\ UNCHANGED <<storageVars, pollVars, final, unvisited, visited, unsent,
                 successIDs, failureIDs, ctxDone, process, polledVars, ackedVars,
                 finalVars>>

CommitNext(id) ==
  /\ process = "running"
  /\ repPc = "resolving" /\ id \in successIDs
  /\ accums' = [accums EXCEPT ![id] = CommitStaged(@)]
  /\ successIDs' = successIDs \ {id}
  /\ UNCHANGED <<keys, pollVars, repPc, final, unvisited, visited, unsent,
                 failureIDs, ctxDone, process, polledVars, ackedVars, finalVars>>

RollbackNext(id) ==
  /\ process = "running"
  /\ repPc = "resolving" /\ successIDs = {} /\ id \in failureIDs
  /\ accums' = [accums EXCEPT ![id] = RollbackStaged(@)]
  /\ failureIDs' = failureIDs \ {id}
  /\ UNCHANGED <<keys, pollVars, repPc, final, unvisited, visited, unsent,
                 successIDs, ctxDone, process, polledVars, ackedVars, finalVars>>

(* Faulty variant: the ctx.Done() branch reports and does not return.      *)
ReportReturns_GoesOn ==
  /\ process = "running"
  /\ repPc = "resolving" /\ successIDs = {} /\ failureIDs = {}
  /\ repPc' = "select"
  /\ UNCHANGED <<storageVars, pollVars, final, unvisited, visited, unsent,
                 successIDs, failureIDs, ctxDone, process, polledVars, ackedVars,
                 finalVars>>

(* execReport returns; after the final report the deferred wg.Done() runs  *)
(* next, and executor.Shutdown() after it (defers run last in, first out). *)
ReportReturns ==
  /\ process = "running"
  /\ repPc = "resolving" /\ successIDs = {} /\ failureIDs = {}
  /\ repPc' = IF final THEN "done" ELSE "select"
  /\ UNCHANGED <<storageVars, pollVars, final, unvisited, visited, unsent,
                 successIDs, failureIDs, ctxDone, process, polledVars, ackedVars,
                 finalVars>>

ExecutorShutdown ==
  /\ process = "running"
  /\ repPc = "done"
  /\ repPc' = "shutdown"
  /\ UNCHANGED <<storageVars, pollVars, final, unvisited, visited, unsent,
                 successIDs, failureIDs, ctxDone, process, polledVars, ackedVars,
                 finalVars>>

-----------------------------------------------------------------------------
(* Agent.Run.  The grace period bounds nothing: the context made for it is *)
(* discarded and wg.Wait() has no limit.                                   *)

Signal ==
  /\ process = "running" /\ ~ ctxDone
  /\ ctxDone' = TRUE
  /\ UNCHANGED <<storageVars, pollVars, reportVars, process, polledVars,
                 ackedVars, finalVars>>

WaitGroupIsZero ==
  /\ \A p \in Poller : pollPc[p] = "done"
  /\ repPc \in {"done", "shutdown"}

RunReturns ==
  /\ process = "running" /\ ctxDone
  /\ WaitGroupIsZero
  /\ process' = "stopped"
  /\ UNCHANGED <<storageVars, pollVars, reportVars, ctxDone, polledVars,
                 ackedVars, finalVars>>

Terminated ==
  /\ process # "running"
  /\ UNCHANGED vars

PollerNext(p) ==
  PollReturns(p) \/ GetOrNew(p) \/ SetMType(p) \/ Accumulate(p)

ReporterNext ==
  \/ StagingDone \/ SendBatch \/ SendOne \/ ExecuteReturns
  \/ ReportReturns \/ ExecutorShutdown
  \/ \E id \in ID : StageNext(id) \/ CommitNext(id) \/ RollbackNext(id)

Next ==
  \/ ExecMemstatsPoll \/ ExecGopsPoll \/ ReadCPUPercent
  \/ \E p \in Poller : PollerNext(p) \/ PollerStops(p)
  \/ ReportTick \/ FinalReport \/ ReporterNext
  \/ Signal \/ RunReturns \/ Terminated

Spec == Init /\ [][Next]_vars

(* A request is under way.  http.Client has no timeout: nothing in the     *)
(* agent makes it end.                                                     *)
Requesting == repPc = "executing" /\ (BatchMode \/ unsent # {})

(* Go runs every goroutine that can run.  A select with two ready branches *)
(* chooses at random, so the ctx.Done() branch is not passed over for ever *)
(* (strong fairness).  That a request ends is not assumed.                 *)
Fairness ==
  /\ \A p \in Poller : WF_vars(PollerNext(p)) /\ SF_vars(PollerStops(p))
  /\ WF_vars(ReadCPUPercent)
  /\ WF_vars(ReporterNext /\ ~ Requesting) /\ SF_vars(FinalReport)
  /\ WF_vars(RunReturns)

FairSpec == Spec /\ Fairness

-----------------------------------------------------------------------------
(* Properties.                                                             *)

(* Every variable has the type of its Go counterpart.                      *)
TypeOK ==
  /\ keys \subseteq ID
  /\ accums \in [ID -> MetricAccumulator]
  /\ pollPc \in [Poller -> {"select", "get", "claim", "add", "done"}]
  /\ pollQueue \in [Poller -> Seq(ID)]
  /\ gopsRead \in {"none", "memory", "cpu"}
  /\ polls \in [Poller -> Nat]
  /\ repPc \in {"select", "staging", "executing", "resolving", "done", "shutdown"}
  /\ final \in BOOLEAN /\ ctxDone \in BOOLEAN
  /\ unvisited \subseteq ID /\ visited \subseteq ID
  /\ unsent \subseteq ID /\ successIDs \subseteq ID /\ failureIDs \subseteq ID
  /\ process \in {"running", "stopped", "crashed"}
  /\ polledDelta \in [ID -> Nat] /\ ackedDelta \in [ID -> Nat]
  /\ polledValues \in [ID -> Samples] /\ ackedValues \in [ID -> Samples]
  /\ atFinal \in [ID -> Nat]
  /\ finalFailed \subseteq ID

(* What an accumulator still owes the server: the accumulated part, and    *)
(* the staged part unless its send has already succeeded.                  *)
OwedDelta(id) ==
    (IF id \in successIDs THEN 0 ELSE accums[id].stagedDelta)
  + PendingDelta(accums[id])

OwedValues(id) ==
     (IF id \in successIDs THEN << >> ELSE accums[id].stagedValues)
  \o accums[id].Values

(* At every moment of every interleaving of pollers and reporter, what was *)
(* accumulated in a counter is what was acknowledged plus what is owed:    *)
(* staging, commit and rollback neither lose nor repeat an increment.      *)
CounterConserved ==
  \A id \in CounterIDs : polledDelta[id] = ackedDelta[id] + OwedDelta(id)

(* The same for gauges, with order: acknowledged samples followed by owed  *)
(* ones are the polled samples as they were polled, although a rollback    *)
(* puts staged samples back in front of the ones polled meanwhile.         *)
GaugeConserved ==
  \A id \in ID \ CounterIDs : polledValues[id] = ackedValues[id] \o OwedValues(id)

(* A metric is staged exactly while the running report has it to send, to  *)
(* commit or to roll back.  One left staged would be refused by every      *)
(* later StageChanges with ErrWrongStagingState and never be sent again.   *)
StagedHasOneOwner ==
  /\ \A id \in ID : accums[id].isStaged <=> id \in unsent \cup successIDs \cup failureIDs
  /\ unsent \cap successIDs = {} /\ unsent \cap failureIDs = {}
  /\ successIDs \cap failureIDs = {}
  /\ repPc \in {"select", "done", "shutdown"} =>
       unsent \cup successIDs \cup failureIDs = {}

(* What the executor is sending does not change under it: the metric holds *)
(* a pointer into the accumulator that pollers keep writing to.            *)
InFlightIsStable ==
  [][\A id \in ID : accums[id].isStaged /\ accums'[id].isStaged =>
        /\ accums'[id].stagedDelta = accums[id].stagedDelta
        /\ accums'[id].stagedValues = accums[id].stagedValues]_vars

(* Once the reporter is done, every sample polled before its final report  *)
(* began was acknowledged, unless its send in that report failed.          *)
FinalReportDelivers ==
  repPc \in {"done", "shutdown"} =>
    \A id \in ID \ finalFailed : Acked(id) >= atFinal[id]

(* Agent.Run returns after a signal (or the process crashed), whatever the *)
(* final report and its rollbacks have to do.  The one thing that can keep *)
(* it, with the grace period discarded and no timeout in the client, is a  *)
(* request that never ends.                                                *)
StopsAfterSignal == ctxDone ~> (process # "running" \/ []Requesting)

(* A staged metric does not stay staged, unless a request never ends.      *)
StagedIsResolved ==
  \A id \in ID :
    accums[id].isStaged ~>
      (~ accums[id].isStaged \/ process = "crashed" \/ []Requesting)

(* The agent implements the ledger: whatever the interleaving, polling adds *)
(* to what is owed and a successful send acknowledges the oldest part of it *)
(* once.  Nothing else (staging, commit, rollback, failed sends, inserting  *)
(* keys, shutdown) changes the ledger.                                      *)
Ledger == INSTANCE SampleLedger WITH
  Sample <- 0 .. PollLimit,
  owedDelta <- [id \in ID |-> OwedDelta(id)],
  owedValues <- [id \in ID |-> OwedValues(id)]

ImplementsLedger == Ledger!Spec
=============================================================================
