------------------------------- MODULE Server -------------------------------
(***************************************************************************)
(* The server with a file storage: request handlers, the service layer,    *)
(* FileStorage over MemStorage, the store ticker, Run's shutdown, crashes  *)
(* and restarts (internal/handler/handlers.go, service/metrics.go,         *)
(* repository/filestorage.go, server/server.go).                           *)
(*                                                                         *)
(* FileStorage.store takes no lock of its own: it lists pointers to the    *)
(* live metrics under ms.mutex, serialises them one by one after releasing *)
(* it, and os.WriteFile truncates and then writes.  Every handler of a     *)
(* synchronous storage, the ticker goroutine and Run's Close may be inside *)
(* it at once.                                                             *)
(***************************************************************************)
EXTENDS MemStorage, FiniteSets, FiniteSetsExt

CONSTANTS
  ID,            \* ranks of metric names
  Handler,       \* request handler goroutines
  Singles,       \* metrics that single-update requests carry
  Batches,       \* metric sequences that batch requests carry
  Modes,         \* whether StoreIntervalSec = 0, for the processes to start
  Restore,       \* RestoreOnStartup
  NoFile,        \* the file does not exist
  EmptyFile,     \* the file is truncated
  BrokenFile,    \* the file holds something json.Unmarshal refuses
  Nobody,        \* ms.mutex is free
  UpdateLimit,   \* bound: update requests
  StartLimit     \* bound: starts of the process

ASSUME ServerAssumption ==
  /\ ID \subseteq Nat
  /\ Singles \subseteq Metrics(ID) /\ Batches \subseteq Seq(Metrics(ID))
  /\ Modes \subseteq BOOLEAN /\ Restore \in BOOLEAN
  /\ UpdateLimit \in Nat /\ StartLimit \in Nat
  /\ Handler \cap {"ticker", "main", Nobody} = {}

VARIABLES
  data,      \* MemStorage.data (of the process that ran last, when none runs)
  mutex,     \* the goroutine that holds ms.mutex across steps
  file,      \* the storage file
  hpc,       \* where each handler is
  todo,      \* what a batch handler has still to apply
  storing,   \* what each goroutine that may call store does in it
  phase,     \* where Run is; "down" when no process runs
  synchronous,  \* StoreIntervalSec = 0 in the process that runs
  \* history
  held,      \* the values each metric has had in this process
  answer,    \* the status code of each handler's last answer, 0 before it
  spoilt,    \* the last store to begin met another one or failed
  stopped,   \* how the last process ended
  updates, starts

vars == <<data, mutex, file, hpc, todo, storing, phase, synchronous, held,
          answer, spoilt, stopped, updates, starts>>

Storer == Handler \cup {"ticker", "main"}

Snapshot == [ID -> Stored \cup {Absent}]
Unreadable == {NoFile, EmptyFile, BrokenFile}

(* store is a program counter, the IDs listed and not yet serialised, and  *)
(* the metrics serialised so far.                                          *)
NotStoring == [pc |-> "idle", left |-> {}, snap |-> Empty(ID)]
Busy(s)    == storing[s].pc # "idle"

Init ==
  /\ data = Empty(ID) /\ mutex = Nobody
  /\ file = NoFile
  /\ hpc = [h \in Handler |-> "idle"] /\ todo = [h \in Handler |-> << >>]
  /\ storing = [s \in Storer |-> NotStoring]
  /\ phase = "down" /\ synchronous = FALSE
  /\ held = [id \in ID |-> {}] /\ answer = [h \in Handler |-> 0]
  /\ spoilt = FALSE /\ stopped = "never"
  /\ updates = 0 /\ starts = 0

(* The values in the memory after the step join those in h.                *)
Remember(h) == held' = [id \in ID |-> h[id] \cup ({data'[id]} \ {Absent})]

(* NewFileStorage: a file that cannot be loaded is logged, and the storage *)
(* starts empty.  The listening server follows.                            *)
Start ==
  /\ phase = "down" /\ starts < StartLimit
  /\ data' = IF Restore /\ file \notin Unreadable THEN SetAll(Empty(ID), file)
                                                  ELSE Empty(ID)
  /\ Remember([id \in ID |-> {}])
  /\ phase' = "serving"
  /\ synchronous' \in Modes
  /\ starts' = starts + 1
  /\ spoilt' = FALSE
  /\ answer' = [h \in Handler |-> 0]
  /\ UNCHANGED <<mutex, file, hpc, todo, storing, stopped, updates>>

-----------------------------------------------------------------------------
(* FileStorage.store, for any goroutine s that is in it.                   *)

Set(s, st) == storing' = [storing EXCEPT ![s] = st]

Begin(s) ==
  /\ Set(s, [NotStoring EXCEPT !.pc = "list"])
  /\ spoilt' = \E other \in Storer \ {s} : Busy(other)

Fail(s) ==
  /\ Set(s, [NotStoring EXCEPT !.pc = "failed"])
  /\ spoilt' = TRUE

GetAllSorted(s) ==
  /\ storing[s].pc = "list" /\ mutex = Nobody
  /\ Set(s, [NotStoring EXCEPT !.pc = "serialize",
                               !.left = {id \in ID : data[id] # Absent}])
  /\ UNCHANGED <<data, held, mutex, file, hpc, todo, phase, synchronous,
                 answer, spoilt, stopped, updates, starts>>

(* One json.Marshal, of what the live metric holds now.                    *)
SerializeNext(s) ==
  /\ storing[s].pc = "serialize" /\ storing[s].left # {}
  /\ LET id == Min(storing[s].left)
     IN  IF data[id].Val = NaN
           THEN Fail(s)
           ELSE /\ Set(s, [storing[s] EXCEPT !.left = @ \ {id}, !.snap[id] = data[id]])
                /\ UNCHANGED spoilt
  /\ UNCHANGED <<data, held, mutex, file, hpc, todo, phase, synchronous,
                 answer, stopped, updates, starts>>

(* os.WriteFile: open with O_TRUNC, then write.  Either may fail.          *)
Truncate(s) ==
  /\ storing[s].pc = "serialize" /\ storing[s].left = {}
  /\ \/ /\ Set(s, [storing[s] EXCEPT !.pc = "write"])
        /\ file' = EmptyFile
        /\ UNCHANGED spoilt
     \/ Fail(s) /\ UNCHANGED file
  /\ UNCHANGED <<data, held, mutex, hpc, todo, phase, synchronous, answer,
                 stopped, updates, starts>>

(* The bytes go to the start of the file.  Where another store has written *)
(* since the truncation, the end of a longer text remains behind them.     *)
WrittenOver(snap) ==
  IF file \in {EmptyFile, snap} THEN {snap} ELSE {snap, BrokenFile}

Write(s) ==
  /\ storing[s].pc = "write"
  /\ \/ /\ file' \in WrittenOver(storing[s].snap)
        /\ Set(s, [NotStoring EXCEPT !.pc = "stored"])
        /\ UNCHANGED spoilt
     \/ /\ file' \in {file, BrokenFile}
        /\ Fail(s)
  /\ UNCHANGED <<data, held, mutex, hpc, todo, phase, synchronous, answer,
                 stopped, updates, starts>>

StoreNext(s) == GetAllSorted(s) \/ SerializeNext(s) \/ Truncate(s) \/ Write(s)

Returned(s) == storing[s].pc \in {"stored", "failed"}

(* The ticker goroutine: it outlives Shutdown and Close, and a failed      *)
(* store is logged.                                                        *)
TickerFires ==
  /\ ~ synchronous
  /\ phase # "down" /\ ~ Busy("ticker")
  /\ Begin("ticker")
  /\ UNCHANGED <<data, held, mutex, file, hpc, todo, phase, synchronous,
                 answer, stopped, updates, starts>>

TickerStored ==
  /\ Returned("ticker")
  /\ Set("ticker", NotStoring)
  /\ UNCHANGED <<data, held, mutex, file, hpc, todo, phase, synchronous,
                 answer, spoilt, stopped, updates, starts>>

-----------------------------------------------------------------------------
(* Update requests.                                                        *)

Answer(h, statusCode) == answer' = [answer EXCEPT ![h] = statusCode]

(* Faulty variant: BatchUpdate does not store.                             *)
Updated_NoBatchStore(h, isBatch) ==
  IF synchronous /\ ~ isBatch
    THEN /\ hpc' = [hpc EXCEPT ![h] = "store"]
         /\ Begin(h)
         /\ UNCHANGED answer
    ELSE /\ hpc' = [hpc EXCEPT ![h] = "idle"]
         /\ Answer(h, 200)
         /\ UNCHANGED <<storing, spoilt>>

(* The memory is updated: a synchronous storage stores next, another one   *)
(* answers 200.                                                            *)
Updated(h, isBatch) ==
  IF synchronous
    THEN /\ hpc' = [hpc EXCEPT ![h] = IF isBatch THEN "store_batch" ELSE "store"]
         /\ Begin(h)
         /\ UNCHANGED answer
    ELSE /\ hpc' = [hpc EXCEPT ![h] = "idle"]
         /\ Answer(h, 200)
         /\ UNCHANGED <<storing, spoilt>>

Receives(h) ==
  /\ phase = "serving" /\ hpc[h] = "idle" /\ mutex = Nobody
  /\ updates < UpdateLimit
  /\ updates' = updates + 1

(* updateByPath and updateByBody, AccumulateMetric, AddCounter / SetGauge. *)
UpdateMetric(h, m) ==
  /\ Receives(h)
  /\ IF ~ WellFormed(m) \/ Refuses(data, m.ID, m.MType)
       THEN /\ Answer(h, 400)
            /\ UNCHANGED <<data, held, hpc, storing, spoilt>>
       ELSE /\ data' = Accumulate(data, m) /\ Remember(held)
            /\ Updated(h, FALSE)
  /\ UNCHANGED <<mutex, file, todo, phase, synchronous, stopped, starts>>

(* updateBatch, BatchAccumulateMetrics, BatchUpdate.  The loop holds the   *)
(* mutex, which does not hold back a serialising store.                    *)
UpdateBatch(h, metrics) ==
  /\ Receives(h)
  /\ IF ~ BatchIsValid(data, metrics)
       THEN /\ Answer(h, 400)
            /\ UNCHANGED <<mutex, hpc, todo>>
       ELSE /\ mutex' = h
            /\ todo' = [todo EXCEPT ![h] = metrics]
            /\ hpc' = [hpc EXCEPT ![h] = "apply"]
            /\ UNCHANGED answer
  /\ UNCHANGED <<data, held, file, storing, phase, synchronous, spoilt,
                 stopped, starts>>

ApplyNext(h) ==
  /\ hpc[h] = "apply" /\ todo[h] # << >>
  /\ data' = Accumulate(data, Head(todo[h])) /\ Remember(held)
  /\ todo' = [todo EXCEPT ![h] = Tail(@)]
  /\ UNCHANGED <<mutex, file, hpc, storing, phase, synchronous, answer,
                 spoilt, stopped, updates, starts>>

(* Faulty variant: the mutex is not released.                              *)
BatchApplied_NoUnlock(h) ==
  /\ hpc[h] = "apply" /\ todo[h] = << >>
  /\ Updated(h, TRUE)
  /\ UNCHANGED <<data, held, mutex, file, todo, phase, synchronous, stopped,
                 updates, starts>>

BatchApplied(h) ==
  /\ hpc[h] = "apply" /\ todo[h] = << >>
  /\ mutex' = Nobody
  /\ Updated(h, TRUE)
  /\ UNCHANGED <<data, held, file, todo, phase, synchronous, stopped, updates,
                 starts>>

(* A failed store is ErrStore: processUpdateMetric logs it and goes on to  *)
(* answer 500; updateBatch answers 200 to every error but                  *)
(* ErrIncorrectAccess.                                                     *)
HandlerStored(h) ==
  /\ Returned(h)
  /\ Answer(h, IF storing[h].pc = "failed" /\ hpc[h] = "store" THEN 500 ELSE 200)
  /\ hpc' = [hpc EXCEPT ![h] = "idle"]
  /\ Set(h, NotStoring)
  /\ UNCHANGED <<data, held, mutex, file, todo, phase, synchronous, spoilt,
                 stopped, updates, starts>>

-----------------------------------------------------------------------------
(* Run: a signal, Shutdown, Close, and Close again in a defer.             *)

(* server.Shutdown is called: no request is accepted any more.             *)
Signal ==
  /\ phase = "serving"
  /\ phase' = "shutdown"
  /\ UNCHANGED <<data, held, mutex, file, hpc, todo, storing, synchronous,
                 answer, spoilt, stopped, updates, starts>>

(* Faulty variant: Close leaves the file as the ticker left it.            *)
Close_NoStore(ph) ==
  /\ phase' = ph
  /\ Set("main", [NotStoring EXCEPT !.pc = "stored"])
  /\ UNCHANGED spoilt

Close(ph) ==
  /\ phase' = ph
  /\ Begin("main")

(* Shutdown returns when the last handler has.                             *)
ShutdownReturns ==
  /\ phase = "shutdown"
  /\ \A h \in Handler : hpc[h] = "idle"
  /\ Close("closing")
  /\ stopped' = "graceful"
  /\ UNCHANGED <<data, held, mutex, file, hpc, todo, synchronous, answer,
                 updates, starts>>

(* The grace period ends first: Run returns the error, and the deferred    *)
(* Close runs beside the handlers.                                         *)
ShutdownTimesOut ==
  /\ phase = "shutdown"
  /\ \E h \in Handler : hpc[h] # "idle"
  /\ Close("closing_again")
  /\ stopped' = "timeout"
  /\ UNCHANGED <<data, held, mutex, file, hpc, todo, synchronous, answer,
                 updates, starts>>

CloseAgain ==
  /\ phase = "closing" /\ Returned("main")
  /\ Close("closing_again")
  /\ UNCHANGED <<data, held, mutex, file, hpc, todo, synchronous, answer,
                 stopped, updates, starts>>

(* The process ends, and with it every goroutine.                          *)
Ends ==
  /\ phase' = "down" /\ mutex' = Nobody
  /\ hpc' = [h \in Handler |-> "idle"] /\ todo' = [h \in Handler |-> << >>]
  /\ storing' = [s \in Storer |-> NotStoring]
  /\ UNCHANGED <<data, held, synchronous, answer, spoilt, updates, starts>>

RunReturns ==
  /\ phase = "closing_again" /\ Returned("main")
  /\ UNCHANGED <<file, stopped>>
  /\ Ends

(* A write that a crash interrupts leaves a part of the text.              *)
Crash ==
  /\ phase # "down"
  /\ stopped' = "crash"
  /\ \/ file' = file
     \/ /\ \E s \in Storer : storing[s].pc = "write"
        /\ file' = BrokenFile
  /\ Ends

Terminated ==
  /\ phase = "down" /\ starts = StartLimit
  /\ UNCHANGED vars

HandlerNext(h) ==
  ApplyNext(h) \/ BatchApplied(h) \/ StoreNext(h) \/ HandlerStored(h)

MainNext ==
  \/ StoreNext("main")
  \/ ShutdownReturns \/ ShutdownTimesOut \/ CloseAgain \/ RunReturns

Next ==
  \/ Start
  \/ \E h \in Handler :
       \/ \E m \in Singles : UpdateMetric(h, m)
       \/ \E metrics \in Batches : UpdateBatch(h, metrics)
       \/ HandlerNext(h)
  \/ TickerFires \/ StoreNext("ticker") \/ TickerStored
  \/ Signal \/ MainNext \/ Crash \/ Terminated

Spec == Init /\ [][Next]_vars

(* Go runs every goroutine that can run; ms.mutex is starvation free.      *)
Fairness ==
  /\ \A h \in Handler : SF_vars(HandlerNext(h))
  /\ SF_vars(MainNext)

FairSpec == Spec /\ Fairness

-----------------------------------------------------------------------------
(* Properties.                                                             *)

(* Every variable has the type of its Go counterpart.                      *)
TypeOK ==
  /\ data \in Snapshot
  /\ mutex \in Handler \cup {Nobody}
  /\ file \in Snapshot \cup Unreadable
  /\ hpc \in [Handler -> {"idle", "apply", "store", "store_batch"}]
  /\ todo \in [Handler -> Seq(Metrics(ID))]
  /\ storing \in [Storer ->
       [pc : {"idle", "list", "serialize", "write", "stored", "failed"},
        left : SUBSET ID, snap : Snapshot]]
  /\ phase \in {"down", "serving", "shutdown", "closing", "closing_again"}
  /\ synchronous \in BOOLEAN
  /\ held \in [ID -> SUBSET Stored]
  /\ answer \in [Handler -> {0, 200, 400, 500}]
  /\ spoilt \in BOOLEAN
  /\ stopped \in {"never", "graceful", "timeout", "crash"}
  /\ updates \in Nat /\ starts \in Nat

(* A copy of the metrics is behind the memory: every metric in it is in    *)
(* the memory, with the same type, and has had the copied value there.     *)
Behind(copy) ==
  \A id \in ID : copy[id] # Absent =>
    /\ data[id] # Absent
    /\ data[id].MType = copy[id].MType
    /\ copy[id] \in held[id]

(* With restore on, no interleaving of updates, stores of several          *)
(* goroutines, crashes and restarts puts into a loadable file, or into     *)
(* what a store is about to write, a value that its metric has not had in  *)
(* the memory of the process: a restart takes a metric back to an earlier  *)
(* value of its own, never counts a delta twice and never turns a counter  *)
(* into a gauge.                                                           *)
FileIsBehind ==
  Restore =>
    /\ file \notin Unreadable => Behind(file)
    /\ \A s \in Storer : Behind(storing[s].snap)

(* A graceful stop whose last store failed nowhere and met no other store  *)
(* leaves the whole memory in the file, with every answered update in it.  *)
GracefulStopPersists ==
  (phase = "down" /\ stopped = "graceful" /\ ~ spoilt) => file = data

(* A synchronous storage that is at rest has everything in the file, if    *)
(* the last store to begin did not fail and met no other one: an answer    *)
(* with 200 then means a stored update.                                    *)
SynchronousStore ==
  (synchronous /\ phase = "serving" /\ ~ spoilt
     /\ (\A h \in Handler : hpc[h] = "idle")
     /\ (\E h \in Handler : answer[h] = 200))
    => file = data

(* BatchUpdate validates before it updates: what it has still to apply is  *)
(* never refused.                                                          *)
BatchIsAllOrNothing ==
  \A h \in Handler : hpc[h] = "apply" =>
    \A i \in DOMAIN todo[h] :
      ~ Refuses(data, todo[h][i].ID, todo[h][i].MType)

(* Every request is answered, unless the process ends first, and after a   *)
(* signal the process ends: no store, batch or Close waits for a mutex     *)
(* that is never released.                                                 *)
ServerMakesProgress ==
  /\ \A h \in Handler : hpc[h] # "idle" ~> hpc[h] = "idle"
  /\ phase = "shutdown" ~> phase = "down"
=============================================================================
