---------------------------- MODULE AuditWriter ----------------------------
(***************************************************************************)
(* The audit trail (internal/audit/fswriter.go, httpwriter.go, and         *)
(* MetricsService.notifyAuditors): handlers put an event into the buffer   *)
(* of the FileWriter and then post it to the audit service, a ticker       *)
(* goroutine appends the buffer to the file, and Run closes the writer     *)
(* after a graceful shutdown only.                                         *)
(*                                                                         *)
(* An event is the number of its OnMetricsUpdate.  The file is the         *)
(* sequence of its readable lines; torn says that it ends in a part of a   *)
(* line, which makes the line appended next unreadable.  The content of a  *)
(* Payload is left out, and what the audit service does with it.           *)
(***************************************************************************)
EXTENDS Integers, Sequences, FiniteSets, SequencesExt

CONSTANTS
  Handler,     \* request handler goroutines
  Nobody,      \* bufMutex is free
  EventLimit,  \* bound: audited updates
  FaultLimit,  \* bound: failing writes
  StartLimit   \* bound: starts of the process

ASSUME AuditAssumption ==
  /\ EventLimit \in Nat /\ FaultLimit \in Nat /\ StartLimit \in Nat
  /\ IsFiniteSet(Handler) /\ Handler \cap {"ticker", "main", Nobody} = {}
  /\ Nobody \notin {"ticker", "main"}

VARIABLES
  buf,     \* FileWriter.buf
  mutex,   \* the goroutine that holds bufMutex across steps: one in flush
  tick,    \* timer.C holds a tick
  file, torn,
  hpc,     \* where each handler is: "idle", "storage", "file", "http"
  phase,   \* where Run is; "down" when no process runs
  \* history
  events,    \* events so far
  dropped,   \* events lost by a failed write, or behind a torn line
  unflushed, \* events in the buffer when a process ended
  stopped,   \* how the last process ended
  faults, starts

vars == <<buf, mutex, tick, file, torn, hpc, phase, events, dropped, unflushed, stopped,
          faults, starts>>

Init ==
  /\ buf = << >> /\ mutex = Nobody /\ tick = FALSE
  /\ file = << >> /\ torn = FALSE
  /\ hpc = [h \in Handler |-> "idle"]
  /\ phase = "down"
  /\ events = 0 /\ dropped = {} /\ unflushed = {} /\ stopped = "never"
  /\ faults = 0 /\ starts = 0

(* NewFileWriter and the subscription of the auditors.                     *)
Start ==
  /\ phase = "down" /\ starts < StartLimit
  /\ phase' = "serving"
  /\ starts' = starts + 1
  /\ UNCHANGED <<buf, mutex, tick, file, torn, hpc, events, dropped, unflushed, stopped,
                 faults>>

-----------------------------------------------------------------------------
(* A request handler.                                                      *)

Goes(h, from, to) == hpc[h] = from /\ hpc' = [hpc EXCEPT ![h] = to]

(* A request arrives and calls the storage.                                *)
Update(h) ==
  /\ phase = "serving"
  /\ Goes(h, "idle", "storage")
  /\ events + Cardinality({g \in Handler : hpc[g] \in {"storage", "file"}}) < EventLimit
  /\ UNCHANGED <<buf, mutex, tick, file, torn, phase, events, dropped, unflushed,
                 stopped, faults, starts>>

(* An error of the storage is returned before notifyAuditors.              *)
StorageReturns(h) ==
  /\ Goes(h, "storage", "file") \/ Goes(h, "storage", "idle")
  /\ UNCHANGED <<buf, mutex, tick, file, torn, phase, events, dropped, unflushed,
                 stopped, faults, starts>>

(* Faulty variant: the mutex is not unlocked.                              *)
OnMetricsUpdate_StaysLocked(h) ==
  /\ Goes(h, "file", "http") /\ mutex = Nobody
  /\ mutex' = h
  /\ events' = events + 1
  /\ buf' = Append(buf, events + 1)
  /\ UNCHANGED <<tick, file, torn, phase, dropped, unflushed, stopped, faults, starts>>

(* FileWriter.OnMetricsUpdate.                                             *)
OnMetricsUpdate(h) ==
  /\ Goes(h, "file", "http") /\ mutex = Nobody
  /\ events' = events + 1
  /\ buf' = Append(buf, events + 1)
  /\ UNCHANGED <<mutex, tick, file, torn, phase, dropped, unflushed, stopped, faults,
                 starts>>

(* HTTPWriter.OnMetricsUpdate: the post ends, an error is logged, and the  *)
(* handler answers.                                                        *)
PostReturns(h) ==
  /\ Goes(h, "http", "idle")
  /\ UNCHANGED <<buf, mutex, tick, file, torn, phase, events, dropped, unflushed,
                 stopped, faults, starts>>

-----------------------------------------------------------------------------
(* FileWriter.flush, by the ticker goroutine and by Close.                 *)

(* Faulty variant: the return for an empty buffer leaves the mutex locked. *)
FlushBegins_StaysLocked(s) ==
  /\ mutex = Nobody
  /\ mutex' = s

FlushBegins(s) ==
  /\ mutex = Nobody
  /\ mutex' = IF buf = << >> THEN Nobody ELSE s

(* The lines the file gains when n whole lines of the buffer get to it.    *)
Readable(n) == SubSeq(buf, IF torn THEN 2 ELSE 1, n)

(* Faulty variant: the buffer is kept.                                     *)
Written_KeepsBuffer(n, partOfLine) ==
  /\ file' = file \o Readable(n)
  /\ torn' = IF n = 0 THEN torn \/ partOfLine ELSE partOfLine
  /\ dropped' = dropped
  /\ buf' = buf

(* Faulty variant: the file is opened with O_TRUNC.                        *)
Written_Truncates(n, partOfLine) ==
  /\ file' = SubSeq(buf, 1, n)
  /\ torn' = partOfLine
  /\ dropped' = dropped \cup (ToSet(buf) \ ToSet(SubSeq(buf, 1, n)))
  /\ buf' = << >>

(* os.OpenFile with O_APPEND and f.Write.  An error is logged, and the     *)
(* buffer is emptied all the same: after a failed open (n = 0, the file is *)
(* as it was) and after a part of the write.                               *)
Written(n, partOfLine) ==
  /\ file' = file \o Readable(n)
  /\ torn' = IF n = 0 THEN torn \/ partOfLine ELSE partOfLine
  /\ dropped' = dropped \cup (ToSet(buf) \ ToSet(Readable(n)))
  /\ buf' = << >>

FlushWrites(s) ==
  /\ mutex = s /\ buf # << >>
  /\ \/ Written(Len(buf), FALSE) /\ UNCHANGED faults
     \/ /\ faults < FaultLimit /\ faults' = faults + 1
        /\ \E n \in 0 .. Len(buf) - 1, partOfLine \in BOOLEAN : Written(n, partOfLine)
  /\ mutex' = Nobody

(* Steps of the writer leave the requests and the process alone.           *)
OnlyWriter == UNCHANGED <<hpc, events, unflushed, stopped, starts>>

(* The timer is stopped by Close; a tick already in its channel stays.     *)
TimerFires ==
  /\ phase \in {"serving", "shutdown", "closing"} /\ ~ tick
  /\ tick' = TRUE
  /\ UNCHANGED <<buf, mutex, file, torn, phase, dropped, faults>> /\ OnlyWriter

LoopReceives ==
  /\ tick /\ tick' = FALSE
  /\ FlushBegins("ticker")
  /\ UNCHANGED <<buf, file, torn, phase, dropped, faults>> /\ OnlyWriter

LoopWrites == FlushWrites("ticker") /\ UNCHANGED <<tick, phase>> /\ OnlyWriter

-----------------------------------------------------------------------------
(* Run.                                                                    *)

Signal ==
  /\ phase = "serving" /\ phase' = "shutdown"
  /\ UNCHANGED <<buf, mutex, tick, file, torn, dropped, faults>> /\ OnlyWriter

(* Shutdown returns when the last handler has.                             *)
ShutdownReturns ==
  /\ phase = "shutdown" /\ \A h \in Handler : hpc[h] = "idle"
  /\ phase' = "closing"
  /\ UNCHANGED <<buf, mutex, tick, file, torn, dropped, faults>> /\ OnlyWriter

(* Faulty variant: Close only stops the timer.                             *)
CloseFlushes_StopsOnly ==
  /\ phase = "closing"
  /\ phase' = "closed"
  /\ UNCHANGED <<buf, mutex, tick, file, torn, dropped, faults>> /\ OnlyWriter

(* FileWriter.Close, after the storage's: the timer stops, and flush.      *)
CloseFlushes ==
  /\ phase = "closing"
  /\ FlushBegins("main")
  /\ phase' = IF buf = << >> THEN "closed" ELSE "flushing"
  /\ UNCHANGED <<buf, tick, file, torn, dropped, faults>> /\ OnlyWriter

CloseWrites ==
  /\ FlushWrites("main")
  /\ phase' = "closed"
  /\ UNCHANGED tick /\ OnlyWriter

(* The process ends, and with it every goroutine.                          *)
Ends(how) ==
  /\ phase' = "down" /\ stopped' = how
  /\ hpc' = [h \in Handler |-> "idle"]
  /\ mutex' = Nobody /\ tick' = FALSE
  /\ UNCHANGED <<events, faults, starts>>

LeavesBuffer ==
  /\ unflushed' = unflushed \cup ToSet(buf)
  /\ buf' = << >>
  /\ UNCHANGED <<file, torn, dropped>>

RunReturns == phase = "closed" /\ Ends("graceful") /\ LeavesBuffer

(* The grace period ends first: Run returns the error of Shutdown and the  *)
(* writer is not closed.                                                   *)
ShutdownTimesOut ==
  /\ phase = "shutdown" /\ \E h \in Handler : hpc[h] # "idle"
  /\ Ends("timeout") /\ LeavesBuffer

(* A crash, perhaps with a part of a flush written.                        *)
Crash ==
  /\ phase # "down"
  /\ Ends("crash")
  /\ \/ LeavesBuffer
     \/ /\ mutex # Nobody
        /\ \E n \in 0 .. Len(buf), partOfLine \in BOOLEAN : Written(n, partOfLine)
        /\ UNCHANGED unflushed

Terminated == phase = "down" /\ starts = StartLimit /\ UNCHANGED vars

HandlerNext(h) == StorageReturns(h) \/ OnMetricsUpdate(h) \/ PostReturns(h)

LoopNext == LoopReceives \/ LoopWrites

MainNext == ShutdownReturns \/ CloseFlushes \/ CloseWrites \/ RunReturns

Next ==
  \/ Start
  \/ \E h \in Handler : Update(h) \/ HandlerNext(h)
  \/ TimerFires \/ LoopNext
  \/ Signal \/ MainNext \/ ShutdownTimesOut \/ Crash \/ Terminated

Spec == Init /\ [][Next]_vars

(* The timer keeps firing and Go runs every goroutine that can run; the    *)
(* mutex is starvation free.  Calls of the storage and posts end.          *)
Fairness ==
  /\ \A h \in Handler : SF_vars(HandlerNext(h))
  /\ WF_vars(TimerFires) /\ SF_vars(LoopNext) /\ SF_vars(MainNext)

FairSpec == Spec /\ Fairness

-----------------------------------------------------------------------------
(* Every variable has the type of its Go counterpart.                      *)
TypeOK ==
  /\ buf \in Seq(1 .. events) /\ file \in Seq(1 .. events)
  /\ mutex \in {Nobody, "ticker", "main"}
  /\ tick \in BOOLEAN /\ torn \in BOOLEAN
  /\ hpc \in [Handler -> {"idle", "storage", "file", "http"}]
  /\ phase \in {"down", "serving", "shutdown", "closing", "flushing", "closed"}
  /\ events \in 0 .. EventLimit
  /\ dropped \subseteq 1 .. events /\ unflushed \subseteq 1 .. events
  /\ stopped \in {"never", "graceful", "timeout", "crash"}
  /\ faults \in 0 .. FaultLimit /\ starts \in 0 .. StartLimit

(* Over all processes that wrote the file, its lines and then the buffer   *)
(* are in the order of the updates, and none appears twice.                *)
AuditIsInOrder ==
  LET trail == file \o buf
  IN  \A i, j \in DOMAIN trail : i < j => trail[i] < trail[j]

(* An event is in the file or in the buffer, unless a write that carried   *)
(* it failed, it came behind a torn line, or the process ended before a    *)
(* flush: no interleaving of handlers, ticker and Close loses one.         *)
EventsAreAccountedFor ==
  1 .. events = ToSet(file) \cup ToSet(buf) \cup dropped \cup unflushed

(* A graceful stop leaves nothing in the buffer: Close writes what the     *)
(* last handlers put there.                                                *)
GracefulStopFlushes ==
  [][phase # "down" /\ phase' = "down" /\ stopped' = "graceful"
       => unflushed' = unflushed]_vars

(* A flush holds no handler up for ever, and an event does not stay in the *)
(* buffer.                                                                 *)
BufferIsFlushed ==
  /\ \A h \in Handler : hpc[h] = "file" ~> hpc[h] # "file"
  /\ \A n \in 1 .. EventLimit : n \in ToSet(buf) ~> n \notin ToSet(buf)
=============================================================================
