---------------------------- MODULE ServerProofs ----------------------------
(***************************************************************************)
(* Proofs about Server, for every set of metrics, handlers and requests    *)
(* and every number of updates and restarts.                               *)
(*                                                                         *)
(* What GracefulStopPersists and SynchronousStore say of a server at rest  *)
(* rests on what the store in progress has serialised so far (Fresh), and  *)
(* that on nobody else being in store, which is what spoilt records.       *)
(***************************************************************************)
EXTENDS Server, SequenceTheorems, TLAPS

(* Who is in store, and when.                                              *)
ControlOK ==
  /\ \A h \in Handler : Busy(h) <=> hpc[h] \in {"store", "store_batch"}
  /\ Busy("main") <=> phase \in {"closing", "closing_again"}
  /\ synchronous => ~ Busy("ticker")
  /\ phase = "down" =>
       storing = [s \in Storer |-> NotStoring] /\ \A h \in Handler : hpc[h] = "idle"
  /\ phase = "closing" => stopped = "graceful"
  /\ phase \in {"closing", "closing_again"} /\ stopped = "graceful" =>
       \A h \in Handler : hpc[h] = "idle"

(* A store that is not spoilt is alone and has not failed.                 *)
AloneOK ==
  ~ spoilt => /\ \A s, t \in Storer : Busy(s) /\ Busy(t) => s = t
              /\ \A s \in Storer : storing[s].pc # "failed"

(* What the store in progress has done agrees with the memory as it is.    *)
Fresh(st) ==
  /\ st.pc = "serialize" => \A id \in ID \ st.left : st.snap[id] = data[id]
  /\ st.pc = "write" => st.snap = data /\ file = EmptyFile
  /\ st.pc = "stored" => file = data

(* Only a store that has just begun can follow a change of the memory.     *)
Quiet ==
  /\ ~ spoilt /\ \A h \in Handler : hpc[h] # "apply"
  /\ \/ synchronous /\ phase = "serving"
     \/ phase \in {"closing", "closing_again"} /\ stopped = "graceful"

FreshOK ==
  Quiet =>
    /\ \A s \in Storer : Fresh(storing[s])
    /\ (/\ synchronous /\ phase = "serving"
        /\ \A s \in Storer : ~ Busy(s)
        /\ \E h \in Handler : answer[h] = 200) => file = data

(* held has the values of the memory.                                      *)
HeldOK == \A id \in ID : data[id] # Absent => data[id] \in held[id]

ServerInv ==
  /\ TypeOK /\ ControlOK /\ HeldOK /\ FileIsBehind /\ AloneOK /\ FreshOK
  /\ GracefulStopPersists
-----------------------------------------------------------------------------
(* What updates do to the memory.                                          *)

(* d can be what has become of c.                                          *)
Covers(d, c) ==
  c # Absent => d # Absent /\ d.MType = c.MType

Cell == Stored \cup {Absent}

LEMMA StoredFields ==
  /\ \A c \in Cell : c # Absent =>
       /\ c \in Stored /\ c.MType \in {Counter, Gauge}
       /\ c.MType = Counter => c.Val \in Int
  /\ \A v \in Int : [MType |-> Counter, Val |-> v] \in Stored
  /\ \A v \in Int \cup {NaN} : [MType |-> Gauge, Val |-> v] \in Stored
BY DEF Cell, Stored, Counter, Gauge

LEMMA CoversReflexive ==
  ASSUME NEW c \in Cell
  PROVE  Covers(c, c)
BY StoredFields DEF Covers

LEMMA CoversTransitive ==
  ASSUME NEW c \in Cell, NEW d \in Cell, NEW e \in Cell, Covers(d, c), Covers(e, d)
  PROVE  Covers(e, c)
BY StoredFields DEF Covers

(* An update puts a metric of the same type into the place of the one it   *)
(* finds.                                                                  *)
LEMMA AccumulateCovers ==
  ASSUME NEW d \in Snapshot, NEW m \in Metrics(ID)
  PROVE  /\ Accumulate(d, m) \in Snapshot
         /\ \A id \in ID : Covers(Accumulate(d, m)[id], d[id])
<1>1. m.MType = Counter => m.Val \in Int \cup {Nil}
  BY DEF Metrics, Counter, Gauge, Other
<1>2. m.ID \in ID /\ (m.MType = Gauge => m.Val \in Int \cup {Nil, NaN})
  BY DEF Metrics, Counter, Gauge, Other
<1>3. d \in [ID -> Cell]
  BY DEF Snapshot, Cell
<1>4. PICK c \in Cell : c = d[m.ID]
  BY <1>2, <1>3
<1>5. ASSUME NEW v \in Cell, Covers(v, c), Accumulate(d, m) = [d EXCEPT ![m.ID] = v]
      PROVE  /\ Accumulate(d, m) \in Snapshot
             /\ \A id \in ID : Covers(Accumulate(d, m)[id], d[id])
  <2>1. Accumulate(d, m) \in [ID -> Cell]
    BY <1>3, <1>5
  <2>2. ASSUME NEW id \in ID
        PROVE  Covers(Accumulate(d, m)[id], d[id])
    <3>1. CASE id = m.ID
      BY <1>3, <1>4, <1>5, <3>1
    <3>2. CASE id # m.ID
      <4>1. Accumulate(d, m)[id] = d[id] /\ d[id] \in Cell
        BY <1>3, <1>5, <3>2
      <4> QED
        BY <4>1, CoversReflexive
    <3> QED
      BY <3>1, <3>2
  <2> QED
    BY <2>1, <2>2 DEF Snapshot, Cell
<1>6. CASE Accumulate(d, m) = d
  BY <1>3, <1>6, CoversReflexive
<1>7. CASE m.MType = Counter /\ m.Val # Nil /\ ~ Refuses(d, m.ID, Counter)
  <2>1. m.Val \in Int
    BY <1>1, <1>7
  <2>2. c # Absent => c.MType = Counter /\ c.Val \in Int
    BY <1>4, <1>7, StoredFields DEF Refuses
  <2>3. PICK n \in Int : n = (IF c = Absent THEN 0 ELSE c.Val) + m.Val
    BY <2>1, <2>2
  <2>4. Accumulate(d, m) = [d EXCEPT ![m.ID] = [MType |-> Counter, Val |-> n]]
    BY <1>2, <1>3, <1>4, <1>7, <2>3 DEF Accumulate, addCounterInMutex, Counter, Gauge
  <2>5. Covers([MType |-> Counter, Val |-> n], c)
    BY <2>1, <2>2, <2>3, StoredFields, MemAssumption DEF Covers
  <2> QED
    BY <1>5, <2>4, <2>5, StoredFields DEF Cell
<1>8. CASE m.MType = Gauge /\ m.Val # Nil /\ ~ Refuses(d, m.ID, Gauge)
  <2>1. m.Val \in Int \cup {NaN}
    BY <1>2, <1>8
  <2>2. Accumulate(d, m) = [d EXCEPT ![m.ID] = [MType |-> Gauge, Val |-> m.Val]]
    BY <1>8 DEF Accumulate, setGaugeInMutex, Counter, Gauge
  <2>3. c # Absent => c.MType = Gauge
    BY <1>4, <1>8 DEF Refuses
  <2>4. Covers([MType |-> Gauge, Val |-> m.Val], c)
    BY <2>1, <2>3, StoredFields, MemAssumption DEF Covers, Counter, Gauge
  <2> QED
    BY <1>5, <2>1, <2>2, <2>4, StoredFields DEF Cell
<1> QED
  BY <1>6, <1>7, <1>8 DEF Accumulate, addCounterInMutex, setGaugeInMutex, Counter, Gauge
-----------------------------------------------------------------------------
(* The states of a call of store.                                          *)
StorePc == {"idle", "list", "serialize", "write", "stored", "failed"}

StoreState == [pc : StorePc, left : SUBSET ID, snap : Snapshot]

AtPc(pc) == [pc |-> pc, left |-> {}, snap |-> Empty(ID)]

LEMMA EmptyIsSnapshot == Empty(ID) \in Snapshot /\ \A id \in ID : Empty(ID)[id] = Absent
BY DEF Empty, Snapshot

LEMMA StoreForms ==
  /\ NotStoring = AtPc("idle")
  /\ \A pc : [NotStoring EXCEPT !.pc = pc] = AtPc(pc)
  /\ \A pc, S : [NotStoring EXCEPT !.pc = pc, !.left = S]
                  = [pc |-> pc, left |-> S, snap |-> Empty(ID)]
  /\ \A pc \in StorePc : AtPc(pc) \in StoreState
<1>1. NotStoring = AtPc("idle")
  BY DEF NotStoring, AtPc
<1>2. ASSUME NEW pc
      PROVE  [NotStoring EXCEPT !.pc = pc] = AtPc(pc)
  BY DEF NotStoring, AtPc
<1>3. ASSUME NEW pc, NEW S
      PROVE  [NotStoring EXCEPT !.pc = pc, !.left = S]
               = [pc |-> pc, left |-> S, snap |-> Empty(ID)]
  <2>1. [NotStoring EXCEPT !.pc = pc, !.left = S] = [AtPc(pc) EXCEPT !.left = S]
    BY <1>2
  <2> QED
    BY <2>1 DEF AtPc
<1>4. \A pc \in StorePc : AtPc(pc) \in StoreState
  BY EmptyIsSnapshot DEF AtPc, StoreState
<1> QED
  BY <1>1, <1>2, <1>3, <1>4

LEMMA StoreMoves ==
  ASSUME NEW st \in StoreState, NEW id, NEW v \in Cell
  PROVE  /\ [st EXCEPT !.left = @ \ {id}, !.snap[id] = v]
               = [pc |-> st.pc, left |-> st.left \ {id}, snap |-> [st.snap EXCEPT ![id] = v]]
         /\ [st.snap EXCEPT ![id] = v] \in Snapshot
         /\ [st EXCEPT !.pc = "write"]
               = [pc |-> "write", left |-> st.left, snap |-> st.snap]
         /\ st.pc \in StorePc /\ st.left \in SUBSET ID /\ st.snap \in Snapshot
<1>1. st.pc \in StorePc /\ st.left \in SUBSET ID /\ st.snap \in Snapshot
  BY DEF StoreState
<1>2. [st EXCEPT !.left = @ \ {id}, !.snap[id] = v]
        = [pc |-> st.pc, left |-> st.left \ {id}, snap |-> [st.snap EXCEPT ![id] = v]]
  <2>1. PICK pc, left, snap : st = [pc |-> pc, left |-> left, snap |-> snap]
    BY DEF StoreState
  <2>2. [st EXCEPT !.left = @ \ {id}, !.snap[id] = v]
          = [[st EXCEPT !.left = @ \ {id}] EXCEPT !.snap[id] = v]
    OBVIOUS
  <2>3. [st EXCEPT !.left = @ \ {id}] = [pc |-> pc, left |-> left \ {id}, snap |-> snap]
    BY <2>1
  <2>4. PICK r : r = [pc |-> pc, left |-> left \ {id}, snap |-> snap]
    OBVIOUS
  <2>5. [r EXCEPT !.snap[id] = v] = [r EXCEPT !.snap = [snap EXCEPT ![id] = v]]
    BY <2>4
  <2>6. [r EXCEPT !.snap = [snap EXCEPT ![id] = v]]
          = [pc |-> pc, left |-> left \ {id}, snap |-> [snap EXCEPT ![id] = v]]
    BY <2>4
  <2>7. st.pc = pc /\ st.left = left /\ st.snap = snap
    BY <2>1
  <2> QED
    BY <2>2, <2>3, <2>4, <2>5, <2>6, <2>7
<1>3. [st EXCEPT !.pc = "write"] = [pc |-> "write", left |-> st.left, snap |-> st.snap]
  BY DEF StoreState
<1>4. [st.snap EXCEPT ![id] = v] \in Snapshot
  BY <1>1 DEF Snapshot, Cell
<1> QED
  BY <1>1, <1>2, <1>3, <1>4

LEMMA StoringType ==
  ASSUME TypeOK
  PROVE  /\ storing \in [Storer -> StoreState] /\ DOMAIN storing = Storer
         /\ data \in [ID -> Cell] /\ data \in Snapshot
BY DEF TypeOK, StoreState, StorePc, Snapshot, Cell

(* Set changes the call of one goroutine.                                  *)
LEMMA SetOne ==
  ASSUME TypeOK, NEW s \in Storer, NEW st, Set(s, st)
  PROVE  /\ storing'[s] = st /\ \A t \in Storer : t # s => storing'[t] = storing[t]
         /\ st \in StoreState => storing' \in [Storer -> StoreState]
BY StoringType DEF Set

LEMMA Storers ==
  /\ "ticker" \in Storer /\ "main" \in Storer /\ "ticker" # "main"
  /\ Handler \subseteq Storer /\ "ticker" \notin Handler /\ "main" \notin Handler
BY ServerAssumption DEF Storer

-----------------------------------------------------------------------------
(* Types.                                                                  *)

(* What store, the handlers and Run do to the calls of store.              *)
LEMMA StoringStays ==
  ASSUME TypeOK, [Next]_vars
  PROVE  storing' \in [Storer -> StoreState]
<1>1. storing \in [Storer -> StoreState] /\ data \in [ID -> Cell]
  BY StoringType
<1>2. ASSUME NEW s \in Storer, NEW pc \in StorePc, Set(s, AtPc(pc))
      PROVE  storing' \in [Storer -> StoreState]
  BY <1>2, SetOne, StoreForms
<1>3. ASSUME NEW s \in Storer, StoreNext(s)
      PROVE  storing' \in [Storer -> StoreState]
  <2>1. PICK st \in StoreState : st = storing[s]
    BY <1>1
  <2>2. CASE GetAllSorted(s)
    <3>1. PICK S \in SUBSET ID : S = {id \in ID : data[id] # Absent}
      OBVIOUS
    <3>2. Set(s, [pc |-> "serialize", left |-> S, snap |-> Empty(ID)])
      BY <2>2, <3>1, StoreForms DEF GetAllSorted
    <3>3. [pc |-> "serialize", left |-> S, snap |-> Empty(ID)] \in StoreState
      BY EmptyIsSnapshot DEF StoreState, StorePc
    <3> QED
      BY <3>2, <3>3, SetOne
  <2>3. CASE SerializeNext(s)
    <3>1. PICK id : id = Min(storing[s].left)
      OBVIOUS
    <3>2. CASE Fail(s)
      BY <1>2, <3>2, StoreForms DEF Fail, StorePc
    <3>3. CASE Set(s, [st EXCEPT !.left = @ \ {id}, !.snap[id] = data[id]])
      <4>1. [st EXCEPT !.left = @ \ {id}, !.snap[id] = data[id]] \in StoreState
        <5>1. CASE id \in ID
          <6>1. data[id] \in Cell
            BY <1>1, <5>1
          <6> QED
            BY <6>1, StoreMoves DEF StoreState
        <5>2. CASE id \notin ID
          BY <5>2 DEF StoreState, Snapshot
        <5> QED
          BY <5>1, <5>2
      <4> QED
        BY <3>3, <4>1, SetOne
    <3> QED
      BY <2>1, <2>3, <3>1, <3>2, <3>3 DEF SerializeNext
  <2>4. CASE Truncate(s)
    <3>1. CASE Fail(s)
      BY <1>2, <3>1, StoreForms DEF Fail, StorePc
    <3>2. CASE Set(s, [st EXCEPT !.pc = "write"])
      BY <3>2, SetOne DEF StoreState, StorePc
    <3> QED
      BY <2>1, <2>4, <3>1, <3>2 DEF Truncate
  <2>5. CASE Write(s)
    BY <1>2, <2>5, StoreForms DEF Write, Fail, StorePc
  <2> QED
    BY <1>3, <2>2, <2>3, <2>4, <2>5 DEF StoreNext
<1>4. ASSUME NEW s \in Storer, Begin(s)
      PROVE  storing' \in [Storer -> StoreState]
  BY <1>2, <1>4, StoreForms DEF Begin, StorePc
<1>5. ASSUME NEW s \in Storer, Set(s, NotStoring)
      PROVE  storing' \in [Storer -> StoreState]
  BY <1>2, <1>5, StoreForms DEF StorePc
<1>6. CASE Ends
  <2>1. NotStoring \in StoreState
    BY StoreForms DEF StorePc
  <2> QED
    BY <1>6, <2>1 DEF Ends
<1>7. CASE UNCHANGED storing
  BY <1>1, <1>7
<1>8. ASSUME NEW h \in Handler, NEW isBatch, Updated(h, isBatch)
      PROVE  storing' \in [Storer -> StoreState]
  BY <1>4, <1>7, <1>8, Storers DEF Updated
<1>9. ASSUME NEW h \in Handler, NEW m \in Singles, UpdateMetric(h, m)
      PROVE  storing' \in [Storer -> StoreState]
  BY <1>7, <1>8, <1>9 DEF UpdateMetric
<1>10. ASSUME NEW h \in Handler, HandlerNext(h)
       PROVE  storing' \in [Storer -> StoreState]
  BY <1>3, <1>5, <1>7, <1>8, <1>10, Storers
     DEF HandlerNext, ApplyNext, BatchApplied, HandlerStored
<1>11. CASE MainNext
  BY <1>3, <1>4, <1>6, <1>11, Storers
     DEF MainNext, ShutdownReturns, ShutdownTimesOut, CloseAgain, RunReturns, Close
<1>12. CASE TickerFires \/ StoreNext("ticker") \/ TickerStored
  BY <1>3, <1>4, <1>5, <1>12, Storers DEF TickerFires, TickerStored
<1>13. CASE Crash
  BY <1>6, <1>13 DEF Crash
<1> QED
  BY <1>7, <1>9, <1>10, <1>11, <1>12, <1>13
     DEF Next, Start, UpdateBatch, Signal, Terminated, vars
(* No step but the start of a process takes a metric away or changes its   *)
(* type.                                                                   *)
LEMMA DataCovered ==
  ASSUME TypeOK, [Next]_vars, ~ Start
  PROVE  data' \in Snapshot /\ \A id \in ID : Covers(data'[id], data[id])
<1>1. data \in Snapshot /\ data \in [ID -> Cell]
  BY StoringType
<1>2. CASE UNCHANGED data
  BY <1>1, <1>2, CoversReflexive
<1>3. ASSUME NEW m \in Metrics(ID), data' = Accumulate(data, m)
      PROVE  data' \in Snapshot /\ \A id \in ID : Covers(data'[id], data[id])
  BY <1>1, <1>3, AccumulateCovers
<1>4. ASSUME NEW h \in Handler, NEW m \in Singles, UpdateMetric(h, m)
      PROVE  data' = data \/ data' = Accumulate(data, m)
  BY <1>4 DEF UpdateMetric
<1>5. ASSUME NEW h \in Handler, ApplyNext(h)
      PROVE  \E m \in Metrics(ID) : data' = Accumulate(data, m)
  <2>1. todo[h] \in Seq(Metrics(ID)) /\ todo[h] # << >>
    BY <1>5 DEF TypeOK, ApplyNext
  <2>2. Head(todo[h]) \in Metrics(ID)
    BY <2>1, HeadTailProperties
  <2> QED
    BY <1>5, <2>2 DEF ApplyNext
<1>6. Singles \subseteq Metrics(ID)
  BY ServerAssumption
<1>7. ASSUME NEW s \in Storer, StoreNext(s)
      PROVE  UNCHANGED data
  BY <1>7 DEF StoreNext, GetAllSorted, SerializeNext, Truncate, Write
<1>8. CASE MainNext
  BY <1>2, <1>7, <1>8, Storers
     DEF MainNext, ShutdownReturns, ShutdownTimesOut, CloseAgain, RunReturns, Ends
<1>9. ASSUME NEW h \in Handler, HandlerNext(h)
      PROVE  data' \in Snapshot /\ \A id \in ID : Covers(data'[id], data[id])
  BY <1>2, <1>3, <1>5, <1>7, <1>9, Storers
     DEF HandlerNext, BatchApplied, HandlerStored
<1>10. CASE TickerFires \/ StoreNext("ticker") \/ TickerStored
  BY <1>2, <1>7, <1>10, Storers DEF TickerFires, TickerStored
<1> QED
  BY <1>2, <1>3, <1>4, <1>6, <1>8, <1>9, <1>10
     DEF Next, UpdateBatch, Signal, Crash, Ends, Terminated, vars

(* held follows the memory.                                                *)
LEMMA HeldFollows ==
  ASSUME TypeOK, [Next]_vars
  PROVE  \/ UNCHANGED <<data, held>>
         \/ Remember(held)
         \/ Start /\ Remember([id \in ID |-> {}])
<1>1. ASSUME NEW s \in Storer, StoreNext(s)
      PROVE  UNCHANGED <<data, held>>
  BY <1>1 DEF StoreNext, GetAllSorted, SerializeNext, Truncate, Write
<1>2. ASSUME NEW h \in Handler, HandlerNext(h)
      PROVE  UNCHANGED <<data, held>> \/ Remember(held)
  BY <1>1, <1>2, Storers DEF HandlerNext, ApplyNext, BatchApplied, HandlerStored
<1>3. CASE MainNext
  BY <1>1, <1>3, Storers
     DEF MainNext, ShutdownReturns, ShutdownTimesOut, CloseAgain, RunReturns, Ends
<1>4. ASSUME NEW h \in Handler, NEW m \in Singles, UpdateMetric(h, m)
      PROVE  UNCHANGED <<data, held>> \/ Remember(held)
  BY <1>4 DEF UpdateMetric
<1>5. CASE TickerFires \/ StoreNext("ticker") \/ TickerStored
  BY <1>1, <1>5, Storers DEF TickerFires, TickerStored
<1> QED
  BY <1>2, <1>3, <1>4, <1>5
     DEF Next, Start, UpdateBatch, Signal, Crash, Ends, Terminated, vars

(* A process starts with what it can load.                                 *)
LEMMA StartLoads ==
  ASSUME TypeOK, Start
  PROVE  /\ data' \in Snapshot
         /\ Restore /\ file \notin Unreadable => data' = file
<1>1. CASE Restore /\ file \notin Unreadable
  <2>1. file \in Snapshot
    BY <1>1 DEF TypeOK
  <2>2. data' = [id \in ID |-> IF file[id] = Absent THEN Absent ELSE file[id]]
    BY <1>1 DEF Start, SetAll, Empty
  <2> QED
    BY <2>1, <2>2 DEF Snapshot
<1>2. CASE ~ (Restore /\ file \notin Unreadable)
  BY <1>2, EmptyIsSnapshot DEF Start
<1> QED
  BY <1>1, <1>2

LEMMA FileStays ==
  ASSUME TypeOK, [Next]_vars
  PROVE  file' \in Snapshot \cup Unreadable
<1>1. file \in Snapshot \cup Unreadable
  BY DEF TypeOK
<1>2. ASSUME NEW s \in Storer, StoreNext(s)
      PROVE  file' \in Snapshot \cup Unreadable
  <2>1. storing[s].snap \in Snapshot
    BY StoringType DEF StoreState
  <2>2. file' \in {file, EmptyFile, BrokenFile, storing[s].snap}
    BY <1>2 DEF StoreNext, GetAllSorted, SerializeNext, Truncate, Write, WrittenOver
  <2> QED
    BY <1>1, <2>1, <2>2 DEF Unreadable
<1>3. \/ file' \in {file, BrokenFile}
      \/ \E s \in Storer : StoreNext(s)
  BY Storers DEF Next, HandlerNext, MainNext, Start, UpdateMetric, UpdateBatch, ApplyNext,
       BatchApplied, HandlerStored, TickerFires, TickerStored, Signal, ShutdownReturns,
       ShutdownTimesOut, CloseAgain, RunReturns, Crash, Terminated, vars
<1> QED
  BY <1>1, <1>2, <1>3 DEF Unreadable

LEMMA OneChanges ==
  ASSUME NEW A, NEW B, NEW f \in [A -> B], NEW a \in A, NEW b \in B
  PROVE  [f EXCEPT ![a] = b] \in [A -> B]
OBVIOUS

HandlerPc  == {"idle", "apply", "store", "store_batch"}
StatusCode == {0, 200, 400, 500}

(* The variables of the handlers.                                          *)
LEMMA HandlersStay ==
  ASSUME TypeOK, [Next]_vars
  PROVE  /\ mutex' \in Handler \cup {Nobody}
         /\ hpc' \in [Handler -> HandlerPc]
         /\ todo' \in [Handler -> Seq(Metrics(ID))]
         /\ answer' \in [Handler -> StatusCode]
<1> DEFINE Goal == /\ mutex' \in Handler \cup {Nobody}
                   /\ hpc' \in [Handler -> HandlerPc]
                   /\ todo' \in [Handler -> Seq(Metrics(ID))]
                   /\ answer' \in [Handler -> StatusCode]
<1>1. /\ mutex \in Handler \cup {Nobody}
      /\ hpc \in [Handler -> HandlerPc]
      /\ todo \in [Handler -> Seq(Metrics(ID))]
      /\ answer \in [Handler -> StatusCode]
  BY DEF TypeOK, HandlerPc, StatusCode
<1>2. << >> \in Seq(Metrics(ID))
  BY EmptySeq
<1>0. /\ "idle" \in HandlerPc /\ "apply" \in HandlerPc /\ "store" \in HandlerPc
      /\ "store_batch" \in HandlerPc
      /\ 0 \in StatusCode /\ 200 \in StatusCode /\ 400 \in StatusCode /\ 500 \in StatusCode
  BY DEF HandlerPc, StatusCode
<1>3. CASE UNCHANGED <<mutex, hpc, todo, answer>>
  BY <1>1, <1>3
<1>4. CASE Ends
  BY <1>0, <1>1, <1>2, <1>4 DEF Ends
<1>5. CASE Start
  BY <1>0, <1>1, <1>5 DEF Start
<1>6. ASSUME NEW s \in Storer, StoreNext(s)
      PROVE  UNCHANGED <<mutex, hpc, todo, answer>>
  BY <1>6 DEF StoreNext, GetAllSorted, SerializeNext, Truncate, Write
<1>7. ASSUME NEW h \in Handler, NEW m \in Singles, UpdateMetric(h, m)
      PROVE  Goal
  <2>1. mutex' = mutex /\ todo' = todo
    BY <1>7 DEF UpdateMetric
  <2>2. hpc' = hpc \/ hpc' = [hpc EXCEPT ![h] = "store"] \/ hpc' = [hpc EXCEPT ![h] = "idle"]
    BY <1>7 DEF UpdateMetric, Updated
  <2>3. answer' = answer \/ answer' = [answer EXCEPT ![h] = 200] \/ answer' = [answer EXCEPT ![h] = 400]
    BY <1>7 DEF UpdateMetric, Updated, Answer
  <2>4. hpc' \in [Handler -> HandlerPc]
    BY <1>0, <1>1, <2>2, OneChanges, Zenon
  <2>5. answer' \in [Handler -> StatusCode]
    BY <1>0, <1>1, <2>3, OneChanges, Zenon
  <2> QED
    BY <1>0, <1>1, <2>1, <2>4, <2>5
<1>8. ASSUME NEW h \in Handler, NEW metrics \in Batches, UpdateBatch(h, metrics)
      PROVE  Goal
  <2>1. mutex' = mutex \/ mutex' = h
    BY <1>8 DEF UpdateBatch
  <2>2. todo' \in {todo, [todo EXCEPT ![h] = metrics]} /\ metrics \in Seq(Metrics(ID))
    BY <1>8, ServerAssumption DEF UpdateBatch
  <2>3. hpc' = hpc \/ hpc' = [hpc EXCEPT ![h] = "apply"]
    BY <1>8 DEF UpdateBatch
  <2>4. answer' = answer \/ answer' = [answer EXCEPT ![h] = 400]
    BY <1>8 DEF UpdateBatch, Answer
  <2>5. mutex' \in Handler \cup {Nobody} /\ todo' \in [Handler -> Seq(Metrics(ID))]
    BY <1>0, <1>1, <2>1, <2>2
  <2>6. hpc' \in [Handler -> HandlerPc]
    BY <1>0, <1>1, <2>3, OneChanges, Zenon
  <2>7. answer' \in [Handler -> StatusCode]
    BY <1>0, <1>1, <2>4, OneChanges, Zenon
  <2> QED
    BY <2>5, <2>6, <2>7
<1>9. ASSUME NEW h \in Handler, ApplyNext(h)
      PROVE  Goal
  <2>1. Tail(todo[h]) \in Seq(Metrics(ID))
    BY <1>1, <1>9, HeadTailProperties DEF ApplyNext
  <2> QED
    BY <1>1, <1>9, <2>1 DEF ApplyNext
<1>10. ASSUME NEW h \in Handler, BatchApplied(h)
       PROVE  Goal
  <2>1. mutex' = Nobody /\ todo' = todo
    BY <1>10 DEF BatchApplied
  <2>2. hpc' = [hpc EXCEPT ![h] = "store_batch"] \/ hpc' = [hpc EXCEPT ![h] = "idle"]
    BY <1>10 DEF BatchApplied, Updated
  <2>3. answer' = answer \/ answer' = [answer EXCEPT ![h] = 200]
    BY <1>10 DEF BatchApplied, Updated, Answer
  <2>4. hpc' \in [Handler -> HandlerPc]
    BY <1>0, <1>1, <2>2, OneChanges, Zenon
  <2>5. answer' \in [Handler -> StatusCode]
    BY <1>0, <1>1, <2>3, OneChanges, Zenon
  <2> QED
    BY <1>0, <1>1, <2>1, <2>4, <2>5
<1>11. ASSUME NEW h \in Handler, HandlerStored(h)
       PROVE  Goal
  BY <1>0, <1>1, <1>11 DEF HandlerStored, Answer
<1>12. CASE MainNext \/ TickerFires \/ StoreNext("ticker") \/ TickerStored
  <2>1. \/ Ends
        \/ UNCHANGED <<mutex, hpc, todo, answer>>
    BY <1>6, <1>12, Storers
       DEF MainNext, TickerFires, TickerStored, ShutdownReturns, ShutdownTimesOut,
           CloseAgain, RunReturns
  <2> QED
    BY <1>3, <1>4, <2>1
<1>13. CASE \E h \in Handler : HandlerNext(h)
  BY <1>3, <1>6, <1>9, <1>10, <1>11, <1>13, Storers DEF HandlerNext
<1>14. CASE Signal \/ Terminated \/ UNCHANGED vars
  BY <1>3, <1>14 DEF Signal, Terminated, vars
<1> QED
  BY <1>4, <1>5, <1>7, <1>8, <1>12, <1>13, <1>14 DEF Next, Crash

(* The variables of Run and the history.                                   *)
LEMMA RunStays ==
  ASSUME TypeOK, [Next]_vars
  PROVE  /\ phase' \in {"down", "serving", "shutdown", "closing", "closing_again"}
         /\ synchronous' \in BOOLEAN /\ spoilt' \in BOOLEAN
         /\ stopped' \in {"never", "graceful", "timeout", "crash"}
         /\ updates' \in Nat /\ starts' \in Nat
<1>1. spoilt' \in BOOLEAN
  <2>1. ASSUME NEW s, StoreNext(s)
        PROVE  spoilt' \in {spoilt, TRUE}
    BY <2>1 DEF StoreNext, GetAllSorted, SerializeNext, Truncate, Write, Fail
  <2>2. \/ spoilt' \in {spoilt, TRUE, FALSE}
        \/ \E s : Begin(s)
    BY <2>1
       DEF Next, HandlerNext, MainNext, Start, UpdateMetric, UpdateBatch, ApplyNext,
           BatchApplied, HandlerStored, TickerFires, TickerStored, Signal, Updated,
           ShutdownReturns, ShutdownTimesOut, CloseAgain, RunReturns, Crash, Ends, Close,
           Terminated, vars
  <2>3. ASSUME NEW s, Begin(s)
        PROVE  spoilt' \in BOOLEAN
    BY <2>3 DEF Begin
  <2>4. spoilt \in BOOLEAN
    BY DEF TypeOK
  <2> QED
    BY <2>2, <2>3, <2>4
<1>2. ASSUME NEW s, StoreNext(s)
      PROVE  UNCHANGED <<phase, synchronous, stopped, updates, starts>>
  BY <1>2 DEF StoreNext, GetAllSorted, SerializeNext, Truncate, Write
<1>3. synchronous' \in BOOLEAN
  BY <1>2, ServerAssumption
     DEF TypeOK, Next, HandlerNext, MainNext, Start, UpdateMetric, UpdateBatch, ApplyNext,
         BatchApplied, HandlerStored, TickerFires, TickerStored, Signal, ShutdownReturns,
         ShutdownTimesOut, CloseAgain, RunReturns, Crash, Ends, Terminated, vars
<1>4. phase' \in {phase, "down", "serving", "shutdown", "closing", "closing_again"}
  BY <1>2
      DEF Next, HandlerNext, MainNext, Start, UpdateMetric, UpdateBatch, ApplyNext,
          BatchApplied, HandlerStored, TickerFires, TickerStored, Signal, ShutdownReturns,
          ShutdownTimesOut, CloseAgain, RunReturns, Crash, Ends, Close, Terminated, vars
<1>5. stopped' \in {stopped, "graceful", "timeout", "crash"}
  BY <1>2
      DEF Next, HandlerNext, MainNext, Start, UpdateMetric, UpdateBatch, ApplyNext,
          BatchApplied, HandlerStored, TickerFires, TickerStored, Signal, ShutdownReturns,
          ShutdownTimesOut, CloseAgain, RunReturns, Crash, Ends, Terminated, vars
<1>6. updates' = updates \/ updates' = updates + 1
  BY <1>2
      DEF Next, HandlerNext, MainNext, Start, UpdateMetric, UpdateBatch, ApplyNext,
          BatchApplied, HandlerStored, TickerFires, TickerStored, Signal, ShutdownReturns,
          ShutdownTimesOut, CloseAgain, RunReturns, Crash, Ends, Receives, Terminated, vars
<1>7. starts' = starts \/ starts' = starts + 1
  BY <1>2
      DEF Next, HandlerNext, MainNext, Start, UpdateMetric, UpdateBatch, ApplyNext,
          BatchApplied, HandlerStored, TickerFires, TickerStored, Signal, ShutdownReturns,
          ShutdownTimesOut, CloseAgain, RunReturns, Crash, Ends, Terminated, vars
<1>8. /\ phase \in {"down", "serving", "shutdown", "closing", "closing_again"}
      /\ stopped \in {"never", "graceful", "timeout", "crash"}
      /\ updates \in Nat /\ starts \in Nat
  BY DEF TypeOK
<1> QED
  BY <1>1, <1>3, <1>4, <1>5, <1>6, <1>7, <1>8

LEMMA HeldStep ==
  ASSUME TypeOK, HeldOK, [Next]_vars
  PROVE  /\ HeldOK'
         /\ ~ Start => \A id \in ID : held[id] \subseteq held'[id]
<1>1. CASE UNCHANGED <<data, held>>
  BY <1>1 DEF HeldOK
<1>2. CASE Remember(held)
  BY <1>2 DEF HeldOK, Remember
<1>3. CASE Start /\ Remember([id \in ID |-> {}])
  BY <1>3 DEF HeldOK, Remember
<1> QED
  BY <1>1, <1>2, <1>3, HeldFollows

LEMMA HeldType ==
  ASSUME TypeOK, [Next]_vars, data' \in Snapshot
  PROVE  held' \in [ID -> SUBSET Stored]
<1>1. held \in [ID -> SUBSET Stored]
  BY DEF TypeOK
<1>2. \A id \in ID : {data'[id]} \ {Absent} \subseteq Stored
  BY DEF Snapshot
<1>3. ASSUME NEW h \in [ID -> SUBSET Stored], Remember(h)
      PROVE  held' \in [ID -> SUBSET Stored]
  BY <1>2, <1>3 DEF Remember
<1>4. [id \in ID |-> {}] \in [ID -> SUBSET Stored]
  OBVIOUS
<1> QED
  BY <1>1, <1>3, <1>4, HeldFollows

LEMMA TypeStep ==
  ASSUME TypeOK, [Next]_vars
  PROVE  TypeOK'
<1>1. data' \in Snapshot
  BY DataCovered, StartLoads
<1>2. storing' \in [Storer -> StoreState]
  BY StoringStays
<1> QED
  BY <1>1, <1>2, HeldType, FileStays, HandlersStay, RunStays
     DEF TypeOK, StoreState, StorePc, HandlerPc, StatusCode
-----------------------------------------------------------------------------
(* The steps of the server.                                                *)
LEMMA Steps ==
  ASSUME [Next]_vars
  PROVE  \/ \E h \in Handler : \/ \E m \in Singles : UpdateMetric(h, m)
                               \/ \E metrics \in Batches : UpdateBatch(h, metrics)
                               \/ ApplyNext(h) \/ BatchApplied(h) \/ HandlerStored(h)
         \/ \E s \in Storer : StoreNext(s)
         \/ TickerFires \/ TickerStored
         \/ Start \/ Signal \/ ShutdownReturns \/ ShutdownTimesOut \/ CloseAgain
         \/ RunReturns \/ Crash
         \/ UNCHANGED vars
<1>1. ASSUME NEW h \in Handler, HandlerNext(h)
      PROVE  \/ ApplyNext(h) \/ BatchApplied(h) \/ HandlerStored(h)
             \/ \E s \in Storer : StoreNext(s)
  BY <1>1, Storers DEF HandlerNext
<1>2. ASSUME MainNext
      PROVE  \/ ShutdownReturns \/ ShutdownTimesOut \/ CloseAgain \/ RunReturns
             \/ \E s \in Storer : StoreNext(s)
  BY <1>2, Storers DEF MainNext
<1> QED
  BY <1>1, <1>2, Storers DEF Next, Terminated

(* Set and Begin, in terms of who is in store.                             *)
LEMMA BusyAfterSet ==
  ASSUME TypeOK, NEW s \in Storer, NEW st, Set(s, st)
  PROVE  /\ Busy(s)' <=> st.pc # "idle"
         /\ \A t \in Storer : t # s => (Busy(t)' <=> Busy(t))
BY SetOne DEF Busy

LEMMA AfterBegin ==
  ASSUME TypeOK, NEW s \in Storer, Begin(s)
  PROVE  /\ storing'[s] = AtPc("list") /\ AtPc("list").pc = "list" /\ Busy(s)'
         /\ \A t \in Storer : t # s => storing'[t] = storing[t] /\ (Busy(t)' <=> Busy(t))
         /\ ~ spoilt' => \A t \in Storer : t # s => ~ Busy(t)
<1>1. Set(s, AtPc("list"))
  BY StoreForms DEF Begin
<1>2. AtPc("list").pc = "list"
  BY DEF AtPc
<1>3. Busy(s)' /\ \A t \in Storer : t # s => (Busy(t)' <=> Busy(t))
  BY <1>1, <1>2, BusyAfterSet
<1>4. ~ spoilt' => \A t \in Storer : t # s => ~ Busy(t)
  BY DEF Begin
<1> QED
  BY <1>1, <1>2, <1>3, <1>4, SetOne

LEMMA AfterReturn ==
  ASSUME TypeOK, NEW s \in Storer, Set(s, NotStoring)
  PROVE  /\ storing'[s].pc = "idle" /\ ~ Busy(s)'
         /\ \A t \in Storer : t # s => storing'[t] = storing[t] /\ (Busy(t)' <=> Busy(t))
<1>1. NotStoring.pc = "idle"
  BY DEF NotStoring
<1> QED
  BY <1>1, SetOne, BusyAfterSet

(* A step of store leaves the memory, the handlers and Run alone.          *)
LEMMA StoreStep ==
  ASSUME TypeOK, NEW s \in Storer, StoreNext(s)
  PROVE  /\ Busy(s) /\ Busy(s)'
         /\ \A t \in Storer : t # s => storing'[t] = storing[t] /\ (Busy(t)' <=> Busy(t))
         /\ UNCHANGED <<data, hpc, phase, synchronous, answer, stopped>>
         /\ ~ spoilt' => ~ spoilt /\ storing'[s].pc # "failed"
<1>1. Busy(s) /\ UNCHANGED <<data, hpc, phase, synchronous, answer, stopped>>
  BY DEF StoreNext, GetAllSorted, SerializeNext, Truncate, Write, Busy
<1>2. PICK st0 \in StoreState : st0 = storing[s]
  BY StoringType
<1>3. PICK st : /\ Set(s, st) /\ st.pc # "idle"
                /\ ~ spoilt' => ~ spoilt /\ st.pc # "failed"
  <2>1. CASE Fail(s)
    <3>1. Set(s, AtPc("failed")) /\ AtPc("failed").pc = "failed" /\ spoilt' = TRUE
      BY <2>1, StoreForms DEF Fail, AtPc
    <3> QED
      BY <3>1
  <2>2. CASE GetAllSorted(s)
    <3>1. PICK S : S = {id \in ID : data[id] # Absent}
      OBVIOUS
    <3>2. /\ Set(s, [pc |-> "serialize", left |-> S, snap |-> Empty(ID)])
          /\ spoilt' = spoilt
      BY <2>2, <3>1, StoreForms DEF GetAllSorted
    <3> QED
      BY <3>2
  <2>3. CASE SerializeNext(s) /\ ~ Fail(s)
    <3>1. PICK id : id = Min(storing[s].left)
      OBVIOUS
    <3>2. /\ Set(s, [st0 EXCEPT !.left = @ \ {id}, !.snap[id] = data[id]])
          /\ spoilt' = spoilt /\ st0.pc = "serialize"
      BY <1>2, <2>3, <3>1 DEF SerializeNext
    <3>3. [st0 EXCEPT !.left = @ \ {id}, !.snap[id] = data[id]].pc = "serialize"
      BY <3>2 DEF StoreState
    <3> QED
      BY <3>2, <3>3
  <2>4. CASE Truncate(s) /\ ~ Fail(s)
    <3>1. Set(s, [st0 EXCEPT !.pc = "write"]) /\ spoilt' = spoilt
      BY <1>2, <2>4 DEF Truncate
    <3>2. [st0 EXCEPT !.pc = "write"].pc = "write"
      BY DEF StoreState
    <3> QED
      BY <3>1, <3>2
  <2>5. CASE Write(s) /\ ~ Fail(s)
    <3>1. Set(s, AtPc("stored")) /\ AtPc("stored").pc = "stored" /\ spoilt' = spoilt
      BY <2>5, StoreForms DEF Write, AtPc
    <3> QED
      BY <3>1
  <2> QED
    BY <2>1, <2>2, <2>3, <2>4, <2>5 DEF StoreNext
<1> QED
  BY <1>1, <1>3, SetOne, BusyAfterSet

(* When the process ends, nobody is in store.                              *)
LEMMA AfterEnds ==
  ASSUME Ends
  PROVE  /\ storing' = [s \in Storer |-> NotStoring]
         /\ \A s \in Storer : storing'[s] = AtPc("idle") /\ ~ Busy(s)'
         /\ \A h \in Handler : hpc'[h] = "idle"
         /\ phase' = "down" /\ UNCHANGED <<data, synchronous, spoilt>>
<1>1. NotStoring = AtPc("idle") /\ AtPc("idle").pc = "idle"
  BY StoreForms DEF AtPc
<1> QED
  BY <1>1 DEF Ends, Busy
-----------------------------------------------------------------------------
(* ControlOK and AloneOK.                                                  *)

(* What Updated does, for UpdateMetric and BatchApplied.                   *)
LEMMA AfterUpdated ==
  ASSUME TypeOK, NEW h \in Handler, NEW isBatch \in BOOLEAN, Updated(h, isBatch)
  PROVE  /\ synchronous => /\ Begin(h) /\ hpc'[h] \in {"store", "store_batch"}
                           /\ answer' = answer
         /\ ~ synchronous => hpc'[h] = "idle" /\ UNCHANGED <<storing, spoilt>>
         /\ \A k \in Handler : k # h => hpc'[k] = hpc[k]
BY DEF TypeOK, Updated

LEMMA DownIsIdle ==
  ASSUME ControlOK, phase = "down"
  PROVE  \A s \in Storer : storing[s].pc = "idle" /\ ~ Busy(s)
BY DEF ControlOK, NotStoring, Busy

LEMMA UpdatedControl ==
  ASSUME TypeOK, ControlOK, NEW h \in Handler, NEW isBatch \in BOOLEAN,
         Updated(h, isBatch), UNCHANGED <<phase, synchronous, stopped>>,
         phase # "down", hpc[h] \in {"idle", "apply"},
         ~ (phase \in {"closing", "closing_again"} /\ stopped = "graceful")
  PROVE  ControlOK'
<1>1. h \in Storer /\ h # "main" /\ h # "ticker" /\ ~ Busy(h)
  BY Storers DEF ControlOK
<1>2. \A k \in Handler : k # h => hpc'[k] = hpc[k]
  BY AfterUpdated
<1>3. CASE synchronous
  <2>1. hpc'[h] \in {"store", "store_batch"} /\ Begin(h)
    BY <1>3, AfterUpdated
  <2>2. Busy(h)' /\ \A t \in Storer : t # h => (Busy(t)' <=> Busy(t))
    BY <1>1, <2>1, AfterBegin
  <2>3. \A k \in Handler : Busy(k)' <=> hpc'[k] \in {"store", "store_batch"}
    BY <1>2, <2>1, <2>2, Storers DEF ControlOK
  <2>4. (Busy("main")' <=> Busy("main")) /\ (Busy("ticker")' <=> Busy("ticker"))
    BY <1>1, <2>2, Storers
  <2> QED
    BY <2>3, <2>4 DEF ControlOK
<1>4. CASE ~ synchronous
  <2>1. hpc'[h] = "idle" /\ storing' = storing
    BY <1>4, AfterUpdated
  <2>2. \A t : Busy(t)' <=> Busy(t)
    BY <2>1 DEF Busy
  <2>3. \A k \in Handler : Busy(k)' <=> hpc'[k] \in {"store", "store_batch"}
    BY <1>1, <1>2, <2>1, <2>2 DEF ControlOK
  <2> QED
    BY <2>2, <2>3 DEF ControlOK
<1> QED
  BY <1>3, <1>4

LEMMA ControlStep ==
  ASSUME TypeOK, ControlOK, [Next]_vars
  PROVE  ControlOK'
<1>1. TypeOK'
  BY TypeStep
<1>2. CASE UNCHANGED vars
  BY <1>2 DEF ControlOK, Busy, vars
<1>3. ASSUME NEW s \in Storer, StoreNext(s)
      PROVE  ControlOK'
  <2>1. phase # "down"
    BY <1>3, StoreStep, DownIsIdle
  <2>2. \A t \in Storer : Busy(t)' <=> Busy(t)
    BY <1>3, StoreStep
  <2> QED
    BY <1>3, <2>1, <2>2, StoreStep, Storers DEF ControlOK
<1>4. CASE Ends
  BY <1>4, AfterEnds, Storers DEF ControlOK
<1>5. CASE Start
  <2>1. \A s \in Storer : ~ Busy(s)
    BY <1>5, DownIsIdle DEF Start
  <2>2. \A s \in Storer : ~ Busy(s)' /\ ~ Busy(s)
    BY <1>5, <2>1 DEF Start, Busy
  <2> QED
    BY <1>5, <2>2, Storers DEF ControlOK, Start
<1>6. CASE Signal
  BY <1>6 DEF ControlOK, Signal, Busy
<1>7. CASE TickerFires
  <2>1. Begin("ticker")
    BY <1>7 DEF TickerFires
  <2> QED
    BY <1>7, <2>1, AfterBegin, Storers DEF ControlOK, TickerFires
<1>8. CASE TickerStored
  <2>1. Set("ticker", NotStoring) /\ Busy("ticker")
    BY <1>8 DEF TickerStored, Returned, Busy
  <2>2. phase # "down"
    BY <2>1, DownIsIdle, Storers
  <2> QED
    BY <1>8, <2>1, <2>2, AfterReturn, Storers DEF ControlOK, TickerStored
<1>9. ASSUME ShutdownReturns \/ ShutdownTimesOut \/ CloseAgain
      PROVE  ControlOK'
  <2>1. Begin("main")
    BY <1>9 DEF ShutdownReturns, ShutdownTimesOut, CloseAgain, Close
  <2>2. /\ Busy("main")' /\ \A t \in Storer : t # "main" => (Busy(t)' <=> Busy(t))
    BY <2>1, AfterBegin, Storers
  <2>3. /\ hpc' = hpc /\ synchronous' = synchronous
        /\ phase' \in {"closing", "closing_again"}
        /\ phase' = "closing" => stopped' = "graceful"
        /\ stopped' = "graceful" => \A h \in Handler : hpc[h] = "idle"
    BY <1>9 DEF ShutdownReturns, ShutdownTimesOut, CloseAgain, Close, ControlOK
  <2> QED
    BY <2>2, <2>3, Storers DEF ControlOK
<1>10. ASSUME NEW h \in Handler, NEW m \in Singles, UpdateMetric(h, m)
       PROVE  ControlOK'
  <2>1. UNCHANGED <<phase, synchronous, stopped>> /\ phase = "serving" /\ hpc[h] = "idle"
    BY <1>10 DEF UpdateMetric, Receives
  <2>2. CASE Updated(h, FALSE)
    BY <2>1, <2>2, UpdatedControl
  <2>3. CASE UNCHANGED <<hpc, storing>>
    BY <2>1, <2>3 DEF ControlOK, Busy
  <2> QED
    BY <1>10, <2>2, <2>3 DEF UpdateMetric
<1>11. ASSUME NEW h \in Handler, NEW metrics \in Batches, UpdateBatch(h, metrics)
       PROVE  ControlOK'
  <2>1. /\ UNCHANGED <<phase, synchronous, stopped, storing>>
        /\ phase = "serving" /\ hpc[h] = "idle"
    BY <1>11 DEF UpdateBatch, Receives
  <2>2. \A k \in Handler : hpc'[k] = hpc[k] \/ (k = h /\ hpc'[k] = "apply")
    <3>1. hpc \in [Handler -> HandlerPc]
      BY DEF TypeOK, HandlerPc
    <3>2. hpc' = hpc \/ hpc' = [hpc EXCEPT ![h] = "apply"]
      BY <1>11 DEF UpdateBatch
    <3> QED
      BY <3>1, <3>2
  <2> QED
    BY <2>1, <2>2 DEF ControlOK, Busy
<1>12. ASSUME NEW h \in Handler, ApplyNext(h)
       PROVE  ControlOK'
  BY <1>12 DEF ControlOK, ApplyNext, Busy
<1>13. ASSUME NEW h \in Handler, BatchApplied(h)
       PROVE  ControlOK'
  <2>1. /\ UNCHANGED <<phase, synchronous, stopped>> /\ hpc[h] = "apply"
        /\ Updated(h, TRUE)
    BY <1>13 DEF BatchApplied
  <2>2. phase # "down" /\ ~ (phase \in {"closing", "closing_again"} /\ stopped = "graceful")
    BY <2>1 DEF ControlOK
  <2> QED
    BY <2>1, <2>2, UpdatedControl
<1>14. ASSUME NEW h \in Handler, HandlerStored(h)
       PROVE  ControlOK'
  <2>1. /\ UNCHANGED <<phase, synchronous, stopped>> /\ Busy(h) /\ Set(h, NotStoring)
        /\ \A k \in Handler : hpc'[k] = IF k = h THEN "idle" ELSE hpc[k]
    BY <1>14 DEF HandlerStored, Returned, Busy, TypeOK
  <2>2. phase # "down"
    BY <2>1, DownIsIdle, Storers
  <2> QED
    BY <2>1, <2>2, AfterReturn, Storers DEF ControlOK
<1> QED
  BY <1>2, <1>3, <1>4, <1>5, <1>6, <1>7, <1>8, <1>9, <1>10, <1>11, <1>12, <1>13, <1>14,
     Steps DEF RunReturns, Crash

LEMMA AloneStep ==
  ASSUME TypeOK, ControlOK, AloneOK, [Next]_vars
  PROVE  AloneOK'
<1> DEFINE Goal == /\ \A s, t \in Storer : Busy(s)' /\ Busy(t)' => s = t
                   /\ \A s \in Storer : storing'[s].pc # "failed"
<1> SUFFICES ASSUME ~ spoilt' PROVE Goal
  BY DEF AloneOK
<1>1. ASSUME NEW s \in Storer, Begin(s)
      PROVE  Goal
  <2>1. /\ storing'[s].pc = "list"
        /\ \A t \in Storer : t # s => ~ Busy(t) /\ ~ Busy(t)' /\ storing'[t] = storing[t]
    BY <1>1, AfterBegin
  <2> QED
    BY <2>1 DEF Busy
<1>2. CASE UNCHANGED <<storing, spoilt>>
  BY <1>2 DEF AloneOK, Busy
<1>3. ASSUME NEW s \in Storer, Set(s, NotStoring), UNCHANGED spoilt
      PROVE  Goal
  <2>1. /\ storing'[s].pc = "idle" /\ ~ Busy(s)'
        /\ \A t \in Storer : t # s => storing'[t] = storing[t] /\ (Busy(t)' <=> Busy(t))
    BY <1>3, AfterReturn
  <2> QED
    BY <1>3, <2>1 DEF AloneOK
<1>4. ASSUME NEW s \in Storer, StoreNext(s)
      PROVE  Goal
  <2>1. ~ spoilt /\ storing'[s].pc # "failed" /\ \A t \in Storer : Busy(t)' <=> Busy(t)
    BY <1>4, StoreStep
  <2>2. \A t \in Storer : t # s => storing'[t] = storing[t]
    BY <1>4, StoreStep
  <2> QED
    BY <2>1, <2>2 DEF AloneOK
<1>5. CASE Ends
  BY <1>5, AfterEnds DEF AtPc
<1>6. CASE Start
  <2>1. \A s \in Storer : storing'[s].pc = "idle"
    BY <1>6, DownIsIdle DEF Start
  <2> QED
    BY <2>1 DEF Busy
<1>7. ASSUME NEW h \in Handler, NEW isBatch \in BOOLEAN, Updated(h, isBatch)
      PROVE  Goal
  BY <1>1, <1>2, <1>7, AfterUpdated, Storers
<1> HIDE DEF Goal
<1>8. ASSUME NEW h \in Handler, NEW m \in Singles, UpdateMetric(h, m)
      PROVE  Goal
  BY <1>2, <1>7, <1>8 DEF UpdateMetric
<1>9. ASSUME NEW h \in Handler, HandlerStored(h)
      PROVE  Goal
  BY <1>3, <1>9, Storers DEF HandlerStored
<1>10. CASE TickerStored
  BY <1>3, <1>10, Storers DEF TickerStored
<1>11. ASSUME TickerFires \/ ShutdownReturns \/ ShutdownTimesOut \/ CloseAgain
       PROVE  Goal
  BY <1>1, <1>11, Storers DEF TickerFires, ShutdownReturns, ShutdownTimesOut, CloseAgain, Close
<1>12. ASSUME NEW h \in Handler, BatchApplied(h)
       PROVE  Goal
  BY <1>7, <1>12 DEF BatchApplied
<1>13. CASE Signal \/ UNCHANGED vars
  BY <1>2, <1>13 DEF Signal, vars
<1>14. ASSUME NEW h \in Handler, ApplyNext(h) \/ \E metrics \in Batches : UpdateBatch(h, metrics)
       PROVE  Goal
  BY <1>2, <1>14 DEF ApplyNext, UpdateBatch
<1> QED
  BY <1>4, <1>5, <1>6, <1>8, <1>9, <1>10, <1>11, <1>12, <1>13, <1>14, Steps
     DEF RunReturns, Crash
-----------------------------------------------------------------------------
(* FileIsBehind.                                                           *)
CoversAll(d, copy) == \A id \in ID : Covers(d[id], copy[id])
Known(h, copy)     == \A id \in ID : copy[id] # Absent => copy[id] \in h[id]

LEMMA BehindNow ==
  FileIsBehind <=>
    (Restore =>
       /\ file \notin Unreadable => CoversAll(data, file) /\ Known(held, file)
       /\ \A s \in Storer : /\ CoversAll(data, storing[s].snap)
                            /\ Known(held, storing[s].snap))
BY DEF FileIsBehind, Behind, CoversAll, Covers, Known

LEMMA BehindNext ==
  FileIsBehind' <=>
    (Restore =>
       /\ file' \notin Unreadable => CoversAll(data', file') /\ Known(held', file')
       /\ \A s \in Storer : /\ CoversAll(data', storing'[s].snap)
                            /\ Known(held', storing'[s].snap))
BY DEF FileIsBehind, Behind, CoversAll, Covers, Known, Unreadable

(* What a step may make of the metrics a store has serialised.             *)
SnapMoves(before, after) ==
  \/ after = before
  \/ after = Empty(ID)
  \/ /\ data' = data
     /\ \E id : after = [before EXCEPT ![id] = data[id]]

LEMMA SetForms ==
  ASSUME NEW t
  PROVE  /\ Begin(t) => Set(t, AtPc("list"))
         /\ Fail(t) => Set(t, AtPc("failed"))
         /\ Write(t) => Set(t, AtPc("stored")) \/ Set(t, AtPc("failed"))
         /\ Set(t, NotStoring) => Set(t, AtPc("idle"))
<1>1. /\ NotStoring = AtPc("idle") /\ [NotStoring EXCEPT !.pc = "list"] = AtPc("list")
      /\ [NotStoring EXCEPT !.pc = "failed"] = AtPc("failed")
      /\ [NotStoring EXCEPT !.pc = "stored"] = AtPc("stored")
  BY StoreForms
<1> QED
  BY <1>1 DEF Begin, Fail, Write

LEMMA SnapStep ==
  ASSUME TypeOK, [Next]_vars, ~ Start, NEW s \in Storer
  PROVE  SnapMoves(storing[s].snap, storing'[s].snap)
<1>1. ASSUME NEW t \in Storer, NEW pc, Set(t, AtPc(pc))
      PROVE  SnapMoves(storing[s].snap, storing'[s].snap)
  <2>1. AtPc(pc).snap = Empty(ID)
    BY DEF AtPc
  <2> QED
    BY <1>1, <2>1, SetOne DEF SnapMoves
<1>2. ASSUME NEW t \in Storer, StoreNext(t)
      PROVE  SnapMoves(storing[s].snap, storing'[s].snap)
  <2>1. PICK st \in StoreState : st = storing[t]
    BY StoringType
  <2>2. CASE Fail(t) \/ Write(t)
    BY <1>1, <2>2, SetForms
  <2>3. CASE GetAllSorted(t)
    <3>1. PICK S : S = {id \in ID : data[id] # Absent}
      OBVIOUS
    <3>2. Set(t, [pc |-> "serialize", left |-> S, snap |-> Empty(ID)])
      BY <2>3, <3>1, StoreForms DEF GetAllSorted
    <3> QED
      BY <3>2, SetOne DEF SnapMoves
  <2>4. CASE SerializeNext(t) /\ ~ Fail(t)
    <3>1. PICK id : id = Min(storing[t].left)
      OBVIOUS
    <3>2. /\ Set(t, [st EXCEPT !.left = @ \ {id}, !.snap[id] = data[id]])
          /\ data' = data
      BY <2>1, <2>4, <3>1 DEF SerializeNext
    <3>3. [st EXCEPT !.left = @ \ {id}, !.snap[id] = data[id]].snap
            = [st.snap EXCEPT ![id] = data[id]]
      BY DEF StoreState
    <3>4. CASE t = s
      BY <2>1, <3>2, <3>3, <3>4, SetOne DEF SnapMoves
    <3>5. CASE t # s
      BY <3>2, <3>5, SetOne DEF SnapMoves
    <3> QED
      BY <3>4, <3>5
  <2>5. CASE Truncate(t) /\ ~ Fail(t)
    <3>1. Set(t, [st EXCEPT !.pc = "write"])
      BY <2>1, <2>5 DEF Truncate
    <3>2. [st EXCEPT !.pc = "write"].snap = st.snap
      BY DEF StoreState
    <3> QED
      BY <2>1, <3>1, <3>2, SetOne DEF SnapMoves
  <2> QED
    BY <1>2, <2>2, <2>3, <2>4, <2>5 DEF StoreNext
<1>3. ASSUME NEW t \in Storer, Begin(t) \/ Set(t, NotStoring)
      PROVE  SnapMoves(storing[s].snap, storing'[s].snap)
  BY <1>1, <1>3, SetForms
<1>4. CASE UNCHANGED storing
  BY <1>4 DEF SnapMoves
<1>5. CASE Ends
  BY <1>5, AfterEnds DEF SnapMoves, AtPc
<1>6. ASSUME NEW h \in Handler, NEW m \in Singles, UpdateMetric(h, m)
      PROVE  SnapMoves(storing[s].snap, storing'[s].snap)
  BY <1>3, <1>4, <1>6, Storers DEF UpdateMetric, Updated
<1>7. ASSUME NEW h \in Handler, BatchApplied(h) \/ HandlerStored(h)
      PROVE  SnapMoves(storing[s].snap, storing'[s].snap)
  BY <1>3, <1>4, <1>7, Storers DEF BatchApplied, Updated, HandlerStored
<1>8. ASSUME NEW h \in Handler, ApplyNext(h) \/ \E metrics \in Batches : UpdateBatch(h, metrics)
      PROVE  SnapMoves(storing[s].snap, storing'[s].snap)
  BY <1>4, <1>8 DEF ApplyNext, UpdateBatch
<1>9. ASSUME \/ TickerFires \/ TickerStored
             \/ ShutdownReturns \/ ShutdownTimesOut \/ CloseAgain
      PROVE  SnapMoves(storing[s].snap, storing'[s].snap)
  BY <1>3, <1>9, Storers
     DEF TickerFires, TickerStored, ShutdownReturns, ShutdownTimesOut, CloseAgain, Close
<1>10. CASE Signal \/ UNCHANGED vars
  BY <1>4, <1>10 DEF Signal, vars
<1> QED
  BY <1>2, <1>5, <1>6, <1>7, <1>8, <1>9, <1>10, Steps DEF RunReturns, Crash

(* The file is left alone, made unreadable, or gets what a store has.      *)
LEMMA FileStep ==
  ASSUME [Next]_vars
  PROVE  \/ file' = file \/ file' \in Unreadable
         \/ \E s \in Storer : file' = storing[s].snap
<1>1. ASSUME NEW s \in Storer, StoreNext(s)
      PROVE  file' = file \/ file' \in Unreadable \/ file' = storing[s].snap
  BY <1>1 DEF StoreNext, GetAllSorted, SerializeNext, Truncate, Write, WrittenOver, Unreadable
<1> QED
  BY <1>1, Steps DEF UpdateMetric, UpdateBatch, ApplyNext, BatchApplied, HandlerStored,
       TickerFires, TickerStored, Start, Signal, ShutdownReturns, ShutdownTimesOut,
       CloseAgain, RunReturns, Crash, Unreadable, vars

LEMMA CoversEmpty ==
  ASSUME NEW d
  PROVE  CoversAll(d, Empty(ID)) /\ Known(d, Empty(ID))
BY EmptyIsSnapshot DEF CoversAll, Covers, Known

LEMMA CoversStay ==
  ASSUME TypeOK, HeldOK, [Next]_vars, ~ Start, NEW copy \in Snapshot,
         CoversAll(data, copy), Known(held, copy)
  PROVE  CoversAll(data', copy) /\ Known(held', copy)
<1>1. ASSUME NEW id \in ID PROVE Covers(data'[id], copy[id])
  <2>1. data[id] \in Cell /\ copy[id] \in Cell
    BY StoringType DEF Snapshot, Cell
  <2>2. data'[id] \in Cell /\ Covers(data'[id], data[id])
    BY DataCovered DEF Snapshot, Cell
  <2>3. Covers(data[id], copy[id])
    BY DEF CoversAll
  <2> QED
    BY <2>1, <2>2, <2>3, CoversTransitive
<1>2. Known(held', copy)
  BY HeldStep DEF Known
<1> QED
  BY <1>1, <1>2 DEF CoversAll

LEMMA BehindStep ==
  ASSUME TypeOK, ControlOK, HeldOK, FileIsBehind, [Next]_vars
  PROVE  FileIsBehind'
<1> SUFFICES ASSUME Restore
             PROVE  /\ file' \notin Unreadable =>
                         CoversAll(data', file') /\ Known(held', file')
                    /\ \A s \in Storer : /\ CoversAll(data', storing'[s].snap)
                                         /\ Known(held', storing'[s].snap)
  BY BehindNext
<1>1. /\ file \notin Unreadable =>
           file \in Snapshot /\ CoversAll(data, file) /\ Known(held, file)
      /\ \A s \in Storer :
           /\ storing[s].snap \in Snapshot
           /\ CoversAll(data, storing[s].snap) /\ Known(held, storing[s].snap)
  BY BehindNow, StoringType DEF TypeOK, StoreState
<1>0. HeldOK'
  BY HeldStep
<1>2. CASE Start
  <2>1. file' = file /\ storing' = storing /\ phase = "down"
    BY <1>2 DEF Start
  <2>2. \A s \in Storer : storing[s].snap = Empty(ID)
    BY <2>1 DEF ControlOK, NotStoring
  <2>3. file' \notin Unreadable => CoversAll(data', file')
    BY <1>1, <1>2, <2>1, StartLoads, CoversReflexive DEF CoversAll, Snapshot, Cell
  <2>4. file' \notin Unreadable => Known(held', file')
    BY <1>0, <1>2, <2>1, StartLoads DEF Known, HeldOK, Unreadable
  <2> QED
    BY <2>1, <2>2, <2>3, <2>4, CoversEmpty
<1>3. CASE ~ Start
  <2>1. file' \notin Unreadable => CoversAll(data', file') /\ Known(held', file')
    BY <1>1, <1>3, FileStep, CoversStay
  <2>2. ASSUME NEW s \in Storer
        PROVE  CoversAll(data', storing'[s].snap) /\ Known(held', storing'[s].snap)
    <3>1. PICK old, new : old = storing[s].snap /\ new = storing'[s].snap
      OBVIOUS
    <3>2. /\ old \in Snapshot /\ CoversAll(data, old) /\ Known(held, old)
          /\ SnapMoves(old, new)
      BY <1>1, <1>3, <3>1, SnapStep
    <3>0. CoversAll(data', old) /\ Known(held', old)
      BY <1>3, <3>2, CoversStay
    <3>3. CASE new = old
      BY <3>0, <3>1, <3>3
    <3>4. CASE new = Empty(ID)
      BY <3>1, <3>4, CoversEmpty
    <3>5. ASSUME NEW k, new = [old EXCEPT ![k] = data[k]], data' = data
          PROVE  CoversAll(data', new) /\ Known(held', new)
      <4> SUFFICES ASSUME NEW id \in ID
                   PROVE  /\ Covers(data'[id], new[id])
                          /\ new[id] # Absent => new[id] \in held'[id]
        BY DEF CoversAll, Known
      <4>1. data[id] \in Cell /\ Covers(data[id], old[id])
        BY <3>2, StoringType DEF CoversAll
      <4>2. new[id] = IF id = k THEN data[id] ELSE old[id]
        BY <3>2, <3>5 DEF Snapshot
      <4>3. Covers(data'[id], new[id])
        BY <3>5, <4>1, <4>2, CoversReflexive
      <4>4. CASE id = k
        BY <1>0, <3>5, <4>2, <4>3, <4>4 DEF HeldOK
      <4>5. CASE id # k
        BY <3>0, <4>2, <4>3, <4>5 DEF Known
      <4> QED
        BY <4>4, <4>5
    <3> QED
      BY <3>1, <3>2, <3>3, <3>4, <3>5 DEF SnapMoves
  <2> QED
    BY <2>1, <2>2
<1> QED
  BY <1>2, <1>3
-----------------------------------------------------------------------------
(* FreshOK and GracefulStopPersists.                                       *)

(* A store that begins owes nothing to what was done before.               *)
LEMMA BeginIsFresh ==
  ASSUME TypeOK, NEW s \in Storer, Begin(s)
  PROVE  FreshOK'
<1> SUFFICES ASSUME ~ spoilt'
             PROVE  /\ \A t \in Storer : Fresh(storing[t])'
                    /\ ~ \A t \in Storer : ~ Busy(t)'
  BY DEF FreshOK, Quiet
<1>1. Busy(s)' /\ storing'[s].pc = "list"
  BY AfterBegin
<1>2. \A t \in Storer : t # s => storing'[t].pc = "idle"
  BY AfterBegin DEF Busy
<1> QED
  BY <1>1, <1>2 DEF Fresh

(* A step of a store that is alone keeps it fresh.                         *)
LEMMA StoreStaysFresh ==
  ASSUME TypeOK, NEW s \in Storer, StoreNext(s), Fresh(storing[s]), ~ spoilt'
  PROVE  Fresh(storing[s])'
<1>1. PICK st \in StoreState : st = storing[s]
  BY StoringType
<1>2. data \in [ID -> Cell] /\ st.snap \in [ID -> Cell] /\ data' = data
  BY StoringType, StoreStep DEF StoreState, Snapshot, Cell
<1>3. CASE GetAllSorted(s)
  <2>1. PICK S : S = {id \in ID : data[id] # Absent}
    OBVIOUS
  <2>2. Set(s, [pc |-> "serialize", left |-> S, snap |-> Empty(ID)])
    BY <1>3, <2>1, StoreForms DEF GetAllSorted
  <2>3. \A id \in ID \ S : Empty(ID)[id] = data[id]
    BY <2>1, EmptyIsSnapshot
  <2>4. storing'[s] = [pc |-> "serialize", left |-> S, snap |-> Empty(ID)]
    BY <2>2, SetOne
  <2> QED
    BY <1>2, <2>3, <2>4 DEF Fresh
<1>4. CASE SerializeNext(s)
  <2>1. PICK id : id = Min(storing[s].left)
    OBVIOUS
  <2>2. /\ Set(s, [st EXCEPT !.left = @ \ {id}, !.snap[id] = data[id]])
        /\ st.pc = "serialize"
    BY <1>1, <1>4, <2>1 DEF SerializeNext, Fail
  <2>3. PICK new : new = [st EXCEPT !.left = @ \ {id}, !.snap[id] = data[id]]
    OBVIOUS
  <2>4. /\ new.pc = "serialize" /\ new.left = st.left \ {id}
        /\ new.snap = [st.snap EXCEPT ![id] = data[id]]
    BY <2>2, <2>3 DEF StoreState
  <2>5. \A k \in ID \ st.left : st.snap[k] = data[k]
    BY <1>1, <2>2 DEF Fresh
  <2>6. \A k \in ID \ new.left : new.snap[k] = data[k]
    BY <1>2, <2>4, <2>5
  <2>7. storing'[s] = new
    BY <2>2, <2>3, SetOne
  <2> QED
    BY <1>2, <2>4, <2>6, <2>7 DEF Fresh
<1>5. CASE Truncate(s)
  <2>1. /\ Set(s, [st EXCEPT !.pc = "write"]) /\ file' = EmptyFile
        /\ st.pc = "serialize" /\ st.left = {}
    BY <1>1, <1>5 DEF Truncate, Fail
  <2>2. \A k \in ID : st.snap[k] = data[k]
    BY <1>1, <2>1 DEF Fresh
  <2>3. st.snap = data
    BY <1>2, <2>2
  <2>4. [st EXCEPT !.pc = "write"].pc = "write" /\ [st EXCEPT !.pc = "write"].snap = st.snap
    BY DEF StoreState
  <2>5. storing'[s] = [st EXCEPT !.pc = "write"]
    BY <2>1, SetOne
  <2> QED
    BY <1>2, <2>1, <2>3, <2>4, <2>5 DEF Fresh
<1>6. CASE Write(s)
  <2>1. st.pc = "write" /\ file' \in WrittenOver(st.snap)
    BY <1>1, <1>6 DEF Write, Fail
  <2>2. st.snap = data /\ file = EmptyFile
    BY <1>1, <2>1 DEF Fresh
  <2>3. file' = data
    BY <2>1, <2>2 DEF WrittenOver
  <2>4. Set(s, AtPc("stored"))
    <3>1. [NotStoring EXCEPT !.pc = "stored"] = AtPc("stored")
      BY StoreForms
    <3> QED
      BY <1>6, <3>1 DEF Write, Fail
  <2>5. storing'[s].pc = "stored"
    BY <2>4, SetOne DEF AtPc
  <2> QED
    BY <1>2, <2>3, <2>5 DEF Fresh
<1> QED
  BY <1>3, <1>4, <1>5, <1>6 DEF StoreNext

LEMMA FreshStep ==
  ASSUME TypeOK, ControlOK, AloneOK, FreshOK, [Next]_vars
  PROVE  FreshOK'
<1>1. CASE UNCHANGED vars
  BY <1>1 DEF FreshOK, Quiet, Fresh, Busy, vars
<1>2. ASSUME NEW s \in Storer, StoreNext(s)
      PROVE  FreshOK'
  <2> SUFFICES ASSUME Quiet'
               PROVE  /\ \A t \in Storer : Fresh(storing[t])'
                      /\ ~ \A t \in Storer : ~ Busy(t)'
    BY DEF FreshOK
  <2>1. ~ spoilt' /\ ~ spoilt /\ Quiet
    BY <1>2, StoreStep DEF Quiet
  <2>2. Fresh(storing[s])'
    BY <1>2, <2>1, StoreStaysFresh DEF FreshOK
  <2>3. \A t \in Storer : t # s => storing'[t].pc = "idle"
    BY <1>2, <2>1, StoreStep DEF AloneOK, Busy
  <2>4. Busy(s)'
    BY <1>2, StoreStep
  <2> QED
    BY <2>2, <2>3, <2>4 DEF Fresh
<1>3. CASE Ends \/ Signal
  BY <1>3 DEF Ends, Signal, FreshOK, Quiet
<1>4. CASE Start
  <2>1. \A s \in Storer : storing'[s].pc = "idle"
    BY <1>4, DownIsIdle DEF Start
  <2>2. \A h \in Handler : answer'[h] # 200
    BY <1>4 DEF Start
  <2> QED
    BY <2>1, <2>2 DEF FreshOK, Fresh
<1>5. CASE TickerFires \/ ShutdownReturns \/ ShutdownTimesOut \/ CloseAgain
  BY <1>5, BeginIsFresh, Storers
     DEF TickerFires, ShutdownReturns, ShutdownTimesOut, CloseAgain, Close
<1>6. CASE TickerStored
  <2>1. Set("ticker", NotStoring) /\ Busy("ticker")
    BY <1>6 DEF TickerStored, Returned, Busy
  <2>2. /\ ~ synchronous /\ (Quiet' => Quiet)
        /\ UNCHANGED <<data, file, synchronous>>
    BY <1>6, <2>1 DEF ControlOK, TickerStored, Quiet
  <2>3. \A t \in Storer : storing'[t].pc = "idle" \/ storing'[t] = storing[t]
    BY <2>1, AfterReturn, Storers
  <2> QED
    BY <2>2, <2>3 DEF FreshOK, Fresh
<1>7. ASSUME NEW h \in Handler, NEW m \in Singles, UpdateMetric(h, m)
      PROVE  FreshOK'
  <2>1. phase' = "serving" /\ synchronous' = synchronous /\ UNCHANGED <<stopped, file>>
    BY <1>7 DEF UpdateMetric, Receives
  <2>2. CASE ~ synchronous
    BY <2>1, <2>2 DEF FreshOK, Quiet
  <2>3. CASE synchronous /\ Updated(h, FALSE)
    BY <2>3, BeginIsFresh, Storers DEF Updated
  <2>4. CASE Answer(h, 400) /\ UNCHANGED <<data, hpc, storing, spoilt>>
    <3>1. \A k \in Handler : answer'[k] = 200 => answer[k] = 200
      BY <2>4 DEF Answer, TypeOK
    <3>2. phase = "serving"
      BY <1>7 DEF UpdateMetric, Receives
    <3> QED
      BY <2>1, <2>4, <3>1, <3>2 DEF FreshOK, Quiet, Fresh, Busy
  <2> QED
    BY <1>7, <2>2, <2>3, <2>4 DEF UpdateMetric
<1>8. ASSUME NEW h \in Handler, NEW metrics \in Batches, UpdateBatch(h, metrics)
      PROVE  FreshOK'
  <2>1. UNCHANGED <<data, file, storing, spoilt, phase, synchronous, stopped>>
    BY <1>8 DEF UpdateBatch
  <2>2. CASE hpc' = [hpc EXCEPT ![h] = "apply"]
    BY <2>2 DEF FreshOK, Quiet, TypeOK
  <2>3. CASE Answer(h, 400) /\ UNCHANGED hpc
    <3>1. \A k \in Handler : answer'[k] = 200 => answer[k] = 200
      BY <2>3 DEF Answer, TypeOK
    <3> QED
      BY <2>1, <2>3, <3>1 DEF FreshOK, Quiet, Fresh, Busy
  <2> QED
    BY <1>8, <2>2, <2>3 DEF UpdateBatch
<1>9. ASSUME NEW h \in Handler, ApplyNext(h)
      PROVE  FreshOK'
  BY <1>9 DEF ApplyNext, FreshOK, Quiet
<1>10. ASSUME NEW h \in Handler, BatchApplied(h)
       PROVE  FreshOK'
  <2>1. CASE synchronous
    BY <1>10, <2>1, BeginIsFresh, Storers DEF BatchApplied, Updated
  <2>2. CASE ~ synchronous
    <3>1. /\ UNCHANGED <<phase, synchronous, stopped>> /\ hpc[h] = "apply"
      BY <1>10 DEF BatchApplied
    <3>2. ~ (phase \in {"closing", "closing_again"} /\ stopped = "graceful")
      BY <3>1 DEF ControlOK
    <3> QED
      BY <2>2, <3>1, <3>2 DEF FreshOK, Quiet
  <2> QED
    BY <2>1, <2>2
<1>11. ASSUME NEW h \in Handler, HandlerStored(h)
       PROVE  FreshOK'
  <2> SUFFICES ASSUME Quiet'
               PROVE  (\A t \in Storer : Fresh(storing[t])') /\ file' = data'
    BY DEF FreshOK
  <2>1. /\ UNCHANGED <<data, file, phase, synchronous, spoilt, stopped>>
        /\ Set(h, NotStoring) /\ Busy(h) /\ storing[h].pc \in {"stored", "failed"}
        /\ \A k \in Handler : k # h => hpc'[k] = hpc[k]
    BY <1>11 DEF HandlerStored, Returned, Busy, TypeOK
  <2>2. hpc[h] # "apply"
    BY <2>1 DEF ControlOK
  <2>3. Quiet
    BY <2>1, <2>2 DEF Quiet
  <2>4. \A t \in Storer : Fresh(storing[t]) /\ storing[t].pc # "failed"
    BY <2>3 DEF FreshOK, AloneOK, Quiet
  <2>5. file = data
    BY <2>1, <2>4, Storers DEF Fresh
  <2>6. \A t \in Storer : storing'[t].pc = "idle" \/ storing'[t] = storing[t]
    BY <2>1, AfterReturn, Storers
  <2> QED
    BY <2>1, <2>4, <2>5, <2>6 DEF Fresh
<1> QED
  BY <1>1, <1>2, <1>3, <1>4, <1>5, <1>6, <1>7, <1>8, <1>9, <1>10, <1>11, Steps
     DEF RunReturns, Crash

LEMMA PersistStep ==
  ASSUME TypeOK, ControlOK, AloneOK, FreshOK, GracefulStopPersists, [Next]_vars
  PROVE  GracefulStopPersists'
<1> SUFFICES ASSUME phase' = "down", stopped' = "graceful", ~ spoilt'
             PROVE  file' = data'
  BY DEF GracefulStopPersists
<1>1. CASE UNCHANGED vars
  BY <1>1 DEF GracefulStopPersists, vars
<1>2. CASE RunReturns
  <2>1. /\ phase = "closing_again" /\ storing["main"].pc \in {"stored", "failed"}
        /\ UNCHANGED <<file, stopped, data, spoilt>>
    BY <1>2 DEF RunReturns, Ends, Returned
  <2>2. Quiet
    BY <2>1 DEF Quiet, ControlOK
  <2>3. Fresh(storing["main"]) /\ storing["main"].pc = "stored"
    BY <2>1, <2>2, Storers DEF FreshOK, AloneOK
  <2> QED
    BY <2>1, <2>3 DEF Fresh
<1>3. CASE Crash \/ Start \/ Signal \/ ShutdownReturns \/ ShutdownTimesOut \/ CloseAgain
  BY <1>3 DEF Crash, Start, Signal, ShutdownReturns, ShutdownTimesOut, CloseAgain, Close
<1>4. ASSUME NEW s \in Storer, Busy(s), phase' = phase
      PROVE  FALSE
  BY <1>4, DownIsIdle
<1>5. ASSUME NEW h \in Handler, hpc[h] # "idle", phase' = phase
      PROVE  FALSE
  BY <1>5 DEF ControlOK
<1>6. ASSUME NEW s \in Storer, StoreNext(s)
      PROVE  FALSE
  BY <1>4, <1>6, StoreStep
<1>7. ASSUME NEW h \in Handler, ApplyNext(h) \/ BatchApplied(h) \/ HandlerStored(h)
      PROVE  FALSE
  <2>1. phase' = phase /\ (hpc[h] # "idle" \/ Busy(h))
    BY <1>7 DEF ApplyNext, BatchApplied, HandlerStored, Returned, Busy
  <2> QED
    BY <1>4, <1>5, <2>1, Storers
<1>8. CASE TickerFires \/ TickerStored
  <2>1. phase' = phase /\ (phase # "down" \/ Busy("ticker"))
    BY <1>8 DEF TickerFires, TickerStored, Returned, Busy
  <2> QED
    BY <1>4, <2>1, Storers
<1>9. ASSUME NEW h \in Handler,
             \/ \E m \in Singles : UpdateMetric(h, m)
             \/ \E metrics \in Batches : UpdateBatch(h, metrics)
      PROVE  FALSE
  BY <1>9 DEF UpdateMetric, UpdateBatch, Receives
<1> QED
  BY <1>1, <1>2, <1>3, <1>6, <1>7, <1>8, <1>9, Steps

LEMMA ServerInit == Init => ServerInv
<1> SUFFICES ASSUME Init PROVE ServerInv
  OBVIOUS
<1>1. NotStoring \in StoreState /\ NotStoring = AtPc("idle")
  BY StoreForms DEF StorePc
<1>2. \A s \in Storer : storing[s] = AtPc("idle") /\ storing[s].pc = "idle"
                       /\ storing[s].snap = Empty(ID)
  BY <1>1 DEF Init, AtPc
<1>3. TypeOK
  <2>1. storing \in [Storer -> StoreState]
    BY <1>1 DEF Init
  <2>2. todo \in [Handler -> Seq(Metrics(ID))]
    BY EmptySeq DEF Init
  <2>3. data \in Snapshot /\ file \in Snapshot \cup Unreadable
    BY EmptyIsSnapshot DEF Init, Unreadable
  <2> QED
    BY <2>1, <2>2, <2>3 DEF Init, TypeOK, StoreState, StorePc
<1>4. ControlOK
  BY <1>2, Storers DEF Init, ControlOK, Busy
<1>5. FileIsBehind /\ HeldOK
  BY <1>2, BehindNow, CoversEmpty, EmptyIsSnapshot DEF Init, Unreadable, HeldOK
<1>6. AloneOK
  BY <1>2 DEF AloneOK, Busy
<1>7. FreshOK /\ GracefulStopPersists
  BY DEF Init, FreshOK, Quiet, GracefulStopPersists
<1> QED
  BY <1>3, <1>4, <1>5, <1>6, <1>7 DEF ServerInv

-----------------------------------------------------------------------------
(* ServerInv is an invariant of the server with a file storage.            *)
THEOREM ServerInvariant == Spec => []ServerInv
<1>1. ASSUME ServerInv, [Next]_vars
      PROVE  ServerInv'
  <2>1. /\ TypeOK /\ ControlOK /\ HeldOK /\ FileIsBehind /\ AloneOK /\ FreshOK
        /\ GracefulStopPersists
    BY <1>1 DEF ServerInv
  <2> QED
    BY <1>1, <2>1, TypeStep, ControlStep, HeldStep, BehindStep, AloneStep, FreshStep,
       PersistStep
       DEF ServerInv
<1> QED
  BY <1>1, ServerInit, PTL DEF Spec

(* Every variable of the server keeps the type of its Go counterpart, also *)
(* across crashes, restarts and whatever the file holds.                   *)
THEOREM TypeCorrect == Spec => []TypeOK
<1>1. ServerInv => TypeOK
  BY DEF ServerInv
<1> QED
  BY <1>1, ServerInvariant, PTL

(* With restore on, a file that can be loaded holds of every metric a      *)
(* value that the metric has had in the memory, with its type, whichever   *)
(* goroutines are in FileStorage.store at once and wherever the process    *)
(* crashes.                                                                *)
THEOREM FileNeverAhead == Spec => []FileIsBehind
<1>1. ServerInv => FileIsBehind
  BY DEF ServerInv
<1> QED
  BY <1>1, ServerInvariant, PTL

(* A graceful stop leaves the whole memory in the file, unless its last    *)
(* store failed or met another one.                                        *)
THEOREM GracefulStopIsDurable == Spec => []GracefulStopPersists
<1>1. ServerInv => GracefulStopPersists
  BY DEF ServerInv
<1> QED
  BY <1>1, ServerInvariant, PTL

(* A synchronous storage at rest has every update it answered with 200 in  *)
(* the file, unless its last store failed or met another one.              *)
THEOREM AnsweredIsStored == Spec => []SynchronousStore
<1>1. ServerInv => SynchronousStore
  <2> SUFFICES ASSUME ServerInv, synchronous, phase = "serving", ~ spoilt,
                      \A h \in Handler : hpc[h] = "idle",
                      \E h \in Handler : answer[h] = 200
               PROVE  file = data
    BY DEF SynchronousStore
  <2>1. ControlOK /\ FreshOK
    BY DEF ServerInv
  <2>2. \A s \in Storer : ~ Busy(s)
    BY <2>1 DEF ControlOK, Storer
  <2>3. Quiet
    BY DEF Quiet
  <2> QED
    BY <2>1, <2>2, <2>3 DEF FreshOK
<1> QED
  BY <1>1, ServerInvariant, PTL
=============================================================================
