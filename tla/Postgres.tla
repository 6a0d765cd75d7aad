------------------------------ MODULE Postgres ------------------------------
(***************************************************************************)
(* PostgresDBStorage (internal/repository/dbstorage.go) used by several    *)
(* request handlers at once: single upserts, batches that validate in one  *)
(* query and write in the transaction of another, reads of one metric, and *)
(* listings whose rows arrive one by one, every call under the retry       *)
(* executor (module Retrying).                                             *)
(*                                                                         *)
(* The database is external: READ COMMITTED transactions, a row is locked  *)
(* from its upsert to the end of the transaction, a statement that needs a *)
(* locked row waits, and a cycle of waiting transactions is broken by the  *)
(* error 40P01 for one of them.                                            *)
(***************************************************************************)
EXTENDS MemStorage, Retrying, SequencesExt

CONSTANTS
  ID,         \* metric names
  Handler,    \* request handler goroutines
  Singles,    \* metrics for SetGauge and AddCounter
  Batches,    \* metric sequences for BatchUpdate
  Wanted,     \* IDs for GetByID
  MaxRetries, InitialDelay, DelayIncrease,  \* the retry policy
  CallLimit,  \* bound: calls of the storage
  FaultLimit  \* bound: faults of the connection

policy == [maxRetries |-> MaxRetries, initialDelay |-> InitialDelay,
           delayIncrease |-> DelayIncrease]

(* A row of the table, and a metric of a batch, whose fields are as they   *)
(* were received: nobody has compared them with its type.                  *)
Row == [mtype : {Counter, Gauge, Other}, delta : Int \cup {Nil},
        value : Int \cup {Nil, NaN}]

Received == [ID : ID, MType : {Counter, Gauge, Other}, Delta : Int \cup {Nil},
             Value : Int \cup {Nil, NaN}]

(* The arguments of AddCounter and SetGauge.                               *)
Single == [ID : ID, MType : {Counter}, Delta : Int, Value : {Nil}]
     \cup [ID : ID, MType : {Gauge}, Delta : {Nil}, Value : Int \cup {NaN}]

(* The primary key bounds the length of an ID, so the table has finitely   *)
(* many.                                                                   *)
ASSUME PostgresAssumption ==
  /\ ID \subseteq Nat /\ IsFiniteSet(ID) /\ Wanted \subseteq ID
  /\ Absent \notin Row /\ Absent \notin {Counter, Gauge, Other} /\ Nil \notin Int
  /\ Singles \subseteq Single /\ Batches \subseteq Seq(Received)
  /\ policy \in LinearPolicy
  /\ CallLimit \in Nat /\ FaultLimit \in Nat

VARIABLES
  table,   \* the committed rows of METRICS
  doing,   \* the query each handler is at: "none", "single", "validate", "set",
           \* "get", "list"
  metrics, \* its arguments
  run,     \* its call of retrier.Run
  todo,    \* batchSet: the metrics not yet upserted
  writes,  \* the rows its open transaction has written, and so locked
  rows,    \* GetAllSorted: the rows of an open query that have still to arrive
  read,    \* the rows a read has got so far
  \* history
  access,  \* the call ended with ErrIncorrectAccess
  seen,    \* the types batchValidate found in the table
  since,   \* the committed states there have been since a read was called
  sum,     \* the deltas of the calls that took effect
  spoilt,  \* the IDs a batch wrote without a delta
  calls, faults

reading == <<rows, read, since>>
vars == <<table, doing, metrics, run, todo, writes, access, seen, sum, spoilt, calls,
          faults, reading>>

NotQueried == [open |-> FALSE, left |-> << >>]

Init ==
  /\ table = Empty(ID)
  /\ doing = [h \in Handler |-> "none"]
  /\ metrics = [h \in Handler |-> << >>]
  /\ run = [h \in Handler |-> Run]
  /\ todo = [h \in Handler |-> << >>]
  /\ writes = [h \in Handler |-> Empty(ID)]
  /\ rows = [h \in Handler |-> NotQueried] /\ read = [h \in Handler |-> << >>]
  /\ since = [h \in Handler |-> {}]
  /\ access = [h \in Handler |-> FALSE]
  /\ seen = [h \in Handler |-> Empty(ID)]
  /\ sum = [id \in ID |-> 0]
  /\ spoilt = {}
  /\ calls = 0 /\ faults = 0

-----------------------------------------------------------------------------
(* The statements.                                                         *)

(* The committed types.                                                    *)
Types == [id \in ID |-> IF table[id] = Absent THEN Absent ELSE table[id].mtype]

Coalesce(delta) == IF delta = Nil THEN 0 ELSE delta

Inserted(m) == [mtype |-> m.MType, delta |-> m.Delta, value |-> m.Value]

(* The row AddCounter and SetGauge leave.  Of a row of the other type they *)
(* affect nothing.                                                         *)
UpsertSingle(row, m) ==
  CASE row = Absent                                      -> Inserted(m)
    [] row # Absent /\ row.mtype # m.MType               -> row
    [] row # Absent /\ row.mtype = m.MType /\ m.MType = Counter ->
         [row EXCEPT !.delta = Coalesce(@) + m.Delta]
    [] row # Absent /\ row.mtype = m.MType /\ m.MType = Gauge ->
         [row EXCEPT !.value = m.Value]

(* The row batchSet leaves: type and value are replaced, and a sum with    *)
(* NULL is NULL.                                                           *)
UpsertOfBatch(row, m) ==
  IF row = Absent \/ m.Delta = Nil
    THEN Inserted(m)
    ELSE [Inserted(m) EXCEPT !.delta = Coalesce(row.delta) + @]

(* A row that another transaction has written is locked.                   *)
Free(h, id) == \A g \in Handler \ {h} : writes[g][id] = Absent

(* What h's transaction sees of a row that it may write.                   *)
Current(h, id) == IF writes[h][id] = Absent THEN table[id] ELSE writes[h][id]

-----------------------------------------------------------------------------
(* Calls.                                                                  *)

Begins(h, query, args) ==
  /\ doing[h] = "none" /\ calls < CallLimit
  /\ doing' = [doing EXCEPT ![h] = query]
  /\ metrics' = [metrics EXCEPT ![h] = args]
  /\ run' = [run EXCEPT ![h] = Run]
  /\ access' = [access EXCEPT ![h] = FALSE]
  /\ calls' = calls + 1
  /\ since' = IF query \in {"get", "list"} THEN [since EXCEPT ![h] = {table}]
                                           ELSE since
  /\ UNCHANGED <<table, todo, writes, rows, read, seen, sum, spoilt, faults>>

AddCounterOrSetGauge(h, m) == Begins(h, "single", <<m>>)
BatchUpdate(h, args)       == Begins(h, "validate", args)
GetAllSorted(h)            == Begins(h, "list", << >>)
GetByID(h, id) ==
  Begins(h, "get", <<[ID |-> id, MType |-> Other, Delta |-> Nil, Value |-> Nil]>>)

At(h, query) == doing[h] = query /\ run[h].pc = "call"

FReturns(h, outcome) == run' = [run EXCEPT ![h] = Call(policy, @, outcome)]

(* A read that has not returned may find the rows that are now committed.  *)
Observe ==
  since' = [h \in Handler |-> IF doing[h] \in {"get", "list"}
                                THEN since[h] \cup {table'} ELSE since[h]]

(* The effect of the single statement, and of a batch's commit.            *)
SingleEffect(h) ==
  LET m == metrics[h][1]
      refused == Types[m.ID] \notin {Absent, m.MType}
  IN  /\ Free(h, m.ID)
      /\ table' = [table EXCEPT ![m.ID] = UpsertSingle(@, m)]
      /\ access' = [access EXCEPT ![h] = refused]
      /\ sum' = IF m.MType = Counter /\ ~ refused THEN [sum EXCEPT ![m.ID] = @ + m.Delta]
                                                  ELSE sum
      /\ Observe /\ UNCHANGED spoilt

HasDelta(m) == m.Delta # Nil

(* The sum of the deltas for id of the metrics at these positions: the     *)
(* units of the positive ones, counted, less those of the negative ones.   *)
SumOfDeltas(ms, positions, id) ==
  LET with == {i \in positions : ms[i].ID = id /\ HasDelta(ms[i])}
  IN  Cardinality(UNION {{i} \X (1 .. ms[i].Delta) : i \in with})
        - Cardinality(UNION {{i} \X (1 .. - ms[i].Delta) : i \in with})

(* The metrics for id without a delta.                                     *)
Lacking(ms, positions, id) == {i \in positions : ms[i].ID = id /\ ~ HasDelta(ms[i])}

BatchEffect(h) ==
  LET ms == metrics[h]
  IN  /\ table' = [id \in ID |-> Current(h, id)]
      /\ sum' = [id \in ID |-> sum[id] + SumOfDeltas(ms, DOMAIN ms, id)]
      /\ spoilt' = spoilt \cup {id \in ID : Lacking(ms, DOMAIN ms, id) # {}}
      /\ Observe /\ UNCHANGED access

Exec(h) ==
  /\ At(h, "single")
  /\ SingleEffect(h)
  /\ FReturns(h, "nil")
  /\ UNCHANGED <<doing, metrics, todo, writes, seen, calls, faults, rows, read>>

(* Faulty variant: the types are not compared.                             *)
BatchValidate_Skipped(h) ==
  /\ At(h, "validate")
  /\ FReturns(h, "nil")
  /\ seen' = [seen EXCEPT ![h] = Types]
  /\ UNCHANGED <<table, doing, metrics, todo, writes, access, sum, spoilt, calls,
                 faults, reading>>

(* One query reads every committed type; the lock of a row does not hold   *)
(* it back.                                                                *)
BatchValidate(h) ==
  LET invalid == \E i \in DOMAIN metrics[h] :
                   Types[metrics[h][i].ID] \notin {Absent, metrics[h][i].MType}
  IN  /\ At(h, "validate")
      /\ FReturns(h, IF invalid THEN "final" ELSE "nil")
      /\ access' = [access EXCEPT ![h] = invalid]
      /\ seen' = [seen EXCEPT ![h] = Types]
      /\ UNCHANGED <<table, doing, metrics, todo, writes, sum, spoilt, calls,
                     faults, reading>>

(* The second retrier.Run of BatchUpdate.                                  *)
Validated(h) ==
  /\ doing[h] = "validate" /\ run[h].pc = "returned" /\ run[h].err = "nil"
  /\ doing' = [doing EXCEPT ![h] = "set"]
  /\ run' = [run EXCEPT ![h] = Run]
  /\ todo' = [todo EXCEPT ![h] = metrics[h]]
  /\ UNCHANGED <<table, metrics, writes, access, seen, sum, spoilt, calls, faults,
                 reading>>

(* Faulty variant: the row is read, and later written, without a lock.     *)
TxExec_NoLock(h) ==
  /\ At(h, "set") /\ todo[h] # << >>
  /\ LET m == Head(todo[h])
     IN  writes' = [writes EXCEPT ![h][m.ID] = UpsertOfBatch(Current(h, m.ID), m)]
  /\ todo' = [todo EXCEPT ![h] = Tail(@)]
  /\ UNCHANGED <<table, doing, metrics, run, access, seen, sum, spoilt, calls,
                 faults, reading>>

TxExec(h) ==
  /\ At(h, "set") /\ todo[h] # << >>
  /\ LET m == Head(todo[h])
     IN  /\ Free(h, m.ID)
         /\ writes' = [writes EXCEPT ![h][m.ID] = UpsertOfBatch(Current(h, m.ID), m)]
  /\ todo' = [todo EXCEPT ![h] = Tail(@)]
  /\ UNCHANGED <<table, doing, metrics, run, access, seen, sum, spoilt, calls,
                 faults, reading>>

(* Faulty variant: an error of tx.Exec returns without a rollback: what    *)
(* was written is lost, the locks stay.                                    *)
TxEnds_OnlyIfDone(h) ==
  /\ writes' = [writes EXCEPT ![h] =
       [id \in ID |-> IF todo[h] = << >> \/ @[id] = Absent THEN Absent ELSE table[id]]]
  /\ todo' = [todo EXCEPT ![h] = metrics[h]]
  /\ rows' = [rows EXCEPT ![h] = NotQueried]

(* The deferred Rollback or rows.Close, or the end of the connection,      *)
(* releases the locks; a retry begins a new transaction or a new query.    *)
TxEnds(h) ==
  /\ writes' = [writes EXCEPT ![h] = Empty(ID)]
  /\ todo' = [todo EXCEPT ![h] = metrics[h]]
  /\ rows' = [rows EXCEPT ![h] = NotQueried]

TxCommit(h) ==
  /\ At(h, "set") /\ todo[h] = << >>
  /\ BatchEffect(h)
  /\ TxEnds(h)
  /\ FReturns(h, "nil")
  /\ UNCHANGED <<doing, metrics, seen, calls, faults, read>>

(* SELECT ... ORDER BY id.                                                 *)
Sorted(t) ==
  LET ids == SortedIDs({id \in ID : t[id] # Absent})
  IN  [i \in DOMAIN ids |-> [ID |-> ids[i], row |-> t[ids[i]]]]

(* Faulty variant: the error of row.Scan is not looked at.                 *)
QueryRow_NoErrNoRows(h) ==
  LET id == metrics[h][1].ID
  IN  /\ At(h, "get")
      /\ FReturns(h, "nil")
      /\ read' = [read EXCEPT ![h] = <<[ID |-> id, row |-> table[id]]>>]
      /\ UNCHANGED <<table, doing, metrics, todo, writes, access, seen, sum, spoilt,
                     calls, faults, rows, since>>

(* ErrMetricNotFound is not retryable.                                     *)
QueryRow(h) ==
  LET id == metrics[h][1].ID
  IN  /\ At(h, "get")
      /\ IF table[id] = Absent
           THEN FReturns(h, "final") /\ UNCHANGED read
           ELSE /\ FReturns(h, "nil")
                /\ read' = [read EXCEPT ![h] = <<[ID |-> id, row |-> table[id]]>>]
      /\ UNCHANGED <<table, doing, metrics, todo, writes, access, seen, sum, spoilt,
                     calls, faults, rows, since>>

(* Faulty variant: the list is made once, outside the retried function.    *)
Query_KeepsList(h) ==
  /\ At(h, "list") /\ ~ rows[h].open
  /\ rows' = [rows EXCEPT ![h] = [open |-> TRUE, left |-> Sorted(table)]]
  /\ UNCHANGED <<table, doing, metrics, run, todo, writes, access, seen, sum, spoilt,
                 calls, faults, read, since>>

(* One statement sees one committed state.                                 *)
Query(h) ==
  /\ At(h, "list") /\ ~ rows[h].open
  /\ rows' = [rows EXCEPT ![h] = [open |-> TRUE, left |-> Sorted(table)]]
  /\ read' = [read EXCEPT ![h] = << >>]
  /\ UNCHANGED <<table, doing, metrics, run, todo, writes, access, seen, sum, spoilt,
                 calls, faults, since>>

RowsNext(h) ==
  /\ At(h, "list") /\ rows[h].left # << >>
  /\ rows' = [rows EXCEPT ![h].left = Tail(@)]
  /\ read' = [read EXCEPT ![h] = Append(@, Head(rows[h].left))]
  /\ UNCHANGED <<table, doing, metrics, run, todo, writes, access, seen, sum, spoilt,
                 calls, faults, since>>

RowsEnd(h) ==
  /\ At(h, "list") /\ rows[h].open /\ rows[h].left = << >>
  /\ FReturns(h, "nil")
  /\ TxEnds(h)
  /\ UNCHANGED <<table, doing, metrics, access, seen, sum, spoilt, calls, faults,
                 read, since>>

(* A fault before the effect: a PgError of class 08 is retried, any other  *)
(* error is not.                                                           *)
FailsBefore(h, outcome) ==
  /\ doing[h] # "none" /\ run[h].pc = "call"
  /\ faults < FaultLimit /\ faults' = faults + 1
  /\ TxEnds(h)
  /\ FReturns(h, outcome)
  /\ UNCHANGED <<table, doing, metrics, access, seen, sum, spoilt, calls, read,
                 since>>

(* The connection is lost after the effect and before the answer: no       *)
(* PgError, so not retried.                                                *)
FailsAfter(h) ==
  /\ faults < FaultLimit /\ faults' = faults + 1
  /\ \/ At(h, "single") /\ SingleEffect(h)
     \/ At(h, "set") /\ todo[h] = << >> /\ BatchEffect(h)
  /\ TxEnds(h)
  /\ FReturns(h, "final")
  /\ UNCHANGED <<doing, metrics, seen, calls, read>>

(* g waits for h: its next statement needs a row h has written.            *)
Waits(g, h) ==
  /\ g # h /\ At(g, "set") /\ todo[g] # << >>
  /\ writes[h][Head(todo[g]).ID] # Absent

(* Transactions that wait for each other in a cycle.                       *)
DeadlockDetected(h) ==
  /\ \E cycle \in SUBSET Handler :
       /\ h \in cycle
       /\ \A g \in cycle : (\E k \in cycle : Waits(g, k)) /\ (\E k \in cycle : Waits(k, g))
  /\ TxEnds(h)
  /\ FReturns(h, "final")
  /\ UNCHANGED <<table, doing, metrics, access, seen, sum, spoilt, calls, faults,
                 read, since>>

RetryLoop(h) ==
  /\ doing[h] # "none" /\ run[h].pc = "loop"
  /\ run' = [run EXCEPT ![h] = Loop(policy, @)]
  /\ UNCHANGED <<table, doing, metrics, todo, writes, access, seen, sum, spoilt,
                 calls, faults, reading>>

Returns(h) ==
  /\ doing[h] # "none" /\ run[h].pc = "returned"
  /\ ~ (doing[h] = "validate" /\ run[h].err = "nil")
  /\ doing' = [doing EXCEPT ![h] = "none"]
  /\ todo' = [todo EXCEPT ![h] = << >>]
  /\ metrics' = [metrics EXCEPT ![h] = << >>]
  /\ read' = [read EXCEPT ![h] = << >>]
  /\ since' = [since EXCEPT ![h] = {}]
  /\ UNCHANGED <<table, run, writes, rows, access, seen, sum, spoilt, calls, faults>>

(* The bound is reached: no more calls, what waits may wait.               *)
NoMoreCalls ==
  /\ calls = CallLimit
  /\ UNCHANGED vars

HandlerNext(h) ==
  \/ Exec(h) \/ BatchValidate(h) \/ Validated(h) \/ TxExec(h) \/ TxCommit(h)
  \/ QueryRow(h) \/ Query(h) \/ RowsNext(h) \/ RowsEnd(h)
  \/ DeadlockDetected(h) \/ RetryLoop(h) \/ Returns(h)

Next ==
  \/ \E h \in Handler :
       \/ \E m \in Singles : AddCounterOrSetGauge(h, m)
       \/ \E args \in Batches : BatchUpdate(h, args)
       \/ \E id \in Wanted : GetByID(h, id)
       \/ GetAllSorted(h)
       \/ HandlerNext(h)
       \/ \E outcome \in {"retryable", "final"} : FailsBefore(h, outcome)
       \/ FailsAfter(h)
  \/ NoMoreCalls

Spec == Init /\ [][Next]_vars

(* Go and the database run what can run, and a waiting statement gets the  *)
(* row in the end.                                                         *)
Fairness == \A h \in Handler : SF_vars(HandlerNext(h))

FairSpec == Spec /\ Fairness

-----------------------------------------------------------------------------
(* Every variable has its type: what a read delivers and what a batch      *)
(* writes are rows, with a delta that is a number or missing.              *)
TypeOK ==
  /\ table \in [ID -> Row \cup {Absent}]
  /\ doing \in [Handler -> {"none", "single", "validate", "set", "get", "list"}]
  /\ \A h \in Handler : read[h] \in Seq([ID : ID, row : Row])
  /\ metrics \in [Handler -> Seq(Received)]
  /\ run \in [Handler -> Execution]
  /\ todo \in [Handler -> Seq(Received)]
  /\ writes \in [Handler -> [ID -> Row \cup {Absent}]]
  /\ access \in [Handler -> BOOLEAN]
  /\ seen \in [Handler -> [ID -> {Absent, Counter, Gauge, Other}]]
  /\ sum \in [ID -> Int]
  /\ spoilt \subseteq ID
  /\ calls \in Nat /\ faults \in Nat

(* Whatever handlers, retries, lost connections and deadlocks do, a        *)
(* counter holds exactly the deltas of the calls that took effect, every   *)
(* call once and a batch whole or not at all, as long as no batch wrote    *)
(* its row without a delta.                                                *)
CountersAreExact ==
  \A id \in ID \ spoilt :
    sum[id] = IF table[id] = Absent THEN 0 ELSE Coalesce(table[id].delta)

Delivers(h) ==
  doing[h] \in {"get", "list"} /\ run[h].pc = "returned" /\ run[h].err = "nil"

(* What a read returns is one committed state, and one that was current    *)
(* after the call began: a listing is that state whole, in order and every *)
(* row once, never half of a batch and never rows of two queries, also     *)
(* when the query broke off between two rows and was made again.           *)
ReadsAreOneState ==
  \A h \in Handler : Delivers(h) =>
    \E t \in since[h] :
      read[h] = IF doing[h] = "list"
                  THEN Sorted(t)
                  ELSE <<[ID |-> metrics[h][1].ID, row |-> t[metrics[h][1].ID]]>>

(* The type of a stored metric changes only in one race: by the commit of  *)
(* a batch that has written the row and was validated when the metric did  *)
(* not exist or had another type.  Every other call with the wrong type is *)
(* refused.                                                                *)
TypeChangesOnlyInRace ==
  [][\A id \in ID :
       Types[id] \notin {Absent, Types'[id]}
         => \E h \in Handler :
              /\ doing[h] = "set" /\ writes[h][id] # Absent
              /\ doing'[h] = "set" /\ writes'[h][id] = Absent
              /\ seen[h][id] # Types[id]]_vars

(* Every call of the storage returns, also when batches lock the same rows *)
(* in opposite orders.                                                     *)
CallsReturn == \A h \in Handler : doing[h] # "none" ~> doing[h] = "none"
=============================================================================
