--------------------------- MODULE PostgresProofs ---------------------------
(***************************************************************************)
(* Proofs about Postgres, for every set of metrics, handlers, calls and    *)
(* retry policies, and any number of calls and faults.                     *)
(*                                                                         *)
(* The type of a row changes only at the commit of a batch.  The first     *)
(* invariant, RaceInv, follows what a batch has validated, through retries *)
(* of either query, to the rows its transaction has written.  CountInv     *)
(* says that a row is locked by one transaction, so that what the          *)
(* transaction has added to the row is still to be added at its commit;    *)
(* ReadInv, that what a read has got and what has still to arrive are      *)
(* together one of the states committed since its call.                    *)
(***************************************************************************)
EXTENDS Postgres, FiniteSetTheorems, SequenceTheorems, TLAPS

Cell  == Row \cup {Absent}
Cells == [ID -> Cell]

(* What batchValidate has seen of the metrics that the batch will set.     *)
SeenFits(ms, s) == \A i \in DOMAIN ms : s[ms[i].ID] \in {Absent, ms[i].MType}

(* A row that a transaction has written is one of its metrics.             *)
WrittenOf(ms, id, row) == \E i \in DOMAIN ms : ms[i].ID = id /\ ms[i].MType = row.mtype

(* What holds of one handler: its query q with arguments ms, the execution *)
(* r, the metrics td to upsert, the rows w written, the types s seen.      *)
CallOK(q, ms, r, td, w, s) ==
  /\ q \in {"none", "single", "validate", "set", "get", "list"}
  /\ ms \in Seq(Received) /\ td \in Seq(Received) /\ r \in Execution /\ w \in Cells
  /\ r.pc = "loop" => r.err # "nil"
  /\ (q = "single" => ms[1] \in Singles) /\ (q = "get" => ms # << >>)
  /\ q = "set" => ToSet(td) \subseteq ToSet(ms)
  /\ q = "set" \/ (q = "validate" /\ r.pc = "returned" /\ r.err = "nil") => SeenFits(ms, s)
  /\ \A id \in ID : w[id] # Absent => q = "set" /\ r.pc = "call" /\ WrittenOf(ms, id, w[id])

IsFunction(f) == f = [h \in Handler |-> f[h]]

Shape ==
  /\ IsFunction(doing) /\ IsFunction(metrics) /\ IsFunction(run)
  /\ IsFunction(todo) /\ IsFunction(writes) /\ IsFunction(seen)

HandlerOK(h) == CallOK(doing[h], metrics[h], run[h], todo[h], writes[h], seen[h])

RaceInv ==
  /\ table \in Cells /\ Shape
  /\ \A h \in Handler : HandlerOK(h)

(* The delta of a row, or nothing; the row a transaction sees.             *)
Amount(row) == IF row = Absent THEN 0 ELSE Coalesce(row.delta)

In(w, tab, id) == IF w[id] = Absent THEN tab[id] ELSE w[id]

(* The positions of a batch's metrics ms that are upserted when td is left.*)
Past(ms, td) == 1 .. (Len(ms) - Len(td))

(* What an open transaction has done: td is the rest of ms, and the rows   *)
(* it has written hold the committed deltas and those of its upserts.      *)
SoFar(ms, td, w, tab) ==
  /\ Len(td) <= Len(ms)
  /\ \A i \in 1 .. Len(td) : td[i] = ms[Len(ms) - Len(td) + i]
  /\ \A id \in ID : Lacking(ms, Past(ms, td), id) = {} =>
       Amount(In(w, tab, id)) = Amount(tab[id]) + SumOfDeltas(ms, Past(ms, td), id)

(* A row is locked by one transaction.                                     *)
LocksOK ==
  \A g, h \in Handler, id \in ID :
    g # h => writes[g][id] = Absent \/ writes[h][id] = Absent

CountInv ==
  /\ sum \in [ID -> Int] /\ spoilt \subseteq ID
  /\ LocksOK /\ CountersAreExact
  /\ \A h \in Handler : doing[h] = "set" => SoFar(metrics[h], todo[h], writes[h], table)

(* What a read has got: its query q with arguments ms under the execution  *)
(* r, the open query rs, the rows rd that arrived, the states st there     *)
(* have been since its call, of which the table tab is one.                *)
Line  == [ID : ID, row : Row]
Reads == {"get", "list"}

Done(q, r) == q \in Reads /\ r.pc = "returned" /\ r.err = "nil"

(* What a read gives of the state t.                                       *)
Given(q, ms, t) ==
  IF q = "list" THEN Sorted(t) ELSE <<[ID |-> ms[1].ID, row |-> t[ms[1].ID]]>>

ReadOK(q, ms, r, rs, rd, st, tab) ==
  /\ rs \in [open : BOOLEAN, left : Seq(Line)] /\ rd \in Seq(Line)
  /\ ~ rs.open => rs.left = << >>
  /\ rs.open => q = "list" /\ r.pc = "call" /\ \E t \in st : rd \o rs.left = Sorted(t)
  /\ Done(q, r) => \E t \in st : rd = Given(q, ms, t)
  /\ q \in Reads => tab \in st

ReadInv ==
  /\ IsFunction(rows) /\ IsFunction(read) /\ IsFunction(since)
  /\ \A h \in Handler :
       ReadOK(doing[h], metrics[h], run[h], rows[h], read[h], since[h], table)

(* The variables that the other invariants leave out.                      *)
RestOK ==
  /\ IsFunction(access) /\ \A h \in Handler : access[h] \in BOOLEAN
  /\ \A h \in Handler : seen[h] \in [ID -> {Absent, Counter, Gauge, Other}]
  /\ calls \in Nat /\ faults \in Nat

-----------------------------------------------------------------------------
(* Rows.                                                                   *)

(* The fields of a metric, and the row that it is inserted as.             *)
LEMMA Columns ==
  ASSUME NEW m \in Received
  PROVE  /\ m.ID \in ID /\ m.MType \in {Counter, Gauge, Other}
         /\ m.Delta \in Int \cup {Nil} /\ m.Value \in Int \cup {Nil, NaN}
         /\ Inserted(m) \in Row /\ Inserted(m).mtype = m.MType
         /\ Inserted(m).delta = m.Delta
BY DEF Received, Inserted, Row

(* The arguments of AddCounter and SetGauge.                               *)
LEMMA SingleIs ==
  ASSUME NEW m \in Singles
  PROVE  /\ m \in Received /\ m.MType \in {Counter, Gauge}
         /\ m.MType = Counter => m.Delta \in Int
         /\ m.MType = Gauge => m.Delta = Nil
<1>1. m \in Single
  BY PostgresAssumption
<1> QED
  BY <1>1 DEF Single, Received, Counter, Gauge, Other

(* The delta of a row is a number, if there is one.                        *)
LEMMA DeltaOf ==
  ASSUME NEW row \in Row
  PROVE  Coalesce(row.delta) \in Int /\ row.mtype \in {Counter, Gauge, Other}
BY DEF Row, Coalesce

(* A single statement leaves a row, and never changes the type of one.     *)
LEMMA SingleKeepsType ==
  ASSUME NEW row \in Cell, NEW m \in Singles
  PROVE  /\ UpsertSingle(row, m) \in Row
         /\ row # Absent => UpsertSingle(row, m).mtype = row.mtype
<1>1. m \in Received /\ m.MType \in {Counter, Gauge} /\ (m.MType = Counter => m.Delta \in Int)
  BY SingleIs
<1>2. CASE row = Absent
  BY <1>1, <1>2, Columns DEF UpsertSingle
<1>3. CASE row # Absent /\ row.mtype # m.MType
  BY <1>3 DEF UpsertSingle, Cell
<1>4. CASE row # Absent /\ row.mtype = m.MType /\ m.MType = Counter
  <2>1. row \in Row
    BY <1>4 DEF Cell
  <2>2. PICK n \in Int : n = Coalesce(row.delta) + m.Delta
    <3>1. PICK v \in Int : v = m.Delta
      BY <1>1, <1>4
    <3>2. PICK d \in Int : d = Coalesce(row.delta)
      BY <2>1, DeltaOf
    <3> QED
      BY <3>1, <3>2
  <2>3. UpsertSingle(row, m) = [row EXCEPT !.delta = n]
    BY <1>4, <2>2 DEF UpsertSingle, Counter, Gauge
  <2> QED
    BY <2>1, <2>3 DEF Row
<1>5. CASE row # Absent /\ row.mtype = m.MType /\ m.MType = Gauge
  <2>1. row \in Row /\ m.Value \in Int \cup {Nil, NaN}
    BY <1>1, <1>5, Columns DEF Cell
  <2>2. UpsertSingle(row, m) = [row EXCEPT !.value = m.Value]
    BY <1>5 DEF UpsertSingle, Counter, Gauge
  <2> QED
    BY <2>1, <2>2 DEF Row
<1> QED
  BY <1>1, <1>2, <1>3, <1>4, <1>5

(* An upsert of a batch leaves a row with the type of its metric, and adds *)
(* the delta if there is one.                                              *)
LEMMA BatchUpserts ==
  ASSUME NEW row \in Cell, NEW m \in Received
  PROVE  /\ UpsertOfBatch(row, m) \in Row /\ UpsertOfBatch(row, m).mtype = m.MType
         /\ row # Absent /\ m.Delta # Nil =>
              UpsertOfBatch(row, m).delta = Coalesce(row.delta) + m.Delta
         /\ row = Absent => UpsertOfBatch(row, m).delta = m.Delta
<1>1. CASE row = Absent \/ m.Delta = Nil
  <2>1. UpsertOfBatch(row, m) = Inserted(m)
    BY <1>1 DEF UpsertOfBatch
  <2> QED
    BY <1>1, <2>1, Columns
<1>2. CASE row # Absent /\ m.Delta # Nil
  <2>1. PICK v \in Int : v = m.Delta
    BY <1>2, Columns
  <2>2. PICK d \in Int : d = Coalesce(row.delta)
    BY <1>2, DeltaOf DEF Cell
  <2>3. PICK n \in Int : n = d + v
    OBVIOUS
  <2>4. PICK ins \in Row : ins = Inserted(m) /\ ins.mtype = m.MType /\ ins.delta = v
    BY <2>1, Columns
  <2>5. UpsertOfBatch(row, m) = [ins EXCEPT !.delta = n]
    BY <1>2, <2>2, <2>3, <2>4 DEF UpsertOfBatch
  <2>6. [ins EXCEPT !.delta = n] \in Row /\ [ins EXCEPT !.delta = n].delta = n
        /\ [ins EXCEPT !.delta = n].mtype = ins.mtype
    BY DEF Row
  <2> QED
    BY <1>2, <2>1, <2>2, <2>3, <2>4, <2>5, <2>6
<1> QED
  BY <1>1, <1>2

-----------------------------------------------------------------------------
(* Sums of deltas.                                                         *)

(* The units that SumOfDeltas counts.                                      *)
With(ms, P, id) == {i \in P : ms[i].ID = id /\ HasDelta(ms[i])}
Unit(i, n) == {i} \X (1 .. n)
Gains(ms, P, id)  == UNION {Unit(i, ms[i].Delta) : i \in With(ms, P, id)}
Losses(ms, P, id) == UNION {Unit(i, - ms[i].Delta) : i \in With(ms, P, id)}

(* The units of one metric.                                                *)
LEMMA UnitsOfOne ==
  ASSUME NEW i, NEW n \in Int
  PROVE  IsFiniteSet(Unit(i, n)) /\ Cardinality(Unit(i, n)) = IF n > 0 THEN n ELSE 0
<1>1. PICK c \in Nat : c = IF n > 0 THEN n ELSE 0
  OBVIOUS
<1>2. IsFiniteSet(1 .. n) /\ Cardinality(1 .. n) = c
  <2>1. 1 \in Int /\ n \in Int
    OBVIOUS
  <2>2. IsFiniteSet(1 .. n) /\ Cardinality(1 .. n) = IF 1 > n THEN 0 ELSE n - 1 + 1
    BY <2>1, FS_Interval
  <2> QED
    BY <1>1, <2>2
<1>3. IsFiniteSet({i}) /\ Cardinality({i}) = 1
  BY FS_Singleton
<1>4. IsFiniteSet({i} \X (1 .. n)) /\ Cardinality({i} \X (1 .. n)) = 1 * c
  BY <1>2, <1>3, FS_Product
<1> QED
  BY <1>1, <1>4 DEF Unit

(* A delta is a number.                                                    *)
LEMMA DeltaIsNumber ==
  ASSUME NEW ms \in Seq(Received), NEW i \in 1 .. Len(ms), HasDelta(ms[i])
  PROVE  ms[i].Delta \in Int
<1>1. ms[i] \in Received
  BY ElementOfSeq
<1> QED
  BY <1>1, Columns DEF HasDelta

(* Finitely many finite sets.                                              *)
LEMMA FiniteUnion ==
  ASSUME NEW I, IsFiniteSet(I), NEW T, NEW f \in Surjection(I, T), \A t \in T : IsFiniteSet(t)
  PROVE  IsFiniteSet(UNION T) /\ Cardinality(UNION T) \in Nat
<1>1. IsFiniteSet(T)
  BY FS_Surjection
<1>2. IsFiniteSet(UNION T)
  BY <1>1, FS_UNION
<1> QED
  BY <1>2, FS_CardinalityType

(* They are finitely many, so that their sum is a number.                  *)
LEMMA SumIsNumber ==
  ASSUME NEW ms \in Seq(Received), NEW P \in SUBSET (1 .. Len(ms)), NEW id
  PROVE  /\ SumOfDeltas(ms, P, id) \in Int
         /\ IsFiniteSet(Gains(ms, P, id)) /\ Cardinality(Gains(ms, P, id)) \in Nat
         /\ IsFiniteSet(Losses(ms, P, id)) /\ Cardinality(Losses(ms, P, id)) \in Nat
         /\ SumOfDeltas(ms, P, id) =
              Cardinality(Gains(ms, P, id)) - Cardinality(Losses(ms, P, id))
<1> DEFINE I == With(ms, P, id)
           f == [i \in I |-> Unit(i, ms[i].Delta)]
           g == [i \in I |-> Unit(i, - ms[i].Delta)]
           F == {Unit(i, ms[i].Delta) : i \in I}
           G == {Unit(i, - ms[i].Delta) : i \in I}
<1>1. IsFiniteSet(I)
  <2>1. Len(ms) \in Nat
    BY LenProperties
  <2>2. IsFiniteSet(1 .. Len(ms))
    BY <2>1, FS_Interval
  <2>3. I \in SUBSET (1 .. Len(ms))
    BY DEF With
  <2> QED
    BY <2>2, <2>3, FS_Subset
<1>2. \A i \in I : ms[i].Delta \in Int /\ - ms[i].Delta \in Int
  <2> TAKE i \in I
  <2>1. ms[i].Delta \in Int
    BY DeltaIsNumber DEF With
  <2> QED
    BY <2>1
<1>3. /\ \A t \in F : IsFiniteSet(t)
      /\ \A t \in G : IsFiniteSet(t)
  BY <1>2, UnitsOfOne
<1>4. f \in Surjection(I, F) /\ g \in Surjection(I, G)
  BY DEF Surjection
<1>5. Gains(ms, P, id) = UNION F /\ Losses(ms, P, id) = UNION G
  BY DEF Gains, Losses
<1> HIDE DEF I, f, g, F, G
<1>6. /\ IsFiniteSet(UNION F) /\ Cardinality(UNION F) \in Nat
      /\ IsFiniteSet(UNION G) /\ Cardinality(UNION G) \in Nat
  BY <1>1, <1>3, <1>4, FiniteUnion
<1>7. SumOfDeltas(ms, P, id) = Cardinality(Gains(ms, P, id)) - Cardinality(Losses(ms, P, id))
  BY DEF SumOfDeltas, Gains, Losses, Unit, With
<1>8. /\ IsFiniteSet(Gains(ms, P, id)) /\ Cardinality(Gains(ms, P, id)) \in Nat
      /\ IsFiniteSet(Losses(ms, P, id)) /\ Cardinality(Losses(ms, P, id)) \in Nat
  BY <1>5, <1>6
<1>9. PICK a \in Nat, b \in Nat :
        a = Cardinality(Gains(ms, P, id)) /\ b = Cardinality(Losses(ms, P, id))
  BY <1>8
<1>10. SumOfDeltas(ms, P, id) \in Int
  BY <1>7, <1>9
<1> QED
  BY <1>7, <1>8, <1>10

(* The sum of no metrics.                                                  *)
LEMMA SumOfNone == ASSUME NEW ms, NEW id PROVE SumOfDeltas(ms, {}, id) = 0
<1>1. Gains(ms, {}, id) = {} /\ Losses(ms, {}, id) = {}
  BY DEF Gains, Losses, With
<1>2. SumOfDeltas(ms, {}, id) = Cardinality(Gains(ms, {}, id)) - Cardinality(Losses(ms, {}, id))
  BY DEF SumOfDeltas, Gains, Losses, Unit, With
<1>3. Cardinality({}) = 0
  BY FS_EmptySet
<1>4. /\ Cardinality(Gains(ms, {}, id)) = 0
      /\ Cardinality(Losses(ms, {}, id)) = 0
  BY <1>1, <1>3, Zenon
<1> QED
  BY <1>2, <1>4

(* A finite set and a disjoint one.                                        *)
LEMMA DisjointUnion ==
  ASSUME NEW S, NEW T, IsFiniteSet(S), IsFiniteSet(T), S \cap T = {}
  PROVE  Cardinality(S \cup T) = Cardinality(S) + Cardinality(T)
<1>1. Cardinality(S \cup T) = Cardinality(S) + Cardinality(T) - Cardinality({})
  BY FS_Union
<1>2. Cardinality({}) = 0 /\ Cardinality(S) \in Nat /\ Cardinality(T) \in Nat
  BY FS_EmptySet, FS_CardinalityType
<1>3. PICK a \in Nat, b \in Nat : a = Cardinality(S) /\ b = Cardinality(T)
  BY <1>2
<1> QED
  BY <1>1, <1>2, <1>3

(* One metric more adds its delta.                                         *)
LEMMA SumOfOneMore ==
  ASSUME NEW ms \in Seq(Received), NEW P \in SUBSET (1 .. Len(ms)), NEW id,
         NEW k \in 1 .. Len(ms), k \notin P
  PROVE  SumOfDeltas(ms, P \cup {k}, id) =
           SumOfDeltas(ms, P, id) + (IF ms[k].ID = id /\ HasDelta(ms[k]) THEN ms[k].Delta ELSE 0)
<1> DEFINE Q == P \cup {k}
<1>1. Q \in SUBSET (1 .. Len(ms))
  OBVIOUS
<1> HIDE DEF Q
<1>2. /\ SumOfDeltas(ms, P, id) \in Int
      /\ IsFiniteSet(Gains(ms, P, id)) /\ Cardinality(Gains(ms, P, id)) \in Nat
      /\ IsFiniteSet(Losses(ms, P, id)) /\ Cardinality(Losses(ms, P, id)) \in Nat
      /\ SumOfDeltas(ms, P, id) =
           Cardinality(Gains(ms, P, id)) - Cardinality(Losses(ms, P, id))
  BY SumIsNumber
<1>3. SumOfDeltas(ms, Q, id) = Cardinality(Gains(ms, Q, id)) - Cardinality(Losses(ms, Q, id))
  BY <1>1, SumIsNumber
<1>4. CASE ms[k].ID = id /\ HasDelta(ms[k])
  <2>1. PICK d \in Int : d = ms[k].Delta
    BY <1>4, DeltaIsNumber
  <2>2. With(ms, Q, id) = With(ms, P, id) \cup {k}
    BY <1>4 DEF With, Q
  <2>3. /\ Gains(ms, Q, id) = Gains(ms, P, id) \cup Unit(k, d)
        /\ Losses(ms, Q, id) = Losses(ms, P, id) \cup Unit(k, - d)
    BY <2>1, <2>2 DEF Gains, Losses
  <2>4. /\ Gains(ms, P, id) \cap Unit(k, d) = {}
        /\ Losses(ms, P, id) \cap Unit(k, - d) = {}
    BY DEF Gains, Losses, Unit, With
  <2>5. /\ IsFiniteSet(Unit(k, d)) /\ Cardinality(Unit(k, d)) = IF d > 0 THEN d ELSE 0
        /\ IsFiniteSet(Unit(k, - d)) /\ Cardinality(Unit(k, - d)) = IF - d > 0 THEN - d ELSE 0
    BY UnitsOfOne
  <2>6. /\ Cardinality(Gains(ms, Q, id)) = Cardinality(Gains(ms, P, id)) + Cardinality(Unit(k, d))
        /\ Cardinality(Losses(ms, Q, id)) =
             Cardinality(Losses(ms, P, id)) + Cardinality(Unit(k, - d))
    BY <1>2, <2>3, <2>4, <2>5, DisjointUnion
  <2>7. PICK a \in Nat, b \in Nat :
          a = Cardinality(Gains(ms, P, id)) /\ b = Cardinality(Losses(ms, P, id))
    BY <1>2
  <2>8. SumOfDeltas(ms, Q, id) = (a + (IF d > 0 THEN d ELSE 0)) - (b + (IF - d > 0 THEN - d ELSE 0))
    BY <1>3, <2>5, <2>6, <2>7
  <2>9. SumOfDeltas(ms, P, id) = a - b
    BY <1>2, <2>7
  <2>10. SumOfDeltas(ms, Q, id) = SumOfDeltas(ms, P, id) + d
    BY <2>8, <2>9
  <2> QED
    BY <1>4, <2>1, <2>10 DEF Q
<1>5. CASE ~ (ms[k].ID = id /\ HasDelta(ms[k]))
  <2>1. With(ms, Q, id) = With(ms, P, id)
    BY <1>5 DEF With, Q
  <2>2. SumOfDeltas(ms, Q, id) = SumOfDeltas(ms, P, id)
    BY <1>2, <1>3, <2>1 DEF Gains, Losses
  <2>3. SumOfDeltas(ms, P, id) + 0 = SumOfDeltas(ms, P, id)
    BY <1>2
  <2> QED
    BY <1>5, <2>2, <2>3 DEF Q
<1> QED
  BY <1>4, <1>5

(* The amounts of rows are numbers.                                        *)
LEMMA AmountIsNumber == ASSUME NEW row \in Cell PROVE Amount(row) \in Int
BY DeltaOf DEF Amount, Cell

(* An upsert of a batch adds the delta, if there is one.                   *)
LEMMA BatchAdds ==
  ASSUME NEW row \in Cell, NEW m \in Received, HasDelta(m)
  PROVE  m.Delta \in Int /\ Amount(UpsertOfBatch(row, m)) = Amount(row) + m.Delta
<1>1. m.Delta \in Int /\ m.Delta # Nil
  BY Columns DEF HasDelta
<1>2. UpsertOfBatch(row, m) \in Row /\ UpsertOfBatch(row, m) # Absent
  BY BatchUpserts, PostgresAssumption
<1>3. CASE row = Absent
  <2>1. UpsertOfBatch(row, m).delta = m.Delta
    BY <1>3, BatchUpserts
  <2> QED
    BY <1>1, <1>2, <1>3, <2>1 DEF Amount, Coalesce
<1>4. CASE row # Absent
  <2>1. PICK a \in Int : a = Coalesce(row.delta) /\ a = Amount(row)
    BY <1>4, DeltaOf DEF Cell, Amount
  <2>2. PICK n \in Int : n = a + m.Delta /\ n # Nil
    BY <1>1, <2>1, PostgresAssumption
  <2>3. UpsertOfBatch(row, m).delta = n
    BY <1>1, <1>4, <2>1, <2>2, BatchUpserts
  <2> QED
    BY <1>1, <1>2, <2>1, <2>2, <2>3 DEF Amount, Coalesce
<1> QED
  BY <1>1, <1>3, <1>4

(* AddCounter adds its delta unless it is refused; SetGauge adds nothing.  *)
LEMMA SingleAdds ==
  ASSUME NEW row \in Cell, NEW m \in Singles
  PROVE  Amount(UpsertSingle(row, m)) =
           Amount(row) + (IF m.MType = Counter /\ (row = Absent \/ row.mtype = Counter)
                            THEN m.Delta ELSE 0)
<1>1. /\ m \in Received /\ m.MType \in {Counter, Gauge}
      /\ (m.MType = Counter => m.Delta \in Int) /\ (m.MType = Gauge => m.Delta = Nil)
  BY SingleIs
<1>2. PICK a \in Int : a = Amount(row)
  BY AmountIsNumber
<1>3. UpsertSingle(row, m) \in Row /\ UpsertSingle(row, m) # Absent
  BY SingleKeepsType, PostgresAssumption
<1>4. CASE row = Absent
  <2>1. UpsertSingle(row, m).delta = m.Delta /\ Amount(row) = 0
    BY <1>1, <1>4, Columns DEF UpsertSingle, Amount
  <2>2. CASE m.MType = Counter
    <3>1. m.Delta \in Int /\ m.Delta # Nil
      BY <1>1, <2>2, PostgresAssumption
    <3>2. Amount(UpsertSingle(row, m)) = m.Delta
      BY <1>3, <2>1, <3>1 DEF Amount, Coalesce
    <3> QED
      BY <1>4, <2>1, <2>2, <3>1, <3>2
  <2>3. CASE m.MType # Counter
    <3>1. Amount(UpsertSingle(row, m)) = 0
      BY <1>1, <1>3, <2>1, <2>3 DEF Amount, Coalesce
    <3> QED
      BY <2>1, <2>3, <3>1
  <2> QED
    BY <2>2, <2>3
<1>5. CASE row # Absent /\ row.mtype # m.MType
  <2>1. UpsertSingle(row, m) = row
    BY <1>5 DEF UpsertSingle
  <2>2. ~ (m.MType = Counter /\ (row = Absent \/ row.mtype = Counter))
    BY <1>5
  <2> QED
    BY <1>2, <2>1, <2>2
<1>6. CASE row # Absent /\ row.mtype = m.MType /\ m.MType = Counter
  <2>1. a = Coalesce(row.delta) /\ m.Delta \in Int /\ row \in Row
    BY <1>1, <1>2, <1>6 DEF Amount, Cell
  <2>2. PICK n \in Int : n = a + m.Delta /\ n # Nil
    BY <2>1, PostgresAssumption
  <2>3. UpsertSingle(row, m) = [row EXCEPT !.delta = n]
    BY <1>6, <2>1, <2>2 DEF UpsertSingle, Counter, Gauge
  <2>4. UpsertSingle(row, m).delta = n
    BY <2>1, <2>3 DEF Row
  <2> QED
    BY <1>2, <1>3, <1>6, <2>2, <2>4 DEF Amount, Coalesce
<1>7. CASE row # Absent /\ row.mtype = m.MType /\ m.MType = Gauge
  <2>1. UpsertSingle(row, m) = [row EXCEPT !.value = m.Value] /\ row \in Row
    BY <1>7 DEF UpsertSingle, Counter, Gauge, Cell
  <2>2. UpsertSingle(row, m).delta = row.delta
    BY <2>1 DEF Row
  <2>3. Amount(UpsertSingle(row, m)) = a
    BY <1>2, <1>3, <1>7, <2>2 DEF Amount
  <2> QED
    BY <1>2, <1>7, <2>3 DEF Counter, Gauge
<1> QED
  BY <1>1, <1>4, <1>5, <1>6, <1>7

-----------------------------------------------------------------------------
(* An open transaction.                                                    *)

(* It has done nothing yet.                                                *)
LEMMA SoFarNone ==
  ASSUME NEW ms \in Seq(Received), NEW w, \A id \in ID : w[id] = Absent, NEW tab \in Cells
  PROVE  SoFar(ms, ms, w, tab)
<1>1. Len(ms) \in Nat
  BY LenProperties
<1>2. Past(ms, ms) = {}
  BY <1>1 DEF Past
<1>3. ASSUME NEW id \in ID
      PROVE  Amount(In(w, tab, id)) = Amount(tab[id]) + SumOfDeltas(ms, {}, id)
  <2>1. In(w, tab, id) = tab[id] /\ tab[id] \in Cell
    BY DEF In, Cells
  <2>2. Amount(tab[id]) \in Int /\ SumOfDeltas(ms, {}, id) = 0
    BY <2>1, AmountIsNumber, SumOfNone
  <2> QED
    BY <2>1, <2>2
<1> QED
  BY <1>1, <1>2, <1>3 DEF SoFar

(* Others change only rows that it has not written.                        *)
LEMMA SoFarBeside ==
  ASSUME NEW ms \in Seq(Received), NEW td \in Seq(Received), NEW w,
         NEW tab \in Cells, NEW new \in Cells, SoFar(ms, td, w, tab),
         \A id \in ID : new[id] = tab[id] \/ w[id] = Absent
  PROVE  SoFar(ms, td, w, new)
<1>1. ASSUME NEW id \in ID, Lacking(ms, Past(ms, td), id) = {}
      PROVE  Amount(In(w, new, id)) = Amount(new[id]) + SumOfDeltas(ms, Past(ms, td), id)
  <2>1. Amount(In(w, tab, id)) = Amount(tab[id]) + SumOfDeltas(ms, Past(ms, td), id)
    BY <1>1 DEF SoFar
  <2>2. CASE new[id] = tab[id]
    BY <2>1, <2>2 DEF In
  <2>3. CASE w[id] = Absent
    <3>1. In(w, tab, id) = tab[id] /\ In(w, new, id) = new[id]
      BY <2>3 DEF In
    <3>2. Past(ms, td) \in SUBSET (1 .. Len(ms))
      <4>1. Len(ms) \in Nat /\ Len(td) \in Nat
        BY LenProperties
      <4> QED
        BY <4>1 DEF Past
    <3>3. PICK s \in Int : s = SumOfDeltas(ms, Past(ms, td), id)
      BY <3>2, SumIsNumber
    <3>4. PICK a \in Int, b \in Int : a = Amount(tab[id]) /\ b = Amount(new[id])
      BY AmountIsNumber DEF Cells
    <3>5. s = 0
      BY <2>1, <3>1, <3>3, <3>4
    <3> QED
      BY <3>1, <3>3, <3>4, <3>5
  <2> QED
    BY <2>2, <2>3
<1> QED
  BY <1>1 DEF SoFar

(* It upserts the next metric.                                             *)
LEMMA SoFarNext ==
  ASSUME NEW ms \in Seq(Received), NEW td \in Seq(Received), NEW w \in Cells,
         NEW tab \in Cells, SoFar(ms, td, w, tab), td # << >>,
         NEW m, m = Head(td), NEW new \in Row, new = UpsertOfBatch(In(w, tab, m.ID), m),
         NEW v, v = [w EXCEPT ![m.ID] = new]
  PROVE  SoFar(ms, Tail(td), v, tab)
<1>1. /\ m = td[1] /\ m \in Received /\ Tail(td) \in Seq(Received)
      /\ Len(td) \in Nat /\ Len(ms) \in Nat /\ Len(Tail(td)) = Len(td) - 1 /\ Len(td) # 0
      /\ \A i \in 1 .. Len(Tail(td)) : Tail(td)[i] = td[i + 1]
  BY HeadTailProperties, LenProperties, EmptySeq
<1>2. PICK n \in Nat : n = Len(ms) - Len(td)
  BY <1>1 DEF SoFar
<1>3. /\ Past(ms, td) = 1 .. n /\ Past(ms, Tail(td)) = (1 .. n) \cup {n + 1}
      /\ n + 1 \in 1 .. Len(ms) /\ Len(Tail(td)) <= Len(ms)
  BY <1>1, <1>2 DEF Past
<1>4. m = ms[n + 1] /\ m.ID \in ID
  <2>1. 1 \in 1 .. Len(td)
    BY <1>1
  <2> QED
    BY <1>1, <1>2, <2>1, Columns DEF SoFar
<1>5. \A i \in 1 .. Len(Tail(td)) : Tail(td)[i] = ms[Len(ms) - Len(Tail(td)) + i]
  <2> TAKE i \in 1 .. Len(Tail(td))
  <2>1. i + 1 \in 1 .. Len(td) /\ Len(ms) - Len(td) + (i + 1) = Len(ms) - Len(Tail(td)) + i
    BY <1>1
  <2>2. td[i + 1] = ms[Len(ms) - Len(td) + (i + 1)]
    BY <2>1 DEF SoFar
  <2> QED
    BY <1>1, <2>1, <2>2
<1>6. new # Absent /\ \A id \in ID : v[id] = IF id = m.ID THEN new ELSE w[id]
  BY <1>4, PostgresAssumption DEF Cells
<1>7. ASSUME NEW id \in ID, Lacking(ms, (1 .. n) \cup {n + 1}, id) = {}
      PROVE  Amount(In(v, tab, id)) =
               Amount(tab[id]) + SumOfDeltas(ms, (1 .. n) \cup {n + 1}, id)
  <2>1. Lacking(ms, 1 .. n, id) = {} /\ (m.ID = id => HasDelta(m))
    BY <1>4, <1>7 DEF Lacking
  <2>2. Amount(In(w, tab, id)) = Amount(tab[id]) + SumOfDeltas(ms, 1 .. n, id)
    <3>1. Lacking(ms, Past(ms, td), id) = {}
      BY <1>3, <2>1
    <3>2. Amount(In(w, tab, id)) = Amount(tab[id]) + SumOfDeltas(ms, Past(ms, td), id)
      BY <3>1 DEF SoFar
    <3> QED
      BY <1>3, <3>2
  <2>3. 1 .. n \in SUBSET (1 .. Len(ms)) /\ n + 1 \notin 1 .. n
    BY <1>1, <1>2, <1>3
  <2>4. SumOfDeltas(ms, (1 .. n) \cup {n + 1}, id) =
          SumOfDeltas(ms, 1 .. n, id) + (IF m.ID = id /\ HasDelta(m) THEN m.Delta ELSE 0)
    <3>1. PICK k \in 1 .. Len(ms) : k = n + 1
      BY <1>3
    <3>2. k \notin 1 .. n /\ m = ms[k]
      BY <1>4, <2>3, <3>1
    <3>3. SumOfDeltas(ms, (1 .. n) \cup {k}, id) =
            SumOfDeltas(ms, 1 .. n, id) + (IF ms[k].ID = id /\ HasDelta(ms[k]) THEN ms[k].Delta ELSE 0)
      BY <2>3, <3>2, SumOfOneMore
    <3> QED
      BY <3>1, <3>2, <3>3
  <2>5. PICK s \in Int : s = SumOfDeltas(ms, 1 .. n, id)
    BY <2>3, SumIsNumber
  <2>6. tab[id] \in Cell /\ In(w, tab, id) \in Cell
    BY DEF Cells, In
  <2>7. PICK a \in Int : a = Amount(tab[id])
    BY <2>6, AmountIsNumber
  <2>8. CASE m.ID = id
    <3>1. In(v, tab, id) = new
      BY <1>6, <2>8 DEF In
    <3>2. m.Delta \in Int /\ Amount(new) = Amount(In(w, tab, id)) + m.Delta
      BY <1>1, <2>1, <2>6, <2>8, BatchAdds
    <3> QED
      BY <2>1, <2>2, <2>4, <2>5, <2>7, <2>8, <3>1, <3>2
  <2>9. CASE m.ID # id
    <3>1. In(v, tab, id) = In(w, tab, id)
      BY <1>6, <2>9 DEF In
    <3> QED
      BY <2>2, <2>4, <2>5, <2>7, <2>9, <3>1
  <2> QED
    BY <2>8, <2>9
<1> QED
  BY <1>3, <1>5, <1>7 DEF SoFar

(* It has upserted the whole batch.                                        *)
LEMMA SoFarAll ==
  ASSUME NEW ms \in Seq(Received), NEW w, NEW tab, SoFar(ms, << >>, w, tab)
  PROVE  \A id \in ID : Lacking(ms, DOMAIN ms, id) = {} =>
           Amount(In(w, tab, id)) = Amount(tab[id]) + SumOfDeltas(ms, DOMAIN ms, id)
<1>1. Len(ms) \in Nat /\ DOMAIN ms = 1 .. Len(ms) /\ Len(<< >>) = 0
  BY LenProperties, EmptySeq
<1>2. Past(ms, << >>) = DOMAIN ms
  BY <1>1 DEF Past
<1> QED
  BY <1>2 DEF SoFar

-----------------------------------------------------------------------------
(* Retries.                                                                *)

(* A call of the query: err is its outcome.                                *)
LEMMA CallResult ==
  ASSUME NEW r \in Execution, NEW outcome \in Outcome
  PROVE  /\ Call(policy, r, outcome) \in Execution
         /\ Call(policy, r, outcome).err = outcome
         /\ Call(policy, r, outcome).pc = IF outcome = "retryable" THEN "loop" ELSE "returned"
<1>1. policy.initialDelay \in Nat /\ policy.delayIncrease \in Nat
  BY PostgresAssumption DEF LinearPolicy
<1>2. NextDelay(policy, r.delay) \in Nat
  BY <1>1 DEF NextDelay, Execution
<1> QED
  BY <1>2 DEF Call, Execution, Outcome

(* The loop calls again or returns the error.                              *)
LEMMA LoopResult ==
  ASSUME NEW r \in Execution
  PROVE  /\ Loop(policy, r) \in Execution /\ Loop(policy, r).err = r.err
         /\ Loop(policy, r).pc \in {"call", "returned"}
<1>1. PICK n \in Nat : n = r.attempt + 1
  BY DEF Execution
<1>2. \/ Loop(policy, r) = [[r EXCEPT !.pc = "call"] EXCEPT !.attempt = n]
      \/ Loop(policy, r) = [r EXCEPT !.pc = "returned"]
  BY <1>1 DEF Loop, Execution
<1> QED
  BY <1>2 DEF Execution

(* A fresh execution.                                                      *)
LEMMA RunIs == Run \in Execution /\ Run.pc = "call" /\ Run.err = "nil"
BY DEF Run, Execution, Outcome

(* No rows are written.                                                    *)
LEMMA EmptyCells == Empty(ID) \in Cells /\ \A id \in ID : Empty(ID)[id] = Absent
BY DEF Empty, Cells, Cell

-----------------------------------------------------------------------------
(* One handler.                                                            *)

(* A call begins.                                                          *)
LEMMA BeginOK ==
  ASSUME NEW ms, NEW r, NEW td, NEW w, NEW s, CallOK("none", ms, r, td, w, s),
         NEW q \in {"single", "validate", "get", "list"}, NEW args \in Seq(Received),
         q = "single" => args[1] \in Singles, q = "get" => args # << >>
  PROVE  CallOK(q, args, Run, td, w, s)
BY RunIs DEF CallOK

(* A query without a transaction comes to an end.                          *)
LEMMA ReturnOK ==
  ASSUME NEW q, NEW ms, NEW r, NEW td, NEW w, NEW s, CallOK(q, ms, r, td, w, s),
         q # "set", NEW outcome \in Outcome, NEW t,
         q = "validate" /\ outcome = "nil" => SeenFits(ms, t)
  PROVE  CallOK(q, ms, Call(policy, r, outcome), td, w, t)
<1>1. r \in Execution
  BY DEF CallOK
<1> DEFINE e == Call(policy, r, outcome)
<1>2. /\ e \in Execution /\ e.err = outcome
      /\ e.pc = IF outcome = "retryable" THEN "loop" ELSE "returned"
  BY <1>1, CallResult
<1> HIDE DEF e
<1>3. CallOK(q, ms, e, td, w, t)
  BY <1>2 DEF CallOK
<1> QED
  BY <1>3 DEF e

(* A query, with or without a transaction, comes to an end and leaves no   *)
(* locks.                                                                  *)
LEMMA EndOK ==
  ASSUME NEW q, NEW ms, NEW r, NEW td, NEW w, NEW s, CallOK(q, ms, r, td, w, s),
         NEW outcome \in Outcome, q = "validate" => outcome # "nil"
  PROVE  CallOK(q, ms, Call(policy, r, outcome), ms, Empty(ID), s)
<1>1. r \in Execution
  BY DEF CallOK
<1> DEFINE e == Call(policy, r, outcome)
<1>2. /\ e \in Execution /\ e.err = outcome
      /\ e.pc = IF outcome = "retryable" THEN "loop" ELSE "returned"
  BY <1>1, CallResult
<1> HIDE DEF e
<1>3. CallOK(q, ms, e, ms, Empty(ID), s)
  BY <1>2, EmptyCells DEF CallOK
<1> QED
  BY <1>3 DEF e

(* The loop of the retry executor.                                         *)
LEMMA LoopOK ==
  ASSUME NEW q, NEW ms, NEW r, NEW td, NEW w, NEW s, CallOK(q, ms, r, td, w, s),
         r.pc = "loop"
  PROVE  CallOK(q, ms, Loop(policy, r), td, w, s)
<1>1. r \in Execution /\ r.err # "nil" /\ \A id \in ID : w[id] = Absent
  BY DEF CallOK
<1> DEFINE e == Loop(policy, r)
<1>2. e \in Execution /\ e.err = r.err /\ e.pc \in {"call", "returned"}
  BY <1>1, LoopResult
<1> HIDE DEF e
<1>3. CallOK(q, ms, e, td, w, s)
  BY <1>1, <1>2 DEF CallOK
<1> QED
  BY <1>3 DEF e

(* What was validated goes on to the transaction.                          *)
LEMMA ValidatedOK ==
  ASSUME NEW ms, NEW r, NEW td, NEW w, NEW s, CallOK("validate", ms, r, td, w, s),
         r.pc = "returned", r.err = "nil"
  PROVE  CallOK("set", ms, Run, ms, w, s)
BY RunIs DEF CallOK

(* The call returns.                                                       *)
LEMMA NoneOK ==
  ASSUME NEW q, NEW ms, NEW r, NEW td, NEW w, NEW s, CallOK(q, ms, r, td, w, s),
         r.pc = "returned"
  PROVE  CallOK("none", << >>, r, << >>, w, s)
<1>1. << >> \in Seq(Received)
  OBVIOUS
<1> QED
  BY <1>1 DEF CallOK

(* One upsert of a transaction.                                            *)
LEMMA UpsertOK ==
  ASSUME NEW ms, NEW r, NEW td, NEW w, NEW s, CallOK("set", ms, r, td, w, s),
         r.pc = "call", td # << >>, NEW row \in Cell
  PROVE  CallOK("set", ms, r, Tail(td),
                [w EXCEPT ![Head(td).ID] = UpsertOfBatch(row, Head(td))], s)
<1> DEFINE m == Head(td)
           new == UpsertOfBatch(row, m)
           v == [w EXCEPT ![m.ID] = new]
<1>1. td \in Seq(Received) /\ ms \in Seq(Received) /\ ToSet(td) \subseteq ToSet(ms)
      /\ w \in Cells
  BY DEF CallOK
<1>2. /\ m \in Received /\ m \in ToSet(ms) /\ Tail(td) \in Seq(Received)
      /\ ToSet(Tail(td)) \subseteq ToSet(ms)
  <2>1. /\ m = td[1] /\ m \in Received /\ Tail(td) \in Seq(Received)
        /\ Len(td) \in Nat /\ Len(Tail(td)) = Len(td) - 1
        /\ \A i \in 1 .. Len(Tail(td)) : Tail(td)[i] = td[i + 1]
    BY <1>1, HeadTailProperties, LenProperties
  <2>2. DOMAIN td = 1 .. Len(td) /\ Len(td) # 0 /\ DOMAIN Tail(td) = 1 .. Len(Tail(td))
    BY <1>1, <2>1, EmptySeq, LenProperties
  <2>3. 1 \in DOMAIN td /\ \A i \in DOMAIN Tail(td) : i + 1 \in DOMAIN td /\ Tail(td)[i] = td[i + 1]
    BY <2>1, <2>2
  <2>4. m \in ToSet(td) /\ ToSet(Tail(td)) \subseteq ToSet(td)
    BY <2>1, <2>3 DEF ToSet
  <2> QED
    BY <1>1, <2>1, <2>4
<1> HIDE DEF m
<1>3. new \in Row /\ new.mtype = m.MType /\ m.ID \in ID
  BY <1>2, BatchUpserts, Columns
<1>4. WrittenOf(ms, m.ID, new)
  BY <1>2, <1>3 DEF WrittenOf, ToSet
<1> HIDE DEF new
<1>5. v \in Cells /\ \A id \in ID : v[id] = IF id = m.ID THEN new ELSE w[id]
  BY <1>1, <1>3 DEF Cells, Cell
<1> HIDE DEF v
<1>6. \A id \in ID : v[id] # Absent => WrittenOf(ms, id, v[id])
  BY <1>4, <1>5 DEF CallOK
<1>7. CallOK("set", ms, r, Tail(td), v, s)
  BY <1>2, <1>5, <1>6 DEF CallOK
<1> QED
  BY <1>7 DEF v, new, m

-----------------------------------------------------------------------------
(* The steps.                                                              *)

(* Only what belongs to h changes, and perhaps the table.                  *)
OnlyOf(h) ==
  /\ Shape'
  /\ \A g \in Handler \ {h} :
       /\ doing'[g] = doing[g] /\ metrics'[g] = metrics[g] /\ run'[g] = run[g]
       /\ todo'[g] = todo[g] /\ writes'[g] = writes[g] /\ seen'[g] = seen[g]

(* A step of one handler.                                                  *)
LEMMA OneStep ==
  ASSUME RaceInv, NEW h \in Handler, OnlyOf(h), table' \in Cells,
         CallOK(doing'[h], metrics'[h], run'[h], todo'[h], writes'[h], seen'[h])
  PROVE  RaceInv'
<1>1. ASSUME NEW g \in Handler
      PROVE  CallOK(doing'[g], metrics'[g], run'[g], todo'[g], writes'[g], seen'[g])
  <2>1. CASE g = h
    BY <2>1
  <2>2. CASE g # h
    BY <2>2 DEF RaceInv, HandlerOK, OnlyOf
  <2> QED
    BY <2>1, <2>2
<1> QED
  BY <1>1 DEF RaceInv, HandlerOK, OnlyOf

(* What the invariant says of one handler.                                 *)
LEMMA OfHandler ==
  ASSUME RaceInv, NEW h \in Handler
  PROVE  /\ table \in Cells /\ Shape
         /\ CallOK(doing[h], metrics[h], run[h], todo[h], writes[h], seen[h])
BY DEF RaceInv, HandlerOK

(* AddCounter, SetGauge, BatchUpdate, GetByID and GetAllSorted begin.      *)
LEMMA BeginsStep ==
  ASSUME RaceInv, NEW h \in Handler, NEW q \in {"single", "validate", "get", "list"},
         NEW args \in Seq(Received), q = "single" => args[1] \in Singles,
         q = "get" => args # << >>, Begins(h, q, args)
  PROVE  RaceInv'
<1>1. table \in Cells /\ Shape
      /\ CallOK(doing[h], metrics[h], run[h], todo[h], writes[h], seen[h])
  BY OfHandler
<1>2. OnlyOf(h) /\ table' = table
  BY <1>1 DEF Begins, OnlyOf, Shape, IsFunction
<1>3. /\ doing[h] = "none" /\ doing'[h] = q /\ metrics'[h] = args /\ run'[h] = Run
      /\ todo'[h] = todo[h] /\ writes'[h] = writes[h] /\ seen'[h] = seen[h]
  BY <1>1 DEF Begins, Shape, IsFunction
<1>4. CallOK(q, args, Run, todo[h], writes[h], seen[h])
  BY <1>1, <1>3, BeginOK
<1> QED
  BY <1>1, <1>2, <1>3, <1>4, OneStep

(* A single statement takes effect: the table keeps its types.             *)
LEMMA SingleEffectKeeps ==
  ASSUME RaceInv, NEW h \in Handler, doing[h] = "single", SingleEffect(h)
  PROVE  /\ table' \in Cells
         /\ \A id \in ID : table[id] # Absent =>
              table'[id] # Absent /\ table'[id].mtype = table[id].mtype
<1> DEFINE m == metrics[h][1]
<1>1. table \in Cells /\ m \in Singles
  BY OfHandler DEF CallOK
<1>2. m.ID \in ID /\ table[m.ID] \in Cell
  BY <1>1, SingleIs, Columns DEF Cells
<1> DEFINE new == UpsertSingle(table[m.ID], m)
<1>3. table' = [table EXCEPT ![m.ID] = new]
  BY DEF SingleEffect
<1> HIDE DEF m
<1>4. new \in Row /\ new # Absent /\ (table[m.ID] # Absent => new.mtype = table[m.ID].mtype)
  BY <1>1, <1>2, SingleKeepsType, PostgresAssumption
<1> HIDE DEF new
<1> QED
  BY <1>1, <1>2, <1>3, <1>4 DEF Cells, Cell

(* A batch takes effect: it writes only what its transaction has written.  *)
LEMMA BatchEffectKeeps ==
  ASSUME RaceInv, NEW h \in Handler, BatchEffect(h)
  PROVE  /\ table' \in Cells
         /\ \A id \in ID : table'[id] = IF writes[h][id] = Absent THEN table[id]
                                                                  ELSE writes[h][id]
<1>1. table' = [id \in ID |-> Current(h, id)]
  BY DEF BatchEffect
<1>2. table \in Cells /\ writes[h] \in Cells
  BY OfHandler DEF CallOK
<1> QED
  BY <1>1, <1>2 DEF Current, Cells

(* One handler's query ends, with or without an effect on the table.       *)
LEMMA EndsStep ==
  ASSUME RaceInv, NEW h \in Handler, table' \in Cells, TxEnds(h),
         NEW outcome \in Outcome, FReturns(h, outcome), doing[h] = "validate" => outcome # "nil",
         UNCHANGED <<doing, metrics, seen>>
  PROVE  RaceInv'
<1>1. Shape /\ CallOK(doing[h], metrics[h], run[h], todo[h], writes[h], seen[h])
  BY OfHandler
<1>2. OnlyOf(h)
  BY <1>1 DEF TxEnds, FReturns, OnlyOf, Shape, IsFunction
<1>3. /\ doing'[h] = doing[h] /\ metrics'[h] = metrics[h] /\ seen'[h] = seen[h]
      /\ run'[h] = Call(policy, run[h], outcome) /\ todo'[h] = metrics[h]
      /\ writes'[h] = Empty(ID)
  BY <1>1 DEF TxEnds, FReturns, Shape, IsFunction
<1>4. CallOK(doing[h], metrics[h], Call(policy, run[h], outcome), metrics[h], Empty(ID), seen[h])
  BY <1>1, EndOK
<1> QED
  BY <1>2, <1>3, <1>4, OneStep

(* A query without a transaction ends.                                     *)
LEMMA ReturnsStep ==
  ASSUME RaceInv, NEW h \in Handler, table' \in Cells, doing[h] # "set",
         NEW outcome \in Outcome, FReturns(h, outcome), NEW t,
         seen' = [seen EXCEPT ![h] = t],
         doing[h] = "validate" /\ outcome = "nil" => SeenFits(metrics[h], t),
         UNCHANGED <<doing, metrics, todo, writes>>
  PROVE  RaceInv'
<1>1. Shape /\ CallOK(doing[h], metrics[h], run[h], todo[h], writes[h], seen[h])
  BY OfHandler
<1>2. OnlyOf(h)
  BY <1>1 DEF FReturns, OnlyOf, Shape, IsFunction
<1>3. /\ doing'[h] = doing[h] /\ metrics'[h] = metrics[h] /\ seen'[h] = t
      /\ run'[h] = Call(policy, run[h], outcome) /\ todo'[h] = todo[h]
      /\ writes'[h] = writes[h]
  BY <1>1 DEF FReturns, Shape, IsFunction
<1>4. CallOK(doing[h], metrics[h], Call(policy, run[h], outcome), todo[h], writes[h], t)
  BY <1>1, ReturnOK
<1> QED
  BY <1>2, <1>3, <1>4, OneStep

(* A step that leaves everything of the invariant alone.                   *)
LEMMA NothingStep ==
  ASSUME RaceInv, UNCHANGED <<table, doing, metrics, run, todo, writes, seen>>
  PROVE  RaceInv'
BY DEF RaceInv, Shape, IsFunction, HandlerOK

(* What seen is when it does not change.                                   *)
LEMMA SeenStays ==
  ASSUME RaceInv, NEW h \in Handler, seen' = seen
  PROVE  seen' = [seen EXCEPT ![h] = seen[h]]
BY DEF RaceInv, Shape, IsFunction

(* A single statement.                                                     *)
LEMMA ExecStep ==
  ASSUME RaceInv, NEW h \in Handler, Exec(h)
  PROVE  RaceInv'
<1>1. /\ doing[h] = "single" /\ SingleEffect(h) /\ FReturns(h, "nil")
      /\ UNCHANGED <<doing, metrics, todo, writes, seen>>
  BY DEF Exec, At
<1>2. table' \in Cells
  BY <1>1, SingleEffectKeeps
<1>3. "nil" \in Outcome /\ seen' = [seen EXCEPT ![h] = seen[h]]
  BY <1>1, SeenStays DEF Outcome
<1> QED
  BY <1>1, <1>2, <1>3, ReturnsStep

(* The validation of a batch: a type that does not fit ends the call.      *)
LEMMA BatchValidateStep ==
  ASSUME RaceInv, NEW h \in Handler, BatchValidate(h)
  PROVE  RaceInv'
<1> DEFINE invalid == \E i \in DOMAIN metrics[h] :
                        Types[metrics[h][i].ID] \notin {Absent, metrics[h][i].MType}
           outcome == IF invalid THEN "final" ELSE "nil"
<1>1. /\ doing[h] = "validate" /\ FReturns(h, outcome) /\ seen' = [seen EXCEPT ![h] = Types]
      /\ UNCHANGED <<table, doing, metrics, todo, writes>>
  BY DEF BatchValidate, At
<1>2. outcome \in Outcome /\ (outcome = "nil" => SeenFits(metrics[h], Types))
  BY DEF Outcome, SeenFits
<1> HIDE DEF outcome
<1>3. table' \in Cells
  BY <1>1, OfHandler
<1> QED
  BY <1>1, <1>2, <1>3, ReturnsStep

(* The transaction of a validated batch begins.                            *)
LEMMA ValidatedStep ==
  ASSUME RaceInv, NEW h \in Handler, Validated(h)
  PROVE  RaceInv'
<1>1. table \in Cells /\ Shape
      /\ CallOK(doing[h], metrics[h], run[h], todo[h], writes[h], seen[h])
  BY OfHandler
<1>2. OnlyOf(h) /\ table' = table
  BY <1>1 DEF Validated, OnlyOf, Shape, IsFunction
<1>3. /\ doing[h] = "validate" /\ run[h].pc = "returned" /\ run[h].err = "nil"
      /\ doing'[h] = "set" /\ metrics'[h] = metrics[h] /\ run'[h] = Run
      /\ todo'[h] = metrics[h] /\ writes'[h] = writes[h] /\ seen'[h] = seen[h]
  BY <1>1 DEF Validated, Shape, IsFunction
<1>4. CallOK("set", metrics[h], Run, metrics[h], writes[h], seen[h])
  BY <1>1, <1>3, ValidatedOK
<1> QED
  BY <1>1, <1>2, <1>3, <1>4, OneStep

(* An upsert of a transaction.                                             *)
LEMMA TxExecStep ==
  ASSUME RaceInv, NEW h \in Handler, TxExec(h)
  PROVE  RaceInv'
<1> DEFINE m == Head(todo[h])
           row == Current(h, m.ID)
           v == [writes[h] EXCEPT ![m.ID] = UpsertOfBatch(row, m)]
<1>1. table \in Cells /\ Shape /\ writes[h] \in Cells /\ todo[h] \in Seq(Received)
      /\ CallOK(doing[h], metrics[h], run[h], todo[h], writes[h], seen[h])
  BY OfHandler DEF CallOK
<1>2. /\ doing[h] = "set" /\ run[h].pc = "call" /\ todo[h] # << >> /\ table' = table
      /\ todo' = [todo EXCEPT ![h] = Tail(@)] /\ UNCHANGED <<doing, metrics, run, seen>>
      /\ writes' = [writes EXCEPT ![h][m.ID] = UpsertOfBatch(row, m)]
  BY DEF TxExec, At
<1>3. m \in Received /\ m.ID \in ID
  <2>1. m \in Received
    BY <1>1, <1>2, HeadTailProperties
  <2> QED
    BY <2>1, Columns
<1>4. row \in Cell
  BY <1>1, <1>3 DEF Current, Cells
<1>5. OnlyOf(h)
  BY <1>1, <1>2 DEF OnlyOf, Shape, IsFunction
<1>6. /\ doing'[h] = doing[h] /\ metrics'[h] = metrics[h] /\ run'[h] = run[h]
      /\ todo'[h] = Tail(todo[h]) /\ writes'[h] = v /\ seen'[h] = seen[h]
  BY <1>1, <1>2 DEF Shape, IsFunction
<1>7. CallOK("set", metrics[h], run[h], Tail(todo[h]), v, seen[h])
  BY <1>1, <1>2, <1>4, UpsertOK
<1> QED
  BY <1>1, <1>2, <1>5, <1>6, <1>7, OneStep

(* The commit of a batch.                                                  *)
LEMMA TxCommitStep ==
  ASSUME RaceInv, NEW h \in Handler, TxCommit(h)
  PROVE  RaceInv'
<1>1. /\ doing[h] = "set" /\ BatchEffect(h) /\ TxEnds(h) /\ FReturns(h, "nil")
      /\ UNCHANGED <<doing, metrics, seen>>
  BY DEF TxCommit, At
<1>2. table' \in Cells /\ "nil" \in Outcome
  BY <1>1, BatchEffectKeeps DEF Outcome
<1> QED
  BY <1>1, <1>2, EndsStep

(* A read of one row.                                                      *)
LEMMA QueryRowStep ==
  ASSUME RaceInv, NEW h \in Handler, QueryRow(h)
  PROVE  RaceInv'
<1>1. /\ doing[h] = "get" /\ UNCHANGED <<table, doing, metrics, todo, writes, seen>>
  BY DEF QueryRow, At
<1>2. PICK outcome \in {"nil", "final"} : FReturns(h, outcome)
  BY DEF QueryRow
<1>3. /\ table' \in Cells /\ outcome \in Outcome /\ seen' = [seen EXCEPT ![h] = seen[h]]
  BY <1>1, OfHandler, SeenStays DEF Outcome
<1> QED
  BY <1>1, <1>2, <1>3, ReturnsStep

(* A listing, row by row.                                                  *)
LEMMA ListStep ==
  ASSUME RaceInv, NEW h \in Handler, Query(h) \/ RowsNext(h) \/ RowsEnd(h)
  PROVE  RaceInv'
<1>1. CASE Query(h) \/ RowsNext(h)
  BY <1>1, NothingStep DEF Query, RowsNext
<1>2. CASE RowsEnd(h)
  <2>1. /\ doing[h] = "list" /\ FReturns(h, "nil") /\ TxEnds(h)
        /\ UNCHANGED <<table, doing, metrics, seen>>
    BY <1>2 DEF RowsEnd, At
  <2>2. table' \in Cells /\ "nil" \in Outcome
    BY <2>1, OfHandler DEF Outcome
  <2> QED
    BY <2>1, <2>2, EndsStep
<1> QED
  BY <1>1, <1>2

(* A fault before the effect, and a deadlock.                              *)
LEMMA FailsStep ==
  ASSUME RaceInv, NEW h \in Handler,
         DeadlockDetected(h) \/ \E outcome \in {"retryable", "final"} : FailsBefore(h, outcome)
  PROVE  RaceInv'
<1>1. PICK outcome \in {"retryable", "final"} :
        /\ TxEnds(h) /\ FReturns(h, outcome) /\ UNCHANGED <<table, doing, metrics, seen>>
  BY DEF DeadlockDetected, FailsBefore
<1>2. table' \in Cells /\ outcome \in Outcome /\ outcome # "nil"
  BY <1>1, OfHandler DEF Outcome
<1> QED
  BY <1>1, <1>2, EndsStep

(* A connection that is lost after the effect.                             *)
LEMMA FailsAfterStep ==
  ASSUME RaceInv, NEW h \in Handler, FailsAfter(h)
  PROVE  RaceInv'
<1>1. TxEnds(h) /\ FReturns(h, "final") /\ UNCHANGED <<doing, metrics, seen>>
  BY DEF FailsAfter
<1>2. table' \in Cells
  <2>1. CASE At(h, "single") /\ SingleEffect(h)
    BY <2>1, SingleEffectKeeps DEF At
  <2>2. CASE BatchEffect(h)
    BY <2>2, BatchEffectKeeps
  <2> QED
    BY <2>1, <2>2 DEF FailsAfter
<1>3. "final" \in Outcome /\ "final" # "nil"
  BY DEF Outcome
<1> QED
  BY <1>1, <1>2, <1>3, EndsStep

(* The retry loop.                                                         *)
LEMMA RetryLoopStep ==
  ASSUME RaceInv, NEW h \in Handler, RetryLoop(h)
  PROVE  RaceInv'
<1>1. table \in Cells /\ Shape
      /\ CallOK(doing[h], metrics[h], run[h], todo[h], writes[h], seen[h])
  BY OfHandler
<1>2. OnlyOf(h) /\ table' = table
  BY <1>1 DEF RetryLoop, OnlyOf, Shape, IsFunction
<1>3. /\ run[h].pc = "loop" /\ run'[h] = Loop(policy, run[h])
      /\ doing'[h] = doing[h] /\ metrics'[h] = metrics[h]
      /\ todo'[h] = todo[h] /\ writes'[h] = writes[h] /\ seen'[h] = seen[h]
  BY <1>1 DEF RetryLoop, Shape, IsFunction
<1>4. CallOK(doing[h], metrics[h], Loop(policy, run[h]), todo[h], writes[h], seen[h])
  BY <1>1, <1>3, LoopOK
<1> QED
  BY <1>1, <1>2, <1>3, <1>4, OneStep

(* The call returns to the handler.                                        *)
LEMMA CallReturnsStep ==
  ASSUME RaceInv, NEW h \in Handler, Returns(h)
  PROVE  RaceInv'
<1>1. table \in Cells /\ Shape
      /\ CallOK(doing[h], metrics[h], run[h], todo[h], writes[h], seen[h])
  BY OfHandler
<1>2. OnlyOf(h) /\ table' = table
  BY <1>1 DEF Returns, OnlyOf, Shape, IsFunction
<1>3. /\ run[h].pc = "returned" /\ doing'[h] = "none" /\ metrics'[h] = << >>
      /\ run'[h] = run[h] /\ todo'[h] = << >> /\ writes'[h] = writes[h] /\ seen'[h] = seen[h]
  BY <1>1 DEF Returns, Shape, IsFunction
<1>4. CallOK("none", << >>, run[h], << >>, writes[h], seen[h])
  BY <1>1, <1>3, NoneOK
<1> QED
  BY <1>1, <1>2, <1>3, <1>4, OneStep

(* The calls that begin.                                                   *)
LEMMA CallsStep ==
  ASSUME RaceInv, NEW h \in Handler,
         \/ \E m \in Singles : AddCounterOrSetGauge(h, m)
         \/ \E args \in Batches : BatchUpdate(h, args)
         \/ \E id \in Wanted : GetByID(h, id)
         \/ GetAllSorted(h)
  PROVE  RaceInv'
<1>1. ASSUME NEW m \in Singles, AddCounterOrSetGauge(h, m)
      PROVE  RaceInv'
  <2>1. m \in Received
    BY SingleIs
  <2>2. <<m>> \in Seq(Received) /\ <<m>>[1] \in Singles
    BY <2>1
  <2> QED
    BY <1>1, <2>2, BeginsStep DEF AddCounterOrSetGauge
<1>2. ASSUME NEW args \in Batches, BatchUpdate(h, args)
      PROVE  RaceInv'
  BY <1>2, PostgresAssumption, BeginsStep DEF BatchUpdate
<1>3. ASSUME NEW id \in Wanted, GetByID(h, id)
      PROVE  RaceInv'
  <2> DEFINE m == [ID |-> id, MType |-> Other, Delta |-> Nil, Value |-> Nil]
  <2>1. m \in Received
    BY PostgresAssumption DEF Received
  <2>2. <<m>> \in Seq(Received) /\ <<m>> # << >>
    BY <2>1
  <2> QED
    BY <1>3, <2>2, BeginsStep DEF GetByID
<1>4. CASE GetAllSorted(h)
  <2>1. << >> \in Seq(Received)
    OBVIOUS
  <2> QED
    BY <1>4, <2>1, BeginsStep DEF GetAllSorted
<1> QED
  BY <1>1, <1>2, <1>3, <1>4

(* The invariant holds at first.                                           *)
LEMMA RaceInit == Init => RaceInv
<1> SUFFICES ASSUME Init PROVE RaceInv
  OBVIOUS
<1>1. table \in Cells
  BY EmptyCells DEF Init
<1>2. Shape
  BY DEF Init, Shape, IsFunction
<1>3. ASSUME NEW h \in Handler
      PROVE  HandlerOK(h)
  <2>1. << >> \in Seq(Received)
    OBVIOUS
  <2>2. CallOK("none", << >>, Run, << >>, Empty(ID), seen[h])
    BY <2>1, RunIs, EmptyCells DEF CallOK
  <2>3. /\ doing[h] = "none" /\ metrics[h] = << >> /\ run[h] = Run /\ todo[h] = << >>
        /\ writes[h] = Empty(ID)
    BY DEF Init
  <2> QED
    BY <2>2, <2>3 DEF HandlerOK
<1> QED
  BY <1>1, <1>2, <1>3 DEF RaceInv

(* Every step keeps it.                                                    *)
LEMMA RaceNext == RaceInv /\ [Next]_vars => RaceInv'
<1> SUFFICES ASSUME RaceInv, [Next]_vars PROVE RaceInv'
  OBVIOUS
<1>1. CASE NoMoreCalls \/ UNCHANGED vars
  BY <1>1, NothingStep DEF NoMoreCalls, vars
<1>2. ASSUME NEW h \in Handler,
             \/ \E m \in Singles : AddCounterOrSetGauge(h, m)
             \/ \E args \in Batches : BatchUpdate(h, args)
             \/ \E id \in Wanted : GetByID(h, id)
             \/ GetAllSorted(h)
      PROVE  RaceInv'
  BY <1>2, CallsStep
<1>3. ASSUME NEW h \in Handler, HandlerNext(h)
      PROVE  RaceInv'
  BY <1>3, ExecStep, BatchValidateStep, ValidatedStep, TxExecStep, TxCommitStep, QueryRowStep,
     ListStep, FailsStep, RetryLoopStep, CallReturnsStep DEF HandlerNext
<1>4. ASSUME NEW h \in Handler,
             (\E outcome \in {"retryable", "final"} : FailsBefore(h, outcome)) \/ FailsAfter(h)
      PROVE  RaceInv'
  BY <1>4, FailsStep, FailsAfterStep
<1> QED
  BY <1>1, <1>2, <1>3, <1>4 DEF Next

-----------------------------------------------------------------------------
(* Counters.                                                               *)

(* h changes the table and the history in step, and no row that another    *)
(* transaction has written.                                                *)
InStep(h) ==
  /\ table' \in Cells
  /\ sum' \in [ID -> Int] /\ spoilt' \subseteq ID
  /\ \A id \in ID \ spoilt' : sum'[id] = Amount(table'[id])
  /\ \A id \in ID : table'[id] = table[id] \/ Free(h, id)

(* What the invariant says of a counter.                                   *)
LEMMA Counted ==
  ASSUME RaceInv, CountInv
  PROVE  /\ table \in Cells /\ sum \in [ID -> Int] /\ spoilt \subseteq ID
         /\ \A id \in ID : table[id] \in Cell /\ Amount(table[id]) \in Int /\ sum[id] \in Int
         /\ \A id \in ID \ spoilt : sum[id] = Amount(table[id])
<1>1. table \in Cells /\ sum \in [ID -> Int] /\ spoilt \subseteq ID
  BY DEF RaceInv, CountInv
<1>2. \A id \in ID : table[id] \in Cell
  BY <1>1 DEF Cells
<1> QED
  BY <1>1, <1>2, AmountIsNumber DEF CountInv, CountersAreExact, Amount

(* A step without an effect.                                               *)
LEMMA NoEffect ==
  ASSUME RaceInv, CountInv, NEW h, UNCHANGED <<table, sum, spoilt>>
  PROVE  InStep(h)
BY Counted DEF InStep

(* A single statement.                                                     *)
LEMMA SingleInStep ==
  ASSUME RaceInv, CountInv, NEW h \in Handler, doing[h] = "single", SingleEffect(h)
  PROVE  InStep(h)
<1> DEFINE m == metrics[h][1]
<1>1. m \in Singles /\ m \in Received /\ (m.MType = Counter => m.Delta \in Int)
  BY OfHandler, SingleIs DEF CallOK
<1> DEFINE new == UpsertSingle(table[m.ID], m)
           refused == Types[m.ID] \notin {Absent, m.MType}
           adds == m.MType = Counter /\ (table[m.ID] = Absent \/ table[m.ID].mtype = Counter)
           d == IF adds THEN m.Delta ELSE 0
<1>2. /\ Free(h, m.ID) /\ table' = [table EXCEPT ![m.ID] = new] /\ spoilt' = spoilt
      /\ sum' = IF m.MType = Counter /\ ~ refused THEN [sum EXCEPT ![m.ID] = @ + m.Delta] ELSE sum
  BY DEF SingleEffect
<1>3. m.ID \in ID /\ d \in Int
  BY <1>1, Columns
<1> HIDE DEF m
<1>4. table[m.ID] \in Cell /\ Amount(table[m.ID]) \in Int
  BY <1>3, Counted
<1>5. m.MType = Counter /\ ~ refused <=> adds
  <2>1. Types[m.ID] = IF table[m.ID] = Absent THEN Absent ELSE table[m.ID].mtype
    BY <1>3 DEF Types
  <2>2. table[m.ID] # Absent => table[m.ID].mtype # Absent
    BY <1>4, DeltaOf, PostgresAssumption DEF Cell
  <2> QED
    BY <2>1, <2>2
<1>6. Amount(new) = Amount(table[m.ID]) + d /\ new \in Row /\ new # Absent
  BY <1>1, <1>4, SingleAdds, SingleKeepsType, PostgresAssumption
<1> HIDE DEF new, refused, adds
<1>7. sum' = [sum EXCEPT ![m.ID] = @ + d]
  <2>1. CASE adds
    BY <1>2, <1>5, <2>1
  <2>2. CASE ~ adds
    <3>1. sum' = sum /\ sum \in [ID -> Int] /\ sum[m.ID] + d = sum[m.ID]
      BY <1>2, <1>3, <1>5, <2>2, Counted
    <3> HIDE DEF d
    <3> QED
      BY <3>1
  <2> QED
    BY <2>1, <2>2
<1> HIDE DEF d
<1>8. /\ table' \in Cells
      /\ \A id \in ID : table'[id] = IF id = m.ID THEN new ELSE table[id]
  BY <1>2, <1>3, <1>6, Counted DEF Cells, Cell
<1>9. /\ sum' \in [ID -> Int]
      /\ \A id \in ID : sum'[id] = IF id = m.ID THEN sum[id] + d ELSE sum[id]
  <2>1. sum \in [ID -> Int] /\ sum[m.ID] + d \in Int
    BY <1>3, Counted
  <2> QED
    BY <1>3, <1>7, <2>1
<1>10. \A id \in ID \ spoilt : sum'[id] = Amount(table'[id])
  BY <1>3, <1>6, <1>8, <1>9, Counted
<1>11. \A id \in ID : table'[id] = table[id] \/ Free(h, id)
  BY <1>2, <1>8
<1> QED
  BY <1>2, <1>8, <1>9, <1>10, <1>11, Counted DEF InStep

(* The commit of a batch.                                                  *)
LEMMA BatchInStep ==
  ASSUME RaceInv, CountInv, NEW h \in Handler, doing[h] = "set", todo[h] = << >>, BatchEffect(h)
  PROVE  InStep(h)
<1> DEFINE ms == metrics[h]
           w == writes[h]
<1>1. ms \in Seq(Received) /\ w \in Cells /\ SoFar(ms, << >>, w, table)
  BY OfHandler DEF CallOK, CountInv
<1>2. /\ table' = [id \in ID |-> Current(h, id)]
      /\ sum' = [id \in ID |-> sum[id] + SumOfDeltas(ms, DOMAIN ms, id)]
      /\ spoilt' = spoilt \cup {id \in ID : Lacking(ms, DOMAIN ms, id) # {}}
  BY DEF BatchEffect
<1>3. DOMAIN ms \in SUBSET (1 .. Len(ms))
  BY <1>1, LenProperties
<1>4. table' \in Cells /\ \A id \in ID : table'[id] = In(w, table, id)
  BY <1>1, <1>2, Counted DEF Current, In, Cells
<1>5. \A id \in ID : SumOfDeltas(ms, DOMAIN ms, id) \in Int
  BY <1>1, <1>3, SumIsNumber
<1>6. sum' \in [ID -> Int]
  BY <1>2, <1>5, Counted
<1>7. ASSUME NEW id \in ID \ spoilt'
      PROVE  sum'[id] = Amount(table'[id])
  <2>1. Lacking(ms, DOMAIN ms, id) = {} /\ id \in ID \ spoilt
    BY <1>2
  <2>2. Amount(In(w, table, id)) = Amount(table[id]) + SumOfDeltas(ms, DOMAIN ms, id)
    BY <1>1, <2>1, SoFarAll
  <2>3. sum'[id] = sum[id] + SumOfDeltas(ms, DOMAIN ms, id)
    BY <1>2
  <2>4. PICK a \in Int, s \in Int : a = Amount(table[id]) /\ s = SumOfDeltas(ms, DOMAIN ms, id)
    BY <1>5, Counted
  <2>5. sum[id] = a
    BY <2>1, <2>4, Counted
  <2> QED
    BY <1>4, <2>2, <2>3, <2>4, <2>5
<1>8. ASSUME NEW id \in ID
      PROVE  table'[id] = table[id] \/ Free(h, id)
  <2>1. CASE w[id] = Absent
    BY <1>4, <2>1 DEF In
  <2>2. CASE w[id] # Absent
    BY <1>4, <2>2 DEF In, CountInv, LocksOK, Free
  <2> QED
    BY <2>1, <2>2
<1> QED
  BY <1>2, <1>4, <1>6, <1>7, <1>8, Counted DEF InStep

(* A step of one handler.                                                  *)
LEMMA CountStep ==
  ASSUME RaceInv, RaceInv', CountInv, NEW h \in Handler, OnlyOf(h), InStep(h),
         \A id \in ID : writes'[h][id] = Absent \/ writes[h][id] # Absent \/ Free(h, id),
         doing'[h] = "set" => SoFar(metrics'[h], todo'[h], writes'[h], table')
  PROVE  CountInv'
<1>1. \A k \in Handler \ {h}, id \in ID : writes'[h][id] = Absent \/ writes'[k][id] = Absent
  BY DEF CountInv, LocksOK, OnlyOf, Free
<1>2. ASSUME NEW g \in Handler, NEW k \in Handler, g # k, NEW id \in ID
      PROVE  writes'[g][id] = Absent \/ writes'[k][id] = Absent
  <2>1. CASE g = h \/ k = h
    BY <1>1, <1>2, <2>1
  <2>2. CASE g # h /\ k # h
    BY <1>2, <2>2 DEF CountInv, LocksOK, OnlyOf
  <2> QED
    BY <2>1, <2>2
<1>3. ASSUME NEW g \in Handler, doing'[g] = "set"
      PROVE  SoFar(metrics'[g], todo'[g], writes'[g], table')
  <2>1. CASE g = h
    BY <1>3, <2>1
  <2>2. CASE g # h
    <3>1. /\ doing[g] = "set" /\ metrics'[g] = metrics[g] /\ todo'[g] = todo[g]
          /\ writes'[g] = writes[g]
      BY <1>3, <2>2 DEF OnlyOf
    <3>2. metrics[g] \in Seq(Received) /\ todo[g] \in Seq(Received) /\ table \in Cells
      BY OfHandler DEF CallOK
    <3>3. table' \in Cells /\ \A id \in ID : table'[id] = table[id] \/ writes[g][id] = Absent
      BY <2>2 DEF InStep, Free
    <3>4. SoFar(metrics[g], todo[g], writes[g], table)
      BY <3>1 DEF CountInv
    <3> QED
      BY <3>1, <3>2, <3>3, <3>4, SoFarBeside
  <2> QED
    BY <2>1, <2>2
<1>4. CountersAreExact'
  BY DEF InStep, CountersAreExact, Amount
<1> QED
  BY <1>2, <1>3, <1>4 DEF CountInv, LocksOK, InStep

(* A step outside the transaction, without an effect.                      *)
LEMMA CountQuiet ==
  ASSUME RaceInv, RaceInv', CountInv, NEW h \in Handler, OnlyOf(h),
         UNCHANGED <<table, sum, spoilt, writes>>,
         doing'[h] = "set" =>
           doing[h] = "set" /\ metrics'[h] = metrics[h] /\ todo'[h] = todo[h]
  PROVE  CountInv'
<1>1. InStep(h)
  BY NoEffect
<1>2. doing'[h] = "set" => SoFar(metrics'[h], todo'[h], writes'[h], table')
  BY DEF CountInv
<1>3. \A id \in ID : writes'[h][id] = Absent \/ writes[h][id] # Absent \/ Free(h, id)
  OBVIOUS
<1> QED
  BY <1>1, <1>2, <1>3, CountStep

(* A transaction or a query ends, with or without an effect.               *)
LEMMA CountEnds ==
  ASSUME RaceInv, RaceInv', CountInv, NEW h \in Handler, InStep(h), TxEnds(h),
         NEW outcome, FReturns(h, outcome), UNCHANGED <<doing, metrics, seen>>
  PROVE  CountInv'
<1>1. Shape /\ metrics[h] \in Seq(Received)
  BY OfHandler DEF CallOK
<1>2. OnlyOf(h)
  BY <1>1 DEF TxEnds, FReturns, OnlyOf, Shape, IsFunction
<1>3. metrics'[h] = metrics[h] /\ todo'[h] = metrics[h] /\ writes'[h] = Empty(ID)
  BY <1>1 DEF TxEnds, Shape, IsFunction
<1>4. \A id \in ID : writes'[h][id] = Absent
  BY <1>3, EmptyCells
<1>5. SoFar(metrics'[h], todo'[h], writes'[h], table')
  <2>1. table' \in Cells
    BY DEF InStep
  <2> QED
    BY <1>1, <1>3, <1>4, <2>1, SoFarNone
<1> QED
  BY <1>2, <1>4, <1>5, CountStep

(* The transaction of a validated batch begins.                            *)
LEMMA CountValidated ==
  ASSUME RaceInv, RaceInv', CountInv, NEW h \in Handler, Validated(h)
  PROVE  CountInv'
<1>1. /\ Shape /\ metrics[h] \in Seq(Received) /\ table \in Cells
      /\ CallOK(doing[h], metrics[h], run[h], todo[h], writes[h], seen[h])
  BY OfHandler DEF CallOK
<1>2. OnlyOf(h) /\ UNCHANGED <<table, sum, spoilt, writes>>
  BY <1>1 DEF Validated, OnlyOf, Shape, IsFunction
<1>3. metrics'[h] = metrics[h] /\ todo'[h] = metrics[h] /\ doing[h] = "validate"
  BY <1>1 DEF Validated, Shape, IsFunction
<1>4. \A id \in ID : writes[h][id] = Absent
  BY <1>1, <1>3 DEF CallOK
<1>5. SoFar(metrics[h], metrics[h], writes[h], table)
  BY <1>1, <1>4, SoFarNone
<1>6. InStep(h)
  BY <1>2, NoEffect
<1> QED
  BY <1>2, <1>3, <1>4, <1>5, <1>6, CountStep

(* An upsert of a transaction: it takes a lock that nobody has.            *)
LEMMA CountTxExec ==
  ASSUME RaceInv, RaceInv', CountInv, NEW h \in Handler, TxExec(h)
  PROVE  CountInv'
<1> DEFINE m == Head(todo[h])
           w == writes[h]
           new == UpsertOfBatch(In(w, table, m.ID), m)
           v == [w EXCEPT ![m.ID] = new]
<1>1. /\ table \in Cells /\ Shape /\ w \in Cells /\ todo[h] \in Seq(Received)
      /\ metrics[h] \in Seq(Received)
  BY OfHandler DEF CallOK
<1>2. /\ doing[h] = "set" /\ todo[h] # << >> /\ Free(h, m.ID)
      /\ UNCHANGED <<table, sum, spoilt, doing, metrics, run, seen>>
      /\ todo' = [todo EXCEPT ![h] = Tail(@)]
      /\ writes' = [writes EXCEPT ![h][m.ID] = new]
  BY DEF TxExec, At, In, Current
<1>3. m \in Received /\ m.ID \in ID
  <2>1. m \in Received
    BY <1>1, <1>2, HeadTailProperties
  <2> QED
    BY <2>1, Columns
<1>4. new \in Row
  <2>1. In(w, table, m.ID) \in Cell
    BY <1>1, <1>3 DEF In, Cells
  <2> QED
    BY <1>3, <2>1, BatchUpserts
<1>5. OnlyOf(h)
  BY <1>1, <1>2 DEF OnlyOf, Shape, IsFunction
<1>6. todo'[h] = Tail(todo[h]) /\ writes'[h] = v /\ metrics'[h] = metrics[h]
  BY <1>1, <1>2 DEF Shape, IsFunction
<1>7. SoFar(metrics[h], todo[h], w, table)
  BY <1>2 DEF CountInv
<1> HIDE DEF m, w, new
<1>8. SoFar(metrics[h], Tail(todo[h]), v, table)
  BY <1>1, <1>2, <1>4, <1>7, SoFarNext DEF m, new
<1>9. \A id \in ID : v[id] = IF id = m.ID THEN new ELSE w[id]
  BY <1>1, <1>3 DEF Cells
<1> HIDE DEF v
<1>10. \A id \in ID : writes'[h][id] = Absent \/ w[id] # Absent \/ Free(h, id)
  BY <1>2, <1>6, <1>9
<1>11. InStep(h)
  BY <1>2, NoEffect
<1> QED
  BY <1>2, <1>5, <1>6, <1>8, <1>10, <1>11, CountStep DEF w

(* Calls begin.                                                            *)
LEMMA CountBegins ==
  ASSUME RaceInv, RaceInv', CountInv, NEW h \in Handler,
         NEW q \in {"single", "validate", "get", "list"}, NEW args, Begins(h, q, args)
  PROVE  CountInv'
<1>1. Shape
  BY OfHandler
<1>2. OnlyOf(h) /\ UNCHANGED <<table, sum, spoilt, writes>> /\ doing'[h] = q
  BY <1>1 DEF Begins, OnlyOf, Shape, IsFunction
<1> QED
  BY <1>2, CountQuiet

(* The queries and the loop of the retry executor, which change neither    *)
(* the table nor a transaction.                                            *)
LEMMA CountQueries ==
  ASSUME RaceInv, RaceInv', CountInv, NEW h \in Handler,
         \/ BatchValidate(h) \/ QueryRow(h) \/ Query(h) \/ RowsNext(h) \/ RetryLoop(h)
         \/ Returns(h)
  PROVE  CountInv'
<1>1. Shape
  BY OfHandler
<1>2. CASE BatchValidate(h)
  <2>1. OnlyOf(h) /\ UNCHANGED <<table, sum, spoilt, writes, doing, metrics, todo>>
    BY <1>1, <1>2 DEF BatchValidate, FReturns, OnlyOf, Shape, IsFunction
  <2> QED
    BY <2>1, CountQuiet
<1>3. CASE QueryRow(h) \/ Query(h) \/ RowsNext(h)
  <2>1. OnlyOf(h) /\ UNCHANGED <<table, sum, spoilt, writes, doing, metrics, todo>>
    BY <1>1, <1>3 DEF QueryRow, Query, RowsNext, FReturns, OnlyOf, Shape, IsFunction
  <2> QED
    BY <2>1, CountQuiet
<1>4. CASE RetryLoop(h)
  <2>1. OnlyOf(h) /\ UNCHANGED <<table, sum, spoilt, writes, doing, metrics, todo>>
    BY <1>1, <1>4 DEF RetryLoop, OnlyOf, Shape, IsFunction
  <2> QED
    BY <2>1, CountQuiet
<1>5. CASE Returns(h)
  <2>1. OnlyOf(h) /\ UNCHANGED <<table, sum, spoilt, writes>> /\ doing'[h] = "none"
    BY <1>1, <1>5 DEF Returns, OnlyOf, Shape, IsFunction
  <2> QED
    BY <2>1, CountQuiet
<1> QED
  BY <1>2, <1>3, <1>4, <1>5

(* Statements that take effect.                                            *)
LEMMA CountEffects ==
  ASSUME RaceInv, RaceInv', CountInv, NEW h \in Handler,
         Exec(h) \/ TxCommit(h) \/ FailsAfter(h)
  PROVE  CountInv'
<1>1. CASE Exec(h)
  <2>1. InStep(h)
    BY <1>1, SingleInStep DEF Exec, At
  <2>2. Shape /\ UNCHANGED <<doing, metrics, todo, writes, seen>> /\ doing[h] = "single"
    BY <1>1, OfHandler DEF Exec, At
  <2>3. OnlyOf(h) /\ doing'[h] = "single"
    BY <1>1, <2>2 DEF Exec, FReturns, OnlyOf, Shape, IsFunction
  <2> QED
    BY <2>1, <2>2, <2>3, CountStep
<1>2. CASE TxCommit(h)
  <2>1. /\ doing[h] = "set" /\ todo[h] = << >> /\ BatchEffect(h) /\ TxEnds(h)
        /\ FReturns(h, "nil") /\ UNCHANGED <<doing, metrics, seen>>
    BY <1>2 DEF TxCommit, At
  <2> QED
    BY <2>1, BatchInStep, CountEnds
<1>3. CASE FailsAfter(h)
  <2>1. TxEnds(h) /\ FReturns(h, "final") /\ UNCHANGED <<doing, metrics, seen>>
    BY <1>3 DEF FailsAfter
  <2>2. InStep(h)
    BY <1>3, SingleInStep, BatchInStep DEF FailsAfter, At
  <2> QED
    BY <2>1, <2>2, CountEnds
<1> QED
  BY <1>1, <1>2, <1>3

(* A listing that has ended, a fault before the effect, and a deadlock.    *)
LEMMA CountFails ==
  ASSUME RaceInv, RaceInv', CountInv, NEW h \in Handler,
         \/ RowsEnd(h) \/ DeadlockDetected(h)
         \/ \E outcome \in {"retryable", "final"} : FailsBefore(h, outcome)
  PROVE  CountInv'
<1>1. PICK outcome \in {"nil", "retryable", "final"} :
        /\ TxEnds(h) /\ FReturns(h, outcome)
        /\ UNCHANGED <<table, doing, metrics, seen, sum, spoilt>>
  BY DEF RowsEnd, DeadlockDetected, FailsBefore
<1>2. InStep(h)
  BY <1>1, NoEffect
<1> QED
  BY <1>1, <1>2, CountEnds

(* The invariant holds at first.                                           *)
LEMMA CountInit == Init => CountInv
<1> SUFFICES ASSUME Init PROVE CountInv
  OBVIOUS
<1>1. \A id \in ID : table[id] = Absent /\ sum[id] = 0
  BY EmptyCells DEF Init
<1>2. \A h \in Handler, id \in ID : writes[h][id] = Absent
  BY EmptyCells DEF Init
<1>3. sum \in [ID -> Int] /\ spoilt \subseteq ID /\ \A h \in Handler : doing[h] # "set"
  BY DEF Init
<1> QED
  BY <1>1, <1>2, <1>3 DEF CountInv, LocksOK, CountersAreExact

(* Every step keeps it.                                                    *)
LEMMA CountNext ==
  ASSUME RaceInv, CountInv, [Next]_vars
  PROVE  CountInv'
<1>1. RaceInv'
  BY RaceNext
<1>2. CASE NoMoreCalls \/ UNCHANGED vars
  <2>1. UNCHANGED <<table, sum, spoilt, writes, doing, metrics, todo>>
    BY <1>2 DEF NoMoreCalls, vars
  <2>2. CountInv'
    BY <2>1 DEF CountInv, LocksOK, CountersAreExact
  <2> QED
    BY <2>2
<1>3. ASSUME NEW h \in Handler,
             \/ \E m \in Singles : AddCounterOrSetGauge(h, m)
             \/ \E args \in Batches : BatchUpdate(h, args)
             \/ \E id \in Wanted : GetByID(h, id)
             \/ GetAllSorted(h)
      PROVE  CountInv'
  BY <1>1, <1>3, CountBegins DEF AddCounterOrSetGauge, BatchUpdate, GetByID, GetAllSorted
<1>4. ASSUME NEW h \in Handler, HandlerNext(h)
      PROVE  CountInv'
  BY <1>1, <1>4, CountEffects, CountQueries, CountValidated, CountTxExec, CountFails
     DEF HandlerNext
<1>5. ASSUME NEW h \in Handler,
             (\E outcome \in {"retryable", "final"} : FailsBefore(h, outcome)) \/ FailsAfter(h)
      PROVE  CountInv'
  BY <1>1, <1>5, CountFails, CountEffects
<1> QED
  BY <1>2, <1>3, <1>4, <1>5 DEF Next

-----------------------------------------------------------------------------
(* Reads.                                                                  *)

(* SortedIDs gives the elements of a finite set, each once and in order.   *)
LEMMA SortedIsOrder ==
  ASSUME NEW S \in SUBSET Nat, IsFiniteSet(S)
  PROVE  /\ SortedIDs(S) \in Seq(S)
         /\ \A i, j \in DOMAIN SortedIDs(S) : i < j => SortedIDs(S)[i] < SortedIDs(S)[j]
         /\ \A x \in S : \E i \in DOMAIN SortedIDs(S) : SortedIDs(S)[i] = x
<1> DEFINE n == Cardinality(S)
           Below(x) == {y \in S : y < x}
           rank == [x \in S |-> Cardinality(Below(x)) + 1]
           s == SortedIDs(S)
<1>1. n \in Nat
  BY FS_CardinalityType
<1>2. \A x \in S : Cardinality(Below(x)) \in Nat /\ Cardinality(Below(x)) < n
  <2> TAKE x \in S
  <2>1. Below(x) \in SUBSET S /\ Below(x) # S
    BY x \notin Below(x)
  <2>2. IsFiniteSet(Below(x)) /\ Cardinality(Below(x)) <= n /\ Cardinality(Below(x)) # n
    BY <2>1, FS_Subset
  <2>3. Cardinality(Below(x)) \in Nat
    BY <2>2, FS_CardinalityType
  <2> QED
    BY <1>1, <2>2, <2>3
<1>3. \A x, y \in S : x < y => Cardinality(Below(x)) < Cardinality(Below(y))
  <2> SUFFICES ASSUME NEW x \in S, NEW y \in S, x < y
               PROVE  Cardinality(Below(x)) < Cardinality(Below(y))
    OBVIOUS
  <2>1. Below(x) \in SUBSET Below(y) /\ Below(x) # Below(y)
    <3>1. x \in Below(y) /\ x \notin Below(x)
      OBVIOUS
    <3>2. \A z \in S : z < x => z < y
      OBVIOUS
    <3> QED
      BY <3>1, <3>2
  <2>2. IsFiniteSet(Below(y))
    BY FS_Subset, Below(y) \in SUBSET S
  <2>3. Cardinality(Below(x)) <= Cardinality(Below(y)) /\ Cardinality(Below(x)) # Cardinality(Below(y))
    BY <2>1, <2>2, FS_Subset
  <2> QED
    BY <1>2, <2>3
<1> HIDE DEF Below
<1>4. rank \in [S -> 1 .. n] /\ \A x \in S : rank[x] = Cardinality(Below(x)) + 1
  <2>1. \A x \in S : Cardinality(Below(x)) + 1 \in 1 .. n
    BY <1>1, <1>2
  <2> QED
    BY <2>1
<1> HIDE DEF rank
<1>5. \A x, y \in S : (x < y <=> rank[x] < rank[y]) /\ (rank[x] = rank[y] => x = y)
  BY <1>2, <1>3, <1>4
<1>6. rank \in Injection(S, 1 .. n)
  BY <1>4, <1>5 DEF Injection, IsInjective
<1>7. IsFiniteSet(1 .. n) /\ Cardinality(1 .. n) = n
  BY <1>1, FS_Interval
<1>8. rank \in Surjection(S, 1 .. n)
  BY <1>6, <1>7, FS_Injection
<1>9. \A k \in 1 .. n : \E x \in S : Cardinality(Below(x)) = k - 1
  <2> TAKE k \in 1 .. n
  <2>1. PICK x \in S : rank[x] = k
    BY <1>8 DEF Surjection
  <2> QED
    BY <1>1, <1>2, <1>4, <2>1
<1>10. s = [k \in 1 .. n |-> CHOOSE x \in S : Cardinality(Below(x)) = k - 1]
  BY DEF SortedIDs, Below
<1>11. s \in [1 .. n -> S] /\ \A k \in 1 .. n : rank[s[k]] = k
  <2> HIDE DEF s
  <2>1. ASSUME NEW k \in 1 .. n PROVE s[k] \in S /\ Cardinality(Below(s[k])) = k - 1
    <3>1. s[k] = CHOOSE x \in S : Cardinality(Below(x)) = k - 1
      BY <1>10
    <3>2. \E x \in S : Cardinality(Below(x)) = k - 1
      BY <1>9
    <3>3. PICK m : m = k - 1
      OBVIOUS
    <3>4. s[k] = CHOOSE x \in S : Cardinality(Below(x)) = m
      BY <3>1, <3>3
    <3> QED
      BY ONLY <3>2, <3>3, <3>4, Zenon
  <2>2. s \in [1 .. n -> S]
    BY <1>10, <2>1
  <2>3. ASSUME NEW k \in 1 .. n PROVE rank[s[k]] = k
    <3>1. s[k] \in S /\ Cardinality(Below(s[k])) = k - 1
      BY <2>1
    <3>2. rank[s[k]] = Cardinality(Below(s[k])) + 1
      BY <1>4, <3>1
    <3> QED
      BY <1>1, <3>1, <3>2
  <2> QED
    BY <2>2, <2>3
<1> HIDE DEF s
<1>12. s \in Seq(S) /\ DOMAIN s = 1 .. n
  BY <1>1, <1>11
<1>13. \A x \in S : s[rank[x]] = x
  BY <1>4, <1>5, <1>11
<1>14. \A i, j \in 1 .. n : i < j => s[i] < s[j]
  BY <1>5, <1>11
<1> QED
  BY <1>4, <1>12, <1>13, <1>14 DEF s

(* A listing has a line for every row, with the row in it.                 *)
LEMMA SortedLines ==
  ASSUME NEW t \in Cells
  PROVE  /\ Sorted(t) \in Seq(Line)
         /\ \A i \in DOMAIN Sorted(t) : Sorted(t)[i].row = t[Sorted(t)[i].ID]
<1> DEFINE S == {id \in ID : t[id] # Absent}
           ids == SortedIDs(S)
<1>1. S \in SUBSET Nat /\ IsFiniteSet(S)
  <2>1. S \in SUBSET ID /\ S \in SUBSET Nat
    BY PostgresAssumption
  <2> QED
    BY <2>1, PostgresAssumption, FS_Subset
<1>2. ids \in Seq(S)
  BY <1>1, SortedIsOrder
<1>3. \A id \in S : t[id] \in Row /\ id \in ID
  BY DEF Cells, Cell
<1> HIDE DEF S, ids
<1>4. Sorted(t) = [i \in DOMAIN ids |-> [ID |-> ids[i], row |-> t[ids[i]]]]
  BY DEF Sorted, ids, S
<1>5. Len(ids) \in Nat /\ DOMAIN ids = 1 .. Len(ids) /\ \A i \in DOMAIN ids : ids[i] \in S
  BY <1>2, LenProperties, ElementOfSeq
<1>6. \A i \in DOMAIN ids : [ID |-> ids[i], row |-> t[ids[i]]] \in Line
  BY <1>3, <1>5 DEF Line
<1>7. Sorted(t) \in [1 .. Len(ids) -> Line]
  BY <1>4, <1>5, <1>6
<1>8. Sorted(t) \in Seq(Line)
  BY <1>5, <1>7
<1> QED
  BY <1>4, <1>5, <1>8

(* The other handlers go on: more states may have been committed.          *)
LEMMA ReadBeside ==
  ASSUME NEW q, NEW ms, NEW r, NEW rs, NEW rd, NEW st, NEW tab,
         ReadOK(q, ms, r, rs, rd, st, tab),
         NEW sn, st \subseteq sn, NEW new, q \in Reads => new \in sn
  PROVE  ReadOK(q, ms, r, rs, rd, sn, new)
BY DEF ReadOK

(* No query is open.                                                       *)
LEMMA NothingOpen ==
  /\ NotQueried \in [open : BOOLEAN, left : Seq(Line)]
  /\ ~ NotQueried.open /\ NotQueried.left = << >>
<1>1. << >> \in Seq(Line)
  OBVIOUS
<1> QED
  BY <1>1 DEF NotQueried

(* A handler that has no rows to give, and no open query.                  *)
LEMMA ReadIdle ==
  ASSUME NEW q, NEW ms, NEW r, NEW rs, NEW rd, NEW st, NEW tab,
         ReadOK(q, ms, r, rs, rd, st, tab),
         NEW p, NEW ns, NEW e, ~ Done(p, e), NEW rn, rn = rs \/ rn = NotQueried, ~ rn.open,
         NEW sn, NEW new, p \in Reads => new \in sn
  PROVE  ReadOK(p, ns, e, rn, rd, sn, new)
<1>1. rn \in [open : BOOLEAN, left : Seq(Line)] /\ rn.left = << >>
  BY NothingOpen DEF ReadOK
<1> QED
  BY <1>1 DEF ReadOK

(* The call returns.                                                       *)
LEMMA ReadEnds ==
  ASSUME NEW q, NEW ms, NEW r, NEW rs, NEW rd, NEW st, NEW tab,
         ReadOK(q, ms, r, rs, rd, st, tab), r.pc # "call", NEW ns, NEW sn, NEW new
  PROVE  ReadOK("none", ns, r, rs, << >>, sn, new)
<1>1. ~ Done("none", r) /\ ~ rs.open /\ << >> \in Seq(Line)
  BY DEF ReadOK, Done, Reads
<1> QED
  BY <1>1 DEF ReadOK, Reads

(* The next row arrives.                                                   *)
LEMMA ReadNext ==
  ASSUME NEW q, NEW ms, NEW r, NEW rs, NEW rd, NEW st, NEW tab,
         ReadOK(q, ms, r, rs, rd, st, tab), rs.left # << >>
  PROVE  ReadOK(q, ms, r, [rs EXCEPT !.left = Tail(@)], Append(rd, Head(rs.left)), st, tab)
<1> DEFINE ns == [rs EXCEPT !.left = Tail(@)]
           nd == Append(rd, Head(rs.left))
<1>1. /\ rs \in [open : BOOLEAN, left : Seq(Line)] /\ rd \in Seq(Line) /\ rs.left \in Seq(Line)
      /\ rs.open /\ q = "list" /\ r.pc = "call"
  BY DEF ReadOK
<1>2. PICK t \in st : rd \o rs.left = Sorted(t)
  BY <1>1 DEF ReadOK
<1>3. Head(rs.left) \in Line /\ Tail(rs.left) \in Seq(Line)
  BY <1>1, HeadTailProperties
<1>4. ns \in [open : BOOLEAN, left : Seq(Line)] /\ ns.open /\ ns.left = Tail(rs.left)
  BY <1>1, <1>3
<1>5. nd \in Seq(Line) /\ nd \o Tail(rs.left) = rd \o rs.left
  <2>1. nd = rd \o <<Head(rs.left)>> /\ <<Head(rs.left)>> \in Seq(Line)
    BY <1>1, <1>3, AppendIsConcat
  <2>2. rs.left = <<Head(rs.left)>> \o Tail(rs.left)
    BY <1>1, HeadTailProperties, <1>3, ConcatProperties, LenProperties, EmptySeq
  <2>3. nd \o Tail(rs.left) = rd \o (<<Head(rs.left)>> \o Tail(rs.left))
    BY <1>1, <1>3, <2>1, ConcatAssociative
  <2>4. nd \in Seq(Line)
    BY <1>1, <1>3, AppendProperties
  <2> QED
    BY <2>2, <2>3, <2>4
<1> HIDE DEF ns, nd
<1>6. ~ Done(q, r)
  BY <1>1 DEF Done
<1>7. ReadOK(q, ms, r, ns, nd, st, tab)
  BY <1>1, <1>2, <1>4, <1>5, <1>6 DEF ReadOK
<1> QED
  BY <1>7 DEF ns, nd

(* The last row has arrived.                                               *)
LEMMA ReadAll ==
  ASSUME NEW q, NEW ms, NEW r, NEW rs, NEW rd, NEW st, NEW tab,
         ReadOK(q, ms, r, rs, rd, st, tab), rs.open, rs.left = << >>, NEW e
  PROVE  ReadOK(q, ms, e, NotQueried, rd, st, tab)
<1>1. q = "list" /\ rd \in Seq(Line) /\ \E t \in st : rd \o << >> = Sorted(t)
  BY DEF ReadOK
<1>2. \E t \in st : rd = Given(q, ms, t)
  BY <1>1, ConcatEmptySeq DEF Given
<1> QED
  BY <1>1, <1>2, NothingOpen DEF ReadOK

-----------------------------------------------------------------------------
(* The steps of reads.                                                     *)

(* A reader goes on to see every state that is committed.                  *)
Watches(g) ==
  since[g] \subseteq since'[g] /\ (doing[g] \in Reads => table' \in since'[g])

(* Of reads, only what belongs to h changes.                               *)
ReadsOf(h) ==
  /\ IsFunction(rows') /\ IsFunction(read') /\ IsFunction(since')
  /\ \A g \in Handler \ {h} :
       /\ doing'[g] = doing[g] /\ metrics'[g] = metrics[g] /\ run'[g] = run[g]
       /\ rows'[g] = rows[g] /\ read'[g] = read[g] /\ Watches(g)

(* What the invariant says of one handler.                                 *)
LEMMA OfReader ==
  ASSUME ReadInv, NEW h \in Handler
  PROVE  /\ IsFunction(rows) /\ IsFunction(read) /\ IsFunction(since)
         /\ ReadOK(doing[h], metrics[h], run[h], rows[h], read[h], since[h], table)
BY DEF ReadInv

(* A step that commits nothing, and one that does.                         *)
LEMMA AllWatch ==
  ASSUME ReadInv, UNCHANGED <<table, since>> \/ Observe
  PROVE  IsFunction(since') /\ \A g \in Handler : Watches(g)
<1>1. CASE UNCHANGED <<table, since>>
  BY <1>1 DEF ReadInv, ReadOK, Watches, IsFunction
<1>2. CASE Observe
  BY <1>2 DEF Observe, Watches, IsFunction, Reads
<1> QED
  BY <1>1, <1>2

(* A step of one handler.                                                  *)
LEMMA ReadStep ==
  ASSUME ReadInv, NEW h \in Handler, ReadsOf(h),
         ReadOK(doing'[h], metrics'[h], run'[h], rows'[h], read'[h], since'[h], table')
  PROVE  ReadInv'
<1>1. ASSUME NEW g \in Handler
      PROVE  ReadOK(doing'[g], metrics'[g], run'[g], rows'[g], read'[g], since'[g], table')
  <2>1. CASE g = h
    BY <2>1
  <2>2. CASE g # h
    <3>1. /\ doing'[g] = doing[g] /\ metrics'[g] = metrics[g] /\ run'[g] = run[g]
          /\ rows'[g] = rows[g] /\ read'[g] = read[g] /\ Watches(g)
      BY <2>2 DEF ReadsOf
    <3>2. ReadOK(doing[g], metrics[g], run[g], rows[g], read[g], since[g], table)
      BY OfReader
    <3>3. ReadOK(doing[g], metrics[g], run[g], rows[g], read[g], since'[g], table')
      BY <3>1, <3>2, ReadBeside DEF Watches
    <3> QED
      BY <3>1, <3>3
  <2> QED
    BY <2>1, <2>2
<1> QED
  BY <1>1 DEF ReadInv, ReadsOf

(* A step that leaves h with nothing to give and no open query.            *)
LEMMA ReadQuiet ==
  ASSUME ReadInv, NEW h \in Handler, OnlyOf(h), UNCHANGED <<table, since>> \/ Observe,
         ~ Done(doing'[h], run'[h]), doing'[h] \in {doing[h]} \/ doing'[h] \notin Reads,
         UNCHANGED read,
         \/ rows' = rows /\ ~ (doing[h] = "list" /\ run[h].pc = "call")
         \/ rows' = [rows EXCEPT ![h] = NotQueried]
  PROVE  ReadInv'
<1>1. /\ IsFunction(rows) /\ IsFunction(read)
      /\ ReadOK(doing[h], metrics[h], run[h], rows[h], read[h], since[h], table)
  BY OfReader
<1>2. IsFunction(since') /\ \A g \in Handler : Watches(g)
  BY AllWatch
<1>3. ReadsOf(h) /\ (rows' # rows => rows'[h] = NotQueried)
  BY <1>1, <1>2 DEF ReadsOf, OnlyOf, IsFunction
<1>4. rows'[h] = rows[h] \/ rows'[h] = NotQueried
  BY <1>3
<1>5. ~ rows'[h].open
  <2>1. CASE rows' = rows /\ ~ (doing[h] = "list" /\ run[h].pc = "call")
    BY <1>1, <2>1 DEF ReadOK
  <2>2. CASE rows' = [rows EXCEPT ![h] = NotQueried]
    BY <1>1, <2>2, NothingOpen DEF IsFunction
  <2> QED
    BY <2>1, <2>2
<1>6. doing'[h] \in Reads => table' \in since'[h]
  BY <1>2 DEF Watches
<1>7. ReadOK(doing'[h], metrics'[h], run'[h], rows'[h], read[h], since'[h], table')
  BY <1>1, <1>4, <1>5, <1>6, ReadIdle
<1> QED
  BY <1>3, <1>7, ReadStep

(* A query of h that has ended.                                            *)
LEMMA ReadFails ==
  ASSUME RaceInv, ReadInv, NEW h \in Handler, TxEnds(h),
         NEW outcome \in Outcome, FReturns(h, outcome),
         doing[h] = "set" \/ outcome # "nil", UNCHANGED <<doing, metrics, seen, read>>,
         UNCHANGED <<table, since>> \/ Observe
  PROVE  ReadInv'
<1>1. Shape /\ run[h] \in Execution
  BY OfHandler DEF CallOK
<1>2. OnlyOf(h) /\ run'[h] = Call(policy, run[h], outcome) /\ doing'[h] = doing[h]
  BY <1>1 DEF TxEnds, FReturns, OnlyOf, Shape, IsFunction
<1>3. run'[h].err = outcome
  BY <1>1, <1>2, CallResult
<1>4. ~ Done(doing'[h], run'[h])
  BY <1>2, <1>3 DEF Done, Reads
<1>5. rows' = [rows EXCEPT ![h] = NotQueried]
  BY DEF TxEnds
<1> QED
  BY <1>2, <1>4, <1>5, ReadQuiet

(* Calls begin.                                                            *)
LEMMA ReadCalls ==
  ASSUME RaceInv, ReadInv, NEW h \in Handler,
         NEW q \in {"single", "validate", "get", "list"}, NEW args, Begins(h, q, args)
  PROVE  ReadInv'
<1>1. Shape /\ IsFunction(rows) /\ IsFunction(read) /\ IsFunction(since)
      /\ ReadOK(doing[h], metrics[h], run[h], rows[h], read[h], since[h], table)
  BY OfHandler, OfReader
<1>2. /\ doing[h] = "none" /\ doing'[h] = q /\ metrics'[h] = args /\ run'[h] = Run /\ OnlyOf(h)
      /\ UNCHANGED <<table, rows, read>>
  BY <1>1 DEF Begins, OnlyOf, Shape, IsFunction
<1>3. ~ Done(q, Run)
  BY RunIs DEF Done
<1>4. CASE q \in Reads
  <2>1. since' = [since EXCEPT ![h] = {table}]
    BY <1>4 DEF Begins, Reads
  <2>2. since'[h] = {table} /\ IsFunction(since') /\ \A g \in Handler \ {h} : since'[g] = since[g]
    BY <1>1, <2>1 DEF IsFunction
  <2>3. \A g \in Handler \ {h} : Watches(g)
    BY <1>2, <2>2 DEF ReadInv, ReadOK, Watches
  <2>4. ReadsOf(h)
    BY <1>1, <1>2, <2>2, <2>3 DEF ReadsOf, OnlyOf
  <2>5. ~ rows[h].open
    BY <1>1, <1>2 DEF ReadOK
  <2>6. ReadOK(q, args, Run, rows[h], read[h], {table}, table)
    BY <1>1, <1>3, <2>5, ReadIdle
  <2> QED
    BY <1>2, <2>2, <2>4, <2>6, ReadStep
<1>5. CASE q \notin Reads
  <2>1. since' = since
    BY <1>5 DEF Begins, Reads
  <2> QED
    BY <1>2, <1>3, <1>5, <2>1, ReadQuiet
<1> QED
  BY <1>4, <1>5

(* Singles and batches.                                                    *)
LEMMA ReadWrites ==
  ASSUME RaceInv, ReadInv, NEW h \in Handler,
         Exec(h) \/ BatchValidate(h) \/ Validated(h) \/ TxExec(h)
  PROVE  ReadInv'
<1>1. Shape
  BY OfHandler
<1>2. OnlyOf(h)
  <2>1. CASE Exec(h)
    BY <1>1, <2>1 DEF Exec, FReturns, OnlyOf, Shape, IsFunction
  <2>2. CASE BatchValidate(h)
    BY <1>1, <2>2 DEF BatchValidate, FReturns, OnlyOf, Shape, IsFunction
  <2>3. CASE Validated(h)
    BY <1>1, <2>3 DEF Validated, OnlyOf, Shape, IsFunction
  <2>4. CASE TxExec(h)
    BY <1>1, <2>4 DEF TxExec, OnlyOf, Shape, IsFunction
  <2> QED
    BY <2>1, <2>2, <2>3, <2>4
<1>3. /\ doing[h] \notin Reads /\ UNCHANGED <<rows, read>>
      /\ UNCHANGED <<table, since>> \/ Observe
  BY DEF Exec, SingleEffect, BatchValidate, Validated, TxExec, At, reading, Reads
<1>4. doing'[h] \notin Reads
  <2>1. CASE Validated(h)
    BY <1>1, <2>1 DEF Validated, Shape, IsFunction, Reads
  <2>2. CASE ~ Validated(h)
    BY <1>3, <2>2 DEF Exec, BatchValidate, TxExec
  <2> QED
    BY <2>1, <2>2
<1>5. ~ Done(doing'[h], run'[h]) /\ ~ (doing[h] = "list" /\ run[h].pc = "call")
  BY <1>3, <1>4 DEF Done, Reads
<1> QED
  BY <1>2, <1>3, <1>4, <1>5, ReadQuiet

(* Commits, faults and deadlocks.                                          *)
LEMMA ReadFaults ==
  ASSUME RaceInv, ReadInv, NEW h \in Handler,
         \/ TxCommit(h) \/ FailsAfter(h) \/ DeadlockDetected(h)
         \/ \E outcome \in {"retryable", "final"} : FailsBefore(h, outcome)
  PROVE  ReadInv'
<1>1. PICK outcome \in Outcome :
        /\ TxEnds(h) /\ FReturns(h, outcome) /\ (doing[h] = "set" \/ outcome # "nil")
        /\ UNCHANGED <<doing, metrics, seen, read>>
        /\ UNCHANGED <<table, since>> \/ Observe
  BY DEF TxCommit, BatchEffect, FailsAfter, SingleEffect, DeadlockDetected, FailsBefore, At,
     Outcome
<1> QED
  BY <1>1, ReadFails

(* The loop of the retry executor.                                         *)
LEMMA ReadLoops ==
  ASSUME RaceInv, ReadInv, NEW h \in Handler, RetryLoop(h)
  PROVE  ReadInv'
<1>1. /\ Shape /\ run[h] \in Execution /\ run[h].pc = "loop" /\ run[h].err # "nil"
  BY OfHandler DEF CallOK, RetryLoop
<1>2. /\ OnlyOf(h) /\ run'[h] = Loop(policy, run[h]) /\ doing'[h] = doing[h]
      /\ UNCHANGED <<rows, read, since, table>>
  BY <1>1 DEF RetryLoop, OnlyOf, Shape, IsFunction, reading
<1>3. run'[h].err # "nil"
  BY <1>1, <1>2, LoopResult
<1> QED
  BY <1>1, <1>2, <1>3, ReadQuiet DEF Done

(* The call returns to the handler.                                        *)
LEMMA ReadReturns ==
  ASSUME RaceInv, ReadInv, NEW h \in Handler, Returns(h)
  PROVE  ReadInv'
<1>1. Shape /\ IsFunction(rows) /\ IsFunction(read) /\ IsFunction(since)
      /\ ReadOK(doing[h], metrics[h], run[h], rows[h], read[h], since[h], table)
  BY OfHandler, OfReader
<1>2. /\ run[h].pc = "returned" /\ doing'[h] = "none" /\ metrics'[h] = << >>
      /\ run'[h] = run[h] /\ rows'[h] = rows[h] /\ read'[h] = << >> /\ table' = table
      /\ since' = [since EXCEPT ![h] = {}]
  BY <1>1 DEF Returns, Shape, IsFunction
<1>3. IsFunction(since') /\ \A g \in Handler \ {h} : since'[g] = since[g]
  BY <1>1, <1>2 DEF IsFunction
<1>4. \A g \in Handler \ {h} : Watches(g)
  BY <1>2, <1>3 DEF ReadInv, ReadOK, Watches
<1>5. ReadsOf(h)
  BY <1>1, <1>3, <1>4 DEF Returns, ReadsOf, Shape, IsFunction
<1>6. ReadOK("none", << >>, run[h], rows[h], << >>, since'[h], table')
  BY <1>1, <1>2, ReadEnds
<1> QED
  BY <1>2, <1>5, <1>6, ReadStep

(* A read of one row.                                                      *)
LEMMA ReadOfRow ==
  ASSUME RaceInv, ReadInv, NEW h \in Handler, QueryRow(h)
  PROVE  ReadInv'
<1> DEFINE id == metrics[h][1].ID
           line == [ID |-> id, row |-> table[id]]
<1>1. Shape /\ table \in Cells /\ IsFunction(rows) /\ IsFunction(read) /\ IsFunction(since)
      /\ ReadOK(doing[h], metrics[h], run[h], rows[h], read[h], since[h], table)
  BY OfHandler, OfReader
<1>2. /\ doing[h] = "get" /\ run[h].pc = "call" /\ run[h] \in Execution
      /\ metrics[h] \in Seq(Received) /\ metrics[h] # << >>
  BY OfHandler DEF CallOK, QueryRow, At
<1>3. id \in ID
  <2>1. metrics[h][1] \in Received
    BY <1>2, HeadTailProperties
  <2> QED
    BY <2>1, Columns
<1>4. UNCHANGED <<table, rows, doing, metrics, since>>
  BY DEF QueryRow
<1>5. PICK outcome \in {"nil", "final"} :
        /\ FReturns(h, outcome)
        /\ outcome = "nil" => table[id] # Absent /\ read' = [read EXCEPT ![h] = <<line>>]
        /\ outcome # "nil" => read' = read
  BY DEF QueryRow
<1>6. run'[h] = Call(policy, run[h], outcome) /\ run'[h].err = outcome
  BY <1>1, <1>2, <1>5, CallResult DEF FReturns, Shape, IsFunction, Outcome
<1>7. \A g \in Handler : Watches(g)
  BY <1>4, AllWatch
<1>8. ReadsOf(h)
  BY <1>1, <1>4, <1>5, <1>7 DEF FReturns, ReadsOf, Shape, IsFunction
<1>9. read'[h] \in Seq(Line) /\ (outcome = "nil" => read'[h] = <<line>>)
  <2>1. CASE outcome = "nil"
    <3>1. table[id] \in Row
      BY <1>1, <1>3, <1>5, <2>1 DEF Cells, Cell
    <3>2. line \in Line
      BY <1>3, <3>1 DEF Line
    <3>3. read'[h] = <<line>>
      BY <1>1, <1>5, <2>1 DEF IsFunction
    <3> HIDE DEF line
    <3> QED
      BY <3>2, <3>3
  <2>2. CASE outcome # "nil"
    BY <1>1, <1>5, <2>2 DEF ReadOK
  <2> QED
    BY <2>1, <2>2
<1>10. Given("get", metrics[h], table) = <<line>> /\ table \in since[h]
  BY <1>1, <1>2 DEF Given, ReadOK, Reads
<1>11. /\ rows[h] \in [open : BOOLEAN, left : Seq(Line)] /\ ~ rows[h].open
       /\ rows[h].left = << >>
  BY <1>1, <1>2 DEF ReadOK
<1> HIDE DEF line
<1>12. Done("get", run'[h]) => \E t \in since[h] : read'[h] = Given("get", metrics[h], t)
  BY <1>6, <1>9, <1>10 DEF Done
<1>13. ReadOK("get", metrics[h], run'[h], rows[h], read'[h], since[h], table)
  BY <1>9, <1>10, <1>11, <1>12 DEF ReadOK
<1> QED
  BY <1>2, <1>4, <1>8, <1>13, ReadStep

(* A listing is queried.                                                   *)
LEMMA ReadOfList ==
  ASSUME RaceInv, ReadInv, NEW h \in Handler, Query(h)
  PROVE  ReadInv'
<1>1. table \in Cells /\ IsFunction(rows) /\ IsFunction(read) /\ IsFunction(since)
      /\ ReadOK(doing[h], metrics[h], run[h], rows[h], read[h], since[h], table)
  BY OfHandler, OfReader
<1> DEFINE ns == [open |-> TRUE, left |-> Sorted(table)]
<1>2. /\ doing[h] = "list" /\ run[h].pc = "call"
      /\ UNCHANGED <<table, doing, metrics, run, since>>
      /\ rows' = [rows EXCEPT ![h] = ns] /\ read' = [read EXCEPT ![h] = << >>]
  BY DEF Query, At
<1>3. ns \in [open : BOOLEAN, left : Seq(Line)] /\ ns.open /\ ns.left = Sorted(table)
  BY <1>1, SortedLines
<1> HIDE DEF ns
<1>4. \A g \in Handler : Watches(g)
  BY <1>2, AllWatch
<1>5. rows'[h] = ns /\ read'[h] = << >> /\ ReadsOf(h)
  BY <1>1, <1>2, <1>4 DEF ReadsOf, IsFunction
<1>6. << >> \in Seq(Line) /\ << >> \o ns.left = Sorted(table) /\ ~ Done("list", run[h])
  <2>1. << >> \in Seq(Line)
    OBVIOUS
  <2>2. << >> \o ns.left = Sorted(table)
    BY <1>1, <1>3, SortedLines, ConcatEmptySeq
  <2> QED
    BY <1>2, <2>1, <2>2 DEF Done
<1>7. table \in since[h]
  BY <1>1, <1>2 DEF ReadOK, Reads
<1>8. ReadOK("list", metrics[h], run[h], ns, << >>, since[h], table)
  BY <1>2, <1>3, <1>6, <1>7 DEF ReadOK
<1> QED
  BY <1>2, <1>5, <1>8, ReadStep

(* Its rows arrive, and its end.                                           *)
LEMMA ReadOfRows ==
  ASSUME RaceInv, ReadInv, NEW h \in Handler, RowsNext(h) \/ RowsEnd(h)
  PROVE  ReadInv'
<1>1. Shape /\ IsFunction(rows) /\ IsFunction(read) /\ IsFunction(since)
      /\ ReadOK(doing[h], metrics[h], run[h], rows[h], read[h], since[h], table)
  BY OfHandler, OfReader
<1>2. UNCHANGED <<table, doing, metrics, since>>
  BY DEF RowsNext, RowsEnd
<1>3. \A g \in Handler : Watches(g)
  BY <1>2, AllWatch
<1>4. CASE RowsNext(h)
  <2>1. /\ rows[h].left # << >> /\ run' = run
        /\ rows' = [rows EXCEPT ![h].left = Tail(@)]
        /\ read' = [read EXCEPT ![h] = Append(@, Head(rows[h].left))]
    BY <1>4 DEF RowsNext
  <2>2. /\ rows'[h] = [rows[h] EXCEPT !.left = Tail(@)]
        /\ read'[h] = Append(read[h], Head(rows[h].left)) /\ ReadsOf(h)
    BY <1>1, <1>2, <1>3, <2>1 DEF ReadsOf, IsFunction
  <2>3. ReadOK(doing[h], metrics[h], run[h], [rows[h] EXCEPT !.left = Tail(@)],
               Append(read[h], Head(rows[h].left)), since[h], table)
    BY <1>1, <2>1, ReadNext
  <2> QED
    BY <1>2, <2>1, <2>2, <2>3, ReadStep
<1>5. CASE RowsEnd(h)
  <2>1. /\ rows[h].open /\ rows[h].left = << >> /\ FReturns(h, "nil")
        /\ rows' = [rows EXCEPT ![h] = NotQueried] /\ read' = read
    BY <1>5 DEF RowsEnd, TxEnds
  <2>2. rows'[h] = NotQueried /\ ReadsOf(h)
    BY <1>1, <1>2, <1>3, <2>1 DEF FReturns, ReadsOf, Shape, IsFunction
  <2>3. ReadOK(doing[h], metrics[h], run'[h], NotQueried, read[h], since[h], table)
    BY <1>1, <2>1, ReadAll
  <2> QED
    BY <1>2, <2>1, <2>2, <2>3, ReadStep
<1> QED
  BY <1>4, <1>5

(* The invariant of reads holds at first.                                  *)
LEMMA ReadInit == Init => ReadInv
<1> SUFFICES ASSUME Init PROVE ReadInv
  OBVIOUS
<1>1. IsFunction(rows) /\ IsFunction(read) /\ IsFunction(since)
  BY DEF Init, IsFunction
<1>2. ASSUME NEW h \in Handler
      PROVE  ReadOK(doing[h], metrics[h], run[h], rows[h], read[h], since[h], table)
  <2>1. doing[h] = "none" /\ rows[h] = NotQueried /\ read[h] = << >>
    BY DEF Init
  <2>2. << >> \in Seq(Line) /\ "none" \notin Reads /\ ~ Done("none", run[h])
    BY DEF Done, Reads
  <2> QED
    BY <2>1, <2>2, NothingOpen DEF ReadOK
<1> QED
  BY <1>1, <1>2 DEF ReadInv

(* Every step keeps it.                                                    *)
LEMMA ReadKept ==
  ASSUME RaceInv, ReadInv, [Next]_vars
  PROVE  ReadInv'
<1>1. CASE NoMoreCalls \/ UNCHANGED vars
  <2>1. UNCHANGED <<doing, metrics, run, rows, read, since, table>>
    BY <1>1 DEF NoMoreCalls, vars, reading
  <2> QED
    BY <2>1 DEF ReadInv, IsFunction
<1>2. ASSUME NEW h \in Handler,
             \/ \E m \in Singles : AddCounterOrSetGauge(h, m)
             \/ \E args \in Batches : BatchUpdate(h, args)
             \/ \E id \in Wanted : GetByID(h, id)
             \/ GetAllSorted(h)
      PROVE  ReadInv'
  BY <1>2, ReadCalls DEF AddCounterOrSetGauge, BatchUpdate, GetByID, GetAllSorted
<1>3. ASSUME NEW h \in Handler, HandlerNext(h)
      PROVE  ReadInv'
  BY <1>3, ReadWrites, ReadFaults, ReadLoops, ReadReturns, ReadOfRow, ReadOfList, ReadOfRows
     DEF HandlerNext
<1>4. ASSUME NEW h \in Handler,
             (\E outcome \in {"retryable", "final"} : FailsBefore(h, outcome)) \/ FailsAfter(h)
      PROVE  ReadInv'
  BY <1>4, ReadFaults
<1> QED
  BY <1>1, <1>2, <1>3, <1>4 DEF Next

-----------------------------------------------------------------------------
(* The other variables.                                                    *)

(* The committed types are types.                                          *)
LEMMA TypesAreTypes ==
  ASSUME table \in Cells
  PROVE  Types \in [ID -> {Absent, Counter, Gauge, Other}]
<1>1. \A id \in ID : table[id] = Absent \/ table[id] \in Row
  BY DEF Cells, Cell
<1> QED
  BY <1>1, DeltaOf DEF Types

(* access, seen, calls and faults at first.                                *)
LEMMA RestInit == Init => RestOK
BY DEF Init, RestOK, IsFunction, Empty

(* A step changes access and seen of one handler and counts.               *)
LEMMA RestStep ==
  ASSUME RaceInv, RaceInv', RestOK, NEW h \in Handler,
         access' = access \/ \E b \in BOOLEAN : access' = [access EXCEPT ![h] = b],
         seen' = seen \/ seen' = [seen EXCEPT ![h] = Types],
         calls' = calls \/ calls' = calls + 1, faults' = faults \/ faults' = faults + 1
  PROVE  RestOK'
<1>1. IsFunction(access') /\ \A g \in Handler : access'[g] \in BOOLEAN
  BY DEF RestOK, IsFunction
<1>2. \A g \in Handler : seen'[g] \in [ID -> {Absent, Counter, Gauge, Other}]
  <2>1. Types \in [ID -> {Absent, Counter, Gauge, Other}] /\ IsFunction(seen)
    BY TypesAreTypes DEF RaceInv, Shape
  <2>2. ASSUME NEW g \in Handler
        PROVE  seen'[g] = seen[g] \/ seen'[g] = Types
    BY <2>1 DEF IsFunction
  <2> QED
    BY <2>1, <2>2 DEF RestOK
<1>3. calls' \in Nat /\ faults' \in Nat
  BY DEF RestOK
<1> QED
  BY <1>1, <1>2, <1>3 DEF RestOK

(* Every step keeps them.                                                  *)
LEMMA RestNext ==
  ASSUME RaceInv, RestOK, [Next]_vars
  PROVE  RestOK'
<1>1. RaceInv'
  BY RaceNext
<1>2. CASE NoMoreCalls \/ UNCHANGED vars
  BY <1>2 DEF NoMoreCalls, vars, RestOK, IsFunction
<1>3. ASSUME NEW h \in Handler, NEW q, NEW args, Begins(h, q, args)
      PROVE  RestOK'
  <2>1. access' = [access EXCEPT ![h] = FALSE] /\ calls' = calls + 1 /\ UNCHANGED <<seen, faults>>
    BY <1>3 DEF Begins
  <2> QED
    BY <1>1, <2>1, RestStep
<1>4. ASSUME NEW h \in Handler, HandlerNext(h)
      PROVE  RestOK'
  <2>1. CASE Exec(h) \/ BatchValidate(h)
    <3>1. UNCHANGED <<calls, faults>> /\ (seen' = seen \/ seen' = [seen EXCEPT ![h] = Types])
      BY <2>1 DEF Exec, BatchValidate
    <3>2. \E b \in BOOLEAN : access' = [access EXCEPT ![h] = b]
      BY <2>1 DEF Exec, SingleEffect, BatchValidate
    <3> QED
      BY <1>1, <3>1, <3>2, RestStep
  <2>2. CASE ~ (Exec(h) \/ BatchValidate(h))
    <3>1. UNCHANGED <<access, seen, calls, faults>>
      BY <1>4, <2>2 DEF HandlerNext, Validated, TxExec, TxCommit, BatchEffect, QueryRow,
         Query, RowsNext, RowsEnd, DeadlockDetected, RetryLoop, Returns
    <3> QED
      BY <1>1, <3>1, RestStep
  <2> QED
    BY <2>1, <2>2
<1>5. ASSUME NEW h \in Handler,
             (\E outcome \in {"retryable", "final"} : FailsBefore(h, outcome)) \/ FailsAfter(h)
      PROVE  RestOK'
  <2>1. UNCHANGED <<seen, calls>> /\ faults' = faults + 1
    BY <1>5 DEF FailsBefore, FailsAfter
  <2>2. access' = access \/ \E b \in BOOLEAN : access' = [access EXCEPT ![h] = b]
    BY <1>5 DEF FailsBefore, FailsAfter, SingleEffect, BatchEffect
  <2> QED
    BY <1>1, <2>1, <2>2, RestStep
<1> QED
  BY <1>2, <1>3, <1>4, <1>5
     DEF Next, AddCounterOrSetGauge, BatchUpdate, GetByID, GetAllSorted

(* What a finished read gives.                                             *)
LEMMA ReadGives ==
  ASSUME ReadInv
  PROVE  ReadsAreOneState
<1> SUFFICES ASSUME NEW h \in Handler, Delivers(h)
             PROVE  \E t \in since[h] : read[h] = Given(doing[h], metrics[h], t)
  BY DEF ReadsAreOneState, Given
<1>1. /\ ReadOK(doing[h], metrics[h], run[h], rows[h], read[h], since[h], table)
      /\ Done(doing[h], run[h])
  BY DEF ReadInv, Delivers, Done, Reads
<1> QED
  BY <1>1 DEF ReadOK

-----------------------------------------------------------------------------
(* The theorems.                                                           *)

(* The rows and calls of the database keep their types, a batch is written *)
(* only after a validation that found no other type, and a transaction has *)
(* written only rows of its batch.                                         *)
THEOREM RaceInvariant == Spec => []RaceInv
<1> QED
  BY RaceInit, RaceNext, PTL DEF Spec

(* A committed type is replaced only by the commit of a batch that was     *)
(* validated before the metric had that type, over every retry, lost       *)
(* connection and deadlock (dbstorage.go, BatchUpdate).                    *)
THEOREM TypesChangeOnlyInRace == Spec => TypeChangesOnlyInRace
<1> DEFINE Step == \A id \in ID :
                     Types[id] \notin {Absent, Types'[id]}
                       => \E h \in Handler :
                            /\ doing[h] = "set" /\ writes[h][id] # Absent
                            /\ doing'[h] = "set" /\ writes'[h][id] = Absent
                            /\ seen[h][id] # Types[id]
<1>1. ASSUME RaceInv, [Next]_vars
      PROVE  [Step]_vars
  <2> SUFFICES ASSUME NEW id \in ID, Types[id] # Absent, Types'[id] # Types[id]
               PROVE  \E h \in Handler :
                        /\ doing[h] = "set" /\ writes[h][id] # Absent
                        /\ doing'[h] = "set" /\ writes'[h][id] = Absent
                        /\ seen[h][id] # Types[id]
    OBVIOUS
  <2>1. /\ Types[id] = IF table[id] = Absent THEN Absent ELSE table[id].mtype
        /\ Types'[id] = IF table'[id] = Absent THEN Absent ELSE table'[id].mtype
    BY DEF Types
  <2>2. table[id] # Absent /\ Types[id] = table[id].mtype /\ table' # table
    BY <2>1
  <2>3. PICK h \in Handler :
          \/ doing[h] = "single" /\ SingleEffect(h)
          \/ doing[h] = "set" /\ BatchEffect(h) /\ TxEnds(h) /\ UNCHANGED doing
    BY <1>1, <2>2 DEF Next, vars, NoMoreCalls, AddCounterOrSetGauge, BatchUpdate, GetByID,
       GetAllSorted, Begins, HandlerNext, Exec, BatchValidate, Validated, TxExec, TxCommit,
       QueryRow, Query, RowsNext, RowsEnd, DeadlockDetected, RetryLoop, Returns,
       FailsBefore, FailsAfter, At
  <2>4. ~ (doing[h] = "single" /\ SingleEffect(h))
    BY <1>1, <2>1, <2>2, SingleEffectKeeps
  <2>5. doing[h] = "set" /\ BatchEffect(h) /\ TxEnds(h) /\ UNCHANGED doing
    BY <2>3, <2>4
  <2>6. table'[id] = IF writes[h][id] = Absent THEN table[id] ELSE writes[h][id]
    BY <1>1, <2>5, BatchEffectKeeps
  <2>7. writes[h][id] # Absent /\ Types'[id] = writes[h][id].mtype
    BY <2>1, <2>2, <2>6
  <2>8. CallOK(doing[h], metrics[h], run[h], todo[h], writes[h], seen[h])
    BY <1>1, OfHandler
  <2>9. PICK i \in DOMAIN metrics[h] :
          metrics[h][i].ID = id /\ metrics[h][i].MType = writes[h][id].mtype
    BY <2>7, <2>8 DEF CallOK, WrittenOf
  <2>10. seen[h][id] \in {Absent, writes[h][id].mtype}
    BY <2>5, <2>8, <2>9 DEF CallOK, SeenFits
  <2>11. writes'[h] = Empty(ID)
    BY <1>1, <2>5 DEF TxEnds, RaceInv, Shape, IsFunction
  <2>12. doing'[h] = "set" /\ writes'[h][id] = Absent
    BY <2>5, <2>11, EmptyCells
  <2> QED
    BY <2>5, <2>7, <2>10, <2>12
<1>2. RaceInv /\ [Next]_vars => [Step]_vars
  BY <1>1
<1> QED
  BY <1>2, RaceInvariant, PTL DEF Spec, TypeChangesOnlyInRace

(* Rows are locked by one transaction, a transaction has added to its rows *)
(* what the upserts of its batch say, and the rows of a read are those of  *)
(* a state that was committed since its call.                              *)
THEOREM RowsInvariant == Spec => [](RaceInv /\ CountInv /\ ReadInv)
<1> DEFINE Inv == RaceInv /\ CountInv /\ ReadInv
<1>1. Init => Inv
  BY RaceInit, CountInit, ReadInit
<1>2. Inv /\ [Next]_vars => Inv'
  <2> SUFFICES ASSUME Inv, [Next]_vars PROVE Inv'
    OBVIOUS
  <2> QED
    BY RaceNext, CountNext, ReadKept
<1> QED
  BY <1>1, <1>2, PTL DEF Spec

(* A counter in the database is exact: it holds every delta of every call  *)
(* that took effect once, and a batch whole or not at all, over every      *)
(* interleaving, retry, lost connection and deadlock (dbstorage.go,        *)
(* AddCounter and batchSet).                                               *)
THEOREM CountersExact == Spec => []CountersAreExact
<1>1. RaceInv /\ CountInv /\ ReadInv => CountersAreExact
  BY DEF CountInv
<1> QED
  BY <1>1, RowsInvariant, PTL

(* A read gives one committed state that was current after its call began, *)
(* a listing all of it, in order and every row once, also after a query    *)
(* that broke off (dbstorage.go, GetByID and GetAllSorted).                *)
THEOREM ReadsOfOneState == Spec => []ReadsAreOneState
<1>1. RaceInv /\ CountInv /\ ReadInv => ReadsAreOneState
  BY ReadGives
<1> QED
  BY <1>1, RowsInvariant, PTL

(* Every variable has its type: what is read and what a batch writes are   *)
(* rows, and the delta of a row is a number or missing.                    *)
THEOREM TypeCorrect == Spec => []TypeOK
<1>1. Init => RestOK
  BY RestInit
<1>2. RaceInv /\ RestOK /\ [Next]_vars => RestOK'
  BY RestNext
<1>3. Spec => []RestOK
  BY <1>1, <1>2, RaceInvariant, PTL DEF Spec
<1>4. ASSUME RaceInv, CountInv, ReadInv, RestOK
      PROVE  TypeOK
  <2>1. ASSUME NEW h \in Handler
        PROVE  /\ doing[h] \in {"none", "single", "validate", "set", "get", "list"}
               /\ metrics[h] \in Seq(Received) /\ run[h] \in Execution
               /\ todo[h] \in Seq(Received) /\ writes[h] \in Cells
               /\ read[h] \in Seq([ID : ID, row : Row])
    <3>1. CallOK(doing[h], metrics[h], run[h], todo[h], writes[h], seen[h])
      BY <1>4, OfHandler
    <3>2. read[h] \in Seq([ID : ID, row : Row])
      BY <1>4 DEF ReadInv, ReadOK, Line
    <3> QED
      BY <3>1, <3>2 DEF CallOK
  <2>2. table \in Cells /\ Shape /\ IsFunction(access)
    BY <1>4 DEF RaceInv, RestOK
  <2>3. /\ doing \in [Handler -> {"none", "single", "validate", "set", "get", "list"}]
        /\ metrics \in [Handler -> Seq(Received)] /\ run \in [Handler -> Execution]
        /\ todo \in [Handler -> Seq(Received)] /\ writes \in [Handler -> Cells]
    BY <2>1, <2>2 DEF Shape, IsFunction
  <2>4. /\ access \in [Handler -> BOOLEAN] /\ calls \in Nat /\ faults \in Nat
        /\ seen \in [Handler -> [ID -> {Absent, Counter, Gauge, Other}]]
    BY <1>4, <2>2 DEF RestOK, Shape, IsFunction
  <2>5. sum \in [ID -> Int] /\ spoilt \subseteq ID
    BY <1>4 DEF CountInv
  <2> QED
    BY <2>1, <2>2, <2>3, <2>4, <2>5 DEF TypeOK, Cells, Cell
<1>5. RaceInv /\ CountInv /\ ReadInv /\ RestOK => TypeOK
  BY <1>4
<1> QED
  BY <1>3, <1>5, RowsInvariant, PTL

=============================================================================
