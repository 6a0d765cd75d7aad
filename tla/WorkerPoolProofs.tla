-------------------------- MODULE WorkerPoolProofs --------------------------
(***************************************************************************)
(* Proofs about WorkerPool, for every finite set of metrics, every number  *)
(* of workers and every number of reports.                                 *)
(*                                                                         *)
(* The counts of OneResultEach are not inductive: that taking a result     *)
(* from the channel takes exactly one metric from the unresolved ones      *)
(* needs that no metric is in two places and none twice in a channel.      *)
(***************************************************************************)
EXTENDS WorkerPool, SequenceTheorems, FiniteSetTheorems, TLAPS

(* The metrics in a sequence, and that none is there twice.                *)
Elems(q) == {q[i] : i \in 1 .. Len(q)}

Injective(q) == \A i, j \in 1 .. Len(q) : q[i] = q[j] => i = j

Ids(q) == {q[i].id : i \in 1 .. Len(q)}

InjectiveIds(q) == \A i, j \in 1 .. Len(q) : q[i].id = q[j].id => i = j

(* Putting a metric into a channel.                                        *)
LEMMA AppendElems ==
  ASSUME NEW S, NEW q \in Seq(S), NEW e \in S, Injective(q), e \notin Elems(q)
  PROVE  /\ Append(q, e) \in Seq(S) /\ Len(Append(q, e)) = Len(q) + 1
         /\ Injective(Append(q, e)) /\ Elems(Append(q, e)) = Elems(q) \cup {e}
<1>1. /\ Append(q, e) \in Seq(S) /\ Len(Append(q, e)) = Len(q) + 1 /\ Len(q) \in Nat
      /\ \A i \in 1 .. Len(q) : Append(q, e)[i] = q[i]
      /\ Append(q, e)[Len(q) + 1] = e
  BY AppendProperties, LenProperties
<1>2. 1 .. Len(q) + 1 = (1 .. Len(q)) \cup {Len(q) + 1} /\ Len(q) + 1 \notin 1 .. Len(q)
  BY <1>1
<1>3. \A i \in 1 .. Len(q) : q[i] # e
  BY DEF Elems
<1>4. Injective(Append(q, e))
  BY <1>1, <1>2, <1>3 DEF Injective
<1>5. Elems(Append(q, e)) = Elems(q) \cup {e}
  BY <1>1, <1>2 DEF Elems
<1> QED
  BY <1>1, <1>4, <1>5

LEMMA AppendIds ==
  ASSUME NEW S, NEW q \in Seq(S), NEW e \in S, InjectiveIds(q), e.id \notin Ids(q)
  PROVE  /\ Append(q, e) \in Seq(S) /\ Len(Append(q, e)) = Len(q) + 1
         /\ InjectiveIds(Append(q, e)) /\ Ids(Append(q, e)) = Ids(q) \cup {e.id}
<1>1. /\ Append(q, e) \in Seq(S) /\ Len(Append(q, e)) = Len(q) + 1 /\ Len(q) \in Nat
      /\ \A i \in 1 .. Len(q) : Append(q, e)[i] = q[i]
      /\ Append(q, e)[Len(q) + 1] = e
  BY AppendProperties, LenProperties
<1>2. 1 .. Len(q) + 1 = (1 .. Len(q)) \cup {Len(q) + 1} /\ Len(q) + 1 \notin 1 .. Len(q)
  BY <1>1
<1>3. \A i \in 1 .. Len(q) : q[i].id # e.id
  BY DEF Ids
<1>4. InjectiveIds(Append(q, e))
  BY <1>1, <1>2, <1>3 DEF InjectiveIds
<1>5. Ids(Append(q, e)) = Ids(q) \cup {e.id}
  BY <1>1, <1>2 DEF Ids
<1> QED
  BY <1>1, <1>4, <1>5

(* Positions in the tail of a sequence.                                    *)
LEMMA TailPositions ==
  ASSUME NEW S, NEW q \in Seq(S), q # << >>
  PROVE  /\ Head(q) \in S /\ Tail(q) \in Seq(S)
         /\ Len(q) \in Nat \ {0} /\ Len(Tail(q)) = Len(q) - 1
         /\ Head(q) = q[1] /\ 1 \in 1 .. Len(q)
         /\ \A i \in 1 .. Len(Tail(q)) :
              i + 1 \in 1 .. Len(q) /\ i + 1 # 1 /\ Tail(q)[i] = q[i + 1]
         /\ \A j \in 1 .. Len(q) : j # 1 =>
              j - 1 \in 1 .. Len(Tail(q)) /\ (j - 1) + 1 = j
<1>1. /\ Head(q) \in S /\ Tail(q) \in Seq(S)
      /\ Len(q) \in Nat /\ Len(Tail(q)) = Len(q) - 1
      /\ \A i \in 1 .. Len(Tail(q)) : Tail(q)[i] = q[i + 1]
  BY HeadTailProperties, LenProperties
<1>2. Len(q) \in Nat \ {0}
  BY EmptySeq
<1>3. Head(q) = q[1]
  OBVIOUS
<1> QED
  BY <1>1, <1>2, <1>3

(* Taking a metric from a channel.                                         *)
LEMMA TailElems ==
  ASSUME NEW S, NEW q \in Seq(S), q # << >>, Injective(q)
  PROVE  /\ Head(q) \in Elems(q)
         /\ Injective(Tail(q)) /\ Elems(Tail(q)) = Elems(q) \ {Head(q)}
<1> DEFINE t == Tail(q)
<1>1. /\ Head(q) = q[1] /\ 1 \in 1 .. Len(q)
      /\ \A i \in 1 .. Len(t) : i + 1 \in 1 .. Len(q) /\ i + 1 # 1 /\ t[i] = q[i + 1]
      /\ \A j \in 1 .. Len(q) : j # 1 => j - 1 \in 1 .. Len(t) /\ (j - 1) + 1 = j
      /\ Len(t) \in Nat
  BY TailPositions, LenProperties
<1> HIDE DEF t
<1>2. Injective(t)
  <2>1. ASSUME NEW i \in 1 .. Len(t), NEW j \in 1 .. Len(t), t[i] = t[j]
        PROVE  i = j
    <3>1. i + 1 = j + 1
      BY <1>1, <2>1 DEF Injective
    <3> QED
      BY <1>1, <3>1
  <2> QED
    BY <2>1 DEF Injective
<1>3. Elems(t) \subseteq Elems(q) \ {Head(q)}
  BY <1>1 DEF Elems, Injective
<1>4. Elems(q) \ {Head(q)} \subseteq Elems(t)
  <2>1. ASSUME NEW j \in 1 .. Len(q), q[j] # Head(q)
        PROVE  q[j] \in Elems(t)
    <3>1. j # 1
      BY <1>1, <2>1
    <3>2. j - 1 \in 1 .. Len(t) /\ t[j - 1] = q[j]
      BY <1>1, <3>1
    <3> QED
      BY <3>2 DEF Elems
  <2> QED
    BY <2>1 DEF Elems
<1> QED
  BY <1>1, <1>2, <1>3, <1>4 DEF Elems, t

LEMMA TailIds ==
  ASSUME NEW S, NEW q \in Seq(S), q # << >>, InjectiveIds(q)
  PROVE  /\ Head(q).id \in Ids(q)
         /\ InjectiveIds(Tail(q)) /\ Ids(Tail(q)) = Ids(q) \ {Head(q).id}
<1> DEFINE t == Tail(q)
<1>1. /\ Head(q) = q[1] /\ 1 \in 1 .. Len(q)
      /\ \A i \in 1 .. Len(t) : i + 1 \in 1 .. Len(q) /\ i + 1 # 1 /\ t[i] = q[i + 1]
      /\ \A j \in 1 .. Len(q) : j # 1 => j - 1 \in 1 .. Len(t) /\ (j - 1) + 1 = j
      /\ Len(t) \in Nat
  BY TailPositions, LenProperties
<1> HIDE DEF t
<1>2. InjectiveIds(t)
  <2>1. ASSUME NEW i \in 1 .. Len(t), NEW j \in 1 .. Len(t), t[i].id = t[j].id
        PROVE  i = j
    <3>1. i + 1 = j + 1
      BY <1>1, <2>1 DEF InjectiveIds
    <3> QED
      BY <1>1, <3>1
  <2> QED
    BY <2>1 DEF InjectiveIds
<1>3. Ids(t) \subseteq Ids(q) \ {Head(q).id}
  BY <1>1 DEF Ids, InjectiveIds
<1>4. Ids(q) \ {Head(q).id} \subseteq Ids(t)
  <2>1. ASSUME NEW j \in 1 .. Len(q), q[j].id # Head(q).id
        PROVE  q[j].id \in Ids(t)
    <3>1. j # 1
      BY <1>1, <2>1
    <3>2. j - 1 \in 1 .. Len(t) /\ t[j - 1] = q[j]
      BY <1>1, <3>1
    <3> QED
      BY <3>2 DEF Ids
  <2> QED
    BY <2>1 DEF Ids
<1> QED
  BY <1>1, <1>2, <1>3, <1>4 DEF Ids, t
-----------------------------------------------------------------------------
(* The workers that have a metric, and the metrics they have.              *)
IsBusy(s) == s.at \in {"send", "reply"}

HeldOf(s) == IF s.at = "send" THEN s.id ELSE s.result.id

BusyIn(f) == {w \in Worker : IsBusy(f[w])}

HeldIn(f) == {HeldOf(f[w]) : w \in BusyIn(f)}

HeldApart(f) == \A v, w \in BusyIn(f) : HeldOf(f[v]) = HeldOf(f[w]) => v = w

WorkerState == {Receiving, Exited} \cup {Sending(id) : id \in ID}
                 \cup {Replying(r) : r \in Result}

(* Four sets without a common element.                                     *)
Apart(A, B, C, D) ==
  /\ A \cap B = {} /\ A \cap C = {} /\ A \cap D = {}
  /\ B \cap C = {} /\ B \cap D = {} /\ C \cap D = {}

(* No metric is in two places, nor twice in one.                           *)
Distinct ==
  /\ Injective(tasks) /\ InjectiveIds(results) /\ HeldApart(worker)
  /\ Apart(toFeed, Elems(tasks), HeldIn(worker), Ids(results))

(* The channels are closed only after the last Execute has returned, and   *)
(* Execute returns with as many results as it was given metrics.           *)
ClosedOK ==
  /\ tasksClosed => repPc \in {"shutdown", "done"}
  /\ resultsClosed => repPc = "done"
  /\ repPc # "collecting" => collected = Cardinality(ms)

PoolInv ==
  /\ TypeOK /\ Distinct /\ OneResultEach /\ ClosedOK /\ NoSendOnClosedChannel
-----------------------------------------------------------------------------
(* A worker without a metric gets one, or the answer for the one it has, or*)
(* gives it away.                                                          *)
LEMMA WorkerTakes ==
  ASSUME NEW f, DOMAIN f = Worker, NEW w \in Worker, NEW s, HeldApart(f),
         ~ IsBusy(f[w]), IsBusy(s), HeldOf(s) \notin HeldIn(f)
  PROVE  LET g == [f EXCEPT ![w] = s]
         IN  /\ HeldApart(g) /\ HeldIn(g) = HeldIn(f) \cup {HeldOf(s)}
             /\ BusyIn(g) = BusyIn(f) \cup {w} /\ w \notin BusyIn(f)
<1> DEFINE g == [f EXCEPT ![w] = s]
<1>1. g[w] = s /\ \A v \in Worker : v # w => g[v] = f[v]
  OBVIOUS
<1> HIDE DEF g
<1>2. BusyIn(g) = BusyIn(f) \cup {w} /\ w \notin BusyIn(f)
  BY <1>1 DEF BusyIn
<1>3. \A v \in BusyIn(f) : v \in Worker /\ v # w /\ g[v] = f[v]
  BY <1>1, <1>2 DEF BusyIn
<1>4. HeldIn(g) = HeldIn(f) \cup {HeldOf(s)}
  BY <1>1, <1>2, <1>3 DEF HeldIn
<1>5. HeldApart(g)
  BY <1>1, <1>2, <1>3 DEF HeldApart, HeldIn
<1> QED
  BY <1>2, <1>4, <1>5 DEF g

LEMMA WorkerKeeps ==
  ASSUME NEW f, DOMAIN f = Worker, NEW w \in Worker, NEW s, HeldApart(f),
         IsBusy(f[w]), IsBusy(s), HeldOf(s) = HeldOf(f[w])
  PROVE  LET g == [f EXCEPT ![w] = s]
         IN  HeldApart(g) /\ HeldIn(g) = HeldIn(f) /\ BusyIn(g) = BusyIn(f)
<1> DEFINE g == [f EXCEPT ![w] = s]
<1>1. g[w] = s /\ \A v \in Worker : v # w => g[v] = f[v]
  OBVIOUS
<1> HIDE DEF g
<1>2. BusyIn(g) = BusyIn(f)
  BY <1>1 DEF BusyIn
<1>3. \A v \in BusyIn(f) : HeldOf(g[v]) = HeldOf(f[v])
  BY <1>1, <1>2 DEF BusyIn
<1>4. HeldIn(g) = HeldIn(f)
  BY <1>2, <1>3 DEF HeldIn
<1>5. HeldApart(g)
  BY <1>2, <1>3 DEF HeldApart
<1> QED
  BY <1>2, <1>4, <1>5 DEF g

LEMMA WorkerDrops ==
  ASSUME NEW f, DOMAIN f = Worker, NEW w \in Worker, NEW s, HeldApart(f),
         IsBusy(f[w]), ~ IsBusy(s)
  PROVE  LET g == [f EXCEPT ![w] = s]
         IN  /\ HeldApart(g) /\ HeldIn(g) = HeldIn(f) \ {HeldOf(f[w])}
             /\ BusyIn(g) = BusyIn(f) \ {w} /\ w \in BusyIn(f)
             /\ HeldOf(f[w]) \in HeldIn(f)
<1> DEFINE g == [f EXCEPT ![w] = s]
<1>1. g[w] = s /\ \A v \in Worker : v # w => g[v] = f[v]
  OBVIOUS
<1> HIDE DEF g
<1>2. BusyIn(g) = BusyIn(f) \ {w} /\ w \in BusyIn(f)
  BY <1>1 DEF BusyIn
<1>3. \A v \in BusyIn(g) : v \in BusyIn(f) /\ v # w /\ g[v] = f[v]
  BY <1>1, <1>2 DEF BusyIn
<1>4. HeldIn(g) = HeldIn(f) \ {HeldOf(f[w])}
  BY <1>2, <1>3 DEF HeldIn, HeldApart
<1>5. HeldApart(g)
  BY <1>3 DEF HeldApart
<1> QED
  BY <1>2, <1>4, <1>5 DEF g, HeldIn

(* A worker that leaves, or never had anything.                            *)
LEMMA WorkerIdles ==
  ASSUME NEW f, DOMAIN f = Worker, NEW w \in Worker, NEW s,
         ~ IsBusy(f[w]), ~ IsBusy(s), HeldApart(f)
  PROVE  LET g == [f EXCEPT ![w] = s]
         IN  HeldApart(g) /\ HeldIn(g) = HeldIn(f) /\ BusyIn(g) = BusyIn(f)
<1> DEFINE g == [f EXCEPT ![w] = s]
<1>1. g[w] = s /\ \A v \in Worker : v # w => g[v] = f[v]
  OBVIOUS
<1> HIDE DEF g
<1>2. BusyIn(g) = BusyIn(f)
  BY <1>1 DEF BusyIn
<1>3. \A v \in BusyIn(f) : g[v] = f[v]
  BY <1>1 DEF BusyIn
<1> QED
  BY <1>2, <1>3 DEF g, HeldIn, HeldApart

(* What the four kinds of worker states say.                               *)
LEMMA WorkerStates ==
  /\ ~ IsBusy(Receiving) /\ ~ IsBusy(Exited)
  /\ \A id : IsBusy(Sending(id)) /\ HeldOf(Sending(id)) = id
  /\ \A r : IsBusy(Replying(r)) /\ HeldOf(Replying(r)) = r.id
  /\ \A s \in WorkerState : s.at = "send" => s.id \in ID /\ s = Sending(s.id)
  /\ \A s \in WorkerState : s.at = "reply" =>
       s.result \in Result /\ s = Replying(s.result)
BY DEF IsBusy, HeldOf, Receiving, Exited, Sending, Replying, WorkerState

(* Where the metrics are, in the terms of the lemmas above.                *)
LEMMA PlacesNow ==
  ASSUME TypeOK
  PROVE  /\ InTasks = Elems(tasks) /\ InResults = Ids(results)
         /\ AtWorkers = HeldIn(worker)
         /\ {w \in Worker : worker[w].at \in {"send", "reply"}} = BusyIn(worker)
         /\ Unresolved = toFeed \cup Elems(tasks) \cup HeldIn(worker) \cup Ids(results)
<1>1. DOMAIN tasks = 1 .. Len(tasks) /\ DOMAIN results = 1 .. Len(results)
  BY LenProperties DEF TypeOK
<1>2. InTasks = Elems(tasks) /\ InResults = Ids(results)
  BY <1>1 DEF InTasks, InResults, Elems, Ids
<1>3. AtWorkers = HeldIn(worker)
  BY DEF AtWorkers, HeldIn, BusyIn, IsBusy, HeldOf
<1>4. {w \in Worker : worker[w].at \in {"send", "reply"}} = BusyIn(worker)
  BY DEF BusyIn, IsBusy
<1> QED
  BY <1>2, <1>3, <1>4 DEF Unresolved

LEMMA PlacesNext ==
  ASSUME TypeOK'
  PROVE  /\ InTasks' = Elems(tasks') /\ InResults' = Ids(results')
         /\ AtWorkers' = HeldIn(worker')
         /\ {w \in Worker : worker'[w].at \in {"send", "reply"}} = BusyIn(worker')
         /\ Unresolved' = toFeed' \cup Elems(tasks') \cup HeldIn(worker') \cup Ids(results')
<1>1. DOMAIN tasks' = 1 .. Len(tasks') /\ DOMAIN results' = 1 .. Len(results')
  BY LenProperties DEF TypeOK
<1>2. InTasks' = Elems(tasks') /\ InResults' = Ids(results')
  BY <1>1 DEF InTasks, InResults, Elems, Ids
<1>3. AtWorkers' = HeldIn(worker')
  BY DEF AtWorkers, HeldIn, BusyIn, IsBusy, HeldOf
<1>4. {w \in Worker : worker'[w].at \in {"send", "reply"}} = BusyIn(worker')
  BY DEF BusyIn, IsBusy
<1> QED
  BY <1>2, <1>3, <1>4 DEF Unresolved
-----------------------------------------------------------------------------
(* How many metrics are on their way, and what OneResultEach says of the   *)
(* places they are in.                                                     *)
Places(F, t, f, r) == F \cup Elems(t) \cup HeldIn(f) \cup Ids(r)

Moving(F, t, f, r) == Cardinality(F) + Len(t) + Len(r) + Cardinality(BusyIn(f))

Balance(P, moving, m, c) ==
  Cardinality(P) = Cardinality(m) - c /\ moving = Cardinality(m) - c

LEMMA BalanceNow ==
  ASSUME TypeOK
  PROVE  OneResultEach <=>
           /\ Places(toFeed, tasks, worker, results) = ms \ (successIDs \cup failureIDs)
           /\ successIDs \cap failureIDs = {}
           /\ Balance(Places(toFeed, tasks, worker, results),
                      Moving(toFeed, tasks, worker, results), ms, collected)
BY PlacesNow DEF OneResultEach, Places, Moving, Balance

LEMMA BalanceNext ==
  ASSUME TypeOK'
  PROVE  OneResultEach' <=>
           /\ Places(toFeed', tasks', worker', results')
                = ms' \ (successIDs' \cup failureIDs')
           /\ successIDs' \cap failureIDs' = {}
           /\ Balance(Places(toFeed', tasks', worker', results'),
                      Moving(toFeed', tasks', worker', results'), ms', collected')
BY PlacesNext DEF OneResultEach, Places, Moving, Balance

(* The sets the counts are of are finite.                                  *)
LEMMA Finite ==
  ASSUME TypeOK
  PROVE  /\ IsFiniteSet(toFeed) /\ Cardinality(toFeed) \in Nat
         /\ IsFiniteSet(ms) /\ Cardinality(ms) \in Nat
         /\ IsFiniteSet(ms \ (successIDs \cup failureIDs))
         /\ IsFiniteSet(BusyIn(worker)) /\ Cardinality(BusyIn(worker)) \in Nat
         /\ Len(tasks) \in Nat /\ Len(results) \in Nat /\ collected \in Nat
         /\ worker \in [Worker -> WorkerState] /\ DOMAIN worker = Worker
<1>1. IsFiniteSet(ID) /\ Rate \in Nat
  BY PoolAssumption
<1>2. \A S \in SUBSET ID : IsFiniteSet(S) /\ Cardinality(S) \in Nat
  BY <1>1, FS_Subset, FS_CardinalityType
<1>3. IsFiniteSet(Worker)
  BY <1>1, FS_Interval DEF Worker
<1>4. BusyIn(worker) \subseteq Worker
  BY DEF BusyIn
<1>5. IsFiniteSet(BusyIn(worker)) /\ Cardinality(BusyIn(worker)) \in Nat
  BY <1>3, <1>4, FS_Subset, FS_CardinalityType
<1>6. Len(tasks) \in Nat /\ Len(results) \in Nat
  BY LenProperties DEF TypeOK
<1>7. worker \in [Worker -> WorkerState] /\ DOMAIN worker = Worker
  BY DEF TypeOK, WorkerState
<1> QED
  BY <1>2, <1>5, <1>6, <1>7 DEF TypeOK

(* When Execute is not running, nothing is on its way.                     *)
LEMMA NothingLeft ==
  ASSUME PoolInv, repPc # "collecting"
  PROVE  /\ toFeed = {} /\ tasks = << >> /\ results = << >> /\ BusyIn(worker) = {}
         /\ Elems(tasks) = {} /\ Ids(results) = {} /\ HeldIn(worker) = {}
<1>1. TypeOK /\ collected = Cardinality(ms)
  BY DEF PoolInv, ClosedOK
<1>2. Moving(toFeed, tasks, worker, results) = Cardinality(ms) - collected
  BY <1>1, BalanceNow DEF PoolInv, Balance
<1>3. /\ Cardinality(toFeed) = 0 /\ Cardinality(BusyIn(worker)) = 0
      /\ Len(tasks) = 0 /\ Len(results) = 0
  BY <1>1, <1>2, Finite DEF Moving
<1>4. toFeed = {} /\ BusyIn(worker) = {}
  BY <1>1, <1>3, Finite, FS_EmptySet
<1>5. tasks = << >> /\ results = << >>
  BY <1>1, <1>3, EmptySeq DEF TypeOK
<1>6. 1 .. Len(tasks) = {} /\ 1 .. Len(results) = {}
  BY <1>3
<1> QED
  BY <1>4, <1>5, <1>6 DEF Elems, Ids, HeldIn

(* A metric that moves from one place to another: Feed, Receive and Reply. *)
LEMMA StillBalanced ==
  ASSUME TypeOK, TypeOK', OneResultEach,
         UNCHANGED <<ms, successIDs, failureIDs, collected>>,
         Places(toFeed', tasks', worker', results')
           = Places(toFeed, tasks, worker, results),
         Moving(toFeed', tasks', worker', results')
           = Moving(toFeed, tasks, worker, results)
  PROVE  OneResultEach'
BY BalanceNow, BalanceNext
-----------------------------------------------------------------------------
(* One lemma for each step that moves a metric.                            *)
LEMMA ExecuteStep ==
  ASSUME PoolInv, NEW metrics \in SUBSET ID, Execute(metrics)
  PROVE  PoolInv'
<1>1. TypeOK
  BY DEF PoolInv
<1>2. TypeOK'
  BY <1>1 DEF TypeOK, Execute
<1>3. /\ toFeed' = metrics /\ ms' = metrics /\ collected' = 0
      /\ tasks' = tasks /\ worker' = worker /\ results' = results
      /\ successIDs' = {} /\ failureIDs' = {}
  BY DEF Execute
<1>4. /\ tasks = << >> /\ results = << >> /\ BusyIn(worker) = {}
      /\ Elems(tasks) = {} /\ Ids(results) = {} /\ HeldIn(worker) = {}
  BY NothingLeft DEF Execute
<1>5. Distinct'
  BY <1>3, <1>4 DEF PoolInv, Distinct, Apart
<1>6. Places(toFeed', tasks', worker', results') = metrics
  BY <1>3, <1>4 DEF Places
<1>7. Moving(toFeed', tasks', worker', results') = Cardinality(metrics)
  <2>1. Cardinality(metrics) \in Nat
    BY PoolAssumption, FS_Subset, FS_CardinalityType
  <2>2. Cardinality({}) = 0 /\ Len(<< >>) = 0
    BY FS_EmptySet
  <2> QED
    BY <1>3, <1>4, <2>1, <2>2 DEF Moving
<1>8. Cardinality(metrics) = Cardinality(ms') - collected'
  <2>1. Cardinality(metrics) \in Nat
    BY PoolAssumption, FS_Subset, FS_CardinalityType
  <2> QED
    BY <2>1, <1>3
<1>9. OneResultEach'
  BY <1>2, <1>3, <1>6, <1>7, <1>8, BalanceNext DEF Balance
<1> QED
  BY <1>2, <1>5, <1>9 DEF PoolInv, Execute, ClosedOK, NoSendOnClosedChannel

LEMMA FeedStep ==
  ASSUME PoolInv, NEW id \in ID, Feed(id)
  PROVE  PoolInv'
<1>1. TypeOK /\ Distinct /\ OneResultEach /\ ClosedOK
  BY DEF PoolInv
<1>2. repPc = "collecting" /\ ~ tasksClosed
  BY <1>1, NothingLeft DEF Feed, ClosedOK
<1>3. /\ tasks \in Seq(ID) /\ tasks' = Append(tasks, id) /\ Len(tasks) < Rate
      /\ toFeed' = toFeed \ {id} /\ id \in toFeed
      /\ worker' = worker /\ results' = results
      /\ Injective(tasks) /\ id \notin Elems(tasks)
  BY <1>1, <1>2 DEF TypeOK, Feed, Distinct, Apart
<1>4. /\ tasks' \in Seq(ID) /\ Len(tasks') = Len(tasks) + 1
      /\ Injective(tasks') /\ Elems(tasks') = Elems(tasks) \cup {id}
  BY <1>3, AppendElems
<1>6. TypeOK'
  BY <1>1, <1>2, <1>4 DEF TypeOK, Feed
<1>7. Distinct'
  BY <1>1, <1>3, <1>4 DEF Distinct, Apart
<1>8. Places(toFeed', tasks', worker', results') = Places(toFeed, tasks, worker, results)
  BY <1>3, <1>4 DEF Places
<1>9. Moving(toFeed', tasks', worker', results') = Moving(toFeed, tasks, worker, results)
  <2>1. Cardinality(toFeed') = Cardinality(toFeed) - 1
    BY <1>1, <1>3, Finite, FS_RemoveElement
  <2> QED
    BY <1>1, <1>3, <1>4, <2>1, Finite DEF Moving
<1>10. OneResultEach'
  BY <1>1, <1>6, <1>8, <1>9, StillBalanced DEF Feed
<1> QED
  BY <1>2, <1>6, <1>7, <1>10 DEF PoolInv, Feed, ClosedOK, NoSendOnClosedChannel

LEMMA ReceiveStep ==
  ASSUME PoolInv, NEW w \in Worker, Receive(w)
  PROVE  PoolInv'
<1>1. TypeOK /\ Distinct /\ OneResultEach
  BY DEF PoolInv
<1>2. PICK h : h = Head(tasks)
  OBVIOUS
<1>3. /\ tasks \in Seq(ID) /\ tasks # << >> /\ Injective(tasks)
      /\ tasks' = Tail(tasks) /\ toFeed' = toFeed /\ results' = results
      /\ worker' = [worker EXCEPT ![w] = Sending(h)] /\ worker[w] = Receiving
      /\ HeldApart(worker)
  BY <1>1, <1>2 DEF TypeOK, Receive, Distinct
<1>4. /\ h \in ID /\ tasks' \in Seq(ID) /\ Len(tasks') = Len(tasks) - 1
      /\ h \in Elems(tasks) /\ Injective(tasks') /\ Elems(tasks') = Elems(tasks) \ {h}
  BY <1>2, <1>3, TailElems, TailPositions
<1>5. h \notin HeldIn(worker)
  BY <1>1, <1>4 DEF Distinct, Apart
<1>6. /\ HeldApart(worker') /\ HeldIn(worker') = HeldIn(worker) \cup {h}
      /\ BusyIn(worker') = BusyIn(worker) \cup {w} /\ w \notin BusyIn(worker)
  <2>1. /\ ~ IsBusy(worker[w]) /\ IsBusy(Sending(h)) /\ HeldOf(Sending(h)) = h
        /\ DOMAIN worker = Worker
    BY <1>1, <1>3, WorkerStates, Finite
  <2>2. PICK s : s = Sending(h)
    OBVIOUS
  <2>3. ~ IsBusy(worker[w]) /\ IsBusy(s) /\ HeldOf(s) \notin HeldIn(worker)
    BY <1>5, <2>1, <2>2
  <2>4. HeldApart(worker) /\ DOMAIN worker = Worker /\ worker' = [worker EXCEPT ![w] = s]
    BY <1>3, <2>1, <2>2
  <2>5. HeldOf(s) = h
    BY <2>1, <2>2
  <2>6. LET g == [worker EXCEPT ![w] = s]
        IN  /\ HeldApart(g) /\ HeldIn(g) = HeldIn(worker) \cup {HeldOf(s)}
            /\ BusyIn(g) = BusyIn(worker) \cup {w} /\ w \notin BusyIn(worker)
    BY <2>3, <2>4, WorkerTakes, Zenon
  <2> QED
    BY <2>4, <2>5, <2>6
<1>7. TypeOK'
  BY <1>1, <1>3, <1>4 DEF TypeOK, Receive
<1>8. Distinct'
  BY <1>1, <1>3, <1>4, <1>6 DEF Distinct, Apart
<1>9. Places(toFeed', tasks', worker', results') = Places(toFeed, tasks, worker, results)
  BY <1>3, <1>4, <1>6 DEF Places
<1>10. Moving(toFeed', tasks', worker', results') = Moving(toFeed, tasks, worker, results)
  <2>1. Cardinality(BusyIn(worker')) = Cardinality(BusyIn(worker)) + 1
    BY <1>1, <1>6, Finite, FS_AddElement
  <2> QED
    BY <1>1, <1>3, <1>4, <2>1, Finite DEF Moving
<1>11. OneResultEach'
  BY <1>1, <1>7, <1>9, <1>10, StillBalanced DEF Receive
<1> QED
  BY <1>7, <1>8, <1>11 DEF PoolInv, Receive, ClosedOK, NoSendOnClosedChannel

LEMMA SendMetricStep ==
  ASSUME PoolInv, NEW w \in Worker, NEW ok \in BOOLEAN, SendMetric(w, ok)
  PROVE  PoolInv'
<1>1. TypeOK /\ Distinct /\ OneResultEach
  BY DEF PoolInv
<1>2. PICK id \in ID : worker[w] = Sending(id) /\ worker[w].id = id
  <2>1. worker[w] \in WorkerState
    BY <1>1, Finite
  <2> QED
    BY <2>1, WorkerStates DEF SendMetric
<1>3. PICK r \in Result : r = [id |-> id, ok |-> ok]
  BY DEF Result
<1>4. /\ worker' = [worker EXCEPT ![w] = Replying(r)]
      /\ toFeed' = toFeed /\ tasks' = tasks /\ results' = results
  BY <1>1, <1>2, <1>3, Finite DEF SendMetric
<1>5. /\ HeldApart(worker') /\ HeldIn(worker') = HeldIn(worker)
      /\ BusyIn(worker') = BusyIn(worker)
  <2>1. /\ IsBusy(worker[w]) /\ IsBusy(Replying(r)) /\ HeldOf(worker[w]) = id
        /\ HeldOf(Replying(r)) = id /\ DOMAIN worker = Worker /\ HeldApart(worker)
    BY <1>1, <1>2, <1>3, WorkerStates, Finite DEF Distinct
  <2> QED
    BY <1>4, <2>1, WorkerKeeps
<1>6. TypeOK'
  <2>1. worker' \in [Worker -> WorkerState]
    <3>1. Replying(r) \in WorkerState
      BY DEF WorkerState
    <3> QED
      BY <1>1, <1>4, <3>1, Finite
  <2> QED
    BY <1>1, <2>1 DEF TypeOK, SendMetric, WorkerState
<1>7. Distinct'
  BY <1>1, <1>4, <1>5 DEF Distinct
<1>8. OneResultEach'
  BY <1>1, <1>4, <1>5, <1>6, StillBalanced DEF SendMetric, Places, Moving
<1> QED
  BY <1>6, <1>7, <1>8 DEF PoolInv, SendMetric, ClosedOK, NoSendOnClosedChannel
LEMMA ReplyStep ==
  ASSUME PoolInv, NEW w \in Worker, Reply(w)
  PROVE  PoolInv'
<1>1. TypeOK /\ Distinct /\ OneResultEach /\ ClosedOK
  BY DEF PoolInv
<1>2. PICK r \in Result : worker[w] = Replying(r) /\ worker[w].result = r
  <2>1. worker[w] \in WorkerState
    BY <1>1, Finite
  <2> QED
    BY <2>1, WorkerStates DEF Reply
<1>3. /\ IsBusy(worker[w]) /\ HeldOf(worker[w]) = r.id /\ ~ IsBusy(Receiving)
      /\ DOMAIN worker = Worker /\ HeldApart(worker) /\ w \in BusyIn(worker)
  BY <1>1, <1>2, WorkerStates, Finite DEF Distinct, BusyIn
<1>4. repPc = "collecting" /\ ~ resultsClosed
  BY <1>1, <1>3, NothingLeft DEF ClosedOK
<1>5. /\ results \in Seq(Result) /\ results' = Append(results, r) /\ Len(results) < Rate
      /\ worker' = [worker EXCEPT ![w] = Receiving]
      /\ toFeed' = toFeed /\ tasks' = tasks /\ InjectiveIds(results)
  BY <1>1, <1>2, <1>4 DEF TypeOK, Reply, Distinct
<1>6. /\ HeldApart(worker') /\ HeldIn(worker') = HeldIn(worker) \ {r.id}
      /\ BusyIn(worker') = BusyIn(worker) \ {w} /\ r.id \in HeldIn(worker)
  <2>1. LET g == [worker EXCEPT ![w] = Receiving]
        IN  /\ HeldApart(g) /\ HeldIn(g) = HeldIn(worker) \ {HeldOf(worker[w])}
            /\ BusyIn(g) = BusyIn(worker) \ {w} /\ HeldOf(worker[w]) \in HeldIn(worker)
    BY <1>3, WorkerDrops, Zenon
  <2> QED
    BY <1>3, <1>5, <2>1
<1>7. r.id \notin Ids(results)
  BY <1>1, <1>6 DEF Distinct, Apart
<1>8. /\ results' \in Seq(Result) /\ Len(results') = Len(results) + 1
      /\ InjectiveIds(results') /\ Ids(results') = Ids(results) \cup {r.id}
  BY <1>5, <1>7, AppendIds
<1>9. TypeOK'
  <2>2. worker' \in [Worker -> WorkerState]
    <3>1. Receiving \in WorkerState
      BY DEF WorkerState
    <3> QED
      BY <1>1, <1>5, <3>1, Finite
  <2> QED
    BY <1>1, <1>4, <1>8, <2>2 DEF TypeOK, Reply, WorkerState
<1>10. Distinct'
  BY <1>1, <1>5, <1>6, <1>8 DEF Distinct, Apart
<1>11. Places(toFeed', tasks', worker', results') = Places(toFeed, tasks, worker, results)
  BY <1>5, <1>6, <1>8 DEF Places
<1>12. Moving(toFeed', tasks', worker', results') = Moving(toFeed, tasks, worker, results)
  <2>1. Cardinality(BusyIn(worker')) = Cardinality(BusyIn(worker)) - 1
    BY <1>1, <1>3, <1>6, Finite, FS_RemoveElement
  <2> QED
    BY <1>1, <1>5, <1>8, <2>1, Finite DEF Moving
<1>13. OneResultEach'
  BY <1>1, <1>9, <1>11, <1>12, StillBalanced DEF Reply
<1> QED
  BY <1>4, <1>9, <1>10, <1>13 DEF PoolInv, Reply, ClosedOK, NoSendOnClosedChannel

(* The result taken from the channel is that of one of the metrics of this *)
(* Execute, and of no metric that had one already.                         *)
LEMMA CollectIsResolve ==
  ASSUME PoolInv, Collect
  PROVE  LET r == Head(results)
         IN  /\ r \in Result /\ r.id \in ms \ (successIDs \cup failureIDs)
             /\ r.id \in Ids(results)
<1>1. TypeOK /\ Distinct /\ OneResultEach
  BY DEF PoolInv
<1>2. results \in Seq(Result) /\ results # << >> /\ InjectiveIds(results)
  BY <1>1 DEF TypeOK, Distinct, Collect
<1>3. Head(results) \in Result /\ Head(results).id \in Ids(results)
  BY <1>2, TailIds, TailPositions
<1>4. Ids(results) \subseteq ms \ (successIDs \cup failureIDs)
  BY <1>1, BalanceNow DEF Places
<1> QED
  BY <1>3, <1>4

LEMMA CollectStep ==
  ASSUME PoolInv, Collect
  PROVE  PoolInv'
<1>1. TypeOK /\ Distinct /\ OneResultEach
  BY DEF PoolInv
<1>2. PICK r \in Result : r = Head(results)
  BY CollectIsResolve
<1>3. r.id \in ms \ (successIDs \cup failureIDs) /\ r.id \in Ids(results) /\ r.id \in ID
  BY <1>2, CollectIsResolve DEF Result
<1>4. /\ results \in Seq(Result) /\ results # << >> /\ InjectiveIds(results)
      /\ results' = Tail(results) /\ toFeed' = toFeed /\ tasks' = tasks /\ worker' = worker
      /\ ms' = ms /\ collected' = collected + 1
      /\ successIDs' = IF r.ok THEN successIDs \cup {r.id} ELSE successIDs
      /\ failureIDs' = IF r.ok THEN failureIDs ELSE failureIDs \cup {r.id}
  BY <1>1, <1>2 DEF TypeOK, Distinct, Collect
<1>5. /\ results' \in Seq(Result) /\ Len(results') = Len(results) - 1
      /\ InjectiveIds(results') /\ Ids(results') = Ids(results) \ {r.id}
  BY <1>2, <1>4, TailIds, TailPositions
<1>6. TypeOK'
  <2>2. successIDs' \subseteq ID /\ failureIDs' \subseteq ID
    BY <1>1, <1>3, <1>4 DEF TypeOK
  <2> QED
    BY <1>1, <1>4, <1>5, <2>2 DEF TypeOK, Collect
<1>7. Distinct'
  BY <1>1, <1>4, <1>5 DEF Distinct, Apart
<1>8. PICK P : P = Places(toFeed, tasks, worker, results)
  OBVIOUS
<1>9. /\ P = ms \ (successIDs \cup failureIDs) /\ successIDs \cap failureIDs = {}
      /\ Balance(P, Moving(toFeed, tasks, worker, results), ms, collected)
  BY <1>1, <1>8, BalanceNow
<1>10. Places(toFeed', tasks', worker', results') = P \ {r.id}
  BY <1>1, <1>3, <1>4, <1>5, <1>8 DEF Places, Distinct, Apart
<1>11. P \ {r.id} = ms' \ (successIDs' \cup failureIDs') /\ successIDs' \cap failureIDs' = {}
  BY <1>3, <1>4, <1>9
<1>12. Balance(P \ {r.id}, Moving(toFeed', tasks', worker', results'), ms', collected')
  <2>1. Cardinality(P \ {r.id}) = Cardinality(P) - 1
    BY <1>1, <1>3, <1>9, Finite, FS_RemoveElement
  <2>2. Moving(toFeed', tasks', worker', results')
          = Moving(toFeed, tasks, worker, results) - 1
    BY <1>1, <1>4, <1>5, Finite DEF Moving
  <2>3. Cardinality(ms) \in Nat /\ collected \in Nat
    BY <1>1, Finite
  <2> QED
    BY <1>4, <1>9, <2>1, <2>2, <2>3 DEF Balance
<1>13. OneResultEach'
  BY <1>6, <1>10, <1>11, <1>12, BalanceNext
<1> QED
  BY <1>6, <1>7, <1>13 DEF PoolInv, Collect, ClosedOK, NoSendOnClosedChannel

LEMMA ExitStep ==
  ASSUME PoolInv, NEW w \in Worker, Exit(w)
  PROVE  PoolInv'
<1>1. TypeOK /\ Distinct /\ OneResultEach
  BY DEF PoolInv
<1>2. /\ worker' = [worker EXCEPT ![w] = Exited]
      /\ toFeed' = toFeed /\ tasks' = tasks /\ results' = results
  BY DEF Exit
<1>3. /\ HeldApart(worker') /\ HeldIn(worker') = HeldIn(worker)
      /\ BusyIn(worker') = BusyIn(worker)
  <2>1. /\ ~ IsBusy(worker[w]) /\ ~ IsBusy(Exited) /\ HeldApart(worker)
        /\ DOMAIN worker = Worker
    BY <1>1, WorkerStates, Finite DEF Exit, Distinct
  <2> QED
    BY <1>2, <2>1, WorkerIdles
<1>4. TypeOK'
  <2>1. worker' \in [Worker -> WorkerState]
    <3>1. Exited \in WorkerState
      BY DEF WorkerState
    <3> QED
      BY <1>1, <1>2, <3>1, Finite
  <2> QED
    BY <1>1, <2>1 DEF TypeOK, Exit, WorkerState
<1>5. Distinct'
  BY <1>1, <1>2, <1>3 DEF Distinct
<1>6. OneResultEach'
  BY <1>1, <1>2, <1>3, <1>4, StillBalanced DEF Exit, Places, Moving
<1> QED
  BY <1>4, <1>5, <1>6 DEF PoolInv, Exit, ClosedOK, NoSendOnClosedChannel

(* The steps of the reporter that move no metric, and steps of nobody.     *)
LEMMA ReporterStep ==
  ASSUME PoolInv, ExecuteReturns \/ CloseTasks \/ CloseResults \/ UNCHANGED vars
  PROVE  PoolInv'
<1>1. TypeOK /\ Distinct /\ OneResultEach /\ ClosedOK
  BY DEF PoolInv
<1>2. UNCHANGED <<tasks, results, toFeed, worker, ms, collected, successIDs, failureIDs,
                  reports, panicked>>
  BY DEF ExecuteReturns, CloseTasks, CloseResults, vars
<1>3. TypeOK'
  BY <1>1, <1>2 DEF TypeOK, ExecuteReturns, CloseTasks, CloseResults, vars
<1>4. Distinct'
  BY <1>1, <1>2 DEF Distinct
<1>5. OneResultEach'
  BY <1>1, <1>2, <1>3, StillBalanced
<1>6. ClosedOK'
  BY <1>1, <1>2 DEF ClosedOK, ExecuteReturns, CloseTasks, CloseResults, vars
<1> QED
  BY <1>2, <1>3, <1>4, <1>5, <1>6 DEF PoolInv, NoSendOnClosedChannel

LEMMA PoolInit == Init => PoolInv
<1> SUFFICES ASSUME Init PROVE PoolInv
  OBVIOUS
<1>2. TypeOK
  <2>1. tasks \in Seq(ID) /\ results \in Seq(Result)
    BY EmptySeq DEF Init
  <2>2. worker \in [Worker -> WorkerState]
    BY DEF Init, WorkerState
  <2> QED
    BY <2>1, <2>2 DEF Init, TypeOK, WorkerState
<1>3. BusyIn(worker) = {}
  BY WorkerStates DEF Init, BusyIn
<1>4. HeldIn(worker) = {} /\ Elems(tasks) = {} /\ Ids(results) = {}
  BY <1>3 DEF Init, HeldIn, Elems, Ids
<1>5. Distinct
  BY <1>3, <1>4 DEF Init, Distinct, Apart, Injective, InjectiveIds, HeldApart
<1>6. Cardinality({}) = 0 /\ Len(<< >>) = 0
  BY FS_EmptySet
<1>7. OneResultEach
  <2>1. Places(toFeed, tasks, worker, results) = {}
    BY <1>4 DEF Init, Places
  <2>2. Moving(toFeed, tasks, worker, results) = 0
    <3>1. /\ Cardinality(toFeed) = 0 /\ Len(tasks) = 0 /\ Len(results) = 0
          /\ Cardinality(BusyIn(worker)) = 0
      BY <1>3, <1>6 DEF Init
    <3> QED
      BY <3>1 DEF Moving
  <2>3. Balance({}, 0, ms, collected)
    BY <1>6 DEF Init, Balance
  <2> QED
    BY <1>2, <2>1, <2>2, <2>3, BalanceNow DEF Init
<1> QED
  BY <1>2, <1>5, <1>6, <1>7 DEF Init, PoolInv, ClosedOK, NoSendOnClosedChannel

(* PoolInv is an invariant of the worker pool of pooler.go.                *)
THEOREM PoolInvariant == Spec => []PoolInv
<1>1. ASSUME PoolInv, [Next]_vars
      PROVE  PoolInv'
  <2>1. ASSUME NEW metrics \in SUBSET ID, Execute(metrics) PROVE PoolInv'
    BY <1>1, <2>1, ExecuteStep
  <2>2. ASSUME NEW id \in ID, Feed(id) PROVE PoolInv'
    BY <1>1, <2>2, FeedStep
  <2>3. ASSUME NEW w \in Worker, WorkerNext(w) PROVE PoolInv'
    BY <1>1, <2>3, ReceiveStep, ExitStep, ReplyStep, SendMetricStep DEF WorkerNext
  <2>4. CASE Collect
    BY <1>1, <2>4, CollectStep
  <2>5. CASE ExecuteReturns \/ CloseTasks \/ CloseResults \/ UNCHANGED vars
    BY <1>1, <2>5, ReporterStep
  <2> QED
    BY <1>1, <2>1, <2>2, <2>3, <2>4, <2>5 DEF Next, FeederNext, CollectorNext, Terminated
<1> QED
  BY <1>1, PoolInit, PTL DEF Spec

(* A metric without a result is in exactly one place, and Execute waits    *)
(* for as many results as there are such metrics.                          *)
THEOREM OneResultForEach == Spec => []OneResultEach
<1>1. PoolInv => OneResultEach
  BY DEF PoolInv
<1> QED
  BY <1>1, PoolInvariant, PTL

(* Shutdown closes no channel that the feeder or a worker still sends to.  *)
THEOREM NeverPanics == Spec => []NoSendOnClosedChannel
<1>1. PoolInv => NoSendOnClosedChannel
  BY DEF PoolInv
<1> QED
  BY <1>1, PoolInvariant, PTL

(* The pool does what Executor promises: Execute is Execute, a result      *)
(* collected is the result of one unresolved metric, Execute returns only  *)
(* when none is left, and whatever the feeder and the workers do is not    *)
(* seen by the caller.                                                     *)
THEOREM PoolImplementsExecutor == Spec => ImplementsExecutor
<1>1. Init => Abstract!Init
  BY DEF Init, Abstract!Init
<1>2. ASSUME PoolInv, [Next]_vars
      PROVE  [Abstract!Next]_(Abstract!execVars)
  <2> USE DEF Abstract!execVars
  <2>1. ASSUME NEW metrics \in SUBSET ID, Execute(metrics)
        PROVE  Abstract!Execute(metrics)
    BY <2>1 DEF Execute, Abstract!Execute
  <2>2. ASSUME Collect
        PROVE  Abstract!Next
    <3>1. PICK r \in Result : r = Head(results)
      BY <1>2, <2>2, CollectIsResolve
    <3>2. {r.id} \in SUBSET (ms \ (successIDs \cup failureIDs)) /\ r.ok \in BOOLEAN
      BY <1>2, <2>2, <3>1, CollectIsResolve DEF Result
    <3>3. Abstract!Resolve({r.id}, r.ok)
      BY <2>2, <3>1, <3>2 DEF Collect, Abstract!Resolve
    <3> QED
      BY <3>2, <3>3 DEF Abstract!Next
  <2>3. ASSUME ExecuteReturns
        PROVE  Abstract!Return
    <3>1. TypeOK /\ OneResultEach /\ collected = Cardinality(ms)
      BY <1>2, <2>3 DEF PoolInv, ExecuteReturns
    <3>2. PICK P : P = Places(toFeed, tasks, worker, results)
      OBVIOUS
    <3>3. P = ms \ (successIDs \cup failureIDs) /\ Cardinality(P) = Cardinality(ms) - collected
      BY <3>1, <3>2, BalanceNow DEF Balance
    <3>4. Cardinality(P) = 0 /\ IsFiniteSet(P)
      BY <3>1, <3>3, Finite
    <3>5. ms \ (successIDs \cup failureIDs) = {}
      BY <3>3, <3>4, FS_EmptySet
    <3> QED
      BY <2>3, <3>5 DEF ExecuteReturns, Abstract!Return
  <2>4. ASSUME NEW id \in ID, Feed(id)
        PROVE  UNCHANGED Abstract!execVars
    BY <2>4 DEF Feed
  <2>5. ASSUME NEW w \in Worker, WorkerNext(w)
        PROVE  UNCHANGED Abstract!execVars
    BY <2>5 DEF WorkerNext, Receive, Exit, Reply, SendMetric
  <2>6. CASE CloseTasks \/ CloseResults \/ UNCHANGED vars
    BY <2>6 DEF CloseTasks, CloseResults, vars
  <2> QED
    BY <1>2, <2>1, <2>2, <2>3, <2>4, <2>5, <2>6
       DEF Next, FeederNext, CollectorNext, Terminated, Abstract!Next
<1> QED
  BY <1>1, <1>2, PoolInvariant, PTL DEF Spec, ImplementsExecutor, Abstract!Spec
=============================================================================
