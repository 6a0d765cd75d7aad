-------------------------- MODULE AuditWriterProofs --------------------------
(***************************************************************************)
(* Proofs about AuditWriter, for every set of handlers and every number of *)
(* events, failing writes and starts of the process.                       *)
(*                                                                         *)
(* That the file is in order needs that every event in the file and in the *)
(* buffer is an earlier one, and that the file and the buffer are read     *)
(* together, as the trail they make.  That a graceful stop flushes needs   *)
(* that no handler runs once Shutdown has returned and that only Run       *)
(* flushes as "main".                                                      *)
(***************************************************************************)
EXTENDS AuditWriter, SequenceTheorems, FiniteSetTheorems, TLAPS

(* Sequences of events, as functions of their positions.                   *)
Ascending(s) == \A i, j \in 1 .. Len(s) : i < j => s[i] < s[j]

LEMMA ToSetIs ==
  ASSUME NEW s \in Seq(Nat)
  PROVE  ToSet(s) = {s[i] : i \in 1 .. Len(s)} /\ ToSet(s) \subseteq Nat
BY DEF ToSet

LEMMA ToSetEmpty == ToSet(<< >>) = {}
BY DEF ToSet

(* The events of a trail are those of its parts.                           *)
LEMMA ToSetConcat ==
  ASSUME NEW s \in Seq(Nat), NEW t \in Seq(Nat)
  PROVE  ToSet(s \o t) = ToSet(s) \cup ToSet(t)
<1>1. /\ s \o t \in Seq(Nat) /\ Len(s \o t) = Len(s) + Len(t)
      /\ Len(s) \in Nat /\ Len(t) \in Nat
      /\ \A i \in 1 .. Len(s) + Len(t) :
           (s \o t)[i] = IF i <= Len(s) THEN s[i] ELSE t[i - Len(s)]
  BY ConcatProperties, LenProperties
<1>2. ASSUME NEW e \in ToSet(s \o t)
      PROVE  e \in ToSet(s) \cup ToSet(t)
  <2>1. PICK i \in 1 .. Len(s) + Len(t) : e = (s \o t)[i]
    BY <1>1, ToSetIs
  <2>2. CASE i <= Len(s)
    <3>1. i \in 1 .. Len(s) /\ e = s[i]
      BY <1>1, <2>1, <2>2
    <3> QED
      BY <3>1, ToSetIs
  <2>3. CASE i > Len(s)
    <3>1. i - Len(s) \in 1 .. Len(t) /\ e = t[i - Len(s)]
      BY <1>1, <2>1, <2>3
    <3> QED
      BY <3>1, ToSetIs
  <2> QED
    BY <1>1, <2>2, <2>3
<1>3. ASSUME NEW e \in ToSet(s)
      PROVE  e \in ToSet(s \o t)
  <2>1. PICK i \in 1 .. Len(s) : e = s[i]
    BY ToSetIs
  <2>2. i \in 1 .. Len(s \o t) /\ (s \o t)[i] = e
    BY <1>1, <2>1
  <2> QED
    BY <1>1, <2>2, ToSetIs
<1>4. ASSUME NEW e \in ToSet(t)
      PROVE  e \in ToSet(s \o t)
  <2>1. PICK i \in 1 .. Len(t) : e = t[i]
    BY ToSetIs
  <2>2. /\ Len(s) + i \in 1 .. Len(s) + Len(t) /\ ~ (Len(s) + i <= Len(s))
        /\ (Len(s) + i) - Len(s) = i
    BY <1>1
  <2>3. (s \o t)[Len(s) + i] = e
    BY <1>1, <2>1, <2>2
  <2> QED
    BY <1>1, <2>2, <2>3, ToSetIs
<1> QED
  BY <1>2, <1>3, <1>4

LEMMA ToSetAppend ==
  ASSUME NEW s \in Seq(Nat), NEW e \in Nat
  PROVE  ToSet(Append(s, e)) = ToSet(s) \cup {e}
<1>1. /\ Append(s, e) \in Seq(Nat) /\ Len(Append(s, e)) = Len(s) + 1 /\ Len(s) \in Nat
      /\ \A i \in 1 .. Len(s) : Append(s, e)[i] = s[i]
      /\ Append(s, e)[Len(s) + 1] = e
  BY AppendProperties, LenProperties
<1>2. 1 .. Len(s) + 1 = (1 .. Len(s)) \cup {Len(s) + 1}
  BY <1>1
<1>3. ToSet(Append(s, e)) = {Append(s, e)[i] : i \in (1 .. Len(s)) \cup {Len(s) + 1}}
  BY <1>1, <1>2, ToSetIs
<1>4. ToSet(s) = {s[i] : i \in 1 .. Len(s)}
  BY ToSetIs
<1>5. Len(s) + 1 \notin 1 .. Len(s)
  BY <1>1
<1> QED
  BY <1>1, <1>3, <1>4, <1>5

LEMMA ToSetCut ==
  ASSUME NEW s \in Seq(Nat), NEW m \in {1, 2}, NEW n \in 0 .. Len(s)
  PROVE  SubSeq(s, m, n) \in Seq(Nat) /\ ToSet(SubSeq(s, m, n)) \subseteq ToSet(s)
<1>1. Len(s) \in Nat /\ \A i \in 1 .. Len(s) : s[i] \in Nat
  BY LenProperties, ElementOfSeq
<1>2. \A i \in m .. n : s[i] \in Nat
  BY <1>1
<1>3. /\ SubSeq(s, m, n) \in Seq(Nat)
      /\ Len(SubSeq(s, m, n)) = IF m <= n THEN (n - m) + 1 ELSE 0
      /\ \A i \in 1 .. (n - m) + 1 : SubSeq(s, m, n)[i] = s[(m + i) - 1]
  BY <1>1, <1>2, SubSeqProperties
<1>4. ASSUME NEW e \in ToSet(SubSeq(s, m, n))
      PROVE  e \in ToSet(s)
  <2>1. PICK i \in 1 .. Len(SubSeq(s, m, n)) : e = SubSeq(s, m, n)[i]
    BY <1>3, ToSetIs
  <2>2. (m + i) - 1 \in 1 .. Len(s) /\ e = s[(m + i) - 1]
    BY <1>1, <1>3, <2>1
  <2> QED
    BY <2>2, ToSetIs
<1> QED
  BY <1>3, <1>4

(* A later event comes last.                                               *)
LEMMA AppendAscends ==
  ASSUME NEW s \in Seq(Nat), NEW e \in Nat, Ascending(s), \A d \in ToSet(s) : d < e
  PROVE  Ascending(Append(s, e))
<1>1. /\ Len(Append(s, e)) = Len(s) + 1 /\ Len(s) \in Nat
      /\ \A i \in 1 .. Len(s) : Append(s, e)[i] = s[i]
      /\ Append(s, e)[Len(s) + 1] = e
  BY AppendProperties, LenProperties
<1>2. \A i \in 1 .. Len(s) : s[i] < e
  BY ToSetIs
<1>3. ASSUME NEW i \in 1 .. Len(s) + 1, NEW j \in 1 .. Len(s) + 1, i < j
      PROVE  Append(s, e)[i] < Append(s, e)[j]
  <2>1. i \in 1 .. Len(s) /\ (j \in 1 .. Len(s) \/ j = Len(s) + 1)
    BY <1>1, <1>3
  <2> QED
    BY <1>1, <1>2, <1>3, <2>1 DEF Ascending
<1> QED
  BY <1>1, <1>3 DEF Ascending

(* A trail whose last part is cut short, or loses its first event, stays   *)
(* in order.                                                               *)
LEMMA CutAscends ==
  ASSUME NEW s \in Seq(Nat), NEW t \in Seq(Nat), Ascending(s \o t),
         NEW m \in {1, 2}, NEW n \in 0 .. Len(t)
  PROVE  Ascending(s \o SubSeq(t, m, n))
<1> DEFINE u == SubSeq(t, m, n)
<1>1. /\ Len(s) \in Nat /\ Len(t) \in Nat /\ Len(s \o t) = Len(s) + Len(t)
      /\ \A i \in 1 .. Len(s) + Len(t) :
           (s \o t)[i] = IF i <= Len(s) THEN s[i] ELSE t[i - Len(s)]
  BY ConcatProperties, LenProperties
<1>2. /\ u \in Seq(Nat) /\ Len(u) = IF m <= n THEN (n - m) + 1 ELSE 0
      /\ \A i \in 1 .. (n - m) + 1 : u[i] = t[(m + i) - 1]
  <2>1. \A i \in m .. n : t[i] \in Nat
    BY <1>1, ElementOfSeq
  <2> QED
    BY <1>1, <2>1, SubSeqProperties
<1> HIDE DEF u
<1>3. /\ Len(u) \in Nat /\ Len(s \o u) = Len(s) + Len(u)
      /\ \A i \in 1 .. Len(s) + Len(u) :
           (s \o u)[i] = IF i <= Len(s) THEN s[i] ELSE u[i - Len(s)]
  BY <1>2, ConcatProperties, LenProperties
<1> DEFINE at(i) == IF i <= Len(s) THEN i ELSE (i + m) - 1
<1>4. ASSUME NEW i \in 1 .. Len(s) + Len(u)
      PROVE  at(i) \in 1 .. Len(s) + Len(t) /\ (s \o u)[i] = (s \o t)[at(i)]
  <2>1. CASE i <= Len(s)
    BY <1>1, <1>3, <2>1
  <2>2. CASE i > Len(s)
    <3>1. /\ i - Len(s) \in 1 .. (n - m) + 1 /\ at(i) \in 1 .. Len(s) + Len(t)
          /\ ~ (at(i) <= Len(s)) /\ at(i) - Len(s) = (m + (i - Len(s))) - 1
      <4>1. at(i) = (i + m) - 1
        <5>1. i \in Int /\ Len(s) \in Nat
          BY <1>1, <1>3
        <5> QED
          BY <2>2, <5>1
      <4>2. Len(u) = (n - m) + 1 /\ m \in Nat /\ m >= 1 /\ n \in Nat /\ n <= Len(t)
        <5>1. Len(s) \in Nat /\ Len(t) \in Nat /\ Len(u) \in Nat
          BY <1>1, <1>3
        <5>2. m \in Nat /\ m >= 1 /\ n \in Nat /\ n <= Len(t) /\ Len(u) > 0
          BY <2>2, <5>1
        <5> QED
          BY <1>2, <5>2
      <4> HIDE DEF at
      <4> QED
        BY <1>1, <1>3, <2>2, <4>1, <4>2
    <3>2. (s \o u)[i] = t[(m + (i - Len(s))) - 1]
      BY <1>1, <1>2, <1>3, <2>2, <3>1
    <3> HIDE DEF at
    <3>3. (s \o t)[at(i)] = t[at(i) - Len(s)]
      BY <1>1, <3>1
    <3> QED
      BY <3>1, <3>2, <3>3
  <2> QED
    BY <1>1, <2>1, <2>2
<1>5. ASSUME NEW i \in 1 .. Len(s) + Len(u), NEW j \in 1 .. Len(s) + Len(u), i < j
      PROVE  at(i) < at(j)
  BY <1>1, <1>3, <1>5
<1> HIDE DEF at
<1>6. ASSUME NEW i \in 1 .. Len(s) + Len(u), NEW j \in 1 .. Len(s) + Len(u), i < j
      PROVE  (s \o u)[i] < (s \o u)[j]
  BY <1>1, <1>4, <1>5, <1>6 DEF Ascending
<1> QED
  BY <1>3, <1>6 DEF Ascending, u

-----------------------------------------------------------------------------
(* The handlers that may still put an event into the buffer.               *)
Auditing == {g \in Handler : hpc[g] \in {"storage", "file"}}

(* The trail, in order and complete.                                       *)
TrailOK ==
  /\ buf \in Seq(Nat) /\ file \in Seq(Nat)
  /\ Ascending(file \o buf)
  /\ EventsAreAccountedFor

ControlOK ==
  /\ mutex \in {Nobody, "ticker", "main"}
  /\ tick \in BOOLEAN /\ torn \in BOOLEAN
  /\ hpc \in [Handler -> {"idle", "storage", "file", "http"}]
  /\ phase \in {"down", "serving", "shutdown", "closing", "flushing", "closed"}
  /\ stopped \in {"never", "graceful", "timeout", "crash"}
  /\ faults \in 0 .. FaultLimit /\ starts \in 0 .. StartLimit

(* Every event that is still to come has its place below EventLimit.       *)
LimitOK == events \in Nat /\ events + Cardinality(Auditing) <= EventLimit

(* After Shutdown no handler is left; only Run flushes as "main"; when it  *)
(* has, the buffer stays empty.                                            *)
StopOK ==
  /\ phase \in {"closing", "flushing", "closed", "down"} =>
       \A h \in Handler : hpc[h] = "idle"
  /\ phase \in {"closed", "down"} => buf = << >>
  /\ mutex = "main" => phase = "flushing"

AuditInv == TrailOK /\ ControlOK /\ LimitOK /\ StopOK

(* A sequence whose events are all of S.                                   *)
LEMMA SeqOfItsEvents ==
  ASSUME NEW S, NEW s \in Seq(Nat), ToSet(s) \subseteq S
  PROVE  s \in Seq(S)
<1>1. Len(s) \in Nat /\ s \in [1 .. Len(s) -> Nat]
  BY LenProperties
<1>2. \A i \in 1 .. Len(s) : s[i] \in S
  BY ToSetIs
<1>3. s \in [1 .. Len(s) -> S]
  BY <1>1, <1>2
<1> QED
  BY <1>1, <1>3, SeqDef

(* The invariant implies the properties.                                   *)
LEMMA AuditInvImplies == AuditInv => TypeOK /\ AuditIsInOrder /\ EventsAreAccountedFor
<1> SUFFICES ASSUME AuditInv PROVE TypeOK /\ AuditIsInOrder /\ EventsAreAccountedFor
  OBVIOUS
<1>1. 1 .. events = ToSet(file) \cup ToSet(buf) \cup dropped \cup unflushed
  BY DEF AuditInv, TrailOK, EventsAreAccountedFor
<1>2. buf \in Seq(1 .. events) /\ file \in Seq(1 .. events)
  BY <1>1, SeqOfItsEvents DEF AuditInv, TrailOK
<1>3. events \in 0 .. EventLimit
  <2>1. IsFiniteSet(Auditing)
    BY AuditAssumption, FS_Subset DEF Auditing
  <2>2. Cardinality(Auditing) \in Nat
    BY <2>1, FS_CardinalityType
  <2> QED
    BY <2>2, AuditAssumption DEF AuditInv, LimitOK
<1>4. dropped \subseteq 1 .. events /\ unflushed \subseteq 1 .. events
  BY <1>1
<1>5. TypeOK
  BY <1>2, <1>3, <1>4 DEF AuditInv, ControlOK, TypeOK
<1>6. AuditIsInOrder
  <2>1. file \o buf \in Seq(Nat)
    BY ConcatProperties DEF AuditInv, TrailOK
  <2>2. DOMAIN (file \o buf) = 1 .. Len(file \o buf)
    BY <2>1, LenProperties
  <2> QED
    BY <2>2 DEF AuditInv, TrailOK, Ascending, AuditIsInOrder
<1> QED
  BY <1>5, <1>6 DEF AuditInv, TrailOK

LEMMA InitHolds == Init => AuditInv
<1> SUFFICES ASSUME Init PROVE AuditInv
  OBVIOUS
<1>1. << >> \in Seq(Nat) /\ << >> \o << >> = << >> /\ Len(<< >>) = 0
  BY EmptySeq, ConcatEmptySeq
<1>2. TrailOK
  <2>1. Ascending(file \o buf)
    BY <1>1 DEF Init, Ascending
  <2>2. EventsAreAccountedFor
    BY ToSetEmpty DEF Init, EventsAreAccountedFor
  <2> QED
    BY <1>1, <2>1, <2>2 DEF Init, TrailOK
<1>3. ControlOK
  <2>1. 0 \in 0 .. FaultLimit /\ 0 \in 0 .. StartLimit
    BY AuditAssumption
  <2> QED
    BY <2>1 DEF Init, ControlOK
<1>4. LimitOK
  <2>1. Auditing = {}
    BY DEF Init, Auditing
  <2> QED
    BY <2>1, FS_EmptySet, AuditAssumption DEF Init, LimitOK
<1>5. StopOK
  BY AuditAssumption DEF Init, StopOK
<1> QED
  BY <1>2, <1>3, <1>4, <1>5 DEF AuditInv

-----------------------------------------------------------------------------
(* A step that leaves the file, the buffer and the losses alone.           *)
LEMMA TrailKept ==
  ASSUME TrailOK, UNCHANGED <<buf, file, events, dropped, unflushed>>
  PROVE  TrailOK'
BY DEF TrailOK, EventsAreAccountedFor

(* A step after which no more handlers are auditing than before.           *)
LEMMA LimitKept ==
  ASSUME LimitOK, UNCHANGED events, Auditing' \subseteq Auditing
  PROVE  LimitOK'
<1>1. IsFiniteSet(Auditing)
  BY AuditAssumption, FS_Subset DEF Auditing
<1>2. Cardinality(Auditing) \in Nat
  BY <1>1, FS_CardinalityType
<1>3. PICK A \in SUBSET Auditing : A = Auditing'
  OBVIOUS
<1>4. Cardinality(A) \in Nat /\ Cardinality(A) <= Cardinality(Auditing)
  BY <1>1, FS_Subset, FS_CardinalityType
<1>5. events + Cardinality(A) <= EventLimit
  BY <1>2, <1>4, AuditAssumption DEF LimitOK
<1> QED
  BY <1>3, <1>5 DEF LimitOK

(* n whole lines of the buffer get to the file, perhaps behind a torn one. *)
(* The lines that do not get there are accounted for as dropped.           *)
LEMMA WrittenKeeps ==
  ASSUME TrailOK, torn \in BOOLEAN, NEW n \in 0 .. Len(buf), NEW partOfLine \in BOOLEAN,
         Written(n, partOfLine), UNCHANGED <<events, unflushed>>
  PROVE  TrailOK' /\ torn' \in BOOLEAN /\ buf' = << >>
<1>1. buf \in Seq(Nat) /\ file \in Seq(Nat) /\ Len(buf) \in Nat
  BY LenProperties DEF TrailOK
<1>2. PICK m \in {1, 2} : m = IF torn THEN 2 ELSE 1
  OBVIOUS
<1> DEFINE kept == SubSeq(buf, m, n)
<1>3. /\ file' = file \o kept /\ buf' = << >>
      /\ dropped' = dropped \cup (ToSet(buf) \ ToSet(kept))
  BY <1>2 DEF Written, Readable
<1>4. kept \in Seq(Nat) /\ ToSet(kept) \subseteq ToSet(buf)
  BY <1>1, ToSetCut
<1>5. Ascending(file \o kept)
  BY <1>1, CutAscends DEF TrailOK
<1> HIDE DEF kept
<1>6. file \o kept \in Seq(Nat) /\ ToSet(file \o kept) = ToSet(file) \cup ToSet(kept)
  BY <1>1, <1>4, ConcatProperties, ToSetConcat
<1>7. (file \o kept) \o << >> = file \o kept /\ << >> \in Seq(Nat)
  BY <1>6, ConcatEmptySeq, EmptySeq
<1>8. Ascending(file' \o buf')
  BY <1>3, <1>5, <1>7
<1>9. EventsAreAccountedFor'
  <2>1. ToSet(file') = ToSet(file) \cup ToSet(kept) /\ ToSet(buf') = {}
    BY <1>3, <1>6, ToSetEmpty
  <2> QED
    BY <1>3, <1>4, <2>1 DEF TrailOK, EventsAreAccountedFor
<1>10. torn' \in BOOLEAN
  BY DEF Written
<1> QED
  BY <1>3, <1>6, <1>7, <1>8, <1>9, <1>10 DEF TrailOK

(* The file or the buffer is written out by s: Written, with the whole     *)
(* buffer or, if the write fails, with less of it.                         *)
LEMMA FlushWritesKeeps ==
  ASSUME AuditInv, NEW s, FlushWrites(s), OnlyWriter
  PROVE  /\ TrailOK' /\ torn' \in BOOLEAN /\ buf' = << >>
         /\ faults' \in 0 .. FaultLimit /\ mutex' = Nobody
<1>1. TrailOK /\ torn \in BOOLEAN /\ Len(buf) \in Nat
  BY LenProperties DEF AuditInv, TrailOK, ControlOK
<1>2. UNCHANGED <<events, unflushed>> /\ mutex' = Nobody
  BY DEF OnlyWriter, FlushWrites
<1>3. faults' \in 0 .. FaultLimit
  <2>1. faults \in 0 .. FaultLimit
    BY DEF AuditInv, ControlOK
  <2>2. faults' = faults \/ (faults < FaultLimit /\ faults' = faults + 1)
    BY DEF FlushWrites
  <2> QED
    BY <2>1, <2>2, AuditAssumption
<1>4. PICK n \in 0 .. Len(buf), partOfLine \in BOOLEAN : Written(n, partOfLine)
  <2>1. CASE Written(Len(buf), FALSE)
    <3>1. Len(buf) \in 0 .. Len(buf) /\ FALSE \in BOOLEAN
      BY <1>1
    <3> QED
      BY <2>1, <3>1, Zenon
  <2>2. CASE \E n \in 0 .. Len(buf) - 1, partOfLine \in BOOLEAN : Written(n, partOfLine)
    <3>1. \A n \in 0 .. Len(buf) - 1 : n \in 0 .. Len(buf)
      BY <1>1
    <3> QED
      BY <2>2, <3>1
  <2> QED
    BY <2>1, <2>2 DEF FlushWrites
<1> QED
  BY <1>1, <1>2, <1>3, <1>4, WrittenKeeps

(* The handlers' steps.                                                    *)
LEMMA HandlerStep ==
  ASSUME AuditInv, NEW h \in Handler, Update(h) \/ HandlerNext(h)
  PROVE  AuditInv'
<1>1. TrailOK /\ ControlOK /\ LimitOK /\ StopOK
  BY DEF AuditInv
<1>2. ControlOK' /\ StopOK'
  <2>1. \E from \in {"idle", "storage", "file", "http"}, to \in {"idle", "storage", "file", "http"} :
          hpc[h] = from /\ hpc' = [hpc EXCEPT ![h] = to]
    BY DEF Update, HandlerNext, StorageReturns, OnMetricsUpdate, PostReturns, Goes
  <2>2. hpc' \in [Handler -> {"idle", "storage", "file", "http"}]
    BY <1>1, <2>1 DEF ControlOK
  <2>3. phase \notin {"closing", "flushing", "closed", "down"}
    BY <1>1 DEF StopOK, Update, HandlerNext, StorageReturns, OnMetricsUpdate, PostReturns, Goes
  <2>4. UNCHANGED <<mutex, tick, torn, phase, stopped, faults, starts>>
    BY DEF Update, HandlerNext, StorageReturns, OnMetricsUpdate, PostReturns
  <2> QED
    BY <1>1, <2>2, <2>3, <2>4 DEF ControlOK, StopOK
<1>3. IsFiniteSet(Auditing) /\ Cardinality(Auditing) \in Nat
  <2>1. IsFiniteSet(Auditing)
    BY AuditAssumption, FS_Subset DEF Auditing
  <2> QED
    BY <2>1, FS_CardinalityType
<1>4. CASE Update(h)
  <2>1. TrailOK'
    BY <1>1, <1>4, TrailKept DEF Update
  <2>2. Auditing' = Auditing \cup {h} /\ h \notin Auditing
    BY <1>1, <1>4 DEF Update, Goes, Auditing, ControlOK
  <2>3. PICK A : A = Auditing'
    OBVIOUS
  <2>4. Cardinality(A) = Cardinality(Auditing) + 1
    BY <1>3, <2>2, <2>3, FS_AddElement
  <2>5. events' = events /\ events + Cardinality(Auditing) < EventLimit
    BY <1>4 DEF Update, Auditing
  <2>6. events + Cardinality(A) <= EventLimit
    BY <1>1, <1>3, <2>4, <2>5, AuditAssumption DEF LimitOK
  <2>7. LimitOK'
    BY <1>1, <2>3, <2>5, <2>6 DEF LimitOK
  <2> QED
    BY <1>2, <2>1, <2>7 DEF AuditInv
<1>5. CASE StorageReturns(h) \/ PostReturns(h)
  <2>1. TrailOK'
    BY <1>1, <1>5, TrailKept DEF StorageReturns, PostReturns
  <2>2. Auditing' \subseteq Auditing /\ events' = events
    BY <1>1, <1>5 DEF StorageReturns, PostReturns, Goes, Auditing, ControlOK
  <2>3. LimitOK'
    BY <1>1, <2>2, LimitKept
  <2> QED
    BY <1>2, <2>1, <2>3 DEF AuditInv
<1>6. CASE OnMetricsUpdate(h)
  <2>1. /\ events' = events + 1 /\ buf' = Append(buf, events + 1)
        /\ UNCHANGED <<file, dropped, unflushed>>
    BY <1>6 DEF OnMetricsUpdate
  <2>2. buf \in Seq(Nat) /\ file \in Seq(Nat) /\ events \in Nat
    BY <1>1 DEF TrailOK, LimitOK
  <2>3. PICK e \in Nat : e = events + 1
    BY <2>2
  <2>4. buf' = Append(buf, e) /\ buf' \in Seq(Nat)
    BY <2>1, <2>2, <2>3, AppendProperties
  <2>5. file \o buf \in Seq(Nat) /\ ToSet(file \o buf) = ToSet(file) \cup ToSet(buf)
    BY <2>2, ConcatProperties, ToSetConcat
  <2>6. file \o Append(buf, e) = Append(file \o buf, e)
    BY <2>2, AppendIsConcat, ConcatAssociative, ConcatProperties
  <2>7. ToSet(file \o buf) \subseteq 1 .. events
    BY <1>1, <2>5 DEF TrailOK, EventsAreAccountedFor
  <2>8. Ascending(file \o buf')
    <3>1. \A d \in ToSet(file \o buf) : d < e
      BY <2>2, <2>3, <2>7
    <3> QED
      BY <1>1, <2>4, <2>5, <2>6, <3>1, AppendAscends DEF TrailOK
  <2>9. EventsAreAccountedFor'
    <3>1. ToSet(buf') = ToSet(buf) \cup {e}
      BY <2>2, <2>4, ToSetAppend
    <3>2. 1 .. events' = (1 .. events) \cup {e}
      BY <2>1, <2>2, <2>3
    <3> QED
      BY <1>1, <2>1, <3>1, <3>2 DEF TrailOK, EventsAreAccountedFor
  <2>10. TrailOK'
    BY <2>1, <2>2, <2>4, <2>8, <2>9 DEF TrailOK
  <2>11. LimitOK'
    <3>1. Auditing' = Auditing \ {h} /\ h \in Auditing
      BY <1>1, <1>6 DEF OnMetricsUpdate, Goes, Auditing, ControlOK
    <3>2. PICK A : A = Auditing'
      OBVIOUS
    <3>3. Cardinality(A) = Cardinality(Auditing) - 1
      BY <1>3, <3>1, <3>2, FS_RemoveElement
    <3>4. events + Cardinality(Auditing) <= EventLimit
      BY <1>1 DEF LimitOK
    <3>5. e + Cardinality(A) <= EventLimit
      BY <1>3, <2>2, <2>3, <3>3, <3>4
    <3> QED
      BY <2>1, <2>3, <3>2, <3>5 DEF LimitOK
  <2> QED
    BY <1>2, <2>10, <2>11 DEF AuditInv
<1> QED
  BY <1>4, <1>5, <1>6 DEF HandlerNext

(* The steps of the ticker and of Run.                                     *)
LEMMA WriterStep ==
  ASSUME AuditInv,
         TimerFires \/ LoopNext \/ Signal \/ ShutdownReturns \/ CloseFlushes \/ CloseWrites
  PROVE  AuditInv'
<1>1. TrailOK /\ ControlOK /\ LimitOK /\ StopOK
  BY DEF AuditInv
<1>2. OnlyWriter /\ UNCHANGED <<hpc, events>>
  BY DEF TimerFires, LoopNext, LoopReceives, LoopWrites, Signal, ShutdownReturns,
         CloseFlushes, CloseWrites, OnlyWriter
<1>3. LimitOK'
  BY <1>1, <1>2, LimitKept DEF Auditing
<1>4. CASE TimerFires \/ LoopReceives \/ Signal \/ ShutdownReturns \/ CloseFlushes
  <2>1. UNCHANGED <<buf, file, torn, dropped, faults, unflushed, stopped, starts>>
    BY <1>2, <1>4 DEF TimerFires, LoopReceives, Signal, ShutdownReturns, CloseFlushes, OnlyWriter
  <2>2. TrailOK'
    BY <1>1, <1>2, <2>1, TrailKept
  <2>3. ControlOK'
    BY <1>1, <1>2, <1>4, <2>1
    DEF ControlOK, TimerFires, LoopReceives, Signal, ShutdownReturns, CloseFlushes, FlushBegins
  <2>4. StopOK'
    BY <1>1, <1>2, <1>4, <2>1, AuditAssumption
    DEF StopOK, TimerFires, LoopReceives, Signal, ShutdownReturns, CloseFlushes, FlushBegins
  <2> QED
    BY <1>3, <2>2, <2>3, <2>4 DEF AuditInv
<1>5. CASE LoopWrites \/ CloseWrites
  <2>1. PICK s \in {"ticker", "main"} : FlushWrites(s)
    BY <1>5 DEF LoopWrites, CloseWrites
  <2>2. /\ TrailOK' /\ torn' \in BOOLEAN /\ buf' = << >>
        /\ faults' \in 0 .. FaultLimit /\ mutex' = Nobody
    BY <1>2, <2>1, FlushWritesKeeps
  <2>3. /\ UNCHANGED <<tick, stopped, starts>>
        /\ phase' = phase \/ (mutex = "main" /\ phase' = "closed")
    BY <1>2, <1>5 DEF LoopWrites, CloseWrites, OnlyWriter, FlushWrites
  <2>4. ControlOK'
    BY <1>1, <1>2, <2>2, <2>3 DEF ControlOK
  <2>5. StopOK'
    BY <1>1, <1>2, <2>2, <2>3, AuditAssumption DEF StopOK
  <2> QED
    BY <1>3, <2>2, <2>4, <2>5 DEF AuditInv
<1> QED
  BY <1>4, <1>5 DEF LoopNext

(* The process starts and ends.                                            *)
LEMMA ProcessStep ==
  ASSUME AuditInv, Start \/ RunReturns \/ ShutdownTimesOut \/ Crash
  PROVE  AuditInv'
<1>1. TrailOK /\ ControlOK /\ LimitOK /\ StopOK
  BY DEF AuditInv
<1>2. CASE Start
  <2>1. TrailOK'
    BY <1>1, <1>2, TrailKept DEF Start
  <2>2. LimitOK'
    BY <1>1, <1>2, LimitKept DEF Start, Auditing
  <2>3. starts' \in 0 .. StartLimit
    BY <1>1, <1>2, AuditAssumption DEF Start, ControlOK
  <2>4. ControlOK' /\ StopOK'
    BY <1>1, <1>2, <2>3, AuditAssumption DEF Start, ControlOK, StopOK
  <2> QED
    BY <2>1, <2>2, <2>4 DEF AuditInv
<1>3. ASSUME NEW how \in {"graceful", "timeout", "crash"}, Ends(how),
             TrailOK', torn' \in BOOLEAN, buf' = << >>
      PROVE  AuditInv'
  <2>1. /\ phase' = "down" /\ mutex' = Nobody /\ tick' = FALSE /\ stopped' = how
        /\ hpc' = [h \in Handler |-> "idle"] /\ UNCHANGED <<events, faults, starts>>
    BY <1>3 DEF Ends
  <2>2. LimitOK'
    BY <1>1, <2>1, LimitKept DEF Auditing
  <2>3. ControlOK' /\ StopOK'
    BY <1>1, <1>3, <2>1, AuditAssumption DEF ControlOK, StopOK
  <2> QED
    BY <1>3, <2>2, <2>3 DEF AuditInv
<1>4. ASSUME LeavesBuffer, UNCHANGED events
      PROVE  TrailOK' /\ torn' \in BOOLEAN /\ buf' = << >>
  <2>1. /\ buf' = << >> /\ unflushed' = unflushed \cup ToSet(buf)
        /\ UNCHANGED <<file, torn, dropped>>
    BY <1>4 DEF LeavesBuffer
  <2>2. << >> \in Seq(Nat) /\ file \o << >> = file
    BY <1>1, EmptySeq, ConcatEmptySeq DEF TrailOK
  <2>3. Ascending(file \o << >>)
    <3>1. SubSeq(buf, 1, 0) = << >>
      BY SubSeqEmpty
    <3>2. 0 \in 0 .. Len(buf)
      BY <1>1, LenProperties DEF TrailOK
    <3>3. Ascending(file \o SubSeq(buf, 1, 0))
      BY <1>1, <3>2, CutAscends DEF TrailOK
    <3> QED
      BY <3>1, <3>3
  <2>4. EventsAreAccountedFor'
    BY <1>1, <1>4, <2>1, ToSetEmpty DEF TrailOK, EventsAreAccountedFor
  <2> QED
    BY <1>1, <2>1, <2>2, <2>3, <2>4 DEF TrailOK, ControlOK
<1>5. CASE RunReturns \/ ShutdownTimesOut
  <2>1. PICK how \in {"graceful", "timeout"} : Ends(how)
    BY <1>5 DEF RunReturns, ShutdownTimesOut
  <2>2. LeavesBuffer /\ UNCHANGED events
    BY <1>5, <2>1 DEF RunReturns, ShutdownTimesOut, Ends
  <2> QED
    BY <1>3, <1>4, <2>1, <2>2
<1>6. CASE Crash
  <2>1. Ends("crash") /\ UNCHANGED events
    BY <1>6 DEF Crash, Ends
  <2>2. CASE LeavesBuffer
    BY <1>3, <1>4, <2>1, <2>2
  <2>3. CASE ~ LeavesBuffer
    <3>1. PICK n \in 0 .. Len(buf), partOfLine \in BOOLEAN : Written(n, partOfLine)
      BY <1>6, <2>3 DEF Crash
    <3>2. UNCHANGED unflushed
      BY <1>6, <2>3 DEF Crash
    <3> QED
      BY <1>1, <1>3, <2>1, <3>1, <3>2, WrittenKeeps DEF ControlOK
  <2> QED
    BY <2>2, <2>3
<1> QED
  BY <1>2, <1>5, <1>6

LEMMA NextKeeps == AuditInv /\ [Next]_vars => AuditInv'
<1> SUFFICES ASSUME AuditInv, [Next]_vars PROVE AuditInv'
  OBVIOUS
<1>1. CASE UNCHANGED vars
  BY <1>1 DEF vars, AuditInv, TrailOK, EventsAreAccountedFor, ControlOK, LimitOK, Auditing, StopOK
<1>2. CASE Terminated
  BY <1>1, <1>2 DEF Terminated
<1> QED
  BY <1>1, <1>2, HandlerStep, WriterStep, ProcessStep DEF Next, MainNext

-----------------------------------------------------------------------------
THEOREM AuditInvariant == Spec => []AuditInv
<1> QED
  BY InitHolds, NextKeeps, PTL DEF Spec

(* Every variable keeps its type.                                          *)
THEOREM TypeCorrect == Spec => []TypeOK
<1> QED
  BY AuditInvariant, AuditInvImplies, PTL

(* The audit file, over all processes that wrote it, is in the order of    *)
(* the updates and has none twice (FileWriter.OnMetricsUpdate, flush).     *)
THEOREM AuditStaysInOrder == Spec => []AuditIsInOrder
<1> QED
  BY AuditInvariant, AuditInvImplies, PTL

(* No interleaving of handlers, ticker and Close loses an event: it is in  *)
(* the file or in the buffer, or a failed write or the end of a process    *)
(* took it.                                                                *)
THEOREM NoEventIsLost == Spec => []EventsAreAccountedFor
<1> QED
  BY AuditInvariant, AuditInvImplies, PTL

(* Close writes what the last handlers put into the buffer: a graceful     *)
(* stop leaves nothing unflushed.                                          *)
THEOREM CloseFlushesAll == Spec => GracefulStopFlushes
<1>1. AuditInv /\ [Next]_vars =>
        [phase # "down" /\ phase' = "down" /\ stopped' = "graceful"
           => unflushed' = unflushed]_vars
  <2> SUFFICES ASSUME AuditInv, Next, phase # "down", phase' = "down", stopped' = "graceful"
               PROVE  unflushed' = unflushed
    OBVIOUS
  <2>1. RunReturns
    BY DEF Next, Start, Update, HandlerNext, StorageReturns, OnMetricsUpdate, PostReturns,
           TimerFires, LoopNext, LoopReceives, LoopWrites, Signal, MainNext, ShutdownReturns,
           CloseFlushes, CloseWrites, ShutdownTimesOut, Crash, Ends, Terminated
  <2>2. buf = << >>
    BY <2>1 DEF AuditInv, StopOK, RunReturns
  <2> QED
    BY <2>1, <2>2, ToSetEmpty DEF RunReturns, LeavesBuffer
<1> QED
  BY <1>1, AuditInvariant, PTL DEF Spec, GracefulStopFlushes
=============================================================================
