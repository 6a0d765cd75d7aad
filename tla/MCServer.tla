------------------------------ MODULE MCServer ------------------------------
(* Requests for the server: a counter that goes up and down, a gauge (one  *)
(* of its values is the NaN that cannot be stored as JSON), a request of   *)
(* the wrong type, one without a value, and batches.                       *)
EXTENDS Server

Inc(id)    == [ID |-> id, MType |-> Counter, Val |-> 1]
Dec(id)    == [ID |-> id, MType |-> Counter, Val |-> -1]
Set1(id)   == [ID |-> id, MType |-> Gauge, Val |-> 1]
SetNaN(id) == [ID |-> id, MType |-> Gauge, Val |-> NaN]
NoVal(id)  == [ID |-> id, MType |-> Counter, Val |-> Nil]

MCID       == {1, 2}
MCSingles  == {Inc(1), Set1(1), SetNaN(2)}
MCBatches  == {<<Dec(1), Set1(2)>>, <<NoVal(1), Inc(2)>>}
MCConflict == {<<Inc(1), Set1(1)>>}
=============================================================================
