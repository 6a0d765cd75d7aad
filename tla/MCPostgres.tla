----------------------------- MODULE MCPostgres -----------------------------
(* Two metrics; batches that lock them in opposite orders, take from one   *)
(* of them, give one of them another type with a delta beside its value,   *)
(* and carry a counter without a delta.                                    *)
EXTENDS Postgres

MCID == {1, 2}

C(id, delta) == [ID |-> id, MType |-> Counter, Delta |-> delta, Value |-> Nil]
G(id, delta, value) == [ID |-> id, MType |-> Gauge, Delta |-> delta, Value |-> value]

MCSingles == {C(1, -1), G(1, Nil, 2)}
MCBatches == {<<C(1, 1), C(2, 1)>>, <<C(2, -1), C(1, 1)>>, <<G(1, 1, 1), C(2, Nil)>>}
=============================================================================
