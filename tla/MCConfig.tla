------------------------------ MODULE MCConfig ------------------------------
(* The setting the help text gives zero a meaning for, with its default.   *)
EXTENDS Config

CONSTANT StoreIntervalSec

MCSetting == {StoreIntervalSec}
MCValue   == {-1, 0, 1}
MCDefault == [s \in Setting |-> 300]
=============================================================================
