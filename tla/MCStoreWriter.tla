---------------------------- MODULE MCStoreWriter ----------------------------
(* A small instance of StoreWriter: fault budgets, and timestamps that do    *)
(* not follow the order in which the notifications are written.              *)
EXTENDS StoreWriter, TLC

CONSTANTS BusyFaults, DbFaults, n1, n2

Budget == [k \in FaultKinds |-> IF k = "busy" THEN BusyFaults ELSE DbFaults]
Stamps == (n1 :> 1) @@ (n2 :> 2)
NoteSet == {n1, n2}
=============================================================================
