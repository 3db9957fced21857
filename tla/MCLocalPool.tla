----------------------------- MODULE MCLocalPool -----------------------------
(* Small instances of LocalPool: the fault budgets of the runs.              *)
EXTENDS LocalPool, TLC

CONSTANTS Crashes, Stops, DbErrors, ExecErrors, SlowJobs

Budget == [k \in FaultKinds |->
             CASE k = "crash" -> Crashes  [] k = "stop" -> Stops
               [] k = "db"    -> DbErrors [] k = "exec" -> ExecErrors
               [] k = "slow"  -> SlowJobs]
PoolSymmetry == Permutations(Jobs) \cup Permutations(Workers)
=============================================================================
