---------------------------- MODULE MCJobPipeline ----------------------------
(* Small instances of JobPipeline: the fault budgets of the runs.            *)
EXTENDS JobPipeline, TLC

CONSTANTS Crashes, Evictions, DbErrors, KafkaErrors, ExecErrors, SlowJobs

Budget == [k \in FaultKinds |->
             CASE k = "crash" -> Crashes   [] k = "evict" -> Evictions
               [] k = "db"    -> DbErrors  [] k = "kafka" -> KafkaErrors
               [] k = "exec"  -> ExecErrors [] k = "slow" -> SlowJobs]

NoMalformed == {}
NewGroup == -1        \* FirstOffset of a group that never committed
JobSymmetry == Permutations(Jobs) \cup Permutations(Consumers)
=============================================================================
