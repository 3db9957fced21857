---------------------------- MODULE MCHeavyJobs ----------------------------
(* Instances of HeavyJobs.                                                   *)
EXTENDS HeavyJobs, TLC

(* A table without a sort key, and one whose two rows share a partition.     *)
OwnKeys == 1 :> "p" @@ 2 :> "q"
SharedKey == 1 :> "p" @@ 2 :> "p"
=============================================================================
