----------------------------- MODULE MCTelemetry -----------------------------
(***************************************************************************)
(* Small instances of Telemetry and of TelemetryPartitions for TLC.  The   *)
(* two share no table column and no process state: the partition job sees  *)
(* readings by their month only, the other consumers never see partitions. *)
(* One run therefore checks them side by side, `moving` choosing in the    *)
(* initial state which of them moves; no step of one is a step of both.    *)
(***************************************************************************)
EXTENDS Telemetry, TelemetryPartitions

\* A dry hot reading, and a wet one exactly at the temperature threshold.
MCMeasurements == {[moisture |-> 1, temperature |-> 9], [moisture |-> 4, temperature |-> 6]}

VARIABLE moving

MCvars == <<moving, vars, partitionsVars>>

MCInit == moving \in {"readings", "partitions"} /\ Init /\ PartitionsInit

MCNext ==
    \/ moving = "readings" /\ Next /\ UNCHANGED <<moving, partitionsVars>>
    \/ moving = "partitions" /\ PartitionsNext /\ UNCHANGED <<moving, vars>>

\* FairSpec and PartitionsFairSpec, each asked of the part that moves.
MCFairSpec ==
    /\ MCInit /\ [][MCNext]_MCvars
    /\ \A i \in Ingesters : WF_vars(moving = "readings" /\ IngestStep(i))
    /\ \A j \in SilenceJobs : WF_vars(moving = "readings" /\ JobStep(j))
    /\ WF_vars(moving = "readings" /\ Project)
    /\ WF_partitionsVars(moving = "partitions" /\ RunOnce)
    /\ WF_partitionsVars(moving = "partitions" /\ Restart)
    /\ WF_partitionsVars(moving = "partitions" /\ NextMonth)
=============================================================================
