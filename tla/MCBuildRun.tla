------------------------------ MODULE MCBuildRun ------------------------------
(* One builder on the schedule and one an external scheduler starts, for    *)
(* the same provider.                                                       *)
EXTENDS BuildRun
=============================================================================
