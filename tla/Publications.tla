---------------------------- MODULE Publications ----------------------------
(***************************************************************************)
(* What the build process promises to everybody else: the graph link is    *)
(* swapped now and then, and update_all_packages is enqueued after a swap, *)
(* once for it or never, and possibly after later swaps.                   *)
(*                                                                         *)
(* BuildRun implements this module, and it is all that PackageJobs takes   *)
(* for granted of the builds.                                              *)
(***************************************************************************)
EXTENDS Naturals

CONSTANT MaxGraphs   \* graph builds that succeed

VARIABLES
    graphs,  \* how often the link was swapped
    sent     \* how often update_all_packages was enqueued

vars == <<graphs, sent>>

Init == graphs = 0 /\ sent = 0

Swap ==
    /\ graphs < MaxGraphs
    /\ graphs' = graphs + 1
    /\ UNCHANGED sent

Announce ==
    /\ sent < graphs
    /\ sent' = sent + 1
    /\ UNCHANGED graphs

Next == Swap \/ Announce

Spec == Init /\ [][Next]_vars
=============================================================================
