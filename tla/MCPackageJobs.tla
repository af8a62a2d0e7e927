---------------------------- MODULE MCPackageJobs ----------------------------
(* A name, two requests at a time and one worker, as the compose files      *)
(* deploy it.                                                               *)
EXTENDS PackageJobs, TLC

RequestsAreAlike == Permutations(Requests)

(* Two builds where nothing fails, and one where something does.            *)
FewBuildsAndFaults == graph + faults <= 2
=============================================================================
