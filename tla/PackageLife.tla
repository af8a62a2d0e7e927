----------------------------- MODULE PackageLife -----------------------------
(***************************************************************************)
(* What a client of the packager can count on: the status a job may take   *)
(* next, and when a package counts as made.  There is no directory here,   *)
(* no queue, no worker and no crash; PackageJobs implements this module    *)
(* where one worker runs.                                                  *)
(*                                                                         *)
(* A job is a POST of a name, the k-th.  The jobs of a name share one      *)
(* package, the one on disk.                                               *)
(***************************************************************************)
EXTENDS Naturals

CONSTANTS
    Names,          \* provider and name of a package
    PostsPerName,   \* how often a name is posted
    MaxGraphs       \* graph builds that succeed

VARIABLES
    state,  \* job -> where it is in its life
    from,   \* name -> the graph its package was last written from, 0 for none
    made,   \* the jobs that made a package which nobody reported yet
    graph   \* the graph that is current

vars == <<state, from, made, graph>>

Jobs == Names \X (1 .. PostsPerName)
NameOf(j) == j[1]

Stored == {"Queued", "Compressing", "Completed", "Failed"}
Sharing(j) == {i \in Jobs : NameOf(i) = NameOf(j)}

Init ==
    /\ state = [j \in Jobs |-> "unborn"]
    /\ from = [n \in Names |-> 0] /\ made = {}
    /\ graph = 0

Becomes(j, s) == state' = [state EXCEPT ![j] = s]

(* Jobs are born in the order of their numbers, or refused.                 *)
Post(j) ==
    /\ state[j] = "unborn"
    /\ \A i \in Sharing(j) : i[2] < j[2] <=> state[i] # "unborn"
    /\ \E s \in {"Queued", "gone"} : Becomes(j, s)
    /\ UNCHANGED <<from, made, graph>>

(* A job is deleted in whatever state it is, and never comes back.          *)
Delete(j) ==
    /\ state[j] \in Stored
    /\ Becomes(j, "gone")
    /\ UNCHANGED <<from, made, graph>>

(* A create and every later update of a job set it to work again.           *)
Start(j) ==
    /\ state[j] \in Stored
    /\ Becomes(j, "Compressing")
    /\ UNCHANGED <<from, made, graph>>

AtWork(j) == state[j] \in {"Compressing", "gone"}

(* A package is written by a job that is at work or was deleted meanwhile,  *)
(* from a graph no older than the last one, and not over a package that is  *)
(* about to be reported.                                                    *)
Write(j, g) ==
    /\ AtWork(j) /\ made \cap Sharing(j) = {}
    /\ g \in 1 .. graph /\ from[NameOf(j)] <= g
    /\ from' = [from EXCEPT ![NameOf(j)] = g]
    /\ UNCHANGED <<state, made, graph>>

Make(j) ==
    /\ AtWork(j) /\ made = {} /\ from[NameOf(j)] > 0
    /\ made' = {j}
    /\ UNCHANGED <<state, from, graph>>

(* Completed is said of a package that was made, Failed of none.            *)
Complete(j) ==
    /\ state[j] = "Compressing" /\ j \in made
    /\ Becomes(j, "Completed")
    /\ made' = made \ {j}
    /\ UNCHANGED <<from, graph>>

Fail(j) ==
    /\ state[j] = "Compressing" /\ j \notin made
    /\ Becomes(j, "Failed")
    /\ UNCHANGED <<from, made, graph>>

(* The row was deleted, or the worker was killed, before it was said.       *)
Forget(j) ==
    /\ j \in made
    /\ made' = made \ {j}
    /\ UNCHANGED <<state, from, graph>>

Publish ==
    /\ graph < MaxGraphs
    /\ graph' = graph + 1
    /\ UNCHANGED <<state, from, made>>

Next ==
    \/ \E j \in Jobs :
         \/ Post(j) \/ Delete(j) \/ Start(j)
         \/ \E g \in 1 .. graph : Write(j, g)
         \/ Make(j) \/ Complete(j) \/ Fail(j) \/ Forget(j)
    \/ Publish

Spec == Init /\ [][Next]_vars
=============================================================================
