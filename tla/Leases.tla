------------------------------- MODULE Leases -------------------------------
(***************************************************************************)
(* What graph_locks is for, without its rows: leases on directories, of    *)
(* which two on one directory are both shared.  A lease is taken by one    *)
(* process at a time and ends, by its holder or by the clock, any number   *)
(* of them at once.  Nobody waits here, nothing is reaped and no time      *)
(* passes.                                                                 *)
(*                                                                         *)
(* GraphLocks implements this module with a clock and GraphGenerations     *)
(* without one, so that what the builders and the workers are promised is  *)
(* what the polling under the clock provides.                              *)
(***************************************************************************)
CONSTANTS
  LockId,   \* what a lease is known by
  Path      \* the directories

VARIABLE leases   \* those that run

Lease == [id : LockId, path : Path, mode : {"shared", "exclusive"}]

Init == leases = {}

Admits(l) ==
  \A k \in leases :
    /\ k.id # l.id
    /\ k.path = l.path => k.mode = "shared" /\ l.mode = "shared"

Take(l) ==
  /\ Admits(l)
  /\ leases' = leases \cup {l}

End(S) == leases' = leases \ S

Next ==
  \/ \E l \in Lease : Take(l)
  \/ \E S \in SUBSET leases : End(S)

Spec == Init /\ [][Next]_leases

=============================================================================
