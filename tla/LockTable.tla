----------------------------- MODULE LockTable -----------------------------
(***************************************************************************)
(* The graph_locks table and the statements lock_utils.py runs against it. *)
(*                                                                         *)
(* A row is a lease on a path: it is live while some of its time to live   *)
(* is left and expired afterwards.  An expired row stays in the table      *)
(* until the next acquisition of anything reaps it, but it blocks nobody.  *)
(*                                                                         *)
(* The table is a function from row ids, the primary key, so that the      *)
(* DELETE of a release names a row and never a path.  The operators below  *)
(* are shared by every module in which somebody takes a lock.              *)
(***************************************************************************)
EXTENDS Integers

CONSTANTS
  LockId,   \* the primary keys a row can get
  Path,     \* the directories that can be locked
  NoRow     \* what an unused primary key maps to

LockMode == {"shared", "exclusive"}

(* left is the time until expires_at, 0 once the lease has expired. *)
LockRow == [path : Path, mode : LockMode, left : Nat]

ASSUME NoRowAssumption == NoRow \notin LockRow

LockTables == [LockId -> LockRow \cup {NoRow}]

EmptyTable == [i \in LockId |-> NoRow]

(* Mutation: expires_at is never looked at. *)
EverLive(t, i) == t[i] # NoRow

Live(t, i) == t[i] # NoRow /\ t[i].left > 0

(* DELETE ... WHERE expires_at <= now: what every attempt runs first. *)
Reap(t) == [i \in LockId |-> IF Live(t, i) THEN t[i] ELSE NoRow]

(* Mutation: an exclusive lock only looks for shared holders. *)
SharedConflicts(t, p, m) ==
  { i \in LockId : /\ Live(t, i)
                   /\ t[i].path = p
                   /\ t[i].mode # m }

(* The live rows that keep a lock on path p from being granted in mode m. *)
Conflicts(t, p, m) ==
  { i \in LockId : /\ Live(t, i)
                   /\ t[i].path = p
                   /\ m = "shared" => t[i].mode = "exclusive" }

Grantable(t, p, m) == Conflicts(t, p, m) = {}

(* The transaction of an attempt that finds no conflict, and the one of an *)
(* attempt that does: both commit the reaping.                             *)
Granted(t, i, p, m, ttl) ==
  [Reap(t) EXCEPT ![i] = [path |-> p, mode |-> m, left |-> ttl]]

Denied(t) == Reap(t)

Released(t, i) == [t EXCEPT ![i] = NoRow]

(* Rows of these ids were never given out or have been deleted. *)
Unused(t) == { i \in LockId : t[i] = NoRow }

(* The leases the table stands for: module Leases, which everybody who     *)
(* uses the table implements with it.                                      *)
LeasesOf(t) ==
  { [id |-> i, path |-> t[i].path, mode |-> t[i].mode] : i \in { j \in LockId : Live(t, j) } }

(* Two live rows on one path are both shared. *)
Compatible(t) ==
  \A i, j \in LockId :
    /\ i # j
    /\ Live(t, i)
    /\ Live(t, j)
    /\ t[i].path = t[j].path
    => t[i].mode = "shared" /\ t[j].mode = "shared"

=============================================================================
