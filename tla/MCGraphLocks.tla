--------------------------- MODULE MCGraphLocks ---------------------------
(***************************************************************************)
(* An instance of GraphLocks for TLC.                                      *)
(***************************************************************************)
EXTENDS GraphLocks

MCLockId == Clients \X (1..KeysEach)

=============================================================================
