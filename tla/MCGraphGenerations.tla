------------------------ MODULE MCGraphGenerations ------------------------
(***************************************************************************)
(* Instances of GraphGenerations for TLC.                                  *)
(***************************************************************************)
EXTENDS GraphGenerations, TLC

MCLockId == (Builders \cup Workers) \X (1..KeysEach)
MCPath == 1..MaxGenerations \cup {ProviderDir}

Symmetry == Permutations(Builders) \cup Permutations(Workers)

=============================================================================
