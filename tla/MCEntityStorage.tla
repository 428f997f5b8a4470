--------------------------- MODULE MCEntityStorage ---------------------------
(* Instance of EntityStorage for TLC.  The entities are interchangeable. *)
EXTENDS EntityStorage, TLC

EntitySymmetry == Permutations(Entity)
=============================================================================
