----------------------------- MODULE MCRotation -----------------------------
(* Small instances of Rotation.  The default address has a part in Init.    *)
EXTENDS Rotation, TLC

Interchangeable == Permutations(Contact) \cup Permutations(Spot \ {Default})
=============================================================================
