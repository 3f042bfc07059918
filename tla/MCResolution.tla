---------------------------- MODULE MCResolution ----------------------------
(* A small instance of Resolution: two sirjis that know one another by the  *)
(* same alias, one with two devices and one with one; the first device of   *)
(* each has the same name.                                                  *)
EXTENDS ResolutionImplements, TLC

CONSTANTS r, s, kr, ks, d, e, f, laptop, nas, friend

MCParent == d :> r @@ e :> r @@ f :> s

MCNameOf == d :> laptop @@ e :> nas @@ f :> laptop

MCCalled == r :> (r :> None @@ s :> friend) @@ s :> (r :> friend @@ s :> None)

MCHomeKey == r :> kr @@ s :> ks
=============================================================================
