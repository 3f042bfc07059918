------------------------------ MODULE MCPairing ------------------------------
(***************************************************************************)
(* Small instances of Pairing.  Keys that are minted are interchangeable.  *)
(***************************************************************************)
EXTENDS PairingImplements, PairingOnce, TLC

CONSTANTS a, b, ka, kb, home

MCHomeKey == [s \in Sirji |-> IF s = a THEN ka ELSE kb]

(* Only Alias, Job, Device and the keys that are minted: the others have a  *)
(* part of their own in Init.                                               *)
Interchangeable ==
    Permutations(Key \ {ka, kb}) \cup Permutations(Alias)
        \cup Permutations(Job) \cup Permutations(Device)
=============================================================================
