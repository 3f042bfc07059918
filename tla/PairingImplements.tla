------------------------- MODULE PairingImplements -------------------------
(***************************************************************************)
(* Pairing implements Invitation.  Only network.toml counts: what a crash  *)
(* loses was never promised.                                               *)
(***************************************************************************)
EXTENDS PairingInvariant

DiskPairs == UNION {Pairs(disk[s]) : s \in Sirji}

(* The inviter's side of what it has shown, and has on file. *)
Taken == {x \in DiskPairs : x[1] \in InviteIds /\ x[2] # None}

Enrolled ==
    UNION {UNION {Range(disk[s].devices[i].keys) : i \in DOMAIN disk[s].devices} : s \in Sirji}

(* The other's: our identity and theirs the other way round. *)
Held == {<<x[2], x[1]>> : x \in {x \in DiskPairs : x[2] \in InviteIds}}

Invites == INSTANCE Invitation WITH
    offered <- InviteIds, taken <- Taken, enrolled <- Enrolled, held <- Held

(* An invite is taken by one key, which the inviter has on file before its  *)
(* owner has, and neither file ever takes it back (greet_inner, accept).    *)
InvitationKept == Invites!Spec
=============================================================================
