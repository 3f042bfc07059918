----------------------------- MODULE Invitation -----------------------------
(***************************************************************************)
(* What an invite promises, whatever carries it: the abstract              *)
(* specification that Pairing implements (PairingImplements).              *)
(*                                                                         *)
(* An invite is offered under an identity.  The inviter's file comes to    *)
(* say that a key took it, or that a key enrolled as a device; only then   *)
(* does the file of whoever has that key say that it holds the offer.      *)
(* Nothing that is on file is taken back, an offer is taken by one key and *)
(* held by one, and a key takes one offer.                                 *)
(*                                                                         *)
(* A step is one file replaced.  It may say several things at once, since  *)
(* a save also writes what earlier saves failed to write; but what it says *)
(* rests on what other files said before.                                  *)
(***************************************************************************)
CONSTANT Key

VARIABLES
    offered,    \* identities of the invites that have been shown
    taken,      \* <<identity, key>>: a peer with that key, at the inviter
    enrolled,   \* keys of devices, at the inviter
    held        \* <<identity, key>>: the same, at the one that accepted

vars == <<offered, taken, enrolled, held>>

OneToOne(pairs) ==
    \A x, y \in pairs : x[1] = y[1] \/ x[2] = y[2] => x = y

Init == offered = {} /\ taken = {} /\ enrolled = {} /\ held = {}

Kept ==
    /\ offered \subseteq offered'
    /\ taken \subseteq taken'
    /\ enrolled \subseteq enrolled'
    /\ held \subseteq held'

(* Only what was offered is taken, and by one key. *)
Takes ==
    /\ taken' \ taken \subseteq offered \X Key
    /\ OneToOne(taken')

(* Only what was taken, or led to a device, is held, and by one key. *)
Holds ==
    /\ held' \ held \subseteq taken \cup (offered \X enrolled)
    /\ OneToOne(held')

Next == Kept /\ Takes /\ Holds

Spec == Init /\ [][Next]_vars
=============================================================================
