----------------------------- MODULE Admission -----------------------------
(***************************************************************************)
(* Who is let in at a device: the abstract specification that Resolution   *)
(* implements (ResolutionImplements).                                      *)
(*                                                                         *)
(* There are no addresses in it, no signatures, no questions under way and *)
(* no tickets to be handed on.  A sirji vouches for a caller, under the    *)
(* alias it has for the caller's sirji, towards one of its names, and the  *)
(* device of that name may serve this caller, and shows it by that alias,  *)
(* until LIFETIME has passed.                                              *)
(***************************************************************************)
EXTENDS Naturals

CONSTANTS Sirji, Device, Parent, Name, NameOf, Alias, Called, None, LIFETIME

VARIABLES
    vouched,    \* what sirjis have vouched for
    served,     \* who was served last, or None
    now         \* the clock

vars == <<vouched, served, now>>

Init == vouched = {} /\ served = None /\ now = 0

(* `alias` is what s calls the sirji of `caller`; None when that is s. *)
Acquainted(s, caller, alias) ==
    \/ alias = None /\ Parent[caller] = s
    \/ alias # None /\ alias = Called[s][Parent[caller]]

(* v: this sirji, for this caller, towards this name, from now on. *)
Voucher ==
    [by : Sirji, caller : Device, alias : Alias \cup {None}, name : Name, at : Nat]

Vouch(v) ==
    /\ v \in Voucher /\ v.at = now
    /\ Acquainted(v.by, v.caller, v.alias)
    /\ vouched' = vouched \cup {v}
    /\ UNCHANGED <<served, now>>

Serve(d, v) ==
    /\ v.by = Parent[d]
    /\ v.name = NameOf[d]
    /\ v.at <= now /\ now <= v.at + LIFETIME
    /\ served' = [device |-> d, caller |-> v.caller, alias |-> v.alias, at |-> now]
    /\ UNCHANGED <<vouched, now>>

Tick == now' = now + 1 /\ UNCHANGED <<vouched, served>>

Next ==
    \/ \E v \in vouched' \ vouched : Vouch(v)
    \/ \E d \in Device, v \in vouched : Serve(d, v)
    \/ Tick

Spec == Init /\ [][Next]_vars
=============================================================================
