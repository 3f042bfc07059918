------------------------ MODULE ResolutionImplements ------------------------
(***************************************************************************)
(* Resolution implements Admission: a ticket is what the sirji that signed *)
(* it has vouched for, whichever of its addresses it signed with, and      *)
(* whatever has become of that address since.                              *)
(***************************************************************************)
EXTENDS Resolution

Signer(k) == CHOOSE s \in Sirji : k \in Keys(s)

Vouched ==
    {[by |-> Signer(m.ticket.issuer), caller |-> m.ticket.caller, alias |-> m.ticket.alias,
      name |-> m.ticket.name, at |-> m.at] : m \in minted}

Served ==
    IF served = None THEN None
    ELSE [device |-> served.device, caller |-> served.caller, alias |-> served.ticket.alias,
          at |-> served.at]

Admitting == INSTANCE Admission WITH vouched <- Vouched, served <- Served

(* Who has been let in, and what may still let somebody in, depends on      *)
(* nothing but what sirjis have vouched for: addresses that are added and   *)
(* retired, devices that come and go, questions that get lost half-way and  *)
(* tickets that are handed on change nothing in it (locate, Ticket::mint,   *)
(* Ticket::verify, handle).                                                 *)
AdmissionKept == Admitting!Spec
=============================================================================
