----------------------------- MODULE PairingOnce -----------------------------
(***************************************************************************)
(* The invariant behind what Pairing promises of each invite: that one key *)
(* takes it, and one sirji comes to hold it.                               *)
(*                                                                         *)
(* It stands on IInv.  A peer's invite is spent when its entry is filled   *)
(* in, and found again by the identity in it, as long as no other entry    *)
(* has that identity.  A device's invite leaves no trace: it is spent      *)
(* because it is in no net any more, and no key is minted twice.           *)
(***************************************************************************)
EXTENDS PairingInvariant

Mines(n) == {n.peers[i].mine : i \in DOMAIN n.peers}

AddressKeys(n) == {n.handshake_keys[i].key : i \in DOMAIN n.handshake_keys}

DeviceInvites(n) == {n.devices[i].invite : i \in DOMAIN n.devices} \ {None}

(* A key of ours has one use, in one entry. *)
OwnApart(n) ==
    /\ DistinctMine(n)
    /\ \A i, j \in DOMAIN n.devices :
          n.devices[i].invite = n.devices[j].invite => i = j \/ n.devices[i].invite = None
    /\ Mines(n) \cap AddressKeys(n) = {}
    /\ DeviceInvites(n) \cap (Mines(n) \cup AddressKeys(n)) = {}

Own(s) == OwnKeys(mem[s]) \cup OwnKeys(disk[s])

-----------------------------------------------------------------------------
KeyFilesApart ==
    \A h, g \in Sirji \cup Device : h # g => store[h] \cap store[g] = {}

NetsApart == \A s \in Sirji : OwnApart(mem[s]) /\ OwnApart(disk[s])

(* A key minted for an `accept` is in no entry until that ends. *)
TasksApart ==
    \A c \in Running :
        /\ \A s \in Sirji : task[c].mine \notin Own(s)
        /\ \A e \in Running : task[e].mine = task[c].mine => e = c

Apart == KeyFilesApart /\ NetsApart /\ TasksApart

(* Nobody presents what was not shown. *)
GreetingsInvited ==
    \A m \in wire : m.type = "Invited" => m.invited_to \in InviteIds

-----------------------------------------------------------------------------
(* k may go by the invite i: it has it on record, or is told Ok for it.     *)
Claims(k, i) ==
    /\ i \in InviteIds
    /\ \/ \E s \in Sirji : <<k, i>> \in PairsAt(s)
       \/ <<k, i>> \in Bindings /\ \E m \in wire : m.type = "Ok" /\ m.from = k

(* The file of the one whose invite it was says so, and always will.        *)
Took(k, i) ==
    \/ \E s \in Sirji : <<i, k>> \in Pairs(disk[s])
    \/ /\ \E s \in Sirji : \E x \in DOMAIN disk[s].devices : disk[s].devices[x].keys = <<k>>
       /\ \A s \in Sirji : i \notin Own(s)

ClaimsAreTaken == \A i \in InviteIds, k \in Key : Claims(k, i) => Took(k, i)

OneClaims == \A i \in InviteIds, k, l \in Key : Claims(k, i) /\ Claims(l, i) => k = l

(* The other way round, a key takes one invite. *)
OneTaken ==
    \A s, r \in Sirji : \A x \in PairsAt(s), y \in PairsAt(r) :
        x[1] \in InviteIds /\ y[1] \in InviteIds /\ x[2] = y[2] => x[1] = y[1] \/ x[2] = None

(* Where two are peers, one of them invited the other.                      *)
PairsInvited ==
    \A s \in Sirji : \A x \in PairsAt(s) :
        x[2] # None => x[1] \in InviteIds \/ x[2] \in InviteIds

-----------------------------------------------------------------------------
(* Some file lists k as a device, or a peer, of that name. *)
Named(k, name) ==
    \E s \in Sirji :
        \/ \E i \in DOMAIN disk[s].devices :
              disk[s].devices[i].keys = <<k>> /\ disk[s].devices[i].name = name
        \/ \E i \in DOMAIN disk[s].peers :
              disk[s].peers[i].peer = k /\ disk[s].peers[i].alias = name

OkMeansNamed == \A m \in wire : m.type = "Ok" => Named(m.from, m.name)

(* With IInv, every step of Pairing keeps the conjunction.                  *)
Once ==
    /\ Apart
    /\ GreetingsInvited
    /\ ClaimsAreTaken
    /\ OneClaims
    /\ OneTaken
    /\ PairsInvited
    /\ OkMeansNamed
    /\ EnrolledImpliesKnown
=============================================================================
