-------------------------- MODULE PairingInvariant --------------------------
(***************************************************************************)
(* The inductive invariant behind the safety properties of Pairing.        *)
(*                                                                         *)
(* That an accepted entry is mirrored at the inviter is true because the   *)
(* inviter saves before it answers; but to see that every step keeps it    *)
(* so, one has to know that a dialling key stands for one invite only,     *)
(* that the file never holds anything the memory of a running daemon has   *)
(* lost, and that filling in "the entry with the alias of the pending one" *)
(* fills in the pending one, even while two entries share an alias.        *)
(***************************************************************************)
EXTENDS Pairing

(* The relationships of a net, as <<our identity, theirs>>. *)
Pairs(n) == {<<n.peers[i].mine, n.peers[i].peer>> : i \in DOMAIN n.peers}

(* The keys a net names that are ours. *)
OwnKeys(n) ==
         {n.handshake_keys[i].key : i \in DOMAIN n.handshake_keys}
    \cup {n.peers[i].mine : i \in DOMAIN n.peers}
    \cup ({n.devices[i].invite : i \in DOMAIN n.devices} \ {None})

(* q has what n has: entries stay where they are, under their alias and our *)
(* identity, and those that are filled in stay as they are filled in.       *)
Grows(n, q) ==
    /\ DOMAIN n.peers \subseteq DOMAIN q.peers
    /\ \A i \in DOMAIN n.peers :
        /\ q.peers[i].alias = n.peers[i].alias
        /\ q.peers[i].mine = n.peers[i].mine
        /\ n.peers[i].peer # None => q.peers[i].peer = n.peers[i].peer
    /\ DOMAIN n.devices \subseteq DOMAIN q.devices
    /\ \A i \in DOMAIN n.devices :
        /\ q.devices[i].name = n.devices[i].name
        /\ n.devices[i].keys # << >> => q.devices[i].keys = n.devices[i].keys

(* Only an invite makes a pending entry, and only under an alias no other   *)
(* entry has: entries that come to share the alias come later.              *)
PendingFirst(n) ==
    \A i, j \in DOMAIN n.peers :
        PeerPending(n.peers[i]) /\ n.peers[j].alias = n.peers[i].alias => i <= j

-----------------------------------------------------------------------------
(* <<k, i>>: k was minted to accept the invite i. *)
Bindings ==
         {<<m.from, m.invited_to>> : m \in {m \in wire : m.type = "Invited"}}
    \cup {<<task[c].mine, task[c].invite.identity>> : c \in Running}

Known(k) == \E h \in Sirji \cup Device : k \in store[h]

PairsAt(s) == Pairs(mem[s]) \cup Pairs(disk[s])

PendingsFirst == \A s \in Sirji : PendingFirst(mem[s]) /\ PendingFirst(disk[s])

JobsAtSirjis ==
    \A c \in Job \cap Running :
        task[c].at \in Sirji /\ up[task[c].at] /\ task[c].alias \in Alias

(* What the rest of the invariant can take for granted. *)
Shape == TypeOK /\ PendingsFirst /\ JobsAtSirjis

(* A running daemon has all that its file has. *)
MemoryHasDisk == \A s \in Sirji : up[s] => Grows(disk[s], mem[s])

(* No key turns up anywhere before some home has minted it. *)
KeysKnown ==
    /\ \A invite \in invites : Known(invite.identity)
    /\ \A m \in wire : Known(m.from)
    /\ \A c \in Running : Known(task[c].mine) /\ task[c].invite \in invites
    /\ \A s \in Sirji : \A x \in PairsAt(s) : x[2] = None \/ Known(x[2])

(* What KeyBeforeEntry says, and of keys a command has only just minted. *)
OwnKeysStored ==
    /\ \A s \in Sirji : OwnKeys(mem[s]) \cup OwnKeys(disk[s]) \subseteq store[s]
    /\ \A c \in Running : task[c].mine \in store[task[c].at]

(* A key minted to accept an invite stands for that invite only, and is     *)
(* not itself the identity of one.                                          *)
OneInviteAKey ==
    /\ \A x, y \in Bindings : x[1] = y[1] => x[2] = y[2]
    /\ \A x \in Bindings : x[1] \notin InviteIds
    /\ \A x \in Bindings : \A s \in Sirji : \A y \in PairsAt(s) : y[2] = x[1] => y[1] = x[2]

(* Whoever is told Ok is on file. *)
OkMeansSaved ==
    \A m \in wire : m.type = "Ok" =>
        \A x \in Bindings : x[1] = m.from => \E r \in Sirji : Holds(r, x[2], x[1])

(* AcceptedImpliesMirrored, of pairs wherever they are listed.              *)
PairsMirrored ==
    \A s \in Sirji : \A x \in PairsAt(s) :
        x[2] \in InviteIds => \E r \in Sirji : Holds(r, x[2], x[1])

(* The inductive invariant: every step of Pairing keeps the conjunction.    *)
IInv ==
    /\ Shape
    /\ MemoryHasDisk
    /\ KeysKnown
    /\ OwnKeysStored
    /\ OneInviteAKey
    /\ OkMeansSaved
    /\ PairsMirrored

-----------------------------------------------------------------------------
(* What OneAtATime adds. *)

(* What Daemon::start asks of a file and IInv does not say. *)
Acceptable(n) ==
    /\ DistinctAliases(n)
    /\ DistinctNames(n)
    /\ ReachedOnOurs(n)
    /\ n.handshake_keys # << >>

(* A greeting arrives under an alias that is in memory. *)
BoundListed ==
    \A s \in Sirji : \A on \in bound[s] : handshake_key_by_alias(mem[s], on.alias) # {}

(* The alias an `accept` is to push is still free when it pushes. *)
AliasesReserved ==
    \A c \in Job \cap Running :
        /\ ~Knows(task[c].at, task[c].alias)
        /\ \A e \in Job \cap Running :
              task[e].at = task[c].at /\ task[e].alias = task[c].alias => e = c

(* With IInv, and Apart of PairingOnce, this is kept by every step.         *)
Restarts ==
    OneAtATime =>
        /\ \A s \in Sirji : Acceptable(mem[s]) /\ Acceptable(disk[s])
        /\ BoundListed
        /\ AliasesReserved
=============================================================================
