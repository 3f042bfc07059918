------------------------- MODULE PairingOnceProofs -------------------------
(***************************************************************************)
(* That Once is inductive beside IInv, and what follows: an identity has   *)
(* one use, an invite admits one, a device with a config is on somebody's  *)
(* list, and Pairing implements Invitation.                                *)
(*                                                                         *)
(* Three layers, as in PairingProofs.  First, that each handler leaves the *)
(* keys of a net apart.  Then Apart, for all homes and tasks.  Then the    *)
(* claims on invites, seen as what a step adds (OnceKept).                 *)
(***************************************************************************)
EXTENDS PairingImplements, PairingOnce, PairingProofs

-----------------------------------------------------------------------------
(* What each handler makes of the keys of a net. *)

(* The keys that are ours, by their use. *)
LEMMA OwnKeysByUse ==
    \A n : OwnKeys(n) = AddressKeys(n) \cup Mines(n) \cup DeviceInvites(n)
BY DEF OwnKeys, AddressKeys, Mines, DeviceInvites

(* A key that is pushed as an address, and is new, is apart. *)
LEMMA AddressApart ==
    ASSUME NEW n \in Network, OwnApart(n), NEW hk \in HandshakeKey, hk.key \notin OwnKeys(n),
           NEW q, q = [n EXCEPT !.handshake_keys = Append(@, hk)]
    PROVE  OwnApart(q)
<1>1. /\ q.devices = n.devices /\ q.peers = n.peers
      /\ Len(n.handshake_keys) \in Nat
      /\ DOMAIN n.handshake_keys = 1 .. Len(n.handshake_keys)
      /\ DOMAIN q.handshake_keys = 1 .. Len(n.handshake_keys) + 1
      /\ \A i \in DOMAIN n.handshake_keys : q.handshake_keys[i] = n.handshake_keys[i]
      /\ q.handshake_keys[Len(n.handshake_keys) + 1] = hk
  BY PushedAddress
<1>2. \A i \in DOMAIN q.handshake_keys :
        i \in DOMAIN n.handshake_keys \/ i = Len(n.handshake_keys) + 1
  BY <1>1
<1>3. AddressKeys(q) \subseteq AddressKeys(n) \cup {hk.key}
  BY <1>1, <1>2 DEF AddressKeys
<1>4. Mines(q) = Mines(n) /\ DeviceInvites(q) = DeviceInvites(n)
  BY <1>1 DEF Mines, DeviceInvites
<1>5. hk.key \notin Mines(n) /\ hk.key \notin DeviceInvites(n)
  BY OwnKeysByUse
<1>. QED BY <1>1, <1>3, <1>4, <1>5 DEF OwnApart, DistinctMine

(* So is one that is pushed as the `mine` of an entry. *)
LEMMA PeerApart ==
    ASSUME NEW n \in Network, OwnApart(n), NEW p \in Peer, p.mine \notin OwnKeys(n),
           NEW q, q = [n EXCEPT !.peers = Append(@, p)]
    PROVE  OwnApart(q)
<1>. DEFINE last == Len(n.peers) + 1
<1>1. /\ q.devices = n.devices /\ q.handshake_keys = n.handshake_keys
      /\ Len(n.peers) \in Nat
      /\ DOMAIN n.peers = 1 .. Len(n.peers)
      /\ DOMAIN q.peers = 1 .. last
      /\ \A i \in DOMAIN n.peers : q.peers[i] = n.peers[i]
      /\ q.peers[last] = p
  BY PushedPeer
<1>2. \A i \in DOMAIN q.peers : i \in DOMAIN n.peers \/ i = last
  BY <1>1
<1>. HIDE DEF last
<1>3. Mines(q) \subseteq Mines(n) \cup {p.mine}
  BY <1>1, <1>2 DEF Mines
<1>4. AddressKeys(q) = AddressKeys(n) /\ DeviceInvites(q) = DeviceInvites(n)
  BY <1>1 DEF AddressKeys, DeviceInvites
<1>5. p.mine \notin Mines(n)
  BY OwnKeysByUse
<1>6. DistinctMine(q)
  BY <1>1, <1>2, <1>5 DEF DistinctMine, OwnApart, Mines
<1>7. p.mine \notin AddressKeys(n) /\ p.mine \notin DeviceInvites(n)
  BY OwnKeysByUse
<1>8. Mines(q) \cap AddressKeys(q) = {}
  BY <1>3, <1>4, <1>7 DEF OwnApart
<1>9. DeviceInvites(q) \cap (Mines(q) \cup AddressKeys(q)) = {}
  BY <1>3, <1>4, <1>7 DEF OwnApart
<1>10. \A i, j \in DOMAIN q.devices :
         q.devices[i].invite = q.devices[j].invite => i = j \/ q.devices[i].invite = None
  <2>1. q.devices = n.devices
    BY <1>1
  <2>. QED BY <2>1 DEF OwnApart
<1>. QED BY <1>6, <1>8, <1>9, <1>10 DEF OwnApart

(* And one that is pushed as the invite of a device. *)
LEMMA DeviceApart ==
    ASSUME NEW n \in Network, OwnApart(n), NEW d \in DeviceEntry, d.invite \notin OwnKeys(n),
           NEW q, q = [n EXCEPT !.devices = Append(@, d)]
    PROVE  OwnApart(q)
<1>. DEFINE last == Len(n.devices) + 1
<1>1. /\ q.peers = n.peers /\ q.handshake_keys = n.handshake_keys
      /\ Len(n.devices) \in Nat
      /\ DOMAIN n.devices = 1 .. Len(n.devices)
      /\ DOMAIN q.devices = 1 .. last
      /\ \A i \in DOMAIN n.devices : q.devices[i] = n.devices[i]
      /\ q.devices[last] = d
  BY PushedDevice
<1>2. \A i \in DOMAIN q.devices : i \in DOMAIN n.devices \/ i = last
  BY <1>1
<1>. HIDE DEF last
<1>3. DeviceInvites(q) \subseteq DeviceInvites(n) \cup {d.invite}
  BY <1>1, <1>2 DEF DeviceInvites
<1>4. AddressKeys(q) = AddressKeys(n) /\ Mines(q) = Mines(n)
  BY <1>1 DEF AddressKeys, Mines
<1>5. d.invite = None \/ \A i \in DOMAIN n.devices : n.devices[i].invite # d.invite
  BY OwnKeysByUse DEF DeviceInvites
<1>6. \A i, j \in DOMAIN q.devices :
        q.devices[i].invite = q.devices[j].invite => i = j \/ q.devices[i].invite = None
  BY <1>1, <1>2, <1>5 DEF OwnApart
<1>. QED BY <1>1, <1>3, <1>4, <1>6, OwnKeysByUse DEF OwnApart, DistinctMine

(* An entry that is rewritten is the only one that changes. *)
LEMMA RewrittenPeer ==
    ASSUME NEW n \in Network, NEW j \in DOMAIN n.peers, NEW p \in Peer,
           NEW q, q = [n EXCEPT !.peers[j] = p]
    PROVE  /\ q.handshake_keys = n.handshake_keys
           /\ q.devices = n.devices
           /\ DOMAIN q.peers = DOMAIN n.peers
           /\ \A i \in DOMAIN n.peers : i # j => q.peers[i] = n.peers[i]
           /\ q.peers[j] = p
<1>1. n.peers \in Seq(Peer)
  BY DEF Network
<1>. QED BY <1>1 DEF Network

(* Rewriting an entry under the same `mine` leaves the keys as they were.   *)
LEMMA RewrittenApart ==
    ASSUME NEW n \in Network, OwnApart(n), NEW j \in DOMAIN n.peers, NEW p \in Peer,
           p.mine = n.peers[j].mine,
           NEW q, q = [n EXCEPT !.peers[j] = p]
    PROVE  OwnApart(q)
<1>1. /\ q.handshake_keys = n.handshake_keys /\ q.devices = n.devices
      /\ DOMAIN q.peers = DOMAIN n.peers
      /\ \A i \in DOMAIN n.peers : q.peers[i].mine = n.peers[i].mine
  BY RewrittenPeer
<1>2. /\ Mines(q) = Mines(n) /\ AddressKeys(q) = AddressKeys(n)
      /\ DeviceInvites(q) = DeviceInvites(n)
  BY <1>1 DEF Mines, AddressKeys, DeviceInvites
<1>. QED BY <1>1, <1>2 DEF OwnApart, DistinctMine

(* A device that is enrolled has spent its invite. *)
LEMMA EnrolledApart ==
    ASSUME NEW n \in Network, OwnApart(n), NEW j \in DOMAIN n.devices,
           NEW d \in DeviceEntry, d.invite = None,
           NEW q, q = [n EXCEPT !.devices[j] = d]
    PROVE  /\ OwnApart(q)
           /\ n.devices[j].invite # None => n.devices[j].invite \notin OwnKeys(q)
<1>0. n.devices \in Seq(DeviceEntry)
  BY DEF Network
<1>1. /\ q.handshake_keys = n.handshake_keys /\ q.peers = n.peers
      /\ DOMAIN q.devices = DOMAIN n.devices
      /\ \A i \in DOMAIN n.devices : i # j => q.devices[i] = n.devices[i]
      /\ q.devices[j] = d
  BY <1>0 DEF Network
<1>2. Mines(q) = Mines(n) /\ AddressKeys(q) = AddressKeys(n)
  BY <1>1 DEF Mines, AddressKeys
<1>3. DeviceInvites(q) \subseteq DeviceInvites(n) \ {n.devices[j].invite}
  BY <1>1 DEF DeviceInvites, OwnApart
<1>4. \A i, k \in DOMAIN q.devices :
        q.devices[i].invite = q.devices[k].invite => i = k \/ q.devices[i].invite = None
  BY <1>1 DEF OwnApart
<1>5. OwnApart(q)
  BY <1>1, <1>2, <1>3, <1>4 DEF OwnApart, DistinctMine
<1>6. n.devices[j].invite # None => n.devices[j].invite \in DeviceInvites(n)
  BY DEF DeviceInvites
<1>. QED BY <1>2, <1>3, <1>5, <1>6, OwnKeysByUse DEF OwnApart

-----------------------------------------------------------------------------
(* The same of the handlers: what they leave in memory. *)

(* `sirji address new`. *)
LEMMA NewAddressApart ==
    ASSUME TypeOK, NEW s \in Sirji, OwnApart(mem[s]), NEW spot \in Spot, NEW k \in Key,
           k \notin OwnKeys(mem[s]), NEW saved \in BOOLEAN, NewAddress(s, spot, k, saved)
    PROVE  OwnApart(mem'[s])
<1>. DEFINE hk == [alias |-> spot, key |-> k, retired |-> FALSE]
            q == [mem[s] EXCEPT !.handshake_keys = Append(@, hk)]
<1>1. hk \in HandshakeKey /\ hk.key = k
  BY DEF HandshakeKey
<1>2. mem[s] \in Network /\ mem'[s] = q
  BY SaveWrote DEF NewAddress, Wrote, TypeOK
<1>. HIDE DEF hk
<1>. QED BY <1>1, <1>2, AddressApart

(* `sirji invite`. *)
LEMMA InvitePeerApart ==
    ASSUME TypeOK, NEW s \in Sirji, OwnApart(mem[s]), NEW alias \in Alias, NEW k \in Key,
           k \notin OwnKeys(mem[s]), NEW saved \in BOOLEAN, InvitePeer(s, alias, k, saved)
    PROVE  OwnApart(mem'[s])
<1>. DEFINE p == [alias |-> alias, peer |-> None, mine |-> k, addresses |-> {},
                  reached_on |-> None]
            q == [mem[s] EXCEPT !.peers = Append(@, p)]
<1>1. p \in Peer /\ p.mine = k
  BY DEF Peer
<1>2. mem[s] \in Network /\ mem'[s] = q
  BY SaveWrote DEF InvitePeer, Wrote, TypeOK
<1>. HIDE DEF p
<1>. QED BY <1>1, <1>2, PeerApart

(* `sirji device invite`. *)
LEMMA InviteDeviceApart ==
    ASSUME TypeOK, NEW s \in Sirji, OwnApart(mem[s]), NEW name \in Name, NEW k \in Key,
           k \notin OwnKeys(mem[s]), NEW saved \in BOOLEAN, InviteDevice(s, name, k, saved)
    PROVE  OwnApart(mem'[s])
<1>. DEFINE d == [name |-> name, keys |-> << >>, invite |-> k]
            q == [mem[s] EXCEPT !.devices = Append(@, d)]
<1>1. d \in DeviceEntry /\ d.invite = k
  BY EmptySeq DEF DeviceEntry
<1>2. mem[s] \in Network /\ mem'[s] = q
  BY SaveWrote DEF InviteDevice, Wrote, TypeOK
<1>. HIDE DEF d
<1>. QED BY <1>1, <1>2, DeviceApart

(* A greeting of a known key. *)
LEMMA GreetKnownApart ==
    ASSUME TypeOK, NEW s \in Sirji, OwnApart(mem[s]), NEW m \in wire, NEW on \in bound[s],
           NEW saved \in BOOLEAN, GreetKnown(s, m, on, saved)
    PROVE  OwnApart(mem'[s])
<1>1. PICK j \in DOMAIN mem[s].peers :
        save(s, [mem[s] EXCEPT !.peers[j] = [@ EXCEPT !.reached_on = on.alias]], saved)
  BY DEF GreetKnown
<1>. DEFINE p == [mem[s].peers[j] EXCEPT !.reached_on = on.alias]
            q == [mem[s] EXCEPT !.peers[j] = p]
<1>2. mem[s] \in Network /\ on.alias \in Spot
  BY DEF TypeOK, HandshakeKey
<1>3. p \in Peer /\ p.mine = mem[s].peers[j].mine
  BY <1>2, Entries DEF Peer
<1>4. mem'[s] = q
  BY <1>1, SaveWrote DEF Wrote, TypeOK
<1>. HIDE DEF p
<1>. QED BY <1>2, <1>3, <1>4, RewrittenApart

(* The enrolment of a device; its invite is gone. *)
LEMMA GreetInvitedDeviceApart ==
    ASSUME TypeOK, NEW s \in Sirji, OwnApart(mem[s]), NEW m \in wire, NEW on \in bound[s],
           NEW saved \in BOOLEAN, GreetInvitedDevice(s, m, on, saved)
    PROVE  /\ OwnApart(mem'[s])
           /\ m.invited_to \in DeviceInvites(mem[s])
           /\ m.invited_to \notin OwnKeys(mem'[s])
<1>1. PICK j \in DOMAIN mem[s].devices :
        /\ mem[s].devices[j].invite = m.invited_to
        /\ check_and_save(s, [mem[s] EXCEPT !.devices[j] =
                              [@ EXCEPT !.keys = <<m.from>>, !.invite = None]], saved)
  BY DEF GreetInvitedDevice, IsFirst, pending_device_by_invite
<1>. DEFINE d == [mem[s].devices[j] EXCEPT !.keys = <<m.from>>, !.invite = None]
            q == [mem[s] EXCEPT !.devices[j] = d]
<1>2. mem[s] \in Network /\ m.from \in Key
  BY DEF TypeOK, Hello, Welcome
<1>3. d \in DeviceEntry /\ d.invite = None
  <2>1. <<m.from>> \in Seq(Key)
    BY <1>2
  <2>. QED BY <1>2, <2>1, Entries DEF DeviceEntry
<1>4. mem'[s] = q
  BY <1>1, SaveWrote DEF Wrote, TypeOK
<1>5. m.invited_to # None
  BY NoneIsNoValue DEF TypeOK, GreetInvitedDevice, Hello, Welcome
<1>6. m.invited_to \in DeviceInvites(mem[s])
  BY <1>1, <1>5 DEF DeviceInvites
<1>. HIDE DEF d
<1>. QED BY <1>1, <1>2, <1>3, <1>4, <1>5, <1>6, EnrolledApart

(* The acceptance of a peer's invite. *)
LEMMA GreetInvitedPeerApart ==
    ASSUME TypeOK, NEW s \in Sirji, OwnApart(mem[s]), NEW m \in wire, NEW on \in bound[s],
           NEW saved \in BOOLEAN, GreetInvitedPeer(s, m, on, saved)
    PROVE  OwnApart(mem'[s])
<1>1. PICK j \in DOMAIN mem[s].peers :
        check_and_save(s, [mem[s] EXCEPT !.peers[j] =
                             [@ EXCEPT !.peer = m.from, !.addresses = m.addresses,
                                       !.reached_on = on.alias]], saved)
  BY DEF GreetInvitedPeer
<1>. DEFINE p == [mem[s].peers[j] EXCEPT !.peer = m.from, !.addresses = m.addresses,
                                         !.reached_on = on.alias]
            q == [mem[s] EXCEPT !.peers[j] = p]
<1>2. mem[s] \in Network /\ on.alias \in Spot /\ m.from \in Key
  BY DEF TypeOK, HandshakeKey, Hello, Welcome
<1>3. m.addresses \in SUBSET Key
  BY DEF GreetInvitedPeer, TypeOK, Hello, Welcome
<1>4. p \in Peer /\ p.mine = mem[s].peers[j].mine
  <2>1. mem[s].peers[j] \in Peer
    BY <1>2, Entries
  <2>. QED BY <1>2, <1>3, <2>1 DEF Peer
<1>5. mem'[s] = q
  BY <1>1, SaveWrote DEF Wrote, TypeOK
<1>. HIDE DEF p
<1>. QED BY <1>2, <1>4, <1>5, RewrittenApart

(* The end of an `accept`. *)
LEMMA AcceptEndsApart ==
    ASSUME TypeOK, NEW c \in Caller, NEW s \in Sirji, s = task[c].at, OwnApart(mem[s]),
           task[c].mine \notin OwnKeys(mem[s]), task[c].alias \in Alias,
           NEW m \in wire, NEW saved \in BOOLEAN, AcceptEnds(c, m, saved)
    PROVE  OwnApart(mem'[s])
<1>. DEFINE p == [alias |-> task[c].alias, peer |-> task[c].invite.identity,
                  mine |-> task[c].mine, addresses |-> m.addresses, reached_on |-> None]
            q == [mem[s] EXCEPT !.peers = Append(@, p)]
<1>1. task[c] \in Task /\ m \in Hello \cup Welcome /\ m.type = "Ok"
  BY DEF TypeOK, AcceptEnds, Reads, Running
<1>2. m.addresses \in SUBSET Key
  BY <1>1 DEF Hello, Welcome
<1>3. p \in Peer /\ p.mine = task[c].mine
  BY <1>1, <1>2 DEF Peer, Task, Invite
<1>4. mem[s] \in Network /\ mem'[s] = q
  BY SaveWrote DEF AcceptEnds, Wrote, TypeOK
<1>. HIDE DEF p
<1>. QED BY <1>3, <1>4, PeerApart

-----------------------------------------------------------------------------
(* Apart, of all homes. *)

(* No key is two sirjis'. *)
LEMMA HomesApart ==
    ASSUME IInv, KeyFilesApart, NEW s \in Sirji, NEW r \in Sirji, NEW k, k \in Own(s), k \in Own(r)
    PROVE  s = r
BY DEF IInv, OwnKeysStored, Own, KeyFilesApart

(* What is ours has been minted. *)
LEMMA OwnKnown ==
    ASSUME IInv, NEW s \in Sirji, NEW k, k \in Own(s)
    PROVE  Known(k)
BY DEF IInv, OwnKeysStored, Own, Known

(* A key that is generated is in one home only. *)
LEMMA GeneratedApart ==
    ASSUME TypeOK, KeyFilesApart, NEW h \in Sirji \cup Device, NEW k \in Key, generate(h, k)
    PROVE  KeyFilesApart'
BY DEF TypeOK, KeyFilesApart, generate, Fresh

(* What a handler that writes leaves of the keys. *)
LEMMA WroteApart ==
    ASSUME TypeOK, NetsApart, NEW s \in Sirji, NEW q, NEW saved \in BOOLEAN,
           NEW new, NEW minted, Evolves(mem[s], q, new, minted), Wrote(s, q, saved),
           OwnApart(mem'[s])
    PROVE  /\ NetsApart'
           /\ \A r \in Sirji : Own(r)' \subseteq Own(r) \cup minted
           /\ \A r \in Sirji : r # s => Own(r)' = Own(r)
           /\ \A r \in Sirji : PairsAt(r)' \subseteq PairsAt(r) \cup new
<1>1. /\ mem'[s] = q
      /\ disk'[s] = q \/ disk'[s] = disk[s]
      /\ \A r \in Sirji : r # s => mem'[r] = mem[r] /\ disk'[r] = disk[r]
  BY DEF Wrote, TypeOK
<1>2. NetsApart'
  BY <1>1 DEF NetsApart
<1>3. OwnKeys(q) \subseteq OwnKeys(mem[s]) \cup minted
  BY DEF Evolves
<1>4. \A r \in Sirji : PairsAt(r)' \subseteq PairsAt(r) \cup new
  BY <1>1 DEF PairsAt, Evolves
<1>. QED BY <1>1, <1>2, <1>3, <1>4 DEF Own

(* A step that mints nothing, and adds no key of ours to a net. *)
LEMMA CalmApart ==
    ASSUME Apart, UNCHANGED store, NetsApart',
           \A r \in Sirji : Own(r)' \subseteq Own(r),
           \A c \in Running' : c \in Running /\ task'[c].mine = task[c].mine
    PROVE  Apart'
<1>1. KeyFilesApart'
  BY DEF Apart, KeyFilesApart
<1>2. TasksApart'
  BY DEF Apart, TasksApart
<1>. QED BY <1>1, <1>2 DEF Apart

(* A command that mints a key and pushes an entry for it. *)
LEMMA MintApart ==
    ASSUME IInv, Apart, NEW s \in Sirji, NEW k \in Key, generate(s, k),
           NetsApart', \A r \in Sirji : Own(r)' \subseteq Own(r) \cup {k},
           UNCHANGED task
    PROVE  Apart'
<1>1. KeyFilesApart'
  BY GeneratedApart DEF IInv, Shape, Apart
<1>2. ~Known(k)
  BY FreshUnknown DEF generate
<1>3. \A c \in Running : task[c].mine # k
  BY <1>2 DEF IInv, KeysKnown
<1>4. TasksApart'
  BY <1>3 DEF Apart, TasksApart, Running
<1>. QED BY <1>1, <1>4 DEF Apart

(* An `accept` or an `init` that begins. *)
LEMMA BeginApart ==
    ASSUME IInv, Apart, NEW c \in Caller, NEW h \in Sirji \cup Device, NEW k \in Key,
           generate(h, k), NEW t \in Task, task[c] = None, task' = [task EXCEPT ![c] = t],
           t.mine = k, UNCHANGED <<mem, disk>>
    PROVE  Apart'
<1>1. KeyFilesApart'
  BY GeneratedApart DEF IInv, Shape, Apart
<1>2. ~Known(k)
  BY FreshUnknown DEF generate
<1>3. \A e \in Running' : (e \in Running /\ task'[e] = task[e]) \/ (e = c /\ task'[e].mine = k)
  BY DEF Running, IInv, Shape, TypeOK
<1>4. \A e \in Running : task[e].mine # k
  BY <1>2 DEF IInv, KeysKnown
<1>5. \A s \in Sirji : k \notin Own(s) /\ Own(s)' = Own(s)
  BY <1>2, OwnKnown DEF Own
<1>6. NetsApart'
  BY DEF Apart, NetsApart
<1>7. TasksApart'
  BY <1>3, <1>4, <1>5 DEF Apart, TasksApart
<1>. QED BY <1>1, <1>6, <1>7 DEF Apart

(* An `accept` that ends has its key in its entry, and no longer as a task. *)
LEMMA EndApart ==
    ASSUME IInv, Apart, NEW c \in Running, UNCHANGED store, NetsApart',
           \A r \in Sirji : Own(r)' \subseteq Own(r) \cup {task[c].mine},
           task' = [task EXCEPT ![c] = None]
    PROVE  Apart'
<1>1. \A e \in Running' : e \in Running /\ e # c /\ task'[e] = task[e]
  BY DEF Running, IInv, Shape, TypeOK
<1>2. KeyFilesApart'
  BY DEF Apart, KeyFilesApart
<1>3. TasksApart'
  BY <1>1 DEF Apart, TasksApart
<1>. QED BY <1>2, <1>3 DEF Apart

-----------------------------------------------------------------------------
(* The claims, seen as what a step adds. *)

DisksGrow == \A r \in Sirji : Grows(disk[r], disk'[r])

(* Every invite that is presented, or that somebody accepts, was shown. *)
LEMMA BindingsInvited ==
    ASSUME IInv, Once, NEW x \in Bindings
    PROVE  x[2] \in InviteIds
BY DEF IInv, KeysKnown, Once, GreetingsInvited, Bindings, InviteIds

(* An invite that was shown is a key that was minted. *)
LEMMA InvitesKnown ==
    ASSUME IInv, NEW i \in InviteIds
    PROVE  i \in Key /\ Known(i) /\ i # None
<1>1. PICK invite \in invites : i = invite.identity
  BY DEF InviteIds
<1>. QED BY <1>1, NoneIsNoValue DEF IInv, Shape, TypeOK, KeysKnown, Invite

(* A pair that is on file stays on file once it is filled in. *)
LEMMA PairStays ==
    ASSUME DisksGrow, NEW s \in Sirji, NEW i, NEW k, k # None, <<i, k>> \in Pairs(disk[s])
    PROVE  <<i, k>> \in Pairs(disk'[s])
<1>1. PICK x \in DOMAIN disk[s].peers : disk[s].peers[x].mine = i /\ disk[s].peers[x].peer = k
  BY DEF Pairs
<1>2. /\ x \in DOMAIN disk'[s].peers
      /\ disk'[s].peers[x].mine = i /\ disk'[s].peers[x].peer = k
  BY <1>1 DEF DisksGrow, Grows
<1>. QED BY <1>2 DEF Pairs

(* So does a name. *)
LEMMA NameStays ==
    ASSUME DisksGrow, NEW k, k # None, NEW name, Named(k, name)
    PROVE  Named(k, name)'
<1>0. <<k>> # << >>
  OBVIOUS
<1>1. ASSUME NEW s \in Sirji, NEW x \in DOMAIN disk[s].devices,
             disk[s].devices[x].keys = <<k>>, disk[s].devices[x].name = name
      PROVE  Named(k, name)'
  <2>1. /\ x \in DOMAIN disk'[s].devices
        /\ disk'[s].devices[x].keys = <<k>> /\ disk'[s].devices[x].name = name
    BY <1>0, <1>1 DEF DisksGrow, Grows
  <2>. QED BY <2>1 DEF Named
<1>2. ASSUME NEW s \in Sirji, NEW x \in DOMAIN disk[s].peers,
             disk[s].peers[x].peer = k, disk[s].peers[x].alias = name
      PROVE  Named(k, name)'
  <2>1. /\ x \in DOMAIN disk'[s].peers
        /\ disk'[s].peers[x].peer = k /\ disk'[s].peers[x].alias = name
    BY <1>2 DEF DisksGrow, Grows
  <2>. QED BY <2>1 DEF Named
<1>. QED BY <1>1, <1>2 DEF Named

(* And whoever took an invite has taken it. *)
LEMMA TookStays ==
    ASSUME DisksGrow, NEW k, k # None, NEW i, Took(k, i),
           \A r \in Sirji : i \notin Own(r) => i \notin Own(r)'
    PROVE  Took(k, i)'
<1>1. ASSUME NEW s \in Sirji, <<i, k>> \in Pairs(disk[s])
      PROVE  Took(k, i)'
  BY <1>1, PairStays DEF Took
<1>2. ASSUME NEW s \in Sirji, NEW x \in DOMAIN disk[s].devices, disk[s].devices[x].keys = <<k>>,
             \A r \in Sirji : i \notin Own(r)
      PROVE  Took(k, i)'
  <2>1. <<k>> # << >>
    OBVIOUS
  <2>2. x \in DOMAIN disk'[s].devices /\ disk'[s].devices[x].keys = <<k>>
    BY <1>2, <2>1 DEF DisksGrow, Grows
  <2>. QED BY <1>2, <2>2 DEF Took
<1>. QED BY <1>1, <1>2 DEF Took

(* What is listed as a pair is ours on the left. *)
LEMMA PairsAreOurs ==
    ASSUME NEW s \in Sirji, NEW x \in PairsAt(s)
    PROVE  x[1] \in Own(s)
BY DEF PairsAt, Pairs, Own, OwnKeys

(* A device with a config is on a list under its name, and the other way    *)
(* round that is all there is to EnrolledImpliesKnown.                      *)
LEMMA EnrolledNamed ==
    ASSUME EnrolledImpliesKnown, NEW d \in Device, config[d] # None
    PROVE  Named(config[d].key, config[d].name)
BY DEF EnrolledImpliesKnown, Named

LEMMA NamedEnrolled ==
    ASSUME \A d \in Device : config'[d] # None =>
             \E k, name : k = config'[d].key /\ name = config'[d].name /\ Named(k, name)'
    PROVE  EnrolledImpliesKnown'
<1>. SUFFICES ASSUME NEW d \in Device, config'[d] # None
              PROVE  \E s \in Sirji :
            \/ \E i \in DOMAIN disk'[s].devices :
                  /\ disk'[s].devices[i].keys = <<config'[d].key>>
                  /\ disk'[s].devices[i].name = config'[d].name
            \/ \E i \in DOMAIN disk'[s].peers :
                  /\ disk'[s].peers[i].peer = config'[d].key
                  /\ disk'[s].peers[i].alias = config'[d].name
  BY DEF EnrolledImpliesKnown
<1>1. PICK k, name : k = config'[d].key /\ name = config'[d].name /\ Named(k, name)'
  OBVIOUS
<1>. QED BY <1>1 DEF Named

(* What a step adds: pairs to the nets, keys of ours, bindings, invites,    *)
(* and an Ok for one key.                                                   *)
AddsPairs(new) ==
    /\ \A r \in Sirji : PairsAt(r)' \subseteq PairsAt(r) \cup new
    /\ \A x, y \in new : x = y
    /\ \A x \in new :
         \/ x[2] = None
         \/ /\ x[1] \in InviteIds /\ x[2] \notin InviteIds'
            /\ \A r \in Sirji : \A y \in PairsAt(r) : y[2] = x[2] => y[1] = x[1]
         \/ x[1] \notin InviteIds' /\ Claims(x[1], x[2])

AddsKeys(minted) ==
    /\ \A r \in Sirji : Own(r)' \subseteq Own(r) \cup minted
    /\ \A k \in minted : k \notin InviteIds

AddsInvites ==
    /\ InviteIds \subseteq InviteIds'
    /\ \A i \in InviteIds' : i \in InviteIds \/ Fresh(i)
    /\ \A x \in Bindings' : x \in Bindings \/ Fresh(x[1])
    /\ \A m \in wire' : m.type = "Invited" => m \in wire \/ m.invited_to \in InviteIds

AddsOk(told) ==
    \A m \in wire' : m.type = "Ok" =>
        \/ m \in wire
        \/ /\ m.from = told /\ Known(told) /\ Named(told, m.name)'
           /\ \A i \in InviteIds : <<told, i>> \in Bindings =>
                 Took(told, i)' /\ \A l \in Key : Claims(l, i) => l = told

AddsConfig ==
    \A d \in Device : config'[d] # None =>
        \/ config'[d] = config[d]
        \/ \A k, name : k = config'[d].key /\ name = config'[d].name => Named(k, name)

(* What a step puts on file, or in memory, rests on what was there before.  *)
InOrder ==
    /\ InviteIds \subseteq InviteIds'
    /\ \A s \in Sirji : \A x \in PairsAt(s)' :
          /\ x[1] \in InviteIds' => x[1] \in InviteIds \/ x[2] = None
          /\ x[2] \in InviteIds' => x[2] \in InviteIds /\ Claims(x[1], x[2])

(* A pair has two sides. *)
LEMMA PairsArePairs ==
    ASSUME NEW s \in Sirji, NEW x \in PairsAt(s)
    PROVE  x = <<x[1], x[2]>>
BY DEF PairsAt, Pairs

(* When Once is kept, and things happen in order. *)
LEMMA OnceKept ==
    ASSUME IInv, IInv', Once, Apart', DisksGrow, NEW new, NEW minted, NEW told,
           AddsPairs(new), AddsKeys(minted), AddsInvites, AddsOk(told), AddsConfig
    PROVE  Once' /\ InOrder
<1>. USE DEF AddsPairs, AddsKeys, AddsInvites, AddsOk, AddsConfig
<1>1. \A i \in InviteIds' : i # None
  BY InvitesKnown, FreshUnknown
<1>2. \A i \in InviteIds' : Known(i) => i \in InviteIds
  BY FreshUnknown
<1>3. ASSUME NEW i, NEW k, Claims(k, i)'
      PROVE  /\ i \in InviteIds
             /\ ~Claims(k, i) => /\ k = told
                                 /\ Took(k, i)'
                                 /\ \A l \in Key : ~Claims(l, i)
  <2>1. i \in InviteIds' /\ i # None
    BY <1>1, <1>3 DEF Claims
  <2>2. ASSUME NEW s \in Sirji, <<k, i>> \in PairsAt(s)
        PROVE  i \in InviteIds /\ Claims(k, i)
    <3>1. Known(i)
      BY <2>1, <2>2 DEF IInv, KeysKnown
    <3>. QED BY <1>2, <2>1, <2>2, <3>1 DEF Claims
  <2>3. ASSUME <<k, i>> \in new
        PROVE  i \in InviteIds /\ Claims(k, i)
    <3>1. Claims(k, i)
      BY <2>1, <2>3
    <3>. QED BY <3>1 DEF Claims
  <2>4. ASSUME <<k, i>> \in Bindings', NEW m \in wire', m.type = "Ok", m.from = k
        PROVE  /\ i \in InviteIds
               /\ ~Claims(k, i) => /\ k = told
                                   /\ Took(k, i)'
                                   /\ \A l \in Key : ~Claims(l, i)
    <3>1. Known(k)
      BY <2>4 DEF IInv, KeysKnown
    <3>2. <<k, i>> \in Bindings
      BY <2>4, <3>1, FreshUnknown
    <3>3. i \in InviteIds
      BY <3>2, BindingsInvited
    <3>4. CASE m \in wire
      BY <2>4, <3>2, <3>3, <3>4 DEF Claims
    <3>. QED BY <2>4, <3>2, <3>3, <3>4
  <2>5. \/ \E s \in Sirji : <<k, i>> \in PairsAt(s)'
        \/ <<k, i>> \in Bindings' /\ \E m \in wire' : m.type = "Ok" /\ m.from = k
    BY <1>3 DEF Claims
  <2>. QED BY <2>2, <2>3, <2>4, <2>5
<1>4. ClaimsAreTaken'
  <2>. SUFFICES ASSUME NEW i \in InviteIds', NEW k \in Key, Claims(k, i)'
                PROVE  Took(k, i)'
    BY DEF ClaimsAreTaken
  <2>1. ASSUME i \in InviteIds, Claims(k, i)
        PROVE  Took(k, i)'
    <3>1. Took(k, i)
      BY <2>1 DEF Once, ClaimsAreTaken
    <3>2. \A r \in Sirji : i \notin Own(r) => i \notin Own(r)'
      BY <2>1
    <3>. QED BY <3>1, <3>2, TookStays, NoneIsNoValue
  <2>. QED BY <1>3, <2>1
<1>5. OneClaims'
  <2>. SUFFICES ASSUME NEW i \in InviteIds', NEW k \in Key, NEW l \in Key,
                       Claims(k, i)', Claims(l, i)'
                PROVE  k = l
    BY DEF OneClaims
  <2>1. i \in InviteIds
    BY <1>3
  <2>2. CASE Claims(k, i) /\ Claims(l, i)
    BY <2>1, <2>2 DEF Once, OneClaims
  <2>3. CASE ~Claims(k, i)
    BY <1>3, <2>3
  <2>4. CASE ~Claims(l, i)
    BY <1>3, <2>4
  <2>. QED BY <2>2, <2>3, <2>4
<1>6. OneTaken'
  <2>. SUFFICES ASSUME NEW s \in Sirji, NEW r \in Sirji,
                       NEW x \in PairsAt(s)', NEW y \in PairsAt(r)',
                       x[1] \in InviteIds', y[1] \in InviteIds', x[2] = y[2], x[2] # None
                PROVE  x[1] = y[1]
    BY DEF OneTaken
  <2>1. ASSUME NEW z, NEW p \in Sirji, z \in PairsAt(p), z[1] \in InviteIds'
        PROVE  z[1] \in InviteIds
    BY <1>2, <2>1, PairsAreOurs, OwnKnown
  <2>2. CASE x \in PairsAt(s) /\ y \in PairsAt(r)
    BY <2>1, <2>2 DEF Once, OneTaken
  <2>3. CASE x \in new /\ y \in PairsAt(r)
    BY <2>3
  <2>4. CASE x \in PairsAt(s) /\ y \in new
    BY <2>4
  <2>5. CASE x \in new /\ y \in new
    BY <2>5
  <2>. QED BY <2>2, <2>3, <2>4, <2>5
<1>7. GreetingsInvited'
  BY DEF Once, GreetingsInvited
<1>8. OkMeansNamed'
  <2>. SUFFICES ASSUME NEW m \in wire', m.type = "Ok"
                PROVE  Named(m.from, m.name)'
    BY DEF OkMeansNamed
  <2>1. ASSUME m \in wire
        PROVE  Named(m.from, m.name)'
    <3>1. Named(m.from, m.name)
      BY <2>1 DEF Once, OkMeansNamed
    <3>2. m.from # None
      BY <2>1, NoneIsNoValue DEF IInv, Shape, TypeOK, Hello, Welcome
    <3>. QED BY <3>1, <3>2, NameStays
  <2>. QED BY <2>1
<1>9. EnrolledImpliesKnown'
  <2>1. ASSUME NEW d \in Device, config'[d] # None,
               NEW k, k = config'[d].key, NEW name, name = config'[d].name
        PROVE  Named(k, name)'
    <3>1. k # None
      BY <2>1, NoneIsNoValue DEF IInv, Shape, TypeOK, Config
    <3>2. config'[d] = config[d] => Named(k, name)
      BY <2>1, EnrolledNamed DEF Once
    <3>3. Named(k, name)
      BY <2>1, <3>2
    <3>. QED BY <3>1, <3>3, NameStays
  <2>. QED BY <2>1, NamedEnrolled
<1>10. InOrder
  <2>. SUFFICES ASSUME NEW s \in Sirji, NEW x \in PairsAt(s)'
                PROVE  /\ x[1] \in InviteIds' => x[1] \in InviteIds \/ x[2] = None
                       /\ x[2] \in InviteIds' => x[2] \in InviteIds /\ Claims(x[1], x[2])
    BY DEF InOrder
  <2>1. CASE x \in PairsAt(s)
    <3>1. Known(x[1])
      BY <2>1, PairsAreOurs, OwnKnown
    <3>2. x[2] = None \/ Known(x[2])
      BY <2>1 DEF IInv, KeysKnown
    <3>3. x[2] \in InviteIds => Claims(x[1], x[2])
      BY <2>1, PairsArePairs DEF Claims
    <3>. QED BY <1>1, <1>2, <3>1, <3>2, <3>3
  <2>2. CASE x \in new
    <3>1. Claims(x[1], x[2]) => x[2] \in InviteIds
      BY DEF Claims
    <3>. QED BY <1>1, <2>2, <3>1
  <2>. QED BY <2>1, <2>2
<1>11. PairsInvited'
  <2>. SUFFICES ASSUME NEW s \in Sirji, NEW x \in PairsAt(s)', x[2] # None
                PROVE  x[1] \in InviteIds' \/ x[2] \in InviteIds'
    BY DEF PairsInvited
  <2>1. CASE x \in PairsAt(s)
    BY <2>1 DEF Once, PairsInvited
  <2>2. CASE x \in new
    BY <2>2 DEF Claims
  <2>. QED BY <2>1, <2>2
<1>. QED BY <1>4, <1>5, <1>6, <1>7, <1>8, <1>9, <1>10, <1>11 DEF Once

(* Whoever goes by an invite of ours is in memory, in the invite's entry.   *)
LEMMA InviteSpent ==
    ASSUME IInv, Once, NEW s \in Sirji, up[s], NEW i, i \in OwnKeys(mem[s]),
           NEW l \in Key, Claims(l, i)
    PROVE  \E x \in DOMAIN mem[s].peers : mem[s].peers[x].mine = i /\ mem[s].peers[x].peer = l
<1>1. i \in Own(s) /\ l # None
  BY NoneIsNoValue DEF Own
<1>2. Took(l, i)
  BY DEF Once, ClaimsAreTaken, Claims
<1>3. PICK r \in Sirji : <<i, l>> \in Pairs(disk[r])
  BY <1>1, <1>2 DEF Took
<1>4. PICK x \in DOMAIN disk[r].peers : disk[r].peers[x].mine = i /\ disk[r].peers[x].peer = l
  BY <1>3 DEF Pairs
<1>5. i \in Own(r)
  BY <1>4 DEF Own, OwnKeys
<1>6. r = s
  BY <1>1, <1>5, HomesApart DEF Once, Apart
<1>7. Grows(disk[s], mem[s])
  BY DEF IInv, MemoryHasDisk
<1>. QED BY <1>1, <1>4, <1>6, <1>7 DEF Grows

-----------------------------------------------------------------------------
(* Once is inductive. *)

(* A step that writes nothing and begins nothing.                           *)
LEMMA QuietOnce ==
    ASSUME IInv, IInv', Once, UNCHANGED <<disk, store, invites>>,
           \A r \in Sirji : mem'[r] = mem[r] \/ mem'[r] = disk[r],
           \A c \in Running' : /\ c \in Running
                               /\ task'[c].mine = task[c].mine
                               /\ task'[c].invite = task[c].invite,
           \A m \in wire' : \/ m \in wire
                            \/ /\ m.type # "Ok"
                               /\ m.type = "Invited" => <<m.from, m.invited_to>> \in Bindings,
           \A d \in Device : config'[d] # None =>
               \/ config'[d] = config[d]
               \/ \A k, name : k = config'[d].key /\ name = config'[d].name => Named(k, name)
    PROVE  Once' /\ InOrder
<1>1. DisksGrow
  BY GrowsReflexive DEF DisksGrow
<1>2. \A r \in Sirji : Own(r)' \subseteq Own(r) /\ PairsAt(r)' \subseteq PairsAt(r)
  BY DEF Own, PairsAt
<1>3. NetsApart'
  BY DEF Once, Apart, NetsApart
<1>4. Apart'
  BY <1>2, <1>3, CalmApart DEF Once
<1>5. Bindings' \subseteq Bindings
  BY DEF Bindings
<1>6. InviteIds' = InviteIds
  BY DEF InviteIds
<1>7. \A m \in wire' : m.type = "Invited" => m \in wire \/ m.invited_to \in InviteIds
  <2>. SUFFICES ASSUME NEW m \in wire', m.type = "Invited", m \notin wire
                PROVE  m.invited_to \in InviteIds
    OBVIOUS
  <2>1. <<m.from, m.invited_to>> \in Bindings
    OBVIOUS
  <2>. QED BY <2>1, BindingsInvited
<1>8. \A m \in wire' : m.type = "Ok" => m \in wire
  OBVIOUS
<1>. PICK told : TRUE
  OBVIOUS
<1>. DEFINE none == {}
<1>9. AddsPairs(none) /\ AddsKeys(none)
  BY <1>2 DEF AddsPairs, AddsKeys
<1>10. AddsInvites
  BY <1>5, <1>6, <1>7 DEF AddsInvites
<1>11. AddsOk(told)
  BY <1>8 DEF AddsOk
<1>12. AddsConfig
  BY DEF AddsConfig
<1>. HIDE DEF none
<1>. QED BY <1>1, <1>4, <1>9, <1>10, <1>11, <1>12, OnceKept

(* An `accept` or an `init` that begins. *)
LEMMA BeginOnce ==
    ASSUME IInv, IInv', Once, NEW c \in Caller, NEW h \in Sirji \cup Device,
           NEW invite \in invites, NEW k \in Key, generate(h, k), NEW t \in Task, task[c] = None,
           task' = [task EXCEPT ![c] = t], t.mine = k, t.invite = invite,
           UNCHANGED <<mem, disk, invites, wire, config>>
    PROVE  Once' /\ InOrder
<1>1. DisksGrow
  BY GrowsReflexive DEF DisksGrow
<1>2. Apart'
  BY BeginApart DEF Once
<1>3. Fresh(k)
  BY DEF generate
<1>4. \A e \in Running' : (e \in Running /\ task'[e] = task[e]) \/ (e = c /\ task'[e].mine = k)
  BY DEF Running, IInv, Shape, TypeOK
<1>5. \A x \in Bindings' : x \in Bindings \/ Fresh(x[1])
  BY <1>3, <1>4 DEF Bindings
<1>. PICK told : TRUE
  OBVIOUS
<1>. DEFINE none == {}
<1>6. AddsPairs(none) /\ AddsKeys(none)
  BY DEF AddsPairs, AddsKeys, PairsAt, Own
<1>7. AddsInvites
  BY <1>5 DEF AddsInvites, InviteIds
<1>8. AddsOk(told)
  BY DEF AddsOk
<1>9. AddsConfig
  BY DEF AddsConfig
<1>. HIDE DEF none
<1>. QED BY <1>1, <1>2, <1>6, <1>7, <1>8, <1>9, OnceKept

(* A command that mints a key and pushes an entry for it. *)
LEMMA MintOnce ==
    ASSUME IInv, IInv', Once, DisksGrow, NEW s \in Sirji, NEW k \in Key, generate(s, k),
           NEW q, NEW saved \in BOOLEAN, NEW new,
           Evolves(mem[s], q, new, {k}), Wrote(s, q, saved), OwnApart(mem'[s]),
           new \subseteq {<<k, None>>},
           invites \subseteq invites', \A i \in invites' : i \in invites \/ i.identity = k,
           UNCHANGED <<task, wire, config>>
    PROVE  Once' /\ InOrder
<1>1. Fresh(k) /\ ~Known(k)
  BY FreshUnknown DEF generate
<1>2. /\ NetsApart'
      /\ \A r \in Sirji : Own(r)' \subseteq Own(r) \cup {k}
      /\ \A r \in Sirji : PairsAt(r)' \subseteq PairsAt(r) \cup new
  BY WroteApart DEF IInv, Shape, Once, Apart
<1>3. Apart'
  BY <1>2, MintApart DEF Once
<1>4. k \notin InviteIds
  BY <1>1, InvitesKnown
<1>5. Bindings' = Bindings
  BY DEF Bindings, Running
<1>6. InviteIds \subseteq InviteIds' /\ \A i \in InviteIds' : i \in InviteIds \/ Fresh(i)
  BY <1>1 DEF InviteIds
<1>7. \A x \in new : x[2] = None /\ \A y \in new : x = y
  OBVIOUS
<1>. PICK told : TRUE
  OBVIOUS
<1>. DEFINE minted == {k}
<1>8. AddsPairs(new)
  BY <1>2, <1>7 DEF AddsPairs
<1>9. AddsKeys(minted)
  BY <1>2, <1>4 DEF AddsKeys
<1>10. AddsInvites
  BY <1>5, <1>6 DEF AddsInvites
<1>11. AddsOk(told)
  BY DEF AddsOk
<1>12. AddsConfig
  BY DEF AddsConfig
<1>. HIDE DEF minted
<1>. QED BY <1>3, <1>8, <1>9, <1>10, <1>11, <1>12, OnceKept

(* A greeting that is answered Ok only to the one that goes by the invite   *)
(* it presented, under the name it is listed by.                            *)
LEMMA GreetOnce ==
    ASSUME IInv, IInv', Once, DisksGrow, NEW s \in Sirji, NEW m \in wire, NEW saved \in BOOLEAN,
           m.type \in {"Peer", "Invited"},
           NEW q, NEW new, NEW name, Evolves(mem[s], q, new, {}), Wrote(s, q, saved),
           OwnApart(mem'[s]),
           \A x \in new : m.type = "Invited" /\ x = <<m.invited_to, m.from>>,
           saved /\ m.type = "Invited" =>
               /\ Took(m.from, m.invited_to)'
               /\ \A l \in Key : Claims(l, m.invited_to) => l = m.from
               /\ Named(m.from, name)',
           AnswersIf(saved, m, s, name),
           UNCHANGED <<store, invites, task, config>>
    PROVE  Once' /\ InOrder
<1>1. /\ NetsApart'
      /\ \A r \in Sirji : Own(r)' \subseteq Own(r) \cup {}
      /\ \A r \in Sirji : PairsAt(r)' \subseteq PairsAt(r) \cup new
  BY WroteApart DEF IInv, Shape, Once, Apart
<1>2. Apart'
  <2>1. \A c \in Running' : c \in Running /\ task'[c].mine = task[c].mine
    BY DEF Running
  <2>. QED BY <1>1, <2>1, CalmApart DEF Once
<1>3. \A w \in wire' :
        \/ w \in wire
        \/ w.type = "No"
        \/ /\ w.type = "Ok" /\ w.from = m.from /\ w.name = name
           /\ saved /\ m.type = "Invited"
  BY DEF AnswersIf, Answers, Ok, No
<1>4. Bindings' \subseteq Bindings
  BY <1>3 DEF Bindings, Running
<1>5. InviteIds' = InviteIds
  BY DEF InviteIds
<1>6. m.type = "Invited" => <<m.from, m.invited_to>> \in Bindings
  BY DEF Bindings
<1>7. Known(m.from)
  BY DEF IInv, KeysKnown
<1>8. ASSUME NEW x \in new
      PROVE  /\ x[1] \in InviteIds /\ x[2] \notin InviteIds'
             /\ \A r \in Sirji : \A y \in PairsAt(r) : y[2] = x[2] => y[1] = x[1]
  <2>1. x = <<m.invited_to, m.from>> /\ <<m.from, m.invited_to>> \in Bindings
    BY <1>6
  <2>2. m.from \notin InviteIds /\ m.invited_to \in InviteIds
    <3>1. m.from \notin InviteIds
      BY <2>1 DEF IInv, OneInviteAKey
    <3>2. m.invited_to \in InviteIds
      BY <2>1, BindingsInvited
    <3>. QED BY <3>1, <3>2
  <2>3. \A r \in Sirji : \A y \in PairsAt(r) : y[2] = m.from => y[1] = m.invited_to
    BY <2>1 DEF IInv, OneInviteAKey
  <2>. QED BY <1>5, <2>1, <2>2, <2>3
<1>. PICK told : told = m.from
  OBVIOUS
<1>9. ASSUME NEW w \in wire', w.type = "Ok", w \notin wire
      PROVE  /\ w.from = told /\ Known(told) /\ Named(told, w.name)'
             /\ \A i \in InviteIds : <<told, i>> \in Bindings =>
                   Took(told, i)' /\ \A l \in Key : Claims(l, i) => l = told
  <2>1. w.from = m.from /\ w.name = name /\ saved /\ m.type = "Invited"
    BY <1>3, <1>9
  <2>2. \A i : <<m.from, i>> \in Bindings => i = m.invited_to
    BY <1>6, <2>1 DEF IInv, OneInviteAKey
  <2>. QED BY <1>7, <2>1, <2>2
<1>. DEFINE none == {}
<1>10. AddsPairs(new)
  BY <1>1, <1>8 DEF AddsPairs
<1>11. AddsKeys(none)
  BY <1>1 DEF AddsKeys
<1>12. AddsInvites
  BY <1>3, <1>4, <1>5 DEF AddsInvites
<1>13. AddsOk(told)
  BY <1>9 DEF AddsOk
<1>14. AddsConfig
  BY DEF AddsConfig
<1>. HIDE DEF none
<1>. QED BY <1>2, <1>10, <1>11, <1>12, <1>13, <1>14, OnceKept

(* A greeting of a known key. *)
LEMMA GreetKnownOnce ==
    ASSUME IInv, IInv', Once, DisksGrow, NEW s \in Sirji, NEW m \in wire, NEW on \in bound[s],
           NEW saved \in BOOLEAN, GreetKnown(s, m, on, saved)
    PROVE  Once' /\ InOrder
<1>0. PICK q : \E i \in DOMAIN mem[s].peers :
        /\ mem[s].peers[i].peer = m.from
        /\ Evolves(mem[s], q, {}, {})
        /\ Wrote(s, q, saved)
        /\ AnswersIf(saved, m, s, mem[s].peers[i].alias)
  BY GreetKnownWrote DEF IInv, Shape
<1>1. PICK i \in DOMAIN mem[s].peers,
           name \in {mem[s].peers[x].alias : x \in DOMAIN mem[s].peers} :
        /\ mem[s].peers[i].peer = m.from
        /\ name = mem[s].peers[i].alias
        /\ Evolves(mem[s], q, {}, {})
        /\ Wrote(s, q, saved)
        /\ AnswersIf(saved, m, s, name)
  BY <1>0
<1>2. OwnApart(mem[s]) /\ OwnApart(mem'[s])
  BY GreetKnownApart DEF IInv, Shape, Once, Apart, NetsApart
<1>3. m.from \in Key /\ m.from # None
  BY NoneIsNoValue DEF IInv, Shape, TypeOK, Hello, Welcome
<1>4. /\ up[s] /\ m.type \in {"Peer", "Invited"}
      /\ UNCHANGED <<store, invites, task, config>>
  BY DEF GreetKnown, Greets
<1>5. /\ i \in DOMAIN q.peers /\ q.peers[i].mine = mem[s].peers[i].mine
      /\ q.peers[i].peer = m.from /\ q.peers[i].alias = name
  BY <1>1, <1>3 DEF Evolves, Grows
<1>6. ASSUME saved, m.type = "Invited"
      PROVE  /\ Took(m.from, m.invited_to)'
             /\ \A l \in Key : Claims(l, m.invited_to) => l = m.from
             /\ Named(m.from, name)'
  <2>1. disk'[s] = q
    BY <1>1, <1>6 DEF Wrote, IInv, Shape, TypeOK
  <2>2. <<m.from, m.invited_to>> \in Bindings
    BY <1>6 DEF Bindings
  <2>3. <<mem[s].peers[i].mine, m.from>> \in PairsAt(s)
    BY <1>1 DEF PairsAt, Pairs
  <2>4. mem[s].peers[i].mine = m.invited_to
    BY <2>2, <2>3 DEF IInv, OneInviteAKey
  <2>5. Took(m.from, m.invited_to)'
    <3>1. <<m.invited_to, m.from>> \in Pairs(q)
      BY <1>5, <2>4 DEF Pairs
    <3>. QED BY <2>1, <3>1 DEF Took
  <2>6. ASSUME NEW l \in Key, Claims(l, m.invited_to)
        PROVE  l = m.from
    <3>1. m.invited_to \in OwnKeys(mem[s])
      BY <2>4 DEF OwnKeys
    <3>2. PICK x \in DOMAIN mem[s].peers :
            mem[s].peers[x].mine = m.invited_to /\ mem[s].peers[x].peer = l
      BY <1>4, <2>6, <3>1, InviteSpent
    <3>. QED BY <1>1, <1>2, <2>4, <3>2 DEF OwnApart, DistinctMine
  <2>7. Named(m.from, name)'
    BY <1>5, <2>1 DEF Named
  <2>. QED BY <2>5, <2>6, <2>7
<1>. DEFINE new == {}
<1>7. Evolves(mem[s], q, new, {})
      /\ \A x \in new : m.type = "Invited" /\ x = <<m.invited_to, m.from>>
  BY <1>1
<1>. HIDE DEF new
<1>. QED BY <1>1, <1>2, <1>4, <1>6, <1>7, GreetOnce

(* The enrolment of a device: its invite goes, and so nobody else can claim *)
(* to have taken it.                                                        *)
LEMMA GreetInvitedDeviceOnce ==
    ASSUME IInv, IInv', Once, DisksGrow, NEW s \in Sirji, NEW m \in wire, NEW on \in bound[s],
           NEW saved \in BOOLEAN, GreetInvitedDevice(s, m, on, saved)
    PROVE  Once' /\ InOrder
<1>0. PICK q : \E i \in DOMAIN mem[s].devices :
        /\ Evolves(mem[s], q, {}, {})
        /\ i \in DOMAIN q.devices
        /\ q.devices[i].keys = <<m.from>>
        /\ Wrote(s, q, saved)
        /\ AnswersIf(saved, m, s, mem[s].devices[i].name)
  BY GreetInvitedDeviceWrote DEF IInv, Shape
<1>1. PICK i \in DOMAIN mem[s].devices,
           name \in {mem[s].devices[x].name : x \in DOMAIN mem[s].devices} :
        /\ name = mem[s].devices[i].name
        /\ Evolves(mem[s], q, {}, {})
        /\ i \in DOMAIN q.devices
        /\ q.devices[i].keys = <<m.from>>
        /\ Wrote(s, q, saved)
        /\ AnswersIf(saved, m, s, name)
  BY <1>0
<1>2. /\ OwnApart(mem[s]) /\ OwnApart(mem'[s])
      /\ m.invited_to \in DeviceInvites(mem[s])
      /\ m.invited_to \notin OwnKeys(mem'[s])
  BY GreetInvitedDeviceApart DEF IInv, Shape, Once, Apart, NetsApart
<1>3. /\ up[s] /\ m.type \in {"Peer", "Invited"}
      /\ UNCHANGED <<store, invites, task, config>>
  BY DEF GreetInvitedDevice, Unknown, Greets
<1>4. q.devices[i].name = name
  BY <1>1 DEF Evolves, Grows
<1>5. m.invited_to \in OwnKeys(mem[s]) /\ m.invited_to \notin Mines(mem[s])
  BY <1>2, OwnKeysByUse DEF OwnApart
<1>6. ASSUME saved
      PROVE  /\ Took(m.from, m.invited_to)'
             /\ \A l \in Key : Claims(l, m.invited_to) => l = m.from
             /\ Named(m.from, name)'
  <2>1. disk'[s] = q /\ mem'[s] = q
    BY <1>1, <1>6 DEF Wrote, IInv, Shape, TypeOK
  <2>2. \A r \in Sirji : m.invited_to \notin Own(r)'
    <3>1. m.invited_to \notin Own(s)'
      BY <1>2, <2>1 DEF Own
    <3>2. ASSUME NEW r \in Sirji, r # s
          PROVE  m.invited_to \notin Own(r)'
      <4>1. Own(r)' = Own(r)
        BY <1>1, <3>2 DEF Wrote, IInv, Shape, TypeOK, Own
      <4>2. m.invited_to \in Own(s)
        BY <1>5 DEF Own
      <4>. QED BY <3>2, <4>1, <4>2, HomesApart DEF Once, Apart
    <3>. QED BY <3>1, <3>2
  <2>3. Took(m.from, m.invited_to)'
    BY <1>1, <2>1, <2>2 DEF Took
  <2>4. ASSUME NEW l \in Key, Claims(l, m.invited_to)
        PROVE  FALSE
    BY <1>3, <1>5, <2>4, InviteSpent DEF Mines
  <2>5. Named(m.from, name)'
    BY <1>1, <1>4, <2>1 DEF Named
  <2>. QED BY <2>3, <2>4, <2>5
<1>. DEFINE new == {}
<1>7. Evolves(mem[s], q, new, {})
      /\ \A x \in new : m.type = "Invited" /\ x = <<m.invited_to, m.from>>
  BY <1>1
<1>. HIDE DEF new
<1>. QED BY <1>1, <1>2, <1>3, <1>6, <1>7, GreetOnce

(* The acceptance of a peer's invite, whose entry was still pending.        *)
LEMMA GreetInvitedPeerOnce ==
    ASSUME IInv, IInv', Once, DisksGrow, NEW s \in Sirji, NEW m \in wire, NEW on \in bound[s],
           NEW saved \in BOOLEAN, GreetInvitedPeer(s, m, on, saved)
    PROVE  Once' /\ InOrder
<1>. DEFINE new == {<<m.invited_to, m.from>>}
<1>0. PICK q : \E i \in DOMAIN mem[s].peers :
        /\ Evolves(mem[s], q, new, {})
        /\ i \in DOMAIN q.peers
        /\ q.peers[i].mine = m.invited_to
        /\ q.peers[i].peer = m.from
        /\ Wrote(s, q, saved)
        /\ AnswersIf(saved, m, s, mem[s].peers[i].alias)
  BY GreetInvitedPeerWrote DEF IInv, Shape
<1>1. PICK i \in DOMAIN mem[s].peers,
           name \in {mem[s].peers[x].alias : x \in DOMAIN mem[s].peers} :
        /\ name = mem[s].peers[i].alias
        /\ Evolves(mem[s], q, new, {})
        /\ i \in DOMAIN q.peers
        /\ q.peers[i].mine = m.invited_to
        /\ q.peers[i].peer = m.from
        /\ Wrote(s, q, saved)
        /\ AnswersIf(saved, m, s, name)
  BY <1>0
<1>2. OwnApart(mem[s]) /\ OwnApart(mem'[s])
  BY GreetInvitedPeerApart DEF IInv, Shape, Once, Apart, NetsApart
<1>3. /\ up[s] /\ m.type = "Invited"
      /\ UNCHANGED <<store, invites, task, config>>
  BY DEF GreetInvitedPeer, Unknown, Greets
<1>4. PICK j \in DOMAIN mem[s].peers :
        mem[s].peers[j].mine = m.invited_to /\ mem[s].peers[j].peer = None
  BY DEF GreetInvitedPeer, IsFirst, pending_by_mine, PeerPending
<1>5. q.peers[i].alias = name
  BY <1>1 DEF Evolves, Grows
<1>6. ASSUME saved
      PROVE  /\ Took(m.from, m.invited_to)'
             /\ \A l \in Key : Claims(l, m.invited_to) => l = m.from
             /\ Named(m.from, name)'
  <2>1. disk'[s] = q
    BY <1>1, <1>6 DEF Wrote, IInv, Shape, TypeOK
  <2>2. Took(m.from, m.invited_to)'
    <3>1. <<m.invited_to, m.from>> \in Pairs(q)
      BY <1>1 DEF Pairs
    <3>. QED BY <2>1, <3>1 DEF Took
  <2>3. ASSUME NEW l \in Key, Claims(l, m.invited_to)
        PROVE  FALSE
    <3>1. m.invited_to \in OwnKeys(mem[s])
      BY <1>4 DEF OwnKeys
    <3>2. PICK x \in DOMAIN mem[s].peers :
            mem[s].peers[x].mine = m.invited_to /\ mem[s].peers[x].peer = l
      BY <1>3, <2>3, <3>1, InviteSpent
    <3>3. x = j
      BY <1>2, <1>4, <3>2 DEF OwnApart, DistinctMine
    <3>. QED BY <1>4, <3>2, <3>3, NoneIsNoValue
  <2>4. Named(m.from, name)'
    BY <1>1, <1>5, <2>1 DEF Named
  <2>. QED BY <2>2, <2>3, <2>4
<1>7. \A x \in new : m.type = "Invited" /\ x = <<m.invited_to, m.from>>
  BY <1>3
<1>. HIDE DEF new
<1>. QED BY <1>1, <1>2, <1>3, <1>6, <1>7, GreetOnce

(* An `accept` that ends records the claim it had.                          *)
LEMMA AcceptEndsOnce ==
    ASSUME IInv, IInv', Once, DisksGrow, NEW c \in Caller, NEW m \in wire, NEW saved \in BOOLEAN,
           AcceptEnds(c, m, saved)
    PROVE  Once' /\ InOrder
<1>. DEFINE minted == {task[c].mine}
            new == {<<task[c].mine, task[c].invite.identity>>}
<1>1. /\ c \in Running /\ task[c].at \in Sirji /\ task[c].alias \in Alias
      /\ m.type = "Ok" /\ m.from = task[c].mine
      /\ UNCHANGED <<store, invites, config>>
      /\ task' = [task EXCEPT ![c] = None] /\ wire' \subseteq wire
  BY DEF AcceptEnds, Reads, IInv, Shape, JobsAtSirjis
<1>2. PICK s \in Sirji : s = task[c].at
  BY <1>1
<1>3. PICK q : Evolves(mem[s], q, new, minted) /\ Wrote(s, q, saved)
  BY <1>1, <1>2, AcceptEndsWrote DEF IInv, Shape
<1>4. OwnApart(mem[s]) /\ task[c].mine \notin OwnKeys(mem[s])
  BY <1>1 DEF Once, Apart, NetsApart, TasksApart, Own
<1>5. OwnApart(mem'[s])
  BY <1>1, <1>2, <1>4, AcceptEndsApart DEF IInv, Shape
<1>. HIDE DEF minted, new
<1>6. /\ NetsApart'
      /\ \A r \in Sirji : Own(r)' \subseteq Own(r) \cup minted
      /\ \A r \in Sirji : PairsAt(r)' \subseteq PairsAt(r) \cup new
  BY <1>3, <1>5, WroteApart DEF IInv, Shape, Once, Apart
<1>7. Apart'
  <2>1. \A r \in Sirji : Own(r)' \subseteq Own(r) \cup {task[c].mine}
    BY <1>6 DEF minted
  <2>. QED BY <1>1, <1>6, <2>1, EndApart DEF Once
<1>8. <<task[c].mine, task[c].invite.identity>> \in Bindings
  BY <1>1 DEF Bindings
<1>9. task[c].mine \notin InviteIds /\ task[c].invite.identity \in InviteIds
  <2>1. task[c].mine \notin InviteIds
    BY <1>8 DEF IInv, OneInviteAKey
  <2>. QED BY <1>8, <2>1, BindingsInvited
<1>10. Claims(task[c].mine, task[c].invite.identity)
  BY <1>1, <1>8, <1>9 DEF Claims
<1>11. InviteIds' = InviteIds
  BY <1>1 DEF InviteIds
<1>12. Bindings' \subseteq Bindings
  <2>1. \A e \in Running' : e \in Running /\ task'[e] = task[e]
    BY <1>1 DEF Running, IInv, Shape, TypeOK
  <2>. QED BY <1>1, <2>1 DEF Bindings
<1>13. AddsPairs(new)
  <2>1. /\ \A x, y \in new : x = y
        /\ \A x \in new : x[1] = task[c].mine /\ x[2] = task[c].invite.identity
    BY DEF new
  <2>. QED BY <1>6, <1>9, <1>10, <1>11, <2>1 DEF AddsPairs
<1>14. AddsKeys(minted)
  <2>1. \A k \in minted : k \notin InviteIds
    BY <1>9 DEF minted
  <2>. QED BY <1>6, <2>1 DEF AddsKeys
<1>15. AddsInvites
  BY <1>1, <1>11, <1>12 DEF AddsInvites
<1>. PICK told : TRUE
  OBVIOUS
<1>16. AddsOk(told)
  BY <1>1 DEF AddsOk
<1>17. AddsConfig
  BY <1>1 DEF AddsConfig
<1>. QED BY <1>7, <1>13, <1>14, <1>15, <1>16, <1>17, OnceKept

(* The commands. *)
LEMMA CommandOnce ==
    ASSUME IInv, IInv', Once, DisksGrow, NEW s \in Sirji, Command(s)
    PROVE  Once' /\ InOrder
<1>1. ASSUME Start(s)
      PROVE  Once' /\ InOrder
  <2>1. \A r \in Sirji : mem'[r] = mem[r] \/ mem'[r] = disk[r]
    BY <1>1 DEF IInv, Shape, TypeOK, Start
  <2>2. /\ UNCHANGED <<disk, store, invites>> /\ wire' = wire
        /\ task' = task /\ Running' = Running /\ config' = config
    BY <1>1 DEF Start, Running
  <2>. QED BY <2>1, <2>2, QuietOnce
<1>2. ASSUME Crash(s)
      PROVE  Once' /\ InOrder
  <2>1. \A c \in Running' : c \in Running /\ task'[c] = task[c]
    BY <1>2 DEF Crash, Running
  <2>2. UNCHANGED <<mem, disk, store, invites>> /\ wire' \subseteq wire /\ config' = config
    BY <1>2 DEF Crash
  <2>. QED BY <2>1, <2>2, QuietOnce
<1>3. ASSUME NEW k \in Key, NEW saved \in BOOLEAN, NEW spot \in Spot, NewAddress(s, spot, k, saved)
      PROVE  Once' /\ InOrder
  <2>1. PICK q : Evolves(mem[s], q, {}, {k}) /\ Wrote(s, q, saved)
    BY <1>3, NewAddressWrote DEF IInv, Shape
  <2>2. generate(s, k) /\ UNCHANGED <<task, wire, config, invites>>
    BY <1>3 DEF NewAddress
  <2>3. OwnApart(mem'[s])
    <3>1. k \notin OwnKeys(mem[s])
      BY <2>2, FreshUnknown, OwnKnown DEF generate, Own
    <3>. QED BY <1>3, <3>1, NewAddressApart DEF IInv, Shape, Once, Apart, NetsApart
  <2>. DEFINE none == {}
  <2>4. Evolves(mem[s], q, none, {k}) /\ none \subseteq {<<k, None>>}
    BY <2>1
  <2>. HIDE DEF none
  <2>. QED BY <2>1, <2>2, <2>3, <2>4, MintOnce
<1>4. ASSUME NEW k \in Key, NEW saved \in BOOLEAN, NEW alias \in Alias,
            InvitePeer(s, alias, k, saved)
      PROVE  Once' /\ InOrder
  <2>1. PICK q : Evolves(mem[s], q, {<<k, None>>}, {k}) /\ Wrote(s, q, saved)
    BY <1>4, InvitePeerWrote DEF IInv, Shape
  <2>2. /\ generate(s, k) /\ UNCHANGED <<task, wire, config>>
        /\ invites \subseteq invites' /\ \A i \in invites' : i \in invites \/ i.identity = k
    BY <1>4 DEF InvitePeer, ShowInvite
  <2>3. OwnApart(mem'[s])
    <3>1. k \notin OwnKeys(mem[s])
      BY <2>2, FreshUnknown, OwnKnown DEF generate, Own
    <3>. QED BY <1>4, <3>1, InvitePeerApart DEF IInv, Shape, Once, Apart, NetsApart
  <2>. DEFINE new == {<<k, None>>}
  <2>4. Evolves(mem[s], q, new, {k}) /\ new \subseteq {<<k, None>>}
    BY <2>1
  <2>. HIDE DEF new
  <2>. QED BY <2>1, <2>2, <2>3, <2>4, MintOnce
<1>5. ASSUME NEW k \in Key, NEW saved \in BOOLEAN, NEW name \in Name,
            InviteDevice(s, name, k, saved)
      PROVE  Once' /\ InOrder
  <2>1. PICK q : Evolves(mem[s], q, {}, {k}) /\ Wrote(s, q, saved)
    BY <1>5, InviteDeviceWrote DEF IInv, Shape
  <2>2. /\ generate(s, k) /\ UNCHANGED <<task, wire, config>>
        /\ invites \subseteq invites' /\ \A i \in invites' : i \in invites \/ i.identity = k
    BY <1>5 DEF InviteDevice, ShowInvite
  <2>3. OwnApart(mem'[s])
    <3>1. k \notin OwnKeys(mem[s])
      BY <2>2, FreshUnknown, OwnKnown DEF generate, Own
    <3>. QED BY <1>5, <3>1, InviteDeviceApart DEF IInv, Shape, Once, Apart, NetsApart
  <2>. DEFINE none == {}
  <2>4. Evolves(mem[s], q, none, {k}) /\ none \subseteq {<<k, None>>}
    BY <2>1
  <2>. HIDE DEF none
  <2>. QED BY <2>1, <2>2, <2>3, <2>4, MintOnce
<1>6. ASSUME NEW i \in DOMAIN mem[s].peers, NEW address \in Key, DialPeer(s, i, address)
      PROVE  Once' /\ InOrder
  <2>1. /\ UNCHANGED <<mem, disk, store, invites>>
        /\ task' = task /\ Running' = Running /\ config' = config
    BY <1>6 DEF DialPeer, Running
  <2>2. \A m \in wire' : m \in wire \/ m.type = "Peer"
    BY <1>6 DEF DialPeer
  <2>. QED BY <2>1, <2>2, QuietOnce
<1>. QED BY <1>1, <1>2, <1>3, <1>4, <1>5, <1>6 DEF Command

(* The commands that begin. *)
LEMMA BeginsOnce ==
    ASSUME IInv, IInv', Once, Begin
    PROVE  Once' /\ InOrder
<1>1. PICK k \in Key, invite \in invites :
        \/ \E c \in Job, s \in Sirji, alias \in Alias : AcceptStarts(c, s, alias, invite, k)
        \/ \E d \in Device : EnrolStarts(d, invite, k)
  BY DEF Begin
<1>2. ASSUME NEW c \in Job, NEW s \in Sirji, NEW alias \in Alias,
            AcceptStarts(c, s, alias, invite, k)
      PROVE  Once' /\ InOrder
  <2>. DEFINE t == [at |-> s, alias |-> alias, invite |-> invite, mine |-> k,
                    told |-> current_addresses(mem[s]),
                    untried |-> invite.addresses, to |-> None]
  <2>1. t \in Task
    <3>1. current_addresses(mem[s]) \in SUBSET Key
      BY AddressesAreKeys DEF IInv, Shape, TypeOK
    <3>. QED BY <3>1 DEF IInv, Shape, TypeOK, Task, Invite
  <2>2. /\ generate(s, k) /\ task[c] = None /\ c \in Caller
        /\ task' = [task EXCEPT ![c] = t]
        /\ UNCHANGED <<mem, disk, invites, wire, config>>
    BY <1>2 DEF AcceptStarts, Caller
  <2>3. t.mine = k /\ t.invite = invite
    OBVIOUS
  <2>. HIDE DEF t
  <2>. QED BY <2>1, <2>2, <2>3, BeginOnce
<1>3. ASSUME NEW d \in Device, EnrolStarts(d, invite, k)
      PROVE  Once' /\ InOrder
  <2>. DEFINE t == [at |-> d, alias |-> None, invite |-> invite, mine |-> k,
                    told |-> {k}, untried |-> invite.addresses, to |-> None]
  <2>1. t \in Task
    BY DEF IInv, Shape, TypeOK, Task, Invite
  <2>2. /\ generate(d, k) /\ task[d] = None /\ d \in Caller
        /\ task' = [task EXCEPT ![d] = t]
        /\ UNCHANGED <<mem, disk, invites, wire, config>>
    BY <1>3 DEF EnrolStarts, Caller
  <2>3. t.mine = k /\ t.invite = invite
    OBVIOUS
  <2>. HIDE DEF t
  <2>. QED BY <2>1, <2>2, <2>3, BeginOnce
<1>. QED BY <1>1, <1>2, <1>3

(* The messages that are lost, or greet somebody. *)
LEMMA MessageOnce ==
    ASSUME IInv, IInv', Once, DisksGrow, NEW m \in wire,
           Lose(m) \/ \E s \in Sirji : Greet(s, m)
    PROVE  Once' /\ InOrder
<1>1. ASSUME Lose(m)
      PROVE  Once' /\ InOrder
  <2>1. /\ UNCHANGED <<mem, disk, store, invites>> /\ wire' \subseteq wire
        /\ task' = task /\ Running' = Running /\ config' = config
    BY <1>1 DEF Lose, Running
  <2>. QED BY <2>1, QuietOnce
<1>2. ASSUME NEW s \in Sirji, NEW on \in bound[s], GreetRefused(s, m, on)
      PROVE  Once' /\ InOrder
  <2>1. /\ UNCHANGED <<mem, disk, store, invites>>
        /\ task' = task /\ Running' = Running /\ config' = config
    BY <1>2 DEF GreetRefused, Running
  <2>2. \A w \in wire' : w \in wire \/ w.type = "No"
    BY <1>2 DEF GreetRefused, Answers, No
  <2>. QED BY <2>1, <2>2, QuietOnce
<1>3. ASSUME NEW s \in Sirji, Greet(s, m)
      PROVE  Once' /\ InOrder
  BY <1>2, <1>3, GreetKnownOnce, GreetInvitedDeviceOnce, GreetInvitedPeerOnce DEF Greet
<1>. QED BY <1>1, <1>3

(* The steps of a command. *)
LEMMA ProceedOnce ==
    ASSUME IInv, IInv', Once, DisksGrow, NEW c \in Caller,
           Proceed(c) \/ (c \in Device /\ EnrolStops(c))
    PROVE  Once' /\ InOrder
<1>1. ASSUME c \in Running, UNCHANGED <<mem, disk, store, invites>>,
             NEW t \in Task \cup {None}, task' = [task EXCEPT ![c] = t],
             t # None => t.mine = task[c].mine /\ t.invite = task[c].invite,
             \A m \in wire' : \/ m \in wire
                              \/ /\ m.type = "Invited" /\ m.from = task[c].mine
                                 /\ m.invited_to = task[c].invite.identity,
             \A d \in Device : config'[d] # None =>
               \/ config'[d] = config[d]
               \/ \A k, name : k = config'[d].key /\ name = config'[d].name => Named(k, name)
      PROVE  Once' /\ InOrder
  <2>1. \A x \in Running' : /\ x \in Running
                            /\ task'[x].mine = task[x].mine
                            /\ task'[x].invite = task[x].invite
    BY <1>1 DEF Running, IInv, Shape, TypeOK
  <2>2. <<task[c].mine, task[c].invite.identity>> \in Bindings
    BY <1>1 DEF Bindings
  <2>. QED BY <1>1, <2>1, <2>2, QuietOnce
<1>2. ASSUME NEW address \in Key, Dial(c, address)
      PROVE  Once' /\ InOrder
  <2>. DEFINE t == [task[c] EXCEPT !.to = address, !.untried = @ \ {address}]
  <2>1. c \in Running /\ task[c] \in Task
    BY <1>2 DEF Dial, Running, IInv, Shape, TypeOK
  <2>2. task' = [task EXCEPT ![c] = t]
    BY <1>2, Zenon DEF Dial
  <2>4. t \in Task /\ t.mine = task[c].mine /\ t.invite = task[c].invite
    BY <2>1 DEF Task
  <2>3. \A m \in wire' : \/ m \in wire
                         \/ /\ m.type = "Invited" /\ m.from = task[c].mine
                            /\ m.invited_to = task[c].invite.identity
    BY <1>2 DEF Dial
  <2>. HIDE DEF t
  <2>. QED BY <1>1, <1>2, <2>1, <2>2, <2>3, <2>4 DEF Dial
<1>3. ASSUME NEW address \in Key, DialFails(c, address)
      PROVE  Once' /\ InOrder
  <2>. DEFINE t == [task[c] EXCEPT !.untried = @ \ {address}]
  <2>1. c \in Running /\ task[c] \in Task
    BY <1>3 DEF DialFails, Running, IInv, Shape, TypeOK
  <2>2. /\ t \in Task /\ t.mine = task[c].mine /\ t.invite = task[c].invite
        /\ task' = [task EXCEPT ![c] = t]
    BY <1>3, <2>1 DEF DialFails, IInv, Shape, TypeOK, Task
  <2>. HIDE DEF t
  <2>. QED BY <1>1, <1>3, <2>1, <2>2 DEF DialFails
<1>4. ASSUME ConnectionLost(c) \/ \E m \in wire : AcceptRefused(c, m)
      PROVE  Once' /\ InOrder
  <2>. DEFINE t == [task[c] EXCEPT !.to = None]
  <2>1. c \in Running /\ task[c] \in Task
    BY <1>4 DEF ConnectionLost, AcceptRefused, Reads, Running, IInv, Shape, TypeOK
  <2>2. /\ t \in Task /\ t.mine = task[c].mine /\ t.invite = task[c].invite
        /\ task' = [task EXCEPT ![c] = t]
    BY <1>4, <2>1 DEF ConnectionLost, AcceptRefused, IInv, Shape, TypeOK, Task
  <2>3. UNCHANGED <<mem, disk, store, invites, config>> /\ wire' \subseteq wire
    BY <1>4 DEF ConnectionLost, AcceptRefused
  <2>. HIDE DEF t
  <2>. QED BY <1>1, <2>1, <2>2, <2>3
<1>5. ASSUME \/ GiveUp(c)
             \/ c \in Device /\ (EnrolStops(c) \/ \E m \in wire : EnrolRefused(c, m))
      PROVE  Once' /\ InOrder
  <2>1. /\ c \in Running /\ task' = [task EXCEPT ![c] = None]
        /\ UNCHANGED <<mem, disk, store, invites, config>> /\ wire' \subseteq wire
    BY <1>5 DEF GiveUp, EnrolStops, EnrolRefused, Reads
  <2>. QED BY <1>1, <2>1
<1>6. ASSUME c \in Device, NEW m \in wire, EnrolEnds(c, m)
      PROVE  Once' /\ InOrder
  <2>1. /\ c \in Running /\ task' = [task EXCEPT ![c] = None]
        /\ UNCHANGED <<mem, disk, store, invites>> /\ wire' \subseteq wire
        /\ m.type = "Ok" /\ m.from = task[c].mine
    BY <1>6 DEF EnrolEnds, Reads
  <2>2. Named(m.from, m.name)
    BY <2>1 DEF Once, OkMeansNamed
  <2>3. /\ \A d \in Device : d # c => config'[d] = config[d]
        /\ config'[c].key = m.from /\ config'[c].name = m.name
    BY <1>6, <2>1 DEF EnrolEnds, IInv, Shape, TypeOK
  <2>4. \A d \in Device : config'[d] # None =>
          \/ config'[d] = config[d]
          \/ \A k, name : k = config'[d].key /\ name = config'[d].name => Named(k, name)
    BY <2>2, <2>3
  <2>. QED BY <1>1, <2>1, <2>4
<1>7. CASE c \in Device /\ EnrolStops(c)
  BY <1>5, <1>7
<1>. QED BY <1>2, <1>3, <1>4, <1>5, <1>6, <1>7, AcceptEndsOnce DEF Proceed

(* Once holds to begin with. *)
LEMMA InitOnce == Init => Once
<1>. SUFFICES ASSUME Init
              PROVE  Once
  OBVIOUS
<1>1. Running = {} /\ wire = {} /\ InviteIds = {}
  BY DEF Init, Running, InviteIds
<1>2. \A s \in Sirji : mem[s] = NetworkAtInit(s) /\ disk[s] = NetworkAtInit(s)
  BY DEF Init
<1>3. KeyFilesApart
  BY HomeKeysAreFresh DEF Init, KeyFilesApart
<1>4. NetsApart
  <2>. SUFFICES ASSUME NEW s \in Sirji
                PROVE  OwnApart(NetworkAtInit(s))
    BY <1>2 DEF NetsApart
  <2>1. /\ DOMAIN NetworkAtInit(s).peers = {}
        /\ DOMAIN NetworkAtInit(s).devices = {}
    BY DEF NetworkAtInit
  <2>2. Mines(NetworkAtInit(s)) = {} /\ DeviceInvites(NetworkAtInit(s)) = {}
    BY <2>1 DEF Mines, DeviceInvites
  <2>. QED BY <2>1, <2>2 DEF OwnApart, DistinctMine
<1>5. Apart
  BY <1>1, <1>3, <1>4 DEF Apart, TasksApart
<1>6. OneTaken /\ OneClaims /\ ClaimsAreTaken
  BY <1>1 DEF OneTaken, OneClaims, ClaimsAreTaken
<1>7. PairsInvited
  <2>. SUFFICES ASSUME NEW s \in Sirji
                PROVE  PairsAt(s) = {}
    BY DEF PairsInvited
  <2>1. DOMAIN NetworkAtInit(s).peers = {}
    BY DEF NetworkAtInit
  <2>2. Pairs(NetworkAtInit(s)) = {}
    BY <2>1 DEF Pairs
  <2>. QED BY <1>2, <2>2 DEF PairsAt
<1>8. GreetingsInvited /\ OkMeansNamed
  BY <1>1 DEF GreetingsInvited, OkMeansNamed
<1>9. EnrolledImpliesKnown
  BY DEF Init, EnrolledImpliesKnown
<1>. QED BY <1>5, <1>6, <1>7, <1>8, <1>9 DEF Once

(* Every step keeps it. *)
LEMMA OnceStays == IInv /\ Once /\ [Next]_vars => Once' /\ InOrder
<1>. SUFFICES ASSUME IInv, Once, [Next]_vars
              PROVE  Once' /\ InOrder
  OBVIOUS
<1>1. IInv'
  BY IInvKept
<1>2. DisksGrow
  BY DiskGrows DEF DisksGrow
<1>3. CASE \E s \in Sirji : Command(s)
  BY <1>1, <1>2, <1>3, CommandOnce
<1>4. CASE Begin
  BY <1>1, <1>4, BeginsOnce
<1>5. CASE \E m \in wire : Lose(m) \/ \E s \in Sirji : Greet(s, m)
  BY <1>1, <1>2, <1>5, MessageOnce
<1>6. CASE \E c \in Caller : Proceed(c)
  BY <1>1, <1>2, <1>6, ProceedOnce
<1>7. CASE \E d \in Device : EnrolStops(d)
  BY <1>1, <1>2, <1>7, ProceedOnce DEF Caller
<1>8. CASE UNCHANGED vars
  <2>1. /\ UNCHANGED <<mem, disk, store, invites>> /\ wire' = wire
        /\ task' = task /\ Running' = Running /\ config' = config
    BY <1>8 DEF vars, Running
  <2>. QED BY <1>1, <2>1, QuietOnce
<1>. QED BY <1>3, <1>4, <1>5, <1>6, <1>7, <1>8 DEF Next

(* Whose keys are whose, and who goes by which invite (greet_inner, accept, *)
(* Keystore::generate).                                                     *)
THEOREM OnceInductive == Spec => [](IInv /\ Once)
<1>1. Init => IInv /\ Once
  BY InitIInv, InitOnce
<1>2. IInv /\ Once /\ [Next]_vars => IInv' /\ Once'
  BY IInvKept, OnceStays
<1>. QED BY <1>1, <1>2, PTL DEF Spec

-----------------------------------------------------------------------------
(* What follows. *)

(* Two entries that have a key of ours in common are one. *)
LEMMA OneEntry ==
    ASSUME IInv, Once, NEW s \in Sirji, NEW r \in Sirji,
           NEW i \in DOMAIN mem[s].peers, NEW j \in DOMAIN mem[r].peers,
           mem[s].peers[i].mine = mem[r].peers[j].mine
    PROVE  s = r /\ i = j
<1>1. mem[s].peers[i].mine \in Own(s) /\ mem[r].peers[j].mine \in Own(r)
  BY DEF Own, OwnKeys
<1>2. s = r
  BY <1>1, HomesApart DEF Once, Apart
<1>. QED BY <1>2 DEF Once, Apart, NetsApart, OwnApart, DistinctMine

(* An identity has one use, by one sirji, and is not its address (Invite,   *)
(* accept).                                                                 *)
THEOREM IdentitiesUnlinkable == Spec => []Unlinkable
<1>1. ASSUME IInv, Once
      PROVE  Unlinkable
  <2>1. ASSUME NEW s \in Sirji, NEW r \in Sirji, NEW i \in DOMAIN mem[s].peers,
               NEW j \in DOMAIN mem[r].handshake_keys,
               mem[s].peers[i].mine = mem[r].handshake_keys[j].key
        PROVE  FALSE
    <3>1. mem[s].peers[i].mine \in Own(s) /\ mem[s].peers[i].mine \in Own(r)
      BY <2>1 DEF Own, OwnKeys
    <3>2. s = r
      BY <1>1, <3>1, HomesApart DEF Once, Apart
    <3>3. mem[s].peers[i].mine \in Mines(mem[s]) \cap AddressKeys(mem[s])
      BY <2>1, <3>2 DEF Mines, AddressKeys
    <3>. QED BY <1>1, <3>3 DEF Once, Apart, NetsApart, OwnApart
  <2>2. ASSUME NEW c \in Running, NEW s \in Sirji, NEW i \in DOMAIN mem[s].peers
        PROVE  mem[s].peers[i].mine # task[c].mine
    <3>1. mem[s].peers[i].mine \in Own(s)
      BY DEF Own, OwnKeys
    <3>. QED BY <1>1, <3>1 DEF Once, Apart, TasksApart
  <2>. QED BY <1>1, <2>1, <2>2, OneEntry DEF Unlinkable
<1>. QED BY <1>1, OnceInductive, PTL

(* A caller's key is in the one entry it can be in, at the one sirji, and   *)
(* of all that try to accept an invite one comes to hold it (peer_by_key,   *)
(* pending_by_mine, greet_inner, accept).                                   *)
THEOREM PeerKeysAreApart == Spec => []PeerKeysApart
<1>1. ASSUME IInv, Once
      PROVE  PeerKeysApart
  <2>. SUFFICES ASSUME NEW s \in Sirji, NEW r \in Sirji, NEW i \in DOMAIN mem[s].peers,
                       NEW j \in DOMAIN mem[r].peers, mem[s].peers[i].peer # None,
                       mem[r].peers[j].peer = mem[s].peers[i].peer
                PROVE  s = r /\ i = j
    BY DEF PeerKeysApart
  <2>1. /\ <<mem[s].peers[i].mine, mem[s].peers[i].peer>> \in PairsAt(s)
        /\ <<mem[r].peers[j].mine, mem[s].peers[i].peer>> \in PairsAt(r)
    BY DEF PairsAt, Pairs
  <2>2. mem[s].peers[i].mine = mem[r].peers[j].mine
    <3>1. CASE mem[s].peers[i].peer \in InviteIds
      <4>1. mem[s].peers[i].mine \in Key /\ mem[r].peers[j].mine \in Key
        BY <1>1, Entries DEF IInv, Shape, TypeOK, Peer
      <4>2. /\ Claims(mem[s].peers[i].mine, mem[s].peers[i].peer)
            /\ Claims(mem[r].peers[j].mine, mem[s].peers[i].peer)
        BY <2>1, <3>1 DEF Claims
      <4>. QED BY <1>1, <3>1, <4>1, <4>2 DEF Once, OneClaims
    <3>2. CASE mem[s].peers[i].peer \notin InviteIds
      <4>1. mem[s].peers[i].mine \in InviteIds /\ mem[r].peers[j].mine \in InviteIds
        BY <1>1, <2>1, <3>2 DEF Once, PairsInvited
      <4>. QED BY <1>1, <2>1, <4>1 DEF Once, OneTaken
    <3>. QED BY <3>1, <3>2
  <2>. QED BY <1>1, <2>2, OneEntry
<1>. QED BY <1>1, OnceInductive, PTL

(* A device with a config is on the list of a sirji, by the name it was     *)
(* given (greet_inner, t-sirji-fs init).                                    *)
THEOREM EnrolledAreKnown == Spec => []EnrolledImpliesKnown
<1>1. Once => EnrolledImpliesKnown
  BY DEF Once
<1>. QED BY <1>1, OnceInductive, PTL

-----------------------------------------------------------------------------
(* One exchange at a time. *)

(* A step that sends nothing, and no command goes back in. *)
LEMMA QuietExchange ==
    ASSUME OneExchange, wire' \subseteq wire,
           \A c \in Running' : /\ c \in Running
                               /\ task'[c].mine = task[c].mine
                               /\ task'[c].untried \subseteq task[c].untried
    PROVE  OneExchange'
BY DEF OneExchange

(* A greeting of somebody who is no running command. *)
LEMMA PeerExchange ==
    ASSUME Once, OneExchange, NEW s \in Sirji, NEW i \in DOMAIN mem[s].peers,
           NEW address, DialPeer(s, i, address)
    PROVE  OneExchange'
<1>1. /\ UNCHANGED task /\ Running' = Running
      /\ \A m \in wire' : m \in wire \/ m.from = mem[s].peers[i].mine
  BY DEF DialPeer, Running
<1>2. mem[s].peers[i].mine \in Own(s)
  BY DEF Own, OwnKeys
<1>3. \A c \in Running : task[c].mine # mem[s].peers[i].mine
  BY <1>2 DEF Once, Apart, TasksApart
<1>. QED BY <1>1, <1>3 DEF OneExchange

(* A command that begins has a key nobody has sent anything from. *)
LEMMA BeginExchange ==
    ASSUME IInv, OneExchange, NEW c \in Caller, NEW h \in Sirji \cup Device, NEW k \in Key,
           generate(h, k), NEW t \in Task, t.mine = k, task' = [task EXCEPT ![c] = t],
           UNCHANGED wire
    PROVE  OneExchange'
<1>1. \A m \in wire : m.from # k
  BY FreshUnknown DEF generate, IInv, KeysKnown
<1>2. \A e \in Running' : (e \in Running /\ task'[e] = task[e]) \/ (e = c /\ task'[e].mine = k)
  BY DEF Running, IInv, Shape, TypeOK
<1>. QED BY <1>1, <1>2 DEF OneExchange

(* An answer takes the place of the greeting. *)
LEMMA AnswerExchange ==
    ASSUME OneExchange, NEW m \in wire, UNCHANGED task, NEW w, w.from = m.from, w.to = m.to,
           wire' = (wire \ {m}) \/ wire' = (wire \ {m}) \cup {w}
    PROVE  OneExchange'
<1>. SUFFICES ASSUME NEW c \in Running, NEW x \in wire', x.from = task[c].mine
              PROVE  /\ x.to \notin task[c].untried
                     /\ \A v \in wire' : v.from = x.from /\ v.to = x.to => v = x
  BY DEF OneExchange, Running
<1>1. PICK y \in wire : y.from = x.from /\ y.to = x.to
  OBVIOUS
<1>2. x.to \notin task[c].untried
  BY <1>1 DEF OneExchange
<1>3. \A v, u \in wire : v.from = x.from /\ v.to = x.to /\ u.from = x.from /\ u.to = x.to => v = u
  BY DEF OneExchange
<1>4. ASSUME NEW v \in wire', v.from = x.from, v.to = x.to
      PROVE  v = x
  <2>1. CASE m.from = x.from /\ m.to = x.to
    BY <1>3, <1>4, <2>1
  <2>2. CASE ~(m.from = x.from /\ m.to = x.to)
    BY <1>3, <1>4, <2>2
  <2>. QED BY <2>1, <2>2
<1>. QED BY <1>2, <1>4

(* A command dials an address it has not dialled before. *)
LEMMA DialExchange ==
    ASSUME IInv, Once, OneExchange, NEW c \in Caller, NEW address \in Key, Dial(c, address)
    PROVE  OneExchange'
<1>1. c \in Running /\ task[c] \in Task /\ address \in task[c].untried
  BY DEF Dial, Running, IInv, Shape, TypeOK
<1>. PICK g : /\ g.from = task[c].mine /\ g.to = address
              /\ wire' = wire \cup {g}
  BY DEF Dial
<1>2. /\ Running' \subseteq Running
      /\ \A e \in Running : /\ task'[e].mine = task[e].mine
                            /\ task'[e].untried \subseteq task[e].untried
      /\ address \notin task'[c].untried
  <2>. DEFINE t == [task[c] EXCEPT !.to = address, !.untried = @ \ {address}]
  <2>1. task' = [task EXCEPT ![c] = t]
    BY Zenon DEF Dial
  <2>2. t.mine = task[c].mine /\ t.untried = task[c].untried \ {address}
    BY <1>1 DEF Task
  <2>. HIDE DEF t
  <2>. QED BY <1>1, <2>1, <2>2 DEF Running, IInv, Shape, TypeOK
<1>3. \A m \in wire : m.from = task[c].mine => m.to # address
  BY <1>1 DEF OneExchange
<1>4. \A e \in Running : task[e].mine = task[c].mine => e = c
  BY <1>1 DEF Once, Apart, TasksApart
<1>. SUFFICES ASSUME NEW e \in Running, NEW m \in wire', m.from = task[e].mine
              PROVE  /\ m.to \notin task'[e].untried
                     /\ \A n \in wire' : n.from = m.from /\ n.to = m.to => n = m
  BY <1>2 DEF OneExchange
<1>5. CASE e = c
  BY <1>2, <1>3, <1>5 DEF OneExchange
<1>6. CASE e # c
  <2>1. task[e].mine # task[c].mine
    BY <1>1, <1>4, <1>6
  <2>. QED BY <1>2, <2>1 DEF OneExchange
<1>. QED BY <1>5, <1>6

(* A command's other steps send nothing, and go on or end. *)
LEMMA ProceedExchange ==
    ASSUME IInv, Once, OneExchange, NEW c \in Caller,
           Proceed(c) \/ (c \in Device /\ EnrolStops(c))
    PROVE  OneExchange'
<1>1. ASSUME NEW t, task' = [task EXCEPT ![c] = t], wire' \subseteq wire, c \in Running,
             t = None \/ (t.mine = task[c].mine /\ t.untried \subseteq task[c].untried)
      PROVE  OneExchange'
  <2>1. \A e \in Running' : /\ e \in Running
                            /\ task'[e].mine = task[e].mine
                            /\ task'[e].untried \subseteq task[e].untried
    BY <1>1 DEF Running, IInv, Shape, TypeOK
  <2>. QED BY <1>1, <2>1, QuietExchange
<1>2. ASSUME NEW address \in Key, DialFails(c, address)
      PROVE  OneExchange'
  <2>. DEFINE t == [task[c] EXCEPT !.untried = @ \ {address}]
  <2>1. c \in Running /\ task[c] \in Task
    BY <1>2 DEF DialFails, Running, IInv, Shape, TypeOK
  <2>2. t.mine = task[c].mine /\ t.untried \subseteq task[c].untried
    BY <2>1 DEF Task
  <2>3. task' = [task EXCEPT ![c] = t] /\ wire' = wire
    BY <1>2, <2>1 DEF DialFails, IInv, Shape, TypeOK
  <2>. HIDE DEF t
  <2>. QED BY <1>1, <2>1, <2>2, <2>3
<1>3. ASSUME ConnectionLost(c) \/ \E m \in wire : AcceptRefused(c, m)
      PROVE  OneExchange'
  <2>. DEFINE t == [task[c] EXCEPT !.to = None]
  <2>1. c \in Running /\ task[c] \in Task
    BY <1>3 DEF ConnectionLost, AcceptRefused, Reads, Running, IInv, Shape, TypeOK
  <2>2. t.mine = task[c].mine /\ t.untried \subseteq task[c].untried
    BY <2>1 DEF Task
  <2>3. task' = [task EXCEPT ![c] = t] /\ wire' \subseteq wire
    BY <1>3, <2>1 DEF ConnectionLost, AcceptRefused, IInv, Shape, TypeOK
  <2>. HIDE DEF t
  <2>. QED BY <1>1, <2>1, <2>2, <2>3
<1>4. ASSUME \/ GiveUp(c)
             \/ c \in Device /\ (EnrolStops(c) \/ \E m \in wire : EnrolRefused(c, m))
             \/ \E m \in wire : \/ c \in Device /\ EnrolEnds(c, m)
                                \/ \E saved \in BOOLEAN : AcceptEnds(c, m, saved)
      PROVE  OneExchange'
  <2>1. c \in Running /\ task' = [task EXCEPT ![c] = None] /\ wire' \subseteq wire
    BY <1>4 DEF GiveUp, EnrolStops, EnrolRefused, EnrolEnds, AcceptEnds, Reads
  <2>. QED BY <1>1, <2>1
<1>. QED BY <1>2, <1>3, <1>4, DialExchange DEF Proceed

(* The messages that are lost, or greet somebody. *)
LEMMA MessageExchange ==
    ASSUME OneExchange, NEW m \in wire, Lose(m) \/ \E s \in Sirji : Greet(s, m)
    PROVE  OneExchange'
<1>1. ASSUME Lose(m)
      PROVE  OneExchange'
  <2>1. wire' \subseteq wire /\ UNCHANGED task /\ Running' = Running
    BY <1>1 DEF Lose, Running
  <2>. QED BY <2>1, QuietExchange
<1>2. ASSUME NEW w, w.from = m.from, w.to = m.to, Answers(m, {w}), UNCHANGED task
      PROVE  OneExchange'
  <2>1. wire' = (wire \ {m}) \/ wire' = (wire \ {m}) \cup {w}
    BY <1>2 DEF Answers
  <2>. QED BY <1>2, <2>1, AnswerExchange
<1>3. ASSUME NEW s \in Sirji, NEW saved \in BOOLEAN, NEW name, AnswersIf(saved, m, s, name),
             UNCHANGED task
      PROVE  OneExchange'
  <2>1. /\ Ok(m, s, name).from = m.from /\ Ok(m, s, name).to = m.to
        /\ No(m).from = m.from /\ No(m).to = m.to
    BY DEF Ok, No
  <2>2. Answers(m, {Ok(m, s, name)}) \/ Answers(m, {No(m)})
    BY <1>3 DEF AnswersIf
  <2>. QED BY <1>2, <1>3, <2>1, <2>2
<1>4. ASSUME NEW s \in Sirji, NEW on \in bound[s], GreetRefused(s, m, on)
      PROVE  OneExchange'
  <2>1. No(m).from = m.from /\ No(m).to = m.to
    BY DEF No
  <2>. QED BY <1>2, <1>4, <2>1 DEF GreetRefused
<1>5. ASSUME NEW s \in Sirji, NEW on \in bound[s], NEW saved \in BOOLEAN,
             \/ GreetKnown(s, m, on, saved)
             \/ GreetInvitedDevice(s, m, on, saved)
             \/ GreetInvitedPeer(s, m, on, saved)
      PROVE  OneExchange'
  <2>1. UNCHANGED task /\ \E name : AnswersIf(saved, m, s, name)
    BY <1>5 DEF GreetKnown, GreetInvitedDevice, GreetInvitedPeer
  <2>. QED BY <1>3, <2>1
<1>. QED BY <1>1, <1>4, <1>5 DEF Greet

(* Every step keeps it. *)
LEMMA ExchangeStays == IInv /\ Once /\ OneExchange /\ [Next]_vars => OneExchange'
<1>. SUFFICES ASSUME IInv, Once, OneExchange, [Next]_vars
              PROVE  OneExchange'
  OBVIOUS
<1>1. ASSUME NEW s \in Sirji, Command(s)
      PROVE  OneExchange'
  <2>1. CASE \E i \in DOMAIN mem[s].peers, address \in Key : DialPeer(s, i, address)
    BY <2>1, PeerExchange
  <2>2. CASE Crash(s)
    <3>1. wire' \subseteq wire /\ \A c \in Running' : c \in Running /\ task'[c] = task[c]
      BY <2>2 DEF Crash, Running
    <3>. QED BY <3>1, QuietExchange
  <2>3. ASSUME UNCHANGED <<task, wire>>
        PROVE  OneExchange'
    BY <2>3, QuietExchange DEF Running
  <2>. QED BY <1>1, <2>1, <2>2, <2>3 DEF Command, Start, NewAddress, InvitePeer, InviteDevice
<1>2. CASE Begin
  <2>1. PICK k \in Key, invite \in invites :
          \/ \E c \in Job, s \in Sirji, alias \in Alias : AcceptStarts(c, s, alias, invite, k)
          \/ \E d \in Device : EnrolStarts(d, invite, k)
    BY <1>2 DEF Begin
  <2>2. ASSUME NEW c \in Job, NEW s \in Sirji, NEW alias \in Alias,
              AcceptStarts(c, s, alias, invite, k)
        PROVE  OneExchange'
    <3>. DEFINE t == [at |-> s, alias |-> alias, invite |-> invite, mine |-> k,
                      told |-> current_addresses(mem[s]),
                      untried |-> invite.addresses, to |-> None]
    <3>1. t \in Task
      <4>1. current_addresses(mem[s]) \in SUBSET Key
        BY AddressesAreKeys DEF IInv, Shape, TypeOK
      <4>. QED BY <4>1 DEF IInv, Shape, TypeOK, Task, Invite
    <3>2. generate(s, k) /\ c \in Caller /\ task' = [task EXCEPT ![c] = t] /\ UNCHANGED wire
      BY <2>2 DEF AcceptStarts, Caller
    <3>3. t.mine = k
      OBVIOUS
    <3>. HIDE DEF t
    <3>. QED BY <3>1, <3>2, <3>3, BeginExchange
  <2>3. ASSUME NEW d \in Device, EnrolStarts(d, invite, k)
        PROVE  OneExchange'
    <3>. DEFINE t == [at |-> d, alias |-> None, invite |-> invite, mine |-> k,
                      told |-> {k}, untried |-> invite.addresses, to |-> None]
    <3>1. t \in Task
      BY DEF IInv, Shape, TypeOK, Task, Invite
    <3>2. generate(d, k) /\ d \in Caller /\ task' = [task EXCEPT ![d] = t] /\ UNCHANGED wire
      BY <2>3 DEF EnrolStarts, Caller
    <3>3. t.mine = k
      OBVIOUS
    <3>. HIDE DEF t
    <3>. QED BY <3>1, <3>2, <3>3, BeginExchange
  <2>. QED BY <2>1, <2>2, <2>3
<1>3. CASE \E m \in wire : Lose(m) \/ \E s \in Sirji : Greet(s, m)
  BY <1>3, MessageExchange
<1>4. CASE (\E c \in Caller : Proceed(c)) \/ \E d \in Device : EnrolStops(d)
  BY <1>4, ProceedExchange DEF Caller
<1>5. CASE UNCHANGED vars
  BY <1>5, QuietExchange DEF vars, Running
<1>. QED BY <1>1, <1>2, <1>3, <1>4, <1>5 DEF Next

(* What a command reads is the answer to what it asked, however late others *)
(* come and however often connections break (accept, greet_parent).         *)
THEOREM ExchangesAreOne == Spec => []OneExchange
<1>1. Init => OneExchange
  BY DEF Init, OneExchange, Running
<1>. QED BY <1>1, OnceInductive, ExchangeStays, PTL DEF Spec

-----------------------------------------------------------------------------
(* Pairing implements Invitation. *)

(* A pair on file, with a key of ours in common, is one pair. *)
LEMMA OnePair ==
    ASSUME IInv, Once, NEW x \in DiskPairs, NEW y \in DiskPairs, x[1] = y[1]
    PROVE  x = y
<1>1. PICK s \in Sirji : x \in Pairs(disk[s])
  BY DEF DiskPairs
<1>2. PICK r \in Sirji : y \in Pairs(disk[r])
  BY DEF DiskPairs
<1>3. PICK i \in DOMAIN disk[s].peers : x = <<disk[s].peers[i].mine, disk[s].peers[i].peer>>
  BY <1>1 DEF Pairs
<1>4. PICK j \in DOMAIN disk[r].peers : y = <<disk[r].peers[j].mine, disk[r].peers[j].peer>>
  BY <1>2 DEF Pairs
<1>5. disk[s].peers[i].mine = disk[r].peers[j].mine
  BY <1>3, <1>4
<1>6. disk[s].peers[i].mine \in Own(s) /\ disk[r].peers[j].mine \in Own(r)
  BY DEF Own, OwnKeys
<1>7. s = r
  BY <1>5, <1>6, HomesApart DEF Once, Apart
<1>8. i = j
  BY <1>5, <1>7 DEF Once, Apart, NetsApart, OwnApart, DistinctMine
<1>. QED BY <1>3, <1>4, <1>7, <1>8

(* A pair on file is a pair of keys of somebody. *)
LEMMA DiskPairsAreKeys ==
    ASSUME IInv, NEW x \in DiskPairs
    PROVE  /\ x = <<x[1], x[2]>> /\ x[1] \in Key /\ x[2] \in Key \cup {None}
           /\ \E s \in Sirji : x \in PairsAt(s)
<1>1. PICK s \in Sirji : x \in PairsAt(s)
  BY DEF DiskPairs, PairsAt
<1>. QED BY <1>1, PairsAreKeys, PairsArePairs DEF IInv, Shape

(* An invite is taken by one key, and a key takes one. *)
LEMMA TakenOneToOne ==
    ASSUME IInv, Once
    PROVE  Invites!OneToOne(Taken)
<1>. SUFFICES ASSUME NEW x \in Taken, NEW y \in Taken, x[1] = y[1] \/ x[2] = y[2]
              PROVE  x = y
  BY DEF Invites!OneToOne
<1>1. /\ x \in DiskPairs /\ x[1] \in InviteIds /\ x[2] # None
      /\ y \in DiskPairs /\ y[1] \in InviteIds
  BY DEF Taken
<1>2. x[2] = y[2] => x[1] = y[1]
  <2>1. (\E s \in Sirji : x \in PairsAt(s)) /\ (\E r \in Sirji : y \in PairsAt(r))
    BY <1>1, DiskPairsAreKeys
  <2>. QED BY <1>1, <2>1 DEF Once, OneTaken
<1>. QED BY <1>1, <1>2, OnePair

(* An invite is held by one key, and a key holds one. *)
LEMMA HeldOneToOne ==
    ASSUME IInv, Once
    PROVE  Invites!OneToOne(Held)
<1>. SUFFICES ASSUME NEW x \in DiskPairs, x[2] \in InviteIds,
                     NEW y \in DiskPairs, y[2] \in InviteIds,
                     x[2] = y[2] \/ x[1] = y[1]
              PROVE  <<x[2], x[1]>> = <<y[2], y[1]>>
  BY DEF Invites!OneToOne, Held
<1>1. /\ x = <<x[1], x[2]>> /\ x[1] \in Key /\ \E s \in Sirji : x \in PairsAt(s)
      /\ y = <<y[1], y[2]>> /\ y[1] \in Key /\ \E s \in Sirji : y \in PairsAt(s)
  BY DiskPairsAreKeys
<1>2. Claims(x[1], x[2]) /\ Claims(y[1], y[2])
  BY <1>1 DEF Claims
<1>3. x[2] = y[2] => x[1] = y[1]
  BY <1>1, <1>2 DEF Once, OneClaims
<1>4. x[1] = y[1] => x = y
  BY OnePair
<1>. QED BY <1>3, <1>4

(* What the files say is never taken back. *)
LEMMA FilesKept ==
    ASSUME IInv, DisksGrow, InOrder
    PROVE  Invites!Kept
<1>1. InviteIds \subseteq InviteIds'
  BY DEF InOrder
<1>2. ASSUME NEW x \in DiskPairs, x[2] # None
      PROVE  x \in DiskPairs'
  <2>1. PICK s \in Sirji : x \in Pairs(disk[s])
    BY <1>2 DEF DiskPairs
  <2>2. x = <<x[1], x[2]>>
    BY <1>2, DiskPairsAreKeys
  <2>3. x \in Pairs(disk'[s])
    BY <1>2, <2>1, <2>2, PairStays
  <2>. QED BY <2>3 DEF DiskPairs
<1>3. Taken \subseteq Taken'
  BY <1>1, <1>2 DEF Taken
<1>4. Held \subseteq Held'
  <2>1. \A x \in DiskPairs : x[2] \in InviteIds => x \in DiskPairs' /\ x[2] \in InviteIds'
    BY <1>1, <1>2, InvitesKnown
  <2>. QED BY <2>1 DEF Held
<1>5. Enrolled \subseteq Enrolled'
  <2>. SUFFICES ASSUME NEW s \in Sirji, NEW i \in DOMAIN disk[s].devices,
                       NEW e \in Range(disk[s].devices[i].keys)
                PROVE  e \in Enrolled'
    BY DEF Enrolled
  <2>1. disk[s].devices[i].keys # << >>
    BY DEF Range
  <2>2. /\ i \in DOMAIN disk'[s].devices
        /\ disk'[s].devices[i].keys = disk[s].devices[i].keys
    BY <2>1 DEF DisksGrow, Grows
  <2>3. e \in Range(disk'[s].devices[i].keys)
    BY <2>2
  <2>. QED BY <2>2, <2>3 DEF Enrolled
<1>. QED BY <1>1, <1>3, <1>4, <1>5 DEF Invites!Kept

(* What is held newly was taken before, or led to a device. *)
LEMMA HeldWasTaken ==
    ASSUME Once, IInv, IInv', InOrder
    PROVE  Held' \subseteq Taken \cup (InviteIds \X Enrolled)
<1>. SUFFICES ASSUME NEW x \in DiskPairs', x[2] \in InviteIds'
              PROVE  <<x[2], x[1]>> \in Taken \cup (InviteIds \X Enrolled)
  BY DEF Held
<1>1. PICK s \in Sirji : x \in Pairs(disk'[s])
  BY DEF DiskPairs
<1>2. x \in PairsAt(s)'
  BY <1>1 DEF PairsAt
<1>3. x[1] \in Key /\ x[1] # None
  <2>1. disk'[s] \in Network
    BY DEF IInv, Shape, TypeOK
  <2>. QED BY <1>1, <2>1, Entries, NoneIsNoValue DEF Pairs, Peer
<1>4. x[2] \in InviteIds /\ Claims(x[1], x[2])
  BY <1>2 DEF InOrder
<1>5. Took(x[1], x[2])
  BY <1>3, <1>4 DEF Once, ClaimsAreTaken
<1>6. ASSUME NEW r \in Sirji, <<x[2], x[1]>> \in Pairs(disk[r])
      PROVE  <<x[2], x[1]>> \in Taken
  BY <1>3, <1>4, <1>6 DEF Taken, DiskPairs
<1>7. ASSUME NEW r \in Sirji, NEW i \in DOMAIN disk[r].devices, disk[r].devices[i].keys = <<x[1]>>
      PROVE  x[1] \in Enrolled
  <2>1. x[1] \in Range(disk[r].devices[i].keys)
    BY <1>7 DEF Range
  <2>. QED BY <2>1 DEF Enrolled
<1>. QED BY <1>4, <1>5, <1>6, <1>7 DEF Took

(* What is taken newly was offered before. *)
LEMMA TakenWasOffered ==
    ASSUME IInv', InOrder
    PROVE  Taken' \subseteq InviteIds \X Key
<1>. SUFFICES ASSUME NEW x \in DiskPairs', x[1] \in InviteIds', x[2] # None
              PROVE  x \in InviteIds \X Key
  BY DEF Taken
<1>1. PICK s \in Sirji : x \in Pairs(disk'[s])
  BY DEF DiskPairs
<1>2. x \in PairsAt(s)'
  BY <1>1 DEF PairsAt
<1>3. x[2] \in Key
  <2>1. disk'[s] \in Network
    BY DEF IInv, Shape, TypeOK
  <2>. QED BY <1>1, <2>1, Entries DEF Pairs, Peer
<1>4. x[1] \in InviteIds
  BY <1>2 DEF InOrder
<1>5. x = <<x[1], x[2]>>
  BY <1>1 DEF Pairs
<1>. QED BY <1>3, <1>4, <1>5

(* Every step of Pairing is a step of Invitation, or changes none of its    *)
(* variables: an invite is taken by one key, which the inviter has on file  *)
(* before its owner has, and neither file takes it back (greet_inner,       *)
(* accept).                                                                 *)
THEOREM PairingImplementsInvitation == Spec => InvitationKept
<1>1. Init => Invites!Init
  <2>. SUFFICES ASSUME Init
                PROVE  Invites!Init
    OBVIOUS
  <2>1. InviteIds = {}
    BY DEF Init, InviteIds
  <2>2. Taken = {} /\ Held = {}
    BY <2>1 DEF Taken, Held
  <2>3. \A s \in Sirji : DOMAIN disk[s].devices = {}
    BY DEF Init, NetworkAtInit
  <2>4. Enrolled = {}
    BY <2>3 DEF Enrolled
  <2>. QED BY <2>1, <2>2, <2>4 DEF Invites!Init
<1>. DEFINE OneToOnes == Invites!OneToOne(Taken) /\ Invites!OneToOne(Held)
<1>2. IInv /\ Once => OneToOnes
  BY TakenOneToOne, HeldOneToOne
<1>3. IInv /\ Once /\ [Next]_vars /\ OneToOnes' => Invites!Next
  <2>. SUFFICES ASSUME IInv, Once, [Next]_vars, OneToOnes'
                PROVE  Invites!Next
    OBVIOUS
  <2>1. IInv' /\ InOrder /\ DisksGrow
    BY IInvKept, OnceStays, DiskGrows DEF DisksGrow
  <2>2. Invites!Kept
    BY <2>1, FilesKept
  <2>3. Invites!Takes
    BY <2>1, TakenWasOffered DEF Invites!Takes
  <2>4. Invites!Holds
    BY <2>1, HeldWasTaken DEF Invites!Holds
  <2>. QED BY <2>2, <2>3, <2>4 DEF Invites!Next
<1>. HIDE DEF OneToOnes
<1>. QED BY OnceInductive, <1>1, <1>2, <1>3, PTL DEF Spec, InvitationKept, Invites!Spec
=============================================================================
