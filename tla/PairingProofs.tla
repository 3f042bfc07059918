---------------------------- MODULE PairingProofs ----------------------------
(***************************************************************************)
(* Proofs about Pairing, for any number of sirjis, devices, commands in    *)
(* progress, crashes and failed writes.                                    *)
(*                                                                         *)
(* Three layers.  First, what each handler makes of a known net, as a fact *)
(* about records (Evolves, Wrote).  Then Shape, the types and the little   *)
(* about pending entries that the lookups rely on.  Then IInv, seen as     *)
(* what a step adds to the known nets, to the messages and to the invites  *)
(* (Kept); the theorems follow from it.                                    *)
(***************************************************************************)
EXTENDS PairingInvariant, SequenceTheorems, TLAPS

-----------------------------------------------------------------------------
(* What each handler makes of the known net, as a record. *)

(* An entry that is pushed leaves the ones before it where they are. *)
LEMMA PushedPeer ==
    ASSUME NEW n \in Network, NEW p \in Peer,
           NEW q, q = [n EXCEPT !.peers = Append(@, p)]
    PROVE  /\ q \in Network
           /\ q.handshake_keys = n.handshake_keys
           /\ q.devices = n.devices
           /\ Len(n.peers) \in Nat
           /\ DOMAIN n.peers = 1 .. Len(n.peers)
           /\ DOMAIN q.peers = 1 .. Len(n.peers) + 1
           /\ \A i \in DOMAIN n.peers : q.peers[i] = n.peers[i]
           /\ q.peers[Len(n.peers) + 1] = p
<1>1. n.peers \in Seq(Peer) BY DEF Network
<1>2. q.peers = Append(n.peers, p) /\ q.devices = n.devices
      /\ q.handshake_keys = n.handshake_keys BY DEF Network
<1>3. q.peers \in Seq(Peer) BY <1>1, <1>2, AppendProperties
<1>4. q \in Network BY <1>3 DEF Network
<1>. QED BY <1>1, <1>2, <1>3, <1>4, AppendProperties, LenProperties

(* The same of a device, at the end of the devices. *)
LEMMA PushedDevice ==
    ASSUME NEW n \in Network, NEW d \in DeviceEntry,
           NEW q, q = [n EXCEPT !.devices = Append(@, d)]
    PROVE  /\ q \in Network
           /\ q.handshake_keys = n.handshake_keys
           /\ q.peers = n.peers
           /\ Len(n.devices) \in Nat
           /\ DOMAIN n.devices = 1 .. Len(n.devices)
           /\ DOMAIN q.devices = 1 .. Len(n.devices) + 1
           /\ \A i \in DOMAIN n.devices : q.devices[i] = n.devices[i]
           /\ q.devices[Len(n.devices) + 1] = d
<1>1. n.devices \in Seq(DeviceEntry) BY DEF Network
<1>2. q.devices = Append(n.devices, d) /\ q.peers = n.peers
      /\ q.handshake_keys = n.handshake_keys BY DEF Network
<1>3. q.devices \in Seq(DeviceEntry) BY <1>1, <1>2, AppendProperties
<1>4. q \in Network BY <1>3 DEF Network
<1>. QED BY <1>1, <1>2, <1>3, <1>4, AppendProperties, LenProperties

(* The same of a handshake key, at the end of those. *)
LEMMA PushedAddress ==
    ASSUME NEW n \in Network, NEW hk \in HandshakeKey,
           NEW q, q = [n EXCEPT !.handshake_keys = Append(@, hk)]
    PROVE  /\ q \in Network
           /\ q.devices = n.devices
           /\ q.peers = n.peers
           /\ Len(n.handshake_keys) \in Nat
           /\ DOMAIN n.handshake_keys = 1 .. Len(n.handshake_keys)
           /\ DOMAIN q.handshake_keys = 1 .. Len(n.handshake_keys) + 1
           /\ \A i \in DOMAIN n.handshake_keys : q.handshake_keys[i] = n.handshake_keys[i]
           /\ q.handshake_keys[Len(n.handshake_keys) + 1] = hk
<1>1. n.handshake_keys \in Seq(HandshakeKey) BY DEF Network
<1>2. q.handshake_keys = Append(n.handshake_keys, hk) /\ q.peers = n.peers
      /\ q.devices = n.devices BY DEF Network
<1>3. q.handshake_keys \in Seq(HandshakeKey) BY <1>1, <1>2, AppendProperties
<1>4. q \in Network BY <1>3 DEF Network
<1>. QED BY <1>1, <1>2, <1>3, <1>4, AppendProperties, LenProperties

(* Whatever a net lists is an entry of its type. *)
LEMMA Entries ==
    ASSUME NEW n \in Network
    PROVE  /\ \A i \in DOMAIN n.peers : i \in Nat /\ n.peers[i] \in Peer
           /\ \A i \in DOMAIN n.devices : i \in Nat /\ n.devices[i] \in DeviceEntry
           /\ \A i \in DOMAIN n.handshake_keys :
                i \in Nat /\ n.handshake_keys[i] \in HandshakeKey
<1>1. n.peers \in Seq(Peer) /\ n.devices \in Seq(DeviceEntry)
      /\ n.handshake_keys \in Seq(HandshakeKey)
  BY DEF Network
<1>. QED BY <1>1, LenProperties, ElementOfSeq

(* What is advertised are keys. *)
LEMMA AddressesAreKeys ==
    ASSUME NEW n \in Network
    PROVE  current_addresses(n) \in SUBSET Key
BY Entries DEF current_addresses, current, HandshakeKey

-----------------------------------------------------------------------------
(* How a handler changes the known net: n becomes q, which has what n has,  *)
(* the pairs in `new` and the keys in `minted`.                             *)
Evolves(n, q, new, minted) ==
    /\ q \in Network
    /\ Grows(n, q)
    /\ PendingFirst(q)
    /\ Pairs(q) \subseteq Pairs(n) \cup new
    /\ OwnKeys(q) \subseteq OwnKeys(n) \cup minted

(* Grows is an order. *)
LEMMA GrowsReflexive == \A n : Grows(n, n)
BY DEF Grows

(* Growing twice is growing. *)
LEMMA GrowsTransitive ==
    ASSUME NEW n, NEW q, NEW r, Grows(n, q), Grows(q, r)
    PROVE  Grows(n, r)
BY DEF Grows

(* Pushing a handshake key, an entry, or a device, and rewriting an entry.  *)
LEMMA AddressEvolves ==
    ASSUME NEW n \in Network, PendingFirst(n), NEW hk \in HandshakeKey,
           NEW q, q = [n EXCEPT !.handshake_keys = Append(@, hk)]
    PROVE  Evolves(n, q, {}, {hk.key})
<1>1. /\ q \in Network /\ q.peers = n.peers /\ q.devices = n.devices
      /\ Len(n.handshake_keys) \in Nat
      /\ DOMAIN n.handshake_keys = 1 .. Len(n.handshake_keys)
      /\ DOMAIN q.handshake_keys = 1 .. Len(n.handshake_keys) + 1
      /\ \A i \in DOMAIN n.handshake_keys : q.handshake_keys[i] = n.handshake_keys[i]
      /\ q.handshake_keys[Len(n.handshake_keys) + 1] = hk
  BY PushedAddress
<1>2. Grows(n, q)
  BY <1>1 DEF Grows
<1>3. PendingFirst(q) /\ Pairs(q) \subseteq Pairs(n)
  BY <1>1 DEF PendingFirst, Pairs
<1>4. \A i \in DOMAIN q.handshake_keys :
        i \in DOMAIN n.handshake_keys \/ i = Len(n.handshake_keys) + 1
  BY <1>1
<1>5. OwnKeys(q) \subseteq OwnKeys(n) \cup {hk.key}
  BY <1>1, <1>4 DEF OwnKeys
<1>. QED BY <1>1, <1>2, <1>3, <1>5 DEF Evolves

(* A pushed entry adds its pair, and its `mine`. *)
LEMMA PeerEvolves ==
    ASSUME NEW n \in Network, PendingFirst(n), NEW p \in Peer,
           PeerPending(p) => peer_by_alias(n, p.alias) = {},
           NEW q, q = [n EXCEPT !.peers = Append(@, p)]
    PROVE  Evolves(n, q, {<<p.mine, p.peer>>}, {p.mine})
<1>. DEFINE last == Len(n.peers) + 1
<1>1. /\ q \in Network /\ q.handshake_keys = n.handshake_keys /\ q.devices = n.devices
      /\ Len(n.peers) \in Nat
      /\ DOMAIN n.peers = 1 .. Len(n.peers)
      /\ DOMAIN q.peers = 1 .. last
      /\ \A i \in DOMAIN n.peers : q.peers[i] = n.peers[i]
      /\ q.peers[last] = p
  BY PushedPeer
<1>2. /\ \A i \in DOMAIN q.peers : i \in DOMAIN n.peers \/ i = last
      /\ \A i \in DOMAIN n.peers : i <= last /\ i \in DOMAIN q.peers
  BY <1>1
<1>. HIDE DEF last
<1>3. Grows(n, q)
  BY <1>1, <1>2 DEF Grows
<1>4. PendingFirst(q)
  <2>. SUFFICES ASSUME NEW i \in DOMAIN q.peers, NEW j \in DOMAIN q.peers,
                       PeerPending(q.peers[i]), q.peers[j].alias = q.peers[i].alias
                PROVE  i <= j
    BY DEF PendingFirst
  <2>1. CASE i \in DOMAIN n.peers /\ j \in DOMAIN n.peers
    BY <1>1, <2>1 DEF PendingFirst
  <2>2. CASE i \in DOMAIN n.peers /\ j = last
    BY <1>2, <2>2
  <2>3. CASE i = last /\ j \in DOMAIN n.peers
    BY <1>1, <2>3 DEF peer_by_alias
  <2>4. CASE i = last /\ j = last
    BY <1>1, <2>4 DEF last
  <2>. QED BY <1>2, <2>1, <2>2, <2>3, <2>4
<1>5. Pairs(q) \subseteq Pairs(n) \cup {<<p.mine, p.peer>>}
  BY <1>1, <1>2 DEF Pairs
<1>6. OwnKeys(q) \subseteq OwnKeys(n) \cup {p.mine}
  BY <1>1, <1>2 DEF OwnKeys
<1>. QED BY <1>1, <1>3, <1>4, <1>5, <1>6 DEF Evolves

(* A pushed device adds its invite. *)
LEMMA DeviceEvolves ==
    ASSUME NEW n \in Network, PendingFirst(n), NEW d \in DeviceEntry,
           NEW q, q = [n EXCEPT !.devices = Append(@, d)]
    PROVE  Evolves(n, q, {}, {d.invite})
<1>. DEFINE last == Len(n.devices) + 1
<1>1. /\ q \in Network /\ q.handshake_keys = n.handshake_keys /\ q.peers = n.peers
      /\ Len(n.devices) \in Nat
      /\ DOMAIN n.devices = 1 .. Len(n.devices)
      /\ DOMAIN q.devices = 1 .. last
      /\ \A i \in DOMAIN n.devices : q.devices[i] = n.devices[i]
      /\ q.devices[last] = d
  BY PushedDevice
<1>2. /\ \A i \in DOMAIN q.devices : i \in DOMAIN n.devices \/ i = last
      /\ \A i \in DOMAIN n.devices : i \in DOMAIN q.devices
  BY <1>1
<1>. HIDE DEF last
<1>3. Grows(n, q)
  BY <1>1, <1>2 DEF Grows
<1>4. PendingFirst(q) /\ Pairs(q) \subseteq Pairs(n)
  BY <1>1 DEF PendingFirst, Pairs
<1>5. OwnKeys(q) \subseteq OwnKeys(n) \cup {d.invite}
  BY <1>1, <1>2 DEF OwnKeys
<1>. QED BY <1>1, <1>3, <1>4, <1>5 DEF Evolves

(* Noting where a peer arrived adds nothing. *)
LEMMA NoteEvolves ==
    ASSUME NEW n \in Network, PendingFirst(n), NEW j \in DOMAIN n.peers, NEW spot \in Spot,
           NEW q, q = [n EXCEPT !.peers[j] = [@ EXCEPT !.reached_on = spot]]
    PROVE  Evolves(n, q, {}, {})
<1>. DEFINE p == [n.peers[j] EXCEPT !.reached_on = spot]
<1>1. p \in Peer /\ p.alias = n.peers[j].alias /\ p.mine = n.peers[j].mine
      /\ p.peer = n.peers[j].peer
  BY Entries DEF Peer
<1>2. q = [n EXCEPT !.peers[j] = p]
  OBVIOUS
<1>. HIDE DEF p
<1>3. /\ q \in Network /\ q.handshake_keys = n.handshake_keys /\ q.devices = n.devices
      /\ DOMAIN q.peers = DOMAIN n.peers
      /\ \A i \in DOMAIN n.peers : i # j => q.peers[i] = n.peers[i]
      /\ q.peers[j] = p
  <2>1. n.peers \in Seq(Peer)
    BY DEF Network
  <2>2. q.peers = [n.peers EXCEPT ![j] = p] /\ q.devices = n.devices
        /\ q.handshake_keys = n.handshake_keys
    BY <1>2 DEF Network
  <2>3. q.peers \in Seq(Peer)
    BY <1>1, <2>1, <2>2, ExceptSeq, LenProperties
  <2>4. q \in Network
    BY <1>2, <2>3 DEF Network
  <2>. QED BY <2>1, <2>2, <2>4
<1>4. \A i \in DOMAIN n.peers :
        /\ q.peers[i].alias = n.peers[i].alias
        /\ q.peers[i].mine = n.peers[i].mine
        /\ q.peers[i].peer = n.peers[i].peer
  BY <1>1, <1>3
<1>5. Grows(n, q)
  BY <1>3, <1>4 DEF Grows
<1>6. PendingFirst(q) /\ Pairs(q) \subseteq Pairs(n) /\ OwnKeys(q) \subseteq OwnKeys(n)
  BY <1>3, <1>4 DEF PendingFirst, PeerPending, Pairs, OwnKeys
<1>. QED BY <1>3, <1>5, <1>6 DEF Evolves

(* Filling in a pending entry adds its pair. *)
LEMMA FillEvolves ==
    ASSUME NEW n \in Network, PendingFirst(n), NEW j \in DOMAIN n.peers,
           PeerPending(n.peers[j]),
           NEW key \in Key, NEW addresses \in SUBSET Key, NEW spot \in Spot,
           NEW p, p = [n.peers[j] EXCEPT !.peer = key, !.addresses = addresses,
                                         !.reached_on = spot],
           NEW q, q = [n EXCEPT !.peers[j] = p]
    PROVE  Evolves(n, q, {<<n.peers[j].mine, key>>}, {})
<1>1. p \in Peer /\ p.alias = n.peers[j].alias /\ p.mine = n.peers[j].mine /\ p.peer = key
  BY Entries DEF Peer
<1>2. q = [n EXCEPT !.peers[j] = p]
  OBVIOUS
<1>3. /\ q \in Network /\ q.handshake_keys = n.handshake_keys /\ q.devices = n.devices
      /\ DOMAIN q.peers = DOMAIN n.peers
      /\ \A i \in DOMAIN n.peers : i # j => q.peers[i] = n.peers[i]
      /\ q.peers[j] = p
  <2>1. n.peers \in Seq(Peer)
    BY DEF Network
  <2>2. q.peers = [n.peers EXCEPT ![j] = p] /\ q.devices = n.devices
        /\ q.handshake_keys = n.handshake_keys
    BY <1>2 DEF Network
  <2>3. q.peers \in Seq(Peer)
    BY <1>1, <2>1, <2>2, ExceptSeq, LenProperties
  <2>4. q \in Network
    BY <1>2, <2>3 DEF Network
  <2>. QED BY <2>1, <2>2, <2>4
<1>4. \A i \in DOMAIN n.peers :
        /\ q.peers[i].alias = n.peers[i].alias
        /\ q.peers[i].mine = n.peers[i].mine
        /\ PeerPending(q.peers[i]) => PeerPending(n.peers[i])
  BY <1>1, <1>3
<1>5. Grows(n, q)
  BY <1>3, <1>4 DEF Grows, PeerPending
<1>6. PendingFirst(q)
  BY <1>3, <1>4 DEF PendingFirst
<1>7. Pairs(q) \subseteq Pairs(n) \cup {<<n.peers[j].mine, key>>}
  BY <1>1, <1>3 DEF Pairs
<1>8. OwnKeys(q) \subseteq OwnKeys(n)
  BY <1>3, <1>4 DEF OwnKeys
<1>. QED BY <1>1, <1>3, <1>5, <1>6, <1>7, <1>8 DEF Evolves

(* Giving a pending device its key adds nothing of ours. *)
LEMMA EnrolEvolves ==
    ASSUME NEW n \in Network, PendingFirst(n), NEW j \in DOMAIN n.devices,
           DevicePending(n.devices[j]), NEW key \in Key,
           NEW d, d = [n.devices[j] EXCEPT !.keys = <<key>>, !.invite = None],
           NEW q, q = [n EXCEPT !.devices[j] = d]
    PROVE  Evolves(n, q, {}, {})
<1>1. d \in DeviceEntry /\ d.name = n.devices[j].name /\ d.keys = <<key>> /\ d.invite = None
  <2>1. <<key>> \in Seq(Key)
    OBVIOUS
  <2>. QED BY <2>1, Entries DEF DeviceEntry
<1>2. q = [n EXCEPT !.devices[j] = d]
  OBVIOUS
<1>3. /\ q \in Network /\ q.handshake_keys = n.handshake_keys /\ q.peers = n.peers
      /\ DOMAIN q.devices = DOMAIN n.devices
      /\ \A i \in DOMAIN n.devices : i # j => q.devices[i] = n.devices[i]
      /\ q.devices[j] = d
  <2>1. n.devices \in Seq(DeviceEntry)
    BY DEF Network
  <2>2. q.devices = [n.devices EXCEPT ![j] = d] /\ q.peers = n.peers
        /\ q.handshake_keys = n.handshake_keys
    BY <1>2 DEF Network
  <2>3. q.devices \in Seq(DeviceEntry)
    BY <1>1, <2>1, <2>2, ExceptSeq, LenProperties
  <2>4. q \in Network
    BY <1>2, <2>3 DEF Network
  <2>. QED BY <2>1, <2>2, <2>4
<1>4. Grows(n, q)
  BY <1>1, <1>3 DEF Grows, DevicePending
<1>5. PendingFirst(q) /\ Pairs(q) \subseteq Pairs(n)
  BY <1>3 DEF PendingFirst, Pairs
<1>6. OwnKeys(q) \subseteq OwnKeys(n)
  BY <1>1, <1>3 DEF OwnKeys
<1>. QED BY <1>1, <1>3, <1>4, <1>5, <1>6 DEF Evolves

-----------------------------------------------------------------------------
(* The handlers that write.  However a save ends, the net in memory is the  *)
(* new one, and the file is the new one or the old one.                     *)
Wrote(s, q, saved) ==
    /\ mem' = [mem EXCEPT ![s] = q]
    /\ disk' = [disk EXCEPT ![s] = IF saved THEN q ELSE @]
    /\ failures' \in 0 .. MaxFailures

(* Saving, checked or not, writes to memory and maybe to the file. *)
LEMMA SaveWrote ==
    ASSUME TypeOK, NEW s \in Sirji, NEW q, NEW saved \in BOOLEAN,
           save(s, q, saved) \/ check_and_save(s, q, saved)
    PROVE  Wrote(s, q, saved)
<1>1. mem' = [mem EXCEPT ![s] = q]
  BY DEF save, check_and_save
<1>2. disk' = [disk EXCEPT ![s] = IF saved THEN q ELSE @]
  BY DEF save, check_and_save, TypeOK
<1>3. failures' \in 0 .. MaxFailures
  BY BoundsAreNaturals DEF save, check_and_save, TypeOK
<1>. QED BY <1>1, <1>2, <1>3 DEF Wrote

(* What `sirji address new` writes. *)
LEMMA NewAddressWrote ==
    ASSUME TypeOK, PendingsFirst, NEW s \in Sirji, NEW spot \in Spot, NEW k \in Key,
           NEW saved \in BOOLEAN, NewAddress(s, spot, k, saved)
    PROVE  \E q : Evolves(mem[s], q, {}, {k}) /\ Wrote(s, q, saved)
<1>. DEFINE hk == [alias |-> spot, key |-> k, retired |-> FALSE]
            q == [mem[s] EXCEPT !.handshake_keys = Append(@, hk)]
<1>1. hk \in HandshakeKey /\ hk.key = k
  BY DEF HandshakeKey
<1>2. Wrote(s, q, saved)
  BY SaveWrote DEF NewAddress
<1>3. mem[s] \in Network /\ PendingFirst(mem[s])
  BY DEF TypeOK, PendingsFirst
<1>. HIDE DEF hk
<1>4. Evolves(mem[s], q, {}, {k})
  BY <1>1, <1>3, AddressEvolves
<1>. QED BY <1>2, <1>4

(* What `sirji invite` writes. *)
LEMMA InvitePeerWrote ==
    ASSUME TypeOK, PendingsFirst, NEW s \in Sirji, NEW alias \in Alias, NEW k \in Key,
           NEW saved \in BOOLEAN, InvitePeer(s, alias, k, saved)
    PROVE  \E q : Evolves(mem[s], q, {<<k, None>>}, {k}) /\ Wrote(s, q, saved)
<1>. DEFINE p == [alias |-> alias, peer |-> None, mine |-> k, addresses |-> {},
                  reached_on |-> None]
            q == [mem[s] EXCEPT !.peers = Append(@, p)]
<1>1. p \in Peer /\ p.mine = k /\ p.peer = None /\ p.alias = alias
  BY DEF Peer
<1>2. Wrote(s, q, saved)
  BY SaveWrote DEF InvitePeer
<1>3. mem[s] \in Network /\ PendingFirst(mem[s]) /\ peer_by_alias(mem[s], p.alias) = {}
  BY <1>1 DEF TypeOK, PendingsFirst, InvitePeer, Knows
<1>. HIDE DEF p
<1>4. Evolves(mem[s], q, {<<p.mine, p.peer>>}, {p.mine})
  BY <1>1, <1>3, PeerEvolves
<1>. QED BY <1>1, <1>2, <1>4

(* What `sirji device invite` writes. *)
LEMMA InviteDeviceWrote ==
    ASSUME TypeOK, PendingsFirst, NEW s \in Sirji, NEW name \in Name, NEW k \in Key,
           NEW saved \in BOOLEAN, InviteDevice(s, name, k, saved)
    PROVE  \E q : Evolves(mem[s], q, {}, {k}) /\ Wrote(s, q, saved)
<1>. DEFINE d == [name |-> name, keys |-> << >>, invite |-> k]
            q == [mem[s] EXCEPT !.devices = Append(@, d)]
<1>1. d \in DeviceEntry /\ d.invite = k
  BY EmptySeq DEF DeviceEntry
<1>2. Wrote(s, q, saved)
  BY SaveWrote DEF InviteDevice
<1>3. mem[s] \in Network /\ PendingFirst(mem[s])
  BY DEF TypeOK, PendingsFirst
<1>. HIDE DEF d
<1>4. Evolves(mem[s], q, {}, {d.invite})
  BY <1>1, <1>3, DeviceEvolves
<1>. QED BY <1>1, <1>2, <1>4

(* What a greeting of a known key writes. *)
LEMMA GreetKnownWrote ==
    ASSUME TypeOK, PendingsFirst, NEW s \in Sirji, NEW m \in wire, NEW on \in bound[s],
           NEW saved \in BOOLEAN, GreetKnown(s, m, on, saved)
    PROVE  \E q : \E i \in DOMAIN mem[s].peers :
              /\ mem[s].peers[i].peer = m.from
              /\ Evolves(mem[s], q, {}, {})
              /\ Wrote(s, q, saved)
              /\ AnswersIf(saved, m, s, mem[s].peers[i].alias)
<1>1. PICK i \in DOMAIN mem[s].peers, j \in DOMAIN mem[s].peers :
        /\ mem[s].peers[i].peer = m.from
        /\ save(s, [mem[s] EXCEPT !.peers[j] = [@ EXCEPT !.reached_on = on.alias]], saved)
        /\ AnswersIf(saved, m, s, mem[s].peers[i].alias)
  BY DEF GreetKnown, IsFirst, peer_by_key
<1>. DEFINE q == [mem[s] EXCEPT !.peers[j] = [@ EXCEPT !.reached_on = on.alias]]
<1>2. on.alias \in Spot /\ mem[s] \in Network /\ PendingFirst(mem[s])
  BY DEF TypeOK, PendingsFirst, HandshakeKey
<1>3. Wrote(s, q, saved)
  BY <1>1, SaveWrote
<1>4. Evolves(mem[s], q, {}, {})
  BY <1>2, NoteEvolves
<1>. HIDE DEF q
<1>. QED BY <1>1, <1>3, <1>4

(* What the enrolment of a device writes. *)
LEMMA GreetInvitedDeviceWrote ==
    ASSUME TypeOK, PendingsFirst, NEW s \in Sirji, NEW m \in wire, NEW on \in bound[s],
           NEW saved \in BOOLEAN, GreetInvitedDevice(s, m, on, saved)
    PROVE  \E q : \E i \in DOMAIN mem[s].devices :
              /\ Evolves(mem[s], q, {}, {})
              /\ i \in DOMAIN q.devices
              /\ q.devices[i].keys = <<m.from>>
              /\ Wrote(s, q, saved)
              /\ AnswersIf(saved, m, s, mem[s].devices[i].name)
<1>1. PICK i \in DOMAIN mem[s].devices :
        /\ DevicePending(mem[s].devices[i])
        /\ check_and_save(s, [mem[s] EXCEPT !.devices[i] =
                              [@ EXCEPT !.keys = <<m.from>>, !.invite = None]], saved)
        /\ AnswersIf(saved, m, s, mem[s].devices[i].name)
  BY DEF GreetInvitedDevice, IsFirst, pending_device_by_invite
<1>. DEFINE q == [mem[s] EXCEPT !.devices[i] = [@ EXCEPT !.keys = <<m.from>>, !.invite = None]]
<1>2. m.from \in Key /\ mem[s] \in Network /\ PendingFirst(mem[s])
  BY DEF TypeOK, PendingsFirst, Hello, Welcome
<1>3. Wrote(s, q, saved)
  BY <1>1, SaveWrote
<1>4. i \in DOMAIN q.devices /\ q.devices[i].keys = <<m.from>>
  <2>1. mem[s].devices[i] \in DeviceEntry
    BY <1>2, Entries
  <2>2. q.devices[i] = [mem[s].devices[i] EXCEPT !.keys = <<m.from>>, !.invite = None]
        /\ DOMAIN q.devices = DOMAIN mem[s].devices
    BY <1>2 DEF Network
  <2>. QED BY <2>1, <2>2 DEF DeviceEntry
<1>5. Evolves(mem[s], q, {}, {})
  BY <1>1, <1>2, EnrolEvolves
<1>. HIDE DEF q
<1>. QED BY <1>1, <1>3, <1>4, <1>5

(* The entry that is filled in is the pending one, whichever entries share  *)
(* its alias.                                                               *)
LEMMA GreetInvitedPeerWrote ==
    ASSUME TypeOK, PendingsFirst, NEW s \in Sirji, NEW m \in wire, NEW on \in bound[s],
           NEW saved \in BOOLEAN, GreetInvitedPeer(s, m, on, saved)
    PROVE  \E q : \E i \in DOMAIN mem[s].peers :
              /\ Evolves(mem[s], q, {<<m.invited_to, m.from>>}, {})
              /\ i \in DOMAIN q.peers
              /\ q.peers[i].mine = m.invited_to
              /\ q.peers[i].peer = m.from
              /\ Wrote(s, q, saved)
              /\ AnswersIf(saved, m, s, mem[s].peers[i].alias)
<1>1. PICK i \in DOMAIN mem[s].peers, j \in DOMAIN mem[s].peers :
        /\ PeerPending(mem[s].peers[i])
        /\ mem[s].peers[i].mine = m.invited_to
        /\ mem[s].peers[j].alias = mem[s].peers[i].alias
        /\ j <= i
        /\ check_and_save(s, [mem[s] EXCEPT !.peers[j] =
                                [@ EXCEPT !.peer = m.from, !.addresses = m.addresses,
                                          !.reached_on = on.alias]], saved)
        /\ AnswersIf(saved, m, s, mem[s].peers[i].alias)
  BY DEF GreetInvitedPeer, IsFirst, pending_by_mine, peer_by_alias
<1>2. m.from \in Key /\ on.alias \in Spot /\ mem[s] \in Network /\ PendingFirst(mem[s])
  BY DEF TypeOK, PendingsFirst, Hello, Welcome, HandshakeKey
<1>3. m.addresses \in SUBSET Key
  BY DEF GreetInvitedPeer, TypeOK, Hello, Welcome
<1>4. i = j
  <2>1. i \in Nat /\ j \in Nat
    BY <1>2, Entries
  <2>2. i <= j
    BY <1>1, <1>2 DEF PendingFirst
  <2>. QED BY <1>1, <2>1, <2>2
<1>. DEFINE q == [mem[s] EXCEPT !.peers[j] =
                     [@ EXCEPT !.peer = m.from, !.addresses = m.addresses,
                               !.reached_on = on.alias]]
<1>5. Wrote(s, q, saved)
  BY <1>1, SaveWrote
<1>6. /\ j \in DOMAIN q.peers
      /\ q.peers[j].mine = mem[s].peers[j].mine
      /\ q.peers[j].peer = m.from
  <2>1. mem[s].peers[j] \in Peer
    BY <1>2, Entries
  <2>2. /\ q.peers[j] = [mem[s].peers[j] EXCEPT !.peer = m.from, !.addresses = m.addresses,
                                                !.reached_on = on.alias]
        /\ DOMAIN q.peers = DOMAIN mem[s].peers
    BY <1>2 DEF Network
  <2>. QED BY <2>1, <2>2 DEF Peer
<1>7. Evolves(mem[s], q, {<<mem[s].peers[j].mine, m.from>>}, {})
  BY <1>1, <1>2, <1>3, <1>4, FillEvolves
<1>. HIDE DEF q
<1>. QED BY <1>1, <1>4, <1>5, <1>6, <1>7

(* What an accept writes when it is welcomed. *)
LEMMA AcceptEndsWrote ==
    ASSUME TypeOK, PendingsFirst, NEW c \in Caller, NEW m \in wire, NEW saved \in BOOLEAN,
           AcceptEnds(c, m, saved), task[c].at \in Sirji, task[c].alias \in Alias
    PROVE  \E q : /\ Evolves(mem[task[c].at], q,
                             {<<task[c].mine, task[c].invite.identity>>}, {task[c].mine})
                 /\ Wrote(task[c].at, q, saved)
<1>. DEFINE s == task[c].at
            p == [alias |-> task[c].alias, peer |-> task[c].invite.identity,
                  mine |-> task[c].mine, addresses |-> m.addresses, reached_on |-> None]
            q == [mem[s] EXCEPT !.peers = Append(@, p)]
<1>1. task[c] \in Task /\ m \in Hello \cup Welcome /\ m.type = "Ok"
  BY DEF TypeOK, AcceptEnds, Reads, Running
<1>2. m.addresses \in SUBSET Key
  BY <1>1 DEF Hello, Welcome
<1>3. task[c].invite.identity \in Key /\ task[c].mine \in Key
  BY <1>1 DEF Task, Invite
<1>4. /\ p \in Peer /\ ~PeerPending(p)
      /\ p.mine = task[c].mine /\ p.peer = task[c].invite.identity
  BY <1>2, <1>3, NoneIsNoValue DEF Peer, PeerPending
<1>5. Wrote(s, q, saved)
  BY SaveWrote DEF AcceptEnds
<1>6. mem[s] \in Network /\ PendingFirst(mem[s])
  BY DEF TypeOK, PendingsFirst
<1>. HIDE DEF p, s
<1>7. Evolves(mem[s], q, {<<p.mine, p.peer>>}, {p.mine})
  BY <1>4, <1>6, PeerEvolves
<1>. QED BY <1>4, <1>5, <1>7 DEF s

-----------------------------------------------------------------------------
(* Shape is inductive. *)

(* What is written is of its type. *)
LEMMA WroteShape ==
    ASSUME TypeOK, PendingsFirst, NEW s \in Sirji, NEW q, NEW saved \in BOOLEAN,
           NEW new, NEW minted, Evolves(mem[s], q, new, minted), Wrote(s, q, saved)
    PROVE  /\ mem' \in [Sirji -> Network]
           /\ disk' \in [Sirji -> Network]
           /\ failures' \in 0 .. MaxFailures
           /\ PendingsFirst'
<1>1. q \in Network /\ PendingFirst(q)
  BY DEF Evolves
<1>2. mem' \in [Sirji -> Network] /\ disk' \in [Sirji -> Network]
  BY <1>1 DEF TypeOK, Wrote
<1>3. \A r \in Sirji : /\ mem'[r] \in {mem[r], q}
                       /\ disk'[r] \in {disk[r], q}
  BY DEF TypeOK, Wrote
<1>4. PendingsFirst'
  BY <1>1, <1>3 DEF PendingsFirst
<1>. QED BY <1>2, <1>4 DEF Wrote

(* A key that is generated is stored as a key. *)
LEMMA Generated ==
    ASSUME TypeOK, NEW h \in Sirji \cup Device, NEW k \in Key, generate(h, k)
    PROVE  store' \in [Sirji \cup Device -> SUBSET Key]
BY DEF TypeOK, generate

(* What an operator is shown is an invite. *)
LEMMA Shown ==
    ASSUME TypeOK, NEW s \in Sirji, NEW k \in Key, NEW saved \in BOOLEAN,
           ShowInvite(s, k, saved)
    PROVE  invites' \in SUBSET Invite
<1>1. current_addresses(mem[s]) \in SUBSET Key
  BY AddressesAreKeys DEF TypeOK
<1>. QED BY <1>1 DEF TypeOK, ShowInvite, Invite

(* What a greeting is answered with is a message. *)
LEMMA Answered ==
    ASSUME TypeOK, NEW s \in Sirji, NEW m \in wire, m.type \in {"Peer", "Invited"},
           NEW name \in Alias \cup Name, NEW saved \in BOOLEAN,
           AnswersIf(saved, m, s, name) \/ Answers(m, {No(m)})
    PROVE  wire' \in SUBSET (Hello \cup Welcome)
<1>1. current_addresses(mem[s]) \in SUBSET Key
  BY AddressesAreKeys DEF TypeOK
<1>2. m.from \in Key /\ m.to \in Key
  BY DEF TypeOK, Hello, Welcome
<1>3. Ok(m, s, name) \in Welcome /\ No(m) \in Welcome
  BY <1>1, <1>2 DEF Ok, No, Welcome
<1>. QED BY <1>3 DEF AnswersIf, Answers, TypeOK

(* The initial state has the shape. *)
LEMMA InitShape == Init => Shape
<1>. SUFFICES ASSUME Init
              PROVE  Shape
  OBVIOUS
<1>1. \A s \in Sirji : NetworkAtInit(s) \in Network /\ NetworkAtInit(s).peers = << >>
  <2>. SUFFICES ASSUME NEW s \in Sirji
                PROVE  NetworkAtInit(s) \in Network
    BY DEF NetworkAtInit
  <2>. DEFINE hk == [alias |-> Default, key |-> HomeKey[s], retired |-> FALSE]
  <2>1. hk \in HandshakeKey
    BY HomeKeysAreFresh, DefaultIsASpot DEF HandshakeKey
  <2>. HIDE DEF hk
  <2>2. <<hk>> \in Seq(HandshakeKey)
    BY <2>1
  <2>. QED BY <2>2, EmptySeq DEF NetworkAtInit, Network, hk
<1>2. mem \in [Sirji -> Network] /\ disk \in [Sirji -> Network]
  BY <1>1 DEF Init
<1>3. store \in [Sirji \cup Device -> SUBSET Key]
  BY HomeKeysAreFresh DEF Init
<1>4. TypeOK
  BY <1>2, <1>3, BoundsAreNaturals DEF Init, TypeOK
<1>5. PendingsFirst
  BY <1>1 DEF Init, PendingsFirst, PendingFirst
<1>6. JobsAtSirjis
  BY HomesAreApart DEF Init, JobsAtSirjis, Running, Caller
<1>. QED BY <1>4, <1>5, <1>6 DEF Shape

(* The steps of the daemon's life, and the losses, that write nothing. *)
LEMMA StartShape ==
    ASSUME Shape, NEW s \in Sirji, Start(s)
    PROVE  Shape'
<1>. USE DEF Shape
<1>1. Range(disk[s].handshake_keys) \in SUBSET HandshakeKey
  BY Entries DEF TypeOK, Range
<1>2. TypeOK'
  BY <1>1 DEF Start, TypeOK
<1>3. PendingsFirst'
  BY DEF Start, PendingsFirst, TypeOK
<1>4. JobsAtSirjis'
  BY DEF Start, JobsAtSirjis, Running, TypeOK
<1>. QED BY <1>2, <1>3, <1>4

(* Crash keeps the shape. *)
LEMMA CrashShape ==
    ASSUME Shape, NEW s \in Sirji, Crash(s)
    PROVE  Shape'
<1>. USE DEF Shape
<1>1. crashes' \in 0 .. MaxCrashes
  BY BoundsAreNaturals DEF Crash, TypeOK
<1>2. task' \in [Caller -> Task \cup {None}]
  BY DEF Crash, TypeOK
<1>3. TypeOK'
  BY <1>1, <1>2 DEF Crash, TypeOK
<1>4. PendingsFirst'
  BY DEF Crash, PendingsFirst
<1>5. JobsAtSirjis'
  BY DEF Crash, JobsAtSirjis, Running, Caller, TypeOK
<1>. QED BY <1>3, <1>4, <1>5

(* NewAddress keeps the shape. *)
LEMMA NewAddressShape ==
    ASSUME Shape, NEW s \in Sirji, NEW spot \in Spot, NEW k \in Key, NEW saved \in BOOLEAN,
           NewAddress(s, spot, k, saved)
    PROVE  Shape'
<1>. USE DEF Shape
<1>1. PICK q : Evolves(mem[s], q, {}, {k}) /\ Wrote(s, q, saved)
  BY NewAddressWrote
<1>2. /\ mem' \in [Sirji -> Network] /\ disk' \in [Sirji -> Network]
      /\ failures' \in 0 .. MaxFailures /\ PendingsFirst'
  BY <1>1, WroteShape
<1>3. store' \in [Sirji \cup Device -> SUBSET Key]
  BY Generated DEF NewAddress
<1>4. TypeOK'
  BY <1>2, <1>3 DEF TypeOK, NewAddress
<1>5. JobsAtSirjis'
  BY DEF NewAddress, JobsAtSirjis, Running
<1>. QED BY <1>2, <1>4, <1>5

(* InvitePeer keeps the shape. *)
LEMMA InvitePeerShape ==
    ASSUME Shape, NEW s \in Sirji, NEW alias \in Alias, NEW k \in Key, NEW saved \in BOOLEAN,
           InvitePeer(s, alias, k, saved)
    PROVE  Shape'
<1>. USE DEF Shape
<1>1. PICK q : Evolves(mem[s], q, {<<k, None>>}, {k}) /\ Wrote(s, q, saved)
  BY InvitePeerWrote
<1>2. /\ mem' \in [Sirji -> Network] /\ disk' \in [Sirji -> Network]
      /\ failures' \in 0 .. MaxFailures /\ PendingsFirst'
  BY <1>1, WroteShape
<1>3. store' \in [Sirji \cup Device -> SUBSET Key]
  BY Generated DEF InvitePeer
<1>4. invites' \in SUBSET Invite
  BY Shown DEF InvitePeer
<1>5. TypeOK'
  BY <1>2, <1>3, <1>4 DEF TypeOK, InvitePeer
<1>6. JobsAtSirjis'
  BY DEF InvitePeer, JobsAtSirjis, Running
<1>. QED BY <1>2, <1>5, <1>6

(* InviteDevice keeps the shape. *)
LEMMA InviteDeviceShape ==
    ASSUME Shape, NEW s \in Sirji, NEW name \in Name, NEW k \in Key, NEW saved \in BOOLEAN,
           InviteDevice(s, name, k, saved)
    PROVE  Shape'
<1>. USE DEF Shape
<1>1. PICK q : Evolves(mem[s], q, {}, {k}) /\ Wrote(s, q, saved)
  BY InviteDeviceWrote
<1>2. /\ mem' \in [Sirji -> Network] /\ disk' \in [Sirji -> Network]
      /\ failures' \in 0 .. MaxFailures /\ PendingsFirst'
  BY <1>1, WroteShape
<1>3. store' \in [Sirji \cup Device -> SUBSET Key]
  BY Generated DEF InviteDevice
<1>4. invites' \in SUBSET Invite
  BY Shown DEF InviteDevice
<1>5. TypeOK'
  BY <1>2, <1>3, <1>4 DEF TypeOK, InviteDevice
<1>6. JobsAtSirjis'
  BY DEF InviteDevice, JobsAtSirjis, Running
<1>. QED BY <1>2, <1>5, <1>6

(* DialPeer keeps the shape. *)
LEMMA DialPeerShape ==
    ASSUME Shape, NEW s \in Sirji, NEW i \in DOMAIN mem[s].peers, NEW address \in Key,
           DialPeer(s, i, address)
    PROVE  Shape'
<1>. USE DEF Shape
<1>1. mem[s].peers[i].mine \in Key
  BY Entries DEF TypeOK, Peer
<1>2. wire' \in SUBSET (Hello \cup Welcome)
  BY <1>1 DEF DialPeer, TypeOK, Hello
<1>3. TypeOK'
  BY <1>2 DEF DialPeer, TypeOK
<1>4. PendingsFirst'
  BY DEF DialPeer, PendingsFirst
<1>5. JobsAtSirjis'
  BY DEF DialPeer, JobsAtSirjis, Running
<1>. QED BY <1>3, <1>4, <1>5

(* Command keeps the shape. *)
LEMMA CommandShape ==
    ASSUME Shape, NEW s \in Sirji, Command(s)
    PROVE  Shape'
BY StartShape, CrashShape, NewAddressShape, InvitePeerShape, InviteDeviceShape, DialPeerShape
   DEF Command

(* AcceptStarts keeps the shape. *)
LEMMA AcceptStartsShape ==
    ASSUME Shape, NEW c \in Job, NEW s \in Sirji, NEW alias \in Alias, NEW invite \in invites,
           NEW k \in Key, AcceptStarts(c, s, alias, invite, k)
    PROVE  Shape'
<1>. USE DEF Shape
<1>1. current_addresses(mem[s]) \in SUBSET Key
  BY AddressesAreKeys DEF TypeOK
<1>2. task'[c] \in Task /\ task' \in [Caller -> Task \cup {None}]
  BY <1>1 DEF AcceptStarts, Task, TypeOK, Caller, Invite
<1>3. store' \in [Sirji \cup Device -> SUBSET Key]
  BY Generated DEF AcceptStarts
<1>4. TypeOK'
  BY <1>2, <1>3 DEF TypeOK, AcceptStarts
<1>5. PendingsFirst'
  BY DEF AcceptStarts, PendingsFirst
<1>6. JobsAtSirjis'
  BY DEF AcceptStarts, JobsAtSirjis, Running, Caller, TypeOK
<1>. QED BY <1>4, <1>5, <1>6

(* EnrolStarts keeps the shape. *)
LEMMA EnrolStartsShape ==
    ASSUME Shape, NEW d \in Device, NEW invite \in invites, NEW k \in Key,
           EnrolStarts(d, invite, k)
    PROVE  Shape'
<1>. USE DEF Shape
<1>1. task'[d] \in Task /\ task' \in [Caller -> Task \cup {None}]
  BY DEF EnrolStarts, Task, TypeOK, Caller, Invite
<1>2. store' \in [Sirji \cup Device -> SUBSET Key]
  BY Generated DEF EnrolStarts
<1>3. TypeOK'
  BY <1>1, <1>2 DEF TypeOK, EnrolStarts
<1>4. PendingsFirst'
  BY DEF EnrolStarts, PendingsFirst
<1>5. JobsAtSirjis'
  BY HomesAreApart DEF EnrolStarts, JobsAtSirjis, Running, Caller, TypeOK
<1>. QED BY <1>3, <1>4, <1>5

(* Lose keeps the shape. *)
LEMMA LoseShape ==
    ASSUME Shape, NEW m \in wire, Lose(m)
    PROVE  Shape'
BY DEF Shape, Lose, TypeOK, PendingsFirst, JobsAtSirjis, Running

(* What every way through greet_inner that writes has in common. *)
LEMMA GreetShape ==
    ASSUME Shape, NEW s \in Sirji, NEW m \in wire, m.type \in {"Peer", "Invited"},
           NEW saved \in BOOLEAN, NEW name \in Alias \cup Name,
           NEW q, NEW new, Evolves(mem[s], q, new, {}), Wrote(s, q, saved),
           AnswersIf(saved, m, s, name),
           UNCHANGED <<up, store, bound, invites, task, config, crashes>>
    PROVE  Shape'
<1>. USE DEF Shape
<1>1. /\ mem' \in [Sirji -> Network] /\ disk' \in [Sirji -> Network]
      /\ failures' \in 0 .. MaxFailures /\ PendingsFirst'
  BY WroteShape
<1>2. wire' \in SUBSET (Hello \cup Welcome)
  BY Answered
<1>3. TypeOK'
  BY <1>1, <1>2 DEF TypeOK
<1>4. JobsAtSirjis'
  BY DEF JobsAtSirjis, Running
<1>. QED BY <1>1, <1>3, <1>4

(* GreetKnown keeps the shape. *)
LEMMA GreetKnownShape ==
    ASSUME Shape, NEW s \in Sirji, NEW m \in wire, NEW on \in bound[s],
           NEW saved \in BOOLEAN, GreetKnown(s, m, on, saved)
    PROVE  Shape'
<1>1. PICK q : \E i \in DOMAIN mem[s].peers :
        /\ mem[s].peers[i].peer = m.from
        /\ Evolves(mem[s], q, {}, {})
        /\ Wrote(s, q, saved)
        /\ AnswersIf(saved, m, s, mem[s].peers[i].alias)
  BY GreetKnownWrote DEF Shape
<1>2. PICK i \in DOMAIN mem[s].peers : AnswersIf(saved, m, s, mem[s].peers[i].alias)
  BY <1>1
<1>3. mem[s].peers[i].alias \in Alias \cup Name
  BY Entries DEF Shape, TypeOK, Peer
<1>. QED BY <1>1, <1>2, <1>3, GreetShape DEF GreetKnown, Greets

(* GreetInvitedDevice keeps the shape. *)
LEMMA GreetInvitedDeviceShape ==
    ASSUME Shape, NEW s \in Sirji, NEW m \in wire, NEW on \in bound[s],
           NEW saved \in BOOLEAN, GreetInvitedDevice(s, m, on, saved)
    PROVE  Shape'
<1>1. PICK q : \E i \in DOMAIN mem[s].devices :
        /\ Evolves(mem[s], q, {}, {})
        /\ i \in DOMAIN q.devices
        /\ q.devices[i].keys = <<m.from>>
        /\ Wrote(s, q, saved)
        /\ AnswersIf(saved, m, s, mem[s].devices[i].name)
  BY GreetInvitedDeviceWrote DEF Shape
<1>2. PICK i \in DOMAIN mem[s].devices : AnswersIf(saved, m, s, mem[s].devices[i].name)
  BY <1>1
<1>3. mem[s].devices[i].name \in Alias \cup Name
  BY Entries DEF Shape, TypeOK, DeviceEntry
<1>. QED BY <1>1, <1>2, <1>3, GreetShape DEF GreetInvitedDevice, Unknown, Greets

(* GreetInvitedPeer keeps the shape. *)
LEMMA GreetInvitedPeerShape ==
    ASSUME Shape, NEW s \in Sirji, NEW m \in wire, NEW on \in bound[s],
           NEW saved \in BOOLEAN, GreetInvitedPeer(s, m, on, saved)
    PROVE  Shape'
<1>1. PICK q : \E i \in DOMAIN mem[s].peers :
        /\ Evolves(mem[s], q, {<<m.invited_to, m.from>>}, {})
        /\ i \in DOMAIN q.peers
        /\ q.peers[i].mine = m.invited_to
        /\ q.peers[i].peer = m.from
        /\ Wrote(s, q, saved)
        /\ AnswersIf(saved, m, s, mem[s].peers[i].alias)
  BY GreetInvitedPeerWrote DEF Shape
<1>2. PICK i \in DOMAIN mem[s].peers : AnswersIf(saved, m, s, mem[s].peers[i].alias)
  BY <1>1
<1>3. mem[s].peers[i].alias \in Alias \cup Name
  BY Entries DEF Shape, TypeOK, Peer
<1>. QED BY <1>1, <1>2, <1>3, GreetShape DEF GreetInvitedPeer, Unknown, Greets

(* GreetRefused keeps the shape. *)
LEMMA GreetRefusedShape ==
    ASSUME Shape, NEW s \in Sirji, NEW m \in wire, NEW on \in bound[s],
           GreetRefused(s, m, on)
    PROVE  Shape'
<1>. USE DEF Shape
<1>1. m.from \in Key /\ m.to \in Key
  BY DEF TypeOK, Hello, Welcome
<1>2. wire' \in SUBSET (Hello \cup Welcome)
  BY <1>1 DEF GreetRefused, Answers, No, Welcome, TypeOK
<1>3. TypeOK'
  BY <1>2 DEF GreetRefused, TypeOK
<1>4. PendingsFirst' /\ JobsAtSirjis'
  BY DEF GreetRefused, PendingsFirst, JobsAtSirjis, Running
<1>. QED BY <1>3, <1>4

(* A task that takes a step stays where it is, or ends. *)
LEMMA ProceedsShape ==
    ASSUME Shape, NEW c \in Caller, NEW t \in Task, c \in Running,
           t.at = task[c].at, t.alias = task[c].alias,
           task' \in {[task EXCEPT ![c] = t], [task EXCEPT ![c] = None]},
           wire' \in SUBSET (Hello \cup Welcome),
           UNCHANGED <<up, mem, disk, store, bound, invites, crashes, failures>>,
           config' \in [Device -> Config \cup {None}]
    PROVE  Shape'
<1>. USE DEF Shape
<1>1. TypeOK'
  BY DEF TypeOK
<1>2. PendingsFirst'
  BY DEF PendingsFirst
<1>3. JobsAtSirjis'
  BY DEF JobsAtSirjis, Running, TypeOK
<1>. QED BY <1>1, <1>2, <1>3

(* Dial keeps the shape. *)
LEMMA DialShape ==
    ASSUME Shape, NEW c \in Caller, NEW address \in Key,
           Dial(c, address) \/ DialFails(c, address)
    PROVE  Shape'
<1>1. task[c] \in Task /\ c \in Running
  BY DEF Shape, TypeOK, Dial, DialFails, Running
<1>2. CASE Dial(c, address)
  <2>. DEFINE t == [task[c] EXCEPT !.to = address, !.untried = @ \ {address}]
  <2>1. t \in Task /\ t.at = task[c].at /\ t.alias = task[c].alias
    BY <1>1 DEF Task
  <2>2. task' = [task EXCEPT ![c] = t]
    BY <1>2, Zenon DEF Dial
  <2>. HIDE DEF t
  <2>3. wire' \in SUBSET (Hello \cup Welcome)
    BY <1>1, <1>2 DEF Dial, Shape, TypeOK, Task, Invite, Hello
  <2>4. /\ UNCHANGED <<up, mem, disk, store, bound, invites, crashes, failures>>
        /\ config' \in [Device -> Config \cup {None}]
    BY <1>2 DEF Dial, Shape, TypeOK
  <2>. QED BY <1>1, <2>1, <2>2, <2>3, <2>4, ProceedsShape
<1>3. CASE DialFails(c, address)
  <2>. DEFINE t == [task[c] EXCEPT !.untried = @ \ {address}]
  <2>1. t \in Task /\ t.at = task[c].at /\ t.alias = task[c].alias
    BY <1>1 DEF Task
  <2>2. task' = [task EXCEPT ![c] = t]
    BY <1>1, <1>3 DEF DialFails, Shape, TypeOK
  <2>. HIDE DEF t
  <2>3. /\ wire' \in SUBSET (Hello \cup Welcome)
        /\ UNCHANGED <<up, mem, disk, store, bound, invites, crashes, failures>>
        /\ config' \in [Device -> Config \cup {None}]
    BY <1>3 DEF DialFails, Shape, TypeOK
  <2>. QED BY <1>1, <2>1, <2>2, <2>3, ProceedsShape
<1>. QED BY <1>2, <1>3

(* The steps that end the connection a task waits on, with no answer or     *)
(* with a No.                                                               *)
LEMMA HangUpShape ==
    ASSUME Shape, NEW c \in Caller,
           ConnectionLost(c) \/ GiveUp(c) \/ (\E m \in wire : AcceptRefused(c, m))
             \/ (c \in Device /\ (EnrolStops(c) \/ (\E m \in wire : EnrolRefused(c, m))))
    PROVE  Shape'
<1>1. task[c] \in Task /\ c \in Running
  BY DEF Shape, TypeOK, ConnectionLost, GiveUp, AcceptRefused, EnrolRefused, EnrolStops,
         Reads, Running
<1>. DEFINE t == [task[c] EXCEPT !.to = None]
<1>2. t \in Task /\ t.at = task[c].at /\ t.alias = task[c].alias
  BY <1>1 DEF Task
<1>3. task' \in {[task EXCEPT ![c] = t], [task EXCEPT ![c] = None]}
  BY <1>1 DEF ConnectionLost, GiveUp, AcceptRefused, EnrolRefused, EnrolStops, Shape, TypeOK
<1>. HIDE DEF t
<1>4. /\ wire' \in SUBSET (Hello \cup Welcome)
      /\ UNCHANGED <<up, mem, disk, store, bound, invites, crashes, failures>>
      /\ config' \in [Device -> Config \cup {None}]
  BY DEF ConnectionLost, GiveUp, AcceptRefused, EnrolRefused, EnrolStops, Shape, TypeOK
<1>. QED BY <1>1, <1>2, <1>3, <1>4, ProceedsShape

(* EnrolEnds keeps the shape. *)
LEMMA EnrolEndsShape ==
    ASSUME Shape, NEW d \in Device, NEW m \in wire, EnrolEnds(d, m)
    PROVE  Shape'
<1>1. task[d] \in Task /\ d \in Running /\ d \in Caller
  BY DEF Shape, TypeOK, EnrolEnds, Reads, Running, Caller
<1>2. m.name \in Alias \cup Name
  BY DEF Shape, TypeOK, EnrolEnds, Reads, Hello, Welcome
<1>3. config' \in [Device -> Config \cup {None}]
  BY <1>1, <1>2 DEF EnrolEnds, Shape, TypeOK, Config, Task, Invite
<1>4. /\ wire' \in SUBSET (Hello \cup Welcome)
      /\ UNCHANGED <<up, mem, disk, store, bound, invites, crashes, failures>>
      /\ task' = [task EXCEPT ![d] = None]
  BY DEF EnrolEnds, Shape, TypeOK
<1>. QED BY <1>1, <1>3, <1>4, ProceedsShape

(* AcceptEnds keeps the shape. *)
LEMMA AcceptEndsShape ==
    ASSUME Shape, NEW c \in Caller, NEW m \in wire, NEW saved \in BOOLEAN,
           AcceptEnds(c, m, saved)
    PROVE  Shape'
<1>. USE DEF Shape
<1>1. task[c].at \in Sirji /\ task[c].alias \in Alias
  BY DEF AcceptEnds, Reads, JobsAtSirjis
<1>2. PICK q : /\ Evolves(mem[task[c].at], q,
                          {<<task[c].mine, task[c].invite.identity>>}, {task[c].mine})
              /\ Wrote(task[c].at, q, saved)
  BY <1>1, AcceptEndsWrote
<1>3. /\ mem' \in [Sirji -> Network] /\ disk' \in [Sirji -> Network]
      /\ failures' \in 0 .. MaxFailures /\ PendingsFirst'
  BY <1>1, <1>2, WroteShape
<1>4. TypeOK'
  BY <1>3 DEF TypeOK, AcceptEnds
<1>5. JobsAtSirjis'
  BY DEF AcceptEnds, JobsAtSirjis, Running, TypeOK
<1>. QED BY <1>3, <1>4, <1>5

(* Every step keeps the shape. *)
LEMMA ShapeKept == Shape /\ [Next]_vars => Shape'
<1>. SUFFICES ASSUME Shape, [Next]_vars
              PROVE  Shape'
  OBVIOUS
<1>1. CASE \E s \in Sirji : Command(s)
  BY <1>1, CommandShape
<1>2. CASE Begin
  BY <1>2, AcceptStartsShape, EnrolStartsShape DEF Begin
<1>3. CASE \E m \in wire : Lose(m) \/ \E s \in Sirji : Greet(s, m)
  BY <1>3, LoseShape, GreetKnownShape, GreetInvitedDeviceShape, GreetInvitedPeerShape,
     GreetRefusedShape DEF Greet
<1>4. CASE \E c \in Caller : Proceed(c)
  BY <1>4, DialShape, HangUpShape, AcceptEndsShape, EnrolEndsShape DEF Proceed
<1>5. CASE \E d \in Device : EnrolStops(d)
  BY <1>5, HangUpShape DEF Caller
<1>6. CASE UNCHANGED vars
  BY <1>6 DEF vars, Shape, TypeOK, PendingsFirst, JobsAtSirjis, Running
<1>. QED BY <1>1, <1>2, <1>3, <1>4, <1>5, <1>6 DEF Next

(* Every state is one the types allow: a lookup by alias that fills in the  *)
(* wrong entry, or an answer without its addresses, would break it.         *)
THEOREM TypeCorrect == Spec => []TypeOK
<1>1. Shape => TypeOK
  BY DEF Shape
<1>. QED BY InitShape, ShapeKept, <1>1, PTL DEF Spec

-----------------------------------------------------------------------------
(* IInv is inductive.  A step is seen as what it adds: pairs to the known   *)
(* nets, bindings of dialling keys to invites, and identities to invites.   *)

(* What a file holds, a file that has grown holds. *)
LEMMA HoldsStays ==
    ASSUME \A r \in Sirji : Grows(disk[r], disk'[r]),
           NEW i, NEW k, k # None, \E r \in Sirji : Holds(r, i, k)
    PROVE  \E r \in Sirji : Holds(r, i, k)'
<1>1. PICK r \in Sirji : Holds(r, i, k)
  OBVIOUS
<1>2. CASE \E x \in DOMAIN disk[r].peers :
             disk[r].peers[x].mine = i /\ disk[r].peers[x].peer = k
  BY <1>2 DEF Grows, Holds
<1>3. CASE \E x \in DOMAIN disk[r].devices : disk[r].devices[x].keys = <<k>>
  <2>1. <<k>> # << >>
    OBVIOUS
  <2>. QED BY <1>3, <2>1 DEF Grows, Holds
<1>. QED BY <1>1, <1>2, <1>3 DEF Holds

(* A pair is of two keys, or of one while it is pending. *)
LEMMA PairsAreKeys ==
    ASSUME TypeOK, NEW s \in Sirji, NEW x \in PairsAt(s)
    PROVE  x[1] \in Key /\ x[2] \in Key \cup {None}
BY Entries DEF TypeOK, PairsAt, Pairs, Peer

(* A binding is of two keys. *)
LEMMA BindingsAreKeys ==
    ASSUME TypeOK, NEW x \in Bindings
    PROVE  x[1] \in Key /\ x[2] \in Key
BY DEF TypeOK, Bindings, Running, Task, Invite, Hello, Welcome

(* A key that is bound to an invite was minted. *)
LEMMA BindingsKnown ==
    ASSUME KeysKnown, NEW x \in Bindings
    PROVE  Known(x[1])
BY DEF KeysKnown, Bindings

(* A key that is fresh was not. *)
LEMMA FreshUnknown ==
    ASSUME NEW k, Fresh(k)
    PROVE  ~Known(k) /\ k # None
BY NoneIsNoValue DEF Fresh, Known

(* When the invariant is kept, in terms of what a step adds. *)
LEMMA Kept ==
    ASSUME IInv, Shape', MemoryHasDisk', OwnKeysStored', KeysKnown',
           NEW new, NEW fresh, NEW ids,
           \A r \in Sirji : Grows(disk[r], disk'[r]),
           \A r \in Sirji : PairsAt(r)' \subseteq PairsAt(r) \cup new,
           Bindings' \subseteq Bindings \cup fresh,
           InviteIds' \subseteq InviteIds \cup ids,
           fresh = {} \/ ids = {},
           \A x \in fresh : Fresh(x[1]),
           \A x, y \in fresh : x = y,
           \A i \in ids : Fresh(i),
           \A x \in new : \/ x[2] = None
                          \/ /\ Known(x[2])
                             /\ \A y \in Bindings : y[1] = x[2] => y[2] = x[1]
                             /\ x[2] \in InviteIds => \E r \in Sirji : Holds(r, x[2], x[1])',
           \A m \in wire' : m.type = "Ok" =>
                \/ m \in wire
                \/ Known(m.from) /\ \A x \in Bindings :
                     x[1] = m.from => \E r \in Sirji : Holds(r, x[2], x[1])'
    PROVE  IInv'
<1>. USE DEF IInv, Shape
<1>1. \A x \in Bindings : Known(x[1]) /\ x[1] # None
  BY BindingsKnown, BindingsAreKeys, NoneIsNoValue
<1>2. \A i \in InviteIds : Known(i) /\ i # None
  <2>. SUFFICES ASSUME NEW invite \in invites
                PROVE  Known(invite.identity) /\ invite.identity # None
    BY DEF InviteIds
  <2>. QED BY NoneIsNoValue DEF KeysKnown, TypeOK, Invite
<1>3. \A s \in Sirji : \A x \in PairsAt(s) : (x[2] = None \/ Known(x[2])) /\ x[1] # None
  BY PairsAreKeys, NoneIsNoValue DEF KeysKnown
<1>4. \A x \in fresh : ~Known(x[1]) /\ x[1] # None
  BY FreshUnknown
<1>5. \A i \in ids : ~Known(i) /\ i # None
  BY FreshUnknown
<1>6. OneInviteAKey'
  <2>1. \A x, y \in Bindings' : x[1] = y[1] => x[2] = y[2]
    BY <1>1, <1>4 DEF OneInviteAKey
  <2>2. \A x \in Bindings' : x[1] \notin InviteIds'
    BY <1>1, <1>2, <1>4, <1>5 DEF OneInviteAKey
  <2>3. ASSUME NEW x \in Bindings', NEW s \in Sirji, NEW y \in PairsAt(s)', y[2] = x[1]
        PROVE  y[1] = x[2]
    <3>1. x \in Bindings
      BY <1>3, <1>4, <2>3
    <3>2. CASE y \in PairsAt(s)
      BY <2>3, <3>1, <3>2 DEF OneInviteAKey
    <3>3. CASE y \in new
      BY <1>1, <2>3, <3>1, <3>3
    <3>. QED BY <3>2, <3>3
  <2>. QED BY <2>1, <2>2, <2>3 DEF OneInviteAKey
<1>7. OkMeansSaved'
  <2>. SUFFICES ASSUME NEW m \in wire', m.type = "Ok", NEW x \in Bindings', x[1] = m.from
                PROVE  \E r \in Sirji : Holds(r, x[2], x[1])'
    BY DEF OkMeansSaved
  <2>1. Known(m.from)
    BY DEF KeysKnown
  <2>2. x \in Bindings
    BY <1>4, <2>1
  <2>3. CASE m \in wire
    <3>1. \E r \in Sirji : Holds(r, x[2], x[1])
      BY <2>2, <2>3 DEF OkMeansSaved
    <3>. QED BY <1>1, <2>2, <3>1, HoldsStays
  <2>. QED BY <2>2, <2>3
<1>8. PairsMirrored'
  <2>. SUFFICES ASSUME NEW s \in Sirji, NEW x \in PairsAt(s)', x[2] \in InviteIds'
                PROVE  \E r \in Sirji : Holds(r, x[2], x[1])'
    BY DEF PairsMirrored
  <2>1. x[2] \in InviteIds
    BY <1>2, <1>3, <1>5
  <2>2. CASE x \in PairsAt(s)
    <3>1. \E r \in Sirji : Holds(r, x[2], x[1])
      BY <2>1, <2>2 DEF PairsMirrored
    <3>. QED BY <1>3, <2>2, <3>1, HoldsStays
  <2>3. CASE x \in new
    BY <1>2, <2>1, <2>3
  <2>. QED BY <2>2, <2>3
<1>. QED BY <1>6, <1>7, <1>8

(* A step that only moves messages and tasks along. *)
LEMMA Calm ==
    ASSUME IInv, Shape', MemoryHasDisk', UNCHANGED <<disk, store, invites>>,
           \A r \in Sirji : PairsAt(r)' \subseteq PairsAt(r),
           \A r \in Sirji : OwnKeys(mem'[r]) \subseteq OwnKeys(mem[r]) \cup OwnKeys(disk[r]),
           \A c \in Running' : /\ c \in Running
                               /\ task'[c].mine = task[c].mine
                               /\ task'[c].at = task[c].at
                               /\ task'[c].invite = task[c].invite,
           \A m \in wire' : \/ m \in wire
                            \/ /\ Known(m.from) /\ m.type # "Ok"
                               /\ m.type = "Invited" => <<m.from, m.invited_to>> \in Bindings
    PROVE  IInv'
<1>. USE DEF IInv
<1>1. \A r \in Sirji : Grows(disk[r], disk'[r])
  BY GrowsReflexive
<1>2. Bindings' \subseteq Bindings
  BY DEF Bindings
<1>3. InviteIds' = InviteIds
  BY DEF InviteIds
<1>4. \A k : Known(k)' <=> Known(k)
  BY DEF Known
<1>5. KeysKnown'
  BY <1>4 DEF KeysKnown
<1>6. OwnKeysStored'
  BY DEF OwnKeysStored
<1>. HIDE DEF IInv
<1>. DEFINE none == {}
<1>7. /\ \A r \in Sirji : PairsAt(r)' \subseteq PairsAt(r) \cup none
      /\ Bindings' \subseteq Bindings \cup none
      /\ InviteIds' \subseteq InviteIds \cup none
      /\ none = {}
  BY <1>2, <1>3
<1>8. \A m \in wire' : m.type = "Ok" => m \in wire
  OBVIOUS
<1>9. /\ \A x \in none : Fresh(x[1])
      /\ \A x, y \in none : x = y
      /\ \A i \in none : Fresh(i)
      /\ \A x \in none : \/ x[2] = None
                          \/ /\ Known(x[2])
                             /\ \A y \in Bindings : y[1] = x[2] => y[2] = x[1]
                             /\ x[2] \in InviteIds => \E r \in Sirji : Holds(r, x[2], x[1])'
  OBVIOUS
<1>. HIDE DEF none
<1>. QED BY <1>1, <1>5, <1>6, <1>7, <1>8, <1>9, Kept

(* What a handler that writes leaves of the files of the daemons. *)
LEMMA WroteNet ==
    ASSUME Shape, MemoryHasDisk, OwnKeysStored,
           NEW s \in Sirji, NEW q, NEW saved \in BOOLEAN, NEW new, NEW minted,
           Evolves(mem[s], q, new, minted), Wrote(s, q, saved),
           up[s], up' = up,
           \A r \in Sirji : store[r] \subseteq store'[r], minted \subseteq store'[s]
    PROVE  /\ MemoryHasDisk'
           /\ \A r \in Sirji : Grows(disk[r], disk'[r])
           /\ \A r \in Sirji : PairsAt(r)' \subseteq PairsAt(r) \cup new
           /\ \A r \in Sirji : OwnKeys(mem'[r]) \cup OwnKeys(disk'[r]) \subseteq store'[r]
<1>. USE DEF Shape
<1>1. Grows(mem[s], q) /\ Grows(disk[s], mem[s])
  BY DEF Evolves, MemoryHasDisk
<1>2. Grows(disk[s], q)
  BY <1>1, GrowsTransitive
<1>3. /\ mem'[s] = q
      /\ disk'[s] = q \/ disk'[s] = disk[s]
      /\ \A r \in Sirji : r # s => mem'[r] = mem[r] /\ disk'[r] = disk[r]
  BY DEF Wrote, TypeOK
<1>4. MemoryHasDisk'
  BY <1>2, <1>3, GrowsReflexive DEF MemoryHasDisk
<1>5. \A r \in Sirji : Grows(disk[r], disk'[r])
  BY <1>2, <1>3, GrowsReflexive
<1>6. \A r \in Sirji : PairsAt(r)' \subseteq PairsAt(r) \cup new
  BY <1>3 DEF PairsAt, Evolves
<1>7. \A r \in Sirji : OwnKeys(mem'[r]) \cup OwnKeys(disk'[r]) \subseteq store'[r]
  BY <1>3 DEF OwnKeysStored, Evolves
<1>. QED BY <1>4, <1>5, <1>6, <1>7

(* Generating a key makes it known, and forgets none. *)
LEMMA GenerateGrows ==
    ASSUME TypeOK, NEW h \in Sirji \cup Device, NEW k \in Key, generate(h, k)
    PROVE  /\ Fresh(k)
           /\ \A r \in Sirji \cup Device : store[r] \subseteq store'[r]
           /\ k \in store'[h]
           /\ Known(k)'
           /\ \A l : Known(l) => Known(l)'
<1>1. /\ Fresh(k) /\ k \in store'[h]
      /\ \A r \in Sirji \cup Device : store[r] \subseteq store'[r]
  BY DEF generate, TypeOK
<1>. QED BY <1>1 DEF Known

(* A step that writes nothing and begins nothing keeps the invariant. *)
LEMMA QuietKept ==
    ASSUME IInv, Shape', UNCHANGED <<mem, disk, store, invites>>,
           \A s \in Sirji : up'[s] => up[s],
           \A c \in Running' : /\ c \in Running
                               /\ task'[c].mine = task[c].mine
                               /\ task'[c].at = task[c].at
                               /\ task'[c].invite = task[c].invite,
           \A m \in wire' : \/ m \in wire
                            \/ /\ Known(m.from) /\ m.type # "Ok"
                               /\ m.type = "Invited" => <<m.from, m.invited_to>> \in Bindings
    PROVE  IInv'
<1>1. MemoryHasDisk'
  BY DEF IInv, MemoryHasDisk
<1>2. \A r \in Sirji : PairsAt(r)' \subseteq PairsAt(r)
  BY DEF PairsAt
<1>3. \A r \in Sirji : OwnKeys(mem'[r]) \subseteq OwnKeys(mem[r]) \cup OwnKeys(disk[r])
  OBVIOUS
<1>. QED BY <1>1, <1>2, <1>3, Calm

(* Start keeps the invariant. *)
LEMMA StartKept ==
    ASSUME IInv, Shape', NEW s \in Sirji, Start(s)
    PROVE  IInv'
<1>1. MemoryHasDisk'
  BY GrowsReflexive DEF IInv, Shape, TypeOK, MemoryHasDisk, Start
<1>2. \A r \in Sirji : mem'[r] = mem[r] \/ mem'[r] = disk[r]
  BY DEF IInv, Shape, TypeOK, Start
<1>3. \A r \in Sirji : PairsAt(r)' \subseteq PairsAt(r)
  BY <1>2 DEF PairsAt, Start
<1>4. \A r \in Sirji : OwnKeys(mem'[r]) \subseteq OwnKeys(mem[r]) \cup OwnKeys(disk[r])
  BY <1>2
<1>5. /\ UNCHANGED <<disk, store, invites>>
      /\ wire' = wire /\ task' = task /\ Running' = Running
  BY DEF Start, Running
<1>. QED BY <1>1, <1>3, <1>4, <1>5, Calm

(* Crash keeps the invariant. *)
LEMMA CrashKept ==
    ASSUME IInv, Shape', NEW s \in Sirji, Crash(s)
    PROVE  IInv'
<1>1. /\ UNCHANGED <<mem, disk, store, invites>> /\ wire' \subseteq wire
      /\ \A r \in Sirji : up'[r] => up[r]
  BY DEF IInv, Shape, TypeOK, Crash
<1>2. \A c \in Running' : c \in Running /\ task'[c] = task[c]
  BY DEF Crash, Running
<1>. QED BY <1>1, <1>2, QuietKept

(* DialPeer keeps the invariant. *)
LEMMA DialPeerKept ==
    ASSUME IInv, Shape', NEW s \in Sirji, NEW i \in DOMAIN mem[s].peers, NEW address \in Key,
           DialPeer(s, i, address)
    PROVE  IInv'
<1>1. mem[s].peers[i].mine \in store[s]
  BY DEF IInv, OwnKeysStored, OwnKeys
<1>2. Known(mem[s].peers[i].mine)
  BY <1>1 DEF Known
<1>3. /\ UNCHANGED <<mem, disk, store, invites>> /\ up' = up
      /\ task' = task /\ Running' = Running
  BY DEF DialPeer, Running
<1>4. \A m \in wire' : m \in wire \/ (m.type = "Peer" /\ m.from = mem[s].peers[i].mine)
  BY DEF DialPeer
<1>. QED BY <1>2, <1>3, <1>4, QuietKept

(* An `accept` or an `init` that begins. *)
LEMMA BeginKept ==
    ASSUME IInv, Shape', NEW c \in Caller, NEW h \in Sirji \cup Device, NEW invite \in invites,
           NEW k \in Key, generate(h, k), NEW t \in Task, task[c] = None,
           task' = [task EXCEPT ![c] = t], t.at = h, t.mine = k, t.invite = invite,
           UNCHANGED <<up, mem, disk, invites, wire>>
    PROVE  IInv'
<1>. USE DEF IInv, Shape
<1>1. /\ Fresh(k) /\ k \in store'[h] /\ Known(k)'
      /\ \A r \in Sirji \cup Device : store[r] \subseteq store'[r]
      /\ \A l : Known(l) => Known(l)'
  BY GenerateGrows
<1>. DEFINE fresh == {<<k, invite.identity>>}
<1>2. t # None => \A x \in Running' : x \in Running \/ x = c
  BY DEF Running, TypeOK
<1>3. \A x \in Running' : (x \in Running /\ task'[x] = task[x]) \/ (x = c /\ task'[x] = t)
  BY DEF Running, TypeOK
<1>4. MemoryHasDisk' /\ \A r \in Sirji : Grows(disk[r], disk'[r])
  BY GrowsReflexive DEF MemoryHasDisk
<1>5. \A r \in Sirji : PairsAt(r)' = PairsAt(r)
  BY DEF PairsAt
<1>6. KeysKnown'
  BY <1>1, <1>3, <1>5 DEF KeysKnown
<1>7. OwnKeysStored'
  <2>1. \A x \in Running : task[x].at \in Sirji \cup Device
    BY DEF Running, TypeOK, Task
  <2>. QED BY <1>1, <1>3, <2>1 DEF OwnKeysStored
<1>8. Bindings' \subseteq Bindings \cup fresh
  BY <1>3 DEF Bindings
<1>9. InviteIds' = InviteIds
  BY DEF InviteIds
<1>10. /\ \A x \in fresh : Fresh(x[1])
       /\ \A x, y \in fresh : x = y
  BY <1>1
<1>. HIDE DEF fresh, IInv, Shape
<1>. DEFINE none == {}
<1>11. /\ none = {}
       /\ \A r \in Sirji : PairsAt(r)' \subseteq PairsAt(r) \cup none
       /\ InviteIds' \subseteq InviteIds \cup none
       /\ \A i \in none : Fresh(i)
       /\ \A x \in none : \/ x[2] = None
                           \/ /\ Known(x[2])
                              /\ \A y \in Bindings : y[1] = x[2] => y[2] = x[1]
                              /\ x[2] \in InviteIds => \E r \in Sirji : Holds(r, x[2], x[1])'
  BY <1>5, <1>9
<1>12. \A m \in wire' : m.type = "Ok" => m \in wire
  OBVIOUS
<1>. HIDE DEF none
<1>. QED BY <1>4, <1>6, <1>7, <1>8, <1>10, <1>11, <1>12, Kept

(* AcceptStarts keeps the invariant. *)
LEMMA AcceptStartsKept ==
    ASSUME IInv, Shape', NEW c \in Job, NEW s \in Sirji, NEW alias \in Alias,
           NEW invite \in invites, NEW k \in Key, AcceptStarts(c, s, alias, invite, k)
    PROVE  IInv'
<1>. DEFINE t == [at |-> s, alias |-> alias, invite |-> invite, mine |-> k,
                  told |-> current_addresses(mem[s]),
                  untried |-> invite.addresses, to |-> None]
<1>1. t \in Task
  <2>1. current_addresses(mem[s]) \in SUBSET Key
    BY AddressesAreKeys DEF IInv, Shape, TypeOK
  <2>. QED BY <2>1 DEF IInv, Shape, TypeOK, Task, Invite
<1>2. /\ generate(s, k) /\ task[c] = None /\ c \in Caller
      /\ task' = [task EXCEPT ![c] = t]
      /\ UNCHANGED <<up, mem, disk, invites, wire>>
  BY DEF AcceptStarts, Caller
<1>3. t.at = s /\ t.mine = k /\ t.invite = invite
  OBVIOUS
<1>. HIDE DEF t
<1>. QED BY <1>1, <1>2, <1>3, BeginKept

(* EnrolStarts keeps the invariant. *)
LEMMA EnrolStartsKept ==
    ASSUME IInv, Shape', NEW d \in Device, NEW invite \in invites, NEW k \in Key,
           EnrolStarts(d, invite, k)
    PROVE  IInv'
<1>. DEFINE t == [at |-> d, alias |-> None, invite |-> invite, mine |-> k,
                  told |-> {k}, untried |-> invite.addresses, to |-> None]
<1>1. t \in Task
  BY DEF IInv, Shape, TypeOK, Task, Invite
<1>2. /\ generate(d, k) /\ task[d] = None /\ d \in Caller
      /\ task' = [task EXCEPT ![d] = t]
      /\ UNCHANGED <<up, mem, disk, invites, wire>>
  BY DEF EnrolStarts, Caller
<1>3. t.at = d /\ t.mine = k /\ t.invite = invite
  OBVIOUS
<1>. HIDE DEF t
<1>. QED BY <1>1, <1>2, <1>3, BeginKept

(* A command that mints a key and pushes an entry for it. *)
LEMMA MintKept ==
    ASSUME IInv, Shape', NEW s \in Sirji, NEW k \in Key, generate(s, k), up[s],
           NEW q, NEW saved \in BOOLEAN, NEW new,
           Evolves(mem[s], q, new, {k}), Wrote(s, q, saved),
           \A x \in new : x[2] = None,
           invites \subseteq invites', \A i \in invites' : i \in invites \/ i.identity = k,
           UNCHANGED <<up, task, wire>>
    PROVE  IInv'
<1>. USE DEF IInv, Shape
<1>1. /\ Fresh(k) /\ k \in store'[s] /\ Known(k)'
      /\ \A r \in Sirji \cup Device : store[r] \subseteq store'[r]
      /\ \A l : Known(l) => Known(l)'
  BY GenerateGrows
<1>2. /\ MemoryHasDisk'
      /\ \A r \in Sirji : Grows(disk[r], disk'[r])
      /\ \A r \in Sirji : PairsAt(r)' \subseteq PairsAt(r) \cup new
      /\ \A r \in Sirji : OwnKeys(mem'[r]) \cup OwnKeys(disk'[r]) \subseteq store'[r]
  <2>. DEFINE minted == {k}
  <2>1. /\ Shape /\ MemoryHasDisk /\ OwnKeysStored /\ up' = up
        /\ \A r \in Sirji : store[r] \subseteq store'[r]
        /\ minted \subseteq store'[s]
        /\ Evolves(mem[s], q, new, minted)
    BY <1>1
  <2>. HIDE DEF minted, IInv, Shape
  <2>. QED BY <2>1, WroteNet
<1>3. Running' = Running
  BY DEF Running
<1>4. KeysKnown'
  <2>1. \A r \in Sirji : \A x \in PairsAt(r)' : x[2] = None \/ Known(x[2])'
    BY <1>1, <1>2 DEF KeysKnown
  <2>2. \A i \in invites' : Known(i.identity)'
    BY <1>1 DEF KeysKnown
  <2>. QED BY <1>1, <1>3, <2>1, <2>2 DEF KeysKnown
<1>5. OwnKeysStored'
  <2>1. \A x \in Running : task[x].at \in Sirji \cup Device
    BY DEF Running, TypeOK, Task
  <2>. QED BY <1>1, <1>2, <1>3, <2>1 DEF OwnKeysStored
<1>. DEFINE none == {}
            ids == {k}
<1>6. /\ none = {}
      /\ Bindings' \subseteq Bindings \cup none
      /\ InviteIds' \subseteq InviteIds \cup ids
      /\ \A x \in none : Fresh(x[1])
      /\ \A x, y \in none : x = y
      /\ \A i \in ids : Fresh(i)
  BY <1>1, <1>3 DEF Bindings, InviteIds
<1>7. \A m \in wire' : m.type = "Ok" => m \in wire
  OBVIOUS
<1>. HIDE DEF none, ids, IInv, Shape
<1>. QED BY <1>2, <1>4, <1>5, <1>6, <1>7, Kept

(* NewAddress keeps the invariant. *)
LEMMA NewAddressKept ==
    ASSUME IInv, Shape', NEW s \in Sirji, NEW spot \in Spot, NEW k \in Key,
           NEW saved \in BOOLEAN, NewAddress(s, spot, k, saved)
    PROVE  IInv'
<1>1. PICK q : Evolves(mem[s], q, {}, {k}) /\ Wrote(s, q, saved)
  BY NewAddressWrote DEF IInv, Shape
<1>2. generate(s, k) /\ up[s] /\ UNCHANGED <<up, task, wire, invites>>
  BY DEF NewAddress
<1>3. \A x \in {} : x[2] = None
  OBVIOUS
<1>. QED BY <1>1, <1>2, <1>3, MintKept

(* InvitePeer keeps the invariant. *)
LEMMA InvitePeerKept ==
    ASSUME IInv, Shape', NEW s \in Sirji, NEW alias \in Alias, NEW k \in Key,
           NEW saved \in BOOLEAN, InvitePeer(s, alias, k, saved)
    PROVE  IInv'
<1>1. PICK q : Evolves(mem[s], q, {<<k, None>>}, {k}) /\ Wrote(s, q, saved)
  BY InvitePeerWrote DEF IInv, Shape
<1>2. generate(s, k) /\ up[s] /\ UNCHANGED <<up, task, wire>>
  BY DEF InvitePeer
<1>3. invites \subseteq invites' /\ \A i \in invites' : i \in invites \/ i.identity = k
  BY DEF InvitePeer, ShowInvite
<1>4. \A x \in {<<k, None>>} : x[2] = None
  OBVIOUS
<1>. QED BY <1>1, <1>2, <1>3, <1>4, MintKept

(* InviteDevice keeps the invariant. *)
LEMMA InviteDeviceKept ==
    ASSUME IInv, Shape', NEW s \in Sirji, NEW name \in Name, NEW k \in Key,
           NEW saved \in BOOLEAN, InviteDevice(s, name, k, saved)
    PROVE  IInv'
<1>1. PICK q : Evolves(mem[s], q, {}, {k}) /\ Wrote(s, q, saved)
  BY InviteDeviceWrote DEF IInv, Shape
<1>2. generate(s, k) /\ up[s] /\ UNCHANGED <<up, task, wire>>
  BY DEF InviteDevice
<1>3. invites \subseteq invites' /\ \A i \in invites' : i \in invites \/ i.identity = k
  BY DEF InviteDevice, ShowInvite
<1>4. \A x \in {} : x[2] = None
  OBVIOUS
<1>. QED BY <1>1, <1>2, <1>3, <1>4, MintKept

(* A greeting that is answered Ok only when the daemon has on file whoever  *)
(* presented it, and that adds no pair but the one it presented.            *)
LEMMA GreetKept ==
    ASSUME IInv, Shape', NEW s \in Sirji, NEW m \in wire, NEW saved \in BOOLEAN, up[s],
           m.type \in {"Peer", "Invited"},
           NEW q, NEW new, NEW name, Evolves(mem[s], q, new, {}), Wrote(s, q, saved),
           \A x \in new : m.type = "Invited" /\ x = <<m.invited_to, m.from>>,
           saved => \A x \in Bindings : x[1] = m.from => \E r \in Sirji : Holds(r, x[2], x[1])',
           AnswersIf(saved, m, s, name),
           UNCHANGED <<up, store, invites, task>>
    PROVE  IInv'
<1>. USE DEF IInv, Shape
<1>1. /\ MemoryHasDisk'
      /\ \A r \in Sirji : Grows(disk[r], disk'[r])
      /\ \A r \in Sirji : PairsAt(r)' \subseteq PairsAt(r) \cup new
      /\ \A r \in Sirji : OwnKeys(mem'[r]) \cup OwnKeys(disk'[r]) \subseteq store'[r]
  <2>. DEFINE minted == {}
  <2>1. /\ Shape /\ MemoryHasDisk /\ OwnKeysStored /\ up' = up
        /\ \A r \in Sirji : store[r] \subseteq store'[r]
        /\ minted \subseteq store'[s]
        /\ Evolves(mem[s], q, new, minted)
    OBVIOUS
  <2>. HIDE DEF minted, IInv, Shape
  <2>. QED BY <2>1, WroteNet
<1>2. /\ Running' = Running
      /\ \A k : Known(k)' <=> Known(k)
  BY DEF Running, Known
<1>3. Known(m.from)
  BY DEF KeysKnown
<1>4. \A w \in wire' :
        \/ w \in wire
        \/ w.type = "No" /\ w.from = m.from
        \/ w.type = "Ok" /\ w.from = m.from /\ saved
  BY DEF AnswersIf, Answers, Ok, No
<1>5. \A x \in new : x[2] = m.from
  OBVIOUS
<1>6. KeysKnown'
  <2>1. \A r \in Sirji : \A x \in PairsAt(r)' : x[2] = None \/ Known(x[2])'
    BY <1>1, <1>2, <1>3, <1>5 DEF KeysKnown
  <2>2. \A w \in wire' : Known(w.from)'
    BY <1>2, <1>3, <1>4 DEF KeysKnown
  <2>. QED BY <1>2, <2>1, <2>2 DEF KeysKnown
<1>7. OwnKeysStored'
  BY <1>1, <1>2 DEF OwnKeysStored
<1>8. \A x \in new : \/ x[2] = None
                     \/ /\ Known(x[2])
                        /\ \A y \in Bindings : y[1] = x[2] => y[2] = x[1]
                        /\ x[2] \in InviteIds => \E r \in Sirji : Holds(r, x[2], x[1])'
  <2>. SUFFICES ASSUME NEW x \in new
                PROVE  /\ \A y \in Bindings : y[1] = x[2] => y[2] = x[1]
                       /\ x[2] \notin InviteIds
    BY <1>3, <1>5
  <2>1. x = <<m.invited_to, m.from>> /\ <<m.from, m.invited_to>> \in Bindings
    BY DEF Bindings
  <2>. QED BY <2>1 DEF OneInviteAKey
<1>9. \A w \in wire' : w.type = "Ok" =>
        \/ w \in wire
        \/ Known(w.from) /\ \A x \in Bindings :
             x[1] = w.from => \E r \in Sirji : Holds(r, x[2], x[1])'
  BY <1>3, <1>4
<1>. DEFINE none == {}
<1>10. /\ none = {}
       /\ Bindings' \subseteq Bindings \cup none
       /\ InviteIds' \subseteq InviteIds \cup none
       /\ \A x \in none : Fresh(x[1])
       /\ \A x, y \in none : x = y
       /\ \A i \in none : Fresh(i)
  BY <1>2, <1>4 DEF Bindings, InviteIds
<1>. HIDE DEF none, IInv, Shape
<1>. QED BY <1>1, <1>6, <1>7, <1>8, <1>9, <1>10, Kept

(* Whoever is known by key has presented the identity it is known under.    *)
LEMMA GreetKnownKept ==
    ASSUME IInv, Shape', NEW s \in Sirji, NEW m \in wire, NEW on \in bound[s],
           NEW saved \in BOOLEAN, GreetKnown(s, m, on, saved)
    PROVE  IInv'
<1>1. PICK q : \E i \in DOMAIN mem[s].peers :
        /\ mem[s].peers[i].peer = m.from
        /\ Evolves(mem[s], q, {}, {})
        /\ Wrote(s, q, saved)
        /\ AnswersIf(saved, m, s, mem[s].peers[i].alias)
  BY GreetKnownWrote DEF IInv, Shape
<1>2. PICK i \in DOMAIN mem[s].peers :
        mem[s].peers[i].peer = m.from /\ AnswersIf(saved, m, s, mem[s].peers[i].alias)
  BY <1>1
<1>3. m.from # None
  BY NoneIsNoValue DEF IInv, Shape, TypeOK, Hello, Welcome
<1>4. ASSUME saved, NEW x \in Bindings, x[1] = m.from
      PROVE  \E r \in Sirji : Holds(r, x[2], x[1])'
  <2>1. <<mem[s].peers[i].mine, m.from>> \in PairsAt(s)
    BY <1>2 DEF PairsAt, Pairs
  <2>2. mem[s].peers[i].mine = x[2]
    BY <1>4, <2>1 DEF IInv, OneInviteAKey
  <2>3. i \in DOMAIN q.peers /\ q.peers[i].mine = x[2] /\ q.peers[i].peer = m.from
    BY <1>1, <1>2, <1>3, <2>2 DEF Evolves, Grows
  <2>4. disk'[s] = q
    BY <1>1, <1>4 DEF Wrote, IInv, Shape, TypeOK
  <2>. QED BY <1>4, <2>3, <2>4 DEF Holds
<1>5. /\ up[s] /\ m.type \in {"Peer", "Invited"}
      /\ UNCHANGED <<up, store, invites, task>>
  BY DEF GreetKnown, Greets
<1>. DEFINE new == {}
<1>6. Evolves(mem[s], q, new, {})
      /\ \A x \in new : m.type = "Invited" /\ x = <<m.invited_to, m.from>>
  BY <1>1
<1>. HIDE DEF new
<1>. QED BY <1>1, <1>2, <1>4, <1>5, <1>6, GreetKept

(* GreetInvitedDevice keeps the invariant. *)
LEMMA GreetInvitedDeviceKept ==
    ASSUME IInv, Shape', NEW s \in Sirji, NEW m \in wire, NEW on \in bound[s],
           NEW saved \in BOOLEAN, GreetInvitedDevice(s, m, on, saved)
    PROVE  IInv'
<1>1. PICK q : \E i \in DOMAIN mem[s].devices :
        /\ Evolves(mem[s], q, {}, {})
        /\ i \in DOMAIN q.devices
        /\ q.devices[i].keys = <<m.from>>
        /\ Wrote(s, q, saved)
        /\ AnswersIf(saved, m, s, mem[s].devices[i].name)
  BY GreetInvitedDeviceWrote DEF IInv, Shape
<1>2. PICK i \in DOMAIN mem[s].devices :
        /\ i \in DOMAIN q.devices /\ q.devices[i].keys = <<m.from>>
        /\ AnswersIf(saved, m, s, mem[s].devices[i].name)
  BY <1>1
<1>3. ASSUME saved, NEW x \in Bindings, x[1] = m.from
      PROVE  \E r \in Sirji : Holds(r, x[2], x[1])'
  <2>1. disk'[s] = q
    BY <1>1, <1>3 DEF Wrote, IInv, Shape, TypeOK
  <2>. QED BY <1>2, <1>3, <2>1 DEF Holds
<1>4. /\ up[s] /\ m.type \in {"Peer", "Invited"}
      /\ UNCHANGED <<up, store, invites, task>>
  BY DEF GreetInvitedDevice, Unknown, Greets
<1>. DEFINE new == {}
<1>5. Evolves(mem[s], q, new, {})
      /\ \A x \in new : m.type = "Invited" /\ x = <<m.invited_to, m.from>>
  BY <1>1
<1>. HIDE DEF new
<1>. QED BY <1>1, <1>2, <1>3, <1>4, <1>5, GreetKept

(* GreetInvitedPeer keeps the invariant. *)
LEMMA GreetInvitedPeerKept ==
    ASSUME IInv, Shape', NEW s \in Sirji, NEW m \in wire, NEW on \in bound[s],
           NEW saved \in BOOLEAN, GreetInvitedPeer(s, m, on, saved)
    PROVE  IInv'
<1>1. PICK q : \E i \in DOMAIN mem[s].peers :
        /\ Evolves(mem[s], q, {<<m.invited_to, m.from>>}, {})
        /\ i \in DOMAIN q.peers
        /\ q.peers[i].mine = m.invited_to
        /\ q.peers[i].peer = m.from
        /\ Wrote(s, q, saved)
        /\ AnswersIf(saved, m, s, mem[s].peers[i].alias)
  BY GreetInvitedPeerWrote DEF IInv, Shape
<1>2. PICK i \in DOMAIN mem[s].peers :
        /\ i \in DOMAIN q.peers
        /\ q.peers[i].mine = m.invited_to
        /\ q.peers[i].peer = m.from
        /\ AnswersIf(saved, m, s, mem[s].peers[i].alias)
  BY <1>1
<1>3. /\ up[s] /\ m.type = "Invited"
      /\ UNCHANGED <<up, store, invites, task>>
  BY DEF GreetInvitedPeer, Unknown, Greets
<1>4. ASSUME saved, NEW x \in Bindings, x[1] = m.from
      PROVE  \E r \in Sirji : Holds(r, x[2], x[1])'
  <2>1. disk'[s] = q
    BY <1>1, <1>4 DEF Wrote, IInv, Shape, TypeOK
  <2>2. <<m.from, m.invited_to>> \in Bindings
    BY <1>3 DEF Bindings
  <2>3. x[2] = m.invited_to
    BY <1>4, <2>2 DEF IInv, OneInviteAKey
  <2>. QED BY <1>2, <1>4, <2>1, <2>3 DEF Holds
<1>. DEFINE new == {<<m.invited_to, m.from>>}
<1>5. Evolves(mem[s], q, new, {})
      /\ \A x \in new : m.type = "Invited" /\ x = <<m.invited_to, m.from>>
  BY <1>1, <1>3
<1>. HIDE DEF new
<1>. QED BY <1>1, <1>2, <1>3, <1>4, <1>5, GreetKept

(* GreetRefused keeps the invariant. *)
LEMMA GreetRefusedKept ==
    ASSUME IInv, Shape', NEW s \in Sirji, NEW m \in wire, NEW on \in bound[s],
           GreetRefused(s, m, on)
    PROVE  IInv'
<1>1. /\ UNCHANGED <<mem, disk, store, invites>> /\ up' = up
      /\ task' = task /\ Running' = Running
  BY DEF GreetRefused, Running
<1>2. Known(m.from)
  BY DEF IInv, KeysKnown
<1>3. \A w \in wire' : w \in wire \/ (w.type = "No" /\ w.from = m.from)
  BY DEF GreetRefused, Answers, No
<1>. QED BY <1>1, <1>2, <1>3, QuietKept

(* Lose keeps the invariant. *)
LEMMA LoseKept ==
    ASSUME IInv, Shape', NEW m \in wire, Lose(m)
    PROVE  IInv'
<1>1. /\ UNCHANGED <<mem, disk, store, invites>> /\ up' = up
      /\ task' = task /\ Running' = Running /\ wire' \subseteq wire
  BY DEF Lose, Running
<1>. QED BY <1>1, QuietKept

(* Dial keeps the invariant. *)
LEMMA DialKept ==
    ASSUME IInv, Shape', NEW c \in Caller, NEW address \in Key, Dial(c, address)
    PROVE  IInv'
<1>1. /\ UNCHANGED <<mem, disk, store, invites>> /\ up' = up
  BY DEF Dial
<1>2. c \in Running /\ task[c] \in Task
  BY DEF Dial, Running, IInv, Shape, TypeOK
<1>. DEFINE t == [task[c] EXCEPT !.to = address, !.untried = @ \ {address}]
<1>3. t.mine = task[c].mine /\ t.at = task[c].at /\ t.invite = task[c].invite
  BY <1>2 DEF Task
<1>4. task' = [task EXCEPT ![c] = t]
  BY Zenon DEF Dial
<1>. HIDE DEF t
<1>5. \A x \in Running' : /\ x \in Running
                          /\ task'[x].mine = task[x].mine
                          /\ task'[x].at = task[x].at
                          /\ task'[x].invite = task[x].invite
  BY <1>2, <1>3, <1>4 DEF Running, IInv, Shape, TypeOK
<1>6. \A m \in wire' : \/ m \in wire
                       \/ /\ m.type = "Invited" /\ m.from = task[c].mine
                          /\ m.invited_to = task[c].invite.identity
  BY DEF Dial
<1>7. Known(task[c].mine) /\ <<task[c].mine, task[c].invite.identity>> \in Bindings
  BY <1>2 DEF IInv, KeysKnown, Bindings
<1>. QED BY <1>1, <1>5, <1>6, <1>7, QuietKept

(* Every other step of a task moves on to another address or ends it. *)
LEMMA HangUpKept ==
    ASSUME IInv, Shape', NEW c \in Caller,
           \/ \E address \in Key : DialFails(c, address)
           \/ ConnectionLost(c) \/ GiveUp(c) \/ (\E m \in wire : AcceptRefused(c, m))
           \/ c \in Device /\ (\/ EnrolStops(c)
                               \/ \E m \in wire : EnrolRefused(c, m) \/ EnrolEnds(c, m))
    PROVE  IInv'
<1>1. /\ UNCHANGED <<mem, disk, store, invites>> /\ up' = up /\ wire' \subseteq wire
  BY DEF DialFails, ConnectionLost, GiveUp, AcceptRefused, EnrolStops, EnrolRefused, EnrolEnds
<1>2. c \in Running /\ task[c] \in Task
  BY DEF DialFails, ConnectionLost, GiveUp, AcceptRefused, EnrolStops, EnrolRefused, EnrolEnds,
         Reads, Running, IInv, Shape, TypeOK
<1>3. PICK t \in Task \cup {None} :
        /\ t # None => t.mine = task[c].mine /\ t.at = task[c].at /\ t.invite = task[c].invite
        /\ task' = [task EXCEPT ![c] = t]
  <2>1. CASE \E address \in Key : DialFails(c, address)
    <3>1. PICK address \in Key : DialFails(c, address)
      BY <2>1
    <3>. DEFINE t == [task[c] EXCEPT !.untried = @ \ {address}]
    <3>2. t \in Task /\ t.mine = task[c].mine /\ t.at = task[c].at /\ t.invite = task[c].invite
      BY <1>2 DEF Task
    <3>3. task' = [task EXCEPT ![c] = t]
      BY <1>2, <3>1 DEF DialFails, IInv, Shape, TypeOK
    <3>. HIDE DEF t
    <3>. QED BY <3>2, <3>3
  <2>2. CASE ConnectionLost(c) \/ \E m \in wire : AcceptRefused(c, m)
    <3>. DEFINE t == [task[c] EXCEPT !.to = None]
    <3>1. t \in Task /\ t.mine = task[c].mine /\ t.at = task[c].at /\ t.invite = task[c].invite
      BY <1>2 DEF Task
    <3>2. task' = [task EXCEPT ![c] = t]
      BY <1>2, <2>2 DEF ConnectionLost, AcceptRefused, IInv, Shape, TypeOK
    <3>. HIDE DEF t
    <3>. QED BY <3>1, <3>2
  <2>3. CASE task' = [task EXCEPT ![c] = None]
    BY <2>3
  <2>. QED BY <2>1, <2>2, <2>3 DEF GiveUp, EnrolStops, EnrolRefused, EnrolEnds
<1>4. \A x \in Running' : /\ x \in Running
                          /\ task'[x].mine = task[x].mine
                          /\ task'[x].at = task[x].at
                          /\ task'[x].invite = task[x].invite
  BY <1>2, <1>3 DEF Running, IInv, Shape, TypeOK
<1>. QED BY <1>1, <1>4, QuietKept

(* The invitee records what it was told Ok for. *)
LEMMA AcceptEndsKept ==
    ASSUME IInv, Shape', NEW c \in Caller, NEW m \in wire, NEW saved \in BOOLEAN,
           AcceptEnds(c, m, saved)
    PROVE  IInv'
<1>. DEFINE s == task[c].at
            minted == {task[c].mine}
            new == {<<task[c].mine, task[c].invite.identity>>}
<1>1. /\ c \in Running /\ s \in Sirji /\ up[s] /\ task[c].alias \in Alias
      /\ m.type = "Ok" /\ m.from = task[c].mine
  BY DEF AcceptEnds, Reads, IInv, Shape, JobsAtSirjis
<1>2. PICK q : Evolves(mem[s], q, new, minted) /\ Wrote(s, q, saved)
  BY <1>1, AcceptEndsWrote DEF IInv, Shape
<1>3. /\ store' = store /\ up' = up /\ invites' = invites /\ wire' \subseteq wire
      /\ \A x \in Running' : x \in Running /\ task'[x] = task[x]
  BY DEF AcceptEnds, Running, IInv, Shape, TypeOK
<1>4. task[c].mine \in store[s] /\ task[c].invite \in invites /\ Known(task[c].invite.identity)
  BY <1>1 DEF IInv, OwnKeysStored, KeysKnown
<1>. HIDE DEF s
<1>5. /\ MemoryHasDisk'
      /\ \A r \in Sirji : Grows(disk[r], disk'[r])
      /\ \A r \in Sirji : PairsAt(r)' \subseteq PairsAt(r) \cup new
      /\ \A r \in Sirji : OwnKeys(mem'[r]) \cup OwnKeys(disk'[r]) \subseteq store'[r]
  <2>1. /\ Shape /\ MemoryHasDisk /\ OwnKeysStored
        /\ \A r \in Sirji : store[r] \subseteq store'[r]
        /\ minted \subseteq store'[s]
    BY <1>3, <1>4 DEF IInv
  <2>. HIDE DEF minted, new
  <2>. QED BY <1>1, <1>2, <1>3, <2>1, WroteNet
<1>6. \A k : Known(k)' <=> Known(k)
  BY <1>3 DEF Known
<1>7. KeysKnown'
  <2>1. \A r \in Sirji : \A x \in PairsAt(r)' : x[2] = None \/ Known(x[2])'
    BY <1>4, <1>5, <1>6 DEF IInv, KeysKnown
  <2>. QED BY <1>3, <1>6, <2>1 DEF IInv, KeysKnown
<1>8. OwnKeysStored'
  BY <1>3, <1>5 DEF IInv, OwnKeysStored
<1>9. \A x \in new : \/ x[2] = None
                     \/ /\ Known(x[2])
                        /\ \A y \in Bindings : y[1] = x[2] => y[2] = x[1]
                        /\ x[2] \in InviteIds => \E r \in Sirji : Holds(r, x[2], x[1])'
  <2>. PICK y : y = <<task[c].mine, task[c].invite.identity>>
    OBVIOUS
  <2>1. y \in Bindings /\ y[1] = m.from /\ y[1] # None
    BY <1>1, BindingsAreKeys, NoneIsNoValue DEF Bindings, IInv, Shape
  <2>2. \E r \in Sirji : Holds(r, y[2], y[1])
    BY <1>1, <2>1 DEF IInv, OkMeansSaved
  <2>3. \E r \in Sirji : Holds(r, y[2], y[1])'
    BY <1>5, <2>1, <2>2, HoldsStays
  <2>4. task[c].invite.identity \in InviteIds
    BY <1>4 DEF InviteIds
  <2>5. \A z \in Bindings : z[1] # task[c].invite.identity
    BY <2>4 DEF IInv, OneInviteAKey
  <2>6. \A x \in new : x = y /\ x[2] = task[c].invite.identity
    OBVIOUS
  <2>. HIDE DEF new
  <2>. QED BY <1>4, <2>3, <2>5, <2>6
<1>. DEFINE none == {}
<1>10. /\ none = {}
       /\ Bindings' \subseteq Bindings \cup none
       /\ InviteIds' \subseteq InviteIds \cup none
       /\ \A x \in none : Fresh(x[1])
       /\ \A x, y \in none : x = y
       /\ \A i \in none : Fresh(i)
  BY <1>3 DEF Bindings, InviteIds
<1>11. \A w \in wire' : w.type = "Ok" => w \in wire
  BY <1>3
<1>. HIDE DEF none, new
<1>. QED BY <1>5, <1>7, <1>8, <1>9, <1>10, <1>11, Kept

(* The invariant holds to begin with. *)
LEMMA InitIInv == Init => IInv
<1>. SUFFICES ASSUME Init
              PROVE  IInv
  OBVIOUS
<1>1. Shape
  BY InitShape
<1>2. MemoryHasDisk
  BY DEF Init, MemoryHasDisk
<1>3. Running = {} /\ wire = {} /\ invites = {}
  BY DEF Init, Running
<1>4. Bindings = {} /\ InviteIds = {}
  BY <1>3 DEF Bindings, InviteIds
<1>5. \A s \in Sirji : /\ mem[s] = NetworkAtInit(s) /\ disk[s] = NetworkAtInit(s)
                       /\ store[s] = {HomeKey[s]}
  BY DEF Init
<1>6. \A s \in Sirji : PairsAt(s) = {}
  <2>1. \A s \in Sirji : DOMAIN NetworkAtInit(s).peers = {}
    BY DEF NetworkAtInit
  <2>2. \A s \in Sirji : Pairs(NetworkAtInit(s)) = {}
    BY <2>1 DEF Pairs
  <2>. QED BY <1>5, <2>2 DEF PairsAt
<1>7. \A s \in Sirji : OwnKeys(NetworkAtInit(s)) = {HomeKey[s]}
  BY DEF OwnKeys, NetworkAtInit
<1>8. KeysKnown /\ OwnKeysStored
  BY <1>3, <1>5, <1>6, <1>7 DEF KeysKnown, OwnKeysStored
<1>9. OneInviteAKey /\ OkMeansSaved /\ PairsMirrored
  BY <1>3, <1>4, <1>6 DEF OneInviteAKey, OkMeansSaved, PairsMirrored
<1>. QED BY <1>1, <1>2, <1>8, <1>9 DEF IInv

(* Every step keeps it. *)
LEMMA IInvKept == IInv /\ [Next]_vars => IInv'
<1>. SUFFICES ASSUME IInv, [Next]_vars
              PROVE  IInv'
  OBVIOUS
<1>1. Shape'
  BY ShapeKept DEF IInv
<1>2. CASE \E s \in Sirji : Command(s)
  BY <1>1, <1>2, StartKept, CrashKept, NewAddressKept, InvitePeerKept, InviteDeviceKept,
     DialPeerKept DEF Command
<1>3. CASE Begin
  BY <1>1, <1>3, AcceptStartsKept, EnrolStartsKept DEF Begin
<1>4. CASE \E m \in wire : Lose(m) \/ \E s \in Sirji : Greet(s, m)
  BY <1>1, <1>4, LoseKept, GreetKnownKept, GreetInvitedDeviceKept, GreetInvitedPeerKept,
     GreetRefusedKept DEF Greet
<1>5. CASE \E c \in Caller : Proceed(c)
  BY <1>1, <1>5, DialKept, HangUpKept, AcceptEndsKept DEF Proceed
<1>6. CASE \E d \in Device : EnrolStops(d)
  BY <1>1, <1>6, HangUpKept DEF Caller
<1>7. CASE UNCHANGED vars
  <2>1. /\ UNCHANGED <<mem, disk, store, invites>> /\ up' = up /\ wire' = wire
        /\ task' = task /\ Running' = Running
    BY <1>7 DEF vars, Running
  <2>. QED BY <1>1, <2>1, QuietKept
<1>. QED BY <1>2, <1>3, <1>4, <1>5, <1>6, <1>7 DEF Next

(* The invariant behind the others: who holds which key, which invite a     *)
(* dialling key stands for, and what a running daemon's memory has of its   *)
(* file (greet_inner, accept, Network::save).                               *)
THEOREM Inductive == Spec => []IInv
BY InitIInv, IInvKept, PTL DEF Spec

-----------------------------------------------------------------------------
(* What follows. *)

(* What a running daemon writes has all that its file had. *)
LEMMA WroteGrows ==
    ASSUME Shape, MemoryHasDisk, NEW s \in Sirji, up[s], NEW q, NEW saved \in BOOLEAN,
           NEW new, NEW minted, Evolves(mem[s], q, new, minted), Wrote(s, q, saved)
    PROVE  \A r \in Sirji : Grows(disk[r], disk'[r])
<1>1. Grows(mem[s], q) /\ Grows(disk[s], mem[s])
  BY DEF Evolves, MemoryHasDisk
<1>2. Grows(disk[s], q)
  BY <1>1, GrowsTransitive
<1>. QED BY <1>2, GrowsReflexive DEF Wrote, Shape, TypeOK

(* No step makes a file lose anything. *)
LEMMA DiskGrows ==
    ASSUME IInv, [Next]_vars
    PROVE  \A r \in Sirji : Grows(disk[r], disk'[r])
<1>. USE DEF IInv
<1>1. CASE UNCHANGED disk
  BY <1>1, GrowsReflexive
<1>2. ASSUME NEW s \in Sirji, Command(s)
      PROVE  \A r \in Sirji : Grows(disk[r], disk'[r])
  <2>1. CASE \E k \in Key, saved \in BOOLEAN, spot \in Spot : NewAddress(s, spot, k, saved)
    <3>1. PICK k \in Key, saved \in BOOLEAN, spot \in Spot : NewAddress(s, spot, k, saved)
      BY <2>1
    <3>2. PICK q : Evolves(mem[s], q, {}, {k}) /\ Wrote(s, q, saved)
      BY <3>1, NewAddressWrote DEF Shape
    <3>3. up[s]
      BY <3>1 DEF NewAddress
    <3>. QED BY <3>2, <3>3, WroteGrows
  <2>2. CASE \E k \in Key, saved \in BOOLEAN, alias \in Alias : InvitePeer(s, alias, k, saved)
    <3>1. PICK k \in Key, saved \in BOOLEAN, alias \in Alias : InvitePeer(s, alias, k, saved)
      BY <2>2
    <3>2. PICK q : Evolves(mem[s], q, {<<k, None>>}, {k}) /\ Wrote(s, q, saved)
      BY <3>1, InvitePeerWrote DEF Shape
    <3>3. up[s]
      BY <3>1 DEF InvitePeer
    <3>. QED BY <3>2, <3>3, WroteGrows
  <2>3. CASE \E k \in Key, saved \in BOOLEAN, name \in Name : InviteDevice(s, name, k, saved)
    <3>1. PICK k \in Key, saved \in BOOLEAN, name \in Name : InviteDevice(s, name, k, saved)
      BY <2>3
    <3>2. PICK q : Evolves(mem[s], q, {}, {k}) /\ Wrote(s, q, saved)
      BY <3>1, InviteDeviceWrote DEF Shape
    <3>3. up[s]
      BY <3>1 DEF InviteDevice
    <3>. QED BY <3>2, <3>3, WroteGrows
  <2>. QED BY <1>1, <1>2, <2>1, <2>2, <2>3 DEF Command, Start, Crash, DialPeer
<1>3. ASSUME NEW s \in Sirji, NEW m \in wire, Greet(s, m)
      PROVE  \A r \in Sirji : Grows(disk[r], disk'[r])
  <2>1. PICK on \in bound[s] :
          \/ \E saved \in BOOLEAN : \/ GreetKnown(s, m, on, saved)
                                    \/ GreetInvitedDevice(s, m, on, saved)
                                    \/ GreetInvitedPeer(s, m, on, saved)
          \/ GreetRefused(s, m, on)
    BY <1>3 DEF Greet
  <2>2. CASE GreetRefused(s, m, on)
    BY <1>1, <2>2 DEF GreetRefused
  <2>3. ASSUME NEW saved \in BOOLEAN,
               \/ GreetKnown(s, m, on, saved)
               \/ GreetInvitedDevice(s, m, on, saved)
               \/ GreetInvitedPeer(s, m, on, saved)
        PROVE  \A r \in Sirji : Grows(disk[r], disk'[r])
    <3>1. PICK q, new : Evolves(mem[s], q, new, {}) /\ Wrote(s, q, saved)
      BY <2>3, GreetKnownWrote, GreetInvitedDeviceWrote, GreetInvitedPeerWrote DEF Shape
    <3>2. up[s]
      BY <2>3 DEF GreetKnown, GreetInvitedDevice, GreetInvitedPeer, Unknown, Greets
    <3>. QED BY <3>1, <3>2, WroteGrows
  <2>. QED BY <2>1, <2>2, <2>3
<1>4. ASSUME NEW c \in Caller, Proceed(c)
      PROVE  \A r \in Sirji : Grows(disk[r], disk'[r])
  <2>1. CASE \E m \in wire, saved \in BOOLEAN : AcceptEnds(c, m, saved)
    <3>1. PICK m \in wire, saved \in BOOLEAN : AcceptEnds(c, m, saved)
      BY <2>1
    <3>2. PICK s \in Sirji : s = task[c].at
      BY <3>1 DEF AcceptEnds, Reads, Shape, JobsAtSirjis
    <3>3. up[s] /\ task[c].alias \in Alias
      BY <3>1, <3>2 DEF AcceptEnds, Reads, Shape, JobsAtSirjis
    <3>4. PICK q : /\ Evolves(mem[s], q,
                              {<<task[c].mine, task[c].invite.identity>>}, {task[c].mine})
                  /\ Wrote(s, q, saved)
      BY <3>1, <3>2, <3>3, AcceptEndsWrote DEF Shape
    <3>. QED BY <3>3, <3>4, WroteGrows
  <2>. QED BY <1>1, <1>4, <2>1
       DEF Proceed, Dial, DialFails, ConnectionLost, GiveUp, AcceptRefused, EnrolEnds,
           EnrolRefused
<1>. QED BY <1>1, <1>2, <1>3, <1>4
     DEF Next, vars, Begin, AcceptStarts, EnrolStarts, Lose, EnrolStops

(* No entry ever names an identity of ours that has no key file, whatever   *)
(* crashes and whichever writes fail (Keystore::generate precedes every     *)
(* push in handle and accept).                                              *)
THEOREM KeysComeFirst == Spec => []KeyBeforeEntry
<1>1. IInv => KeyBeforeEntry
  BY DEF IInv, OwnKeysStored, OwnKeys, KeyBeforeEntry
<1>. QED BY Inductive, <1>1, PTL

(* An entry made by `accept` has its mirror image in the file of the sirji  *)
(* whose invite it was (greet_inner saves before it answers).               *)
THEOREM AcceptedAreMirrored == Spec => []AcceptedImpliesMirrored
<1>1. IInv => AcceptedImpliesMirrored
  <2>. SUFFICES ASSUME IInv, NEW s \in Sirji, NEW n \in {mem[s], disk[s]},
                       NEW i \in DOMAIN n.peers, n.peers[i].peer \in InviteIds
                PROVE  \E r \in Sirji : Holds(r, n.peers[i].peer, n.peers[i].mine)
    BY DEF AcceptedImpliesMirrored, Nets
  <2>. DEFINE x == <<n.peers[i].mine, n.peers[i].peer>>
  <2>1. x \in PairsAt(s)
    BY DEF PairsAt, Pairs
  <2>. QED BY <2>1 DEF IInv, PairsMirrored
<1>. QED BY Inductive, <1>1, PTL

(* No step takes an entry out of network.toml, renames it, or puts another  *)
(* peer in the place of one that is recorded (greet_inner, Network::save).  *)
THEOREM RelationshipsKept == Spec => RelationshipsStay
<1>1. IInv /\ [Next]_vars =>
        [\A s \in Sirji : PeersStay(disk[s], disk'[s])]_vars
  BY DiskGrows DEF Grows, PeersStay
<1>. QED BY Inductive, <1>1, PTL DEF Spec, RelationshipsStay
=============================================================================
