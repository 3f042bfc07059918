------------------------ MODULE PairingRestartProofs ------------------------
(***************************************************************************)
(* A daemon that stops can be started again, while no two commands for an  *)
(* alias overlap.                                                          *)
(*                                                                         *)
(* Every net a handler makes of an acceptable one is acceptable: that is   *)
(* what its guards are for, all but one: `accept` pushes an alias it has   *)
(* looked up long before.  So the invariant says that this alias stays     *)
(* free meanwhile, which takes OneAtATime.                                 *)
(***************************************************************************)
EXTENDS PairingOnceProofs

-----------------------------------------------------------------------------
(* What each handler makes of a net. *)

Aliases(n) == {n.peers[i].alias : i \in DOMAIN n.peers}

Spots(n) == {n.handshake_keys[i].alias : i \in DOMAIN n.handshake_keys}

(* n becomes q, which is acceptable, has all the spots of n, and the        *)
(* aliases in `added` besides those of n.                                   *)
Orders(n, q, added) ==
    /\ Acceptable(q)
    /\ Spots(n) \subseteq Spots(q)
    /\ Aliases(q) \subseteq Aliases(n) \cup added

(* The lookups, by what is listed. *)
LEMMA Lookups ==
    /\ \A n, alias : peer_by_alias(n, alias) # {} <=> alias \in Aliases(n)
    /\ \A n, spot : handshake_key_by_alias(n, spot) # {} <=> spot \in Spots(n)
BY DEF peer_by_alias, handshake_key_by_alias, Aliases, Spots

LEMMA ReachedBySpots ==
    \A n : ReachedOnOurs(n) <=>
             \A i \in DOMAIN n.peers :
                n.peers[i].reached_on = None \/ n.peers[i].reached_on \in Spots(n)
BY Lookups DEF ReachedOnOurs

(* An address is pushed. *)
LEMMA AddressOrders ==
    ASSUME NEW n \in Network, Acceptable(n), NEW hk \in HandshakeKey,
           NEW q, q = [n EXCEPT !.handshake_keys = Append(@, hk)]
    PROVE  Orders(n, q, {})
<1>1. /\ q.devices = n.devices /\ q.peers = n.peers
      /\ Len(n.handshake_keys) \in Nat
      /\ DOMAIN n.handshake_keys = 1 .. Len(n.handshake_keys)
      /\ DOMAIN q.handshake_keys = 1 .. Len(n.handshake_keys) + 1
      /\ \A i \in DOMAIN n.handshake_keys : q.handshake_keys[i] = n.handshake_keys[i]
  BY PushedAddress
<1>2. Spots(n) \subseteq Spots(q)
  BY <1>1 DEF Spots
<1>3. Aliases(q) = Aliases(n)
  BY <1>1 DEF Aliases
<1>4. q.handshake_keys # << >>
  <2>1. 1 \in DOMAIN q.handshake_keys
    BY <1>1
  <2>. QED BY <2>1
<1>5. ReachedOnOurs(q)
  BY <1>1, <1>2, ReachedBySpots DEF Acceptable
<1>6. DistinctAliases(q) /\ DistinctNames(q)
  <2>1. q.devices = n.devices /\ q.peers = n.peers
    BY <1>1
  <2>. QED BY <2>1 DEF Acceptable, DistinctAliases, DistinctNames
<1>. QED BY <1>2, <1>3, <1>4, <1>5, <1>6 DEF Orders, Acceptable

(* An entry is pushed, under an alias that is free. *)
LEMMA PeerOrders ==
    ASSUME NEW n \in Network, Acceptable(n), NEW p \in Peer, p.alias \notin Aliases(n),
           p.reached_on = None, NEW q, q = [n EXCEPT !.peers = Append(@, p)]
    PROVE  Orders(n, q, {p.alias})
<1>. DEFINE last == Len(n.peers) + 1
<1>1. /\ q.devices = n.devices /\ q.handshake_keys = n.handshake_keys
      /\ Len(n.peers) \in Nat
      /\ DOMAIN n.peers = 1 .. Len(n.peers)
      /\ DOMAIN q.peers = 1 .. last
      /\ \A i \in DOMAIN n.peers : q.peers[i] = n.peers[i]
      /\ q.peers[last] = p
  BY PushedPeer
<1>2. \A i \in DOMAIN q.peers : i \in DOMAIN n.peers \/ i = last
  BY <1>1
<1>. HIDE DEF last
<1>3. Aliases(q) \subseteq Aliases(n) \cup {p.alias}
  BY <1>1, <1>2 DEF Aliases
<1>4. Spots(q) = Spots(n)
  BY <1>1 DEF Spots
<1>5. \A i \in DOMAIN n.peers : n.peers[i].alias # p.alias
  BY DEF Aliases
<1>6. DistinctAliases(q)
  BY <1>1, <1>2, <1>5 DEF DistinctAliases, Acceptable
<1>7. ReachedOnOurs(q)
  BY <1>1, <1>2, <1>4, ReachedBySpots DEF Acceptable
<1>. QED BY <1>1, <1>3, <1>4, <1>6, <1>7 DEF Orders, Acceptable, DistinctNames

(* A device is pushed, under a name that is free. *)
LEMMA DeviceOrders ==
    ASSUME NEW n \in Network, Acceptable(n), NEW d \in DeviceEntry,
           device_by_name(n, d.name) = {},
           NEW q, q = [n EXCEPT !.devices = Append(@, d)]
    PROVE  Orders(n, q, {})
<1>. DEFINE last == Len(n.devices) + 1
<1>1. /\ q.peers = n.peers /\ q.handshake_keys = n.handshake_keys
      /\ Len(n.devices) \in Nat
      /\ DOMAIN n.devices = 1 .. Len(n.devices)
      /\ DOMAIN q.devices = 1 .. last
      /\ \A i \in DOMAIN n.devices : q.devices[i] = n.devices[i]
      /\ q.devices[last] = d
  BY PushedDevice
<1>2. \A i \in DOMAIN q.devices : i \in DOMAIN n.devices \/ i = last
  BY <1>1
<1>. HIDE DEF last
<1>3. Aliases(q) = Aliases(n) /\ Spots(q) = Spots(n)
  BY <1>1 DEF Aliases, Spots
<1>4. \A i \in DOMAIN n.devices : n.devices[i].name # d.name
  BY DEF device_by_name
<1>5. DistinctNames(q)
  BY <1>1, <1>2, <1>4 DEF DistinctNames, Acceptable
<1>6. ReachedOnOurs(q)
  BY <1>1, <1>3, ReachedBySpots DEF Acceptable
<1>. QED BY <1>1, <1>3, <1>5, <1>6 DEF Orders, Acceptable, DistinctAliases

(* An entry is rewritten, under its alias, and reached on an address of ours. *)
LEMMA RewrittenOrders ==
    ASSUME NEW n \in Network, Acceptable(n), NEW j \in DOMAIN n.peers, NEW p \in Peer,
           p.alias = n.peers[j].alias, p.reached_on \in Spots(n),
           NEW q, q = [n EXCEPT !.peers[j] = p]
    PROVE  Orders(n, q, {})
<1>1. /\ q.handshake_keys = n.handshake_keys /\ q.devices = n.devices
      /\ DOMAIN q.peers = DOMAIN n.peers
      /\ \A i \in DOMAIN n.peers : i # j => q.peers[i] = n.peers[i]
      /\ q.peers[j] = p
  BY RewrittenPeer
<1>2. \A i \in DOMAIN n.peers : q.peers[i].alias = n.peers[i].alias
  BY <1>1
<1>3. Aliases(q) = Aliases(n) /\ Spots(q) = Spots(n)
  BY <1>1, <1>2 DEF Aliases, Spots
<1>4. DistinctAliases(q)
  BY <1>1, <1>2 DEF DistinctAliases, Acceptable
<1>5. ReachedOnOurs(q)
  BY <1>1, <1>3, ReachedBySpots DEF Acceptable
<1>. QED BY <1>1, <1>3, <1>4, <1>5 DEF Orders, Acceptable, DistinctNames

(* A device is enrolled under its name. *)
LEMMA EnrolledOrders ==
    ASSUME NEW n \in Network, Acceptable(n), NEW j \in DOMAIN n.devices,
           NEW d \in DeviceEntry, d.name = n.devices[j].name,
           NEW q, q = [n EXCEPT !.devices[j] = d]
    PROVE  Orders(n, q, {})
<1>0. n.devices \in Seq(DeviceEntry)
  BY DEF Network
<1>1. /\ q.handshake_keys = n.handshake_keys /\ q.peers = n.peers
      /\ DOMAIN q.devices = DOMAIN n.devices
      /\ \A i \in DOMAIN n.devices : i # j => q.devices[i] = n.devices[i]
      /\ q.devices[j] = d
  BY <1>0 DEF Network
<1>2. Aliases(q) = Aliases(n) /\ Spots(q) = Spots(n)
  BY <1>1 DEF Aliases, Spots
<1>3. DistinctNames(q)
  BY <1>1 DEF DistinctNames, Acceptable
<1>4. ReachedOnOurs(q)
  BY <1>1, <1>2, ReachedBySpots DEF Acceptable
<1>. QED BY <1>1, <1>2, <1>3, <1>4 DEF Orders, Acceptable, DistinctAliases

-----------------------------------------------------------------------------
(* What a step leaves of Restarts. *)

(* Jobs that go on keep their home and their alias, and none begins. *)
JobsGoOn ==
    \A c \in Job \cap Running' :
        c \in Running /\ task'[c].at = task[c].at /\ task'[c].alias = task[c].alias

(* What is given under OneAtATime, part by part. *)
LEMMA RestartsParts ==
    ASSUME OneAtATime, Restarts
    PROVE  /\ \A s \in Sirji : Acceptable(mem[s]) /\ Acceptable(disk[s])
           /\ BoundListed /\ AliasesReserved
BY DEF Restarts

(* A step that writes nothing, and begins no `accept`. *)
LEMMA QuietRestarts ==
    ASSUME OneAtATime, Restarts, UNCHANGED <<mem, disk>>,
           \A s \in Sirji : bound'[s] \subseteq bound[s], JobsGoOn
    PROVE  Restarts'
<1>1. BoundListed'
  BY RestartsParts DEF BoundListed
<1>2. AliasesReserved'
  BY RestartsParts DEF AliasesReserved, JobsGoOn, Knows
<1>3. \A s \in Sirji : Acceptable(mem'[s]) /\ Acceptable(disk'[s])
  BY RestartsParts
<1>. QED BY <1>1, <1>2, <1>3 DEF Restarts, Acceptable

(* A step that writes a net: the aliases it adds are nobody's.              *)
LEMMA WroteRestarts ==
    ASSUME OneAtATime, Shape, Restarts, NEW s \in Sirji, NEW q, NEW saved \in BOOLEAN,
           NEW added, Orders(mem[s], q, added), Wrote(s, q, saved), UNCHANGED bound, JobsGoOn,
           \A c \in Job \cap Running' : task[c].at = s => task[c].alias \notin added
    PROVE  Restarts'
<1>1. /\ mem'[s] = q
      /\ disk'[s] = q \/ disk'[s] = disk[s]
      /\ \A r \in Sirji : r # s => mem'[r] = mem[r] /\ disk'[r] = disk[r]
  BY DEF Wrote, Shape, TypeOK
<1>2. \A r \in Sirji : Acceptable(mem'[r]) /\ Acceptable(disk'[r])
  BY <1>1, RestartsParts DEF Orders
<1>3. BoundListed'
  <2>1. \A r \in Sirji : Spots(mem[r]) \subseteq Spots(mem'[r])
    BY <1>1 DEF Orders
  <2>2. \A r \in Sirji : \A on \in bound[r] : on.alias \in Spots(mem[r])
    BY RestartsParts, Lookups DEF BoundListed
  <2>3. \A r \in Sirji : \A on \in bound'[r] :
          handshake_key_by_alias(mem'[r], on.alias) # {}
    BY <2>1, <2>2, Lookups
  <2>. QED BY <2>3 DEF BoundListed
<1>4. AliasesReserved'
  <2> SUFFICES ASSUME NEW c \in Job \cap Running'
               PROVE  /\ peer_by_alias(mem'[task[c].at], task[c].alias) = {}
                      /\ \A e \in Job \cap Running' :
                            task[e].at = task[c].at /\ task[e].alias = task[c].alias => e = c
    BY DEF AliasesReserved, JobsGoOn, Knows
  <2>1. c \in Job \cap Running /\ task[c].at \in Sirji
    BY DEF JobsGoOn, Shape, JobsAtSirjis
  <2>2. task[c].alias \notin Aliases(mem[task[c].at])
    BY <2>1, RestartsParts, Lookups DEF AliasesReserved, Knows
  <2>3. task[c].alias \notin Aliases(mem'[task[c].at])
    BY <1>1, <2>1, <2>2 DEF Orders
  <2>. QED BY <2>1, <2>3, RestartsParts, Lookups DEF AliasesReserved, JobsGoOn
<1>. QED BY <1>2, <1>3, <1>4 DEF Restarts, Acceptable

(* The daemon reads its file. *)
LEMMA StartRestarts ==
    ASSUME OneAtATime, Shape, Restarts, NEW s \in Sirji, Start(s)
    PROVE  Restarts'
<1>1. /\ mem'[s] = disk[s] /\ bound'[s] = Range(disk[s].handshake_keys)
      /\ \A r \in Sirji : r # s => mem'[r] = mem[r] /\ bound'[r] = bound[r]
      /\ UNCHANGED <<disk, task>> /\ ~up[s]
  BY DEF Start, Shape, TypeOK
<1>2. \A r \in Sirji : Acceptable(mem'[r]) /\ Acceptable(disk'[r])
  BY <1>1, RestartsParts
<1>3. BoundListed'
  <2>1. \A on \in bound'[s] : on.alias \in Spots(disk[s])
    BY <1>1 DEF Range, Spots
  <2>2. \A on \in bound'[s] : handshake_key_by_alias(mem'[s], on.alias) # {}
    BY <1>1, <2>1, Lookups
  <2>. QED BY <1>1, <2>2, RestartsParts DEF BoundListed
<1>4. AliasesReserved'
  <2>1. \A c \in Job \cap Running : task[c].at \in Sirji /\ task[c].at # s
    BY <1>1 DEF Shape, JobsAtSirjis
  <2>. QED BY <1>1, <2>1, RestartsParts DEF AliasesReserved, Knows, Running
<1>. QED BY <1>2, <1>3, <1>4 DEF Restarts, Acceptable

(* An `accept` begins under an alias that is free and nobody's. *)
LEMMA AcceptStartsRestarts ==
    ASSUME OneAtATime, Shape, Restarts, NEW c \in Job, NEW s \in Sirji, NEW alias \in Alias,
           NEW invite, NEW k \in Key, AcceptStarts(c, s, alias, invite, k)
    PROVE  Restarts'
<1>1. /\ UNCHANGED <<mem, disk, bound>>
      /\ task'[c].at = s /\ task'[c].alias = alias
      /\ \A e \in Caller : e # c => task'[e] = task[e]
      /\ task[c] = None
  BY DEF AcceptStarts, Shape, TypeOK, Caller
<1>2. ~Knows(s, alias)
      /\ \A e \in Running \cap Job : task[e].at = s => task[e].alias # alias
  BY DEF AcceptStarts, AliasFree
<1>3. \A e \in Running' : e = c \/ (e \in Running /\ task'[e] = task[e])
  BY <1>1 DEF Running
<1>4. AliasesReserved'
  BY <1>1, <1>2, <1>3, RestartsParts DEF AliasesReserved, Knows
<1>5. BoundListed'
  BY <1>1, RestartsParts DEF BoundListed
<1>. QED BY <1>1, <1>4, <1>5, RestartsParts DEF Restarts, Acceptable

-----------------------------------------------------------------------------
(* The handlers that write. *)

(* `sirji address new`. *)
LEMMA NewAddressOrders ==
    ASSUME TypeOK, NEW s \in Sirji, Acceptable(mem[s]), NEW spot \in Spot, NEW k \in Key,
           NEW saved \in BOOLEAN, NewAddress(s, spot, k, saved)
    PROVE  \E q : Orders(mem[s], q, {}) /\ Wrote(s, q, saved)
<1>. DEFINE hk == [alias |-> spot, key |-> k, retired |-> FALSE]
            q == [mem[s] EXCEPT !.handshake_keys = Append(@, hk)]
<1>1. hk \in HandshakeKey
  BY DEF HandshakeKey
<1>2. mem[s] \in Network /\ Wrote(s, q, saved)
  BY SaveWrote DEF NewAddress, TypeOK
<1>. HIDE DEF hk
<1>3. Orders(mem[s], q, {})
  BY <1>1, <1>2, AddressOrders
<1>. QED BY <1>2, <1>3

(* `sirji invite`. *)
LEMMA InvitePeerOrders ==
    ASSUME TypeOK, NEW s \in Sirji, Acceptable(mem[s]), NEW alias \in Alias, NEW k \in Key,
           NEW saved \in BOOLEAN, InvitePeer(s, alias, k, saved)
    PROVE  \E q : Orders(mem[s], q, {alias}) /\ Wrote(s, q, saved)
<1>. DEFINE p == [alias |-> alias, peer |-> None, mine |-> k, addresses |-> {},
                  reached_on |-> None]
            q == [mem[s] EXCEPT !.peers = Append(@, p)]
<1>1. p \in Peer /\ p.alias = alias /\ p.reached_on = None
  BY DEF Peer
<1>2. mem[s] \in Network /\ Wrote(s, q, saved)
  BY SaveWrote DEF InvitePeer, TypeOK
<1>3. alias \notin Aliases(mem[s])
  BY Lookups DEF InvitePeer, Knows
<1>. HIDE DEF p
<1>4. Orders(mem[s], q, {alias})
  BY <1>1, <1>2, <1>3, PeerOrders
<1>. QED BY <1>2, <1>4

(* `sirji device invite`. *)
LEMMA InviteDeviceOrders ==
    ASSUME TypeOK, NEW s \in Sirji, Acceptable(mem[s]), NEW name \in Name, NEW k \in Key,
           NEW saved \in BOOLEAN, InviteDevice(s, name, k, saved)
    PROVE  \E q : Orders(mem[s], q, {}) /\ Wrote(s, q, saved)
<1>. DEFINE d == [name |-> name, keys |-> << >>, invite |-> k]
            q == [mem[s] EXCEPT !.devices = Append(@, d)]
<1>1. d \in DeviceEntry /\ d.name = name
  BY EmptySeq DEF DeviceEntry
<1>2. mem[s] \in Network /\ Wrote(s, q, saved)
  BY SaveWrote DEF InviteDevice, TypeOK
<1>3. device_by_name(mem[s], name) = {}
  BY DEF InviteDevice
<1>. HIDE DEF d
<1>4. Orders(mem[s], q, {})
  BY <1>1, <1>2, <1>3, DeviceOrders
<1>. QED BY <1>2, <1>4

(* A greeting of a known key, on an address that is listed. *)
LEMMA GreetKnownOrders ==
    ASSUME TypeOK, NEW s \in Sirji, Acceptable(mem[s]), BoundListed, NEW m \in wire,
           NEW on \in bound[s], NEW saved \in BOOLEAN, GreetKnown(s, m, on, saved)
    PROVE  \E q : Orders(mem[s], q, {}) /\ Wrote(s, q, saved)
<1>1. PICK j \in DOMAIN mem[s].peers :
        save(s, [mem[s] EXCEPT !.peers[j] = [@ EXCEPT !.reached_on = on.alias]], saved)
  BY DEF GreetKnown
<1>. DEFINE p == [mem[s].peers[j] EXCEPT !.reached_on = on.alias]
            q == [mem[s] EXCEPT !.peers[j] = p]
<1>2. mem[s] \in Network /\ on.alias \in Spot
  BY DEF TypeOK, HandshakeKey
<1>3. p \in Peer /\ p.alias = mem[s].peers[j].alias /\ p.reached_on = on.alias
  BY <1>2, Entries DEF Peer
<1>4. Wrote(s, q, saved)
  BY <1>1, SaveWrote
<1>5. on.alias \in Spots(mem[s])
  BY Lookups DEF BoundListed
<1>. HIDE DEF p
<1>6. Orders(mem[s], q, {})
  BY <1>2, <1>3, <1>5, RewrittenOrders
<1>. QED BY <1>4, <1>6

(* The enrolment of a device. *)
LEMMA GreetInvitedDeviceOrders ==
    ASSUME TypeOK, NEW s \in Sirji, Acceptable(mem[s]), NEW m \in wire, NEW on \in bound[s],
           NEW saved \in BOOLEAN, GreetInvitedDevice(s, m, on, saved)
    PROVE  \E q : Orders(mem[s], q, {}) /\ Wrote(s, q, saved)
<1>1. PICK j \in DOMAIN mem[s].devices :
        check_and_save(s, [mem[s] EXCEPT !.devices[j] =
                             [@ EXCEPT !.keys = <<m.from>>, !.invite = None]], saved)
  BY DEF GreetInvitedDevice
<1>. DEFINE d == [mem[s].devices[j] EXCEPT !.keys = <<m.from>>, !.invite = None]
            q == [mem[s] EXCEPT !.devices[j] = d]
<1>2. mem[s] \in Network /\ m.from \in Key
  BY DEF TypeOK, Hello, Welcome
<1>3. d \in DeviceEntry /\ d.name = mem[s].devices[j].name
  <2>1. <<m.from>> \in Seq(Key)
    BY <1>2
  <2>. QED BY <1>2, <2>1, Entries DEF DeviceEntry
<1>4. Wrote(s, q, saved)
  BY <1>1, SaveWrote
<1>. HIDE DEF d
<1>5. Orders(mem[s], q, {})
  BY <1>2, <1>3, EnrolledOrders
<1>. QED BY <1>4, <1>5

(* The acceptance of a peer's invite. *)
LEMMA GreetInvitedPeerOrders ==
    ASSUME TypeOK, NEW s \in Sirji, Acceptable(mem[s]), BoundListed, NEW m \in wire,
           NEW on \in bound[s], NEW saved \in BOOLEAN, GreetInvitedPeer(s, m, on, saved)
    PROVE  \E q : Orders(mem[s], q, {}) /\ Wrote(s, q, saved)
<1>1. PICK j \in DOMAIN mem[s].peers :
        check_and_save(s, [mem[s] EXCEPT !.peers[j] =
                             [@ EXCEPT !.peer = m.from, !.addresses = m.addresses,
                                       !.reached_on = on.alias]], saved)
  BY DEF GreetInvitedPeer
<1>. DEFINE p == [mem[s].peers[j] EXCEPT !.peer = m.from, !.addresses = m.addresses,
                                         !.reached_on = on.alias]
            q == [mem[s] EXCEPT !.peers[j] = p]
<1>2. mem[s] \in Network /\ on.alias \in Spot /\ m.from \in Key
  BY DEF TypeOK, HandshakeKey, Hello, Welcome
<1>3. m.addresses \in SUBSET Key
  BY DEF GreetInvitedPeer, TypeOK, Hello, Welcome
<1>4. p \in Peer /\ p.alias = mem[s].peers[j].alias /\ p.reached_on = on.alias
  <2>1. mem[s].peers[j] \in Peer
    BY <1>2, Entries
  <2>. QED BY <1>2, <1>3, <2>1 DEF Peer
<1>5. Wrote(s, q, saved)
  BY <1>1, SaveWrote
<1>6. on.alias \in Spots(mem[s])
  BY Lookups DEF BoundListed
<1>. HIDE DEF p
<1>7. Orders(mem[s], q, {})
  BY <1>2, <1>4, <1>6, RewrittenOrders
<1>. QED BY <1>5, <1>7

(* The end of an `accept`. *)
LEMMA AcceptEndsOrders ==
    ASSUME TypeOK, NEW c \in Caller, NEW s \in Sirji, s = task[c].at, Acceptable(mem[s]),
           task[c].alias \in Alias, ~Knows(s, task[c].alias),
           NEW m \in wire, NEW saved \in BOOLEAN, AcceptEnds(c, m, saved)
    PROVE  \E q : Orders(mem[s], q, {task[c].alias}) /\ Wrote(s, q, saved)
<1>. DEFINE p == [alias |-> task[c].alias, peer |-> task[c].invite.identity,
                  mine |-> task[c].mine, addresses |-> m.addresses, reached_on |-> None]
            q == [mem[s] EXCEPT !.peers = Append(@, p)]
<1>1. task[c] \in Task /\ m \in Hello \cup Welcome /\ m.type = "Ok"
  BY DEF TypeOK, AcceptEnds, Reads, Running
<1>2. m.addresses \in SUBSET Key
  BY <1>1 DEF Hello, Welcome
<1>3. p \in Peer /\ p.alias = task[c].alias /\ p.reached_on = None
  BY <1>1, <1>2 DEF Peer, Task, Invite
<1>4. mem[s] \in Network /\ Wrote(s, q, saved)
  BY SaveWrote DEF AcceptEnds, TypeOK
<1>5. task[c].alias \notin Aliases(mem[s])
  BY Lookups DEF Knows
<1>. HIDE DEF p
<1>6. Orders(mem[s], q, {task[c].alias})
  BY <1>3, <1>4, <1>5, PeerOrders
<1>. QED BY <1>4, <1>6

-----------------------------------------------------------------------------
(* Every step keeps Restarts. *)

(* The commands. *)
LEMMA CommandRestarts ==
    ASSUME OneAtATime, Shape, Restarts, NEW s \in Sirji, Command(s)
    PROVE  Restarts'
<1>0. TypeOK /\ Acceptable(mem[s])
  BY RestartsParts DEF Shape
<1>1. CASE Start(s)
  BY <1>1, StartRestarts
<1>2. CASE Crash(s)
  <2>1. /\ UNCHANGED <<mem, disk>> /\ JobsGoOn
        /\ \A r \in Sirji : bound'[r] \subseteq bound[r]
    BY <1>2 DEF Crash, JobsGoOn, Running, Shape, TypeOK
  <2>. QED BY <2>1, QuietRestarts
<1>3. ASSUME UNCHANGED task PROVE JobsGoOn
  BY <1>3 DEF JobsGoOn, Running
<1>4. ASSUME NEW k \in Key, NEW saved \in BOOLEAN, NEW spot \in Spot,
            NewAddress(s, spot, k, saved)
      PROVE  Restarts'
  <2>1. PICK q : Orders(mem[s], q, {}) /\ Wrote(s, q, saved)
    BY <1>0, <1>4, NewAddressOrders
  <2>2. UNCHANGED <<task, bound>>
    BY <1>4 DEF NewAddress
  <2>. DEFINE none == {}
  <2>3. Orders(mem[s], q, none) /\ \A c \in Job \cap Running' : task[c].alias \notin none
    BY <2>1
  <2>. HIDE DEF none
  <2>. QED BY <1>3, <2>1, <2>2, <2>3, WroteRestarts
<1>5. ASSUME NEW k \in Key, NEW saved \in BOOLEAN, NEW alias \in Alias,
            InvitePeer(s, alias, k, saved)
      PROVE  Restarts'
  <2>1. PICK q : Orders(mem[s], q, {alias}) /\ Wrote(s, q, saved)
    BY <1>0, <1>5, InvitePeerOrders
  <2>2. UNCHANGED <<task, bound>> /\ AliasFree(s, alias)
    BY <1>5 DEF InvitePeer
  <2>3. \A c \in Job \cap Running' : task[c].at = s => task[c].alias \notin {alias}
    BY <2>2 DEF AliasFree, Running
  <2>. DEFINE added == {alias}
  <2>4. /\ Orders(mem[s], q, added)
        /\ \A c \in Job \cap Running' : task[c].at = s => task[c].alias \notin added
    BY <2>1, <2>3
  <2>. HIDE DEF added
  <2>. QED BY <1>3, <2>1, <2>2, <2>4, WroteRestarts
<1>6. ASSUME NEW k \in Key, NEW saved \in BOOLEAN, NEW name \in Name,
            InviteDevice(s, name, k, saved)
      PROVE  Restarts'
  <2>1. PICK q : Orders(mem[s], q, {}) /\ Wrote(s, q, saved)
    BY <1>0, <1>6, InviteDeviceOrders
  <2>2. UNCHANGED <<task, bound>>
    BY <1>6 DEF InviteDevice
  <2>. DEFINE none == {}
  <2>3. Orders(mem[s], q, none) /\ \A c \in Job \cap Running' : task[c].alias \notin none
    BY <2>1
  <2>. HIDE DEF none
  <2>. QED BY <1>3, <2>1, <2>2, <2>3, WroteRestarts
<1>7. ASSUME NEW i \in DOMAIN mem[s].peers, NEW address \in Key, DialPeer(s, i, address)
      PROVE  Restarts'
  <2>1. UNCHANGED <<mem, disk, task, bound>>
    BY <1>7 DEF DialPeer
  <2>. QED BY <1>3, <2>1, QuietRestarts
<1>. QED BY <1>1, <1>2, <1>4, <1>5, <1>6, <1>7 DEF Command

(* A greeting is answered. *)
LEMMA GreetRestarts ==
    ASSUME OneAtATime, Shape, Restarts, NEW s \in Sirji, NEW m \in wire, Greet(s, m)
    PROVE  Restarts'
<1>0. TypeOK /\ Acceptable(mem[s]) /\ BoundListed
  BY RestartsParts DEF Shape
<1>1. PICK on \in bound[s] :
        \/ \E saved \in BOOLEAN :
            \/ GreetKnown(s, m, on, saved)
            \/ GreetInvitedDevice(s, m, on, saved)
            \/ GreetInvitedPeer(s, m, on, saved)
        \/ GreetRefused(s, m, on)
  BY DEF Greet
<1>2. UNCHANGED <<task, bound>> /\ JobsGoOn
  <2>1. UNCHANGED <<task, bound>>
    BY <1>1 DEF GreetKnown, GreetInvitedDevice, GreetInvitedPeer, GreetRefused
  <2>. QED BY <2>1 DEF JobsGoOn, Running
<1>3. CASE GreetRefused(s, m, on)
  <2>1. UNCHANGED <<mem, disk>>
    BY <1>3 DEF GreetRefused
  <2>. QED BY <1>2, <2>1, QuietRestarts
<1>4. ASSUME NEW saved \in BOOLEAN,
             \/ GreetKnown(s, m, on, saved)
             \/ GreetInvitedDevice(s, m, on, saved)
             \/ GreetInvitedPeer(s, m, on, saved)
      PROVE  Restarts'
  <2>1. PICK q : Orders(mem[s], q, {}) /\ Wrote(s, q, saved)
    BY <1>0, <1>4, GreetKnownOrders, GreetInvitedDeviceOrders, GreetInvitedPeerOrders
  <2>. DEFINE none == {}
  <2>2. Orders(mem[s], q, none) /\ \A c \in Job \cap Running' : task[c].alias \notin none
    BY <2>1
  <2>. HIDE DEF none
  <2>. QED BY <1>2, <2>1, <2>2, WroteRestarts
<1>. QED BY <1>1, <1>3, <1>4

(* An `accept` or an `init` begins. *)
LEMMA BeginRestarts ==
    ASSUME OneAtATime, Shape, Restarts, Begin
    PROVE  Restarts'
<1>1. ASSUME NEW k \in Key, NEW invite \in invites, NEW c \in Job, NEW s \in Sirji,
             NEW alias \in Alias, AcceptStarts(c, s, alias, invite, k)
      PROVE  Restarts'
  BY <1>1, AcceptStartsRestarts
<1>2. ASSUME NEW k \in Key, NEW invite \in invites, NEW d \in Device, EnrolStarts(d, invite, k)
      PROVE  Restarts'
  <2>1. \A c \in Job : task'[c] = task[c]
    BY <1>2, HomesAreApart DEF EnrolStarts, Shape, TypeOK, Caller
  <2>2. JobsGoOn
    BY <2>1 DEF JobsGoOn, Running
  <2>. QED BY <1>2, <2>2, QuietRestarts DEF EnrolStarts
<1>. QED BY <1>1, <1>2 DEF Begin

(* A step of an `accept` or an `init`. *)
LEMMA ProceedRestarts ==
    ASSUME OneAtATime, Shape, Restarts, NEW c \in Caller,
           Proceed(c) \/ (c \in Device /\ EnrolStops(c))
    PROVE  Restarts'
<1>1. ASSUME c \in Running, UNCHANGED <<mem, disk, bound>>,
             NEW t, task' = [task EXCEPT ![c] = t],
             t # None => t.at = task[c].at /\ t.alias = task[c].alias
      PROVE  Restarts'
  <2>1. JobsGoOn
    BY <1>1 DEF JobsGoOn, Running, Shape, TypeOK
  <2>. QED BY <1>1, <2>1, QuietRestarts
<1>2. ASSUME NEW m \in wire, NEW saved \in BOOLEAN, AcceptEnds(c, m, saved)
      PROVE  Restarts'
  <2>. DEFINE s == task[c].at
  <2>1. /\ c \in Job \cap Running /\ task' = [task EXCEPT ![c] = None] /\ UNCHANGED bound
    BY <1>2 DEF AcceptEnds, Reads
  <2>2. s \in Sirji /\ task[c].alias \in Alias
    BY <2>1 DEF Shape, JobsAtSirjis
  <2>3. TypeOK /\ Acceptable(mem[s]) /\ ~Knows(s, task[c].alias)
    BY <2>1, <2>2, RestartsParts DEF Shape, AliasesReserved
  <2>4. PICK q : Orders(mem[s], q, {task[c].alias}) /\ Wrote(s, q, saved)
    BY <1>2, <2>2, <2>3, AcceptEndsOrders
  <2>5. \A e \in Running' : e \in Running /\ e # c /\ task'[e] = task[e]
    BY <2>1 DEF Running, Shape, TypeOK
  <2>6. JobsGoOn
    BY <2>5 DEF JobsGoOn
  <2>7. \A e \in Job \cap Running' : task[e].at = s => task[e].alias # task[c].alias
    BY <2>1, <2>5, RestartsParts DEF AliasesReserved
  <2>. DEFINE added == {task[c].alias}
  <2>8. /\ Orders(mem[s], q, added)
        /\ \A e \in Job \cap Running' : task[e].at = s => task[e].alias \notin added
    BY <2>4, <2>7
  <2>. HIDE DEF added, s
  <2>. QED BY <2>1, <2>2, <2>4, <2>6, <2>8, WroteRestarts
<1>3. ASSUME c \in Running PROVE task[c] \in Task
  BY <1>3 DEF Running, Shape, TypeOK
<1>4. ASSUME NEW address \in Key, Dial(c, address) PROVE Restarts'
  <2>. DEFINE t == [task[c] EXCEPT !.to = address, !.untried = @ \ {address}]
  <2>1. c \in Running /\ UNCHANGED <<mem, disk, bound>>
    BY <1>4 DEF Dial
  <2>2. task' = [task EXCEPT ![c] = t]
    BY <1>4, Zenon DEF Dial
  <2>3. t.at = task[c].at /\ t.alias = task[c].alias
    BY <1>3, <2>1 DEF Task
  <2>. HIDE DEF t
  <2>. QED BY <1>1, <2>1, <2>2, <2>3
<1>5. ASSUME NEW address \in Key, DialFails(c, address) PROVE Restarts'
  <2>. DEFINE t == [task[c] EXCEPT !.untried = @ \ {address}]
  <2>1. c \in Running /\ task' = [task EXCEPT ![c] = t] /\ UNCHANGED <<mem, disk, bound>>
    BY <1>5 DEF DialFails, Shape, TypeOK
  <2>2. t.at = task[c].at /\ t.alias = task[c].alias
    BY <1>3, <2>1 DEF Task
  <2>. HIDE DEF t
  <2>. QED BY <1>1, <2>1, <2>2
<1>6. ASSUME ConnectionLost(c) \/ \E m \in wire : AcceptRefused(c, m) PROVE Restarts'
  <2>. DEFINE t == [task[c] EXCEPT !.to = None]
  <2>1. c \in Running /\ task' = [task EXCEPT ![c] = t] /\ UNCHANGED <<mem, disk, bound>>
    BY <1>6 DEF ConnectionLost, AcceptRefused, Reads, Shape, TypeOK
  <2>2. t.at = task[c].at /\ t.alias = task[c].alias
    BY <1>3, <2>1 DEF Task
  <2>. HIDE DEF t
  <2>. QED BY <1>1, <2>1, <2>2
<1>7. ASSUME \/ GiveUp(c) \/ EnrolStops(c)
             \/ \E m \in wire : EnrolEnds(c, m) \/ EnrolRefused(c, m)
      PROVE  Restarts'
  <2>1. c \in Running /\ task' = [task EXCEPT ![c] = None] /\ UNCHANGED <<mem, disk, bound>>
    BY <1>7 DEF GiveUp, EnrolStops, EnrolEnds, EnrolRefused, Reads
  <2>. QED BY <1>1, <2>1
<1>. QED BY <1>2, <1>4, <1>5, <1>6, <1>7 DEF Proceed

(* Each sirji starts with one address, on file and acceptable. *)
LEMMA InitRestarts == Init => Restarts
<1> SUFFICES ASSUME Init PROVE Restarts
  OBVIOUS
<1>1. \A s \in Sirji : Acceptable(NetworkAtInit(s))
  BY DEF NetworkAtInit, Acceptable, DistinctAliases, DistinctNames, ReachedOnOurs
<1>2. BoundListed /\ AliasesReserved
  BY DEF Init, BoundListed, AliasesReserved, Running
<1>3. \A s \in Sirji : mem[s] = NetworkAtInit(s) /\ disk[s] = NetworkAtInit(s)
  BY DEF Init
<1>. QED BY <1>1, <1>2, <1>3 DEF Restarts

LEMMA RestartsKept == OneAtATime /\ Shape /\ Restarts /\ [Next]_vars => Restarts'
<1> SUFFICES ASSUME OneAtATime, Shape, Restarts, [Next]_vars PROVE Restarts'
  OBVIOUS
<1>1. ASSUME NEW s \in Sirji, Command(s) PROVE Restarts'
  BY <1>1, CommandRestarts
<1>2. ASSUME Begin PROVE Restarts'
  BY <1>2, BeginRestarts
<1>3. ASSUME NEW m \in wire, NEW s \in Sirji, Greet(s, m) PROVE Restarts'
  BY <1>3, GreetRestarts
<1>4. ASSUME NEW c \in Caller, Proceed(c) \/ (c \in Device /\ EnrolStops(c)) PROVE Restarts'
  BY <1>4, ProceedRestarts
<1>5. ASSUME UNCHANGED <<mem, disk, bound, task>> PROVE Restarts'
  <2>1. JobsGoOn
    BY <1>5 DEF JobsGoOn, Running
  <2>. QED BY <1>5, <2>1, QuietRestarts
<1>6. ASSUME NEW m \in wire, Lose(m) PROVE Restarts'
  BY <1>5, <1>6 DEF Lose
<1>7. CASE UNCHANGED vars
  BY <1>5, <1>7 DEF vars
<1>. QED BY <1>1, <1>2, <1>3, <1>4, <1>6, <1>7 DEF Next, Caller

(* As long as no two commands for an alias overlap, whatever the handlers   *)
(* leave in memory or on file is a net `check` accepts, and an `accept` in  *)
(* progress has its alias to itself (greet_inner, accept).                  *)
THEOREM RestartsInductive ==
    ASSUME OneAtATime
    PROVE  Spec => [](IInv /\ Once /\ Restarts)
<1>1. Init => IInv /\ Once /\ Restarts
  BY InitIInv, InitOnce, InitRestarts
<1>2. IInv /\ Once /\ Restarts /\ [Next]_vars => IInv' /\ Once' /\ Restarts'
  BY IInvKept, OnceStays, RestartsKept DEF IInv
<1>. QED BY <1>1, <1>2, PTL DEF Spec

(* And so a daemon that stops can be started again (Daemon::start,          *)
(* Network::check).                                                         *)
THEOREM CanAlwaysRestart ==
    ASSUME OneAtATime
    PROVE  Spec => []CanRestart
<1>1. IInv /\ Once /\ Restarts => CanRestart
  <2> SUFFICES ASSUME IInv, Once, Restarts, NEW s \in Sirji PROVE Startable(s)
    BY DEF CanRestart
  <2>1. disk[s] \in Network /\ Acceptable(disk[s]) /\ DistinctMine(disk[s])
    BY RestartsParts DEF IInv, Shape, TypeOK, Once, Apart, NetsApart, OwnApart
  <2>2. WellFormedIds(disk[s])
    <3>1. \A i \in DOMAIN disk[s].devices : Range(disk[s].devices[i].keys) \subseteq Key
      <4> SUFFICES ASSUME NEW i \in DOMAIN disk[s].devices
                   PROVE  Range(disk[s].devices[i].keys) \subseteq Key
        OBVIOUS
      <4>1. disk[s].devices[i].keys \in Seq(Key)
        BY <2>1, Entries DEF DeviceEntry
      <4>. QED BY <4>1 DEF Range
    <3>. QED BY <2>1, <3>1, Entries DEF WellFormedIds, HandshakeKey, Peer, DeviceEntry
  <2>3. \A i \in DOMAIN disk[s].handshake_keys : disk[s].handshake_keys[i].key \in store[s]
    BY DEF IInv, OwnKeysStored, OwnKeys
  <2>. QED BY <2>1, <2>2, <2>3 DEF Startable, check, Acceptable
<1>. QED BY <1>1, RestartsInductive, PTL
=============================================================================
