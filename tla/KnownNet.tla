------------------------------ MODULE KnownNet ------------------------------
(***************************************************************************)
(* `network.toml`, the known net: the records of sirji/src/config.rs, the  *)
(* lookups the daemon does in them, and the check that stands between the  *)
(* file and the daemon.  Everything here is a pure operator.               *)
(*                                                                         *)
(* A lookup of the source is an iterator ended by `find` or `position`,    *)
(* which takes the FIRST match.  Here a lookup is the set of all matching  *)
(* indices, and IsFirst(i, S) picks the one `find` would return; S = {} is *)
(* the `None` of the source.  Which match is first matters only while two  *)
(* entries share an alias, which is exactly the state `check` rejects.     *)
(*                                                                         *)
(* A list of addresses is a set: the daemon tries one after the other, and *)
(* the modules above let it try them in any order.                         *)
(*                                                                         *)
(* Left out: `dns` and `hints`, which no lookup and no check reads.        *)
(***************************************************************************)
EXTENDS Naturals, Sequences, Functions

CONSTANTS
    Key,      \* well-formed id52s: what id52::decode accepts
    Alias,    \* what we call our peers
    Spot,     \* aliases of handshake keys, the `on` of a greeting
    Name,     \* device names
    None      \* an absent Option

ASSUME NoneIsNoValue == None \notin Key \cup Alias \cup Spot \cup Name

-----------------------------------------------------------------------------
(* The records of the file. *)

HandshakeKey == [alias : Spot, key : Key, retired : BOOLEAN]

Peer == [alias      : Alias,
         peer       : Key \cup {None},
         mine       : Key,
         addresses  : SUBSET Key,
         reached_on : Spot \cup {None}]

DeviceEntry == [name : Name, keys : Seq(Key), invite : Key \cup {None}]

Network == [handshake_keys : Seq(HandshakeKey),
            peers          : Seq(Peer),
            devices        : Seq(DeviceEntry)]

PeerPending(p) == p.peer = None
DevicePending(d) == d.keys = << >>

-----------------------------------------------------------------------------
(* Lookups. *)

IsFirst(i, S) == i \in S /\ \A j \in S : i <= j

(* Every handshake key that is not retired. *)
current(net) ==
    {i \in DOMAIN net.handshake_keys : ~net.handshake_keys[i].retired}

(* For mutation: their aliases, which are strings too.                      *)
current_addresses_Aliases(net) == {net.handshake_keys[i].alias : i \in current(net)}

current_addresses(net) == {net.handshake_keys[i].key : i \in current(net)}

handshake_key_by_alias(net, spot) ==
    {i \in DOMAIN net.handshake_keys : net.handshake_keys[i].alias = spot}

peer_by_key(net, key) == {i \in DOMAIN net.peers : net.peers[i].peer = key}

peer_by_alias(net, alias) == {i \in DOMAIN net.peers : net.peers[i].alias = alias}

(* For mutation: an invite that has been accepted can be accepted again.    *)
pending_by_mine_Any(net, mine) == {i \in DOMAIN net.peers : net.peers[i].mine = mine}

pending_by_mine(net, mine) ==
    {i \in DOMAIN net.peers : PeerPending(net.peers[i]) /\ net.peers[i].mine = mine}

device_by_name(net, name) ==
    {i \in DOMAIN net.devices : net.devices[i].name = name}

pending_device_by_invite(net, invite) ==
    {i \in DOMAIN net.devices :
        DevicePending(net.devices[i]) /\ net.devices[i].invite = invite}

-----------------------------------------------------------------------------
(* The check, one operator per reason it can bail.  An id is well formed    *)
(* when id52::decode accepts it, that is, when it is in Key.                *)

WellFormedIds(net) ==
    /\ \A i \in DOMAIN net.handshake_keys : net.handshake_keys[i].key \in Key
    /\ \A i \in DOMAIN net.peers :
        /\ net.peers[i].mine \in Key
        /\ net.peers[i].peer \in Key \cup {None}
        /\ net.peers[i].addresses \subseteq Key
    /\ \A i \in DOMAIN net.devices :
        /\ Range(net.devices[i].keys) \subseteq Key
        /\ net.devices[i].invite \in Key \cup {None}

DistinctAliases(net) ==
    \A i, j \in DOMAIN net.peers : net.peers[i].alias = net.peers[j].alias => i = j

DistinctMine(net) ==
    \A i, j \in DOMAIN net.peers : net.peers[i].mine = net.peers[j].mine => i = j

ReachedOnOurs(net) ==
    \A i \in DOMAIN net.peers :
        \/ net.peers[i].reached_on = None
        \/ handshake_key_by_alias(net, net.peers[i].reached_on) # {}

DistinctNames(net) ==
    \A i, j \in DOMAIN net.devices : net.devices[i].name = net.devices[j].name => i = j

check(net) ==
    /\ WellFormedIds(net)
    /\ DistinctAliases(net)
    /\ DistinctMine(net)
    /\ ReachedOnOurs(net)
    /\ DistinctNames(net)
=============================================================================
