------------------------------- MODULE Pairing -------------------------------
(***************************************************************************)
(* How two sirjis, or a sirji and a device, come to know each other        *)
(* (sirji/src/daemon.rs, and `init` of t-sirji-fs).                        *)
(*                                                                         *)
(* An inviter mints a key, keeps it as a pending entry and hands it over   *)
(* out of band.  The invitee mints a key of its own, dials one of the      *)
(* inviter's addresses as that key and presents the invite's identity; the *)
(* inviter fills in the pending entry, saves, and only then answers; the   *)
(* invitee records the inviter when, and if, the answer arrives.           *)
(*                                                                         *)
(* Each daemon has a known net in memory and one on disk, and its handlers *)
(* run one at a time under the lock of the one in memory.  `accept` is the *)
(* handler that lets the lock go and takes it again: it is the `task`s     *)
(* below, and a `t-sirji-fs init` is one too.  Daemons crash and restart,  *)
(* writes of network.toml fail, and every connection may break.            *)
(***************************************************************************)
EXTENDS KnownNet, FiniteSets

CONSTANTS
    Sirji,        \* the daemons, one home each
    Device,       \* the device homes
    Job,          \* slots for `accept` commands in progress
    Default,      \* the alias of the handshake key `sirji init` makes
    HomeKey,      \* HomeKey[s]: the handshake key `sirji init` made for s
    OneAtATime,   \* TRUE: no two commands for one alias overlap at a sirji
    MaxCrashes,   \* bound on crashes
    MaxFailures   \* bound on failed writes of network.toml

ASSUME HomesAreApart == Sirji \cap Device = {} /\ Job \cap Device = {}
ASSUME DefaultIsASpot == Default \in Spot
ASSUME HomeKeysAreFresh ==
    /\ HomeKey \in [Sirji -> Key]
    /\ \A s, r \in Sirji : HomeKey[s] = HomeKey[r] => s = r
ASSUME OneAtATimeIsBoolean == OneAtATime \in BOOLEAN
ASSUME BoundsAreNaturals == MaxCrashes \in Nat /\ MaxFailures \in Nat

VARIABLES
    up,        \* up[s]: the daemon of s is running
    mem,       \* mem[s]: Daemon.net, the known net in memory
    disk,      \* disk[s]: network.toml
    store,     \* store[h]: the key files of a home
    bound,     \* bound[s]: the handshake keys that have an endpoint
    invites,   \* the invites printed so far, wherever they were sent
    task,      \* task[c]: an `accept` or a device's `init` in progress
    config,    \* config[d]: the config file of a device, None before `init`
    wire,      \* greetings and answers under way
    crashes,   \* counts crashes, up to MaxCrashes
    failures   \* counts failed writes, up to MaxFailures

vars == <<up, mem, disk, store, bound, invites, task, config, wire, crashes, failures>>

-----------------------------------------------------------------------------
(* Types *)

Caller == Job \cup Device

Invite == [identity : Key, addresses : SUBSET Key]

(* An `accept`, or a device's `init`: `at` is the home it runs for, `to`    *)
(* the address it is connected to, `untried` those it has yet to dial.      *)
Task == [at : Sirji \cup Device, alias : Alias \cup {None}, invite : Invite,
         mine : Key, told : SUBSET Key, untried : SUBSET Key, to : Key \cup {None}]

(* The first line on a connection.  `from` is the dialling key, which the   *)
(* transport vouches for, and `to` the handshake key it was dialled on.     *)
Hello == [type : {"Peer"}, from : Key, to : Key]
    \cup [type : {"Invited"}, from : Key, to : Key, invited_to : Key, addresses : SUBSET Key]

(* The answer to an invitee, on the connection from `to` to `from`.         *)
Welcome == [type : {"Ok"}, from : Key, to : Key, name : Alias \cup Name, addresses : SUBSET Key]
      \cup [type : {"No"}, from : Key, to : Key]

(* t-sirji-fs Config: the fields enrolment decides. *)
Config == [name : Alias \cup Name, key : Key, parent : SUBSET Key]

TypeOK ==
    /\ up \in [Sirji -> BOOLEAN]
    /\ mem \in [Sirji -> Network]
    /\ disk \in [Sirji -> Network]
    /\ store \in [Sirji \cup Device -> SUBSET Key]
    /\ bound \in [Sirji -> SUBSET HandshakeKey]
    /\ invites \in SUBSET Invite
    /\ task \in [Caller -> Task \cup {None}]
    /\ config \in [Device -> Config \cup {None}]
    /\ wire \in SUBSET (Hello \cup Welcome)
    /\ crashes \in 0 .. MaxCrashes
    /\ failures \in 0 .. MaxFailures

-----------------------------------------------------------------------------
(* Tasks in progress. *)
Running == {c \in Caller : task[c] # None}

(* For mutation: a key file no entry names yet is taken for a spare.        *)
Fresh_Recycled(k) ==
    /\ k \in Key
    /\ \A s \in Sirji : k # HomeKey[s]
    /\ \A s \in Sirji : \A i \in DOMAIN mem[s].peers : mem[s].peers[i].mine # k

(* Keystore.  A key that is generated is one no home holds: 256 random bits *)
(* do not repeat.  Key files are never removed.                             *)
Fresh(k) == k \in Key /\ \A h \in Sirji \cup Device : k \notin store[h]

(* For mutation: the key is kept in memory, and its file never written.     *)
generate_NoFile(h, k) == Fresh(k) /\ UNCHANGED store

generate(h, k) == Fresh(k) /\ store' = [store EXCEPT ![h] = @ \cup {k}]

-----------------------------------------------------------------------------
(* Saving.  The known net in memory has been changed to n when a handler    *)
(* saves, and stays n when the save fails, or when the check before it      *)
(* does: nothing is rolled back.  The file is replaced by a rename, so it   *)
(* holds the old net or the new one.                                        *)

save(s, n, saved) ==
    /\ mem' = [mem EXCEPT ![s] = n]
    /\ disk' = [disk EXCEPT ![s] = IF saved THEN n ELSE @]
    /\ IF saved
       THEN UNCHANGED failures
       ELSE failures < MaxFailures /\ failures' = failures + 1

check_and_save(s, n, saved) ==
    \/ check(n) /\ save(s, n, saved)
    \/ ~check(n) /\ ~saved /\ mem' = [mem EXCEPT ![s] = n] /\ UNCHANGED <<disk, failures>>

-----------------------------------------------------------------------------
(* The daemon's life *)

NetworkAtInit(s) ==
    [handshake_keys |-> <<[alias |-> Default, key |-> HomeKey[s], retired |-> FALSE]>>,
     peers |-> << >>, devices |-> << >>]

(* What Daemon::start insists on before it serves anyone. *)
Startable(s) ==
    /\ check(disk[s])
    /\ disk[s].handshake_keys # << >>
    /\ \A i \in DOMAIN disk[s].handshake_keys : disk[s].handshake_keys[i].key \in store[s]

(* `sirji daemon`.  Every handshake key in the file is bound, the retired   *)
(* ones too.                                                                *)
Start(s) ==
    /\ ~up[s]
    /\ Startable(s)
    /\ up' = [up EXCEPT ![s] = TRUE]
    /\ mem' = [mem EXCEPT ![s] = disk[s]]
    /\ bound' = [bound EXCEPT ![s] = Range(disk[s].handshake_keys)]
    /\ UNCHANGED <<disk, store, invites, task, config, wire, crashes, failures>>

Bound(s, key) == \E hk \in bound[s] : hk.key = key

(* The process dies, and with it its endpoints, the commands it was running *)
(* and the connections to it that it had not answered on.                   *)
Crash(s) ==
    /\ up[s]
    /\ crashes < MaxCrashes
    /\ crashes' = crashes + 1
    /\ up' = [up EXCEPT ![s] = FALSE]
    /\ bound' = [bound EXCEPT ![s] = {}]
    /\ task' = [c \in Caller |->
                   IF c \in Running /\ task[c].at = s THEN None ELSE task[c]]
    /\ wire' = {m \in wire : m.type \in {"Ok", "No"} \/ ~Bound(s, m.to)}
    /\ UNCHANGED <<mem, disk, store, invites, config, failures>>

-----------------------------------------------------------------------------
(* Commands of the control socket.  The key file is written before the      *)
(* entry that names it, and the whole of each runs under the lock.          *)

(* With OneAtATime the operator waits for an `accept` to end before using   *)
(* its alias again.                                                         *)
AliasFree(s, alias) ==
    OneAtATime =>
        \A c \in Running \cap Job : task[c].at = s => task[c].alias # alias

(* For mutation: a pending entry is not somebody we know.                   *)
Knows_Paired(s, alias) ==
    \E i \in peer_by_alias(mem[s], alias) : ~PeerPending(mem[s].peers[i])

(* "we already know someone called ..." *)
Knows(s, alias) == peer_by_alias(mem[s], alias) # {}

NewAddress(s, alias, k, saved) ==
    /\ up[s]
    /\ handshake_key_by_alias(mem[s], alias) = {}
    /\ generate(s, k)
    /\ LET hk == [alias |-> alias, key |-> k, retired |-> FALSE]
       IN  save(s, [mem[s] EXCEPT !.handshake_keys = Append(@, hk)], saved)
    /\ UNCHANGED <<up, bound, invites, task, config, wire, crashes>>

(* An invite is shown to the operator only when its entry was saved. *)
ShowInvite(s, k, saved) ==
    invites' = IF saved
               THEN invites \cup {[identity |-> k, addresses |-> current_addresses(mem[s])]}
               ELSE invites

InvitePeer(s, alias, k, saved) ==
    /\ up[s]
    /\ ~Knows(s, alias)
    /\ AliasFree(s, alias)
    /\ generate(s, k)
    /\ LET p == [alias |-> alias, peer |-> None, mine |-> k, addresses |-> {},
                 reached_on |-> None]
       IN  check_and_save(s, [mem[s] EXCEPT !.peers = Append(@, p)], saved)
    /\ ShowInvite(s, k, saved)
    /\ UNCHANGED <<up, bound, task, config, wire, crashes>>

InviteDevice(s, name, k, saved) ==
    /\ up[s]
    /\ device_by_name(mem[s], name) = {}
    /\ generate(s, k)
    /\ LET d == [name |-> name, keys |-> << >>, invite |-> k]
       IN  check_and_save(s, [mem[s] EXCEPT !.devices = Append(@, d)], saved)
    /\ ShowInvite(s, k, saved)
    /\ UNCHANGED <<up, bound, task, config, wire, crashes>>

-----------------------------------------------------------------------------
(* Dialling: the part `accept` and greet_parent share.  A task tries the    *)
(* addresses of its invite until one answers.                               *)

(* `accept`, up to its first dial.  The alias is looked up, the lock is     *)
(* released, and nothing looks again before the entry is pushed.            *)
AcceptStarts(c, s, alias, invite, k) ==
    /\ up[s]
    /\ task[c] = None
    /\ ~Knows(s, alias)
    /\ AliasFree(s, alias)
    /\ generate(s, k)
    /\ task' = [task EXCEPT ![c] =
                   [at |-> s, alias |-> alias, invite |-> invite, mine |-> k,
                    told |-> current_addresses(mem[s]),
                    untried |-> invite.addresses, to |-> None]]
    /\ UNCHANGED <<up, mem, disk, bound, invites, config, wire, crashes, failures>>

(* `t-sirji-fs init`: refused when there is a config, and otherwise a new   *)
(* key every time it is run.  A device offers its own key as its address.   *)
EnrolStarts(d, invite, k) ==
    /\ config[d] = None
    /\ task[d] = None
    /\ generate(d, k)
    /\ task' = [task EXCEPT ![d] =
                   [at |-> d, alias |-> None, invite |-> invite, mine |-> k,
                    told |-> {k}, untried |-> invite.addresses, to |-> None]]
    /\ UNCHANGED <<up, mem, disk, bound, invites, config, wire, crashes, failures>>

(* A dial succeeds when the address is bound by a running daemon. *)
Dial(c, address) ==
    /\ c \in Running
    /\ task[c].to = None
    /\ address \in task[c].untried
    /\ \E s \in Sirji : Bound(s, address)
    /\ task' = [task EXCEPT ![c] = [task[c] EXCEPT !.to = address, !.untried = @ \ {address}]]
    /\ wire' = wire \cup {[type |-> "Invited", from |-> task[c].mine, to |-> address,
                           invited_to |-> task[c].invite.identity,
                           addresses |-> task[c].told]}
    /\ UNCHANGED <<up, mem, disk, store, bound, invites, config, crashes, failures>>

(* Neither the hints nor discovery lead to an endpoint that answers. *)
DialFails(c, address) ==
    /\ c \in Running
    /\ task[c].to = None
    /\ address \in task[c].untried
    /\ task' = [task EXCEPT ![c].untried = @ \ {address}]
    /\ UNCHANGED <<up, mem, disk, store, bound, invites, config, wire, crashes, failures>>

(* For mutation: the address is put back, to be dialled again.              *)
ConnectionLost_Retried(c) ==
    /\ c \in Running
    /\ task[c].to # None
    /\ task' = [task EXCEPT ![c] = [task[c] EXCEPT !.untried = @ \cup {task[c].to}, !.to = None]]
    /\ wire' = wire \ {m \in wire : m.type \in {"Ok", "No"}
                                    /\ m.from = task[c].mine /\ m.to = task[c].to}
    /\ UNCHANGED <<up, mem, disk, store, bound, invites, config, crashes, failures>>

(* The connection breaks before the answer is read: the next address.  What *)
(* the other side does with the greeting, and whether it has done it, is    *)
(* not known here; an answer finds nobody.                                  *)
ConnectionLost(c) ==
    /\ c \in Running
    /\ task[c].to # None
    /\ task' = [task EXCEPT ![c].to = None]
    /\ wire' = wire \ {m \in wire : m.type \in {"Ok", "No"}
                                    /\ m.from = task[c].mine /\ m.to = task[c].to}
    /\ UNCHANGED <<up, mem, disk, store, bound, invites, config, crashes, failures>>

(* No address is left: the command reports its last error. *)
GiveUp(c) ==
    /\ c \in Running
    /\ task[c].to = None
    /\ task[c].untried = {}
    /\ task' = [task EXCEPT ![c] = None]
    /\ UNCHANGED <<up, mem, disk, store, bound, invites, config, wire, crashes, failures>>

(* `t-sirji-fs init` is interrupted. *)
EnrolStops(d) ==
    /\ d \in Running
    /\ task' = [task EXCEPT ![d] = None]
    /\ UNCHANGED <<up, mem, disk, store, bound, invites, config, wire, crashes, failures>>

-----------------------------------------------------------------------------
(* Using a relationship: the daemon dials a peer as the identity the peer   *)
(* knows it by.  What is asked for then is not the matter of this module.   *)

DialPeer(s, i, address) ==
    /\ up[s]
    /\ i \in DOMAIN mem[s].peers
    /\ address \in mem[s].peers[i].addresses
    /\ \E r \in Sirji : Bound(r, address)
    /\ wire' = wire \cup {[type |-> "Peer", from |-> mem[s].peers[i].mine, to |-> address]}
    /\ UNCHANGED <<up, mem, disk, store, bound, invites, task, config, crashes, failures>>

(* A greeting, or an answer, is lost with its connection.  The invitee      *)
(* notices by ConnectionLost.                                               *)
Lose(m) ==
    /\ m \in wire
    /\ wire' = wire \ {m}
    /\ UNCHANGED <<up, mem, disk, store, bound, invites, task, config, crashes, failures>>

-----------------------------------------------------------------------------
(* greet_inner, one action per way through it.  All of it runs under the    *)
(* lock, and the answer is written after the lock is released.              *)

Greets(s, m, on) ==
    /\ up[s]
    /\ m \in wire
    /\ m.type \in {"Peer", "Invited"}
    /\ on \in bound[s]
    /\ on.key = m.to

(* Only an invitee reads its Welcome; ask_peer drops an Ok unread. *)
Answers(m, welcomes) ==
    wire' = (wire \ {m}) \cup IF m.type = "Invited" THEN welcomes ELSE {}

Ok(m, s, name) ==
    [type |-> "Ok", from |-> m.from, to |-> m.to, name |-> name,
     addresses |-> current_addresses(mem[s])]

No(m) == [type |-> "No", from |-> m.from, to |-> m.to]

(* For mutation: the answer does not wait for the save.                     *)
AnswersIf_Early(saved, m, s, name) == Answers(m, {Ok(m, s, name)})

(* A failed check or save is answered with a No. *)
AnswersIf(saved, m, s, name) == Answers(m, {IF saved THEN Ok(m, s, name) ELSE No(m)})

(* A known key is an existing relationship, whatever it says it is.  The    *)
(* entry is found by key and then, to note the address, by alias; and this  *)
(* one way through saves without a check.                                   *)
GreetKnown(s, m, on, saved) ==
    /\ Greets(s, m, on)
    /\ \E i \in DOMAIN mem[s].peers :
        /\ IsFirst(i, peer_by_key(mem[s], m.from))
        /\ \E j \in DOMAIN mem[s].peers :
            /\ IsFirst(j, peer_by_alias(mem[s], mem[s].peers[i].alias))
            /\ save(s, [mem[s] EXCEPT !.peers[j] = [@ EXCEPT !.reached_on = on.alias]], saved)
        /\ AnswersIf(saved, m, s, mem[s].peers[i].alias)
    /\ UNCHANGED <<up, store, bound, invites, task, config, crashes>>

Unknown(s, m, on) ==
    /\ Greets(s, m, on)
    /\ peer_by_key(mem[s], m.from) = {}

(* A device presents the identity that was minted for it. *)
GreetInvitedDevice(s, m, on, saved) ==
    /\ Unknown(s, m, on)
    /\ m.type = "Invited"
    /\ \E i \in DOMAIN mem[s].devices :
        /\ IsFirst(i, pending_device_by_invite(mem[s], m.invited_to))
        /\ check_and_save(s, [mem[s] EXCEPT !.devices[i] =
                                [@ EXCEPT !.keys = <<m.from>>, !.invite = None]], saved)
        /\ AnswersIf(saved, m, s, mem[s].devices[i].name)
    /\ UNCHANGED <<up, store, bound, invites, task, config, crashes>>

(* An invitee presents the key that was minted for it.  The pending entry   *)
(* is found by that key, and the entry to fill in by the alias of the       *)
(* pending one.                                                             *)
GreetInvitedPeer(s, m, on, saved) ==
    /\ Unknown(s, m, on)
    /\ m.type = "Invited"
    /\ pending_device_by_invite(mem[s], m.invited_to) = {}
    /\ \E i \in DOMAIN mem[s].peers :
        /\ IsFirst(i, pending_by_mine(mem[s], m.invited_to))
        /\ \E j \in DOMAIN mem[s].peers :
            /\ IsFirst(j, peer_by_alias(mem[s], mem[s].peers[i].alias))
            /\ check_and_save(s, [mem[s] EXCEPT !.peers[j] =
                                    [@ EXCEPT !.peer = m.from, !.addresses = m.addresses,
                                              !.reached_on = on.alias]], saved)
        /\ AnswersIf(saved, m, s, mem[s].peers[i].alias)
    /\ UNCHANGED <<up, store, bound, invites, task, config, crashes>>

(* No relationship, and no invite outstanding for what was presented. *)
GreetRefused(s, m, on) ==
    /\ Unknown(s, m, on)
    /\ m.type = "Invited" =>
        /\ pending_device_by_invite(mem[s], m.invited_to) = {}
        /\ pending_by_mine(mem[s], m.invited_to) = {}
    /\ Answers(m, {No(m)})
    /\ UNCHANGED <<up, mem, disk, store, bound, invites, task, config, crashes, failures>>

-----------------------------------------------------------------------------
(* The answer reaches the invitee. *)

Reads(c, m, type) ==
    /\ c \in Running
    /\ m \in wire
    /\ m.type = type
    /\ m.from = task[c].mine
    /\ m.to = task[c].to

(* `accept` takes the lock again, pushes the entry, checks and saves. *)
AcceptEnds(c, m, saved) ==
    /\ c \in Job
    /\ Reads(c, m, "Ok")
    /\ LET s == task[c].at
           p == [alias |-> task[c].alias, peer |-> task[c].invite.identity,
                 mine |-> task[c].mine, addresses |-> m.addresses, reached_on |-> None]
       IN  check_and_save(s, [mem[s] EXCEPT !.peers = Append(@, p)], saved)
    /\ task' = [task EXCEPT ![c] = None]
    /\ wire' = wire \ {m}
    /\ UNCHANGED <<up, store, bound, invites, config, crashes>>

(* `t-sirji-fs init` writes its config, under the name the parent gave. *)
EnrolEnds(d, m) ==
    /\ Reads(d, m, "Ok")
    /\ config' = [config EXCEPT ![d] = [name |-> m.name, key |-> task[d].mine,
                                        parent |-> task[d].invite.addresses]]
    /\ task' = [task EXCEPT ![d] = None]
    /\ wire' = wire \ {m}
    /\ UNCHANGED <<up, mem, disk, store, bound, invites, crashes, failures>>

(* `accept` goes on to the next address after a No... *)
AcceptRefused(c, m) ==
    /\ c \in Job
    /\ Reads(c, m, "No")
    /\ task' = [task EXCEPT ![c].to = None]
    /\ wire' = wire \ {m}
    /\ UNCHANGED <<up, mem, disk, store, bound, invites, config, crashes, failures>>

(* ...but greet_parent returns it, and `init` fails. *)
EnrolRefused(d, m) ==
    /\ Reads(d, m, "No")
    /\ task' = [task EXCEPT ![d] = None]
    /\ wire' = wire \ {m}
    /\ UNCHANGED <<up, mem, disk, store, bound, invites, config, crashes, failures>>

-----------------------------------------------------------------------------
Init ==
    /\ up = [s \in Sirji |-> FALSE]
    /\ mem = [s \in Sirji |-> NetworkAtInit(s)]
    /\ disk = [s \in Sirji |-> NetworkAtInit(s)]
    /\ store = [h \in Sirji \cup Device |-> IF h \in Sirji THEN {HomeKey[h]} ELSE {}]
    /\ bound = [s \in Sirji |-> {}]
    /\ invites = {}
    /\ task = [c \in Caller |-> None]
    /\ config = [d \in Device |-> None]
    /\ wire = {}
    /\ crashes = 0
    /\ failures = 0

(* What an operator does, and what goes wrong. *)
Command(s) ==
    \/ Start(s)
    \/ Crash(s)
    \/ \E k \in Key, saved \in BOOLEAN :
        \/ \E spot \in Spot : NewAddress(s, spot, k, saved)
        \/ \E alias \in Alias : InvitePeer(s, alias, k, saved)
        \/ \E name \in Name : InviteDevice(s, name, k, saved)
    \/ \E i \in DOMAIN mem[s].peers, address \in Key : DialPeer(s, i, address)

Begin ==
    \E k \in Key, invite \in invites :
        \/ \E c \in Job, s \in Sirji, alias \in Alias : AcceptStarts(c, s, alias, invite, k)
        \/ \E d \in Device : EnrolStarts(d, invite, k)

(* One greeting answered by the daemon that has its address bound. *)
Greet(s, m) ==
    \E on \in bound[s] :
        \/ \E saved \in BOOLEAN :
            \/ GreetKnown(s, m, on, saved)
            \/ GreetInvitedDevice(s, m, on, saved)
            \/ GreetInvitedPeer(s, m, on, saved)
        \/ GreetRefused(s, m, on)

(* One step of an `accept` or an `init`. *)
Proceed(c) ==
    \/ \E address \in Key : Dial(c, address) \/ DialFails(c, address)
    \/ ConnectionLost(c)
    \/ GiveUp(c)
    \/ \E m \in wire :
        \/ \E saved \in BOOLEAN : AcceptEnds(c, m, saved)
        \/ AcceptRefused(c, m)
        \/ c \in Device /\ (EnrolEnds(c, m) \/ EnrolRefused(c, m))

Next ==
    \/ \E s \in Sirji : Command(s)
    \/ Begin
    \/ \E m \in wire : Lose(m) \/ \E s \in Sirji : Greet(s, m)
    \/ \E c \in Caller : Proceed(c)
    \/ \E d \in Device : EnrolStops(d)

Spec == Init /\ [][Next]_vars

(* A dial times out and so does a connection nobody answers on, so a        *)
(* command that has begun keeps taking steps.                               *)
FairSpec == Spec /\ \A c \in Caller : WF_vars(Proceed(c))

-----------------------------------------------------------------------------
(* Properties *)

Nets == {mem[s] : s \in Sirji} \cup {disk[s] : s \in Sirji}

InviteIds == {invite.identity : invite \in invites}

(* The file of r says that whoever was shown identity i answers as k: a     *)
(* peer entry with that pair, or a device that enrolled with k.             *)
Holds(r, i, k) ==
    \/ \E x \in DOMAIN disk[r].peers :
          disk[r].peers[x].mine = i /\ disk[r].peers[x].peer = k
    \/ \E x \in DOMAIN disk[r].devices : disk[r].devices[x].keys = <<k>>

(* A daemon that stops can be started again: whatever the handlers wrote,   *)
(* network.toml passes the check Daemon::start makes and every handshake    *)
(* key in it has its secret (Daemon::start, Network::check).                *)
CanRestart == \A s \in Sirji : Startable(s)

(* "Write the key file before the network.toml entry": no entry, pending or *)
(* not, names an identity of ours that has no key file, whenever a crash or *)
(* a failed write strikes (Keystore::generate before every push).           *)
KeyBeforeEntry ==
    \A s \in Sirji : \A n \in {mem[s], disk[s]} :
        /\ \A i \in DOMAIN n.handshake_keys : n.handshake_keys[i].key \in store[s]
        /\ \A i \in DOMAIN n.peers : n.peers[i].mine \in store[s]
        /\ \A i \in DOMAIN n.devices : n.devices[i].invite \in store[s] \cup {None}

(* An identity belongs to one relationship: no two entries, of whichever    *)
(* sirjis, and no `accept` in progress share a `mine`, and none of them is  *)
(* an address, which everybody may see (Peer::mine, accept, Invite).        *)
Unlinkable ==
    /\ \A s, r \in Sirji : \A i \in DOMAIN mem[s].peers, j \in DOMAIN mem[r].peers :
          mem[s].peers[i].mine = mem[r].peers[j].mine => s = r /\ i = j
    /\ \A s, r \in Sirji : \A i \in DOMAIN mem[s].peers, j \in DOMAIN mem[r].handshake_keys :
          mem[s].peers[i].mine # mem[r].handshake_keys[j].key
    /\ \A c \in Running :
          \A s \in Sirji : \A i \in DOMAIN mem[s].peers : mem[s].peers[i].mine # task[c].mine

(* Who accepted is known to the inviter: an entry made by `accept` names an *)
(* invite's identity as its peer, and then network.toml of some sirji holds *)
(* the pair the other way round.  The inviter saves before it answers, so   *)
(* neither its crash nor a failed write leaves the invitee alone with the   *)
(* relationship (greet_inner, accept).                                      *)
AcceptedImpliesMirrored ==
    \A n \in Nets : \A i \in DOMAIN n.peers :
        n.peers[i].peer \in InviteIds =>
            \E r \in Sirji : Holds(r, n.peers[i].peer, n.peers[i].mine)

(* A device that has its config is enrolled: network.toml of some sirji     *)
(* lists its key under the name the config has, or, when it was handed a    *)
(* peer's invite, as a peer (greet_inner, t-sirji-fs init).                 *)
EnrolledImpliesKnown ==
    \A d \in Device : config[d] # None =>
        \E s \in Sirji :
            \/ \E i \in DOMAIN disk[s].devices :
                  /\ disk[s].devices[i].keys = <<config[d].key>>
                  /\ disk[s].devices[i].name = config[d].name
            \/ \E i \in DOMAIN disk[s].peers :
                  /\ disk[s].peers[i].peer = config[d].key
                  /\ disk[s].peers[i].alias = config[d].name

(* A peer key is "how we recognise them when they dial": no two entries, of *)
(* whichever sirjis, name one, so a caller that is looked up by its key is  *)
(* found in the one entry it can be in, whatever order they are in; and of  *)
(* all that try to accept an invite, one comes to hold its identity as a    *)
(* peer (peer_by_key, pending_by_mine, greet_inner, accept).                *)
PeerKeysApart ==
    \A s, r \in Sirji : \A i \in DOMAIN mem[s].peers, j \in DOMAIN mem[r].peers :
        /\ mem[s].peers[i].peer # None
        /\ mem[r].peers[j].peer = mem[s].peers[i].peer
        => s = r /\ i = j

(* The peers of n are in q, where they were and as they were filled in. *)
PeersStay(n, q) ==
    \A i \in DOMAIN n.peers :
        /\ i \in DOMAIN q.peers
        /\ q.peers[i].alias = n.peers[i].alias
        /\ q.peers[i].mine = n.peers[i].mine
        /\ n.peers[i].peer # None => q.peers[i].peer = n.peers[i].peer

(* A peer key is the relationship and is not replaced: a peer that has been *)
(* recorded in network.toml stays in its entry, under its alias, and no     *)
(* entry is dropped, whatever is saved afterwards (greet_inner, save).      *)
RelationshipsStay == [][\A s \in Sirji : PeersStay(disk[s], disk'[s])]_vars

(* A command takes no answer for that to another greeting of its own: with  *)
(* an address it has yet to dial it has nothing under way, and with one it  *)
(* has dialled one message at most, a greeting or the answer, which finds   *)
(* nobody when it comes too late (accept, greet_parent).                    *)
OneExchange ==
    \A c \in Running : \A m \in wire : m.from = task[c].mine =>
        /\ m.to \notin task[c].untried
        /\ \A n \in wire : n.from = m.from /\ n.to = m.to => n = m

(* Every `accept` and every device's `init` ends, whoever crashes and       *)
(* whatever is lost (accept, greet_parent: each address is dialled once).   *)
CommandsEnd == \A c \in Caller : task[c] # None ~> task[c] = None

(* When nothing is under way, both sides of a pairing have it: whoever an   *)
(* inviter recorded has the mirror-image entry, or is an enrolled device.   *)
MirrorAtRest ==
    /\ wire = {}
    /\ Running = {}
    => \A s \in Sirji : \A i \in DOMAIN disk[s].peers :
          LET p == disk[s].peers[i] IN
          p.mine \in InviteIds /\ p.peer # None =>
             \/ \E r \in Sirji : \E j \in DOMAIN disk[r].peers :
                   disk[r].peers[j].mine = p.peer /\ disk[r].peers[j].peer = p.mine
             \/ \E d \in Device : config[d] # None /\ config[d].key = p.peer
=============================================================================
