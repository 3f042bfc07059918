------------------------------ MODULE Rotation ------------------------------
(***************************************************************************)
(* How a sirji changes its addresses, and whether the people it knows can  *)
(* still reach it (sirji/src/daemon.rs: greet_inner, note_reached_on,      *)
(* accept, ask_peer, converse; sirji/src/config.rs: current_addresses,     *)
(* drained; endpoint.rs: dial_hints; `sirji net check`).                   *)
(*                                                                         *)
(* A new address is minted while the daemon runs, and bound when it starts *)
(* again.  An old one is retired by the operator, in network.toml: it is   *)
(* no longer handed out, and stays bound.  When `net check` calls it       *)
(* drained, the operator removes it.  The other side has a set of our      *)
(* addresses, the one it was handed when we came to know each other, and   *)
(* dials one after the other.  The Welcome that each greeting is answered  *)
(* with carries our current ones, and is dropped.                          *)
(*                                                                         *)
(* One sirji, and the contacts it invites or whose invites it accepts.  A  *)
(* contact is known by its alias, an address by that of its handshake key; *)
(* no alias is used twice.  Addresses are dialled in any order, the code's *)
(* among them.  The operator edits the file while the daemon is down: what *)
(* happens otherwise is in Home.                                           *)
(***************************************************************************)
CONSTANTS
    Contact,     \* the sirjis we come to know
    Spot,        \* aliases of handshake keys
    Default,     \* the alias of the one `sirji init` makes
    None         \* no entry, nothing on file, no dial

ASSUME DefaultIsASpot == Default \in Spot

VARIABLES
    up,       \* the daemon is running
    mem,      \* Daemon.net
    disk,     \* network.toml
    bound,    \* the addresses that have an endpoint
    minted,   \* every address there has been
    invited,  \* invited[c]: the addresses on the invite that c was sent
    holds,    \* holds[c]: our addresses, as c has them on file
    fresh,    \* fresh[c]: the sockets c remembers for us are still ours
    dial,     \* dial[c]: an `accept` or an `ask_peer` of c, for us
    heard     \* heard[c]: c has asked and been answered (a history)

vars == <<up, mem, disk, bound, minted, invited, holds, fresh, dial, heard>>

-----------------------------------------------------------------------------
(* Types *)

Peer == [pending : BOOLEAN, reached_on : Spot \cup {None}]

Network == [keys : SUBSET Spot, retired : SUBSET Spot, peers : [Contact -> Peer \cup {None}]]

(* `untried` is still to be dialled, and `to`, which the remembered sockets *)
(* did not lead to, is next dialled by key alone.  `spoilt`, which only a   *)
(* property reads, says that a connection broke, a write failed or we were  *)
(* down for a part of it.                                                   *)
Dial == [why : {"accept", "ask"}, untried : SUBSET Spot, to : Spot \cup {None}, spoilt : BOOLEAN]

ASSUME NoneIsNoValue ==
    /\ None \notin Spot
    /\ \A x \in Peer \cup Dial : x # None
    /\ \A S \in SUBSET Spot : S # None

TypeOK ==
    /\ up \in BOOLEAN
    /\ mem \in Network
    /\ disk \in Network
    /\ bound \in SUBSET Spot
    /\ minted \in SUBSET Spot
    /\ invited \in [Contact -> (SUBSET Spot) \cup {None}]
    /\ holds \in [Contact -> (SUBSET Spot) \cup {None}]
    /\ fresh \in [Contact -> BOOLEAN]
    /\ dial \in [Contact -> Dial \cup {None}]
    /\ heard \in [Contact -> BOOLEAN]

-----------------------------------------------------------------------------
(* The file *)

(* What is handed out. *)
current_addresses(net) == net.keys \ net.retired

Knows(net, c) == net.peers[c] # None

(* For mutation: a key can be unbound as soon as it is retired.             *)
drained_Retired(net) == net.keys \cap net.retired

(* Addresses that can be unbound: retired, and named by no peer. *)
drained(net) ==
    {spot \in net.keys \cap net.retired :
        \A c \in Contact : Knows(net, c) => net.peers[c].reached_on # spot}

(* What is left of `check` here. *)
ReachedOnOurs(net) ==
    \A c \in Contact : Knows(net, c) => net.peers[c].reached_on \in net.keys \cup {None}

(* The net in memory becomes n, and so does the file unless the save fails. *)
save(n, saved) == mem' = n /\ disk' = IF saved THEN n ELSE disk

-----------------------------------------------------------------------------
(* The daemon's life, and the operator's edits *)

(* Each start binds new sockets: those anybody remembers lead nowhere.      *)
Start ==
    /\ ~up
    /\ ReachedOnOurs(disk)
    /\ disk.keys # {}
    /\ up' = TRUE
    /\ mem' = disk
    /\ bound' = disk.keys
    /\ fresh' = [c \in Contact |-> FALSE]
    /\ dial' = [c \in Contact |-> IF dial[c] = None THEN None ELSE [dial[c] EXCEPT !.spoilt = TRUE]]
    /\ UNCHANGED <<disk, minted, invited, holds, heard>>

(* The operator stops it, or it crashes: the file is as it was last saved.  *)
Stop ==
    /\ up
    /\ up' = FALSE
    /\ mem' = disk
    /\ bound' = {}
    /\ UNCHANGED <<disk, minted, invited, holds, fresh, dial, heard>>

(* By hand: `retired = true`.  An address is replaced, the last one stays.  *)
Retire(spot) ==
    /\ ~up
    /\ spot \in current_addresses(disk)
    /\ current_addresses(disk) # {spot}
    /\ disk' = [disk EXCEPT !.retired = @ \cup {spot}]
    /\ UNCHANGED <<up, mem, bound, minted, invited, holds, fresh, dial, heard>>

(* By hand, when `net check` says "is drained and can be unbound". *)
Unbind(spot) ==
    /\ ~up
    /\ spot \in drained(disk)
    /\ disk' = [disk EXCEPT !.keys = @ \ {spot}, !.retired = @ \ {spot}]
    /\ UNCHANGED <<up, mem, bound, minted, invited, holds, fresh, dial, heard>>

-----------------------------------------------------------------------------
(* Commands *)

(* The new address is handed out from now on, and bound at the next start.  *)
NewAddress(spot, saved) ==
    /\ up
    /\ spot \notin minted
    /\ minted' = minted \cup {spot}
    /\ save([mem EXCEPT !.keys = @ \cup {spot}], saved)
    /\ UNCHANGED <<up, bound, invited, holds, fresh, dial, heard>>

InvitePeer(c, saved) ==
    /\ up
    /\ ~Knows(mem, c)
    /\ holds[c] = None
    /\ save([mem EXCEPT !.peers[c] = [pending |-> TRUE, reached_on |-> None]], saved)
    /\ invited' = IF saved THEN [invited EXCEPT ![c] = current_addresses(mem)] ELSE invited
    /\ fresh' = IF saved THEN [fresh EXCEPT ![c] = TRUE] ELSE fresh
    /\ UNCHANGED <<up, bound, minted, holds, dial, heard>>

(* We accept an invite of theirs: they put our current addresses on file,   *)
(* and, if their answer gets here, we them, with nothing in reached_on.     *)
Accept(c, answered, saved) ==
    /\ up
    /\ ~Knows(mem, c)
    /\ holds[c] = None
    /\ holds' = [holds EXCEPT ![c] = current_addresses(mem)]
    /\ fresh' = [fresh EXCEPT ![c] = TRUE]
    /\ IF answered
       THEN save([mem EXCEPT !.peers[c] = [pending |-> FALSE, reached_on |-> None]], saved)
       ELSE UNCHANGED <<mem, disk>>
    /\ UNCHANGED <<up, bound, minted, invited, dial, heard>>

-----------------------------------------------------------------------------
(* The other side dials us: at the sockets it remembers, for at most        *)
(* HINT_PATIENCE, then by discovery; then the next address.                 *)

Dials(c, why, addresses) ==
    /\ dial[c] = None
    /\ dial' = [dial EXCEPT ![c] = [why |-> why, untried |-> addresses, to |-> None,
                                    spoilt |-> FALSE]]
    /\ UNCHANGED <<up, mem, disk, bound, minted, invited, holds, fresh, heard>>

Pending(net, c) == Knows(net, c) /\ net.peers[c].pending

(* A second `accept`, with a key we were not shown before, is refused and   *)
(* changes nothing (GreetRefused of Pairing): it is left out here.          *)
AcceptStarts(c) ==
    /\ invited[c] # None /\ holds[c] = None
    /\ Pending(mem, c) /\ Pending(disk, c)
    /\ Dials(c, "accept", invited[c])

AskStarts(c) == holds[c] # None /\ Dials(c, "ask", holds[c])

Listening(spot) == up /\ spot \in bound

(* c is trying this address, in a way that leads to it if it is bound.      *)
Tries(c, spot) ==
    /\ dial[c] # None
    /\ \/ dial[c].to = spot
       \/ dial[c].to = None /\ spot \in dial[c].untried /\ fresh[c]

(* For mutation: an address the sockets do not lead to is passed over.      *)
HintsFail_Skips(c, spot) ==
    /\ dial[c] # None
    /\ dial[c].to = None
    /\ spot \in dial[c].untried
    /\ dial' = [dial EXCEPT ![c].untried = @ \ {spot}]
    /\ UNCHANGED <<up, mem, disk, bound, minted, invited, holds, fresh, heard>>

(* The remembered sockets do not lead to it, or not in time, or there are   *)
(* none.                                                                    *)
HintsFail(c, spot) ==
    /\ dial[c] # None
    /\ dial[c].to = None
    /\ spot \in dial[c].untried
    /\ dial' = [dial EXCEPT ![c] = [dial[c] EXCEPT !.untried = @ \ {spot}, !.to = spot]]
    /\ UNCHANGED <<up, mem, disk, bound, minted, invited, holds, fresh, heard>>

(* Nor does discovery.  That is nobody's fault where nobody listens, unless *)
(* the daemon is only down.                                                 *)
DiscoveryFails(c) ==
    /\ dial[c] # None
    /\ dial[c].to # None
    /\ dial' = [dial EXCEPT ![c] =
                   [dial[c] EXCEPT !.to = None, !.spoilt = @ \/ ~up \/ Listening(dial[c].to)]]
    /\ UNCHANGED <<up, mem, disk, bound, minted, invited, holds, fresh, heard>>

NextAddress(d, spot, spoilt) ==
    [d EXCEPT !.untried = @ \ {spot}, !.to = None, !.spoilt = @ \/ spoilt]

(* We know nobody by that key: nothing changes. *)
Refuse(c, spot) ==
    /\ Tries(c, spot) /\ Listening(spot)
    /\ ~Knows(mem, c)
    /\ dial' = [dial EXCEPT ![c] = NextAddress(dial[c], spot, FALSE)]
    /\ UNCHANGED <<up, mem, disk, bound, minted, invited, holds, fresh, heard>>

(* Where a caller we know, or come to know by this, arrived. *)
note_reached_on(net, c, on) ==
    [net EXCEPT !.peers[c] = [pending |-> FALSE, reached_on |-> on]]

(* greet_inner, of a caller it knows or that presents its invite: where it  *)
(* arrived is noted and the net saved.  Then the answer is lost, or is a No *)
(* because the save failed: the caller goes on to its next address.         *)
Unanswered(c, spot, saved) ==
    /\ Tries(c, spot) /\ Listening(spot)
    /\ Knows(mem, c)
    /\ save(note_reached_on(mem, c, spot), saved)
    /\ dial' = [dial EXCEPT ![c] = NextAddress(dial[c], spot, TRUE)]
    /\ UNCHANGED <<up, bound, minted, invited, holds, fresh, heard>>

(* The answer to an `accept` is kept: these addresses are what c holds.     *)
AcceptAnswered(c, spot) ==
    /\ Tries(c, spot) /\ Listening(spot)
    /\ Knows(mem, c)
    /\ dial[c].why = "accept"
    /\ save(note_reached_on(mem, c, spot), TRUE)
    /\ dial' = [dial EXCEPT ![c] = None]
    /\ holds' = [holds EXCEPT ![c] = current_addresses(mem)]
    /\ UNCHANGED <<up, bound, minted, invited, fresh, heard>>

(* For mutation: the addresses of the Welcome replace what c holds.         *)
AskAnswered_Replaces(c, spot) ==
    /\ Tries(c, spot) /\ Listening(spot)
    /\ Knows(mem, c)
    /\ dial[c].why = "ask"
    /\ save(note_reached_on(mem, c, spot), TRUE)
    /\ dial' = [dial EXCEPT ![c] = None]
    /\ holds' = [holds EXCEPT ![c] = current_addresses(mem)]
    /\ heard' = [heard EXCEPT ![c] = TRUE]
    /\ UNCHANGED <<up, bound, minted, invited, fresh>>

(* `converse` reads the Welcome for a No only: c holds what it held.        *)
AskAnswered(c, spot) ==
    /\ Tries(c, spot) /\ Listening(spot)
    /\ Knows(mem, c)
    /\ dial[c].why = "ask"
    /\ save(note_reached_on(mem, c, spot), TRUE)
    /\ dial' = [dial EXCEPT ![c] = None]
    /\ heard' = [heard EXCEPT ![c] = TRUE]
    /\ UNCHANGED <<up, bound, minted, invited, holds, fresh>>

Exhausted(c) == dial[c] # None /\ dial[c].untried = {} /\ dial[c].to = None

(* No address is left, and the last error is reported. *)
GiveUp(c) ==
    /\ Exhausted(c)
    /\ dial' = [dial EXCEPT ![c] = None]
    /\ UNCHANGED <<up, mem, disk, bound, minted, invited, holds, fresh, heard>>

-----------------------------------------------------------------------------
NetAtInit == [keys |-> {Default}, retired |-> {}, peers |-> [c \in Contact |-> None]]

Init ==
    /\ up = FALSE
    /\ mem = NetAtInit
    /\ disk = NetAtInit
    /\ bound = {}
    /\ minted = {Default}
    /\ invited = [c \in Contact |-> None]
    /\ holds = [c \in Contact |-> None]
    /\ fresh = [c \in Contact |-> FALSE]
    /\ dial = [c \in Contact |-> None]
    /\ heard = [c \in Contact |-> FALSE]

Operator ==
    \/ Start
    \/ Stop
    \/ \E spot \in Spot : Retire(spot) \/ Unbind(spot)
    \/ \E saved \in BOOLEAN :
        \/ \E spot \in Spot : NewAddress(spot, saved)
        \/ \E c \in Contact : \/ InvitePeer(c, saved)
                              \/ \E answered \in BOOLEAN : Accept(c, answered, saved)

Proceed(c) ==
    \/ \E spot \in Spot :
        \/ HintsFail(c, spot)
        \/ Refuse(c, spot)
        \/ \E saved \in BOOLEAN : Unanswered(c, spot, saved)
        \/ AcceptAnswered(c, spot)
        \/ AskAnswered(c, spot)
    \/ DiscoveryFails(c)
    \/ GiveUp(c)

Next ==
    \/ Operator
    \/ \E c \in Contact : AcceptStarts(c) \/ AskStarts(c) \/ Proceed(c)

Spec == Init /\ [][Next]_vars

-----------------------------------------------------------------------------
(* Properties *)

(* Nothing c has of us will be bound at the next start. *)
Stranded(c) == holds[c] # None /\ holds[c] \cap disk.keys = {}

(* Who has asked us something, and been answered, can go on asking: however *)
(* addresses are minted, retired and, once drained, unbound, it holds one   *)
(* that is on file (note_reached_on, drained, converse).                    *)
HeardFromIsKept == \A c \in Contact : heard[c] => ~Stranded(c)

(* Whoever we know can reach us: when no peer's reached_on names a retired  *)
(* key, nothing can arrive on it (drained).                                 *)
DrainedIsDone == \A c \in Contact : Knows(disk, c) => ~Stranded(c)

(* What c dials at us: the set it has, or the one on its invite. *)
Listed(c) == IF dial[c].why = "ask" THEN holds[c] ELSE invited[c]

(* An `accept` or an ask that fails for want of an address had none: stale  *)
(* sockets, unbound addresses and refusals do not end the search before the *)
(* last address (accept, ask_peer, dial_with_hints).                        *)
FailureHasACause ==
    \A c \in Contact :
        Exhausted(c) /\ ~dial[c].spoilt /\ up /\ Knows(mem, c) => Listed(c) \cap bound = {}

-----------------------------------------------------------------------------
(* The inductive invariant behind both. *)

(* While it runs, what is bound is on file in memory, and so is every       *)
(* address in a reached_on.  Of network.toml that is so at all times.       *)
ReachedIsKept ==
    /\ ReachedOnOurs(disk)
    /\ up => ReachedOnOurs(mem) /\ bound \subseteq mem.keys

(* Who has been heard from last arrived on an address it holds, by the file *)
(* and by memory.                                                           *)
HeardOn(net, c) == Knows(net, c) /\ net.peers[c].reached_on \in holds[c]

HeardIsOnFile ==
    \A c \in Contact : heard[c] => holds[c] # None /\ HeardOn(disk, c) /\ HeardOn(mem, c)

(* An `accept` is of an entry that stays, and over before the first ask,    *)
(* which dials what its contact holds.                                      *)
AsksFollow ==
    \A c \in Contact :
        /\ dial[c] # None /\ dial[c].why = "accept" =>
              holds[c] = None /\ Knows(mem, c) /\ Knows(disk, c)
        /\ dial[c] # None /\ dial[c].why = "ask" =>
              holds[c] # None /\ dial[c].untried \cup ({dial[c].to} \ {None}) \subseteq holds[c]

(* No address that is bound is given up before it has been dialled.         *)
SearchGoesOn ==
    \A c \in Contact :
        dial[c] # None /\ ~dial[c].spoilt /\ up /\ Knows(mem, c) =>
            Listed(c) \cap bound \subseteq dial[c].untried \cup {dial[c].to}

IInv == TypeOK /\ ReachedIsKept /\ HeardIsOnFile /\ AsksFollow /\ SearchGoesOn
=============================================================================
