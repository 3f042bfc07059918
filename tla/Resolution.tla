----------------------------- MODULE Resolution -----------------------------
(***************************************************************************)
(* From `name@peer` to a device that answers (sirji/src/daemon.rs: answer, *)
(* locate; sirji/src/ticket.rs; t-sirji-fs: resolve, ask, handle).         *)
(*                                                                         *)
(* A device asks its parent; the parent asks the peer, as the identity the *)
(* peer knows it by; the peer finds the device, sees that it is live, and  *)
(* signs a ticket with one of its addresses.  The ticket travels back, the *)
(* asking device dials the other and knocks with it, and that one decides  *)
(* by the ticket alone, against the addresses its config has of its parent.*)
(* A device may also ask its parent for a sibling.                         *)
(*                                                                         *)
(* Meanwhile sirjis add addresses, and retire them: by an edit of          *)
(* network.toml and a restart, for no command does it.  Devices come and   *)
(* go (Registration), time passes, and tickets may be handed on.           *)
(*                                                                         *)
(* Pairing is over when this begins: Called gives what each sirji calls    *)
(* the other in its network.toml, None for a sirji it does not know.       *)
(***************************************************************************)
EXTENDS Naturals, Sequences, FiniteSets

CONSTANTS
    Sirji,      \* the daemons
    Device,     \* device homes; a device stands for its key, too
    Parent,     \* Parent[d]: the sirji that invites d
    Name,       \* device names
    NameOf,     \* NameOf[d]: the name the invite was made for
    Alias,      \* what sirjis call one another
    Called,     \* Called[s][r]: the alias of r at s, or None
    Key,        \* addresses
    HomeKey,    \* HomeKey[s]: the address `sirji init` made for s
    Ask,        \* slots for questions under way
    None,       \* an absent Option
    LIFETIME,   \* of a ticket, in ticks of the clock
    MaxMinted,  \* bound on the tickets made
    MaxNow      \* bound on the clock

ASSUME ParentsAreSirjis == Parent \in [Device -> Sirji]
ASSUME NamesAreDistinct ==
    /\ NameOf \in [Device -> Name]
    /\ \A d, e \in Device : Parent[d] = Parent[e] /\ NameOf[d] = NameOf[e] => d = e
ASSUME AliasesAreDistinct ==
    /\ Called \in [Sirji -> [Sirji -> Alias \cup {None}]]
    /\ \A s, r, q \in Sirji : Called[s][r] = Called[s][q] /\ Called[s][r] # None => r = q
ASSUME HomeKeysAreFresh ==
    /\ HomeKey \in [Sirji -> Key]
    /\ \A s, r \in Sirji : HomeKey[s] = HomeKey[r] => s = r
ASSUME NoneIsNoValue == None \notin Alias \cup Key \cup Device \cup Sirji
ASSUME TimesAreNaturals == LIFETIME \in Nat /\ MaxNow \in Nat /\ MaxMinted \in Nat

VARIABLES
    addresses,   \* addresses[s]: the handshake keys in s's network.toml
    parent,      \* parent[d]: Config.parent, from the invite; None before `init`
    live,        \* the devices whose name is in their parent's live table
    ask,         \* ask[j]: a question under way
    minted,      \* every ticket made, with the time it was made
    served,      \* who was served last: by whom, and with which ticket
    now          \* the clock

vars == <<addresses, parent, live, ask, minted, served, now>>

HandshakeKey == [key : Key, retired : BOOLEAN]

Ticket == [name : Name, caller : Device, alias : Alias \cup {None},
           valid_until : Nat, issuer : Key]

(* `at` is the sirji that has the question, `alias` the asker there, None   *)
(* for a device of its own; `found` is the device once it is looked up, and *)
(* `ticket` the answer once there is one.                                   *)
Question == [caller : Device, name : Name, at : Sirji, alias : Alias \cup {None},
             stage : {"locate", "live", "sign", "answered"},
             found : Device \cup {None}, ticket : Ticket \cup {None}]

(* Who was let in by whom, with which ticket, and when. *)
Service == [device : Device, caller : Device, ticket : Ticket, at : Nat]

ASSUME NoneIsNoService == None \notin Service

(* The devices that have a key in their parent's network.toml. *)
enrolled == {d \in Device : parent[d] # None}

TypeOK ==
    /\ addresses \in [Sirji -> Seq(HandshakeKey)]
    /\ parent \in [Device -> (SUBSET Key) \cup {None}]
    /\ live \subseteq enrolled
    /\ ask \in [Ask -> Question \cup {None}]
    /\ minted \subseteq [ticket : Ticket, at : Nat]
    /\ served \in Service \cup {None}
    /\ now \in 0 .. MaxNow

-----------------------------------------------------------------------------
Asked == {j \in Ask : ask[j] # None}

current(s) == {i \in DOMAIN addresses[s] : ~addresses[s][i].retired}

current_addresses(s) == {addresses[s][i].key : i \in current(s)}

(* For mutation: the address to sign with is the newest.                    *)
signer_Newest(s) ==
    {addresses[s][i].key : i \in {i \in current(s) : \A j \in current(s) : j <= i}}

(* For mutation: the address to sign with is the first, retired or not.     *)
signer_Retired(s) ==
    {addresses[s][i].key : i \in {i \in DOMAIN addresses[s] :
                                     \A j \in DOMAIN addresses[s] : i <= j}}

(* current_addresses().first(), as a set: {} when there is none. *)
signer(s) ==
    {addresses[s][i].key : i \in {i \in current(s) : \A j \in current(s) : i <= j}}

-----------------------------------------------------------------------------
(* What goes on around it *)

NewAddress(s, k) ==
    /\ \A r \in Sirji : \A i \in DOMAIN addresses[r] : addresses[r][i].key # k
    /\ addresses' = [addresses EXCEPT ![s] = Append(@, [key |-> k, retired |-> FALSE])]
    /\ UNCHANGED <<parent, live, ask, minted, served, now>>

(* The daemon is stopped, `retired = true` is written, and it is started:   *)
(* the questions it had are lost, and its devices have yet to come back.    *)
Retire(s, i) ==
    /\ i \in current(s)
    /\ addresses' = [addresses EXCEPT ![s][i].retired = TRUE]
    /\ live' = {d \in live : Parent[d] # s}
    /\ ask' = [j \in Ask |->
                  IF j \in Asked /\ s \in {ask[j].at, Parent[ask[j].caller]}
                  THEN None ELSE ask[j]]
    /\ UNCHANGED <<parent, minted, served, now>>

(* `sirji device invite`, and the device's `init` with what it printed      *)
(* (Pairing has their steps): the device keeps the addresses of the invite. *)
Enrol(d) ==
    /\ parent[d] = None
    /\ current(Parent[d]) # {}
    /\ parent' = [parent EXCEPT ![d] = current_addresses(Parent[d])]
    /\ UNCHANGED <<addresses, live, ask, minted, served, now>>

(* For mutation: a device is taken for ours before it has enrolled.         *)
Comes_Unenrolled(d) ==
    /\ d \notin live
    /\ live' = live \cup {d}
    /\ UNCHANGED <<addresses, parent, ask, minted, served, now>>

(* A device registers, or its connection ends (Registration). *)
Comes(d) ==
    /\ d \in enrolled \ live
    /\ live' = live \cup {d}
    /\ UNCHANGED <<addresses, parent, ask, minted, served, now>>

Goes(d) ==
    /\ d \in live
    /\ live' = live \ {d}
    /\ UNCHANGED <<addresses, parent, ask, minted, served, now>>

(* Only tickets are compared with the clock: it starts with the first one.  *)
Tick ==
    /\ minted # {}
    /\ now < MaxNow
    /\ now' = now + 1
    /\ UNCHANGED <<addresses, parent, live, ask, minted, served>>

-----------------------------------------------------------------------------
(* The question *)

Asks(j, caller, name, at, alias) ==
    /\ ask[j] = None
    /\ caller \in enrolled
    /\ ask' = [ask EXCEPT ![j] =
                  [caller |-> caller, name |-> name, at |-> at, alias |-> alias,
                   stage |-> "locate", found |-> None, ticket |-> None]]
    /\ UNCHANGED <<addresses, parent, live, minted, served, now>>

(* ResolveFor, and the Resolve it turns into: the parent finds `alias`,     *)
(* dials that sirji, and is known there.  `caller` is the device, by its    *)
(* key on the connection to the parent, and not the parent.                 *)
ResolveFor(j, caller, name, r) ==
    /\ Called[Parent[caller]][r] # None
    /\ Called[r][Parent[caller]] # None
    /\ Asks(j, caller, name, r, Called[r][Parent[caller]])

ResolveLocal(j, caller, name) == Asks(j, caller, name, Parent[caller], None)

(* The asker gives up or is done, a connection breaks, or the answer is a   *)
(* No: the name is unknown, not enrolled or not live, or no address is left *)
(* to sign with.                                                            *)
Fails(j) ==
    /\ j \in Asked
    /\ ask' = [ask EXCEPT ![j] = None]
    /\ UNCHANGED <<addresses, parent, live, minted, served, now>>

(* locate takes and releases a lock three times. *)
LocateDevice(j, d) ==
    /\ j \in Asked
    /\ ask[j].stage = "locate"
    /\ d \in enrolled
    /\ Parent[d] = ask[j].at
    /\ NameOf[d] = ask[j].name
    /\ ask' = [ask EXCEPT ![j] = [ask[j] EXCEPT !.found = d, !.stage = "live"]]
    /\ UNCHANGED <<addresses, parent, live, minted, served, now>>

LocateLive(j) ==
    /\ j \in Asked
    /\ ask[j].stage = "live"
    /\ ask[j].found \in live
    /\ ask' = [ask EXCEPT ![j].stage = "sign"]
    /\ UNCHANGED <<addresses, parent, live, minted, served, now>>

(* For mutation: the ticket is made out to whoever answers for the asker.   *)
mint_Unnamed(issuer, name, caller, alias) ==
    [name |-> name, caller |-> caller, alias |-> None,
     valid_until |-> now + LIFETIME, issuer |-> issuer]

mint(issuer, name, caller, alias) ==
    [name |-> name, caller |-> caller, alias |-> alias,
     valid_until |-> now + LIFETIME, issuer |-> issuer]

LocateSign(j, issuer) ==
    /\ j \in Asked
    /\ ask[j].stage = "sign"
    /\ Cardinality(minted) < MaxMinted
    /\ issuer \in signer(ask[j].at)
    /\ LET t == mint(issuer, ask[j].name, ask[j].caller, ask[j].alias)
       IN  /\ ask' = [ask EXCEPT ![j] = [ask[j] EXCEPT !.ticket = t, !.stage = "answered"]]
           /\ minted' = minted \cup {[ticket |-> t, at |-> now]}
    /\ UNCHANGED <<addresses, parent, live, served, now>>

-----------------------------------------------------------------------------
(* The knock *)

(* For mutation: a ticket is good for whoever has it.                       *)
verify_Bearer(d, t, presented) ==
    /\ t.issuer \in parent[d]
    /\ now <= t.valid_until

(* For mutation: a ticket is good for ever.                                 *)
verify_Undated(d, t, presented) ==
    /\ t.issuer \in parent[d]
    /\ presented = t.caller

(* Ticket::verify, but for the signature, which those that are minted have. *)
verify(d, t, presented) ==
    /\ t.issuer \in parent[d]
    /\ presented = t.caller
    /\ now <= t.valid_until

(* What `handle` asks of a ticket before it reads the request. *)
Opens(d, t, presented) ==
    /\ verify(d, t, presented)
    /\ t.name = NameOf[d]

(* Any device may come to hold any ticket, and may dial any device; without *)
(* a ticket it is refused.  A refusal changes nothing.                      *)
Knock(d, m, presented) ==
    /\ {d, presented} \subseteq enrolled
    /\ Opens(d, m.ticket, presented)
    /\ served' = [device |-> d, caller |-> presented, ticket |-> m.ticket, at |-> now]
    /\ UNCHANGED <<addresses, parent, live, ask, minted, now>>

-----------------------------------------------------------------------------
Init ==
    /\ addresses = [s \in Sirji |-> <<[key |-> HomeKey[s], retired |-> FALSE]>>]
    /\ parent = [d \in Device |-> None]
    /\ live = {}
    /\ ask = [j \in Ask |-> None]
    /\ minted = {}
    /\ served = None
    /\ now = 0

Resolve(j) ==
    \/ Fails(j)
    \/ LocateLive(j)
    \/ \E d \in Device : LocateDevice(j, d)
    \/ \E k \in Key : LocateSign(j, k)
    \/ \E d \in Device, name \in Name : \/ ResolveLocal(j, d, name)
                                        \/ \E r \in Sirji : ResolveFor(j, d, name, r)

Next ==
    \/ \E s \in Sirji : \/ \E k \in Key : NewAddress(s, k)
                        \/ \E i \in current(s) : Retire(s, i)
    \/ \E d \in Device : Enrol(d) \/ Comes(d) \/ Goes(d)
    \/ \E j \in Ask : Resolve(j)
    \/ \E d, e \in Device, m \in minted : Knock(d, m, e)
    \/ Tick

Spec == Init /\ [][Next]_vars

-----------------------------------------------------------------------------
(* Properties *)

(* `alias` is what s calls the sirji of `caller`; None when that is s. *)
Acquainted(s, caller, alias) ==
    IF alias = None THEN Parent[caller] = s ELSE alias = Called[s][Parent[caller]]

(* Whoever is served asked for that device by name within the lifetime of a *)
(* ticket, from a home whose sirji the device's own knows, under the alias  *)
(* the ticket shows, or from a home of the same sirji; handing a ticket on, *)
(* or taking it to another device, gets nobody in (locate, Ticket::verify,  *)
(* handle).                                                                 *)
ServedIsAcquainted ==
    served # None =>
        \E m \in minted :
            /\ m.ticket = served.ticket
            /\ m.at <= served.at /\ served.at <= m.at + LIFETIME
            /\ m.ticket.name = NameOf[served.device]
            /\ m.ticket.caller = served.caller
            /\ Acquainted(Parent[served.device], served.caller, m.ticket.alias)

(* Why ServedIsAcquainted holds: an address is one sirji's, a device knows   *)
(* its own sirji's, and whatever is asked of a sirji, or signed by it, is   *)
(* on behalf of somebody it is acquainted with.                             *)
Keys(s) == {addresses[s][i].key : i \in DOMAIN addresses[s]}

KeysApart == \A s, r \in Sirji : s # r => Keys(s) \cap Keys(r) = {}

ParentsKnown == \A d \in enrolled : parent[d] \subseteq Keys(Parent[d])

AskersAcquainted == \A j \in Asked : Acquainted(ask[j].at, ask[j].caller, ask[j].alias)

TicketsVouched ==
    \A m \in minted :
        /\ m.at <= now /\ m.ticket.valid_until = m.at + LIFETIME
        /\ \E s \in Sirji : /\ m.ticket.issuer \in Keys(s)
                             /\ Acquainted(s, m.ticket.caller, m.ticket.alias)

(* The conjunction of these is kept by every step.                          *)
IInv ==
    /\ TypeOK
    /\ KeysApart
    /\ ParentsKnown
    /\ AskersAcquainted
    /\ TicketsVouched
    /\ ServedIsAcquainted

Answered == {j \in Asked : ask[j].stage = "answered" /\ now <= ask[j].ticket.valid_until}

Retired(s) == {addresses[s][i].key : i \in DOMAIN addresses[s] \ current(s)}

(* The answer to a question is a ticket that opens the device that was      *)
(* looked up, to whoever asked, as long as it is valid, and as long as no   *)
(* address the device knows its parent by is retired, whatever addresses    *)
(* are added or were retired before (locate, Config.parent).                *)
AnswerOpens ==
    \A j \in Answered :
        parent[ask[j].found] \cap Retired(ask[j].at) = {} =>
            Opens(ask[j].found, ask[j].ticket, ask[j].caller)

(* Why AnswerOpens holds: what is current now comes no earlier than what    *)
(* was first when the device enrolled, and the device knows that one; and a *)
(* question keeps to the device it has found.                               *)
FirstIsKnown ==
    \A d \in enrolled : \E i \in DOMAIN addresses[Parent[d]] :
        /\ addresses[Parent[d]][i].key \in parent[d]
        /\ \A j \in current(Parent[d]) : i <= j

Followed(q) ==
    /\ q.stage # "locate" =>
        /\ q.found \in enrolled
        /\ Parent[q.found] = q.at
        /\ NameOf[q.found] = q.name
    /\ q.stage = "answered" =>
        /\ q.ticket.name = q.name
        /\ q.ticket.caller = q.caller
        /\ parent[q.found] \cap Retired(q.at) = {} => q.ticket.issuer \in parent[q.found]

(* With IInv, this is kept by every step.                                   *)
Answering == FirstIsKnown /\ \A j \in Asked : Followed(ask[j])

(* The same, whatever is retired: "A device knows its parent's handshake    *)
(* keys, so it can check the issuer is genuinely us" (locate).              *)
AnswerAlwaysOpens ==
    \A j \in Answered : Opens(ask[j].found, ask[j].ticket, ask[j].caller)
=============================================================================
