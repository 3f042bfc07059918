# sirji: verification project

sirji is a daemon that knows people by keys. Each home has a *known net*
(`network.toml`): the addresses it listens on (handshake keys), one entry per
relationship (our identity towards the peer, the peer's towards us), and its own
devices. Two sirjis come to know each other by an invite carried out of band; a
device (`t-sirji-fs`) enrols the same way. A device of one home can then find a
device of another by `name@peer`, and is let in by a ticket the other's sirji signs.

The TLA+ modules here are translated from the code in `sirji/src` and
`t-sirji-fs/src`. TLC checks them on small instances; TLAPS proves the most
important safety properties for every value of the constants. `PROJECT.json` maps
each definition to the lines it stands for.

## Inventory

| Component | State | Operations | What makes it correct |
|---|---|---|---|
| Pairing (`daemon.rs`: `handle`, `accept`, `greet_inner`) | known net in memory and on disk, key files | `Invite`, `DeviceInvite`, `Accept`, `NewAddress`; greetings: `Peer`, `Invited` | key file before entry; one identity per relationship; the inviter knows whoever accepted; an invite admits one; nothing recorded is lost; the daemon can be restarted |
| `network.toml` (`config.rs`) | the file | load, save, `check`, lookups, `drained` | no duplicate alias, identity or device name; ids well formed |
| Keystore (`keystore.rs`) | key files | generate, secret, list | a key file is never overwritten, or handed out for another key |
| Registration (`serve_peer`, `hold`, `register_device`, `register`) | `live`: device name to hints; the connections | register, hold, depart, reconnect | live means connected; departed means forgotten; serving means, in the end, connected |
| Resolution (`answer`, `locate`, `ticket.rs`, `handle` of t-sirji-fs) | questions under way, tickets in anybody's hands | `ResolveFor`, `Resolve`, `ResolveLocal`, mint, verify, knock | only acquainted callers are served, each in its own name, in time; an answer opens the device it names |
| Rotation (`retired`, `reached_on`, `drained`) | flags in `network.toml`; the addresses a peer holds | add an address; retire one, and unbind it, by an edit and a restart | a retired address is needed by nobody when it is dropped; a dial that fails had nowhere to go |
| Home (`init`, `save`, `start`, `serve_control`) | `network.toml`, the file beside it, key files, the socket's file | `init`, start, save in three calls, forget by hand | wherever a process dies, the next one goes on; what was answered for stays; what was forgotten stays away |
| Control socket and CLI (`serve_control`, `serve_cli`, `sirji-cli`) | the socket file | the requests above, and `Status`, `Peers`, `Devices`, which read | one daemon per home, which nothing enforces |
| Doctor (`doctor.rs`) | none | reads the home and the keys; probes the daemon, DNS, UDP, relays | no false alarm beside a daemon that saves |
| Endpoint and dialling (`endpoint.rs`) | one endpoint per handshake key, remembered sockets | bind, dial by hints, dial by discovery | identities are dialled from and never listened on; every way to an address is tried |
| `t-sirji-fs` | its config, its key | `init`, `serve` (in any number of processes), `ls`, `get` | no path leaves the served tree; no ticket, no answer |
| id52, settings | none, or read once at start | pure or sequential | unit tests cover them |

How they interact. A connection has a first line (`Hello`) and an answer
(`Welcome`); who dials is vouched for by the transport. The daemon answers each
connection in a task of its own and each CLI command in another. They share the
known net and the live table, each behind a mutex. A handler holds the net's lock
from its lookups to its save, with two exceptions, and these are where the hard
behaviour is: `accept` checks its alias in one lock scope and adds its entry in
another, with the whole dial between them; and `locate` takes a lock three times.
Nothing rolls a change in memory back when a check or a save fails. A connection's
two ends learn of its end each in its own time. `PROJECT.json` lists under
"hazards" what can go wrong in this and where.

## Modules

| Module | Models | Read it for |
|---|---|---|
| `KnownNet` | the records of `network.toml`, the lookups, `check` | pure operators, used by `Pairing` |
| `Pairing` | two or more sirjis and devices that invite, accept, enrol | actions named for the code's handlers |
| `PairingInvariant` | the inductive invariant of `Pairing` | why the properties hold |
| `PairingProofs` | | the theorems about `Pairing` |
| `PairingOnce` | the second invariant of `Pairing` | who goes by an invite is on file for it, alone |
| `Registration`, `RegistrationProofs` | one parent, its live table, the connections to it | both ends of a connection |
| `Resolution`, `ResolutionProofs` | from `name@peer` to a device that answers | tickets, and addresses that change meanwhile |
| `Invitation` | what an invite promises, in four variables | the abstract specification |
| `PairingImplements` | `Pairing` as an `Invitation` | the refinement mapping: only files count |
| `PairingOnceProofs` | | the theorems on identities and invites, and the refinement |
| `PairingRestartProofs` | | that a daemon can always be started again |
| `Rotation`, `RotationProofs` | one sirji's addresses, and what the people it knows hold of them | retiring an address, dialling a list |
| `Home`, `HomeProofs` | one home directory, one system call at a time | what a kill between two calls leaves |
| `SavedHome`, `HomeImplements` | a home where a save is one step; `Home` as one | why the other modules may save in a step |
| `Admission`, `ResolutionImplements` | who is served, for which answer; `Resolution` as that | the promise of a ticket, without keys or signatures |
| `MCPairing`, `MCRegistration`, `MCResolution`, `MCRotation`, `MCHome` | | the instances TLC checks |

No model has all of this at once: a save is one step in `Pairing` and `Rotation` because
it may be taken for one (`HomeImplementsSavedHome`); a device in `Registration` is on its parent's list because
`Pairing` says so (`EnrolledImpliesKnown`); addresses only grow in number in `Pairing`,
and go in `Rotation` and `Resolution`.

### Pairing

State: `mem[s]` is `Daemon.net`, `disk[s]` is `network.toml`, `store[h]` the key
files, `bound[s]` the endpoints, `task[c]` an `accept` or a device's `init` in
progress, `config[d]` what an enrolled device has on file, `wire` the greetings and
answers under way, `invites` what operators have been shown.

| Action | Code |
|---|---|
| `Start`, `Crash` | `Daemon::start`; the process dies |
| `NewAddress`, `InvitePeer`, `InviteDevice` | the three requests of `handle` that run under the lock to their end |
| `AcceptStarts`, `EnrolStarts` | `accept` and `init` up to the first dial |
| `Dial`, `DialFails`, `ConnectionLost`, `GiveUp` | the loops over addresses in `accept` and `greet_parent` |
| `GreetKnown`, `GreetInvitedDevice`, `GreetInvitedPeer`, `GreetRefused` | the ways through `greet_inner`, each with its save and its answer |
| `AcceptEnds`, `AcceptRefused`, `EnrolEnds`, `EnrolRefused` | the answer arrives |
| `DialPeer` | a sirji that uses a relationship (`ask_peer`) |
| `EnrolStops`, `Lose` | `init` is interrupted; a message is lost with its connection |

A save is one step: the file is written beside and renamed, so a crash leaves the
old one or the new one (`Home` has the three calls it is). A save
that fails, or a check that does, leaves the change in memory, as the code does.
`GreetKnown` and `NewAddress` save without a check, as the code does. A lookup is
the set of matching indices, and `IsFirst` picks the one `find` returns, because two
entries may come to share an alias in memory.

Merged or left out: `AcceptStarts` is one step although `accept` takes the lock
twice before it dials. The second time it only reads its own addresses, and a
handler that ran in between could only add one. Addresses are a set, tried in any
order, where the code has a list. `hints` and `dns` are carried by the code and
decided by nothing here. Peers are honest: they run this program.

`Invitation` says what all this is for, with no daemon, lock or message in it: an invite
is *offered*; the inviter's file comes to say that one key has *taken* it, or that a key
*enrolled* as a device; and only then does another file say that it *holds* the offer.
Nothing on file is taken back. A step of it is one file replaced, which may say more than
one new thing, since a save also writes what earlier saves failed to write.
`PairingImplements` maps the four variables to what is on disk: what is in memory only
was never promised. Steps that write no file are its stuttering steps.

### Registration

`live` is `Daemon.live`. A connection is a record with what each end has come to:
`parent` is `greeting`, `welcomed`, `held` (in `live`) or `gone`; `client` is `open`
or `gone`; `cut` says that neither end will hear from the other. `RegisterDials` is
`register_device` as the loop of `register` calls it, `AskDials` is `ask_as_device`,
which sends the same greeting with no hints. Nothing keeps a home to one `serve`
(`main.rs:175-205` takes no lock), so a process is what serves: `serving[p]` is the home
process `p` serves and where it listens, several processes may serve one home, and each
holds a connection of its own, under the one name. A process dials when it holds no
connection. The parent's `Welcomes`, `WelcomeFails`,
`Registers`, `Departs` are the steps of `serve_peer`. A device that asks does so on
connections of its own (`AskConn`), so that asking never keeps it from serving. The device has enrolled before
(`EnrolledImpliesKnown` of `Pairing`), so its greeting is always a known device's.

### Resolution

`addresses[s]` is the list of handshake keys; here it is a list, since `locate` signs
with the first. `parent[d]` is the device's `Config.parent`, fixed when it enrols.
`ask[j]` is a question, with the stage of `locate` it has come to: `LocateDevice`,
`LocateLive` and `LocateSign` are its three lock scopes. `minted` holds every ticket
made, and `Knock` lets any enrolled device present any of them to any device. `Retire`
is the operator's: the daemon is stopped, `retired = true` is written by hand, and it
is started again, so its questions are lost and its devices gone from the live table.

Merged or left out: `Enrol` is an invite and an `init` in one (Pairing has the
steps). `ResolveFor` goes from the device to the peer in one step; the lookup of the
peer and the dial change nothing. `Fails` stands for every No and every broken
connection. A minted ticket's signature verifies, and no other ticket is presented. The
clock is compared with `valid_until` and with nothing else, so a short lifetime does:
with `LIFETIME` 0 a ticket is good in the tick it is made in, and expired in the next.
The clock starts with the first ticket.

`Admission` is what a ticket is for, with no address, signature, question or ticket in it: a
sirji *vouches* for a caller it is acquainted with, towards one of its names, and the device
of that name *serves* that caller, under the alias that was vouched for, until `LIFETIME` has
passed. `ResolutionImplements` maps each ticket ever minted to what its signer vouched for;
addresses that come and go, and tickets that are handed on, are stuttering steps.

### Rotation

One sirji, `mem` and `disk` again, and its contacts: `holds[c]` is the set of our
addresses that contact `c` has on file, `dial[c]` its `accept` or ask under way, with the
addresses still `untried` and the one `to` be dialled by discovery. `fresh[c]` says that
the sockets it remembers for us are still ours: a start binds new ones.

| Action | Code |
|---|---|
| `Start`, `Stop` | `Daemon::start`, which binds what is on file; a stop or a crash |
| `Retire`, `Unbind` | the operator's edits, while the daemon is down: `retired = true`; the entry removed, once `drained` has it |
| `NewAddress`, `InvitePeer`, `Accept` | the requests that change what is handed out, or to whom |
| `AcceptStarts`, `AskStarts` | the other side's `accept`, or `ask_peer` |
| `HintsFail`, `DiscoveryFails` | `dial_with_hints`: the sockets, then discovery, then the next address |
| `Refuse`, `Unanswered`, `AcceptAnswered`, `AskAnswered` | `greet_inner` with `note_reached_on`, and what becomes of its answer; only `accept` keeps the addresses it brings |
| `GiveUp` | the loop is over |

Left out: aliases are used once each, entries are pairs of equals (`Pairing` has the
keys), and a contact's own addresses do not move, so that only ours can be lost.

### Home

`toml` and `tmp` are `network.toml` and the file beside it, each absent, torn or a whole
net; a net is the set of keys it names. `store[k]` is a key's file, `socket` whose listener
the socket's file leads to, `proc[p]` an `init` or a daemon with its net in memory and the
call its handler is at. `InitStarts`, `Command`, `Greeted`, `Minted` are what leads to a
save; `Truncate`, `Write`, `Rename` are the save; `Unlink` and `Bind` are `serve_control`;
`Killed` and `Fails` may come between any two. A file that is renamed under another
process's open handle follows it (`Moved`), which is what two daemons in one home meet.
`Forget` is the operator's edit, and the `Doctor` actions are the reads of `sirji doctor`.
`SavedHome` is the same home as the other modules see it: a net on file, a net in memory,
the keys with a secret, and a save that makes one the other in a step. `HomeImplements` maps
the torn file, the file beside and the call a handler is at to nothing at all.
Nothing keeps a home to one process, and nothing keeps the operator from an edit while one
runs. The documents ask for both, and most of what is promised of a home rests on it. So
`alone` is a history variable: no process has been started beside another, and nothing has been
edited under one. The action that does so makes it false for good. Most properties are guarded
by it; `WholeIsStartable`, and the part of `IInv` it rests on, are not, and are checked in the
same run on the states where two daemons share the home and spoil each other's saves.
`home_shared` is what such a home does break.

## What is checked

`tlc -config X.cfg MCModule`; all with `CHECK_DEADLOCK FALSE`, because a system whose
operators do nothing more, or whose bounds are used up, has stopped rightly.

| Run | States | Question |
|---|---|---|
| `pairing` | 172,521 | two sirjis, a device and two commands at once, with crashes and failed writes: `KeyBeforeEntry`, `Unlinkable`, `AcceptedImpliesMirrored`, `EnrolledImpliesKnown`, `RelationshipsStay`; `PeerKeysApart`: a key that greets names one peer, so that an invite admits one; `OneExchange`: a command takes no answer for that to another greeting of its own; that it is an `Invitation` (`InvitationKept`); and `IInv` and `Once`, the invariants of the proofs |
| `commands` | 241,208 | while no two commands for an alias overlap, does every command end (`CommandsEnd`), and can the daemon always be restarted (`CanRestart`)? And `Restarts`, its invariant |
| `registration` | 244,557 | a device served in one process or in two: `LiveIsHeld`: no entry outlives its connection; `MissingOnlyByDeparture`: one that is heard is dropped from the table only by the end of another connection of its name; `DepartedIsForgotten`, `ServingIsConnected`: it goes, and each process that serves comes back |
| `resolution` | 1,036,460 | `ServedIsAcquainted`, `AnswerOpens`; that it is an `Admission` (`AdmissionKept`); and `IInv` and `Answering`, the invariants of the proofs |
| `rotation` | 107,006 | `HeardFromIsKept`: who has asked and been answered can go on asking; `FailureHasACause`: a dial that fails had no bound address to dial; and `IInv` |
| `home` | 630,508 | two processes, after or beside each other. As long as they have been alone: `NeverStuck`, `AnsweredIsKept`, `ForgottenIsGone`, `DoctorIsCalm`; that it is a `SavedHome` (`SavesAreAtomic`). Alone or not: `WholeIsStartable`: a file that is not torn is one a daemon starts from. And `IInv` |

Six runs end in a counterexample, on purpose: each checks something the repository
says of the program and the program does not do.

| Run | What the documents say | What the run shows |
|---|---|---|
| `alias_race` | the lock "keeps a pairing in flight from racing a CLI command" (`daemon.rs:25`) | an `accept` and another command for one alias; the duplicate stays in memory, the next unchecked save writes it, and `Daemon::start` refuses the file |
| `half_paired` | "Both sides end with mirror-image `[[peer]]` entries" (`DESIGN.md:620`) | the answer is lost after the inviter's save; the invite is spent and only one side has the entry |
| `registration_again` | while the connection is open "the parent counts this device as live" (`daemon.rs:916`) | the end of an old connection removes the entry of the new one: the table is keyed by name |
| `resolution_retired` | "A device knows its parent's handshake keys" (`daemon.rs:421`) | its list is the invite's, for ever; once those are retired it refuses its parent's tickets |
| `rotation_drained` | "when no `[[peer]]` names a retired key, nothing can arrive on it and it can be unbound for good" (`DESIGN.md:340`) | a peer we accepted has not dialled us yet; the only address it holds is retired, called drained and removed |
| `home_shared` | `save` replaces the file "atomically so a crash cannot leave a half-written known net" (`config.rs:125`) | two daemons in one home share the file beside; one renames what the other has just truncated |

### Bounds, and why they are enough

- Pairing: two sirjis and a device, two aliases, two commands, two crashes, two failed
  writes. Two commands are what a race needs; with two failed writes one may hit the
  change and one the repair; three keys to mint are an invite of either kind and two
  attempts to accept it, each within reach of a device's `init` and of a sirji's `accept`.
  `commands` has one alias and a second address to add (`away`), because `NewAddress` saves
  unchecked, and one fault of each kind.
- Keys that are minted, aliases, commands, devices, processes and contacts are
  interchangeable, and the runs that check invariants use that symmetry. The runs that
  check liveness do not.
- Registration: one device (an entry is only ever touched by connections of its name), and
  two processes that may serve it; three connections, of which one is for asking: two
  registrations overlap, an old one and its successor or those of two processes, with an
  `ls` beside them; three faults. With asking connections in the slots of serving ones, or
  fewer slots than processes, the number of slots, which the code does not have, could keep
  `register` from dialling.
- Resolution: two sirjis with three devices, of which two have the same parent and
  two the same name; three keys, so that one sirji has a second address; one question
  at a time (questions share no state but what `minted` keeps), one ticket, with one
  tick so that it expires. That a ticket is presented by others, elsewhere, or late
  needs no second ticket.
- Rotation: one contact, since a contact bears on another's entry only in `drained`,
  where each entry can only keep an address; three addresses, so that one may be retired,
  unbound and replaced while a dial over the other two is under way.
- Home: two processes, so that one dies and another takes over, or both run; two handshake
  keys and a peer's key, so that a second save finds what the first left. What was answered,
  forgotten or failed is read only by properties guarded by `alone`, and by no action, so
  once `alone` is false the run's `VIEW` (`MCHome!Seen`) leaves these three out: states that
  differ in nothing else have the same futures and satisfy the same properties.

### Fairness

- `Pairing!FairSpec`: a command that has begun goes on (`WF(Proceed(c))`). A dial has
  `HINT_PATIENCE` (3 s) and QUIC's own timeout; a connection whose other end is dead
  is ended by QUIC's idle timeout; a daemon that lives answers. No fairness is
  assumed of daemons, operators or faults: `CommandsEnd` holds if nobody answers.
- `Registration!FairSpec`: the parent's tasks run, both ends time idle connections
  out, `register` sleeps 5 s and dials again, and an `ls` does not wait for ever.
  Nobody has to start or restart anything, and faults need not stop except by their
  bound.

## What is proved

With TLAPS (`tlapm M.tla`), for any number of sirjis, devices, keys, commands and
faults, from the assumptions on the constants that the modules name:

- `PairingProofs`: `TypeCorrect`, `KeysComeFirst`, `AcceptedAreMirrored`,
  `RelationshipsKept`, all from `Inductive`.
- `PairingOnceProofs`: `IdentitiesUnlinkable`, `EnrolledAreKnown`,
  `PeerKeysAreApart` and `PairingImplementsInvitation`, all from `OnceInductive`;
  `ExchangesAreOne`, which is inductive on top of it.
- `PairingRestartProofs`: `CanAlwaysRestart` from `RestartsInductive`, both with
  `ASSUME OneAtATime` (no two commands for one alias overlap), without which `alias_race`
  refutes them.
- `RegistrationProofs`: `TypeCorrect`, `LiveAreHeld`, and the action property
  `UnlistedOnlyByDeparture`, for any number of processes per home.
- `ResolutionProofs`: `TypeCorrect`, `ServedAreAcquainted`, from `Inductive`; `AnswersOpen`,
  from `AnswersInductive`; `ResolutionImplementsAdmission`, from both.
- `RotationProofs`: `HeardFromAreKept`, `FailuresHaveACause`, from `Inductive`.
- `HomeProofs`: `AreNeverStuck`, `AnsweredAreKept`, `ForgottenAreGone`, `DoctorsAreCalm` and
  `HomeImplementsSavedHome`, which speak of a home as long as processes have been alone in it,
  and `SharedHomesStart`, which speaks of every home; all from `Inductive`.

The argument for pairing. That the inviter saves before it answers is not inductive by
itself. `PairingInvariant!IInv` adds what a step needs to know: a running daemon's
memory has all its file has (`MemoryHasDisk`), so no save loses a relationship; a
dialling key was minted for one invite and stands for it on the wire, in tasks and in
every net (`OneInviteAKey`), which rests on keys being fresh (`KeysKnown`,
`OwnKeysStored`); an Ok on the wire means the pair is on file (`OkMeansSaved`); and
among entries that share an alias a pending one comes first (`PendingsFirst`), so the
entry found by alias is the one found by identity, even in the states the alias race
leaves. Each is preserved by a lemma per action, grouped by how an action touches the
nets: entries added at the end, an entry filled in, nothing.

The argument for invites rests on a second invariant, `PairingOnce!Once`, on top of the
first. The keys in one sirji's memory, file and tasks are in no other's (`Apart`), which
is what `Unlinkable` needs of a minted key. Who claims an invite, by an entry of its own
or by an Ok it was told, is on the inviter's file for it (`ClaimsAreTaken`) and nobody
else is (`OneClaims`): a peer's entry names who filled it in, a device's invite is gone
from every net and is never minted again (`Took`), and the Ok names somebody
(`OkMeansNamed`). A step puts on file only what rests on what was there before
(`InOrder`): an inviter takes what it had offered, an accepter holds what the inviter had
taken. Those are the two actions of `Invitation`, and the rest of a step is a stutter.
`Once` also says of each entry that was filled in that its keys met over one invite
(`PairsInvited`), so that the key a peer dials with names one entry, and `peer_by_key`, which
takes the first, takes the right one (`PeerKeysApart`).

That answers cannot be mixed up (`OneExchange`) rests on three things: a command's key is
its own (`TasksApart`), it dials an address once, and what it has dialled turns into one
answer or is lost. `ConnectionLost_Retried`, which dials again, breaks it.

The argument for restarting. `check` and `Daemon::start` ask more of a file than that its
keys are apart: aliases and names are distinct, what a peer was reached on is an address
of ours, and there is one. Each handler makes such a net of such a net (`Acceptable`),
checked or not, because it looks before it pushes and every address that is bound is
listed (`BoundListed`). Only `accept` pushes long after it has looked; while no other
command uses its alias that alias stays free (`AliasesReserved`).

The argument for registration. Each live entry has the connection that wrote it, still
held. The end of *another* connection of the same name only removes the entry, which
is exactly the fault of `registration_again`, and why `ConnectedIsLive` fails while
`LiveIsHeld` holds. `MissingOnlyByDeparture` says that this is all there is to that fault:
whatever else happens, a crash of the parent aside, an entry stays as long as a connection
that can bring its hints is held. It needs one more fact, that a connection which a
process has open and the parent still reads carries the hints that process serves with.

The argument for resolution. No key is an address of two sirjis (`KeysApart`); a device
knows only addresses of its parent, retired or not (`ParentsKnown`); a question at a
sirji is somebody's it is acquainted with (`AskersAcquainted`); so a ticket signed with
a sirji's key says the truth about its caller (`TicketsVouched`), and one that verifies
at a device was signed by that device's own parent. That the ticket opens the device needs
the reverse, that the device knows who signs: what was the first current address when it
enrolled is in its config, and no address before that one is current ever again
(`FirstIsKnown`); while it is not retired, it is the one that signs. For `Admission` one thing must not change: which sirji a ticket's issuer belongs to. An
address belongs to one sirji for good, retired or not (`KeysApart`, and no address is ever
taken off the list), so what was vouched for stays vouched for by the same sirji.

The argument for rotation. Who has been heard from arrived last on an address it holds,
and `reached_on` names that address in memory and on file, even after a save that failed
(`HeardIsOnFile`); `drained` never frees what a `reached_on` names (`ReachedIsKept`). A
contact that has not been heard from has no such entry, which is `rotation_drained`. A
dial gives no bound address up before it has dialled it (`SearchGoesOn`), unless it was
disturbed, in which case `spoilt` says so.

The argument for a home. As long as processes have been alone, the home is `Orderly`: one
process runs (`OneRuns`); what is in memory and what is on file are both sound nets: they name
a handshake key, each key they name has its secret, they have what was answered for and nothing
that was forgotten (`MemoryIsSound`, `FileIsSound`); and the file beside is what that process
truncated or wrote (`SaveIsInOrder`), so a rename makes memory the file. What was left beside by
a dead process is never read.
For `SavedHome` a rename must in addition take nothing off the file that is in memory
(`MemoryIsAhead`): only the operator does, when no daemon runs.

Where processes share a home nearly all of this fails. What remains is `NetsAreUsable`, the part of
`IInv` that is not guarded by `alone`: every whole net, in either file or in a memory, names a
handshake key, and every handshake key it names has its secret, because a key's file is written
before its entry and never removed while it is named. So a shared home may lose edits and may
have a torn file, which is the extent of `home_shared`, but a file that is whole starts a daemon.
`Fails_TakesBack`, which removes the key's file again when the save that was to name it fails,
is harmless to a process that is alone and breaks this where there are two.

Each `IInv`, `Once`, `Restarts` and `Answering` is checked by TLC as well.

How the proofs are written bears on what they are worth. Two fields of a record in a function
are updated as `[f EXCEPT ![x] = [f[x] EXCEPT !.a = .., !.b = ..]]`, and not with two
`![x]` clauses or with `@` inside `@`: version 1.4.5 of the prover translates
`[f EXCEPT ![x].a = .., ![x].b = ..]` for its SMT solver as two statements about all of
`f'[x]`, which contradict one another, so that anything follows. As a check on the rest, the
hypotheses of every SMT query of these proofs were given to the solver without the goal, for two or
three seconds each. Most ran out of time, so this finds a contradiction only where it is easy;
those that were refuted were looked at, and each is a step that is a contradiction, or is vacuous,
by its own words (a `CASE` that cannot be, `PROVE FALSE`, an initial state with nothing in it).

Left to TLC: the liveness properties (`CommandsEnd`, `DepartedIsForgotten`,
`ServingIsConnected`), which are out of the prover's reach. Every invariant that a run
checks is proved.

## What is not modelled

- How a dial finds its way: relays, mDNS and DNS discovery. A dial succeeds where the key
  is bound, or fails; remembered sockets are in `Rotation`.
- The machine's crash: a rename is one step and lasts, though nothing is flushed.
- Several keys under one device name, and ids in upper case, which only an edit makes.
- Forged tickets and dishonest peers; the bytes that are signed.
- `t-sirji-fs` after admission: listing, reading, the path check. These read, and keep
  nothing.
- id52, settings, the probes of `doctor`, the CLI's rendering: pure or sequential.

## Plan

Done: `KnownNet`, `Pairing`, `Registration`, `Resolution`, with their first theorems;
`Rotation` and `Home` with their proofs; the abstract specifications `Invitation`,
`SavedHome` and `Admission`, and the proofs that `Pairing`, `Home` and `Resolution`
implement them. Left:

1. `NetCheck`: `check` as the loop it is, with its early exits, against its reference
   definition, over ids in both spellings.
2. `Pairing` composed with `Registration`, for devices that enrolled with the wrong invite.
3. `Fs`: `handle` after admission and the path check of `Config::resolve`.
