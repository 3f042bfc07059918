-------------------------------- MODULE Home --------------------------------
(***************************************************************************)
(* A home directory, and the programs that run in it, one system call at a *)
(* time (sirji/src/daemon.rs: init, start, serve_control; config.rs: load, *)
(* save; keystore.rs: insert; doctor.rs: check_home, check_keys).          *)
(*                                                                         *)
(* `sirji init` makes a key and network.toml.  The daemon reads that file  *)
(* when it starts, replaces the control socket, and writes the whole of    *)
(* its net, as it has it in memory, after each change: to a file beside,   *)
(* which is truncated first and renamed last.  Any of them may be killed   *)
(* between two calls, and any write may fail.  The operator forgets peers  *)
(* by hand, and runs `sirji doctor` at any time.                           *)
(*                                                                         *)
(* A net is the set of the keys it names.  `Torn` is a file with less in   *)
(* it than was to be written: nothing, at first, which parses as an empty  *)
(* net, so that no daemon starts from it.  Directories are not flushed and *)
(* need not be: a process dies here, not the machine.                      *)
(***************************************************************************)
CONSTANTS
    Process,    \* runs of `sirji init` and `sirji daemon`
    Key,        \* keys that get made
    Handshake,  \* those that are, or are to be, handshake keys
    Torn,       \* the contents of a file that is not written to its end
    None        \* no file, no process, no key

ASSUME HandshakeKeysAreKeys == Handshake \subseteq Key

VARIABLES
    toml,     \* network.toml
    tmp,      \* network.toml.tmp
    store,    \* store[k]: the file of a key
    socket,   \* whose listener sirji.sock leads to, who may be dead
    proc,     \* proc[p]: a process
    doctor,   \* the keys a `sirji doctor` has still to look at
    acked,    \* keys whose `init` or command was answered (a history)
    forgot,   \* keys the operator removed (a history)
    failed,   \* checks of `sirji doctor` that said FAIL (a history)
    alone     \* so far no process was started, and no edit made, beside one
              \* that ran (a history)

vars == <<toml, tmp, store, socket, proc, doctor, acked, forgot, failed, alone>>

-----------------------------------------------------------------------------
(* Types *)

File == {Torn, None} \cup SUBSET Key

Whole(file) == file \notin {Torn, None}

(* `net` is Daemon.net.  `job` is the call the handler that holds its lock  *)
(* is at, `key` the one it makes.  `fd` says what has become of the file it *)
(* opened: it is network.toml.tmp, or was renamed, or replaced since.       *)
Run == [prog : {"init", "daemon"},
        ctl  : {"unlink", "bind", "listening"},
        net  : SUBSET Key,
        job  : {"idle", "mint", "open", "write", "rename"},
        key  : Key \cup {None},
        fd   : {"none", "tmp", "toml", "gone"}]

ASSUME NoneIsNoValue ==
    /\ None \notin Key \cup Process
    /\ Torn # None
    /\ \A S \in SUBSET Key : S # None /\ S # Torn
    /\ \A r \in Run : r # None

TypeOK ==
    /\ toml \in File
    /\ tmp \in File
    /\ store \in [Key -> {"absent", "partial", "whole", "deleted"}]
    /\ socket \in Process \cup {None}
    /\ proc \in [Process -> Run \cup {None}]
    /\ doctor \in SUBSET Handshake
    /\ acked \in SUBSET Key
    /\ forgot \in SUBSET Key
    /\ failed \in SUBSET {"home", "keys"}
    /\ alone \in BOOLEAN

-----------------------------------------------------------------------------
Runs(p) == proc[p] # None

Nobody == \A p \in Process : ~Runs(p)

Readable(k) == store[k] = "whole"

Idle(p) == Runs(p) /\ proc[p].prog = "daemon" /\ proc[p].job = "idle"

At(p, job) == Runs(p) /\ proc[p].job = job

(* A handler that is through, with or without success, lets the lock go;    *)
(* `init` ends.                                                             *)
Done(r) == IF r.prog = "init" THEN None ELSE [r EXCEPT !.job = "idle", !.key = None, !.fd = "none"]

-----------------------------------------------------------------------------
(* `sirji init` and `sirji daemon` *)

(* Nobody runs it twice at once. *)
InitStarts(p, k) ==
    /\ Nobody
    /\ toml = None
    /\ k \in Handshake /\ store[k] = "absent"
    /\ store' = [store EXCEPT ![k] = "partial"]
    /\ proc' = [proc EXCEPT ![p] = [prog |-> "init", ctl |-> "unlink", net |-> {}, job |-> "mint",
                                    key |-> k, fd |-> "none"]]
    /\ UNCHANGED <<toml, tmp, socket, doctor, acked, forgot, failed, alone>>

(* The file parses, and there is a handshake key and each one's secret. The *)
(* keys of peers are not looked at.                                         *)
Startable ==
    /\ Whole(toml)
    /\ toml \cap Handshake # {}
    /\ \A k \in toml \cap Handshake : Readable(k)

(* For mutation: a save that was interrupted is taken up again.             *)
DaemonStarts_Resumes(p) ==
    /\ ~Runs(p)
    /\ Startable
    /\ proc' = [proc EXCEPT ![p] = [prog |-> "daemon", ctl |-> "unlink",
                                    net |-> IF Whole(tmp) THEN tmp ELSE toml,
                                    job |-> "idle", key |-> None, fd |-> "none"]]
    /\ alone' = (alone /\ Nobody)
    /\ UNCHANGED <<toml, tmp, store, socket, doctor, acked, forgot, failed>>

DaemonStarts(p) ==
    /\ ~Runs(p)
    /\ Startable
    /\ proc' = [proc EXCEPT ![p] = [prog |-> "daemon", ctl |-> "unlink", net |-> toml,
                                    job |-> "idle", key |-> None, fd |-> "none"]]
    /\ alone' = (alone /\ Nobody)
    /\ UNCHANGED <<toml, tmp, store, socket, doctor, acked, forgot, failed>>

(* Whoever's socket it is. *)
Unlink(p) ==
    /\ Runs(p) /\ proc[p].prog = "daemon" /\ proc[p].ctl = "unlink"
    /\ socket' = None
    /\ proc' = [proc EXCEPT ![p].ctl = "bind"]
    /\ UNCHANGED <<toml, tmp, store, doctor, acked, forgot, failed, alone>>

(* Where there is one again, the bind fails and the daemon ends. *)
Bind(p) ==
    /\ Runs(p) /\ proc[p].ctl = "bind"
    /\ IF socket = None
       THEN socket' = p /\ proc' = [proc EXCEPT ![p].ctl = "listening"]
       ELSE UNCHANGED socket /\ proc' = [proc EXCEPT ![p] = None]
    /\ UNCHANGED <<toml, tmp, store, doctor, acked, forgot, failed, alone>>

(* The socket's file stays. *)
Killed(p) ==
    /\ Runs(p)
    /\ proc' = [proc EXCEPT ![p] = None]
    /\ UNCHANGED <<toml, tmp, store, socket, doctor, acked, forgot, failed, alone>>

-----------------------------------------------------------------------------
(* Handlers: one at a time in a daemon, which saves under its net's lock.   *)

(* A command that makes a key reaches the daemon the socket leads to.       *)
Command(p, k) ==
    /\ Idle(p) /\ proc[p].ctl = "listening" /\ socket = p
    /\ store[k] = "absent"
    /\ store' = [store EXCEPT ![k] = "partial"]
    /\ proc' = [proc EXCEPT ![p] = [proc[p] EXCEPT !.job = "mint", !.key = k]]
    /\ UNCHANGED <<toml, tmp, socket, doctor, acked, forgot, failed, alone>>

(* A greeting changes no keys, and is saved.  Peers are served from the     *)
(* start, with or without a control socket.                                 *)
Greeted(p) ==
    /\ Idle(p)
    /\ proc' = [proc EXCEPT ![p].job = "open"]
    /\ UNCHANGED <<toml, tmp, store, socket, doctor, acked, forgot, failed, alone>>

(* For mutation: a key's file is written when its entry has been.           *)
Minted_Later(p) ==
    /\ At(p, "mint")
    /\ proc' = [proc EXCEPT ![p] = [proc[p] EXCEPT !.net = @ \cup {proc[p].key}, !.job = "open"]]
    /\ UNCHANGED <<toml, tmp, store, socket, doctor, acked, forgot, failed, alone>>

(* The key's file is whole, and the entry that names it in memory. *)
Minted(p) ==
    /\ At(p, "mint")
    /\ store' = [store EXCEPT ![proc[p].key] = "whole"]
    /\ proc' = [proc EXCEPT ![p] = [proc[p] EXCEPT !.net = @ \cup {proc[p].key}, !.job = "open"]]
    /\ UNCHANGED <<toml, tmp, socket, doctor, acked, forgot, failed, alone>>

-----------------------------------------------------------------------------
(* `save`, and `init`'s too: truncate, write, rename. *)

(* For mutation: network.toml itself is truncated and written.              *)
Truncate_InPlace(p) ==
    /\ At(p, "open")
    /\ toml' = Torn
    /\ tmp' = Torn
    /\ proc' = [proc EXCEPT ![p] = [proc[p] EXCEPT !.job = "write", !.fd = "toml"]]
    /\ UNCHANGED <<store, socket, doctor, acked, forgot, failed, alone>>

Truncate(p) ==
    /\ At(p, "open")
    /\ tmp' = Torn
    /\ proc' = [proc EXCEPT ![p] = [proc[p] EXCEPT !.job = "write", !.fd = "tmp"]]
    /\ UNCHANGED <<toml, store, socket, doctor, acked, forgot, failed, alone>>

(* Written over what another process wrote to the same file since it was    *)
(* truncated, it may leave the end of that.                                 *)
Over(old, new) == IF old \in {Torn, new} THEN {new} ELSE {new, Torn}

(* For mutation: the answer is sent before the file is renamed.             *)
Write_Answers(p) ==
    /\ At(p, "write")
    /\ tmp' = proc[p].net
    /\ acked' = acked \cup ({proc[p].key} \ {None})
    /\ proc' = [proc EXCEPT ![p] = [proc[p] EXCEPT !.job = "rename", !.fd = "none"]]
    /\ UNCHANGED <<toml, store, socket, doctor, forgot, failed, alone>>

Write(p) ==
    /\ At(p, "write")
    /\ IF proc[p].fd = "tmp" THEN tmp' \in Over(tmp, proc[p].net) ELSE UNCHANGED tmp
    /\ IF proc[p].fd = "toml" THEN toml' \in Over(toml, proc[p].net) ELSE UNCHANGED toml
    /\ proc' = [proc EXCEPT ![p] = [proc[p] EXCEPT !.job = "rename", !.fd = "none"]]
    /\ UNCHANGED <<store, socket, doctor, acked, forgot, failed, alone>>

(* Where an open file is, when network.toml.tmp becomes network.toml.       *)
Moved(fd) == CASE fd = "tmp" -> "toml" [] fd = "toml" -> "gone" [] OTHER -> fd

(* It takes the file that has the name by now, and the answer is sent.      *)
Rename(p) ==
    /\ At(p, "rename") /\ tmp # None
    /\ toml' = tmp
    /\ tmp' = None
    /\ acked' = acked \cup ({proc[p].key} \ {None})
    /\ proc' = [q \in Process |->
                   IF q = p THEN Done(proc[p])
                   ELSE IF Runs(q) THEN [proc[q] EXCEPT !.fd = Moved(@)] ELSE None]
    /\ UNCHANGED <<store, socket, doctor, forgot, failed, alone>>

(* For mutation: a command whose save fails takes its key back, in memory   *)
(* and in the store.                                                        *)
Fails_TakesBack(p) ==
    /\ Runs(p) /\ proc[p].job # "idle"
    /\ proc' = [proc EXCEPT ![p] = IF proc[p].prog = "init" THEN None
                                   ELSE [Done(proc[p]) EXCEPT !.net = proc[p].net \ {proc[p].key}]]
    /\ store' = [k \in Key |-> IF k = proc[p].key THEN "deleted" ELSE store[k]]
    /\ UNCHANGED <<toml, tmp, socket, doctor, acked, forgot, failed, alone>>

(* A call fails: nothing is undone, neither in memory nor on disk.          *)
Fails(p) ==
    /\ Runs(p) /\ proc[p].job # "idle"
    /\ proc' = [proc EXCEPT ![p] = Done(@)]
    /\ UNCHANGED <<toml, tmp, store, socket, doctor, acked, forgot, failed, alone>>

-----------------------------------------------------------------------------
(* The operator *)

(* "deleting that file and its [[peer]] entry". *)
Forget(k) ==
    /\ doctor = {}
    /\ Whole(toml) /\ k \in toml \ Handshake
    /\ toml' = toml \ {k}
    /\ store' = [store EXCEPT ![k] = "deleted"]
    /\ forgot' = forgot \cup {k}
    /\ alone' = (alone /\ Nobody)
    /\ UNCHANGED <<tmp, socket, proc, doctor, acked, failed>>

(* `sirji doctor`, once there is a file: check_home reads it, ... *)
DoctorChecksHome ==
    /\ doctor = {} /\ toml # None
    /\ failed' = IF toml = Torn THEN failed \cup {"home"} ELSE failed
    /\ UNCHANGED <<toml, tmp, store, socket, proc, doctor, acked, forgot, alone>>

(* ... and check_keys reads it again and, one by one, the secrets of its    *)
(* handshake keys.                                                          *)
DoctorListsKeys ==
    /\ doctor = {} /\ Whole(toml)
    /\ doctor' = toml \cap Handshake
    /\ UNCHANGED <<toml, tmp, store, socket, proc, acked, forgot, failed, alone>>

DoctorChecksKey(k) ==
    /\ k \in doctor
    /\ doctor' = doctor \ {k}
    /\ failed' = IF Readable(k) THEN failed ELSE failed \cup {"keys"}
    /\ UNCHANGED <<toml, tmp, store, socket, proc, acked, forgot, alone>>

-----------------------------------------------------------------------------
Init ==
    /\ toml = None
    /\ tmp = None
    /\ store = [k \in Key |-> "absent"]
    /\ socket = None
    /\ proc = [p \in Process |-> None]
    /\ doctor = {}
    /\ acked = {}
    /\ forgot = {}
    /\ failed = {}
    /\ alone = TRUE

Daemon(p) == DaemonStarts(p) \/ Unlink(p) \/ Bind(p) \/ Greeted(p) \/ \E k \in Key : Command(p, k)

Works(p) == Minted(p) \/ Truncate(p) \/ Write(p) \/ Rename(p) \/ Fails(p)

Doctor == DoctorChecksHome \/ DoctorListsKeys \/ \E k \in Key : DoctorChecksKey(k)

Next ==
    \/ \E p \in Process : Daemon(p) \/ Works(p) \/ Killed(p) \/ \E k \in Key : InitStarts(p, k)
    \/ \E k \in Key : Forget(k)
    \/ Doctor

Spec == Init /\ [][Next]_vars

-----------------------------------------------------------------------------
(* Properties *)

(* The file is never seen half-written (save).                              *)
FileIsWhole == toml # Torn

(* A file that is whole is one a daemon starts from, even where daemons     *)
(* share the home and edits are lost: of its handshake keys there is one at *)
(* least, and each has its secret (save, the order of insert and save).     *)
WholeIsStartable == Whole(toml) => Startable

(* Wherever everything stopped, the next command works: there is no file    *)
(* and `init` makes one, or the daemon can start from it (init, save, the   *)
(* order of insert and save).                                               *)
NeverStuck == alone /\ Nobody => toml = None \/ Startable

(* What a command was answered for is on file, and its secret readable,     *)
(* whatever died or failed since, until it is forgotten.                    *)
AnsweredIsKept ==
    alone /\ acked # {} => /\ Whole(toml)
                           /\ acked \ forgot \subseteq {k \in toml : Readable(k)}

(* What the operator removed does not come back, from a daemon's memory or  *)
(* from a file that was left beside.                                        *)
ForgottenIsGone == alone /\ Whole(toml) => toml \cap forgot = {}

(* `sirji doctor` finds nothing wrong with a home that nobody harmed, even  *)
(* when commands run, or died, meanwhile (check_home, check_keys).          *)
DoctorIsCalm == alone => failed = {}

-----------------------------------------------------------------------------
(* The inductive invariant behind WholeIsStartable, whoever else runs.      *)

(* A net a daemon can start from. *)
Usable(net) ==
    /\ net \cap Handshake # {}
    /\ \A k \in net \cap Handshake : Readable(k)

(* So is every net that is, or may come to be, in a file. *)
NetsAreUsable ==
    /\ \A file \in {toml, tmp} : Whole(file) => Usable(file)
    /\ \A p \in Process : Runs(p) =>
          /\ proc[p].job = "mint" => proc[p].key \in Key
          /\ proc[p].prog = "init" /\ proc[p].job = "mint" => /\ proc[p].key \in Handshake
                                                             /\ proc[p].net = {}
          /\ proc[p].prog = "daemon" \/ proc[p].job # "mint" => Usable(proc[p].net)

-----------------------------------------------------------------------------
(* The inductive invariant behind the rest, where a process is alone. *)

(* A net that may become the file. *)
Sound(net) ==
    /\ net \cap Handshake # {}
    /\ \A k \in net : Readable(k)
    /\ acked \ forgot \subseteq net
    /\ net \cap forgot = {}

OneRuns == \A p, q \in Process : Runs(p) /\ Runs(q) => p = q

FileIsSound ==
    /\ FileIsWhole
    /\ toml = None => acked = {}
    /\ toml # None => Sound(toml)

(* `init` has no net before its key is whole. *)
MemoryIsSound ==
    \A p \in Process : Runs(p) =>
        /\ proc[p].prog = "init" => proc[p].job # "idle" /\ toml = None
        /\ proc[p].prog = "daemon" => toml # None
        /\ proc[p].job = "mint" => /\ proc[p].key \in Key \ forgot
                                   /\ store[proc[p].key] = "partial"
        /\ proc[p].prog = "init" /\ proc[p].job = "mint" => /\ proc[p].key \in Handshake
                                                           /\ proc[p].net = {}
        /\ proc[p].prog = "daemon" \/ proc[p].job # "mint" => Sound(proc[p].net)

SaveIsInOrder ==
    \A p \in Process : Runs(p) =>
        /\ proc[p].job = "idle" => proc[p].key = None
        /\ proc[p].job = "write" => proc[p].fd = "tmp" /\ tmp = Torn
        /\ proc[p].job = "rename" => tmp = proc[p].net
        /\ proc[p].job \in {"open", "write", "rename"} /\ proc[p].key # None =>
              proc[p].key \in proc[p].net

(* Only the operator takes a key from the file, and no daemon runs then.    *)
MemoryIsAhead ==
    \A p \in Process : Runs(p) /\ proc[p].prog = "daemon" => toml \subseteq proc[p].net

ForgottenIsDeleted == \A k \in forgot : store[k] = "deleted"

DoctorReads == failed = {} /\ \A k \in doctor : Readable(k)

Orderly ==
    /\ TypeOK
    /\ OneRuns
    /\ FileIsSound
    /\ MemoryIsSound
    /\ SaveIsInOrder
    /\ MemoryIsAhead
    /\ ForgottenIsDeleted
    /\ DoctorReads

IInv == TypeOK /\ NetsAreUsable /\ (alone => Orderly)
=============================================================================
