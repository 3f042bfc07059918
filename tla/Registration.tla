---------------------------- MODULE Registration ----------------------------
(***************************************************************************)
(* Which devices are live (sirji/src/daemon.rs: serve_peer's device path,  *)
(* register_device, hold, ask_as_device; t-sirji-fs: register, serve).     *)
(*                                                                         *)
(* A device that serves holds a connection to its parent, and on it tells  *)
(* where it listens.  The parent keeps a table of live devices, by name:   *)
(* an entry is written when such a connection has been greeted and removed *)
(* when it ends.  A device home also dials the parent to ask for something *)
(* (`t-sirji-fs ls name@peer`), as the same device and with the same       *)
(* greeting, but with nowhere to be reached.                               *)
(*                                                                         *)
(* A connection has two ends, and each learns that the other is gone, or   *)
(* that the network between them is, in its own time.                      *)
(*                                                                         *)
(* Nothing keeps a home to one `serve`: each process that runs one has its  *)
(* own endpoint, its own loop and its own connection, as the same device.   *)
(*                                                                         *)
(* One parent, and devices it has enrolled: what EnrolledImpliesKnown of   *)
(* Pairing says of a device that has its config.  An enrolled device has   *)
(* one key, so it is known by its name here.                               *)
(***************************************************************************)
EXTENDS Naturals

CONSTANTS
    Name,        \* the enrolled devices
    Process,     \* the processes that `t-sirji-fs serve` can run in
    Conn,        \* slots for connections to the parent
    Hint,        \* where a serving device listens, anew at each start
    NoHints,     \* the empty list an asking device sends
    None,        \* no connection, no process, no entry
    AskConn,     \* those of the slots that device homes ask on
    MaxFaults    \* bound on crashes, kills and cuts

ASSUME NoHintsIsNoHint == NoHints \notin Hint
ASSUME NoneIsNoHint == None \notin Hint \cup {NoHints}
ASSUME AskIsNoProcess == "ask" \notin Process
ASSUME AskConnsAreConns == AskConn \subseteq Conn
ASSUME MaxFaultsIsNatural == MaxFaults \in Nat

VARIABLES
    up,       \* the parent's daemon is running
    live,     \* Daemon.live: where each live device listens
    serving,  \* serving[p]: the device p serves, and where it listens
    conn,     \* conn[c]: a connection to the parent
    faults    \* counts faults, up to MaxFaults

vars == <<up, live, serving, conn, faults>>

Listener == [home : Name, hints : Hint]

(* `parent` and `client` say how far each end has come: the parent has yet  *)
(* to answer the greeting, has answered it, counts the device as live, or   *)
(* is through with the connection.                                          *)
Connection == [name   : Name,
               by     : Process \cup {"ask"},
               hints  : Hint \cup {NoHints},
               parent : {"greeting", "welcomed", "held", "gone"},
               client : {"open", "gone"},
               cut    : BOOLEAN]

ASSUME NoneIsNoRecord == None \notin Connection \cup Listener

TypeOK ==
    /\ up \in BOOLEAN
    /\ live \in [Name -> Hint \cup {NoHints, None}]
    /\ serving \in [Process -> Listener \cup {None}]
    /\ conn \in [Conn -> Connection \cup {None}]
    /\ faults \in 0 .. MaxFaults

-----------------------------------------------------------------------------
Open == {c \in Conn : conn[c] # None}

(* A slot is free again once both ends are through. *)
ParentLeaves(k) == IF k.client = "gone" THEN None ELSE [k EXCEPT !.parent = "gone"]
ClientLeaves(k) == IF k.parent = "gone" THEN None ELSE [k EXCEPT !.client = "gone"]

Fault == faults < MaxFaults /\ faults' = faults + 1

Dials(d, c, by, hints) ==
    /\ up
    /\ conn[c] = None
    /\ conn' = [conn EXCEPT ![c] =
                   [name |-> d, by |-> by, hints |-> hints, parent |-> "greeting",
                    client |-> "open", cut |-> FALSE]]

-----------------------------------------------------------------------------
(* The device *)

(* Each process has a socket of its own. *)
ServeStarts(p, d, hints) ==
    /\ serving[p] = None
    /\ \A q \in Process : serving[q] # None => serving[q].hints # hints
    /\ serving' = [serving EXCEPT ![p] = [home |-> d, hints |-> hints]]
    /\ UNCHANGED <<up, live, conn, faults>>

Holds(p, c) == c \in Open /\ conn[c].by = p /\ conn[c].client = "open"

(* The loop of `register` has no connection: it slept, and dials again. *)
RegisterDials(p, c) ==
    /\ serving[p] # None
    /\ \A e \in Conn : ~Holds(p, e)
    /\ c \notin AskConn
    /\ Dials(serving[p].home, c, p, serving[p].hints)
    /\ UNCHANGED <<up, live, serving, faults>>

(* For mutation: only a close that arrives ends a registration.             *)
RegistrationEnds_Told(c) ==
    /\ \E p \in Process : Holds(p, c)
    /\ conn[c].parent = "gone" /\ ~conn[c].cut
    /\ conn' = [conn EXCEPT ![c] = ClientLeaves(@)]
    /\ UNCHANGED <<up, live, serving, faults>>

(* hold returns: the parent closed, or nothing has come for too long. *)
RegistrationEnds(c) ==
    /\ \E p \in Process : Holds(p, c)
    /\ conn[c].parent = "gone" \/ conn[c].cut
    /\ conn' = [conn EXCEPT ![c] = ClientLeaves(@)]
    /\ UNCHANGED <<up, live, serving, faults>>

(* The process is killed; the parent is not told. *)
ServeKilled(p) ==
    /\ serving[p] # None
    /\ Fault
    /\ serving' = [serving EXCEPT ![p] = None]
    /\ conn' = [c \in Conn |-> IF Holds(p, c) THEN ClientLeaves(conn[c]) ELSE conn[c]]
    /\ UNCHANGED <<up, live>>

(* For mutation: the field for the hints is left out.                       *)
AskDials_Bare(d, c) ==
    /\ c \in AskConn
    /\ Dials(d, c, "ask", None)
    /\ UNCHANGED <<up, live, serving, faults>>

(* ask_as_device: greeting and question go out together, the answer is      *)
(* awaited, and then, or when none comes, the connection is closed.         *)
AskDials(d, c) ==
    /\ c \in AskConn
    /\ Dials(d, c, "ask", NoHints)
    /\ UNCHANGED <<up, live, serving, faults>>

AskEnds(c) ==
    /\ Holds("ask", c)
    /\ conn' = [conn EXCEPT ![c] = ClientLeaves(@)]
    /\ UNCHANGED <<up, live, serving, faults>>

-----------------------------------------------------------------------------
(* The parent: serve_peer, from the greeting of a known device *)

(* For mutation: only a close that arrives ends a connection.               *)
Ended_Told(c) == conn[c].client = "gone" /\ ~conn[c].cut

(* What ends the read in serve_asks: the end of the stream, or an error. *)
Ended(c) == conn[c].client = "gone" \/ conn[c].cut

Welcomes(c) ==
    /\ up
    /\ c \in Open
    /\ conn[c].parent = "greeting"
    /\ conn' = [conn EXCEPT ![c].parent = "welcomed"]
    /\ UNCHANGED <<up, live, serving, faults>>

(* The greeting never comes, or the answer cannot be written. *)
WelcomeFails(c) ==
    /\ up
    /\ c \in Open
    /\ conn[c].parent = "greeting"
    /\ Ended(c)
    /\ conn' = [conn EXCEPT ![c] = ParentLeaves(@)]
    /\ UNCHANGED <<up, live, serving, faults>>

(* For mutation: a device that is live keeps the entry it has.              *)
Registers_Once(c) ==
    /\ up
    /\ c \in Open
    /\ conn[c].parent = "welcomed"
    /\ live' = [live EXCEPT ![conn[c].name] = IF @ = None THEN conn[c].hints ELSE @]
    /\ conn' = [conn EXCEPT ![c].parent = "held"]
    /\ UNCHANGED <<up, serving, faults>>

Registers(c) ==
    /\ up
    /\ c \in Open
    /\ conn[c].parent = "welcomed"
    /\ live' = [live EXCEPT ![conn[c].name] = conn[c].hints]
    /\ conn' = [conn EXCEPT ![c].parent = "held"]
    /\ UNCHANGED <<up, serving, faults>>

(* For mutation: the entry stays when the connection goes.                  *)
Departs_Kept(c) ==
    /\ up
    /\ c \in Open
    /\ conn[c].parent = "held"
    /\ Ended(c)
    /\ conn' = [conn EXCEPT ![c] = ParentLeaves(@)]
    /\ UNCHANGED <<up, live, serving, faults>>

(* serve_asks returns, and the name is removed, whoever wrote its entry. *)
Departs(c) ==
    /\ up
    /\ c \in Open
    /\ conn[c].parent = "held"
    /\ Ended(c)
    /\ live' = [live EXCEPT ![conn[c].name] = None]
    /\ conn' = [conn EXCEPT ![c] = ParentLeaves(@)]
    /\ UNCHANGED <<up, serving, faults>>

-----------------------------------------------------------------------------
(* Faults *)

Cut(c) ==
    /\ c \in Open
    /\ ~conn[c].cut
    /\ Fault
    /\ conn' = [conn EXCEPT ![c].cut = TRUE]
    /\ UNCHANGED <<up, live, serving>>

(* The table of live devices is in memory only. *)
Crash ==
    /\ up
    /\ Fault
    /\ up' = FALSE
    /\ live' = [d \in Name |-> None]
    /\ conn' = [c \in Conn |-> IF c \in Open THEN ParentLeaves(conn[c]) ELSE None]
    /\ UNCHANGED serving

Start ==
    /\ ~up
    /\ up' = TRUE
    /\ UNCHANGED <<live, serving, conn, faults>>

-----------------------------------------------------------------------------
Init ==
    /\ up = FALSE
    /\ live = [d \in Name |-> None]
    /\ serving = [p \in Process |-> None]
    /\ conn = [c \in Conn |-> None]
    /\ faults = 0

Serve(c) == Welcomes(c) \/ WelcomeFails(c) \/ Registers(c) \/ Departs(c)

Next ==
    \/ \E p \in Process : \/ \E d \in Name, hints \in Hint : ServeStarts(p, d, hints)
                          \/ \E c \in Conn : RegisterDials(p, c)
                          \/ ServeKilled(p)
    \/ \E d \in Name, c \in Conn : AskDials(d, c)
    \/ \E c \in Conn : RegistrationEnds(c) \/ AskEnds(c) \/ Serve(c) \/ Cut(c)
    \/ Crash
    \/ Start

Spec == Init /\ [][Next]_vars

(* The parent's tasks run; both ends time an idle connection out; `register`*)
(* dials again whenever it has slept; an `ls` does not wait for ever.       *)
(* Nobody is obliged to start or restart anything.                          *)
FairSpec ==
    /\ Spec
    /\ \A c \in Conn : /\ WF_vars(Serve(c))
                       /\ WF_vars(RegistrationEnds(c))
                       /\ WF_vars(AskEnds(c))
    /\ \A p \in Process : WF_vars(\E c \in Conn : RegisterDials(p, c))

-----------------------------------------------------------------------------
(* Properties *)

Held(c, d) == c \in Open /\ conn[c].name = d /\ conn[c].parent = "held"

(* An entry is never left behind: whoever is live, the connection that told *)
(* the parent so, with these hints, is one the parent still reads from      *)
(* (serve_peer).                                                            *)
LiveIsHeld ==
    \A d \in Name : live[d] # None => \E c \in Conn : Held(c, d) /\ conn[c].hints = live[d]

Away(d) ==
    /\ \A p \in Process : serving[p] # None => serving[p].home # d
    /\ \A c \in Open : conn[c].name = d => conn[c].client = "gone"

(* A device that is gone for good is not live for good: whatever became of  *)
(* its connections, the parent comes to know (serve_peer: "nobody timing    *)
(* anything out").                                                          *)
DepartedIsForgotten == \A d \in Name : <>[]Away(d) => <>[](live[d] = None)

Registered(p, c) ==
    /\ serving[p] # None
    /\ Held(c, serving[p].home) /\ ~conn[c].cut
    /\ Holds(p, c)
    /\ conn[c].hints = serving[p].hints

Reaches(p) == \E c \in Conn : Registered(p, c)

(* While the parent is up and a device serves, in however many processes,   *)
(* each of them is in the end connected, and has said where it listens now  *)
(* (register, hold).                                                        *)
ServingIsConnected ==
    \A p \in Process : <>[](up /\ serving[p] # None) => <>[]Reaches(p)

(* How far the parent is from that: once one has registered, the device is  *)
(* live where that one listens, and as long as it is connected only the end *)
(* of another connection of the same device takes the device out of the     *)
(* table (serve_peer: insert, remove).                                      *)
MissingOnlyByDeparture ==
    [][\A p \in Process, d \in Name : (Reaches(p) /\ serving[p].home = d)' =>
          /\ ~Reaches(p) => live'[d] = serving'[p].hints
          /\ Reaches(p) /\ live[d] # None /\ live'[d] = None =>
                \E c \in Conn : Held(c, d) /\ Ended(c) /\ ~Held(c, d)']_vars

(* "While it is open the parent counts this device as live": a connection   *)
(* that both ends hold is a registration (register_device, Daemon::live).   *)
ConnectedIsLive ==
    \A p \in Process : Reaches(p) => live[serving[p].home] # None
=============================================================================
