------------------------- MODULE RegistrationProofs -------------------------
(***************************************************************************)
(* Theorems about Registration, for any devices, connections and faults.   *)
(*                                                                         *)
(* Every step of a connection gives it a record of its type or frees its   *)
(* slot, and that is all there is to TypeOK.  LiveIsHeld is inductive as   *)
(* it stands: a step either keeps every held connection held, with its     *)
(* name and hints, or takes the name it had out of the table.  So is       *)
(* HoldsAsServed: a process starts to serve with no connection, and none   *)
(* outlives it.  With it a device's entry is followed from the step that   *)
(* writes it to the step that removes it.                                  *)
(***************************************************************************)
EXTENDS Registration, TLAPS

(* A connection an end has left is one of the other end, or none. *)
LEMMA LeavesTyped ==
    ASSUME NEW k \in Connection
    PROVE  /\ ParentLeaves(k) \in Connection \cup {None}
           /\ ClientLeaves(k) \in Connection \cup {None}
  BY DEF ParentLeaves, ClientLeaves, Connection

(* A connection that is open is a record. *)
LEMMA OpenTyped ==
    ASSUME TypeOK, NEW c \in Open
    PROVE  c \in Conn /\ conn[c] \in Connection
<1>1. c \in Conn /\ conn[c] # None
      BY DEF Open
<1>2. conn[c] \in Connection \cup {None}
      BY <1>1 DEF TypeOK
<1> QED BY <1>1, <1>2

(* The end that leaves changes nothing else; a slot is freed by the parent, *)
(* or when the parent is through with it.                                   *)
LEMMA LeavesKept ==
    ASSUME NEW k \in Connection
    PROVE  /\ ParentLeaves(k) # None => ParentLeaves(k).parent = "gone"
           /\ k.parent # "gone" => /\ ClientLeaves(k) # None
                                  /\ ClientLeaves(k).name = k.name
                                  /\ ClientLeaves(k).parent = k.parent
                                  /\ ClientLeaves(k).hints = k.hints
  BY NoneIsNoRecord DEF ParentLeaves, ClientLeaves, Connection

(* The initial state is of its type. *)
LEMMA InitTyped == Init => TypeOK
<1> SUFFICES ASSUME Init PROVE TypeOK
    OBVIOUS
<1>1. faults \in 0 .. MaxFaults
      BY MaxFaultsIsNatural DEF Init
<1>2. /\ up \in BOOLEAN
      /\ live \in [Name -> Hint \cup {NoHints, None}]
      /\ serving \in [Process -> Listener \cup {None}]
      /\ conn \in [Conn -> Connection \cup {None}]
      BY DEF Init
<1> QED BY <1>1, <1>2 DEF TypeOK

(* Faults are counted up to the bound. *)
LEMMA FaultTyped ==
    ASSUME TypeOK, Fault
    PROVE  faults' \in 0 .. MaxFaults
  BY MaxFaultsIsNatural DEF TypeOK, Fault

(* So is the state after a step. *)
LEMMA NextTyped == TypeOK /\ [Next]_vars => TypeOK'
<1> SUFFICES ASSUME TypeOK, [Next]_vars PROVE TypeOK'
    OBVIOUS
<1>1. ASSUME NEW p \in Process, NEW d \in Name, NEW hints \in Hint, ServeStarts(p, d, hints)
      PROVE  TypeOK'
  <2>1. [home |-> d, hints |-> hints] \in Listener
        BY DEF Listener
  <2> QED BY <1>1, <2>1 DEF ServeStarts, TypeOK
<1>2. ASSUME NEW p \in Process, NEW c \in Conn, RegisterDials(p, c) PROVE TypeOK'
  <2>1. serving[p] \in Listener
        BY <1>2 DEF RegisterDials, TypeOK
  <2>2. serving[p].home \in Name /\ serving[p].hints \in Hint
        BY <2>1 DEF Listener
  <2> QED BY <1>2, <2>2 DEF RegisterDials, Dials, TypeOK, Connection
<1>3. ASSUME NEW d \in Name, NEW c \in Conn, AskDials(d, c) PROVE TypeOK'
      BY <1>3 DEF AskDials, Dials, TypeOK, Connection
<1>4. ASSUME NEW p \in Process, ServeKilled(p) PROVE TypeOK'
  <2>1. \A c \in Open : ClientLeaves(conn[c]) \in Connection \cup {None}
        BY OpenTyped, LeavesTyped
  <2>2. faults' \in 0 .. MaxFaults
        BY <1>4, FaultTyped DEF ServeKilled
  <2>3. conn' \in [Conn -> Connection \cup {None}]
        BY <1>4, <2>1 DEF ServeKilled, Holds, TypeOK
  <2>4. serving' \in [Process -> Listener \cup {None}]
        BY <1>4 DEF ServeKilled, TypeOK
  <2> QED BY <1>4, <2>2, <2>3, <2>4 DEF ServeKilled, TypeOK
<1>5. ASSUME NEW c \in Conn, RegistrationEnds(c) \/ AskEnds(c) PROVE TypeOK'
  <2>1. ClientLeaves(conn[c]) \in Connection \cup {None}
        BY <1>5, OpenTyped, LeavesTyped DEF RegistrationEnds, AskEnds, Holds
  <2> QED BY <1>5, <2>1 DEF RegistrationEnds, AskEnds, TypeOK
<1>6. ASSUME NEW c \in Conn, Welcomes(c) PROVE TypeOK'
  <2>1. conn[c] \in Connection
        BY <1>6, OpenTyped DEF Welcomes
  <2>2. [conn[c] EXCEPT !.parent = "welcomed"] \in Connection
        BY <2>1 DEF Connection
  <2> QED BY <1>6, <2>2 DEF Welcomes, TypeOK
<1>7. ASSUME NEW c \in Conn, WelcomeFails(c) \/ Departs(c) PROVE TypeOK'
  <2>1. conn[c] \in Connection
        BY <1>7, OpenTyped DEF WelcomeFails, Departs
  <2>2. conn[c].name \in Name /\ ParentLeaves(conn[c]) \in Connection \cup {None}
        BY <2>1, LeavesTyped DEF Connection
  <2> QED BY <1>7, <2>2 DEF WelcomeFails, Departs, TypeOK
<1>8. ASSUME NEW c \in Conn, Registers(c) PROVE TypeOK'
  <2>1. conn[c] \in Connection
        BY <1>8, OpenTyped DEF Registers
  <2>2. /\ conn[c].name \in Name /\ conn[c].hints \in Hint \cup {NoHints}
        /\ [conn[c] EXCEPT !.parent = "held"] \in Connection
        BY <2>1 DEF Connection
  <2> QED BY <1>8, <2>2 DEF Registers, TypeOK
<1>9. ASSUME NEW c \in Conn, Cut(c) PROVE TypeOK'
  <2>1. conn[c] \in Connection
        BY <1>9, OpenTyped DEF Cut
  <2>2. [conn[c] EXCEPT !.cut = TRUE] \in Connection
        BY <2>1 DEF Connection
  <2>3. faults' \in 0 .. MaxFaults
        BY <1>9, FaultTyped DEF Cut
  <2> QED BY <1>9, <2>2, <2>3 DEF Cut, TypeOK
<1>10. CASE Crash
  <2>1. \A c \in Open : ParentLeaves(conn[c]) \in Connection \cup {None}
        BY OpenTyped, LeavesTyped
  <2>2. faults' \in 0 .. MaxFaults
        BY <1>10, FaultTyped DEF Crash
  <2>3. conn' \in [Conn -> Connection \cup {None}]
        BY <1>10, <2>1 DEF Crash
  <2>4. live' \in [Name -> Hint \cup {NoHints, None}]
        BY <1>10 DEF Crash
  <2> QED BY <1>10, <2>2, <2>3, <2>4 DEF Crash, TypeOK
<1>11. CASE Start
       BY <1>11 DEF Start, TypeOK
<1>12. CASE UNCHANGED vars
       BY <1>12 DEF vars, TypeOK
<1> QED
    BY <1>1, <1>2, <1>3, <1>4, <1>5, <1>6, <1>7, <1>8, <1>9, <1>10, <1>11, <1>12
    DEF Next, Serve

(* Type correctness: a connection has both ends in a known state or its     *)
(* slot is free, and the table of live devices holds what a greeting can    *)
(* carry (serve_peer, hold, ask_as_device).                                 *)
THEOREM TypeCorrect == Spec => []TypeOK
  BY InitTyped, NextTyped, PTL DEF Spec

-----------------------------------------------------------------------------
(* Held connections that stay, with what they said, keep LiveIsHeld true    *)
(* when the table is as it was or lost the entries of those that did not.   *)
LEMMA HeldStays ==
    ASSUME LiveIsHeld,
           \A d \in Name : live'[d] \in {live[d], None},
           \A d \in Name, c \in Conn :
              Held(c, d) /\ live'[d] # None => Held(c, d)' /\ conn'[c].hints = conn[c].hints
    PROVE  LiveIsHeld'
  BY DEF LiveIsHeld

(* No step leaves an entry behind. *)
LEMMA NextHeld == TypeOK /\ LiveIsHeld /\ [Next]_vars => LiveIsHeld'
<1> SUFFICES ASSUME TypeOK, LiveIsHeld, [Next]_vars PROVE LiveIsHeld'
    OBVIOUS
<1> USE NoneIsNoHint DEF Held, Open
<1>1. ASSUME NEW p \in Process, NEW d \in Name, NEW hints \in Hint, ServeStarts(p, d, hints)
      PROVE  LiveIsHeld'
      BY <1>1, HeldStays DEF ServeStarts
<1>2. ASSUME NEW c \in Conn,
             \/ \E p \in Process : RegisterDials(p, c)
             \/ \E d \in Name : AskDials(d, c)
      PROVE  LiveIsHeld'
  <2>1. /\ live' = live
        /\ \A x \in Conn : x # c => conn'[x] = conn[x]
        BY <1>2 DEF RegisterDials, AskDials, Dials, TypeOK
  <2>2. \A x \in Name : ~Held(c, x)
        BY <1>2 DEF RegisterDials, AskDials, Dials
  <2> QED BY <2>1, <2>2, HeldStays
<1>3. ASSUME NEW p \in Process, ServeKilled(p) PROVE LiveIsHeld'
  <2>1. live' = live
        BY <1>3 DEF ServeKilled
  <2>2. \A x \in Conn : conn'[x] = conn[x] \/ (x \in Open /\ conn'[x] = ClientLeaves(conn[x]))
        BY <1>3 DEF ServeKilled, Holds
  <2>3. ASSUME NEW x \in Name, NEW c \in Conn, Held(c, x)
        PROVE  Held(c, x)' /\ conn'[c].hints = conn[c].hints
    <3>1. CASE conn'[c] = conn[c]
          BY <2>3, <3>1
    <3>2. CASE conn'[c] = ClientLeaves(conn[c])
          BY <2>3, <3>2, OpenTyped, LeavesKept
    <3> QED BY <2>2, <3>1, <3>2
  <2> QED BY <2>1, <2>3, HeldStays
<1>4. ASSUME NEW c \in Conn, RegistrationEnds(c) \/ AskEnds(c) PROVE LiveIsHeld'
  <2>1. live' = live
        BY <1>4 DEF RegistrationEnds, AskEnds
  <2>2. /\ \A x \in Conn : x # c => conn'[x] = conn[x]
        /\ conn'[c] = ClientLeaves(conn[c])
        BY <1>4 DEF RegistrationEnds, AskEnds, TypeOK
  <2> QED BY <2>1, <2>2, HeldStays, OpenTyped, LeavesKept
<1>5. ASSUME NEW c \in Conn, Welcomes(c) \/ WelcomeFails(c) PROVE LiveIsHeld'
  <2>1. live' = live /\ \A x \in Conn : x # c => conn'[x] = conn[x]
        BY <1>5 DEF Welcomes, WelcomeFails, TypeOK
  <2>2. \A x \in Name : ~Held(c, x)
        BY <1>5 DEF Welcomes, WelcomeFails
  <2> QED BY <2>1, <2>2, HeldStays
<1>6. ASSUME NEW c \in Conn, Departs(c) PROVE LiveIsHeld'
  <2>1. \A x \in Name : live'[x] = IF x = conn[c].name THEN None ELSE live[x]
        BY <1>6 DEF Departs, TypeOK
  <2>2. \A x \in Conn : x # c => conn'[x] = conn[x]
        BY <1>6 DEF Departs, TypeOK
  <2> QED BY <2>1, <2>2, HeldStays
<1>7. ASSUME NEW c \in Conn, Registers(c) PROVE LiveIsHeld'
  <2> SUFFICES ASSUME NEW d \in Name, live'[d] # None
               PROVE  \E x \in Conn : Held(x, d)' /\ conn'[x].hints = live'[d]
      BY DEF LiveIsHeld
  <2>1. CASE d = conn[c].name
    <3>1. conn[c] \in Connection /\ conn'[c] = [conn[c] EXCEPT !.parent = "held"]
          BY <1>7, OpenTyped DEF Registers, TypeOK
    <3>2. /\ conn'[c].name = conn[c].name
          /\ conn'[c].hints = conn[c].hints
          /\ conn'[c].parent = "held"
          /\ conn'[c] \in Connection
          BY <3>1 DEF Connection
    <3>3. live'[d] = conn[c].hints
          BY <1>7, <2>1 DEF Registers, TypeOK
    <3> QED BY <2>1, <3>2, <3>3, NoneIsNoRecord
  <2>2. CASE d # conn[c].name
    <3>1. live[d] = live'[d]
          BY <1>7, <2>2 DEF Registers, TypeOK
    <3>2. PICK x \in Conn : Held(x, d) /\ conn[x].hints = live[d]
          BY <3>1 DEF LiveIsHeld
    <3>3. x # c
          BY <1>7, <3>2 DEF Registers
    <3> QED BY <1>7, <3>1, <3>2, <3>3 DEF Registers, TypeOK
  <2> QED BY <2>1, <2>2
<1>8. ASSUME NEW c \in Conn, Cut(c) PROVE LiveIsHeld'
  <2>1. live' = live /\ \A x \in Conn : x # c => conn'[x] = conn[x]
        BY <1>8 DEF Cut, TypeOK
  <2>2. conn[c] \in Connection /\ conn'[c] = [conn[c] EXCEPT !.cut = TRUE]
        BY <1>8, OpenTyped DEF Cut, TypeOK
  <2>3. /\ conn'[c].name = conn[c].name
        /\ conn'[c].hints = conn[c].hints
        /\ conn'[c].parent = conn[c].parent
        /\ conn'[c] \in Connection
        BY <2>2 DEF Connection
  <2> QED BY <2>1, <2>3, HeldStays, NoneIsNoRecord
<1>9. CASE Crash
      BY <1>9, HeldStays DEF Crash
<1>10. CASE Start
       BY <1>10, HeldStays DEF Start
<1>11. CASE UNCHANGED vars
       BY <1>11, HeldStays DEF vars
<1> QED
    BY <1>1, <1>2, <1>3, <1>4, <1>5, <1>6, <1>7, <1>8, <1>9, <1>10, <1>11
    DEF Next, Serve

(* Nobody is live to begin with. *)
LEMMA InitHeld == Init => LiveIsHeld
  BY DEF Init, LiveIsHeld

(* Whoever the parent counts as live has a connection the parent still      *)
(* reads from, and told these hints on it, through any crash, kill or cut   *)
(* (serve_peer: insert, serve_asks, remove).                                *)
THEOREM LiveAreHeld == Spec => []LiveIsHeld
<1>1. Spec => []TypeOK
      BY TypeCorrect
<1>2. TypeOK /\ LiveIsHeld /\ [Next]_vars => LiveIsHeld'
      BY NextHeld
<1> QED BY <1>1, <1>2, InitHeld, PTL DEF Spec
-----------------------------------------------------------------------------
(* A connection that a process holds is of the device it serves, and says   *)
(* where the process listens.                                               *)
HoldsAsServed ==
    \A p \in Process, c \in Conn : Holds(p, c) =>
        /\ serving[p] # None
        /\ conn[c].name = serving[p].home /\ conn[c].hints = serving[p].hints

(* An end that leaves a connection keeps what it was opened with.           *)
LEMMA OpenedAs ==
    ASSUME NEW k \in Connection
    PROVE  /\ ClientLeaves(k) # None => ClientLeaves(k).client = "gone"
           /\ ParentLeaves(k) # None =>
                 /\ ParentLeaves(k).client = k.client
                 /\ ParentLeaves(k).by = k.by
                 /\ ParentLeaves(k).name = k.name
                 /\ ParentLeaves(k).hints = k.hints
                 /\ ParentLeaves(k).parent = "gone"
  BY NoneIsNoRecord DEF ParentLeaves, ClientLeaves, Connection

(* Connections that were held before, as they were, by processes that serve *)
(* what they did, keep HoldsAsServed true.                                  *)
LEMMA HoldingStays ==
    ASSUME HoldsAsServed,
           \A p \in Process, c \in Conn : Holds(p, c)' =>
              /\ Holds(p, c)
              /\ conn'[c].name = conn[c].name /\ conn'[c].hints = conn[c].hints
              /\ serving'[p] = serving[p]
    PROVE  HoldsAsServed'
  BY DEF HoldsAsServed

(* No step makes a process hold another device's connection. *)
LEMMA NextServed == TypeOK /\ HoldsAsServed /\ [Next]_vars => HoldsAsServed'
<1> SUFFICES ASSUME TypeOK, HoldsAsServed, [Next]_vars PROVE HoldsAsServed'
    OBVIOUS
<1>1. ASSUME NEW p \in Process, NEW d \in Name, NEW hints \in Hint, ServeStarts(p, d, hints)
      PROVE  HoldsAsServed'
  <2>1. /\ conn' = conn
        /\ \A x \in Process : x # p => serving'[x] = serving[x]
        /\ serving[p] = None
        BY <1>1 DEF ServeStarts, TypeOK
  <2>2. \A c \in Conn : ~Holds(p, c)
        BY <2>1 DEF HoldsAsServed
  <2> QED BY <2>1, <2>2, HoldingStays DEF Holds, Open
<1>2. ASSUME NEW p \in Process, NEW c \in Conn, RegisterDials(p, c) PROVE HoldsAsServed'
  <2>1. /\ serving' = serving /\ serving[p] # None
        /\ \A x \in Conn : x # c => conn'[x] = conn[x]
        /\ conn'[c].by = p
        /\ conn'[c].name = serving[p].home /\ conn'[c].hints = serving[p].hints
        BY <1>2 DEF RegisterDials, Dials, TypeOK
  <2>2. ASSUME NEW q \in Process, NEW x \in Conn, Holds(q, x)'
        PROVE  /\ serving'[q] # None
               /\ conn'[x].name = serving'[q].home /\ conn'[x].hints = serving'[q].hints
    <3>1. CASE x = c
          BY <2>1, <2>2, <3>1 DEF Holds
    <3>2. CASE x # c
          BY <2>1, <2>2, <3>2 DEF Holds, Open, HoldsAsServed
    <3> QED BY <3>1, <3>2
  <2> QED BY <2>2 DEF HoldsAsServed
<1>3. ASSUME NEW d \in Name, NEW c \in Conn, AskDials(d, c) PROVE HoldsAsServed'
  <2>1. /\ serving' = serving
        /\ \A x \in Conn : x # c => conn'[x] = conn[x]
        /\ conn'[c].by = "ask"
        BY <1>3 DEF AskDials, Dials, TypeOK
  <2> QED BY <2>1, HoldingStays, AskIsNoProcess DEF Holds, Open
<1>4. ASSUME NEW p \in Process, ServeKilled(p) PROVE HoldsAsServed'
  <2>1. \A x \in Process : x # p => serving'[x] = serving[x]
        BY <1>4 DEF ServeKilled, TypeOK
  <2>2. \A x \in Conn :
           conn'[x] = IF Holds(p, x) THEN ClientLeaves(conn[x]) ELSE conn[x]
        BY <1>4 DEF ServeKilled
  <2>3. ASSUME NEW q \in Process, NEW x \in Conn, Holds(q, x)'
        PROVE  Holds(q, x) /\ conn'[x] = conn[x] /\ q # p
    <3>1. ~Holds(p, x)
          BY <2>2, <2>3, OpenTyped, OpenedAs DEF Holds, Open
    <3>2. conn'[x] = conn[x]
          BY <2>2, <3>1
    <3> QED BY <2>3, <3>1, <3>2 DEF Holds, Open
  <2> QED BY <2>1, <2>3, HoldingStays
<1>5. ASSUME NEW c \in Conn, RegistrationEnds(c) \/ AskEnds(c) PROVE HoldsAsServed'
  <2>1. /\ serving' = serving
        /\ \A x \in Conn : x # c => conn'[x] = conn[x]
        /\ conn'[c] = ClientLeaves(conn[c])
        /\ c \in Open
        BY <1>5 DEF RegistrationEnds, AskEnds, Holds, TypeOK
  <2>2. \A p \in Process : ~Holds(p, c)'
        BY <2>1, OpenTyped, OpenedAs DEF Holds, Open
  <2> QED BY <2>1, <2>2, HoldingStays DEF Holds, Open
<1>6. ASSUME NEW c \in Conn, Serve(c) \/ Cut(c) PROVE HoldsAsServed'
  <2>1. /\ serving' = serving
        /\ c \in Open
        /\ \A x \in Conn : x # c => conn'[x] = conn[x]
        /\ \/ \E e : conn'[c] = [conn[c] EXCEPT !.parent = e]
           \/ conn'[c] = [conn[c] EXCEPT !.cut = TRUE]
           \/ conn'[c] = ParentLeaves(conn[c])
        BY <1>6 DEF Serve, Welcomes, WelcomeFails, Registers, Departs, Cut, TypeOK
  <2>2. ASSUME NEW p \in Process, Holds(p, c)'
        PROVE  Holds(p, c) /\ conn'[c].name = conn[c].name /\ conn'[c].hints = conn[c].hints
    <3>1. conn[c] \in Connection
          BY <2>1, OpenTyped
    <3>2. CASE conn'[c] = ParentLeaves(conn[c])
          BY <2>1, <2>2, <3>1, <3>2, OpenedAs DEF Holds, Open
    <3>3. CASE conn'[c] = [conn[c] EXCEPT !.cut = TRUE]
          BY <2>1, <2>2, <3>1, <3>3 DEF Holds, Open, Connection
    <3>4. ASSUME NEW e, conn'[c] = [conn[c] EXCEPT !.parent = e]
          PROVE  Holds(p, c) /\ conn'[c].name = conn[c].name /\ conn'[c].hints = conn[c].hints
          BY <2>1, <2>2, <3>1, <3>4 DEF Holds, Open, Connection
    <3> QED BY <2>1, <3>2, <3>3, <3>4
  <2> QED BY <2>1, <2>2, HoldingStays DEF Holds, Open
<1>7. CASE Crash
  <2>1. /\ serving' = serving
        /\ \A x \in Conn : conn'[x] = IF x \in Open THEN ParentLeaves(conn[x]) ELSE None
        BY <1>7 DEF Crash
  <2>2. ASSUME NEW p \in Process, NEW x \in Conn, Holds(p, x)'
        PROVE  Holds(p, x) /\ conn'[x].name = conn[x].name /\ conn'[x].hints = conn[x].hints
        BY <2>1, <2>2, OpenTyped, OpenedAs DEF Holds, Open
  <2> QED BY <2>1, <2>2, HoldingStays
<1>8. CASE Start \/ UNCHANGED vars
      BY <1>8, HoldingStays DEF Start, vars, Holds, Open
<1> QED
    BY <1>1, <1>2, <1>3, <1>4, <1>5, <1>6, <1>7, <1>8 DEF Next

(* What a process holds is what it serves, at every moment. *)
LEMMA HoldAsServed == Spec => []HoldsAsServed
<1>1. Init => HoldsAsServed
      BY DEF Init, HoldsAsServed, Holds, Open
<1> QED BY <1>1, TypeCorrect, NextServed, PTL DEF Spec

-----------------------------------------------------------------------------
(* A step that leaves a connection and its process alone registers nobody   *)
(* on it.                                                                   *)
LEMMA RegisteredBefore ==
    ASSUME NEW c \in Conn, NEW p \in Process, Registered(p, c)',
           conn'[c] = conn[c], serving'[p] = serving[p]
    PROVE  Registered(p, c)
  BY DEF Registered, Held, Holds, Open

(* Of the steps that do not, one registers it, and makes its device live    *)
(* where it listens.                                                        *)
LEMMA RegisteredLive ==
    ASSUME TypeOK, HoldsAsServed, [Next]_vars, NEW c \in Conn, NEW p \in Process,
           Registered(p, c)'
    PROVE  /\ serving'[p] = serving[p]
           /\ Registered(p, c) \/ live'[serving[p].home] = serving[p].hints
<1> DEFINE Was == serving'[p] = serving[p] /\ Registered(p, c)
<1>1. ASSUME NEW x \in Process, NEW d \in Name, NEW hints \in Hint, ServeStarts(x, d, hints)
      PROVE  Was
  <2>1. conn'[c] = conn[c] /\ (x # p => serving'[p] = serving[p]) /\ serving[x] = None
        BY <1>1 DEF ServeStarts, TypeOK
  <2>2. Holds(p, c)
        BY <2>1 DEF Registered, Holds, Open
  <2>3. serving[p] # None
        BY <2>2 DEF HoldsAsServed
  <2> QED BY <2>1, <2>3, RegisteredBefore
<1>2. ASSUME NEW e \in Conn,
             \/ \E x \in Process : RegisterDials(x, e)
             \/ \E d \in Name : AskDials(d, e)
      PROVE  Was
  <2>1. /\ serving' = serving
        /\ c # e => conn'[c] = conn[c]
        /\ conn'[e].parent = "greeting"
        BY <1>2 DEF RegisterDials, AskDials, Dials, TypeOK
  <2>2. c # e
        BY <2>1 DEF Registered, Held
  <2> QED BY <2>1, <2>2, RegisteredBefore
<1>3. ASSUME NEW x \in Process, ServeKilled(x) PROVE Was
  <2>1. /\ x # p => serving'[p] = serving[p]
        /\ serving'[x] = None
        /\ conn'[c] = IF Holds(x, c) THEN ClientLeaves(conn[c]) ELSE conn[c]
        BY <1>3 DEF ServeKilled, TypeOK
  <2>2. x # p
        BY <2>1 DEF Registered
  <2>3. ~Holds(x, c)
        BY <2>1, OpenTyped, OpenedAs DEF Registered, Holds, Open
  <2> QED BY <2>1, <2>2, <2>3, RegisteredBefore
<1>4. ASSUME NEW e \in Conn, RegistrationEnds(e) \/ AskEnds(e) PROVE Was
  <2>1. /\ serving' = serving
        /\ c # e => conn'[c] = conn[c]
        /\ e \in Open /\ conn'[e] = ClientLeaves(conn[e])
        BY <1>4 DEF RegistrationEnds, AskEnds, Holds, TypeOK
  <2>2. c # e
        BY <2>1, OpenTyped, OpenedAs DEF Registered, Holds, Open
  <2> QED BY <2>1, <2>2, RegisteredBefore
<1>5. ASSUME NEW e \in Conn, Welcomes(e) \/ Cut(e) PROVE Was
  <2>1. /\ serving' = serving
        /\ c # e => conn'[c] = conn[c]
        /\ conn[e] \in Connection
        /\ \/ conn'[e] = [conn[e] EXCEPT !.parent = "welcomed"]
           \/ conn'[e] = [conn[e] EXCEPT !.cut = TRUE]
        BY <1>5, OpenTyped DEF Welcomes, Cut, TypeOK
  <2>2. c # e
        BY <2>1 DEF Registered, Held, Connection
  <2> QED BY <2>1, <2>2, RegisteredBefore
<1>6. ASSUME NEW e \in Conn, WelcomeFails(e) \/ Departs(e) PROVE Was
  <2>1. /\ serving' = serving
        /\ c # e => conn'[c] = conn[c]
        /\ e \in Open /\ conn'[e] = ParentLeaves(conn[e])
        BY <1>6 DEF WelcomeFails, Departs, TypeOK
  <2>2. c # e
        BY <2>1, OpenTyped, OpenedAs DEF Registered, Held, Open
  <2> QED BY <2>1, <2>2, RegisteredBefore
<1>7. ASSUME NEW e \in Conn, Registers(e)
      PROVE  /\ serving'[p] = serving[p]
             /\ Registered(p, c) \/ live'[serving[p].home] = serving[p].hints
  <2>1. /\ serving' = serving
        /\ c # e => conn'[c] = conn[c]
        /\ conn[e] \in Connection
        /\ conn'[e] = [conn[e] EXCEPT !.parent = "held"]
        /\ live' = [live EXCEPT ![conn[e].name] = conn[e].hints]
        BY <1>7, OpenTyped DEF Registers, TypeOK
  <2>2. CASE c = e
    <3>1. conn[e].name = serving[p].home /\ conn[e].hints = serving[p].hints
          BY <2>1, <2>2 DEF Registered, Held, Connection
    <3>2. conn[e].name \in Name
          BY <2>1 DEF Connection
    <3> QED BY <2>1, <3>1, <3>2 DEF TypeOK
  <2> QED BY <2>1, <2>2, RegisteredBefore
<1>8. CASE Crash
  <2>1. conn'[c] = IF c \in Open THEN ParentLeaves(conn[c]) ELSE None
        BY <1>8 DEF Crash
  <2> QED BY <2>1, OpenTyped, OpenedAs DEF Registered, Held, Open
<1>9. CASE Start \/ UNCHANGED vars
      BY <1>9, RegisteredBefore DEF Start, vars
<1> QED
    BY <1>1, <1>2, <1>3, <1>4, <1>5, <1>6, <1>7, <1>8, <1>9 DEF Next, Serve

(* An entry goes with a held connection of its device, or with all. *)
LEMMA UnlistedByDeparture ==
    ASSUME TypeOK, [Next]_vars, NEW d \in Name, live[d] # None, live'[d] = None,
           NEW e \in Conn, Held(e, d)'
    PROVE  \E c \in Conn : Held(c, d) /\ Ended(c) /\ ~Held(c, d)'
<1>1. live'[d] # live[d]
      OBVIOUS
<1>2. ~Crash
  <2>1. Crash => conn'[e] = IF e \in Open THEN ParentLeaves(conn[e]) ELSE None
        BY DEF Crash
  <2> QED BY <2>1, OpenTyped, OpenedAs DEF Held, Open
<1>3. ASSUME NEW c \in Conn, Registers(c) PROVE FALSE
  <2>1. conn[c] \in Connection /\ live' = [live EXCEPT ![conn[c].name] = conn[c].hints]
        BY <1>3, OpenTyped DEF Registers
  <2> QED BY <1>1, <2>1, NoneIsNoHint DEF TypeOK, Connection
<1>4. PICK c \in Conn : Departs(c)
      BY <1>1, <1>2, <1>3
      DEF Next, Serve, vars, ServeStarts, RegisterDials, AskDials, Dials, ServeKilled,
          RegistrationEnds, AskEnds, Welcomes, WelcomeFails, Cut, Start
<1>5. /\ c \in Open /\ conn[c].parent = "held" /\ Ended(c)
      /\ conn'[c] = ParentLeaves(conn[c])
      /\ conn[c].name = d
      BY <1>1, <1>4 DEF Departs, TypeOK
<1>6. Held(c, d) /\ ~Held(c, d)'
      BY <1>5, OpenTyped, OpenedAs DEF Held, Open
<1> QED BY <1>5, <1>6

(* A device that registers is live where it listens, and as long as it is   *)
(* connected, only the end of another connection of its own takes it out of *)
(* the table, in however many processes it serves (serve_peer: insert,      *)
(* remove).                                                                 *)
THEOREM UnlistedOnlyByDeparture == Spec => MissingOnlyByDeparture
<1>1. ASSUME TypeOK, HoldsAsServed, [Next]_vars,
             NEW p \in Process, NEW d \in Name, (Reaches(p) /\ serving[p].home = d)'
      PROVE  /\ ~Reaches(p) => live'[d] = serving'[p].hints
             /\ Reaches(p) /\ live[d] # None /\ live'[d] = None =>
                   \E c \in Conn : Held(c, d) /\ Ended(c) /\ ~Held(c, d)'
  <2>1. PICK c \in Conn : Registered(p, c)'
        BY <1>1 DEF Reaches
  <2>2. /\ serving'[p] = serving[p]
        /\ Registered(p, c) \/ live'[serving[p].home] = serving[p].hints
        BY <1>1, <2>1, RegisteredLive
  <2>3. Registered(p, c) => Reaches(p)
        BY DEF Reaches
  <2>4. Held(c, d)'
        BY <1>1, <2>1 DEF Registered, Held, Open
  <2> QED BY <1>1, <2>2, <2>3, <2>4, UnlistedByDeparture
<1>2. TypeOK /\ HoldsAsServed /\ [Next]_vars =>
        \A p \in Process, d \in Name : (Reaches(p) /\ serving[p].home = d)' =>
          /\ ~Reaches(p) => live'[d] = serving'[p].hints
          /\ Reaches(p) /\ live[d] # None /\ live'[d] = None =>
                \E c \in Conn : Held(c, d) /\ Ended(c) /\ ~Held(c, d)'
      BY <1>1
<1> QED BY <1>2, TypeCorrect, HoldAsServed, PTL DEF Spec, MissingOnlyByDeparture
=============================================================================
