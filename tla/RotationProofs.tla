--------------------------- MODULE RotationProofs ---------------------------
(***************************************************************************)
(* Theorems about Rotation, for any contacts and addresses.                *)
(*                                                                         *)
(* A contact that was answered arrived on an address it holds, and that is *)
(* in its reached_on, in memory and on file, until it arrives on another   *)
(* it holds.  `drained` spares what a reached_on names.  The lemmas say,   *)
(* an action each, that IInv is kept.                                      *)
(***************************************************************************)
EXTENDS Rotation, TLAPS

(* What is not None is of its type. *)
LEMMA ValuesTyped ==
    ASSUME TypeOK, NEW c \in Contact
    PROVE  /\ dial[c] # None => dial[c] \in Dial
           /\ holds[c] # None => holds[c] \in SUBSET Spot
           /\ invited[c] # None => invited[c] \in SUBSET Spot
  BY DEF TypeOK

(* A handler that saves a net leaves two nets. *)
LEMMA SavesTyped ==
    ASSUME TypeOK, NEW n \in Network, NEW saved \in BOOLEAN, save(n, saved)
    PROVE  mem' \in Network /\ disk' \in Network
  BY DEF TypeOK, save

(* A net with another entry for c is a net. *)
LEMMA EntryTyped ==
    ASSUME NEW net \in Network, NEW c \in Contact, NEW p \in Peer
    PROVE  [net EXCEPT !.peers[c] = p] \in Network
  BY DEF Network

(* What note_reached_on does to the entries. *)
LEMMA NoteKept ==
    ASSUME NEW net \in Network, NEW c \in Contact, NEW spot \in Spot
    PROVE  /\ note_reached_on(net, c, spot) \in Network
           /\ note_reached_on(net, c, spot).keys = net.keys
           /\ Knows(note_reached_on(net, c, spot), c)
           /\ note_reached_on(net, c, spot).peers[c].reached_on = spot
           /\ \A b \in Contact \ {c} : note_reached_on(net, c, spot).peers[b] = net.peers[b]
<1>1. [pending |-> FALSE, reached_on |-> spot] \in Peer
      BY DEF Peer
<1>2. [pending |-> FALSE, reached_on |-> spot] # None
      BY <1>1, NoneIsNoValue
<1> QED BY <1>1, <1>2, EntryTyped DEF note_reached_on, Network, Knows

(* The address c tries is one it has still to try. *)
LEMMA TriesTyped ==
    ASSUME TypeOK, AsksFollow, NEW c \in Contact, NEW spot \in Spot, Tries(c, spot)
    PROVE  /\ dial[c] \in Dial
           /\ dial[c].why = "ask" => holds[c] \in SUBSET Spot /\ spot \in holds[c]
  BY NoneIsNoValue, ValuesTyped DEF Tries, AsksFollow, Dial

(* What is read from the file is on file; dials under way are spoilt by it. *)
LEMMA StartKeeps ==
    ASSUME IInv, Start
    PROVE  IInv'
<1>1. TypeOK'
  <2>1. \A c \in Contact : dial[c] # None => [dial[c] EXCEPT !.spoilt = TRUE] \in Dial
        BY ValuesTyped DEF IInv, Dial
  <2>2. dial' \in [Contact -> Dial \cup {None}]
        BY <2>1 DEF Start
  <2> QED BY <2>2 DEF IInv, Start, TypeOK, Network
<1>2. ReachedIsKept'
      BY NoneIsNoValue DEF IInv, Start, ReachedIsKept, ReachedOnOurs
<1>3. HeardIsOnFile'
      BY NoneIsNoValue DEF IInv, Start, HeardIsOnFile, HeardOn, Knows
<1>4. AsksFollow'
      BY NoneIsNoValue DEF IInv, Start, AsksFollow, Knows
<1>5. SearchGoesOn'
      BY NoneIsNoValue DEF IInv, Start, SearchGoesOn, Listed, Knows
<1> QED BY <1>1, <1>2, <1>3, <1>4, <1>5 DEF IInv

(* What is on file is all that is left. *)
LEMMA StopKeeps ==
    ASSUME IInv, Stop
    PROVE  IInv'
<1>1. TypeOK'
      BY NoneIsNoValue DEF IInv, Stop, TypeOK, Network, Peer, Dial
<1>2. ReachedIsKept'
      BY NoneIsNoValue DEF IInv, Stop, ReachedIsKept, ReachedOnOurs
<1>3. HeardIsOnFile'
      BY NoneIsNoValue DEF IInv, Stop, HeardIsOnFile, HeardOn, Knows
<1>4. AsksFollow'
      BY NoneIsNoValue DEF IInv, Stop, AsksFollow, Knows
<1>5. SearchGoesOn'
      BY NoneIsNoValue DEF IInv, Stop, SearchGoesOn, Listed, Knows
<1> QED BY <1>1, <1>2, <1>3, <1>4, <1>5 DEF IInv

(* A retired address is still on file. *)
LEMMA RetireKeeps ==
    ASSUME IInv, NEW spot \in Spot, Retire(spot)
    PROVE  IInv'
<1>1. TypeOK'
      BY NoneIsNoValue DEF IInv, Retire, TypeOK, Network, Peer, Dial
<1>2. ReachedIsKept'
      BY DEF IInv, Retire, ReachedIsKept, ReachedOnOurs, Knows
<1>3. HeardIsOnFile'
      BY NoneIsNoValue DEF IInv, Retire, HeardIsOnFile, HeardOn, Knows
<1>4. AsksFollow'
      BY NoneIsNoValue DEF IInv, Retire, AsksFollow, Knows
<1>5. SearchGoesOn'
      BY NoneIsNoValue DEF IInv, Retire, SearchGoesOn, Listed, Knows
<1> QED BY <1>1, <1>2, <1>3, <1>4, <1>5 DEF IInv

(* An address somebody arrived on is not drained, so those that were heard *)
(* from keep theirs. *)
LEMMA UnbindKeeps ==
    ASSUME IInv, NEW spot \in Spot, Unbind(spot)
    PROVE  IInv'
<1>1. TypeOK'
      BY NoneIsNoValue DEF IInv, Unbind, drained, TypeOK, Network
<1>2. ReachedIsKept'
      BY DEF IInv, Unbind, drained, ReachedIsKept, ReachedOnOurs, Knows
<1>3. HeardIsOnFile'
      BY NoneIsNoValue DEF IInv, Unbind, HeardIsOnFile, HeardOn, Knows
<1>4. AsksFollow'
      BY NoneIsNoValue DEF IInv, Unbind, drained, AsksFollow, Knows
<1>5. SearchGoesOn'
      BY NoneIsNoValue DEF IInv, Unbind, drained, SearchGoesOn, Listed
<1> QED BY <1>1, <1>2, <1>3, <1>4, <1>5 DEF IInv

(* Another address takes nothing from anybody. *)
LEMMA NewAddressKeeps ==
    ASSUME IInv, NEW spot \in Spot, NEW saved \in BOOLEAN, NewAddress(spot, saved)
    PROVE  IInv'
<1>1. TypeOK'
      BY NoneIsNoValue DEF IInv, NewAddress, save, TypeOK, Network
<1>2. ReachedIsKept'
      BY DEF IInv, NewAddress, save, ReachedIsKept, ReachedOnOurs, Knows
<1>3. HeardIsOnFile'
      BY DEF IInv, NewAddress, save, HeardIsOnFile, HeardOn, Knows
<1>4. AsksFollow'
      BY NoneIsNoValue DEF IInv, NewAddress, save, AsksFollow, Knows
<1>5. SearchGoesOn'
      BY DEF IInv, NewAddress, save, SearchGoesOn, Listed, Knows
<1> QED BY <1>1, <1>2, <1>3, <1>4, <1>5 DEF IInv

(* Whoever is invited was unknown, so nobody has heard from it or dials. *)
LEMMA InvitePeerKeeps ==
    ASSUME IInv, NEW c \in Contact, NEW saved \in BOOLEAN, InvitePeer(c, saved)
    PROVE  IInv'
<1>1. TypeOK'
  <2>1. [pending |-> TRUE, reached_on |-> None] \in Peer
        BY DEF Peer
  <2>2. [mem EXCEPT !.peers[c] = [pending |-> TRUE, reached_on |-> None]] \in Network
        BY <2>1, EntryTyped DEF IInv, TypeOK
  <2>3. mem' \in Network /\ disk' \in Network
        BY <2>2, SavesTyped DEF IInv, InvitePeer
  <2>4. current_addresses(mem) \in SUBSET Spot
        BY DEF IInv, TypeOK, Network, current_addresses
  <2>5. invited' \in [Contact -> (SUBSET Spot) \cup {None}] /\ fresh' \in [Contact -> BOOLEAN]
        BY <2>4 DEF IInv, TypeOK, InvitePeer
  <2> QED BY <2>3, <2>5 DEF IInv, InvitePeer, TypeOK
<1>2. ReachedIsKept'
      BY DEF IInv, InvitePeer, save, ReachedIsKept, ReachedOnOurs, Knows
<1>3. HeardIsOnFile'
      BY DEF IInv, InvitePeer, save, HeardIsOnFile, HeardOn, Knows
<1>4. AsksFollow'
      BY NoneIsNoValue DEF IInv, InvitePeer, save, AsksFollow, Knows
<1>5. SearchGoesOn'
      BY DEF IInv, InvitePeer, save, SearchGoesOn, Listed, Knows, AsksFollow, TypeOK, Dial
<1> QED BY <1>1, <1>2, <1>3, <1>4, <1>5 DEF IInv

(* The entry is a new one, of a contact that has not been heard from. *)
LEMMA AcceptKeeps ==
    ASSUME IInv, NEW c \in Contact, NEW answered \in BOOLEAN, NEW saved \in BOOLEAN, Accept(c,
       answered, saved)
    PROVE  IInv'
<1>1. TypeOK'
  <2>1. [pending |-> FALSE, reached_on |-> None] \in Peer
        BY DEF Peer
  <2>2. [mem EXCEPT !.peers[c] = [pending |-> FALSE, reached_on |-> None]] \in Network
        BY <2>1, EntryTyped DEF IInv, TypeOK
  <2>3. mem' \in Network /\ disk' \in Network
        BY <2>2, SavesTyped DEF IInv, Accept, TypeOK
  <2>4. current_addresses(mem) \in SUBSET Spot
        BY DEF IInv, TypeOK, Network, current_addresses
  <2>5. holds' \in [Contact -> (SUBSET Spot) \cup {None}] /\ fresh' \in [Contact -> BOOLEAN]
        BY <2>4 DEF IInv, TypeOK, Accept
  <2> QED BY <2>3, <2>5 DEF IInv, Accept, TypeOK
<1>2. ReachedIsKept'
      BY DEF IInv, Accept, save, ReachedIsKept, ReachedOnOurs, Knows, TypeOK, Network
<1>3. HeardIsOnFile'
      BY DEF IInv, Accept, save, HeardIsOnFile, HeardOn, Knows, TypeOK, Network
<1>4. AsksFollow'
      BY DEF IInv, Accept, save, AsksFollow, Knows, TypeOK, Network
<1>5. SearchGoesOn'
      BY DEF IInv, Accept, save, SearchGoesOn, Listed, Knows, AsksFollow, TypeOK, Network, Dial
<1> QED BY <1>1, <1>2, <1>3, <1>4, <1>5 DEF IInv

(* The addresses on the invite are all still to be dialled. *)
LEMMA AcceptStartsKeeps ==
    ASSUME IInv, NEW c \in Contact, AcceptStarts(c)
    PROVE  IInv'
<1>1. TypeOK'
  <2>1. invited[c] \in SUBSET Spot
        BY ValuesTyped DEF IInv, AcceptStarts
  <2> QED BY <2>1 DEF IInv, AcceptStarts, Dials, TypeOK, Dial
<1>2. ReachedIsKept'
      BY NoneIsNoValue DEF IInv, AcceptStarts, Dials, ReachedIsKept
<1>3. HeardIsOnFile'
      BY DEF IInv, AcceptStarts, Dials, HeardIsOnFile, HeardOn
<1>4. AsksFollow'
      BY DEF IInv, AcceptStarts, Dials, Pending, AsksFollow
<1>5. SearchGoesOn'
      BY DEF IInv, AcceptStarts, Dials, SearchGoesOn, Listed
<1> QED BY <1>1, <1>2, <1>3, <1>4, <1>5 DEF IInv

(* And so are those the contact holds. *)
LEMMA AskStartsKeeps ==
    ASSUME IInv, NEW c \in Contact, AskStarts(c)
    PROVE  IInv'
<1>1. TypeOK'
  <2>1. holds[c] \in SUBSET Spot
        BY ValuesTyped DEF IInv, AskStarts
  <2> QED BY <2>1 DEF IInv, AskStarts, Dials, TypeOK, Dial
<1>2. ReachedIsKept'
      BY NoneIsNoValue DEF IInv, AskStarts, Dials, ReachedIsKept
<1>3. HeardIsOnFile'
      BY DEF IInv, AskStarts, Dials, HeardIsOnFile, HeardOn
<1>4. AsksFollow'
      BY NoneIsNoValue DEF IInv, AskStarts, Dials, AsksFollow, Knows
<1>5. SearchGoesOn'
      BY DEF IInv, AskStarts, Dials, SearchGoesOn, Listed
<1> QED BY <1>1, <1>2, <1>3, <1>4, <1>5 DEF IInv

(* The address is kept, to be dialled by its key alone. *)
LEMMA HintsFailKeeps ==
    ASSUME IInv, NEW c \in Contact, NEW spot \in Spot, HintsFail(c, spot)
    PROVE  IInv'
<1>1. TypeOK'
  <2>1. dial[c] \in Dial
        BY ValuesTyped DEF IInv, HintsFail
  <2>2. [dial[c] EXCEPT !.untried = @ \ {spot}, !.to = spot] \in Dial
        BY <2>1 DEF Dial
  <2> QED BY <2>2 DEF IInv, HintsFail, TypeOK
<1>2. ReachedIsKept'
      BY NoneIsNoValue DEF IInv, HintsFail, ReachedIsKept
<1>3. HeardIsOnFile'
      BY NoneIsNoValue DEF IInv, HintsFail, HeardIsOnFile, HeardOn
<1>4. AsksFollow'
      BY NoneIsNoValue DEF IInv, HintsFail, AsksFollow, Knows, TypeOK
<1>5. SearchGoesOn'
      BY NoneIsNoValue DEF IInv, HintsFail, SearchGoesOn, Listed, TypeOK
<1> QED BY <1>1, <1>2, <1>3, <1>4, <1>5 DEF IInv

(* An address that is given up was not bound, or the dial is spoilt. *)
LEMMA DiscoveryFailsKeeps ==
    ASSUME IInv, NEW c \in Contact, DiscoveryFails(c)
    PROVE  IInv'
<1>1. TypeOK'
  <2>1. dial[c] \in Dial
        BY ValuesTyped DEF IInv, DiscoveryFails
  <2>2. (dial[c].spoilt \/ ~up \/ Listening(dial[c].to)) \in BOOLEAN
        OBVIOUS
  <2>3. dial' \in [Contact -> Dial \cup {None}]
        BY <2>1, <2>2 DEF IInv, DiscoveryFails, TypeOK, Dial
  <2> QED BY <2>3 DEF IInv, DiscoveryFails, TypeOK
<1>2. ReachedIsKept'
      BY NoneIsNoValue DEF IInv, DiscoveryFails, ReachedIsKept
<1>3. HeardIsOnFile'
      BY DEF IInv, DiscoveryFails, HeardIsOnFile, HeardOn
<1>4. AsksFollow'
      BY NoneIsNoValue DEF IInv, DiscoveryFails, AsksFollow, TypeOK
<1>5. SearchGoesOn'
  <2>. DEFINE gone == dial[c].spoilt \/ ~up \/ Listening(dial[c].to)
              d == [dial[c] EXCEPT !.to = None, !.spoilt = gone]
  <2>1. dial' = [dial EXCEPT ![c] = d] /\ UNCHANGED <<up, mem, bound, invited, holds>>
        BY DEF DiscoveryFails
  <2>2. /\ dial[c] # None /\ d.why = dial[c].why /\ d.untried = dial[c].untried /\ d.to = None
        /\ d.spoilt = gone
        BY ValuesTyped DEF IInv, DiscoveryFails, Dial
  <2>. HIDE DEF d
  <2>3. ~d.spoilt /\ up => ~dial[c].spoilt /\ dial[c].to \notin bound
        BY <2>2 DEF Listening
  <2> QED BY <2>1, <2>2, <2>3 DEF IInv, TypeOK, SearchGoesOn, Listed
<1> QED BY <1>1, <1>2, <1>3, <1>4, <1>5 DEF IInv

(* Only a contact we do not know is refused. *)
LEMMA RefuseKeeps ==
    ASSUME IInv, NEW c \in Contact, NEW spot \in Spot, Refuse(c, spot)
    PROVE  IInv'
<1>1. TypeOK'
  <2>1. NextAddress(dial[c], spot, FALSE) \in Dial
        BY TriesTyped DEF IInv, Refuse, NextAddress, Dial
  <2> QED BY <2>1 DEF IInv, Refuse, TypeOK
<1>2. ReachedIsKept'
      BY NoneIsNoValue DEF IInv, Refuse, ReachedIsKept, ReachedOnOurs
<1>3. HeardIsOnFile'
      BY NoneIsNoValue DEF IInv, Refuse, HeardIsOnFile, HeardOn
<1>4. AsksFollow'
      BY DEF IInv, Refuse, NextAddress, Tries, AsksFollow
<1>5. SearchGoesOn'
      BY DEF IInv, Refuse, NextAddress, SearchGoesOn, Listed
<1> QED BY <1>1, <1>2, <1>3, <1>4, <1>5 DEF IInv

(* The contact arrived on an address it dials; if it was heard from before, *)
(* one it holds: reached_on may move, but only among those. *)
LEMMA UnansweredKeeps ==
    ASSUME IInv, NEW c \in Contact, NEW spot \in Spot, NEW saved \in BOOLEAN, Unanswered(c, spot,
       saved)
    PROVE  IInv'
<1>1. TypeOK'
  <2>1. NextAddress(dial[c], spot, TRUE) \in Dial
        BY TriesTyped DEF IInv, Unanswered, NextAddress, Dial
  <2>2. mem' \in Network /\ disk' \in Network
        BY NoteKept, SavesTyped DEF IInv, Unanswered, TypeOK
  <2> QED BY <2>1, <2>2 DEF IInv, Unanswered, TypeOK
<1>2. ReachedIsKept'
      BY DEF IInv, Unanswered, Listening, save, note_reached_on, ReachedIsKept, ReachedOnOurs, Knows
<1>3. HeardIsOnFile'
  <2>1. mem' = note_reached_on(mem, c, spot) /\ (disk' = mem' \/ disk' = disk)
        BY DEF Unanswered, save
  <2>2. heard[c] => spot \in holds[c]
        BY TriesTyped DEF IInv, Unanswered, AsksFollow, Tries, Dial, HeardIsOnFile
  <2>3. heard[c] => HeardOn(mem', c) /\ HeardOn(disk', c)
        BY <2>1, <2>2, NoteKept DEF IInv, TypeOK, HeardIsOnFile, HeardOn
  <2>4. \A b \in Contact \ {c} : HeardOn(mem, b) => HeardOn(mem', b)
        BY <2>1, NoteKept DEF IInv, TypeOK, HeardOn, Knows
  <2>5. UNCHANGED <<holds, heard>>
        BY DEF Unanswered
  <2> QED BY <2>1, <2>3, <2>4, <2>5 DEF IInv, HeardIsOnFile, HeardOn
<1>4. AsksFollow'
  <2>1. dial[c] \in Dial /\ NextAddress(dial[c], spot, TRUE) \in Dial
        BY TriesTyped DEF IInv, Unanswered, NextAddress, Dial
  <2>2. /\ NextAddress(dial[c], spot, TRUE).why = dial[c].why
        /\ NextAddress(dial[c], spot, TRUE).untried \subseteq dial[c].untried
        /\ NextAddress(dial[c], spot, TRUE).to = None
        BY <2>1 DEF NextAddress, Dial
  <2>3. /\ dial'[c] = NextAddress(dial[c], spot, TRUE)
        /\ \A b \in Contact \ {c} : dial'[b] = dial[b]
        /\ dial[c] # None
        BY DEF IInv, TypeOK, Unanswered, Tries
  <2>4. \A b \in Contact :
            /\ Knows(mem, b) => Knows(mem', b)
            /\ Knows(mem, b) /\ Knows(disk, b) => Knows(disk', b)
        BY NoteKept DEF IInv, TypeOK, Unanswered, save, Knows
  <2>5. holds' = holds
        BY DEF Unanswered
  <2>6. \A b \in Contact : dial'[b] # None =>
            /\ dial[b] # None /\ dial'[b].why = dial[b].why
            /\ dial'[b].untried \cup ({dial'[b].to} \ {None})
                  \subseteq dial[b].untried \cup ({dial[b].to} \ {None})
        BY <2>2, <2>3
  <2> SUFFICES ASSUME NEW b \in Contact, dial'[b] # None
               PROVE  /\ dial'[b].why = "accept" =>
                            holds'[b] = None /\ Knows(mem', b) /\ Knows(disk', b)
                      /\ dial'[b].why = "ask" =>
                            /\ holds'[b] # None
                            /\ dial'[b].untried \cup ({dial'[b].to} \ {None}) \subseteq holds'[b]
      BY DEF AsksFollow
  <2>7. CASE dial'[b].why = "accept"
    <3>1. dial[b] # None /\ dial[b].why = "accept"
          BY <2>6, <2>7
    <3>2. holds[b] = None /\ Knows(mem, b) /\ Knows(disk, b)
          BY <3>1 DEF IInv, AsksFollow
    <3> QED BY <2>4, <2>5, <2>7, <3>2
  <2>8. CASE dial'[b].why = "ask"
    <3>1. /\ holds[b] # None
          /\ dial[b].untried \cup ({dial[b].to} \ {None}) \subseteq holds[b]
          BY <2>6, <2>8 DEF IInv, AsksFollow
    <3> QED BY <2>5, <2>6, <2>8, <3>1
  <2> QED BY <2>7, <2>8
<1>5. SearchGoesOn'
  <2>1. dial[c] \in Dial /\ NextAddress(dial[c], spot, TRUE).spoilt
        BY TriesTyped DEF IInv, Unanswered, NextAddress, Dial
  <2>2. /\ dial'[c] = NextAddress(dial[c], spot, TRUE)
        /\ \A b \in Contact \ {c} : dial'[b] = dial[b]
        BY DEF IInv, TypeOK, Unanswered
  <2>3. \A b \in Contact \ {c} : Knows(mem', b) => Knows(mem, b)
        BY NoteKept DEF IInv, TypeOK, Unanswered, save, Knows
  <2>4. UNCHANGED <<up, holds, invited, bound>>
        BY DEF Unanswered
  <2> QED BY <2>1, <2>2, <2>3, <2>4 DEF IInv, SearchGoesOn, Listed
<1> QED BY <1>1, <1>2, <1>3, <1>4, <1>5 DEF IInv

(* The contact has not been heard from yet, and now holds what is current. *)
LEMMA AcceptAnsweredKeeps ==
    ASSUME IInv, NEW c \in Contact, NEW spot \in Spot, AcceptAnswered(c, spot)
    PROVE  IInv'
<1>1. TypeOK'
      BY DEF IInv, AcceptAnswered, save, note_reached_on, current_addresses, TypeOK, Network, Peer
<1>2. ReachedIsKept'
      BY DEF IInv, AcceptAnswered, Listening, save, note_reached_on, ReachedIsKept, ReachedOnOurs,
         Knows
<1>3. HeardIsOnFile'
      BY DEF IInv, AcceptAnswered, Tries, save, note_reached_on, HeardIsOnFile, HeardOn, Knows,
         AsksFollow
<1>4. AsksFollow'
      BY DEF IInv, AcceptAnswered, save, note_reached_on, AsksFollow, Knows, TypeOK
<1>5. SearchGoesOn'
      BY DEF IInv, AcceptAnswered, save, note_reached_on, SearchGoesOn, Listed, Knows
<1> QED BY <1>1, <1>2, <1>3, <1>4, <1>5 DEF IInv

(* It arrived on an address it holds, and reached_on says so, on file too. *)
LEMMA AskAnsweredKeeps ==
    ASSUME IInv, NEW c \in Contact, NEW spot \in Spot, AskAnswered(c, spot)
    PROVE  IInv'
<1>1. TypeOK'
      BY DEF IInv, AskAnswered, save, note_reached_on, TypeOK, Network, Peer
<1>2. ReachedIsKept'
      BY DEF IInv, AskAnswered, Listening, save, note_reached_on, ReachedIsKept, ReachedOnOurs,
         Knows
<1>3. HeardIsOnFile'
  <2>1. holds[c] # None /\ spot \in holds[c] /\ UNCHANGED holds
        BY TriesTyped DEF IInv, AskAnswered, AsksFollow, Tries
  <2>2. mem' = note_reached_on(mem, c, spot) /\ disk' = mem'
        BY DEF AskAnswered, save
  <2>3. HeardOn(mem', c) /\ HeardOn(disk', c)
        BY <2>1, <2>2, NoteKept DEF IInv, TypeOK, HeardOn
  <2>4. \A b \in Contact \ {c} : HeardOn(mem, b) => HeardOn(mem', b) /\ HeardOn(disk', b)
        BY <2>2, NoteKept DEF IInv, TypeOK, HeardOn, Knows
  <2>5. \A b \in Contact \ {c} : heard'[b] = heard[b]
        BY DEF AskAnswered, IInv, TypeOK
  <2> QED BY <2>1, <2>3, <2>4, <2>5 DEF IInv, HeardIsOnFile, HeardOn
<1>4. AsksFollow'
      BY DEF IInv, AskAnswered, save, note_reached_on, AsksFollow, Knows
<1>5. SearchGoesOn'
      BY DEF IInv, AskAnswered, save, note_reached_on, SearchGoesOn, Listed, Knows
<1> QED BY <1>1, <1>2, <1>3, <1>4, <1>5 DEF IInv

(* Nothing but the dial ends. *)
LEMMA GiveUpKeeps ==
    ASSUME IInv, NEW c \in Contact, GiveUp(c)
    PROVE  IInv'
<1>1. TypeOK'
      BY NoneIsNoValue DEF IInv, GiveUp, Exhausted, TypeOK, Network
<1>2. ReachedIsKept'
      BY NoneIsNoValue DEF IInv, GiveUp, Exhausted, ReachedIsKept
<1>3. HeardIsOnFile'
      BY NoneIsNoValue DEF IInv, GiveUp, HeardIsOnFile, HeardOn
<1>4. AsksFollow'
      BY NoneIsNoValue DEF IInv, GiveUp, Exhausted, AsksFollow, Knows
<1>5. SearchGoesOn'
      BY NoneIsNoValue DEF IInv, GiveUp, SearchGoesOn, Listed
<1> QED BY <1>1, <1>2, <1>3, <1>4, <1>5 DEF IInv

(* IInv holds at first. *)
LEMMA InitKeeps == Init => IInv
<1> SUFFICES ASSUME Init PROVE IInv
    OBVIOUS
<1>1. NetAtInit \in Network
      BY DefaultIsASpot DEF NetAtInit, Network
<1>2. TypeOK
      BY <1>1, DefaultIsASpot DEF Init, TypeOK
<1>3. ReachedIsKept
      BY DEF Init, NetAtInit, ReachedIsKept, ReachedOnOurs, Knows
<1>4. HeardIsOnFile /\ AsksFollow /\ SearchGoesOn
      BY DEF Init, HeardIsOnFile, AsksFollow, SearchGoesOn
<1> QED BY <1>2, <1>3, <1>4 DEF IInv

(* And each step keeps it. *)
LEMMA NextKeeps == IInv /\ [Next]_vars => IInv'
<1> SUFFICES ASSUME IInv, [Next]_vars PROVE IInv'
    OBVIOUS
<1>1. CASE Operator
      BY <1>1, StartKeeps, StopKeeps, RetireKeeps, UnbindKeeps, NewAddressKeeps, InvitePeerKeeps,
         AcceptKeeps DEF Operator
<1>2. ASSUME NEW c \in Contact, AcceptStarts(c) \/ AskStarts(c) \/ Proceed(c) PROVE IInv'
      BY <1>2, AcceptStartsKeeps, AskStartsKeeps, HintsFailKeeps, DiscoveryFailsKeeps, RefuseKeeps,
         UnansweredKeeps, AcceptAnsweredKeeps, AskAnsweredKeeps, GiveUpKeeps DEF Proceed
<1>3. CASE UNCHANGED vars
      BY <1>3 DEF vars, IInv, TypeOK, ReachedIsKept, HeardIsOnFile, HeardOn,
         AsksFollow, SearchGoesOn, Listed
<1> QED BY <1>1, <1>2, <1>3 DEF Next

(* IInv is an inductive invariant of the specification. *)
THEOREM Inductive == Spec => []IInv
<1> QED BY InitKeeps, NextKeeps, PTL DEF Spec

(* Every variable has its type in every reachable state. *)
THEOREM TypeCorrect == Spec => []TypeOK
<1>1. IInv => TypeOK
      BY DEF IInv
<1> QED BY <1>1, Inductive, PTL

(* Whoever has asked us and been answered holds an address that is on file, *)
(* whatever is added, retired, and dropped as drained.                      *)
THEOREM HeardFromAreKept == Spec => []HeardFromIsKept
<1>1. IInv => HeardFromIsKept
  <2> SUFFICES ASSUME IInv, NEW c \in Contact, heard[c] PROVE ~Stranded(c)
      BY DEF HeardFromIsKept
  <2>1. holds[c] \in SUBSET Spot /\ HeardOn(disk, c)
        BY ValuesTyped DEF IInv, HeardIsOnFile
  <2>2. disk.peers[c].reached_on \in disk.keys \cup {None}
        BY <2>1 DEF IInv, ReachedIsKept, ReachedOnOurs, HeardOn
  <2> QED BY <2>1, <2>2, NoneIsNoValue DEF HeardOn, Stranded
<1> QED BY <1>1, Inductive, PTL

(* Who cannot reach us for want of an address had none that is bound. *)
THEOREM FailuresHaveACause == Spec => []FailureHasACause
<1>1. IInv => FailureHasACause
      BY NoneIsNoValue DEF IInv, FailureHasACause, SearchGoesOn, Exhausted, TypeOK
<1> QED BY <1>1, Inductive, PTL
=============================================================================
