-------------------------- MODULE ResolutionProofs --------------------------
(***************************************************************************)
(* Theorems about Resolution, for any sirjis, devices, names and times.    *)
(*                                                                         *)
(* A device decides by the ticket alone, so that whoever it serves is      *)
(* acquainted with its sirji has to follow from where the ticket came      *)
(* from: the issuer's address is in the device's config, addresses belong  *)
(* to one sirji each, and a sirji signs for those it is acquainted with.   *)
(* That is IInv, and it is inductive.                                      *)
(***************************************************************************)
EXTENDS ResolutionImplements, WellFoundedInduction, TLAPS

USE NoneIsNoValue, TimesAreNaturals DEF Service

(* A handshake key that is current is one of the sirji's.                   *)
LEMMA CurrentIsKey ==
    ASSUME NEW s \in Sirji
    PROVE  current_addresses(s) \subseteq Keys(s) /\ signer(s) \subseteq Keys(s)
  BY DEF current_addresses, signer, current, Keys

(* A question that is asked is a record.                                    *)
LEMMA AskedTyped ==
    ASSUME TypeOK, NEW j \in Asked
    PROVE  j \in Ask /\ ask[j] \in Question
<1>1. j \in Ask /\ ask[j] # None
      BY DEF Asked
<1>2. ask[j] \in Question \cup {None}
      BY <1>1 DEF TypeOK
<1> QED BY <1>1, <1>2

-----------------------------------------------------------------------------
(* Steps of the addresses *)

(* A new address is added to those of one sirji, and was nobody's.          *)
LEMMA NewAddressKeys ==
    ASSUME TypeOK, NEW s \in Sirji, NEW k \in Key, NewAddress(s, k)
    PROVE  /\ addresses' \in [Sirji -> Seq(HandshakeKey)]
           /\ \A r \in Sirji : k \notin Keys(r)
           /\ \A r \in Sirji : Keys(r)' = IF r = s THEN Keys(r) \cup {k} ELSE Keys(r)
<1> DEFINE hk == [key |-> k, retired |-> FALSE]
<1>1. hk \in HandshakeKey
      BY DEF HandshakeKey
<1>2. addresses[s] \in Seq(HandshakeKey)
      BY DEF TypeOK
<1>3. addresses' = [addresses EXCEPT ![s] = Append(@, hk)]
      BY DEF NewAddress
<1>4. addresses' \in [Sirji -> Seq(HandshakeKey)]
      BY <1>1, <1>2, <1>3 DEF TypeOK
<1>5. \A r \in Sirji : r # s => addresses'[r] = addresses[r]
      BY <1>3 DEF TypeOK
<1>6. addresses'[s] = Append(addresses[s], hk)
      BY <1>3 DEF TypeOK
<1>7. /\ DOMAIN addresses'[s] = DOMAIN addresses[s] \cup {Len(addresses[s]) + 1}
      /\ \A i \in DOMAIN addresses[s] : addresses'[s][i] = addresses[s][i]
      /\ addresses'[s][Len(addresses[s]) + 1] = hk
      BY <1>1, <1>2, <1>6
<1>8. Keys(s)' = Keys(s) \cup {k}
      BY <1>7 DEF Keys
<1>9. \A r \in Sirji : r # s => Keys(r)' = Keys(r)
      BY <1>5 DEF Keys
<1>10. \A r \in Sirji : k \notin Keys(r)
       BY DEF NewAddress, Keys
<1> QED BY <1>4, <1>8, <1>9, <1>10

(* An address that is retired stays where it was.                           *)
LEMMA RetireKeys ==
    ASSUME TypeOK, NEW s \in Sirji, NEW i \in current(s), Retire(s, i)
    PROVE  /\ addresses' \in [Sirji -> Seq(HandshakeKey)]
           /\ \A r \in Sirji : Keys(r)' = Keys(r)
<1>1. /\ addresses[s] \in Seq(HandshakeKey)
      /\ i \in DOMAIN addresses[s]
      /\ addresses[s][i] \in HandshakeKey
      BY DEF TypeOK, current
<1> DEFINE hk == [addresses[s][i] EXCEPT !.retired = TRUE]
<1>2. hk \in HandshakeKey /\ hk.key = addresses[s][i].key
      BY <1>1 DEF HandshakeKey
<1>3. addresses' = [addresses EXCEPT ![s] = [@ EXCEPT ![i] = hk]]
      BY DEF Retire
<1> HIDE DEF hk
<1>4. addresses'[s] = [addresses[s] EXCEPT ![i] = hk]
      BY <1>3 DEF TypeOK
<1>5. addresses'[s] \in Seq(HandshakeKey)
      BY <1>1, <1>2, <1>4
<1>6. \A r \in Sirji : r # s => addresses'[r] = addresses[r]
      BY <1>3 DEF TypeOK
<1>7. addresses' \in [Sirji -> Seq(HandshakeKey)]
      BY <1>3, <1>4, <1>5 DEF TypeOK
<1>8. /\ DOMAIN addresses'[s] = DOMAIN addresses[s]
      /\ \A x \in DOMAIN addresses[s] : addresses'[s][x].key = addresses[s][x].key
      BY <1>1, <1>2, <1>4
<1>9. Keys(s)' = Keys(s)
      BY <1>8 DEF Keys
<1>10. \A r \in Sirji : r # s => Keys(r)' = Keys(r)
       BY <1>6 DEF Keys
<1> QED BY <1>7, <1>9, <1>10

(* The parts of IInv that are about keys outlive a step that only adds to   *)
(* them, when it changes nothing else they speak of.                        *)
LEMMA KeysGrow ==
    ASSUME ParentsKnown, TicketsVouched, ServedIsAcquainted,
           \A r \in Sirji : Keys(r) \subseteq Keys(r)',
           UNCHANGED <<parent, minted, served, now>>
    PROVE  ParentsKnown' /\ TicketsVouched' /\ ServedIsAcquainted'
<1>1. ParentsKnown'
      BY ParentsAreSirjis DEF ParentsKnown, enrolled
<1>2. TicketsVouched'
      BY DEF TicketsVouched, Acquainted
<1>3. ServedIsAcquainted'
      BY DEF ServedIsAcquainted, Acquainted
<1> QED BY <1>1, <1>2, <1>3

(* Nor do they change when the addresses, and what devices know of them, do *)
(* not.                                                                     *)
LEMMA KeysKept ==
    ASSUME KeysApart, ParentsKnown, UNCHANGED <<addresses, parent>>
    PROVE  /\ KeysApart' /\ ParentsKnown'
           /\ \A s \in Sirji : Keys(s)' = Keys(s)
<1>1. \A s \in Sirji : Keys(s)' = Keys(s)
      BY DEF Keys
<1>2. KeysApart'
      BY <1>1 DEF KeysApart
<1>3. ParentsKnown'
      BY <1>1, ParentsAreSirjis DEF ParentsKnown, enrolled
<1> QED BY <1>1, <1>2, <1>3

(* The parts of IInv that are not about questions outlive a step that only  *)
(* changes those, or who is live.                                           *)
LEMMA OthersKept ==
    ASSUME KeysApart, ParentsKnown, TicketsVouched, ServedIsAcquainted,
           UNCHANGED <<addresses, parent, minted, served, now>>
    PROVE  KeysApart' /\ ParentsKnown' /\ TicketsVouched' /\ ServedIsAcquainted'
<1>1. KeysApart' /\ \A r \in Sirji : Keys(r) \subseteq Keys(r)'
      BY KeysKept
<1> QED BY <1>1, KeysGrow

(* No question is new, so no asker is.                                      *)
LEMMA AskersKept ==
    ASSUME AskersAcquainted, \A j \in Ask : ask'[j] \in {ask[j], None}
    PROVE  AskersAcquainted'
  BY DEF AskersAcquainted, Asked, Acquainted

-----------------------------------------------------------------------------
(* One lemma per kind of step *)

(* A new address. *)
LEMMA NewAddressKept ==
    ASSUME IInv, NEW s \in Sirji, NEW k \in Key, NewAddress(s, k)
    PROVE  IInv'
<1> USE DEF IInv
<1>1. TypeOK'
      BY NewAddressKeys DEF NewAddress, TypeOK, enrolled
<1>2. KeysApart'
      BY NewAddressKeys DEF KeysApart
<1>3. ParentsKnown' /\ TicketsVouched' /\ ServedIsAcquainted'
  <2>1. \A r \in Sirji : Keys(r) \subseteq Keys(r)'
        BY NewAddressKeys
  <2>2. UNCHANGED <<parent, minted, served, now>>
        BY DEF NewAddress
  <2> QED BY <2>1, <2>2, KeysGrow
<1>4. AskersAcquainted'
      BY AskersKept DEF NewAddress
<1> QED BY <1>1, <1>2, <1>3, <1>4

(* An address is retired. *)
LEMMA RetireKept ==
    ASSUME IInv, NEW s \in Sirji, NEW i \in current(s), Retire(s, i)
    PROVE  IInv'
<1> USE DEF IInv
<1>1. \A j \in Ask : ask'[j] \in {ask[j], None}
      BY DEF Retire
<1>2. ask' \in [Ask -> Question \cup {None}]
  <2>1. DOMAIN ask' = Ask /\ ask' = [j \in Ask |-> ask'[j]]
        BY DEF Retire
  <2> QED BY <1>1, <2>1 DEF TypeOK
<1>3. live' \subseteq enrolled'
      BY DEF Retire, TypeOK, enrolled
<1>4. TypeOK'
      BY <1>2, <1>3, RetireKeys DEF Retire, TypeOK
<1>5. KeysApart'
      BY RetireKeys DEF KeysApart
<1>6. ParentsKnown' /\ TicketsVouched' /\ ServedIsAcquainted'
  <2>1. \A r \in Sirji : Keys(r) \subseteq Keys(r)'
        BY RetireKeys
  <2>2. UNCHANGED <<parent, minted, served, now>>
        BY DEF Retire
  <2> QED BY <2>1, <2>2, KeysGrow
<1>7. AskersAcquainted'
      BY <1>1, AskersKept
<1> QED BY <1>4, <1>5, <1>6, <1>7

(* A device enrols. *)
LEMMA EnrolKept ==
    ASSUME IInv, NEW d \in Device, Enrol(d)
    PROVE  IInv'
<1> USE DEF IInv
<1>1. /\ parent' = [parent EXCEPT ![d] = current_addresses(Parent[d])]
      /\ UNCHANGED <<addresses, live, ask, minted, served, now>>
      BY DEF Enrol
<1>2. Parent[d] \in Sirji
      BY ParentsAreSirjis
<1>3. current_addresses(Parent[d]) \subseteq Keys(Parent[d])
      BY <1>2, CurrentIsKey
<1>4. Keys(Parent[d]) \subseteq Key
  <2> SUFFICES ASSUME NEW i \in DOMAIN addresses[Parent[d]]
               PROVE  addresses[Parent[d]][i].key \in Key
      BY DEF Keys
  <2>1. addresses[Parent[d]] \in Seq(HandshakeKey)
        BY <1>2 DEF TypeOK
  <2>2. addresses[Parent[d]][i] \in HandshakeKey
        BY <2>1
  <2> QED BY <2>2 DEF HandshakeKey
<1>5. parent' \in [Device -> (SUBSET Key) \cup {None}]
      BY <1>1, <1>3, <1>4 DEF TypeOK
<1>6. live' \subseteq enrolled'
  <2>1. d \notin live
        BY DEF Enrol, TypeOK, enrolled
  <2> QED BY <1>1, <2>1 DEF TypeOK, enrolled
<1>7. TypeOK'
      BY <1>1, <1>5, <1>6 DEF TypeOK
<1>8. \A r \in Sirji : Keys(r)' = Keys(r)
      BY <1>1 DEF Keys
<1>9. ParentsKnown'
  <2> SUFFICES ASSUME NEW x \in Device, parent'[x] # None
               PROVE  parent'[x] \subseteq Keys(Parent[x])'
      BY DEF ParentsKnown, enrolled
  <2>1. Parent[x] \in Sirji
        BY ParentsAreSirjis
  <2>2. CASE x = d
        BY <1>1, <1>3, <1>8, <2>1, <2>2 DEF TypeOK
  <2>3. CASE x # d
        BY <1>1, <1>8, <2>1, <2>3 DEF TypeOK, ParentsKnown, enrolled
  <2> QED BY <2>2, <2>3
<1>10. KeysApart'
       BY <1>8 DEF KeysApart
<1>11. TicketsVouched' /\ ServedIsAcquainted'
       BY <1>1, <1>8 DEF TicketsVouched, ServedIsAcquainted, Acquainted
<1>12. AskersAcquainted'
       BY <1>1 DEF AskersAcquainted, Asked, Acquainted
<1> QED BY <1>7, <1>9, <1>10, <1>11, <1>12

(* A device comes or goes. *)
LEMMA LiveKept ==
    ASSUME IInv, NEW d \in Device, Comes(d) \/ Goes(d)
    PROVE  IInv'
<1> USE DEF IInv
<1>1. UNCHANGED <<addresses, parent, ask, minted, served, now>>
      BY DEF Comes, Goes
<1>2. TypeOK'
      BY <1>1 DEF Comes, Goes, TypeOK, enrolled
<1>3. AskersAcquainted'
      BY <1>1, AskersKept
<1> QED BY <1>1, <1>2, <1>3, OthersKept

(* Time passes. *)
LEMMA TickKept ==
    ASSUME IInv, Tick
    PROVE  IInv'
<1> USE DEF IInv
<1>1. UNCHANGED <<addresses, parent, live, ask, minted, served>>
      BY DEF Tick
<1>2. now \in 0 .. MaxNow /\ now < MaxNow /\ now' = now + 1
      BY DEF Tick, TypeOK
<1>3. TypeOK'
      BY <1>1, <1>2 DEF TypeOK, enrolled
<1>4. KeysApart' /\ ParentsKnown'
      BY <1>1, KeysKept
<1>5. TicketsVouched'
  <2> SUFFICES ASSUME NEW m \in minted
               PROVE  /\ m.at <= now' /\ m.ticket.valid_until = m.at + LIFETIME
                      /\ \E s \in Sirji : /\ m.ticket.issuer \in Keys(s)'
                                          /\ Acquainted(s, m.ticket.caller, m.ticket.alias)
      BY <1>1 DEF TicketsVouched, Acquainted
  <2>1. m.at \in Nat
        BY DEF TypeOK
  <2>2. /\ m.at <= now /\ m.ticket.valid_until = m.at + LIFETIME
        /\ \E s \in Sirji : /\ m.ticket.issuer \in Keys(s)
                            /\ Acquainted(s, m.ticket.caller, m.ticket.alias)
        BY DEF TicketsVouched
  <2>3. \A s \in Sirji : Keys(s)' = Keys(s)
        BY <1>1 DEF Keys
  <2>4. m.at <= now'
        BY <1>2, <2>1, <2>2
  <2> QED BY <2>2, <2>3, <2>4
<1>6. ServedIsAcquainted'
      BY <1>1 DEF ServedIsAcquainted, Acquainted
<1>7. AskersAcquainted'
      BY <1>1, AskersKept
<1> QED BY <1>3, <1>4, <1>5, <1>6, <1>7

(* A device asks, of its own sirji or through it of another. *)
LEMMA AsksKept ==
    ASSUME IInv, NEW j \in Ask, NEW d \in Device, NEW name \in Name,
           \/ ResolveLocal(j, d, name)
           \/ \E r \in Sirji : ResolveFor(j, d, name, r)
    PROVE  IInv'
<1> USE DEF IInv
<1>1. PICK s \in Sirji, alias \in Alias \cup {None} :
           Asks(j, d, name, s, alias) /\ Acquainted(s, d, alias)
  <2>1. Parent[d] \in Sirji
        BY ParentsAreSirjis
  <2>2. CASE ResolveLocal(j, d, name)
        BY <2>1, <2>2 DEF ResolveLocal, Acquainted
  <2>3. ASSUME NEW r \in Sirji, ResolveFor(j, d, name, r)
        PROVE  /\ Called[r][Parent[d]] \in Alias \cup {None}
               /\ Asks(j, d, name, r, Called[r][Parent[d]])
               /\ Acquainted(r, d, Called[r][Parent[d]])
        BY <2>1, <2>3, AliasesAreDistinct DEF ResolveFor, Acquainted
  <2> QED BY <2>2, <2>3
<1> DEFINE q == [caller |-> d, name |-> name, at |-> s, alias |-> alias,
                 stage |-> "locate", found |-> None, ticket |-> None]
<1>2. q \in Question
      BY DEF Question
<1>3. /\ ask' = [ask EXCEPT ![j] = q]
      /\ UNCHANGED <<addresses, parent, live, minted, served, now>>
      BY <1>1 DEF Asks
<1>4. Acquainted(q.at, q.caller, q.alias)
      BY <1>1
<1> HIDE DEF q
<1>5. TypeOK'
      BY <1>2, <1>3 DEF TypeOK, enrolled
<1>6. AskersAcquainted'
      BY <1>3, <1>4 DEF AskersAcquainted, Asked, Acquainted, TypeOK
<1> QED BY <1>3, <1>5, <1>6, OthersKept

(* A question comes to nothing, or a step further. *)
LEMMA LocateKept ==
    ASSUME IInv, NEW j \in Ask,
           Fails(j) \/ LocateLive(j) \/ \E d \in Device : LocateDevice(j, d)
    PROVE  IInv'
<1> USE DEF IInv
<1>1. UNCHANGED <<addresses, parent, live, minted, served, now>>
      BY DEF Fails, LocateLive, LocateDevice
<1>2. j \in Asked /\ ask[j] \in Question
      BY AskedTyped DEF Fails, LocateLive, LocateDevice
<1>3. PICK q \in Question \cup {None} :
           /\ ask' = [ask EXCEPT ![j] = q]
           /\ q # None => /\ q.at = ask[j].at /\ q.caller = ask[j].caller
                          /\ q.alias = ask[j].alias
  <2>1. CASE Fails(j)
        BY <2>1 DEF Fails
  <2>2. CASE LocateLive(j)
    <3> DEFINE q == [ask[j] EXCEPT !.stage = "sign"]
    <3>1. q \in Question /\ q.at = ask[j].at /\ q.caller = ask[j].caller /\ q.alias = ask[j].alias
          BY <1>2 DEF Question
    <3>2. ask' = [ask EXCEPT ![j] = q]
          BY <2>2 DEF LocateLive
    <3> QED BY <3>1, <3>2
  <2>3. ASSUME NEW d \in Device, LocateDevice(j, d)
        PROVE  \E q \in Question \cup {None} :
                  /\ ask' = [ask EXCEPT ![j] = q]
                  /\ q # None => /\ q.at = ask[j].at /\ q.caller = ask[j].caller
                                 /\ q.alias = ask[j].alias
    <3> DEFINE q == [ask[j] EXCEPT !.found = d, !.stage = "live"]
    <3>1. q \in Question /\ q.at = ask[j].at /\ q.caller = ask[j].caller /\ q.alias = ask[j].alias
          BY <1>2 DEF Question
    <3>2. ask' = [ask EXCEPT ![j] = q]
          BY <2>3 DEF LocateDevice, TypeOK
    <3> QED BY <3>1, <3>2
  <2> QED BY <2>1, <2>2, <2>3
<1>4. TypeOK'
      BY <1>1, <1>3 DEF TypeOK, enrolled
<1>5. AskersAcquainted'
      BY <1>2, <1>3 DEF AskersAcquainted, Asked, Acquainted, TypeOK
<1> QED BY <1>1, <1>4, <1>5, OthersKept

(* A ticket is signed. *)
LEMMA SignKept ==
    ASSUME IInv, NEW j \in Ask, NEW k \in Key, LocateSign(j, k)
    PROVE  IInv'
<1> USE DEF IInv
<1>1. j \in Asked /\ ask[j] \in Question
      BY AskedTyped DEF LocateSign
<1>2. /\ ask[j].at \in Sirji /\ ask[j].name \in Name /\ ask[j].caller \in Device
      /\ ask[j].alias \in Alias \cup {None}
      BY <1>1 DEF Question
<1>3. now \in Nat
      BY DEF TypeOK
<1> DEFINE t == mint(k, ask[j].name, ask[j].caller, ask[j].alias)
           q == [ask[j] EXCEPT !.ticket = t, !.stage = "answered"]
           m == [ticket |-> t, at |-> now]
<1>4. t \in Ticket
      BY <1>2, <1>3 DEF mint, Ticket
<1>5. /\ t.issuer = k /\ t.caller = ask[j].caller /\ t.alias = ask[j].alias
      /\ t.valid_until = now + LIFETIME
      BY DEF mint
<1>6. /\ ask' = [ask EXCEPT ![j] = q]
      /\ minted' = minted \cup {m}
      /\ UNCHANGED <<addresses, parent, live, served, now>>
      BY DEF LocateSign, TypeOK
<1>7. k \in Keys(ask[j].at)
      BY <1>2, CurrentIsKey DEF LocateSign
<1> HIDE DEF t
<1>8. q \in Question /\ q.at = ask[j].at /\ q.caller = ask[j].caller /\ q.alias = ask[j].alias
      BY <1>1, <1>4 DEF Question
<1>9. m \in [ticket : Ticket, at : Nat] /\ m.ticket = t /\ m.at = now
      BY <1>3, <1>4
<1> HIDE DEF q, m
<1>10. TypeOK'
       BY <1>6, <1>8, <1>9 DEF TypeOK, enrolled
<1>11. AskersAcquainted'
       BY <1>1, <1>6, <1>8 DEF AskersAcquainted, Asked, Acquainted, TypeOK
<1>12. KeysApart' /\ ParentsKnown'
       BY <1>6, KeysKept
<1>13. TicketsVouched'
  <2>1. \A s \in Sirji : Keys(s)' = Keys(s)
        BY <1>6 DEF Keys
  <2>2. Acquainted(ask[j].at, t.caller, t.alias)
        BY <1>1, <1>5 DEF AskersAcquainted
  <2>3. m.at <= now /\ m.ticket.valid_until = m.at + LIFETIME
        BY <1>3, <1>5, <1>9
  <2> SUFFICES ASSUME NEW x \in minted \cup {m}
               PROVE  /\ x.at <= now /\ x.ticket.valid_until = x.at + LIFETIME
                      /\ \E s \in Sirji : /\ x.ticket.issuer \in Keys(s)
                                          /\ Acquainted(s, x.ticket.caller, x.ticket.alias)
      BY <1>6, <2>1 DEF TicketsVouched, Acquainted
  <2>4. CASE x = m
        BY <1>2, <1>5, <1>7, <1>9, <2>2, <2>3, <2>4
  <2>5. CASE x \in minted
        BY <2>5 DEF TicketsVouched
  <2> QED BY <2>4, <2>5
<1>14. ServedIsAcquainted'
       BY <1>6 DEF ServedIsAcquainted, Acquainted
<1> QED BY <1>10, <1>11, <1>12, <1>13, <1>14

(* A device lets somebody in. *)
LEMMA KnockKept ==
    ASSUME IInv, NEW d \in Device, NEW e \in Device, NEW m \in minted, Knock(d, m, e)
    PROVE  IInv'
<1> USE DEF IInv
<1> DEFINE x == [device |-> d, caller |-> e, ticket |-> m.ticket, at |-> now]
<1>1. /\ served' = x
      /\ UNCHANGED <<addresses, parent, live, ask, minted, now>>
      BY DEF Knock
<1>2. /\ d \in enrolled
      /\ m.ticket.issuer \in parent[d]
      /\ e = m.ticket.caller
      /\ now <= m.ticket.valid_until
      /\ m.ticket.name = NameOf[d]
      BY DEF Knock, Opens, verify
<1>3. m \in [ticket : Ticket, at : Nat] /\ now \in Nat
      BY DEF TypeOK
<1>4. x \in [device : Device, caller : Device, ticket : Ticket, at : Nat]
      BY <1>3
<1>5. TypeOK'
      BY <1>1, <1>4 DEF TypeOK, enrolled
<1>6. Parent[d] \in Sirji /\ m.ticket.issuer \in Keys(Parent[d])
      BY <1>2, ParentsAreSirjis DEF ParentsKnown
<1>7. PICK s \in Sirji : /\ m.ticket.issuer \in Keys(s)
                         /\ Acquainted(s, m.ticket.caller, m.ticket.alias)
      BY DEF TicketsVouched
<1>8. s = Parent[d]
      BY <1>6, <1>7 DEF KeysApart
<1>9. m.at <= now /\ now <= m.at + LIFETIME
      BY <1>2 DEF TicketsVouched
<1>10. ServedIsAcquainted'
  <2>1. /\ x.ticket = m.ticket /\ x.device = d /\ x.caller = e /\ x.at = now
        OBVIOUS
  <2>2. m \in minted'
        BY <1>1
  <2> HIDE DEF x
  <2> QED BY <1>1, <1>2, <1>7, <1>8, <1>9, <2>1, <2>2 DEF ServedIsAcquainted, Acquainted
<1>11. KeysApart' /\ ParentsKnown' /\ TicketsVouched'
  <2>1. KeysApart' /\ ParentsKnown' /\ \A r \in Sirji : Keys(r)' = Keys(r)
        BY <1>1, KeysKept
  <2> QED BY <1>1, <2>1 DEF TicketsVouched, Acquainted
<1>12. AskersAcquainted'
       BY <1>1, AskersKept
<1> QED BY <1>5, <1>10, <1>11, <1>12

-----------------------------------------------------------------------------
(* Each sirji starts with an address of its own.                            *)
LEMMA InitInductive == Init => IInv
<1> SUFFICES ASSUME Init PROVE IInv
    OBVIOUS
<1>1. ASSUME NEW s \in Sirji
      PROVE  /\ addresses[s] \in Seq(HandshakeKey)
             /\ \E k \in Key : /\ addresses[s] = <<[key |-> k, retired |-> FALSE]>>
                              /\ Keys(s) = {k}
  <2>1. HomeKey[s] \in Key
        BY HomeKeysAreFresh
  <2>2. PICK k \in Key : addresses[s] = <<[key |-> k, retired |-> FALSE]>>
        BY <2>1 DEF Init
  <2> DEFINE hk == [key |-> k, retired |-> FALSE]
  <2>3. hk \in HandshakeKey /\ hk.key = k
        BY DEF HandshakeKey
  <2> HIDE DEF hk
  <2>4. addresses[s] = <<hk>>
        BY <2>2 DEF hk
  <2>5. /\ addresses[s] \in Seq(HandshakeKey)
        /\ DOMAIN addresses[s] = {1} /\ addresses[s][1] = hk
        BY <2>3, <2>4
  <2>6. Keys(s) = {k}
        BY <2>3, <2>5 DEF Keys
  <2> QED BY <2>2, <2>5, <2>6
<1>2. addresses \in [Sirji -> Seq(HandshakeKey)]
  <2>1. addresses = [s \in Sirji |-> addresses[s]]
        BY DEF Init
  <2> QED BY <1>1, <2>1
<1>3. \A s \in Sirji : Keys(s) = {HomeKey[s]}
  <2> SUFFICES ASSUME NEW s \in Sirji PROVE Keys(s) = {HomeKey[s]}
      OBVIOUS
  <2>1. addresses[s] = <<[key |-> HomeKey[s], retired |-> FALSE]>>
        BY DEF Init
  <2>2. DOMAIN addresses[s] = {1} /\ addresses[s][1].key = HomeKey[s]
        BY <2>1
  <2> QED BY <2>2 DEF Keys
<1>4. KeysApart
  <2>1. \A s, r \in Sirji : s # r => HomeKey[s] # HomeKey[r]
        BY HomeKeysAreFresh
  <2> QED BY <1>3, <2>1 DEF KeysApart
<1>5. TypeOK
  <2>1. /\ parent = [d \in Device |-> None] /\ live = {} /\ ask = [j \in Ask |-> None]
        /\ minted = {} /\ served = None /\ now = 0
        BY DEF Init
  <2>2. /\ parent \in [Device -> (SUBSET Key) \cup {None}]
        /\ ask \in [Ask -> Question \cup {None}]
        BY <2>1
  <2>3. now \in 0 .. MaxNow
        BY <2>1
  <2> QED BY <1>2, <2>1, <2>2, <2>3 DEF TypeOK
<1> QED BY <1>4, <1>5
        DEF IInv, Init, ParentsKnown, AskersAcquainted, TicketsVouched,
            ServedIsAcquainted, enrolled, Asked

(* Every step keeps IInv.                                                   *)
LEMMA NextInductive == IInv /\ [Next]_vars => IInv'
<1> SUFFICES ASSUME IInv, [Next]_vars PROVE IInv'
    OBVIOUS
<1>1. ASSUME NEW s \in Sirji, NEW k \in Key, NewAddress(s, k) PROVE IInv'
      BY <1>1, NewAddressKept
<1>2. ASSUME NEW s \in Sirji, NEW i \in current(s), Retire(s, i) PROVE IInv'
      BY <1>2, RetireKept
<1>3. ASSUME NEW d \in Device, Enrol(d) PROVE IInv'
      BY <1>3, EnrolKept
<1>4. ASSUME NEW d \in Device, Comes(d) \/ Goes(d) PROVE IInv'
      BY <1>4, LiveKept
<1>5. ASSUME NEW j \in Ask, Resolve(j) PROVE IInv'
      BY <1>5, AsksKept, LocateKept, SignKept DEF Resolve
<1>6. ASSUME NEW d \in Device, NEW e \in Device, NEW m \in minted, Knock(d, m, e) PROVE IInv'
      BY <1>6, KnockKept
<1>7. CASE Tick
      BY <1>7, TickKept
<1>8. CASE UNCHANGED vars
  <2>1. TypeOK'
        BY <1>8 DEF IInv, TypeOK, vars, enrolled
  <2>2. AskersAcquainted'
        BY <1>8, AskersKept DEF IInv, vars
  <2> QED BY <1>8, <2>1, <2>2, OthersKept DEF IInv, vars
<1> QED BY <1>1, <1>2, <1>3, <1>4, <1>5, <1>6, <1>7, <1>8 DEF Next

(* The inductive invariant: what a sirji has been asked, and what it has    *)
(* signed, is for somebody it is acquainted with, and a device trusts the   *)
(* addresses of its own sirji only (answer, locate, Ticket::verify).        *)
THEOREM Inductive == Spec => []IInv
  BY InitInductive, NextInductive, PTL DEF Spec

(* Whoever a device serves presented a ticket its own sirji made out to     *)
(* them, for this device's name, within its lifetime, and is of the same    *)
(* sirji or of one that sirji knows by the alias on the ticket (handle,     *)
(* Ticket::verify, locate).                                                 *)
THEOREM ServedAreAcquainted == Spec => []ServedIsAcquainted
<1>1. IInv => ServedIsAcquainted
      BY DEF IInv
<1> QED BY <1>1, Inductive, PTL

(* Type correctness: among the rest, a device that is live has enrolled.    *)
THEOREM TypeCorrect == Spec => []TypeOK
<1>1. IInv => TypeOK
      BY DEF IInv
<1> QED BY <1>1, Inductive, PTL

-----------------------------------------------------------------------------
(* Answers *)


(* Addresses stay where they are, retired ones stay retired, and a new one  *)
(* comes last.                                                              *)
Ages(s) ==
    /\ \A i \in DOMAIN addresses[s] :
          i \in DOMAIN addresses'[s] /\ addresses'[s][i].key = addresses[s][i].key
    /\ Retired(s) \subseteq Retired(s)'
    /\ \A j \in current(s)' : j \in current(s) \/ \A i \in DOMAIN addresses[s] : i <= j

ParentsStay == \A d \in enrolled : parent'[d] = parent[d]

LEMMA NothingAges ==
    ASSUME UNCHANGED addresses
    PROVE  \A s \in Sirji : Ages(s)
  BY DEF Ages, Retired, current

LEMMA NewAddressAges ==
    ASSUME TypeOK, NEW s \in Sirji, NEW k \in Key, NewAddress(s, k)
    PROVE  \A r \in Sirji : Ages(r)
<1> DEFINE hk == [key |-> k, retired |-> FALSE]
<1>1. /\ hk \in HandshakeKey /\ hk.key = k /\ hk.retired = FALSE
      /\ addresses[s] \in Seq(HandshakeKey)
      BY DEF HandshakeKey, TypeOK
<1>2. addresses' = [addresses EXCEPT ![s] = Append(@, hk)]
      BY DEF NewAddress
<1> HIDE DEF hk
<1>3. /\ addresses'[s] = Append(addresses[s], hk)
      /\ \A r \in Sirji : r # s => addresses'[r] = addresses[r]
      BY <1>2 DEF TypeOK
<1>4. /\ DOMAIN addresses[s] = 1 .. Len(addresses[s]) /\ Len(addresses[s]) \in Nat
      /\ DOMAIN addresses'[s] = 1 .. Len(addresses[s]) + 1
      /\ \A i \in DOMAIN addresses[s] : addresses'[s][i] = addresses[s][i]
      /\ addresses'[s][Len(addresses[s]) + 1] = hk
      BY <1>1, <1>3
<1>5. Retired(s) \subseteq Retired(s)'
      BY <1>4 DEF Retired, current
<1>6. ASSUME NEW j \in current(s)'
      PROVE  j \in current(s) \/ \A i \in DOMAIN addresses[s] : i <= j
      BY <1>4 DEF current
<1>7. Ages(s)
      BY <1>4, <1>5, <1>6 DEF Ages
<1>8. ASSUME NEW r \in Sirji, r # s PROVE Ages(r)
      BY <1>3, <1>8 DEF Ages, Retired, current
<1> QED BY <1>7, <1>8

LEMMA RetireAges ==
    ASSUME TypeOK, NEW s \in Sirji, NEW i \in current(s), Retire(s, i)
    PROVE  \A r \in Sirji : Ages(r)
<1>1. /\ addresses[s] \in Seq(HandshakeKey)
      /\ i \in DOMAIN addresses[s]
      /\ addresses[s][i] \in HandshakeKey
      BY DEF TypeOK, current
<1> DEFINE hk == [addresses[s][i] EXCEPT !.retired = TRUE]
<1>2. hk \in HandshakeKey /\ hk.key = addresses[s][i].key /\ hk.retired
      BY <1>1 DEF HandshakeKey
<1>3. addresses' = [addresses EXCEPT ![s] = [@ EXCEPT ![i] = hk]]
      BY DEF Retire
<1> HIDE DEF hk
<1>4. /\ addresses'[s] = [addresses[s] EXCEPT ![i] = hk]
      /\ \A r \in Sirji : r # s => addresses'[r] = addresses[r]
      BY <1>3 DEF TypeOK
<1>5. /\ DOMAIN addresses'[s] = DOMAIN addresses[s]
      /\ addresses'[s][i] = hk
      /\ \A x \in DOMAIN addresses[s] : x # i => addresses'[s][x] = addresses[s][x]
      BY <1>1, <1>4
<1>6. \A x \in DOMAIN addresses[s] : addresses'[s][x].key = addresses[s][x].key
      BY <1>2, <1>5
<1>7. current(s)' \subseteq current(s)
      BY <1>2, <1>5 DEF current
<1>8. Retired(s) \subseteq Retired(s)'
      BY <1>5, <1>6, <1>7 DEF Retired
<1>9. Ages(s)
      BY <1>5, <1>6, <1>7, <1>8 DEF Ages
<1>10. ASSUME NEW r \in Sirji, r # s PROVE Ages(r)
       BY <1>4, <1>10 DEF Ages, Retired, current
<1> QED BY <1>9, <1>10

(* A set of positions has a first one.                                      *)
LEMMA LeastOfNaturals ==
    ASSUME NEW C \in SUBSET Nat, C # {}
    PROVE  \E i \in C : \A j \in C : i <= j
<1>1. PICK i \in C : \A j \in C : <<j, i>> \notin OpToRel(<, Nat)
      BY NatLessThanWellFounded, WFMin
<1>2. \A j \in C : ~(j < i)
      BY <1>1 DEF OpToRel
<1> QED BY <1>2

(* What was first when a device enrolled stays ahead of what is current.    *)
LEMMA FirstStays ==
    ASSUME FirstIsKnown, \A s \in Sirji : Ages(s), ParentsStay,
           NEW d \in enrolled
    PROVE  \E i \in DOMAIN addresses'[Parent[d]] :
              /\ addresses'[Parent[d]][i].key \in parent'[d]
              /\ \A j \in current(Parent[d])' : i <= j
<1>1. d \in Device /\ Parent[d] \in Sirji
      BY ParentsAreSirjis DEF enrolled
<1>2. PICK i \in DOMAIN addresses[Parent[d]] :
              /\ addresses[Parent[d]][i].key \in parent[d]
              /\ \A j \in current(Parent[d]) : i <= j
      BY DEF FirstIsKnown
<1>3. Ages(Parent[d])
      BY <1>1
<1>4. i \in DOMAIN addresses'[Parent[d]] /\ addresses'[Parent[d]][i].key \in parent'[d]
      BY <1>2, <1>3 DEF Ages, ParentsStay
<1>5. \A j \in current(Parent[d])' : i <= j
      BY <1>2, <1>3 DEF Ages
<1> QED BY <1>4, <1>5

(* A question that keeps to what it has found goes on doing so.             *)
LEMMA FollowedStays ==
    ASSUME \A s \in Sirji : Ages(s), ParentsStay, parent' \in [Device -> (SUBSET Key) \cup {None}],
           NEW q \in Question, Followed(q)
    PROVE  Followed(q)'
<1>1. q.at \in Sirji /\ Retired(q.at) \subseteq Retired(q.at)'
      BY DEF Question, Ages
<1>2. \A d \in enrolled : d \in enrolled' /\ parent'[d] = parent[d]
      BY DEF enrolled, ParentsStay
<1> QED BY <1>1, <1>2 DEF Followed, Question

(* What a step does to the answers when it gives at most one question, j,   *)
(* something new, and that something is right.                              *)
LEMMA AnswersStay ==
    ASSUME IInv, IInv', Answering, \A s \in Sirji : Ages(s), UNCHANGED parent,
           NEW j \in Ask, \A x \in Ask \ {j} : ask'[x] \in {ask[x], None},
           \A q \in Question : ask'[j] = q /\ q # None => Followed(q)'
    PROVE  Answering'
<1>1. ParentsStay
      BY DEF ParentsStay
<1>2. FirstIsKnown'
  <2> SUFFICES ASSUME NEW d \in enrolled
               PROVE  \E i \in DOMAIN addresses'[Parent[d]] :
                         /\ addresses'[Parent[d]][i].key \in parent'[d]
                         /\ \A x \in current(Parent[d])' : i <= x
      BY DEF FirstIsKnown, enrolled
  <2> QED BY <1>1, FirstStays DEF Answering
<1>3. parent' \in [Device -> (SUBSET Key) \cup {None}]
      BY DEF IInv, TypeOK
<1>4. ASSUME NEW q \in Question, NEW x \in Ask, ask'[x] = q, q # None
      PROVE  Followed(q)'
  <2>1. CASE x = j
        BY <1>4, <2>1
  <2>2. CASE x # j
    <3>1. ask[x] = q /\ x \in Asked
          BY <1>4, <2>2 DEF Asked
    <3>2. Followed(q)
          BY <3>1 DEF Answering
    <3> QED BY <1>1, <1>3, <3>2, FollowedStays
  <2> QED BY <2>1, <2>2
<1>5. ASSUME NEW x \in Asked' PROVE ask'[x] \in Question
      BY <1>5 DEF Asked, IInv, TypeOK
<1>6. \A x \in Asked' : Followed(ask[x])'
  <2> SUFFICES ASSUME NEW x \in Asked' PROVE Followed(ask[x])'
      OBVIOUS
  <2>1. PICK q \in Question : ask'[x] = q /\ q # None
        BY <1>5 DEF Asked
  <2>2. x \in Ask
        BY DEF Asked
  <2>3. Followed(q)'
        BY <1>4, <2>1, <2>2
  <2> QED BY <2>1, <2>3 DEF Followed
<1> QED BY <1>2, <1>6 DEF Answering

(* Steps that leave the questions alone, or drop some.                      *)
LEMMA AnswersUndisturbed ==
    ASSUME IInv, IInv', Answering, \A s \in Sirji : Ages(s), UNCHANGED parent,
           \A j \in Ask : ask'[j] \in {ask[j], None}
    PROVE  Answering'
<1>1. CASE Ask = {}
  <2>1. FirstIsKnown'
    <3> SUFFICES ASSUME NEW d \in enrolled
                 PROVE  \E i \in DOMAIN addresses'[Parent[d]] :
                           /\ addresses'[Parent[d]][i].key \in parent'[d]
                           /\ \A x \in current(Parent[d])' : i <= x
        BY DEF FirstIsKnown, enrolled
    <3>1. ParentsStay
          BY DEF ParentsStay
    <3> QED BY <3>1, FirstStays DEF Answering
  <2> QED BY <1>1, <2>1 DEF Answering, Asked
<1>2. ASSUME NEW j \in Ask PROVE Answering'
  <2>1. ASSUME NEW q \in Question, ask'[j] = q, q # None
        PROVE  Followed(q)'
    <3>1. j \in Asked /\ Followed(q)
          BY <2>1 DEF Asked, Answering
    <3>2. ParentsStay /\ parent' \in [Device -> (SUBSET Key) \cup {None}]
          BY DEF ParentsStay, IInv, TypeOK
    <3> QED BY <3>1, <3>2, FollowedStays
  <2> QED BY <2>1, AnswersStay
<1> QED BY <1>1, <1>2

(* A device enrols: it knows what is current, and so what is first.         *)
LEMMA EnrolAnswers ==
    ASSUME IInv, IInv', Answering, NEW d \in Device, Enrol(d)
    PROVE  Answering'
<1>1. /\ parent' = [parent EXCEPT ![d] = current_addresses(Parent[d])]
      /\ UNCHANGED <<addresses, live, ask, minted, served, now>>
      /\ d \notin enrolled /\ current(Parent[d]) # {}
      BY DEF Enrol, enrolled
<1>2. ParentsStay
      BY <1>1 DEF ParentsStay, enrolled, IInv, TypeOK
<1>3. \A s \in Sirji : Ages(s)
      BY <1>1, NothingAges
<1>4. addresses[Parent[d]] \in Seq(HandshakeKey)
      BY ParentsAreSirjis DEF IInv, TypeOK
<1>5. PICK i \in current(Parent[d]) : \A j \in current(Parent[d]) : i <= j
  <2> DEFINE C == current(Parent[d])
  <2>1. C \subseteq Nat
        BY <1>4 DEF current
  <2> HIDE DEF C
  <2>2. \E i \in C : \A j \in C : i <= j
        BY <1>1, <2>1, LeastOfNaturals DEF C
  <2> QED BY <2>2 DEF C
<1>6. FirstIsKnown'
  <2> SUFFICES ASSUME NEW x \in Device, parent'[x] # None
               PROVE  \E y \in DOMAIN addresses'[Parent[x]] :
                         /\ addresses'[Parent[x]][y].key \in parent'[x]
                         /\ \A j \in current(Parent[x])' : y <= j
      BY DEF FirstIsKnown, enrolled
  <2>1. CASE x = d
    <3>1. parent'[d] = current_addresses(Parent[d]) /\ current(Parent[d])' = current(Parent[d])
          BY <1>1 DEF IInv, TypeOK, current
    <3>2. i \in DOMAIN addresses[Parent[d]]
          BY <1>5 DEF current
    <3>3. addresses[Parent[d]][i].key \in parent'[d]
          BY <1>5, <3>1 DEF current_addresses
    <3> QED BY <1>1, <1>5, <2>1, <3>1, <3>2, <3>3
  <2>2. CASE x # d
    <3>1. x \in enrolled
          BY <1>1, <2>2 DEF enrolled, IInv, TypeOK
    <3> QED BY <1>2, <1>3, <3>1, FirstStays DEF Answering
  <2> QED BY <2>1, <2>2
<1>7. ASSUME NEW j \in Asked PROVE Followed(ask[j])'
  <2>1. ask[j] \in Question /\ Followed(ask[j])
        BY <1>7, AskedTyped DEF IInv, Answering
  <2>2. PICK q \in Question : q = ask[j] /\ Followed(q)
        BY <2>1
  <2>3. parent' \in [Device -> (SUBSET Key) \cup {None}]
        BY DEF IInv, TypeOK
  <2>4. Followed(q)'
        BY <1>2, <1>3, <2>2, <2>3, FollowedStays
  <2>5. ask'[j] = q
        BY <1>1, <2>2
  <2> QED BY <2>4, <2>5 DEF Followed
<1> QED BY <1>1, <1>6, <1>7 DEF Answering, Asked

(* A question is asked, goes a step further, or is answered: the address    *)
(* that signs is the first one current, which a device that knows any       *)
(* address that is not retired knows.                                       *)
LEMMA ResolveAnswers ==
    ASSUME IInv, IInv', Answering, NEW j \in Ask, Resolve(j)
    PROVE  Answering'
<1>1. UNCHANGED <<addresses, parent>>
      BY DEF Resolve, Fails, LocateLive, LocateDevice, LocateSign, ResolveLocal, ResolveFor, Asks
<1>2. \A s \in Sirji : Ages(s)
      BY <1>1, NothingAges
<1>3. \A x \in Ask \ {j} : ask'[x] \in {ask[x], None}
      BY DEF Resolve, Fails, LocateLive, LocateDevice, LocateSign, ResolveLocal, ResolveFor, Asks,
             IInv, TypeOK
<1>4. ASSUME Followed(ask'[j]), ask'[j] # None PROVE Answering'
  <2>1. \A q \in Question : Followed(q)' <=> Followed(q)
        BY <1>1 DEF Followed, enrolled, Retired, current
  <2>2. \A q \in Question : ask'[j] = q /\ q # None => Followed(q)'
        BY <1>4, <2>1
  <2> QED BY <1>1, <1>2, <1>3, <2>2, AnswersStay
<1>5. CASE Fails(j)
  <2>1. \A x \in Ask : ask'[x] \in {ask[x], None}
        BY <1>5 DEF Fails, IInv, TypeOK
  <2> QED BY <1>1, <1>2, <2>1, AnswersUndisturbed
<1>6. CASE LocateLive(j)
  <2>1. j \in Asked /\ ask[j] \in Question /\ Followed(ask[j])
        BY <1>6, AskedTyped DEF LocateLive, IInv, Answering
  <2>2. ask'[j] = [ask[j] EXCEPT !.stage = "sign"] /\ ask[j].stage = "live"
        BY <1>6 DEF LocateLive, IInv, TypeOK
  <2>3. Followed(ask'[j])
        BY <2>1, <2>2 DEF Followed, Question
  <2>4. CASE ask'[j] = None
    <3>1. \A x \in Ask : ask'[x] \in {ask[x], None}
          BY <1>3, <2>4
    <3> QED BY <1>1, <1>2, <3>1, AnswersUndisturbed
  <2> QED BY <1>4, <2>3, <2>4
<1>7. ASSUME NEW d \in Device, LocateDevice(j, d) PROVE Answering'
  <2>1. j \in Asked /\ ask[j] \in Question
        BY <1>7, AskedTyped DEF LocateDevice, IInv
  <2>2. /\ ask'[j] = [ask[j] EXCEPT !.found = d, !.stage = "live"]
        /\ d \in enrolled /\ Parent[d] = ask[j].at /\ NameOf[d] = ask[j].name
        BY <1>7 DEF LocateDevice, IInv, TypeOK
  <2>3. Followed(ask'[j])
        BY <2>1, <2>2 DEF Followed, Question
  <2>4. CASE ask'[j] = None
    <3>1. \A x \in Ask : ask'[x] \in {ask[x], None}
          BY <1>3, <2>4
    <3> QED BY <1>1, <1>2, <3>1, AnswersUndisturbed
  <2> QED BY <1>4, <2>3, <2>4
<1>8. ASSUME NEW k \in Key, LocateSign(j, k) PROVE Answering'
  <2>1. j \in Asked /\ ask[j] \in Question /\ Followed(ask[j])
        BY <1>8, AskedTyped DEF LocateSign, IInv, Answering
  <2> DEFINE t == mint(k, ask[j].name, ask[j].caller, ask[j].alias)
             s == ask[j].at
             d == ask[j].found
  <2>2. /\ ask'[j] = [ask[j] EXCEPT !.ticket = t, !.stage = "answered"]
        /\ ask[j].stage = "sign" /\ k \in signer(s)
        BY <1>8 DEF LocateSign, IInv, TypeOK
  <2>3. t.name = ask[j].name /\ t.caller = ask[j].caller /\ t.issuer = k
        BY DEF mint
  <2>4. d \in enrolled /\ Parent[d] = s /\ NameOf[d] = ask[j].name
        BY <2>1, <2>2 DEF Followed
  <2>5. ASSUME parent[d] \cap Retired(s) = {} PROVE k \in parent[d]
    <3>1. PICK i \in DOMAIN addresses[s] :
              addresses[s][i].key \in parent[d] /\ \A x \in current(s) : i <= x
          BY <2>4 DEF Answering, FirstIsKnown
    <3>2. PICK y \in current(s) : k = addresses[s][y].key /\ \A x \in current(s) : y <= x
          BY <2>2 DEF signer
    <3>3. i \in current(s)
          BY <2>5, <3>1 DEF Retired
    <3>4. addresses[s] \in Seq(HandshakeKey)
          BY <2>1 DEF IInv, TypeOK, Question
    <3>5. i = y
          BY <3>1, <3>2, <3>3, <3>4 DEF current
    <3> QED BY <3>1, <3>2, <3>5
  <2> HIDE DEF t
  <2>6. /\ ask'[j].stage = "answered" /\ ask'[j].ticket = t /\ ask'[j].found = d
        /\ ask'[j].at = s /\ ask'[j].name = ask[j].name /\ ask'[j].caller = ask[j].caller
        BY <2>1, <2>2 DEF Question
  <2>7. Followed(ask'[j])
        BY <2>3, <2>4, <2>5, <2>6 DEF Followed
  <2>8. CASE ask'[j] = None
    <3>1. \A x \in Ask : ask'[x] \in {ask[x], None}
          BY <1>3, <2>8
    <3> QED BY <1>1, <1>2, <3>1, AnswersUndisturbed
  <2> QED BY <1>4, <2>7, <2>8
<1>9. ASSUME NEW d \in Device, NEW name \in Name, NEW at, NEW alias, Asks(j, d, name, at, alias)
      PROVE  Answering'
  <2> DEFINE q == [caller |-> d, name |-> name, at |-> at, alias |-> alias,
                   stage |-> "locate", found |-> None, ticket |-> None]
  <2>1. ask'[j] = q
        BY <1>9 DEF Asks, IInv, TypeOK
  <2>2. Followed(q)
        BY DEF Followed
  <2>3. CASE ask'[j] = None
    <3>1. \A x \in Ask : ask'[x] \in {ask[x], None}
          BY <1>3, <2>3
    <3> QED BY <1>1, <1>2, <3>1, AnswersUndisturbed
  <2> HIDE DEF q
  <2> QED BY <1>4, <2>1, <2>2, <2>3
<1> QED BY <1>5, <1>6, <1>7, <1>8, <1>9 DEF Resolve, ResolveLocal, ResolveFor

(* Every step keeps the answers right.                                      *)
LEMMA NextAnswers == IInv /\ IInv' /\ Answering /\ [Next]_vars => Answering'
<1> SUFFICES ASSUME IInv, IInv', Answering, [Next]_vars PROVE Answering'
    OBVIOUS
<1>1. ASSUME NEW s \in Sirji, NEW k \in Key, NewAddress(s, k) PROVE Answering'
  <2>1. UNCHANGED <<parent, ask>>
        BY <1>1 DEF NewAddress
  <2>2. \A r \in Sirji : Ages(r)
        BY <1>1, NewAddressAges DEF IInv
  <2> QED BY <2>1, <2>2, AnswersUndisturbed
<1>2. ASSUME NEW s \in Sirji, NEW i \in current(s), Retire(s, i) PROVE Answering'
  <2>1. UNCHANGED parent /\ \A j \in Ask : ask'[j] \in {ask[j], None}
        BY <1>2 DEF Retire
  <2>2. \A r \in Sirji : Ages(r)
        BY <1>2, RetireAges DEF IInv
  <2> QED BY <2>1, <2>2, AnswersUndisturbed
<1>3. ASSUME NEW d \in Device, Enrol(d) PROVE Answering'
      BY <1>3, EnrolAnswers
<1>4. ASSUME NEW j \in Ask, Resolve(j) PROVE Answering'
      BY <1>4, ResolveAnswers
<1>5. ASSUME UNCHANGED <<addresses, parent, ask>> PROVE Answering'
  <2>1. \A r \in Sirji : Ages(r)
        BY <1>5, NothingAges
  <2> QED BY <1>5, <2>1, AnswersUndisturbed
<1>6. ASSUME NEW d \in Device, Comes(d) \/ Goes(d) PROVE Answering'
      BY <1>5, <1>6 DEF Comes, Goes
<1>7. ASSUME NEW d \in Device, NEW e \in Device, NEW m \in minted, Knock(d, m, e)
      PROVE  Answering'
      BY <1>5, <1>7 DEF Knock
<1>8. CASE Tick
      BY <1>5, <1>8 DEF Tick
<1>9. CASE UNCHANGED vars
      BY <1>5, <1>9 DEF vars
<1> QED BY <1>1, <1>2, <1>3, <1>4, <1>6, <1>7, <1>8, <1>9 DEF Next

(* Addresses only grow older and a device knows the first that was current  *)
(* when it enrolled; whatever is found and signed for a question fits it    *)
(* (locate, Config.parent).                                                 *)
THEOREM AnswersInductive == Spec => [](IInv /\ Answering)
<1>1. Init => Answering
      BY DEF Init, Answering, FirstIsKnown, enrolled, Asked
<1> QED BY <1>1, InitInductive, NextInductive, NextAnswers, PTL DEF Spec

(* A ticket that answers a question opens the device that was looked up, to *)
(* whoever asked, until it runs out or an address the device knows is       *)
(* retired (locate, handle).                                                *)
THEOREM AnswersOpen == Spec => []AnswerOpens
<1>1. Answering => AnswerOpens
  <2> SUFFICES ASSUME Answering, NEW j \in Answered,
                      parent[ask[j].found] \cap Retired(ask[j].at) = {}
               PROVE  Opens(ask[j].found, ask[j].ticket, ask[j].caller)
      BY DEF AnswerOpens
  <2>1. Followed(ask[j]) /\ ask[j].stage = "answered" /\ now <= ask[j].ticket.valid_until
        BY DEF Answered, Answering
  <2> QED BY <2>1 DEF Followed, Opens, verify
<1> QED BY <1>1, AnswersInductive, PTL
-----------------------------------------------------------------------------
(* Resolution implements Admission.  An address has one signer, ... *)

LEMMA SignerOfKey ==
    ASSUME KeysApart, NEW s \in Sirji, NEW k \in Keys(s)
    PROVE  Signer(k) = s
  BY DEF Signer, KeysApart

(* ... who signs with it for ever, however addresses are added and retired. *)
LEMMA SignerStays ==
    ASSUME KeysApart, KeysApart', \A r \in Sirji : Keys(r) \subseteq Keys(r)',
           NEW s \in Sirji, NEW k \in Keys(s)
    PROVE  Signer(k)' = Signer(k)
<1>1. Signer(k) = s
      BY SignerOfKey
<1>2. Signer(k)' = s
      BY DEF Signer, KeysApart
<1> QED BY <1>1, <1>2

(* What a ticket vouches for. *)
Vouches(m) ==
    [by |-> Signer(m.ticket.issuer), caller |-> m.ticket.caller, alias |-> m.ticket.alias,
     name |-> m.ticket.name, at |-> m.at]

LEMMA VouchedByTickets == Vouched = {Vouches(m) : m \in minted}
  BY DEF Vouched, Vouches

LEMMA VouchesStays ==
    ASSUME TicketsVouched, KeysApart, KeysApart', \A r \in Sirji : Keys(r) \subseteq Keys(r)',
           NEW m \in minted
    PROVE  Vouches(m)' = Vouches(m)
<1>1. PICK s \in Sirji : m.ticket.issuer \in Keys(s)
      BY DEF TicketsVouched
<1>2. Signer(m.ticket.issuer)' = Signer(m.ticket.issuer)
      BY <1>1, SignerStays
<1> QED BY <1>2 DEF Vouches

(* A step that makes no ticket and serves nobody shows in nothing. *)
LEMMA NobodyAdmitted ==
    ASSUME IInv, IInv', \A r \in Sirji : Keys(r) \subseteq Keys(r)',
           UNCHANGED <<minted, served>>
    PROVE  UNCHANGED <<Vouched, Served>>
<1>1. \A m \in minted : Vouches(m)' = Vouches(m)
      BY VouchesStays DEF IInv
<1>2. Vouched' = Vouched
      BY <1>1 DEF Vouched, Vouches
<1>3. Served' = Served
      BY DEF Served
<1> QED BY <1>2, <1>3

(* A ticket is signed. *)
LEMMA SignIsVouch ==
    ASSUME IInv, IInv', NEW j \in Ask, NEW k \in Key, LocateSign(j, k)
    PROVE  (\E v \in Vouched' \ Vouched : Admitting!Vouch(v)) \/ UNCHANGED Admitting!vars
<1>1. j \in Asked /\ ask[j] \in Question
      BY AskedTyped DEF LocateSign, IInv
<1> DEFINE t == mint(k, ask[j].name, ask[j].caller, ask[j].alias)
           m == [ticket |-> t, at |-> now]
           v == Vouches(m)
<1>2. /\ minted' = minted \cup {m}
      /\ UNCHANGED <<addresses, served, now>>
      BY DEF LocateSign
<1>3. v = [by |-> ask[j].at, caller |-> ask[j].caller, alias |-> ask[j].alias,
           name |-> ask[j].name, at |-> now]
  <2>1. ask[j].at \in Sirji /\ k \in Keys(ask[j].at)
        BY <1>1, CurrentIsKey DEF LocateSign, Question
  <2>2. Signer(k) = ask[j].at
        BY <2>1, SignerOfKey DEF IInv
  <2> QED BY <2>2 DEF Vouches, mint
<1>4. Acquainted(ask[j].at, ask[j].caller, ask[j].alias)
      BY <1>1 DEF IInv, AskersAcquainted
<1> HIDE DEF m, t
<1>5. Vouched' = Vouched \cup {v}
  <2>1. \A x \in minted \cup {m} : Vouches(x)' = Vouches(x)
        BY <1>2 DEF Vouches, Signer, Keys
  <2>2. Vouched' = {Vouches(x) : x \in minted \cup {m}}
        BY <1>2, <2>1 DEF Vouched, Vouches
  <2> QED BY <2>2, VouchedByTickets
<1>6. Served' = Served /\ now' = now
      BY <1>2 DEF Served
<1> HIDE DEF v
<1>7. Admitting!Vouch(v)
  <2>1. now \in Nat
        BY DEF IInv, TypeOK
  <2>2. v \in Admitting!Voucher /\ v.at = now
        BY <1>1, <1>3, <2>1 DEF Admitting!Voucher, Question
  <2>3. Admitting!Acquainted(v.by, v.caller, v.alias)
        BY <1>1, <1>3, <1>4 DEF Admitting!Acquainted, Acquainted
  <2> QED BY <1>5, <1>6, <2>2, <2>3 DEF Admitting!Vouch
<1>8. CASE v \in Vouched
      BY <1>5, <1>6, <1>8 DEF Admitting!vars
<1>9. CASE v \notin Vouched
      BY <1>5, <1>7, <1>9
<1> QED BY <1>8, <1>9

(* A device serves on what its own sirji vouched for. *)
LEMMA KnockIsServe ==
    ASSUME IInv, NEW d \in Device, NEW e \in Device, NEW m \in minted, Knock(d, m, e)
    PROVE  \E v \in Vouched : Admitting!Serve(d, v)
<1>1. /\ d \in enrolled
      /\ m.ticket.issuer \in parent[d]
      /\ e = m.ticket.caller
      /\ now <= m.ticket.valid_until
      /\ m.ticket.name = NameOf[d]
      BY DEF Knock, Opens, verify
<1>2. Signer(m.ticket.issuer) = Parent[d]
      BY <1>1, SignerOfKey, ParentsAreSirjis DEF IInv, ParentsKnown
<1>3. m.at <= now /\ now <= m.at + LIFETIME
      BY <1>1 DEF IInv, TicketsVouched
<1> DEFINE x == [device |-> d, caller |-> e, ticket |-> m.ticket, at |-> now]
<1>4. served' = x /\ UNCHANGED <<addresses, minted, now>>
      BY DEF Knock
<1>5. x # None
  <2>1. m.ticket \in Ticket /\ now \in Nat
        BY DEF IInv, TypeOK
  <2>2. x \in Service
        BY <2>1
  <2> QED BY <2>2, NoneIsNoService
<1>6. Served' = [device |-> d, caller |-> e, alias |-> m.ticket.alias, at |-> now]
      BY <1>4, <1>5 DEF Served
<1>7. Vouched' = Vouched /\ Vouches(m) \in Vouched
  <2>1. Vouched' = Vouched
        BY <1>4 DEF Vouched, Signer, Keys
  <2>2. Vouches(m) \in Vouched
        BY VouchedByTickets
  <2> QED BY <2>1, <2>2
<1>8. Admitting!Serve(d, Vouches(m))
      BY <1>1, <1>2, <1>3, <1>4, <1>6, <1>7 DEF Admitting!Serve, Vouches
<1> QED BY <1>7, <1>8

(* Every step of Resolution is one of Admission, or leaves what that speaks of     *)
(* alone.                                                                          *)
LEMMA StepIsAdmission ==
    ASSUME IInv, IInv', [Next]_vars
    PROVE  [Admitting!Next]_(Admitting!vars)
<1>1. ASSUME NEW s \in Sirji, NEW k \in Key, NewAddress(s, k)
      PROVE  UNCHANGED Admitting!vars
  <2>1. \A r \in Sirji : Keys(r) \subseteq Keys(r)'
        BY <1>1, NewAddressKeys DEF IInv
  <2> QED BY <1>1, <2>1, NobodyAdmitted DEF NewAddress, Admitting!vars
<1>2. ASSUME NEW s \in Sirji, NEW i \in current(s), Retire(s, i)
      PROVE  UNCHANGED Admitting!vars
  <2>1. \A r \in Sirji : Keys(r) \subseteq Keys(r)'
        BY <1>2, RetireKeys DEF IInv
  <2> QED BY <1>2, <2>1, NobodyAdmitted DEF Retire, Admitting!vars
<1>3. ASSUME UNCHANGED <<addresses, minted, served>>
      PROVE  UNCHANGED <<Vouched, Served>>
      BY <1>3 DEF Vouched, Served, Signer, Keys
<1>4. ASSUME NEW d \in Device, Enrol(d) \/ Comes(d) \/ Goes(d)
      PROVE  UNCHANGED Admitting!vars
      BY <1>3, <1>4 DEF Enrol, Comes, Goes, Admitting!vars
<1>5. ASSUME NEW j \in Ask, Resolve(j)
      PROVE  [Admitting!Next]_(Admitting!vars)
  <2>1. ASSUME NEW k \in Key, LocateSign(j, k)
        PROVE  [Admitting!Next]_(Admitting!vars)
        BY <2>1, SignIsVouch DEF Admitting!Next
  <2>2. ASSUME Fails(j) \/ LocateLive(j) \/ \E d \in Device : LocateDevice(j, d)
        PROVE  UNCHANGED Admitting!vars
        BY <1>3, <2>2 DEF Fails, LocateLive, LocateDevice, Admitting!vars
  <2>3. ASSUME NEW d \in Device, NEW name \in Name,
               ResolveLocal(j, d, name) \/ \E r \in Sirji : ResolveFor(j, d, name, r)
        PROVE  UNCHANGED Admitting!vars
        BY <1>3, <2>3 DEF ResolveLocal, ResolveFor, Asks, Admitting!vars
  <2> QED BY <1>5, <2>1, <2>2, <2>3 DEF Resolve
<1>6. ASSUME NEW d \in Device, NEW e \in Device, NEW m \in minted, Knock(d, m, e)
      PROVE  Admitting!Next
      BY <1>6, KnockIsServe DEF Admitting!Next
<1>7. ASSUME Tick
      PROVE  Admitting!Next
      BY <1>3, <1>7 DEF Tick, Admitting!Tick, Admitting!Next
<1>8. ASSUME UNCHANGED vars
      PROVE  UNCHANGED Admitting!vars
      BY <1>3, <1>8 DEF vars, Admitting!vars
<1> QED BY <1>1, <1>2, <1>4, <1>5, <1>6, <1>7, <1>8 DEF Next

(* Whom a device serves, and might still serve, is decided by what its sirji has   *)
(* vouched for and by the clock: rotation, restarts, lost questions and tickets    *)
(* handed on are steps in which nothing of it changes (locate, Ticket::verify).    *)
THEOREM ResolutionImplementsAdmission == Spec => AdmissionKept
<1>1. Init => Admitting!Init
      BY DEF Init, Admitting!Init, Vouched, Served
<1>2. IInv /\ IInv' /\ [Next]_vars => [Admitting!Next]_(Admitting!vars)
      BY StepIsAdmission
<1> QED BY Inductive, <1>1, <1>2, PTL DEF Spec, AdmissionKept, Admitting!Spec
=============================================================================
