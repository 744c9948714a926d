--------------------------- MODULE ServicesProofs ---------------------------
(***************************************************************************)
(* The safety of the components in Services, for any numbers of requests,   *)
(* sockets, tickets, programs and keys.                                     *)
(***************************************************************************)
EXTENDS Services, FiniteSetTheorems, SequenceTheorems, TLAPS

-----------------------------------------------------------------------------
(* LiveUpdates                                                              *)

SocketStates == {"new", "flooding", "open", "terminating", "closing", "closed"}

SocketTypes ==
  /\ state \in [Socket -> SocketStates]
  /\ userId \in [Socket -> User \cup {Nobody}]
  /\ ip \in [Socket -> IP \cup {Nobody}]
  /\ DOMAIN subs = Socket /\ DOMAIN limiter = Socket
  /\ byUser \in [User -> SUBSET Socket]
  /\ byIP \in [IP -> SUBSET Socket]

\* Who is connected has an address, and the registries hold exactly the live
\* connections.
RegistriesExact ==
  /\ \A s \in Live!Connected : ip[s] \in IP
  /\ \A u \in User : byUser[u] = {s \in Live!Connected : userId[s] = u}
  /\ \A a \in IP : byIP[a] = {s \in Live!Connected : ip[s] = a}
  /\ \A a \in IP : IsFiniteSet(byIP[a]) /\ Cardinality(byIP[a]) <= MaxPerIP
  /\ \A s \in Socket : limiter[s] # Absent => s \in Live!Connected

LiveInv == SocketTypes /\ RegistriesExact

\* Cardinality means the same in the component.
LEMMA LiveCardinality == \A S : Live!Cardinality(S) = Cardinality(S)
BY DEF Live!Cardinality, Cardinality, Live!IsFiniteSet, IsFiniteSet

LEMMA LiveSteps == [Next]_vars => [Live!Next]_(Live!vars)
BY DEF Next, vars, live, Live!vars

LEMMA LiveInit == Init => LiveInv
<1> SUFFICES ASSUME Init PROVE LiveInv
  OBVIOUS
<1>1. Live!Init
  BY DEF Init
<1>2. SocketTypes
  BY <1>1 DEF Live!Init, SocketTypes, SocketStates
<1>3. Live!Connected = {}
  BY <1>1 DEF Live!Init, Live!Connected
<1>4. \A a \in IP : byIP[a] = {}
  BY <1>1 DEF Live!Init
<1>5. \A a \in IP : IsFiniteSet(byIP[a]) /\ Cardinality(byIP[a]) <= MaxPerIP
  BY <1>4, FS_EmptySet, LiveAssumption
<1>6. RegistriesExact
  BY <1>1, <1>3, <1>5 DEF Live!Init, RegistriesExact
<1> QED
  BY <1>2, <1>6 DEF LiveInv

\* A step that leaves the connections, their users and addresses alone, and
\* touches the limiter of the connected only.
LEMMA LiveQuiet ==
  ASSUME LiveInv, SocketTypes', Live!Connected' = Live!Connected,
         userId' = userId, ip' = ip, byUser' = byUser, byIP' = byIP,
         \A s \in Socket : limiter'[s] # Absent => limiter[s] # Absent \/ s \in Live!Connected
  PROVE  LiveInv'
BY DEF LiveInv, RegistriesExact

LEMMA LiveStep == LiveInv /\ [Live!Next]_(Live!vars) => LiveInv'
<1> SUFFICES ASSUME LiveInv, [Live!Next]_(Live!vars) PROVE LiveInv'
  OBVIOUS
<1> USE DEF LiveInv
<1>1. ASSUME NEW s \in Socket, NEW a \in IP, NEW u \in User \cup {Nobody}, Live!Connect(s, a, u)
      PROVE  LiveInv'
  <2>1. SocketTypes'
    BY <1>1 DEF Live!Connect, SocketTypes, SocketStates
  <2>2. s \notin Live!Connected /\ Live!Connected' = Live!Connected \cup {s}
    BY <1>1 DEF Live!Connect, Live!Connected, SocketTypes, SocketStates
  <2>3. /\ ip' = [ip EXCEPT ![s] = a] /\ userId' = [userId EXCEPT ![s] = u]
        /\ byIP' = [byIP EXCEPT ![a] = @ \cup {s}] /\ limiter' = limiter
    BY <1>1 DEF Live!Connect
  <2>4. \A v \in User : byUser'[v] = {x \in Live!Connected' : userId'[x] = v}
    BY <1>1, <2>2, <2>3, LiveAssumption DEF Live!Connect, Live!Connected, SocketTypes, RegistriesExact
  <2>5. \A b \in IP : byIP'[b] = {x \in Live!Connected' : ip'[x] = b}
    BY <2>2, <2>3 DEF Live!Connected, SocketTypes, RegistriesExact
  <2>6. IsFiniteSet(byIP[a]) /\ Cardinality(byIP[a]) < MaxPerIP /\ s \notin byIP[a]
    <3>1. Cardinality(byIP[a]) < MaxPerIP
      BY <1>1, LiveCardinality DEF Live!Connect
    <3>2. IsFiniteSet(byIP[a]) /\ s \notin byIP[a]
      BY <2>2 DEF RegistriesExact
    <3> QED
      BY <3>1, <3>2
  <2>7. Cardinality(byIP[a]) \in Nat
    BY <2>6, FS_CardinalityType
  <2>8. IsFiniteSet(byIP[a] \cup {s}) /\ Cardinality(byIP[a] \cup {s}) = Cardinality(byIP[a]) + 1
    BY <2>6, FS_AddElement
  <2>9. \A b \in IP : IsFiniteSet(byIP'[b]) /\ Cardinality(byIP'[b]) <= MaxPerIP
    BY <2>3, <2>6, <2>7, <2>8, LiveAssumption DEF SocketTypes, RegistriesExact
  <2>10. \A x \in Live!Connected' : ip'[x] \in IP
    BY <2>2, <2>3 DEF Live!Connected, SocketTypes, RegistriesExact
  <2> QED
    BY <2>1, <2>2, <2>3, <2>4, <2>5, <2>9, <2>10 DEF RegistriesExact
<1>2. ASSUME NEW s \in Socket, NEW a \in IP, Live!ConnectFlooded(s, a) PROVE LiveInv'
  BY <1>2, LiveQuiet
     DEF Live!ConnectFlooded, Live!registries, Live!Connected, SocketTypes, SocketStates
<1>3. ASSUME NEW s \in Socket, Live!FloodLogged(s) PROVE LiveInv'
  BY <1>3, LiveQuiet
     DEF Live!FloodLogged, Live!registries, Live!Connected, SocketTypes, SocketStates
<1>4. ASSUME NEW s \in Socket, Live!TooMany(s) PROVE LiveInv'
  BY <1>4, LiveQuiet
     DEF Live!TooMany, Live!registries, Live!Connected, SocketTypes, SocketStates
<1>5. ASSUME NEW s \in Socket, Live!TerminationLogged(s) PROVE LiveInv'
  BY <1>5, LiveQuiet
     DEF Live!TerminationLogged, Live!registries, Live!Connected, SocketTypes, SocketStates
<1>6. ASSUME NEW s \in Socket, Live!Refused(s) PROVE LiveInv'
  BY <1>6, LiveQuiet
     DEF Live!Refused, Live!Counted, Live!registries, Live!Connected, SocketTypes
<1>7. ASSUME NEW s \in Socket, Live!Disconnect(s) PROVE LiveInv'
  <2>1. SocketTypes'
    BY <1>7 DEF Live!Disconnect, SocketTypes, SocketStates
  <2>2. s \in Live!Connected /\ Live!Connected' = Live!Connected \ {s}
    BY <1>7 DEF Live!Disconnect, Live!Connected, SocketTypes, SocketStates
  <2>3. /\ ip' = ip /\ userId' = userId /\ ip[s] \in IP
        /\ byIP' = [byIP EXCEPT ![ip[s]] = @ \ {s}]
        /\ byUser' = [u \in User |-> IF u = userId[s] THEN byUser[u] \ {s} ELSE byUser[u]]
        /\ limiter' = [limiter EXCEPT ![s] = Absent]
    BY <1>7, <2>2 DEF Live!Disconnect, RegistriesExact
  <2>4. \A v \in User : byUser'[v] = {x \in Live!Connected' : userId'[x] = v}
    BY <2>2, <2>3 DEF SocketTypes, RegistriesExact
  <2>5. \A b \in IP : byIP'[b] = {x \in Live!Connected' : ip'[x] = b}
    BY <2>2, <2>3 DEF SocketTypes, RegistriesExact
  <2>6. \A b \in IP : IsFiniteSet(byIP'[b]) /\ Cardinality(byIP'[b]) <= MaxPerIP
    <3> TAKE b \in IP
    <3>1. IsFiniteSet(byIP[b]) /\ Cardinality(byIP[b]) <= MaxPerIP /\ byIP'[b] \subseteq byIP[b]
      BY <2>3 DEF SocketTypes, RegistriesExact
    <3>2. IsFiniteSet(byIP'[b]) /\ Cardinality(byIP'[b]) <= Cardinality(byIP[b])
      BY <3>1, FS_Subset
    <3>3. Cardinality(byIP'[b]) \in Nat /\ Cardinality(byIP[b]) \in Nat
      BY <3>1, <3>2, FS_CardinalityType
    <3> QED
      BY <3>1, <3>2, <3>3, LiveAssumption
  <2> QED
    BY <2>1, <2>2, <2>3, <2>4, <2>5, <2>6 DEF Live!Connected, SocketTypes, RegistriesExact
<1>8. ASSUME NEW s \in Socket, Live!WindowPasses(s) PROVE LiveInv'
  BY <1>8, LiveQuiet DEF Live!WindowPasses, Live!registries, Live!Connected, SocketTypes
<1>9. ASSUME NEW s \in Socket, NEW k \in Topic, Live!Subscribe(s, k) PROVE LiveInv'
  BY <1>9, LiveQuiet DEF Live!Subscribe, Live!Counted, Live!registries, Live!Connected, SocketTypes
<1>10. ASSUME NEW s \in Socket, NEW u \in User, Live!SubscribeUser(s, u) PROVE LiveInv'
  <2>1. SocketTypes'
    BY <1>10 DEF Live!SubscribeUser, Live!Counted, SocketTypes
  <2>2. s \in Live!Connected /\ Live!Connected' = Live!Connected
    BY <1>10 DEF Live!SubscribeUser, Live!Connected
  <2>3. /\ ip' = ip /\ byIP' = byIP /\ userId[s] \in {Nobody, u}
        /\ userId' = [userId EXCEPT ![s] = u] /\ byUser' = [byUser EXCEPT ![u] = @ \cup {s}]
    BY <1>10 DEF Live!SubscribeUser
  <2>4. \A v \in User : byUser'[v] = {x \in Live!Connected' : userId'[x] = v}
    BY <2>2, <2>3, LiveAssumption DEF Live!Connected, SocketTypes, RegistriesExact
  <2>5. \A x \in Socket : limiter'[x] # Absent => x \in Live!Connected'
    BY <1>10, <2>2 DEF Live!SubscribeUser, Live!Counted, SocketTypes, RegistriesExact
  <2> QED
    BY <2>1, <2>2, <2>3, <2>4, <2>5 DEF RegistriesExact
<1>11. ASSUME NEW s \in Socket, NEW k \in Live!Key, Live!Unsubscribe(s, k) PROVE LiveInv'
  BY <1>11, LiveQuiet DEF Live!Unsubscribe, Live!Counted, Live!registries, Live!Connected, SocketTypes
<1>12. CASE Live!LimiterCleanup
  BY <1>12, LiveQuiet DEF Live!LimiterCleanup, Live!registries, Live!Connected, SocketTypes
<1>13. CASE UNCHANGED Live!vars
  BY <1>13, LiveQuiet DEF Live!vars, Live!Connected, SocketTypes
<1> QED
  BY <1>1, <1>2, <1>3, <1>4, <1>5, <1>6, <1>7, <1>8, <1>9, <1>10, <1>11, <1>12, <1>13 DEF Live!Next

\* However connections, subscriptions, warnings and closings cross, the
\* registries of the websocket server hold exactly the live connections
\* (websocket/index.ts), and a private message reaches its user alone.
THEOREM RegistriesCorrect == Spec => []RegistriesAgree
<1>1. LiveInv => RegistriesAgree
  <2> SUFFICES ASSUME LiveInv PROVE Live!RegistriesAgree
    BY DEF RegistriesAgree
  <2>1. \A u \in User : Live!PrivateAudience(u) \subseteq Live!LoanAudience(u)
    BY DEF LiveInv, RegistriesExact, Live!PrivateAudience, Live!LoanAudience
  <2>2. \A a \in IP : byIP[a] = {s \in Live!Connected : ip[s] = a}
    BY DEF LiveInv, RegistriesExact
  <2>3. \A a \in IP : Cardinality(byIP[a]) <= MaxPerIP
    BY DEF LiveInv, RegistriesExact
  <2> QED
    BY <2>1, <2>2, <2>3, LiveCardinality DEF LiveInv, RegistriesExact, Live!RegistriesAgree
<1> QED
  BY <1>1, LiveInit, LiveSteps, LiveStep, PTL DEF Spec

-----------------------------------------------------------------------------
(* TokenReview                                                              *)

Phases ==
  {"idle", "whitelist?", "pending?", "creating", "approve", "reject", "listed?", "adding"}
HandRecord ==
  [phase : Phases, token : Token \cup {"nothing"}, wallet : Wallet \cup {"nothing"},
   ticket : Ticket \cup {"nothing"}]
Entries == {"none", "enabled", "disabled"}
IdleHand == [phase |-> "idle", token |-> "nothing", wallet |-> "nothing", ticket |-> "nothing"]

\* What each kind of handler may be doing, and what it knows of its ticket.
HandOK(h, d) ==
  /\ d \in HandRecord
  /\ d.phase # "idle" => d.token \in Token
  /\ d.phase \in {"whitelist?", "pending?", "creating"} => h \in Asker
  /\ d.phase \in {"approve", "reject"} => h \in Reviewer
  /\ d.phase \in {"listed?", "adding"} => h \in Reviewer \cup Admin
  /\ h \in Reviewer /\ d.phase # "idle" =>
       /\ d.ticket \in Ticket
       /\ status[d.ticket] # "none" /\ subject[d.ticket] = d.token

ReviewTypes ==
  /\ status \in [Ticket -> {"none", "pending", "approved", "rejected", "expired"}]
  /\ DOMAIN subject = Ticket /\ entry \in [Token -> Entries]
  /\ \A k \in Ticket : status[k] # "none" => subject[k] \in Token
  /\ DOMAIN doing = Review!Hand
  /\ \A h \in Review!Hand : HandOK(h, doing[h])

\* An approval is listed, was given up or withdrawn, or is still in the hands of
\* a reviewer.
ListingIn(h, k) == doing[h].ticket = k /\ doing[h].phase \in {"listed?", "adding"}

ApprovalsKept ==
  \A k \in Ticket : status[k] = "approved" =>
    \/ entry[subject[k]] = "enabled" \/ k \in unlisted \cup withdrawn
    \/ \E h \in Reviewer : ListingIn(h, k)

ReviewInv == ReviewTypes /\ ApprovalsKept

LEMMA ReviewSteps == [Next]_vars => [Review!Next]_review
BY DEF Next, vars, review

LEMMA IdleIsOK == \A h : HandOK(h, IdleHand) /\ IdleHand = Review!Idle
BY DEF HandOK, IdleHand, HandRecord, Phases, Review!Idle, Review!Nothing

LEMMA ReviewInit == Init => ReviewInv
<1> SUFFICES ASSUME Init PROVE ReviewInv
  OBVIOUS
<1>1. Review!Init
  BY DEF Init
<1>2. doing = [h \in Review!Hand |-> IdleHand]
  BY <1>1, IdleIsOK DEF Review!Init
<1>3. status = [k \in Ticket |-> "none"] /\ DOMAIN subject = Ticket /\ entry \in [Token -> Entries]
  BY <1>1 DEF Review!Init, Entries
<1>4. ReviewTypes
  BY <1>2, <1>3, IdleIsOK DEF ReviewTypes
<1>5. ApprovalsKept
  BY <1>3 DEF ApprovalsKept
<1> QED
  BY <1>4, <1>5 DEF ReviewInv

\* Tickets that were made stay made and keep their tokens.
TicketsKept ==
  /\ DOMAIN subject' = Ticket /\ entry' \in [Token -> Entries]
  /\ status' \in [Ticket -> {"none", "pending", "approved", "rejected", "expired"}]
  /\ \A k \in Ticket : status[k] # "none" => status'[k] # "none" /\ subject'[k] = subject[k]
  /\ \A k \in Ticket : status'[k] # "none" => subject'[k] \in Token

LEMMA TicketsSame ==
  ASSUME ReviewTypes, UNCHANGED <<status, subject>>, entry' \in [Token -> Entries]
  PROVE  TicketsKept
BY DEF ReviewTypes, TicketsKept

\* One handler moves to d; the others stay as they are.
LEMMA OneHand ==
  ASSUME ReviewTypes, TicketsKept, NEW h \in Review!Hand, NEW d,
         doing' = [doing EXCEPT ![h] = d], HandOK(h, d)'
  PROVE  ReviewTypes'
<1>1. DOMAIN doing' = Review!Hand
  BY DEF ReviewTypes
<1>2. ASSUME NEW g \in Review!Hand PROVE HandOK(g, doing[g])'
  <2>1. CASE g = h
    BY <2>1 DEF ReviewTypes
  <2>2. CASE g # h
    <3>1. doing'[g] = doing[g] /\ HandOK(g, doing[g])
      BY <2>2 DEF ReviewTypes
    <3> QED
      BY <3>1 DEF HandOK, TicketsKept
  <2> QED
    BY <2>1, <2>2
<1> QED
  BY <1>1, <1>2 DEF ReviewTypes, TicketsKept

\* A handler whose ticket is not being listed moves.
LEMMA ApprovalsStay ==
  ASSUME ReviewTypes, ApprovalsKept, NEW h \in Review!Hand, NEW d,
         doing' = [doing EXCEPT ![h] = d],
         h \notin Reviewer \/ doing[h].phase \notin {"listed?", "adding"},
         UNCHANGED subject, DOMAIN subject = Ticket, unlisted \subseteq unlisted' /\ withdrawn \subseteq withdrawn',
         \A t \in Token : entry[t] = "enabled" => entry'[t] = "enabled",
         \A k \in Ticket : status'[k] = "approved" => status[k] = "approved"
  PROVE  ApprovalsKept'
<1> SUFFICES ASSUME NEW k \in Ticket, status'[k] = "approved"
             PROVE  \/ entry'[subject'[k]] = "enabled" \/ k \in unlisted' \cup withdrawn'
                    \/ \E g \in Reviewer : ListingIn(g, k)'
  BY DEF ApprovalsKept
<1>1. status[k] = "approved" /\ subject'[k] = subject[k] /\ subject[k] \in Token
  BY DEF ReviewTypes
<1>2. ASSUME NEW g \in Reviewer, ListingIn(g, k) PROVE ListingIn(g, k)'
  <2>1. g # h /\ g \in Review!Hand
    BY <1>2 DEF ListingIn, Review!Hand
  <2>2. doing'[g] = doing[g]
    BY <2>1 DEF ReviewTypes
  <2> QED
    BY <1>2, <2>2 DEF ListingIn
<1> QED
  BY <1>1, <1>2 DEF ApprovalsKept

LEMMA ReviewStep == ReviewInv /\ [Review!Next]_review => ReviewInv'
<1> SUFFICES ASSUME ReviewInv, [Review!Next]_review PROVE ReviewInv'
  OBVIOUS
<1>0. ReviewTypes /\ ApprovalsKept
  BY DEF ReviewInv
<1> USE DEF ReviewInv
<1> USE ReviewAssumption
<1>1. ASSUME NEW h \in Asker, NEW w \in Wallet, NEW t \in Token, Review!Ask(h, w, t)
      PROVE  ReviewInv'
  <2> DEFINE d == [Review!Idle EXCEPT !.phase = "whitelist?", !.token = t, !.wallet = w]
  <2>1. doing' = [doing EXCEPT ![h] = d] /\ UNCHANGED <<status, subject, entry, unlisted, withdrawn>>
    BY <1>1 DEF Review!Ask, Review!past
  <2>2. HandOK(h, d)'
    <3>1. d \in HandRecord
      BY DEF HandRecord, Phases, Review!Idle, Review!Nothing
    <3>2. d.phase = "whitelist?" /\ d.token = t
      BY DEF Review!Idle
    <3> HIDE DEF d
    <3> QED
      BY <3>1, <3>2 DEF HandOK
  <2>3. h \in Review!Hand /\ h \notin Reviewer
    BY DEF Review!Hand
  <2>4. TicketsKept
    BY <1>0, <2>1, TicketsSame DEF ReviewTypes
  <2> HIDE DEF d
  <2>5. ReviewTypes'
    BY ONLY <1>0, <2>1, <2>2, <2>3, <2>4, OneHand
  <2>6. ApprovalsKept'
    BY <1>0, <2>1, <2>3, <2>4, ApprovalsStay DEF ReviewTypes
  <2> QED
    BY <2>5, <2>6
<1>2. ASSUME NEW h \in Asker, Review!LookUp(h) PROVE ReviewInv'
  <2>1. /\ UNCHANGED <<status, subject, entry, unlisted, withdrawn>>
        /\ doing[h].phase \in {"whitelist?", "pending?"}
    BY <1>2 DEF Review!LookUp, Review!past
  <2>2. h \in Review!Hand /\ h \notin Reviewer /\ HandOK(h, doing[h])
    BY <1>0 DEF Review!Hand, ReviewTypes
  <2>3. PICK d : doing' = [doing EXCEPT ![h] = d] /\ HandOK(h, d)
    <3>1. CASE doing' = [doing EXCEPT ![h] = Review!Idle]
      BY <3>1, IdleIsOK
    <3>2. CASE \E p \in {"pending?", "creating"} : doing' = [doing EXCEPT ![h].phase = p]
      <4>1. PICK p \in {"pending?", "creating"} : doing' = [doing EXCEPT ![h].phase = p]
        BY <3>2
      <4>2. doing' = [doing EXCEPT ![h] = [doing[h] EXCEPT !.phase = p]]
        BY <4>1
      <4>3. HandOK(h, [doing[h] EXCEPT !.phase = p])
        BY <2>1, <2>2 DEF HandOK, HandRecord, Phases
      <4> QED
        BY <4>2, <4>3
    <3> QED
      BY <1>2, <3>1, <3>2 DEF Review!LookUp, Review!past, Review!Done, Review!Go
  <2>4. TicketsKept
    BY <1>0, <2>1, TicketsSame DEF ReviewTypes
  <2>5. HandOK(h, d)'
    BY <2>1, <2>3 DEF HandOK
  <2>6. ReviewTypes'
    BY ONLY <1>0, <2>2, <2>3, <2>4, <2>5, OneHand
  <2>7. ApprovalsKept'
    BY <1>0, <2>1, <2>2, <2>3, ApprovalsStay DEF ReviewTypes
  <2> QED
    BY <2>6, <2>7
<1>3. ASSUME NEW h \in Asker, Review!Create(h) PROVE ReviewInv'
  <2>1. PICK k \in Ticket :
          /\ doing[h].phase = "creating" /\ status[k] = "none"
          /\ status' = [status EXCEPT ![k] = "pending"]
          /\ subject' = [subject EXCEPT ![k] = doing[h].token]
          /\ doing' = [doing EXCEPT ![h] = Review!Idle]
          /\ UNCHANGED <<entry, unlisted, withdrawn>>
    BY <1>3 DEF Review!Create, Review!Done, Review!past
  <2>2. h \in Review!Hand /\ h \notin Reviewer /\ doing[h].token \in Token
    BY <1>0, <2>1 DEF Review!Hand, ReviewTypes, HandOK
  <2>3. TicketsKept
    BY <1>0, <2>1, <2>2 DEF ReviewTypes, TicketsKept
  <2>4. ReviewTypes'
    <3>1. HandOK(h, Review!Idle)'
      BY IdleIsOK DEF HandOK
    <3> QED
      BY ONLY <1>0, <2>1, <2>2, <2>3, <3>1, OneHand
  <2>5. ASSUME NEW j \in Ticket, status'[j] = "approved"
        PROVE  status[j] = "approved" /\ subject'[j] = subject[j]
    BY <1>0, <2>1, <2>5 DEF ReviewTypes
  <2>6. \A g \in Reviewer : g # h /\ doing'[g] = doing[g]
    BY <1>0, <2>1, <2>2 DEF ReviewTypes, Review!Hand
  <2>7. ApprovalsKept'
    BY <1>0, <2>1, <2>5, <2>6 DEF ApprovalsKept, ListingIn
  <2> QED
    BY <2>4, <2>7
<1>4. ASSUME NEW w \in Wallet, Review!HourEnds(w) PROVE ReviewInv'
  BY <1>0, <1>4 DEF Review!HourEnds, Review!past, ReviewTypes, HandOK, ApprovalsKept, ListingIn
<1>5. ASSUME NEW h \in Reviewer, NEW k \in Ticket, NEW action \in {"approve", "reject"},
             Review!BeginReview(h, k, action)
      PROVE  ReviewInv'
  <2>0. status[k] = "pending" /\ doing[h].phase = "idle"
    BY <1>5 DEF Review!BeginReview, Review!past
  <2>00. PICK t \in Token : t = subject[k]
    BY <1>0, <2>0 DEF ReviewTypes
  <2> DEFINE d == [Review!Idle EXCEPT !.phase = action, !.ticket = k, !.token = t]
  <2>1. doing' = [doing EXCEPT ![h] = d] /\ UNCHANGED <<status, subject, entry, unlisted, withdrawn>>
    BY <1>5, <2>00 DEF Review!BeginReview, Review!past
  <2>2. HandOK(h, d)'
    <3>1. d \in HandRecord
      BY <2>00 DEF HandRecord, Phases, Review!Idle, Review!Nothing
    <3>2. d.phase = action /\ d.ticket = k /\ d.token = t
      BY DEF Review!Idle
    <3> HIDE DEF d
    <3> QED
      BY <1>0, <2>0, <2>00, <2>1, <3>1, <3>2 DEF HandOK, ReviewTypes
  <2>3. h \in Review!Hand
    BY DEF Review!Hand
  <2>4. TicketsKept
    BY <1>0, <2>1, TicketsSame DEF ReviewTypes
  <2> HIDE DEF d
  <2>5. ReviewTypes'
    BY ONLY <1>0, <2>1, <2>2, <2>3, <2>4, OneHand
  <2>6. ApprovalsKept'
    BY <1>0, <2>0, <2>1, <2>3, <2>4, ApprovalsStay DEF ReviewTypes
  <2> QED
    BY <2>5, <2>6
<1>6. ASSUME NEW h \in Reviewer, Review!Decide(h) PROVE ReviewInv'
  <2> DEFINE k == doing[h].ticket
  <2>1. /\ doing[h].phase \in {"approve", "reject"} /\ UNCHANGED <<subject, entry>>
        /\ unlisted \subseteq unlisted' /\ withdrawn \subseteq withdrawn'
    BY <1>6 DEF Review!Decide
  <2>2. h \in Review!Hand /\ HandOK(h, doing[h]) /\ k \in Ticket /\ status[k] # "none"
    BY <1>0, <2>1 DEF Review!Hand, ReviewTypes, HandOK
  <2>30. PICK v \in {"approved", "rejected"} : \E d :
          /\ status' = [status EXCEPT ![k] = v] /\ doing' = [doing EXCEPT ![h] = d]
          /\ HandOK(h, d)
          /\ v = "approved" => k \in unlisted' \/ (d.ticket = k /\ d.phase = "listed?")
    <3>1. CASE /\ status' = [status EXCEPT ![k] = "approved"]
               /\ doing' = [doing EXCEPT ![h].phase = "listed?"]
      <4>1. doing' = [doing EXCEPT ![h] = [doing[h] EXCEPT !.phase = "listed?"]]
        BY <3>1
      <4>2. HandOK(h, [doing[h] EXCEPT !.phase = "listed?"])
        BY <2>1, <2>2 DEF HandOK, HandRecord, Phases
      <4>3. /\ [doing[h] EXCEPT !.phase = "listed?"].ticket = k
            /\ [doing[h] EXCEPT !.phase = "listed?"].phase = "listed?"
        BY <2>2 DEF HandOK, HandRecord
      <4> QED
        BY <3>1, <4>1, <4>2, <4>3
    <3>2. CASE /\ status' = [status EXCEPT ![k] = "approved"] /\ unlisted' = unlisted \cup {k}
               /\ doing' = [doing EXCEPT ![h] = Review!Idle]
      BY <3>2, IdleIsOK
    <3>3. CASE /\ status' = [status EXCEPT ![k] = "rejected"]
               /\ doing' = [doing EXCEPT ![h] = Review!Idle]
      BY <3>3, IdleIsOK
    <3> QED
      BY <1>6, <3>1, <3>2, <3>3 DEF Review!Decide, Review!Done, Review!Go
  <2>3. PICK d :
          /\ status' = [status EXCEPT ![k] = v] /\ doing' = [doing EXCEPT ![h] = d]
          /\ HandOK(h, d)
          /\ v = "approved" => k \in unlisted' \/ (d.ticket = k /\ d.phase = "listed?")
    BY <2>30
  <2>4. TicketsKept
    BY <1>0, <2>1, <2>2, <2>3 DEF ReviewTypes, TicketsKept
  <2>5. HandOK(h, d)'
    BY <2>3, <2>4 DEF HandOK, TicketsKept
  <2>6. ReviewTypes'
    BY ONLY <1>0, <2>2, <2>3, <2>4, <2>5, OneHand
  <2>7. ASSUME NEW j \in Ticket, status'[j] = "approved"
        PROVE  \/ entry'[subject'[j]] = "enabled" \/ j \in unlisted' \cup withdrawn'
               \/ \E g \in Reviewer : ListingIn(g, j)'
    <3>1. CASE j = k
      <4>1. v = "approved" /\ doing'[h] = d
        BY <1>0, <2>2, <2>3, <2>7, <3>1 DEF ReviewTypes
      <4> QED
        BY <2>3, <3>1, <4>1 DEF ListingIn
    <3>2. CASE j # k
      <4>1. status[j] = "approved"
        BY <1>0, <2>3, <2>7, <3>2 DEF ReviewTypes
      <4>2. \A g \in Reviewer : ListingIn(g, j) => ListingIn(g, j)'
        <5> SUFFICES ASSUME NEW g \in Reviewer, ListingIn(g, j) PROVE ListingIn(g, j)'
          OBVIOUS
        <5>1. g # h /\ g \in Review!Hand
          BY <3>2 DEF ListingIn, Review!Hand
        <5>2. doing'[g] = doing[g]
          BY <1>0, <2>3, <5>1 DEF ReviewTypes
        <5> QED
          BY <5>2 DEF ListingIn
      <4> QED
        BY <1>0, <2>1, <4>1, <4>2 DEF ApprovalsKept
    <3> QED
      BY <3>1, <3>2
  <2> QED
    BY <2>6, <2>7 DEF ApprovalsKept
<1>7. ASSUME NEW h \in Admin, NEW t \in Token, Review!BeginAdd(h, t) PROVE ReviewInv'
  <2> DEFINE d == [Review!Idle EXCEPT !.phase = "listed?", !.token = t]
  <2>1. doing' = [doing EXCEPT ![h] = d] /\ UNCHANGED <<status, subject, entry, unlisted, withdrawn>>
    BY <1>7 DEF Review!BeginAdd, Review!past
  <2>2. HandOK(h, d)'
    <3>1. d \in HandRecord
      BY DEF HandRecord, Phases, Review!Idle, Review!Nothing
    <3>2. d.phase = "listed?" /\ d.token = t
      BY DEF Review!Idle
    <3> HIDE DEF d
    <3> QED
      BY <3>1, <3>2 DEF HandOK
  <2>3. h \in Review!Hand /\ h \notin Reviewer
    BY DEF Review!Hand
  <2>4. TicketsKept
    BY <1>0, <2>1, TicketsSame DEF ReviewTypes
  <2> HIDE DEF d
  <2>5. ReviewTypes'
    BY ONLY <1>0, <2>1, <2>2, <2>3, <2>4, OneHand
  <2>6. ApprovalsKept'
    BY <1>0, <2>1, <2>3, <2>4, ApprovalsStay DEF ReviewTypes
  <2> QED
    BY <2>5, <2>6
<1>8. ASSUME NEW h \in Reviewer \cup Admin, Review!AddToWhitelist(h) PROVE ReviewInv'
  <2> DEFINE t == doing[h].token
  <2>1. /\ doing[h].phase \in {"listed?", "adding"} /\ UNCHANGED <<status, subject>>
        /\ unlisted \subseteq unlisted' /\ withdrawn \subseteq withdrawn'
    BY <1>8 DEF Review!AddToWhitelist
  <2>2. h \in Review!Hand /\ HandOK(h, doing[h]) /\ t \in Token
    BY <1>0, <2>1 DEF Review!Hand, ReviewTypes, HandOK
  <2>3. h \in Reviewer => doing[h].ticket \in Ticket /\ subject[doing[h].ticket] = t
    BY <2>1, <2>2 DEF HandOK
  <2>4. /\ entry' \in [Token -> Entries]
        /\ \A x \in Token : entry[x] = "enabled" => entry'[x] = "enabled"
    BY <1>0, <1>8, <2>2 DEF Review!AddToWhitelist, ReviewTypes, Entries
  <2>5. PICK d : /\ doing' = [doing EXCEPT ![h] = d] /\ HandOK(h, d)
                 /\ \/ d.ticket = doing[h].ticket /\ d.phase = "adding"
                    \/ entry'[t] = "enabled" \/ (h \in Reviewer => doing[h].ticket \in unlisted')
    <3>1. CASE doing' = [doing EXCEPT ![h].phase = "adding"]
      <4>1. doing' = [doing EXCEPT ![h] = [doing[h] EXCEPT !.phase = "adding"]]
        BY <3>1
      <4>2. HandOK(h, [doing[h] EXCEPT !.phase = "adding"])
        BY <1>8, <2>1, <2>2 DEF HandOK, HandRecord, Phases
      <4>3. /\ [doing[h] EXCEPT !.phase = "adding"].ticket = doing[h].ticket
            /\ [doing[h] EXCEPT !.phase = "adding"].phase = "adding"
        BY <2>2 DEF HandOK, HandRecord
      <4> QED
        BY <4>1, <4>2, <4>3
    <3>3. CASE /\ doing' = [doing EXCEPT ![h] = Review!Idle]
               /\ entry' = [entry EXCEPT ![t] = IF @ = "none" THEN "enabled" ELSE @]
               /\ unlisted' = unlisted \cup Review!MetDisabled(h)
      <4>1. CASE entry[t] = "disabled"
        <5>1. Review!MetDisabled(h) = {doing[h].ticket} \cap Ticket
          BY <4>1 DEF Review!MetDisabled
        <5> QED
          BY <2>3, <3>3, <5>1, IdleIsOK
      <4>2. CASE entry[t] # "disabled"
        <5>1. entry'[t] = "enabled"
          BY <1>0, <2>2, <3>3, <4>2 DEF ReviewTypes, Entries
        <5> QED
          BY <3>3, <5>1, IdleIsOK
      <4> QED
        BY <4>1, <4>2
    <3>4. CASE /\ doing' = [doing EXCEPT ![h] = Review!Idle]
               /\ unlisted' = unlisted \cup ({doing[h].ticket} \cap Ticket)
      BY <2>3, <3>4, IdleIsOK
    <3> QED
      BY <1>8, <3>1, <3>3, <3>4 DEF Review!AddToWhitelist, Review!Done, Review!Go
  <2>6. TicketsKept
    BY <1>0, <2>1, <2>4, TicketsSame DEF ReviewTypes
  <2>7. HandOK(h, d)'
    BY <2>1, <2>5 DEF HandOK
  <2>8. ReviewTypes'
    BY ONLY <1>0, <2>2, <2>5, <2>6, <2>7, OneHand
  <2>9. ASSUME NEW j \in Ticket, status'[j] = "approved"
        PROVE  \/ entry'[subject'[j]] = "enabled" \/ j \in unlisted' \cup withdrawn'
               \/ \E g \in Reviewer : ListingIn(g, j)'
    <3>1. status[j] = "approved" /\ subject[j] \in Token /\ subject'[j] = subject[j]
      BY <1>0, <2>1, <2>9 DEF ReviewTypes
    <3>2. CASE entry[subject[j]] = "enabled" \/ j \in unlisted \cup withdrawn
      BY <2>1, <2>4, <3>1, <3>2
    <3>3. ASSUME NEW g \in Reviewer, ListingIn(g, j), g # h PROVE ListingIn(g, j)'
      <4>1. doing'[g] = doing[g]
        BY <1>0, <2>5, <3>3 DEF ReviewTypes, Review!Hand
      <4> QED
        BY <3>3, <4>1 DEF ListingIn
    <3>4. ASSUME h \in Reviewer, ListingIn(h, j)
          PROVE  \/ entry'[subject'[j]] = "enabled" \/ j \in unlisted' \cup withdrawn' \/ ListingIn(h, j)'
      <4>1. doing'[h] = d /\ j = doing[h].ticket /\ subject[j] = t
        BY <1>0, <2>2, <2>3, <2>5, <3>4 DEF ReviewTypes, ListingIn
      <4> QED
        BY <2>5, <3>1, <3>4, <4>1 DEF ListingIn
    <3> QED
      BY <1>0, <3>1, <3>2, <3>3, <3>4 DEF ApprovalsKept
  <2> QED
    BY <2>8, <2>9 DEF ApprovalsKept
<1>9. ASSUME NEW t \in Token, Review!UpdateWhitelistEntry(t) PROVE ReviewInv'
  <2>1. /\ UNCHANGED <<status, subject, doing, unlisted>> /\ entry' \in [Token -> Entries]
        /\ withdrawn \subseteq withdrawn'
        /\ \A k \in Ticket : status[k] = "approved" /\ entry[subject[k]] = "enabled" =>
             entry'[subject[k]] = "enabled" \/ k \in withdrawn'
    <3>1. CASE /\ entry' = [entry EXCEPT ![t] = "disabled"]
               /\ withdrawn' = withdrawn \cup {k \in Ticket : status[k] = "approved" /\ subject[k] = t}
               /\ UNCHANGED <<status, subject, doing, unlisted>>
      BY <1>0, <3>1 DEF ReviewTypes, Entries
    <3>2. CASE /\ entry' = [entry EXCEPT ![t] = "enabled"] /\ withdrawn' = withdrawn
               /\ UNCHANGED <<status, subject, doing, unlisted>>
      BY <1>0, <3>2 DEF ReviewTypes, Entries
    <3> QED
      BY <1>9, <3>1, <3>2 DEF Review!UpdateWhitelistEntry
  <2>2. ReviewTypes'
    BY <1>0, <2>1 DEF ReviewTypes, HandOK
  <2> QED
    BY <1>0, <2>1, <2>2 DEF ReviewTypes, ApprovalsKept, ListingIn
<1>10. CASE Review!Expire
  <2>1. PICK old \in SUBSET {k \in Ticket : status[k] = "pending"} :
          status' = [k \in Ticket |-> IF k \in old THEN "expired" ELSE status[k]]
    BY <1>10 DEF Review!Expire, Review!past
  <2>2. UNCHANGED <<subject, entry, doing, unlisted, withdrawn>>
    BY <1>10 DEF Review!Expire, Review!past
  <2>3. \A k \in Ticket : /\ status'[k] \in {"none", "pending", "approved", "rejected", "expired"}
                          /\ status[k] # "none" <=> status'[k] # "none"
                          /\ status'[k] = "approved" => status[k] = "approved"
    BY <1>0, <2>1 DEF ReviewTypes
  <2>4. ReviewTypes'
    BY <1>0, <2>1, <2>2, <2>3 DEF ReviewTypes, HandOK
  <2> QED
    BY <1>0, <2>2, <2>3, <2>4 DEF ApprovalsKept, ListingIn
<1>11. CASE Review!Restart
  <2>1. /\ doing' = [h \in Review!Hand |-> Review!Idle]
        /\ unlisted' = unlisted \cup
             {doing[h].ticket : h \in {g \in Reviewer : doing[g].phase \in {"listed?", "adding"}}}
        /\ UNCHANGED <<status, subject, entry, withdrawn>>
    BY <1>11 DEF Review!Restart
  <2>2. \A h : HandOK(h, Review!Idle)'
    BY IdleIsOK, <2>1 DEF HandOK
  <2>3. ReviewTypes'
    BY <1>0, <2>1, <2>2 DEF ReviewTypes
  <2> QED
    BY <1>0, <2>1, <2>3 DEF ApprovalsKept, ListingIn
<1>12. CASE UNCHANGED review
  <2>1. UNCHANGED <<status, subject, entry, doing, unlisted, withdrawn>>
    BY <1>12 DEF review
  <2> QED
    BY <1>0, <2>1 DEF ReviewTypes, HandOK, ApprovalsKept, ListingIn
<1> QED
  BY <1>1, <1>2, <1>3, <1>4, <1>5, <1>6, <1>7, <1>8, <1>9, <1>10, <1>11, <1>12 DEF Review!Next

\* The token of an approved request is listed and enabled, or its listing is
\* under way, failed or met a disabled entry, or an admin disabled it, whatever other requests, admins and reviews do at the same time
\* (verification-request.service.ts:167-196).
THEOREM ApprovalsCorrect == Spec => []ApprovalsAreListed
<1>1. ReviewInv => ApprovalsAreListed
  <2> SUFFICES ASSUME ReviewInv, NEW k \in Ticket, status[k] = "approved"
               PROVE  \/ entry[subject[k]] = "enabled" \/ k \in unlisted \cup withdrawn
                      \/ \E h \in Reviewer \cup Admin :
                           /\ doing[h].token = subject[k]
                           /\ doing[h].phase \in {"listed?", "adding"}
    BY DEF ApprovalsAreListed, Review!ApprovalsAreListed
  <2>1. ASSUME NEW h \in Reviewer, ListingIn(h, k)
        PROVE  doing[h].token = subject[k] /\ doing[h].phase \in {"listed?", "adding"}
    BY <2>1 DEF ReviewInv, ReviewTypes, HandOK, ListingIn, Review!Hand
  <2> QED
    BY <2>1 DEF ReviewInv, ApprovalsKept
<1> QED
  BY <1>1, ReviewInit, ReviewSteps, ReviewStep, PTL DEF Spec

-----------------------------------------------------------------------------
(* RateLimits                                                               *)

LimiterPhases == {"asking", "counting", "violating", "banning", "forgetting", "noting"}

RequestRecord ==
  [phase : LimiterPhases \cup {"idle", "served"}, ip : Ip \cup {"anonymous"},
   wallet : Wallet \cup {"anonymous"}, route : Seq({"ip", "wallet"}), last : {"ip", "wallet"},
   ask : Seq(Limits!Id),
   level : Nat, open : BOOLEAN, free : SUBSET Limits!Id]

\* What is left of a route: limiters by IP, and at the end its last.
RouteLeft(q) ==
  /\ q.ip \in Ip
  /\ \A n \in 1 .. Len(q.route) : n < Len(q.route) => q.route[n] = "ip"
  /\ q.route # <<>> => q.route[Len(q.route)] = q.last

\* A request on its way through the limiters.
RequestOK(q) ==
  /\ q \in RequestRecord
  /\ q.phase \in LimiterPhases => q.route # <<>> /\ RouteLeft(q)
  /\ q.phase = "asking" => q.ask # <<>>
  /\ q.phase = "banning" => q.level # 0

\* A request at its last limiter knows of everybody that limiter answers for who
\* was free since it came, and has asked about all of them but those on its list.
FreeKnown(q) ==
  /\ q.phase = "asking" /\ Limits!AtLast(q) => \A i \in Limits!Owners(q) :
       /\ ban[i] = 0 => i \in q.free
       /\ q.open \/ i \in q.free \/ \E n \in 1 .. Len(q.ask) : q.ask[n] = i
  /\ q.phase \in LimiterPhases \ {"asking"} /\ Limits!AtLast(q) =>
       q.open \/ Limits!Owners(q) \subseteq q.free
  /\ q.phase = "served" => q.open \/ Limits!Owners(q) \subseteq q.free

CountersOK ==
  /\ count \in [Limits!Id -> Nat] /\ passed \in [Limits!Id -> Nat]
  /\ violations \in [Limits!Id -> Nat] /\ ban \in [Limits!Id -> Nat]
  /\ \A i \in Limits!Id : passed[i] <= count[i] /\ passed[i] <= Limits!LimitOf(i)

RequestsOK ==
  /\ DOMAIN req = Request
  /\ \A r \in Request : RequestOK(req[r]) /\ FreeKnown(req[r])

LimitsInv == CountersOK /\ RequestsOK

LEMMA LimitsSteps == [Next]_vars => [Limits!Next]_limits
BY DEF Next, vars, limits

LEMMA NoRequestOK == RequestOK(Limits!NoRequest) /\ FreeKnown(Limits!NoRequest)
BY DEF RequestOK, FreeKnown, RequestRecord, Limits!NoRequest, Limits!Anonymous, LimiterPhases

LEMMA LimitsAreNumbers == \A i : Limits!LimitOf(i) \in Nat
BY LimitsAssumption DEF Limits!LimitOf

LEMMA LimitsInit == Init => LimitsInv
<1> SUFFICES ASSUME Init PROVE LimitsInv
  OBVIOUS
<1>1. Limits!Init
  BY DEF Init
<1>2. CountersOK
  BY <1>1, LimitsAreNumbers DEF Limits!Init, CountersOK
<1>3. RequestsOK
  BY <1>1, NoRequestOK DEF Limits!Init, RequestsOK
<1> QED
  BY <1>2, <1>3 DEF LimitsInv

LEMMA TailFacts ==
  ASSUME NEW S, NEW s \in Seq(S), s # <<>>
  PROVE  /\ Head(s) = s[1] /\ Head(s) \in S
         /\ Tail(s) \in Seq(S) /\ Len(Tail(s)) = Len(s) - 1 /\ Len(s) \in Nat \ {0}
         /\ \A n \in 1 .. Len(Tail(s)) : Tail(s)[n] = s[n + 1]
         /\ Tail(s) # <<>> <=> Len(s) # 1
<1>1. Len(s) \in Nat \ {0}
  BY EmptySeq
<1>2. /\ Head(s) \in S /\ Tail(s) \in Seq(S) /\ Len(Tail(s)) = Len(s) - 1
      /\ \A n \in 1 .. Len(Tail(s)) : Tail(s)[n] = s[n + 1]
  BY HeadTailProperties
<1>3. Tail(s) # <<>> => Len(Tail(s)) # 0
  BY <1>2, EmptySeq
<1>4. Tail(s) = <<>> => Len(Tail(s)) = 0
  BY EmptySeq
<1>5. Head(s) = s[1]
  OBVIOUS
<1> QED
  BY <1>1, <1>2, <1>3, <1>4, <1>5

\* One request becomes q; the others know no less of who is free.
LEMMA OneRequest ==
  ASSUME RequestsOK, NEW r \in Request, NEW q, req' = [req EXCEPT ![r] = q],
         RequestOK(q), FreeKnown(q)', \A i \in Limits!Id : ban'[i] = 0 => ban[i] = 0
  PROVE  RequestsOK'
<1>1. ASSUME NEW x \in Request PROVE RequestOK(req'[x]) /\ FreeKnown(req[x])'
  <2>1. CASE x = r
    BY <2>1 DEF RequestsOK
  <2>2. CASE x # r
    <3>1. req'[x] = req[x]
      BY <2>2 DEF RequestsOK
    <3> QED
      BY <3>1 DEF RequestsOK, RequestOK, RouteLeft, FreeKnown, Limits!AtLast, Limits!Owners,
                  Limits!Id, LimiterPhases
  <2> QED
    BY <2>1, <2>2
<1> QED
  BY <1>1 DEF RequestsOK, RequestOK

\* Whoever comes to a limiter, or past the last, is known to be free or asked about.
LEMMA EnterOK ==
  ASSUME CountersOK, NEW q \in RequestRecord, q.route # <<>> => RouteLeft(q),
         q.route = <<>> => q.open \/ Limits!Owners(q) \subseteq q.free
  PROVE  RequestOK(Limits!Enter(q)) /\ FreeKnown(Limits!Enter(q))
<1> DEFINE e == Limits!Enter(q)
<1>1. CASE q.route = <<>>
  <2>1. /\ e \in RequestRecord /\ e.phase = "served" /\ e.free = q.free
        /\ e.ip = q.ip /\ e.wallet = q.wallet /\ e.last = q.last
    BY <1>1 DEF Limits!Enter, RequestRecord
  <2>2. e.open = q.open
    BY <1>1 DEF Limits!Enter, RequestRecord
  <2> HIDE DEF e
  <2>3. q.open => e.open
    BY ONLY <2>2
  <2> QED
    BY <1>1, <2>1, <2>3 DEF RequestOK, FreeKnown, Limits!AtLast, Limits!Owners, LimiterPhases, e
<1>2. CASE q.route # <<>>
  <2> DEFINE free == {i \in Limits!Owners(q) : Limits!AtLast(q) /\ ban[i] = 0}
  <2>1. /\ q.route \in Seq({"ip", "wallet"}) /\ Head(q.route) = q.route[1]
        /\ Head(q.route) \in {"ip", "wallet"} /\ Len(q.route) \in Nat \ {0}
    BY <1>2, TailFacts DEF RequestRecord
  <2>2. q.ip \in Limits!Id /\ Limits!Owners(q) \subseteq Limits!Id
    BY <1>2 DEF RouteLeft, Limits!Id, Limits!Owners
  <2>5. /\ Limits!Asked(q) \in Seq(Limits!Id) /\ Limits!Asked(q) # <<>>
        /\ Limits!AtLast(q) =>
             \A i \in Limits!Owners(q) : \E n \in 1 .. Len(Limits!Asked(q)) : Limits!Asked(q)[n] = i
    <3>1. CASE Limits!ByWallet(q)
      <4>1. q.wallet \in Limits!Id
        BY <3>1 DEF RequestRecord, Limits!Id, Limits!ByWallet, Limits!Anonymous
      <4>2. Limits!Asked(q) = <<q.wallet, q.wallet, q.ip>>
        BY <3>1 DEF Limits!Asked
      <4>3. /\ Limits!Asked(q) \in Seq(Limits!Id) /\ Limits!Asked(q) # <<>>
            /\ Len(Limits!Asked(q)) = 3 /\ Limits!Asked(q)[1] = q.wallet /\ Limits!Asked(q)[3] = q.ip
        BY <2>2, <4>1, <4>2
      <4>4. \A i \in Limits!Owners(q) : \E n \in 1 .. Len(Limits!Asked(q)) : Limits!Asked(q)[n] = i
        BY <4>3 DEF Limits!Owners
      <4> QED
        BY <4>3, <4>4
    <3>2. CASE ~ Limits!ByWallet(q)
      <4>1. Limits!Asked(q) = <<q.ip, q.ip>>
        BY <3>2 DEF Limits!Asked
      <4>2. /\ Limits!Asked(q) \in Seq(Limits!Id) /\ Limits!Asked(q) # <<>>
            /\ Len(Limits!Asked(q)) = 2 /\ Limits!Asked(q)[1] = q.ip
        BY <2>2, <4>1
      <4>3. Limits!AtLast(q) => q.last = Head(q.route)
        BY <1>2, <2>1 DEF RouteLeft, Limits!AtLast
      <4>4. Limits!AtLast(q) /\ q.last = "wallet" => q.wallet \notin Wallet
        BY <3>2, <4>3, LimitsAssumption DEF Limits!ByWallet, Limits!Anonymous
      <4>5. Limits!AtLast(q) => Limits!Owners(q) \subseteq {q.ip}
        BY <4>4 DEF Limits!Owners
      <4> QED
        BY <4>2, <4>5
    <3> QED
      BY <3>1, <3>2
  <2>6. PICK a, f : a = Limits!Asked(q) /\ f = free
    OBVIOUS
  <2>7. e = [q EXCEPT !.phase = "asking", !.ask = a, !.free = f]
    BY <1>2, <2>6 DEF Limits!Enter
  <2>8. /\ f \in SUBSET Limits!Id
        /\ Limits!AtLast(q) => \A i \in Limits!Owners(q) : ban[i] = 0 => i \in f
    BY <2>2, <2>6
  <2> HIDE DEF free, e
  <2>9. /\ e \in RequestRecord /\ e.phase = "asking" /\ e.ask = a /\ e.free = f
        /\ e.ip = q.ip /\ e.wallet = q.wallet /\ e.route = q.route /\ e.last = q.last
    BY <2>5, <2>6, <2>7, <2>8 DEF RequestRecord, LimiterPhases
  <2>10. /\ RouteLeft(e) /\ Limits!Owners(e) = Limits!Owners(q)
         /\ Limits!AtLast(e) <=> Limits!AtLast(q)
    BY <1>2, <2>9 DEF RouteLeft, Limits!Owners, Limits!AtLast
  <2> QED
    BY <1>2, <2>5, <2>6, <2>8, <2>9, <2>10 DEF RequestOK, FreeKnown, LimiterPhases, e
<1> QED
  BY <1>1, <1>2

\* A request that goes on at the same limiter.
LEMMA KeyIsId ==
  ASSUME RequestsOK, NEW r \in Request, req[r].phase \in LimiterPhases
  PROVE  Limits!Key(r) \in Limits!Id
<1>1. RouteLeft(req[r]) /\ req[r] \in RequestRecord
  BY DEF RequestsOK, RequestOK
<1> QED
  BY <1>1 DEF RouteLeft, RequestRecord, Limits!Key, Limits!ByWallet, Limits!Id, Limits!Anonymous

\* The request at a limiter moves to phase, and nothing else of it changes.
LEMMA Advances ==
  ASSUME RequestsOK, NEW r \in Request, NEW phase \in LimiterPhases \ {"asking", "banning"},
         req[r].phase \in LimiterPhases \ {"asking"},
         Limits!Advance(r, phase), \A i \in Limits!Id : ban'[i] = 0 => ban[i] = 0
  PROVE  RequestsOK'
<1>0. PICK q : q = [req[r] EXCEPT !.phase = phase]
  OBVIOUS
<1>1. req' = [req EXCEPT ![r] = q]
  BY <1>0 DEF Limits!Advance
<1>2. RequestOK(req[r]) /\ FreeKnown(req[r])
  BY DEF RequestsOK
<1>3. /\ q \in RequestRecord /\ q.phase = phase
      /\ q.ip = req[r].ip /\ q.wallet = req[r].wallet /\ q.last = req[r].last
      /\ q.route = req[r].route /\ q.free = req[r].free
  BY <1>0, <1>2 DEF RequestOK, RequestRecord
<1>4. q.open = req[r].open
  BY <1>0, <1>2 DEF RequestOK, RequestRecord
<1>5. req[r].open => q.open
  BY ONLY <1>4
<1>6. RequestOK(q)
  BY <1>2, <1>3 DEF RequestOK, RouteLeft, LimiterPhases
<1>7. FreeKnown(q)'
  BY <1>2, <1>3, <1>5 DEF FreeKnown, Limits!AtLast, Limits!Owners, LimiterPhases
<1> QED
  BY <1>1, <1>6, <1>7, OneRequest

\* A refused request is none.
LEMMA Refuses ==
  ASSUME RequestsOK, NEW r \in Request, Limits!Refuse(r),
         \A i \in Limits!Id : ban'[i] = 0 => ban[i] = 0
  PROVE  RequestsOK'
<1>1. FreeKnown(Limits!NoRequest)'
  BY DEF FreeKnown, Limits!NoRequest, LimiterPhases
<1> QED
  BY <1>1, NoRequestOK, OneRequest DEF Limits!Refuse

LEMMA Finishes ==
  ASSUME RequestsOK, NEW r \in Request, req[r].phase \in LimiterPhases \ {"asking"},
         Limits!Finish(r), \A i \in Limits!Id : ban'[i] = 0 => ban[i] = 0
  PROVE  RequestsOK'
<1>1. Limits!Refuse(r) \/ Limits!Advance(r, "noting")
  BY DEF Limits!Finish
<1> QED
  BY <1>1, Refuses, Advances DEF LimiterPhases

\* A request that passes its limiter.
LEMMA Passes ==
  ASSUME LimitsInv, NEW r \in Request, NEW open \in BOOLEAN,
         req[r].phase \in LimiterPhases \ {"asking"}, Limits!Pass(r, open), ban' = ban
  PROVE  RequestsOK'
<1>1. CountersOK /\ RequestsOK /\ RequestOK(req[r]) /\ FreeKnown(req[r])
  BY DEF LimitsInv, RequestsOK
<1>0. PICK q : q = [req[r] EXCEPT !.route = Tail(@), !.open = @ \/ open, !.level = 0]
  OBVIOUS
<1>2. PICK e : e = Limits!Enter(q)
  OBVIOUS
<1>22. req' = [req EXCEPT ![r] = e]
  BY <1>0, <1>2 DEF Limits!Pass
<1>3. /\ req[r] \in RequestRecord /\ req[r].route # <<>> /\ RouteLeft(req[r])
  BY <1>1 DEF RequestOK, LimiterPhases
<1>4. PICK t \in Seq({"ip", "wallet"}) : t = Tail(req[r].route)
  BY <1>3, TailFacts DEF RequestRecord
<1>5. /\ Len(t) = Len(req[r].route) - 1 /\ Len(req[r].route) \in Nat \ {0}
      /\ \A n \in 1 .. Len(t) : t[n] = req[r].route[n + 1]
      /\ t # <<>> <=> Len(req[r].route) # 1
  BY <1>3, <1>4, TailFacts DEF RequestRecord
<1>6. q.open = (req[r].open \/ open)
  BY <1>0, <1>3 DEF RequestRecord
<1>7. /\ q \in RequestRecord /\ q.route = t /\ q.free = req[r].free
      /\ q.ip = req[r].ip /\ q.wallet = req[r].wallet /\ q.last = req[r].last
  BY <1>0, <1>3, <1>4 DEF RequestRecord
<1>8. q.route # <<>> => RouteLeft(q)
  <2> SUFFICES ASSUME t # <<>> PROVE RouteLeft(q)
    BY <1>7
  <2>0. PICK N \in Nat \ {0} : N = Len(t)
    BY EmptySeq
  <2>1. Len(req[r].route) = N + 1 /\ Len(t) = N
    BY <1>5, <2>0
  <2>2. \A n \in 1 .. N : t[n] = req[r].route[n + 1] /\ n + 1 \in 1 .. N + 1
    BY <1>5, <2>0
  <2>3. q.ip \in Ip
    BY <1>3, <1>7 DEF RouteLeft
  <2>50. \A m \in 1 .. N + 1 : m < N + 1 => req[r].route[m] = "ip"
    BY <1>3, <2>1 DEF RouteLeft
  <2>5. \A n \in 1 .. N : n < N => t[n] = "ip"
    <3> SUFFICES ASSUME NEW n \in 1 .. N, n < N PROVE t[n] = "ip"
      OBVIOUS
    <3>1. n + 1 \in 1 .. N + 1 /\ n + 1 < N + 1 /\ t[n] = req[r].route[n + 1]
      BY <2>2
    <3> QED
      BY <2>50, <3>1
  <2>6. t[N] = q.last
    <3>1. N \in 1 .. N /\ t[N] = req[r].route[N + 1]
      BY <2>2
    <3>2. req[r].route[N + 1] = req[r].last
      BY <1>3, <2>1 DEF RouteLeft
    <3> QED
      BY <1>7, <3>1, <3>2
  <2> QED
    BY <1>7, <2>1, <2>3, <2>5, <2>6 DEF RouteLeft
<1>9. req[r].open => q.open
  BY ONLY <1>6
<1>10. q.route = <<>> => q.open \/ Limits!Owners(q) \subseteq q.free
  BY <1>1, <1>5, <1>7, <1>9 DEF FreeKnown, Limits!AtLast, Limits!Owners, LimiterPhases
<1>11. RequestOK(e) /\ FreeKnown(e)
  BY <1>1, <1>2, <1>7, <1>8, <1>10, EnterOK
<1>12. FreeKnown(e)'
  BY <1>11 DEF FreeKnown
<1> QED
  BY <1>1, <1>22, <1>11, <1>12, OneRequest

\* Steps that touch neither the counters nor the bans but the request.
LEMMA ArriveKeeps ==
  ASSUME LimitsInv, NEW r \in Request, NEW i \in Ip, NEW w \in Wallet \cup {Limits!Anonymous},
         NEW route \in Route, Limits!Arrive(r, i, w, route)
  PROVE  LimitsInv'
<1>1. CountersOK /\ RequestsOK
  BY DEF LimitsInv
<1>2. UNCHANGED <<count, violations, ban, passed>>
  BY DEF Limits!Arrive
<1>3. CountersOK'
  BY <1>1, <1>2 DEF CountersOK
<1>4. CASE Limits!Refuse(r)
  BY <1>1, <1>2, <1>3, <1>4, Refuses DEF LimitsInv
<1> DEFINE new == [Limits!NoRequest EXCEPT !.ip = i, !.wallet = w, !.route = route,
                                           !.last = route[Len(route)]]
<1>5. CASE req' = [req EXCEPT ![r] = Limits!Enter(new)]
  <2>1. PICK q : q = new
    OBVIOUS
  <2>2. PICK e : e = Limits!Enter(q)
    OBVIOUS
  <2>3. req' = [req EXCEPT ![r] = e]
    BY <1>5, <2>1, <2>2
  <2>4. /\ route \in Seq({"ip", "wallet"}) /\ route # <<>>
        /\ \A n \in 1 .. Len(route) - 1 : route[n] = "ip"
    BY LimitsAssumption
  <2>0. PICK N \in Nat \ {0} : N = Len(route)
    BY <2>4, EmptySeq
  <2>50. DOMAIN route = 1 .. N /\ route[N] \in {"ip", "wallet"}
    BY <2>0, <2>4
  <2>5. q \in RequestRecord /\ q.ip = i /\ q.wallet = w /\ q.route = route /\ q.last = route[N]
    <3>1. Limits!NoRequest \in RequestRecord
      BY NoRequestOK DEF RequestOK
    <3>2. i \in Ip /\ w \in Wallet \cup {"anonymous"} /\ route \in Seq({"ip", "wallet"})
      BY <2>4 DEF Limits!Anonymous
    <3> QED
      BY <2>0, <2>1, <2>50, <3>1, <3>2 DEF RequestRecord
  <2>6. RouteLeft(q)
    BY <2>0, <2>4, <2>5 DEF RouteLeft
  <2>7. RequestOK(e) /\ FreeKnown(e)
    BY <1>1, <2>2, <2>4, <2>5, <2>6, EnterOK
  <2>8. FreeKnown(e)'
    BY <1>2, <2>7 DEF FreeKnown
  <2>9. RequestsOK'
    BY <1>1, <1>2, <2>3, <2>7, <2>8, OneRequest
  <2> QED
    BY <1>3, <2>9 DEF LimitsInv
<1> QED
  BY <1>4, <1>5 DEF Limits!Arrive

\* An answer to the question whether somebody is banned.
LEMMA CheckBanStatusKeeps ==
  ASSUME LimitsInv, NEW r \in Request, Limits!CheckBanStatus(r)
  PROVE  LimitsInv'
<1>1. CountersOK /\ RequestsOK /\ RequestOK(req[r]) /\ FreeKnown(req[r])
  BY DEF LimitsInv, RequestsOK
<1>2. UNCHANGED <<count, violations, ban, passed>>
  BY DEF Limits!CheckBanStatus, Limits!redis
<1>3. CountersOK'
  BY <1>1, <1>2 DEF CountersOK
<1>4. CASE Limits!Refuse(r)
  BY <1>1, <1>2, <1>3, <1>4, Refuses DEF LimitsInv
<1>5. ASSUME NEW open \in BOOLEAN, open \/ ban[Head(req[r].ask)] = 0,
             req' = [req EXCEPT ![r] = [req[r] EXCEPT !.ask = Tail(req[r].ask), !.open = @ \/ open,
                              !.phase = IF Len(req[r].ask) = 1 THEN "counting" ELSE @]]
      PROVE  RequestsOK'
  <2>1. PICK q : q = [req[r] EXCEPT !.ask = Tail(req[r].ask), !.open = @ \/ open,
                              !.phase = IF Len(req[r].ask) = 1 THEN "counting" ELSE @]
    OBVIOUS
  <2>2. req' = [req EXCEPT ![r] = q]
    BY <1>5, <2>1
  <2>3. req[r] \in RequestRecord /\ req[r].phase = "asking" /\ req[r].ask # <<>>
    BY <1>1 DEF RequestOK, Limits!CheckBanStatus
  <2>4. PICK a \in Seq(Limits!Id) : a = req[r].ask
    BY <2>3 DEF RequestRecord
  <2>5. PICK t \in Seq(Limits!Id) : t = Tail(a)
    BY <2>3, <2>4, TailFacts
  <2>6. /\ Head(a) = a[1] /\ Len(t) = Len(a) - 1 /\ Len(a) \in Nat \ {0}
        /\ \A n \in 1 .. Len(t) : t[n] = a[n + 1]
        /\ t # <<>> <=> Len(a) # 1
    BY <2>3, <2>4, <2>5, TailFacts
  <2>7. /\ q \in RequestRecord /\ q.ask = t /\ q.free = req[r].free /\ q.route = req[r].route
        /\ q.ip = req[r].ip /\ q.wallet = req[r].wallet /\ q.last = req[r].last
        /\ q.phase = IF Len(a) = 1 THEN "counting" ELSE "asking"
    BY <2>1, <2>3, <2>4, <2>5 DEF RequestRecord, LimiterPhases
  <2>8. q.open = (req[r].open \/ open)
    BY <2>1, <2>3 DEF RequestRecord
  <2>9. req[r].open \/ open => q.open
    BY ONLY <2>8
  <2>10. /\ Limits!Owners(q) = Limits!Owners(req[r])
         /\ Limits!AtLast(q) <=> Limits!AtLast(req[r])
    BY <2>7 DEF Limits!Owners, Limits!AtLast
  <2>11. RequestOK(q)
    BY <1>1, <2>3, <2>6, <2>7 DEF RequestOK, RouteLeft, LimiterPhases
  <2>12. Limits!AtLast(q) => \A i \in Limits!Owners(q) : ban[i] = 0 => i \in q.free
    BY <1>1, <2>3, <2>7, <2>10 DEF FreeKnown
  <2>13. ASSUME Limits!AtLast(q), NEW i \in Limits!Owners(q)
         PROVE  q.open \/ i \in q.free \/ \E n \in 1 .. Len(t) : t[n] = i
    <3>1. req[r].open \/ i \in req[r].free \/ \E n \in 1 .. Len(a) : a[n] = i
      BY <1>1, <2>3, <2>4, <2>10, <2>13 DEF FreeKnown
    <3>2. ASSUME NEW n \in 1 .. Len(a), a[n] = i
          PROVE  q.open \/ i \in q.free \/ \E m \in 1 .. Len(t) : t[m] = i
      <4>1. CASE n = 1
        BY <1>5, <2>4, <2>6, <2>9, <2>12, <2>13, <3>2, <4>1
      <4>2. CASE n # 1
        <5>1. n - 1 \in 1 .. Len(t) /\ t[n - 1] = i
          BY <2>6, <3>2, <4>2
        <5> QED
          BY <5>1
      <4> QED
        BY <4>1, <4>2
    <3> QED
      BY <2>7, <2>9, <3>1, <3>2
  <2>14. Len(a) = 1 => \A n \in 1 .. Len(t) : FALSE
    BY <2>6
  <2>15. FreeKnown(q)
    BY <2>6, <2>7, <2>12, <2>13, <2>14 DEF FreeKnown, LimiterPhases
  <2>16. FreeKnown(q)'
    BY <1>2, <2>15 DEF FreeKnown
  <2> QED
    BY <1>1, <1>2, <2>2, <2>11, <2>16, OneRequest
<1>6. ban[Head(req[r].ask)] = 0 \/ ban[Head(req[r].ask)] > 0
  <2>1. req[r].ask # <<>> /\ req[r].ask \in Seq(Limits!Id)
    BY <1>1 DEF RequestOK, RequestRecord, Limits!CheckBanStatus
  <2>2. Head(req[r].ask) \in Limits!Id
    BY <2>1, TailFacts
  <2> QED
    BY <1>1, <2>2 DEF CountersOK
<1> QED
  BY <1>3, <1>4, <1>5, <1>6 DEF Limits!CheckBanStatus, LimitsInv

\* A request counted at its limiter: passed grows only where count has not
\* passed the limit.
LEMMA IncrementKeeps ==
  ASSUME LimitsInv, NEW r \in Request, Limits!Increment(r)
  PROVE  LimitsInv'
<1>1. CountersOK /\ RequestsOK
  BY DEF LimitsInv
<1>2. req[r].phase = "counting" /\ ban' = ban /\ violations' = violations
  BY DEF Limits!Increment
<1>3. PICK k \in Limits!Id : k = Limits!Key(r)
  BY <1>1, <1>2, KeyIsId DEF LimiterPhases
<1>4. /\ count[k] \in Nat /\ passed[k] \in Nat /\ passed[k] <= count[k]
      /\ DOMAIN count = Limits!Id /\ DOMAIN passed = Limits!Id /\ Limits!LimitOf(k) \in Nat
  BY <1>1, LimitsAreNumbers DEF CountersOK
<1>5. CASE count' = [count EXCEPT ![k] = @ + 1] /\ count'[k] > Limits!LimitOf(k)
           /\ Limits!Advance(r, "violating") /\ UNCHANGED passed
  <2>1. RequestsOK'
    BY <1>1, <1>2, <1>5, Advances DEF LimiterPhases
  <2>2. CountersOK'
    BY <1>1, <1>2, <1>4, <1>5 DEF CountersOK, Limits!LimitOf
  <2> QED
    BY <2>1, <2>2 DEF LimitsInv
<1>6. CASE count' = [count EXCEPT ![k] = @ + 1] /\ ~ (count'[k] > Limits!LimitOf(k))
           /\ Limits!Pass(r, FALSE) /\ passed' = [passed EXCEPT ![k] = @ + 1]
  <2>1. RequestsOK'
    BY <1>2, <1>6, Passes DEF LimiterPhases
  <2>2. count'[k] = count[k] + 1 /\ passed'[k] = passed[k] + 1 /\ count[k] + 1 <= Limits!LimitOf(k)
    BY <1>4, <1>6
  <2>3. CountersOK'
    BY <1>1, <1>2, <1>4, <1>6, <2>2 DEF CountersOK, Limits!LimitOf
  <2> QED
    BY <2>1, <2>3 DEF LimitsInv
<1>7. CASE Limits!Pass(r, TRUE) /\ passed' = passed
           /\ count' \in {count, [count EXCEPT ![k] = @ + 1]}
  <2>1. RequestsOK'
    BY <1>2, <1>7, Passes DEF LimiterPhases
  <2>2. CountersOK'
    BY <1>1, <1>2, <1>4, <1>7 DEF CountersOK, Limits!LimitOf
  <2> QED
    BY <2>1, <2>2 DEF LimitsInv
<1> QED
  BY <1>3, <1>5, <1>6, <1>7 DEF Limits!Increment

\* A violation recorded, perhaps with a ban to come.
LEMMA RecordViolationKeeps ==
  ASSUME LimitsInv, NEW r \in Request, Limits!RecordViolation(r)
  PROVE  LimitsInv'
<1>1. CountersOK /\ RequestsOK /\ RequestOK(req[r]) /\ FreeKnown(req[r])
  BY DEF LimitsInv, RequestsOK
<1>2. req[r].phase = "violating" /\ ban' = ban /\ count' = count /\ passed' = passed
  BY DEF Limits!RecordViolation
<1>3. PICK k \in Limits!Id : k = Limits!Key(r)
  BY <1>1, <1>2, KeyIsId DEF LimiterPhases
<1>4. PICK n \in Nat : n = violations[k] + 1
  BY <1>1 DEF CountersOK
<1>5. violations' = [violations EXCEPT ![k] = n] \/ violations' = violations
  BY <1>3, <1>4 DEF Limits!RecordViolation
<1>6. CountersOK'
  BY <1>1, <1>2, <1>5 DEF CountersOK
<1>7. CASE Limits!Finish(r)
  BY <1>1, <1>2, <1>6, <1>7, Finishes DEF LimitsInv, LimiterPhases
<1>8. ASSUME NEW level, level \in Nat \ {0},
             req' = [req EXCEPT ![r] = [req[r] EXCEPT !.phase = "banning", !.level = level]]
      PROVE  RequestsOK'
  <2>1. PICK q : q = [req[r] EXCEPT !.phase = "banning", !.level = level]
    OBVIOUS
  <2>2. /\ q \in RequestRecord /\ q.phase = "banning" /\ q.level = level
        /\ q.ip = req[r].ip /\ q.wallet = req[r].wallet /\ q.last = req[r].last
        /\ q.route = req[r].route /\ q.free = req[r].free
    BY <1>1, <1>8, <2>1 DEF RequestOK, RequestRecord, LimiterPhases
  <2>3. q.open = req[r].open
    BY <1>1, <2>1 DEF RequestOK, RequestRecord
  <2>4. req[r].open => q.open
    BY ONLY <2>3
  <2>5. RequestOK(q)
    BY <1>1, <1>2, <1>8, <2>2 DEF RequestOK, RouteLeft, LimiterPhases
  <2>6. FreeKnown(q)'
    BY <1>1, <1>2, <2>2, <2>4 DEF FreeKnown, Limits!AtLast, Limits!Owners, LimiterPhases
  <2> QED
    BY <1>1, <1>2, <1>8, <2>1, <2>5, <2>6, OneRequest
<1>9. ASSUME ~ (n < banThreshold)
      PROVE  Limits!Lower(n - banThreshold, BAN_LEVELS - 1) + 1 \in Nat \ {0}
  BY <1>4, <1>9, LimitsAssumption DEF Limits!Lower
<1> QED
  BY <1>3, <1>4, <1>6, <1>7, <1>8, <1>9 DEF Limits!RecordViolation, LimitsInv

\* The ban, and the violations forgotten after the longest one.
LEMMA BanKeeps ==
  ASSUME LimitsInv, NEW r \in Request, Limits!Ban(r) \/ Limits!Forget(r)
  PROVE  LimitsInv'
<1>1. CountersOK /\ RequestsOK /\ RequestOK(req[r])
  BY DEF LimitsInv, RequestsOK
<1>2. count' = count /\ passed' = passed
  BY DEF Limits!Ban, Limits!Forget
<1>3. CASE Limits!Ban(r)
  <2>1. req[r].phase = "banning" /\ violations' = violations
    BY <1>3 DEF Limits!Ban
  <2>2. req[r].level \in Nat \ {0}
    BY <1>1, <2>1 DEF RequestOK, RequestRecord
  <2>3. PICK k, n : n \in Nat \ {0} /\ k = Limits!Key(r) /\ n = req[r].level
    BY <2>2
  <2>4. ban' = [ban EXCEPT ![k] = n] \/ ban' = ban
    BY <1>3, <2>3 DEF Limits!Ban
  <2>44. n \in Nat /\ n # 0 /\ ban \in [Limits!Id -> Nat]
    BY <1>1, <2>3 DEF CountersOK
  <2>46. /\ \A i \in Limits!Id : ban'[i] = 0 => ban[i] = 0
         /\ ban' \in [Limits!Id -> Nat]
    <3>1. CASE ban' = [ban EXCEPT ![k] = n]
      <4>1. \A i \in Limits!Id : ban'[i] = n \/ ban'[i] = ban[i]
        BY <2>44, <3>1
      <4>2. ban' \in [Limits!Id -> Nat]
        BY <2>44, <3>1
      <4> QED
        BY <2>44, <4>1, <4>2
    <3>2. CASE ban' = ban
      BY <2>44, <3>2
    <3> QED
      BY <2>4, <3>1, <3>2
  <2>5. \A i \in Limits!Id : ban'[i] = 0 => ban[i] = 0
    BY <2>46
  <2>6. CountersOK'
    BY <1>1, <1>2, <2>1, <2>46 DEF CountersOK, Limits!LimitOf
  <2>7. RequestsOK'
    <3>1. Limits!Finish(r) \/ Limits!Advance(r, "forgetting")
      BY <1>3 DEF Limits!Ban
    <3> QED
      BY <1>1, <2>1, <2>5, <3>1, Finishes, Advances DEF LimiterPhases
  <2> QED
    BY <2>6, <2>7 DEF LimitsInv
<1>4. CASE Limits!Forget(r)
  <2>1. PICK k : k = Limits!Key(r)
    OBVIOUS
  <2>2. /\ violations' = [violations EXCEPT ![k] = 0] \/ violations' = violations
        /\ ban' = ban /\ Limits!Finish(r) /\ req[r].phase = "forgetting"
    BY <1>4, <2>1 DEF Limits!Forget
  <2>3. CountersOK'
    BY <1>1, <1>2, <2>2 DEF CountersOK
  <2>4. RequestsOK'
    BY <1>1, <2>2, Finishes DEF LimiterPhases
  <2> QED
    BY <2>3, <2>4 DEF LimitsInv
<1> QED
  BY <1>3, <1>4

\* The IP noted, or the request let through.
LEMMA NoteKeeps ==
  ASSUME LimitsInv, NEW r \in Request, Limits!Note(r)
  PROVE  LimitsInv'
<1>1. CountersOK /\ RequestsOK
  BY DEF LimitsInv
<1>2. UNCHANGED <<count, violations, ban, passed>> /\ req[r].phase = "noting"
  BY DEF Limits!Note, Limits!redis
<1>3. CountersOK'
  BY <1>1, <1>2 DEF CountersOK
<1>4. Limits!Refuse(r) \/ Limits!Pass(r, TRUE)
  BY DEF Limits!Note
<1>5. RequestsOK'
  BY <1>1, <1>2, <1>4, Refuses, Passes DEF LimiterPhases
<1> QED
  BY <1>3, <1>5 DEF LimitsInv

\* A ban that ends: the requests that are asking learn of it.
LEMMA LiftKeeps ==
  ASSUME RequestsOK, NEW k \in Limits!Id, Limits!Lift(k)
  PROVE  RequestsOK'
<1>1. ASSUME NEW x \in Request PROVE RequestOK(req'[x]) /\ FreeKnown(req[x])'
  <2>1. RequestOK(req[x]) /\ FreeKnown(req[x]) /\ req[x] \in RequestRecord
    BY DEF RequestsOK, RequestOK
  <2>2. CASE ~ (req[x].phase = "asking" /\ Limits!AtLast(req[x]))
    <3>1. req'[x] = req[x]
      BY <2>2 DEF Limits!Lift
    <3> QED
      BY <2>1, <2>2, <3>1 DEF FreeKnown, Limits!AtLast, Limits!Owners
  <2>3. CASE req[x].phase = "asking" /\ Limits!AtLast(req[x])
    <3>0. PICK F : F = req[x].free \cup ({k} \cap Limits!Owners(req[x]))
      OBVIOUS
    <3>1. PICK q : q = [req[x] EXCEPT !.free = F]
      OBVIOUS
    <3>2. req'[x] = q
      BY <2>3, <3>0, <3>1 DEF Limits!Lift
    <3>3. /\ q \in RequestRecord /\ q.phase = "asking" /\ q.free = F /\ q.last = req[x].last
          /\ q.ip = req[x].ip /\ q.wallet = req[x].wallet /\ q.route = req[x].route /\ q.ask = req[x].ask
      BY <2>1, <2>3, <3>0, <3>1 DEF RequestRecord
    <3>4. q.open = req[x].open
      BY <2>1, <3>1 DEF RequestRecord
    <3>5. req[x].open => q.open
      BY ONLY <3>4
    <3>6. Limits!Owners(q) = Limits!Owners(req[x])
      BY <3>3 DEF Limits!Owners
    <3>7. \A i : i # k => (ban'[i] = 0 => ban[i] = 0)
      BY DEF Limits!Lift
    <3>8. RequestOK(q)
      BY <2>1, <2>3, <3>3 DEF RequestOK, RouteLeft, LimiterPhases
    <3>9. FreeKnown(q)'
      BY <2>1, <2>3, <3>0, <3>3, <3>5, <3>6, <3>7 DEF FreeKnown, LimiterPhases
    <3> QED
      BY <3>2, <3>8, <3>9 DEF FreeKnown
  <2> QED
    BY <2>2, <2>3
<1>2. DOMAIN req' = Request
  BY DEF Limits!Lift
<1> QED
  BY <1>1, <1>2 DEF RequestsOK, RequestOK

LEMMA LimitsStep == LimitsInv /\ [Limits!Next]_limits => LimitsInv'
<1> SUFFICES ASSUME LimitsInv, [Limits!Next]_limits PROVE LimitsInv'
  OBVIOUS
<1>1. CountersOK /\ RequestsOK
  BY DEF LimitsInv
<1>2. ASSUME NEW r \in Request, Limits!RequestStep(r) PROVE LimitsInv'
  <2>1. CASE Limits!Leave(r)
    <3>1. UNCHANGED <<count, violations, ban, passed>> /\ Limits!Refuse(r)
      BY <2>1 DEF Limits!Leave, Limits!redis
    <3>2. CountersOK' /\ RequestsOK'
      BY <1>1, <3>1, Refuses DEF CountersOK
    <3> QED
      BY <3>2 DEF LimitsInv
  <2> QED
    BY <1>2, <2>1, CheckBanStatusKeeps, IncrementKeeps, RecordViolationKeeps, BanKeeps,
       NoteKeeps
       DEF Limits!RequestStep
<1>3. CASE Limits!MinuteEnds
  <2>1. /\ count' = [i \in Limits!Id |-> 0] /\ passed' = [i \in Limits!Id |-> 0]
        /\ UNCHANGED <<violations, ban, req>>
    BY <1>3 DEF Limits!MinuteEnds
  <2>2. CountersOK'
    BY <1>1, <2>1, LimitsAreNumbers DEF CountersOK, Limits!LimitOf
  <2>3. RequestsOK'
    BY <1>1, <2>1 DEF RequestsOK, RequestOK, FreeKnown
  <2> QED
    BY <2>2, <2>3 DEF LimitsInv
<1>4. ASSUME NEW k \in Limits!Id, Limits!BanExpires(k) PROVE LimitsInv'
  <2>1. UNCHANGED <<count, violations, passed>> /\ Limits!Lift(k)
    BY <1>4 DEF Limits!BanExpires
  <2>2. CountersOK'
    BY <1>1, <2>1 DEF CountersOK, Limits!Lift
  <2> QED
    BY <1>1, <2>1, <2>2, LiftKeeps DEF LimitsInv
<1>5. ASSUME NEW k \in Limits!Id, Limits!ViolationsExpire(k) PROVE LimitsInv'
  <2>1. UNCHANGED <<count, ban, req, passed>> /\ violations' = [violations EXCEPT ![k] = 0]
    BY <1>5 DEF Limits!ViolationsExpire
  <2>2. CountersOK'
    BY <1>1, <2>1 DEF CountersOK
  <2>3. RequestsOK'
    BY <1>1, <2>1 DEF RequestsOK, RequestOK, FreeKnown
  <2> QED
    BY <2>2, <2>3 DEF LimitsInv
<1>6. ASSUME NEW k \in Limits!Id, Limits!Clear(k) PROVE LimitsInv'
  <2>1. /\ count' = [count EXCEPT ![k] = 0] /\ passed' = [passed EXCEPT ![k] = 0]
        /\ violations' = [violations EXCEPT ![k] = 0] /\ Limits!Lift(k)
    BY <1>6 DEF Limits!Clear
  <2>2. CountersOK'
    BY <1>1, <2>1, LimitsAreNumbers DEF CountersOK, Limits!Lift, Limits!LimitOf
  <2> QED
    BY <1>1, <2>1, <2>2, LiftKeeps DEF LimitsInv
<1>7. CASE UNCHANGED limits
  <2>1. UNCHANGED <<count, violations, ban, req, passed>>
    BY <1>7 DEF limits
  <2> QED
    BY <1>1, <2>1 DEF LimitsInv, CountersOK, RequestsOK, RequestOK, FreeKnown
<1> QED
  BY <1>2, <1>3, <1>4, <1>5, <1>6, <1>7, ArriveKeeps DEF Limits!Next

\* However many requests of an IP or a wallet overlap, each limiter lets no more
\* pass in a minute than its limit, and a request that reaches its handler
\* belongs to nobody who was banned all the while it was at its last limiter
\* (enhanced-rate-limit.service.ts:184-199 and its counters), unless redis failed.
THEOREM LimitsCorrect == Spec => []LimitsHold
<1>1. LimitsInv => LimitsHold
  BY DEF LimitsInv, CountersOK, RequestsOK, FreeKnown, Limits!AtLast, Limits!Owners, LimitsHold,
         Limits!WithinLimit, Limits!ServedWereFree
<1> QED
  BY <1>1, LimitsInit, LimitsSteps, LimitsStep, PTL DEF Spec

-----------------------------------------------------------------------------
(* Deployment                                                               *)

Places == {"keypair", "lib", "texts", "idl", "env"}
AfterKeygen == {"sync", "texts", "build", "deploy", "record"}
ChildSteps == {"protocol", "staking", "feeReceiver", "treasury", "end", "done"}
Parts == {"protocol", "staking", "feeReceiver", "treasury"}

\* The parts whose scripts a run at this step has started.
Begun(step) ==
  IF step = "protocol" THEN {}
  ELSE IF step = "staking" THEN {"protocol"}
  ELSE IF step = "feeReceiver" THEN {"protocol", "staking"}
  ELSE IF step = "treasury" THEN {"protocol", "staking", "feeReceiver"}
  ELSE Parts

\* Those of them that a run with these options leaves on chain and recorded.
Ran(step, parts) == Begun(step) \cap Deploy!Possible(parts)

RunRecord ==
  [step : {"idle", "keygen"} \cup AfterKeygen \cup ChildSteps, old : Nat, clean : BOOLEAN,
   parts : SUBSET Parts]

ProgramRecord ==
  [state : {"none", "up", "closed"}, done : SUBSET Parts, tokens : SUBSET Token]

DeployTypes ==
  /\ ids \in Nat /\ ids <= MaxPrograms
  /\ DOMAIN file = Places /\ \A f \in Places : file[f] \in Nat /\ file[f] <= ids
  /\ DOMAIN chain = Deploy!Program
  /\ \A p \in Deploy!Program :
       /\ chain[p] \in ProgramRecord
       /\ p > ids => chain[p].state = "none" /\ chain[p].done = {}
  /\ record \in [exists : BOOLEAN, id : Nat, done : SUBSET Parts, tokens : SUBSET Token]
  /\ record.id <= ids
  /\ run \in RunRecord
  /\ child \in [part : Parts \cup {"none"}, step : {"idle", "send", "record"}]
  /\ child.step # "idle" => child.part \in Parts
  /\ run.step = "keygen" => ids < MaxPrograms /\ child.step = "idle"

\* Until the program is deployed nothing is known of its new id but in the files
\* the run has come to.
EarlySteps ==
  /\ run.step \in AfterKeygen =>
       /\ file["keypair"] # 0 /\ record.id # file["keypair"] /\ child.step = "idle"
       /\ chain[file["keypair"]].done = {}
       /\ chain[file["keypair"]].state = IF run.step = "record" THEN "up" ELSE "none"
  /\ run.step \in {"texts", "build", "deploy", "record"} => file["lib"] = file["keypair"]
  /\ run.step \in {"deploy", "record"} => file["idl"] = file["keypair"]

\* From then on the program and its record have exactly the parts whose scripts
\* were started and can succeed, but for what the script that runs has still to do.
LateSteps ==
  run.step \in ChildSteps =>
    /\ file["keypair"] # 0 /\ file["lib"] = file["keypair"] /\ file["idl"] = file["keypair"]
    /\ chain[file["keypair"]].state = "up"
    /\ record.id = file["keypair"] /\ record.tokens = {}
    /\ child.step # "idle" => run.step = Deploy!After(child.part) /\ child.part \in run.parts
    /\ child.step = "record" => child.part \in Ran(run.step, run.parts)
    /\ chain[file["keypair"]].done =
         IF child.step = "send" THEN Ran(run.step, run.parts) \ {child.part}
         ELSE Ran(run.step, run.parts)
    /\ record.done =
         IF child.step = "idle" THEN Ran(run.step, run.parts)
         ELSE Ran(run.step, run.parts) \ {child.part}
    /\ run.step = "done" => file["env"] = file["keypair"] /\ child.step = "idle"

DeployInv == DeployTypes /\ (run.clean => EarlySteps /\ LateSteps)

LEMMA DeploySteps == [Next]_vars => [Deploy!Next]_deploy
BY DEF Next, vars, deploy

LEMMA PartsAre ==
  /\ Deploy!Part = Parts
  /\ Deploy!Protocol = "protocol" /\ Deploy!Staking = "staking"
  /\ Deploy!FeeReceiver = "feeReceiver" /\ Deploy!Treasury = "treasury"
BY DEF Deploy!Part, Deploy!Protocol, Deploy!Staking, Deploy!FeeReceiver, Deploy!Treasury, Parts

LEMMA PossibleIs ==
  ASSUME NEW parts \in SUBSET Parts
  PROVE  /\ Deploy!Possible(parts) \subseteq parts
         /\ "protocol" \in parts => Deploy!Possible(parts) = parts
         /\ "protocol" \notin parts =>
              Deploy!Possible(parts) = parts \ {"feeReceiver", "treasury"}
BY PartsAre DEF Deploy!Possible

LEMMA ProgramsAre == \A p : p \in Deploy!Program <=> p \in Nat /\ p # 0 /\ p <= MaxPrograms
BY DeployAssumption DEF Deploy!Program

LEMMA DeployInit == Init => DeployInv
<1> SUFFICES ASSUME Deploy!Init PROVE DeployInv
  BY DEF Init
<1>1. /\ ids = 0 /\ file = [f \in Places |-> 0]
      /\ chain = [p \in Deploy!Program |-> [state |-> "none", done |-> {}, tokens |-> {}]]
      /\ record = [exists |-> FALSE, id |-> 0, done |-> {}, tokens |-> {}]
      /\ run = [step |-> "idle", old |-> 0, clean |-> FALSE, parts |-> {}]
      /\ child = [part |-> "none", step |-> "idle"]
  BY DEF Deploy!Init, Deploy!NoRecord, Deploy!NoRun, Deploy!NoChild, Places
<1>2. ~ run.clean
  BY <1>1
<1>3. DeployTypes
  BY <1>1, DeployAssumption DEF DeployTypes, ProgramRecord, RunRecord
<1> QED
  BY <1>2, <1>3 DEF DeployInv

\* What the files hold is a program or nothing.
LEMMA FileIsProgram ==
  ASSUME DeployTypes, NEW f \in Places
  PROVE  /\ file[f] \in Nat /\ file[f] <= ids
         /\ file[f] # 0 => file[f] \in Deploy!Program
BY ProgramsAre, DeployAssumption DEF DeployTypes

\* The steps of deploy-full that are its own.
LEMMA RunStepsKeep ==
  ASSUME DeployInv,
         \/ Deploy!Keygen \/ Deploy!SyncKeys \/ Deploy!UpdateTexts \/ Deploy!Build
         \/ Deploy!DeployProgram \/ Deploy!SaveRecord \/ Deploy!EndRun
  PROVE  DeployInv'
<1>1. DeployTypes /\ (run.clean => EarlySteps /\ LateSteps)
  BY DEF DeployInv
<1>2. \A f \in Places : file[f] \in Nat /\ file[f] <= ids /\ (file[f] # 0 => file[f] \in Deploy!Program)
  BY <1>1, FileIsProgram
<1>3. CASE Deploy!Keygen
  <2>1. /\ run.step = "keygen" /\ child.step = "idle" /\ ids' = ids + 1
        /\ file' = [file EXCEPT !["keypair"] = ids + 1]
        /\ run' = [run EXCEPT !.step = "sync"]
        /\ UNCHANGED <<chain, record, child>>
    BY <1>3 DEF Deploy!Keygen, Deploy!At, Deploy!Goto
  <2>2. PICK new \in Nat : new = ids + 1
    BY <1>1 DEF DeployTypes, RunRecord
  <2>3. /\ file' = [file EXCEPT !["keypair"] = new] /\ ids' = new /\ new # 0 /\ new > ids
        /\ new <= MaxPrograms /\ new \in Deploy!Program
    BY <1>1, <2>1, <2>2, ProgramsAre, DeployAssumption DEF DeployTypes, RunRecord
  <2>4. run'.step = "sync" /\ file'["keypair"] = new
    BY <1>1, <2>1, <2>3 DEF DeployTypes, RunRecord, Places
  <2>41. \A f \in Places : file'[f] \in Nat /\ file'[f] <= new
    BY <1>1, <2>2, <2>3 DEF DeployTypes, RunRecord, Places
  <2>42. \A p \in Deploy!Program : p > new => p > ids
    BY <1>1, <2>2, ProgramsAre DEF DeployTypes, RunRecord
  <2>43. record.id <= new
    BY <1>1, <2>2 DEF DeployTypes, RunRecord
  <2>44. run' \in RunRecord
    BY <1>1, <2>1 DEF DeployTypes, RunRecord, AfterKeygen
  <2>5. DeployTypes'
    BY <1>1, <2>1, <2>3, <2>4, <2>41, <2>42, <2>43, <2>44 DEF DeployTypes
  <2>6. record.id # new /\ chain[new].state = "none" /\ chain[new].done = {}
    BY <1>1, <2>2, <2>3 DEF DeployTypes, RunRecord
  <2>7. EarlySteps' /\ LateSteps'
    BY <2>1, <2>3, <2>4, <2>6 DEF EarlySteps, LateSteps, AfterKeygen, ChildSteps
  <2> QED
    BY <2>5, <2>7 DEF DeployInv
<1>4. CASE Deploy!SyncKeys
  <2>1. /\ run.step = "sync" /\ child.step = "idle"
        /\ file' = [file EXCEPT !["lib"] = file["keypair"]]
        /\ run' = [run EXCEPT !.step = "texts"]
        /\ UNCHANGED <<ids, chain, record, child>>
    BY <1>4 DEF Deploy!SyncKeys, Deploy!At, Deploy!Goto, Deploy!New
  <2>2. /\ run'.step = "texts" /\ file'["keypair"] = file["keypair"]
        /\ file'["lib"] = file["keypair"]
    BY <1>1, <2>1 DEF DeployTypes, RunRecord, Places
  <2>3. run'.clean = run.clean
    BY <1>1, <2>1 DEF DeployTypes, RunRecord
  <2>4. run'.clean => run.clean
    BY ONLY <2>3
  <2>5. DeployTypes'
    BY <1>1, <1>2, <2>1, <2>2 DEF DeployTypes, RunRecord, Places, AfterKeygen
  <2>6. run.clean => EarlySteps' /\ LateSteps'
    BY <1>1, <2>1, <2>2 DEF EarlySteps, LateSteps, AfterKeygen, ChildSteps
  <2> QED
    BY <2>4, <2>5, <2>6 DEF DeployInv
<1>5. CASE Deploy!UpdateTexts
  <2>1. /\ run.step = "texts" /\ child.step = "idle"
        /\ file' = file \/ file' = [file EXCEPT !["texts"] = file["keypair"]]
        /\ run' = [run EXCEPT !.step = "build"]
        /\ UNCHANGED <<ids, chain, record, child>>
    BY <1>5 DEF Deploy!UpdateTexts, Deploy!At, Deploy!Goto, Deploy!New
  <2>2. /\ run'.step = "build" /\ file'["keypair"] = file["keypair"]
        /\ file'["lib"] = file["lib"]
    BY <1>1, <2>1 DEF DeployTypes, RunRecord, Places
  <2>3. run'.clean = run.clean
    BY <1>1, <2>1 DEF DeployTypes, RunRecord
  <2>4. run'.clean => run.clean
    BY ONLY <2>3
  <2>5. DeployTypes'
    BY <1>1, <1>2, <2>1, <2>2 DEF DeployTypes, RunRecord, Places, AfterKeygen
  <2>6. run.clean => EarlySteps' /\ LateSteps'
    BY <1>1, <2>1, <2>2 DEF EarlySteps, LateSteps, AfterKeygen, ChildSteps
  <2> QED
    BY <2>4, <2>5, <2>6 DEF DeployInv
<1>6. CASE Deploy!Build
  <2>1. /\ run.step = "build" /\ child.step = "idle"
        /\ file' = [file EXCEPT !["idl"] = file["lib"]]
        /\ run' = [run EXCEPT !.step = "deploy"]
        /\ UNCHANGED <<ids, chain, record, child>>
    BY <1>6 DEF Deploy!Build, Deploy!At, Deploy!Goto
  <2>2. /\ run'.step = "deploy" /\ file'["keypair"] = file["keypair"]
        /\ file'["lib"] = file["lib"] /\ file'["idl"] = file["lib"]
    BY <1>1, <2>1 DEF DeployTypes, RunRecord, Places
  <2>3. run'.clean = run.clean
    BY <1>1, <2>1 DEF DeployTypes, RunRecord
  <2>4. run'.clean => run.clean
    BY ONLY <2>3
  <2>5. DeployTypes'
    BY <1>1, <1>2, <2>1, <2>2 DEF DeployTypes, RunRecord, Places, AfterKeygen
  <2>6. run.clean => EarlySteps' /\ LateSteps'
    BY <1>1, <2>1, <2>2 DEF EarlySteps, LateSteps, AfterKeygen, ChildSteps
  <2> QED
    BY <2>4, <2>5, <2>6 DEF DeployInv
<1>7. CASE Deploy!DeployProgram
  <2>1. /\ run.step = "deploy" /\ child.step = "idle"
        /\ UNCHANGED <<ids, file, record, child>>
    BY <1>7 DEF Deploy!DeployProgram, Deploy!At
  <2>2. CASE run' = Deploy!NoRun /\ chain' = chain
    BY <1>1, <2>1, <2>2 DEF Deploy!NoRun, DeployInv, DeployTypes, RunRecord
  <2>3. CASE chain' = [chain EXCEPT ![file["keypair"]].state = "up"] /\ run' = [run EXCEPT !.step = "record"]
    <3>1. PICK p \in Nat : p = file["keypair"] /\ p <= ids
      BY <1>2 DEF Places
    <3>2. chain' = [chain EXCEPT ![p] = [chain[p] EXCEPT !.state = "up"]]
      BY <2>3, <3>1
    <3>3. run'.step = "record"
      BY <1>1, <2>3 DEF DeployTypes, RunRecord
    <3>4. DeployTypes'
      BY <1>1, <2>1, <2>3, <3>1, <3>2, <3>3 DEF DeployTypes, RunRecord, ProgramRecord, AfterKeygen
    <3>5. run'.clean = run.clean
      BY <1>1, <2>3 DEF DeployTypes, RunRecord
    <3>6. run'.clean => run.clean
      BY ONLY <3>5
    <3>7. p # 0 => chain'[p].state = "up" /\ chain'[p].done = chain[p].done
      BY <1>1, <1>2, <3>1, <3>2 DEF DeployTypes, RunRecord, ProgramRecord, Places
    <3>8. run.clean => EarlySteps' /\ LateSteps'
      BY <1>1, <2>1, <3>1, <3>3, <3>7 DEF EarlySteps, LateSteps, AfterKeygen, ChildSteps
    <3> QED
      BY <3>4, <3>6, <3>8 DEF DeployInv
  <2> QED
    BY <1>7, <2>2, <2>3 DEF Deploy!DeployProgram, Deploy!Goto, Deploy!New
<1>8. CASE Deploy!SaveRecord
  <2>1. run.step = "record" /\ child.step = "idle" /\ UNCHANGED <<ids, file, chain, child>>
    BY <1>8 DEF Deploy!SaveRecord, Deploy!At
  <2>2. CASE record' = record /\ run' = [run EXCEPT !.step = "protocol", !.clean = FALSE]
    <3>1. run'.step = "protocol" /\ ~ run'.clean
      BY <1>1, <2>2 DEF DeployTypes, RunRecord
    <3>2. DeployTypes'
      BY <1>1, <2>1, <2>2, <3>1 DEF DeployTypes, RunRecord, ChildSteps
    <3> QED
      BY <3>1, <3>2 DEF DeployInv
  <2>3. CASE /\ record' = IF record.exists /\ record.id = file["keypair"] THEN record
                          ELSE [Deploy!NoRecord EXCEPT !.exists = TRUE, !.id = file["keypair"]]
             /\ run' = [run EXCEPT !.step = "protocol"]
    <3>1. run'.step = "protocol"
      BY <1>1, <2>3 DEF DeployTypes, RunRecord
    <3>2. PICK p \in Nat : p = file["keypair"] /\ p <= ids
      BY <1>2 DEF Places
    <3>3. DeployTypes'
      BY <1>1, <2>1, <2>3, <3>1, <3>2 DEF DeployTypes, RunRecord, ChildSteps, Deploy!NoRecord
    <3>4. run'.clean = run.clean
      BY <1>1, <2>3 DEF DeployTypes, RunRecord
    <3>5. run'.clean => run.clean
      BY ONLY <3>4
    <3>6. record.id # p => record'.id = p /\ record'.done = {} /\ record'.tokens = {}
      BY <2>3, <3>2 DEF Deploy!NoRecord
    <3>7. run.clean => EarlySteps' /\ LateSteps'
      BY <1>1, <2>1, <3>1, <3>2, <3>6 DEF EarlySteps, LateSteps, AfterKeygen, ChildSteps, Begun, Ran
    <3> QED
      BY <3>3, <3>5, <3>7 DEF DeployInv
  <2> QED
    BY <1>8, <2>2, <2>3, PartsAre DEF Deploy!SaveRecord, Deploy!Goto, Deploy!New
<1>9. CASE Deploy!EndRun
  <2>1. /\ run.step = "end" /\ child.step = "idle"
        /\ record' = [record EXCEPT !.exists = TRUE]
        /\ file' = [file EXCEPT !["env"] = file["keypair"]]
        /\ run' = [run EXCEPT !.step = "done"]
        /\ UNCHANGED <<ids, chain, child>>
    BY <1>9 DEF Deploy!EndRun, Deploy!At, Deploy!New
  <2>2. /\ run'.step = "done" /\ file'["keypair"] = file["keypair"]
        /\ file'["lib"] = file["lib"] /\ file'["idl"] = file["idl"] /\ file'["env"] = file["keypair"]
        /\ record'.id = record.id /\ record'.done = record.done /\ record'.tokens = record.tokens
        /\ run'.parts = run.parts
    BY <1>1, <2>1 DEF DeployTypes, RunRecord, Places
  <2>3. run'.clean = run.clean
    BY <1>1, <2>1 DEF DeployTypes, RunRecord
  <2>4. run'.clean => run.clean
    BY ONLY <2>3
  <2>5. DeployTypes'
    BY <1>1, <1>2, <2>1, <2>2 DEF DeployTypes, RunRecord, Places, ChildSteps
  <2>6. run.clean => EarlySteps' /\ LateSteps'
    BY <1>1, <2>1, <2>2 DEF EarlySteps, LateSteps, AfterKeygen, ChildSteps, Begun, Ran
  <2> QED
    BY <2>4, <2>5, <2>6 DEF DeployInv
<1> QED
  BY <1>3, <1>4, <1>5, <1>6, <1>7, <1>8, <1>9

\* The start of a run and its end; a run that is cut short.
LEMMA RunsKeep ==
  ASSUME DeployInv,
         \/ \E parts \in Options : Deploy!BeginFresh(parts) \/ Deploy!BeginKept(parts)
         \/ Deploy!Leave \/ Deploy!Interrupted
  PROVE  DeployInv'
<1>1. DeployTypes
  BY DEF DeployInv
<1>2. \A f \in Places : file[f] \in Nat /\ file[f] <= ids
  BY <1>1, FileIsProgram
<1>30. \A parts \in Options : parts \in SUBSET Parts
  BY DeployAssumption DEF Parts
<1>3. ASSUME NEW parts \in Options, Deploy!BeginFresh(parts) PROVE DeployInv'
  <2>1. /\ child.step = "idle" /\ ids < MaxPrograms
        /\ run' = [step |-> "keygen", old |-> file["keypair"], clean |-> TRUE, parts |-> parts]
        /\ UNCHANGED <<ids, file, record, child>>
    BY <1>3 DEF Deploy!BeginFresh, Deploy!Quiet, Deploy!New
  <2>2. PICK p \in Nat : p = file["keypair"] /\ p <= ids
    BY <1>2 DEF Places
  <2>3. \/ chain' = chain
        \/ chain[p].state = "up" /\ chain' = [chain EXCEPT ![p] = [chain[p] EXCEPT !.state = "closed"]]
    BY <1>3, <2>2 DEF Deploy!BeginFresh, Deploy!New
  <2>4. run'.step = "keygen" /\ run' \in RunRecord
    BY <1>30, <2>1, <2>2 DEF RunRecord
  <2>5. DeployTypes'
    BY <1>1, <2>1, <2>2, <2>3, <2>4 DEF DeployTypes, RunRecord, ProgramRecord
  <2>6. EarlySteps' /\ LateSteps'
    BY <2>4 DEF EarlySteps, LateSteps, AfterKeygen, ChildSteps
  <2> QED
    BY <2>5, <2>6 DEF DeployInv
<1>4. ASSUME NEW parts \in Options, Deploy!BeginKept(parts) PROVE DeployInv'
  <2>1. /\ child.step = "idle"
        /\ run' = [step |-> "sync", old |-> file["keypair"], clean |-> FALSE, parts |-> parts]
        /\ UNCHANGED <<ids, file, chain, record, child>>
    BY <1>4 DEF Deploy!BeginKept, Deploy!Quiet, Deploy!New
  <2>2. ~ run'.clean /\ run'.step = "sync"
    BY <2>1
  <2>3. run' \in RunRecord
    BY <1>2, <1>30, <2>1 DEF AfterKeygen, Places, RunRecord
  <2>4. DeployTypes'
    BY <1>1, <2>1, <2>2, <2>3 DEF DeployTypes, RunRecord
  <2> QED
    BY <2>2, <2>4 DEF DeployInv
<1>5. CASE Deploy!Leave \/ Deploy!Interrupted
  <2>1. /\ run' = [step |-> "idle", old |-> 0, clean |-> FALSE, parts |-> {}]
        /\ child' = child \/ child' = [part |-> "none", step |-> "idle"]
        /\ UNCHANGED <<ids, file, chain, record>>
    BY <1>5 DEF Deploy!Leave, Deploy!Interrupted, Deploy!NoRun, Deploy!NoChild
  <2>2. ~ run'.clean /\ run'.step = "idle"
    BY <2>1
  <2>3. DeployTypes'
    BY <1>1, <2>1 DEF DeployTypes, RunRecord
  <2> QED
    BY <2>2, <2>3 DEF DeployInv
<1> QED
  BY <1>3, <1>4, <1>5

\* What happens only while no run of deploy-full is under way.
LEMMA ByHandKeeps ==
  ASSUME DeployInv,
         \/ \E part \in Deploy!Part : Deploy!RunByHand(part)
         \/ \E t \in Token : Deploy!Whitelist(t)
         \/ Deploy!Fix \/ Deploy!Close
  PROVE  DeployInv'
<1>1. DeployTypes
  BY DEF DeployInv
<1>2. \A f \in Places : file[f] \in Nat /\ file[f] <= ids /\ (file[f] # 0 => file[f] \in Deploy!Program)
  BY <1>1, FileIsProgram
<1>3. run.step = "idle" /\ UNCHANGED <<ids, file, run>>
  BY DEF Deploy!RunByHand, Deploy!Whitelist, Deploy!Fix, Deploy!Close, Deploy!Quiet
<1>4. EarlySteps' /\ LateSteps'
  BY <1>3 DEF EarlySteps, LateSteps, AfterKeygen, ChildSteps
<1>5. DeployTypes'
  <2>1. ASSUME NEW part \in Deploy!Part, Deploy!RunByHand(part) PROVE DeployTypes'
    <3>1. child' = [part |-> part, step |-> "send"] /\ UNCHANGED <<chain, record>> /\ part \in Parts
      BY <2>1, PartsAre DEF Deploy!RunByHand
    <3> QED
      BY <1>1, <1>3, <3>1 DEF DeployTypes, RunRecord
  <2>2. ASSUME NEW t \in Token, Deploy!Whitelist(t) PROVE DeployTypes'
    <3>1. PICK p \in Nat : p = file["idl"]
      BY <1>2 DEF Places
    <3>2. /\ chain[p].state = "up" /\ child' = child
          /\ chain' = [chain EXCEPT ![p].tokens = @ \cup {t}]
          /\ record' = [record EXCEPT !.exists = TRUE, !.tokens = {t}] \/ record' = record
      BY <2>2, <3>1 DEF Deploy!Whitelist, Deploy!Accepts
    <3>3. chain' = [chain EXCEPT ![p] = [chain[p] EXCEPT !.tokens = chain[p].tokens \cup {t}]]
      BY <3>2
    <3>4. /\ DOMAIN chain' = Deploy!Program
          /\ \A x \in Deploy!Program :
               /\ chain'[x] \in ProgramRecord
               /\ x > ids => chain'[x].state = "none" /\ chain'[x].done = {}
      BY <1>1, <3>2, <3>3 DEF DeployTypes, RunRecord, ProgramRecord
    <3>5. /\ record' \in [exists : BOOLEAN, id : Nat, done : SUBSET Parts, tokens : SUBSET Token]
          /\ record'.id = record.id
      <4>1. PICK T \in SUBSET Token : T = {t}
        OBVIOUS
      <4>2. record' = [record EXCEPT !.exists = TRUE, !.tokens = T] \/ record' = record
        BY <3>2, <4>1
      <4> QED
        BY <1>1, <4>2 DEF DeployTypes, RunRecord
    <3> QED
      BY <1>1, <1>3, <3>2, <3>4, <3>5 DEF DeployTypes, RunRecord
  <2>3. CASE Deploy!Fix
    <3>1. PICK p \in Nat : p = file["lib"] /\ p <= ids /\ p \in Deploy!Program
      BY <1>2, <2>3 DEF Places, Deploy!Fix
    <3>2. PICK d \in SUBSET Parts : d = chain[p].done
      BY <1>1, <3>1 DEF DeployTypes, RunRecord, ProgramRecord
    <3>3. /\ record' = [record EXCEPT !.exists = TRUE, !.id = p, !.done = d]
          /\ UNCHANGED <<chain, child>>
      BY <2>3, <3>1, <3>2 DEF Deploy!Fix
    <3>4. /\ record' \in [exists : BOOLEAN, id : Nat, done : SUBSET Parts, tokens : SUBSET Token]
          /\ record'.id = p
      BY <1>1, <3>1, <3>2, <3>3 DEF DeployTypes, RunRecord
    <3> QED
      BY <1>1, <1>3, <3>1, <3>3, <3>4 DEF DeployTypes, RunRecord
  <2>4. CASE Deploy!Close
    <3>1. /\ record' = [exists |-> FALSE, id |-> 0, done |-> {}, tokens |-> {}]
          /\ UNCHANGED <<chain, child>>
      BY <2>4 DEF Deploy!Close, Deploy!NoRecord
    <3> QED
      BY <1>1, <1>3, <3>1 DEF DeployTypes, RunRecord
  <2> QED
    BY <2>1, <2>2, <2>3, <2>4
<1> QED
  BY <1>4, <1>5 DEF DeployInv

\* What the script a run has started can do is what the run can leave behind.
LEMMA OneCanSend ==
  ASSUME DeployTypes, NEW part \in Parts, NEW p, p # 0, chain[p].state = "up",
         part \in run.parts, run.step = Deploy!After(part),
         chain[p].done = Ran(run.step, run.parts) \ {part}
  PROVE  Deploy!Accepts(p, part) <=> part \in Ran(run.step, run.parts)
<1>1. run.parts \in SUBSET Parts
  BY DEF DeployTypes, RunRecord
<1>2. PICK P : P = Deploy!Possible(run.parts)
  OBVIOUS
<1>3. /\ P \subseteq run.parts
      /\ "protocol" \in run.parts => P = run.parts
      /\ "protocol" \notin run.parts => P = run.parts \ {"feeReceiver", "treasury"}
  BY <1>1, <1>2, PossibleIs
<1>4. /\ part = "protocol" => run.step = "staking"
      /\ part = "staking" => run.step = "feeReceiver"
      /\ part = "feeReceiver" => run.step = "treasury"
      /\ part = "treasury" => run.step = "end"
  BY PartsAre DEF Deploy!After
<1>5. part \in Begun(run.step) /\ (part \in {"feeReceiver", "treasury"} => "protocol" \in Begun(run.step))
  BY <1>4 DEF Begun, Parts
<1>6. Ran(run.step, run.parts) = Begun(run.step) \cap P
  BY <1>2 DEF Ran
<1>7. Deploy!Accepts(p, part) <=>
        (part \in {"feeReceiver", "treasury"} => "protocol" \in chain[p].done)
  BY PartsAre DEF Deploy!Accepts
<1>8. CASE part \in P
  <2>1. part \in {"feeReceiver", "treasury"} => "protocol" \in P
    BY <1>3, <1>8
  <2> QED
    BY <1>5, <1>6, <1>7, <1>8, <2>1
<1>9. CASE part \notin P
  <2>1. part \in {"feeReceiver", "treasury"} /\ "protocol" \notin P
    BY <1>3, <1>9
  <2> QED
    BY <1>6, <1>7, <1>9, <2>1
<1> QED
  BY <1>8, <1>9

\* The scripts a run starts, or an operator.
LEMMA ChildrenKeep ==
  ASSUME DeployInv,
         \/ \E part \in Deploy!Part : Deploy!StartChild(part)
         \/ Deploy!Send \/ Deploy!RecordPart \/ Deploy!ChildFails
  PROVE  DeployInv'
<1>1. DeployTypes /\ (run.clean => EarlySteps /\ LateSteps)
  BY DEF DeployInv
<1>2. \A f \in Places : file[f] \in Nat /\ file[f] <= ids /\ (file[f] # 0 => file[f] \in Deploy!Program)
  BY <1>1, FileIsProgram
<1>3. ASSUME NEW part \in Deploy!Part, Deploy!StartChild(part) PROVE DeployInv'
  <2>1. /\ run.step = part /\ child.step = "idle" /\ part \in Parts
        /\ child' = IF part \in run.parts THEN [part |-> part, step |-> "send"]
                    ELSE [part |-> "none", step |-> "idle"]
        /\ UNCHANGED <<ids, file, chain, record>>
    BY <1>3, PartsAre DEF Deploy!StartChild, Deploy!At, Deploy!NoChild
  <2>2. PICK next : next = Deploy!After(part)
    OBVIOUS
  <2>3. run' = [run EXCEPT !.step = next]
    BY <1>3, <2>2 DEF Deploy!StartChild, Deploy!Goto
  <2>4. /\ part = "protocol" => next = "staking"
        /\ part = "staking" => next = "feeReceiver"
        /\ part = "feeReceiver" => next = "treasury"
        /\ part = "treasury" => next = "end"
    BY <2>2, PartsAre DEF Deploy!After
  <2>5. /\ run'.step = next /\ run'.parts = run.parts /\ run.parts \in SUBSET Parts
        /\ part \in run.parts => child'.step = "send" /\ child'.part = part
        /\ part \notin run.parts => child'.step = "idle"
    BY <1>1, <2>1, <2>3 DEF DeployTypes, RunRecord
  <2>6. run'.clean = run.clean
    BY <1>1, <2>3 DEF DeployTypes, RunRecord
  <2>7. run'.clean => run.clean
    BY ONLY <2>6
  <2>8. run' \in RunRecord
    BY <1>1, <2>1, <2>3, <2>4 DEF DeployTypes, RunRecord, ChildSteps, Parts
  <2>9. next \in ChildSteps \ {"done"} /\ next # "keygen" /\ next \notin AfterKeygen
    BY <2>1, <2>4 DEF ChildSteps, Parts, AfterKeygen
  <2>100. child' \in [part : Parts \cup {"none"}, step : {"idle", "send", "record"}]
    BY <2>1
  <2>10. DeployTypes'
    BY <1>1, <2>1, <2>5, <2>8, <2>9, <2>100 DEF DeployTypes
  <2>110. Begun(next) = Begun(part) \cup {part} /\ part \notin Begun(part)
    BY <2>1, <2>4 DEF Begun, Parts
  <2>11. /\ Ran(next, run.parts) \ {part} = Ran(part, run.parts)
         /\ part \notin run.parts => Ran(next, run.parts) = Ran(part, run.parts)
    BY <2>5, <2>110, PossibleIs DEF Ran
  <2>12. run.clean => EarlySteps'
    BY <2>5, <2>9 DEF EarlySteps, AfterKeygen, ChildSteps
  <2>13. part \in ChildSteps
    BY <2>1 DEF Parts, ChildSteps
  <2>14. run.clean => LateSteps'
    BY <1>1, <2>1, <2>2, <2>5, <2>9, <2>11, <2>13 DEF LateSteps
  <2> QED
    BY <2>7, <2>10, <2>12, <2>14 DEF DeployInv
<1>4. CASE Deploy!Send
  <2>1. child.step = "send" /\ UNCHANGED <<ids, file, record, run>>
    BY <1>4 DEF Deploy!Send
  <2>2. PICK p \in Nat, part \in Parts : p = file["idl"] /\ p <= ids /\ part = child.part
    BY <1>1, <1>2, <2>1 DEF Places, DeployTypes, RunRecord
  <2>3. CASE /\ Deploy!Accepts(p, part)
             /\ chain' = [chain EXCEPT ![p].done = @ \cup {part}]
             /\ child' = [child EXCEPT !.step = "record"]
    <3>1. chain' = [chain EXCEPT ![p] = [chain[p] EXCEPT !.done = chain[p].done \cup {part}]]
      BY <2>3
    <3>2. chain[p].state = "up" /\ p # 0
      BY <2>3 DEF Deploy!Accepts
    <3>3. p \in Deploy!Program
      BY <1>2, <2>2, <3>2 DEF Places
    <3>4. child'.step = "record" /\ child'.part = part
      BY <1>1, <2>2, <2>3 DEF DeployTypes, RunRecord
    <3>5. chain'[p].done = chain[p].done \cup {part} /\ chain'[p].state = "up"
      BY <1>1, <3>1, <3>2, <3>3 DEF DeployTypes, RunRecord, ProgramRecord
    <3>6. /\ DOMAIN chain' = Deploy!Program
          /\ \A x \in Deploy!Program :
               /\ chain'[x] \in ProgramRecord
               /\ x > ids => chain'[x].state = "none" /\ chain'[x].done = {}
      BY <1>1, <2>2, <3>1, <3>2 DEF DeployTypes, RunRecord, ProgramRecord
    <3>7. child' \in [part : Parts \cup {"none"}, step : {"idle", "send", "record"}]
      BY <1>1, <2>3 DEF DeployTypes, RunRecord
    <3>8. DeployTypes'
      BY <1>1, <2>1, <2>2, <3>4, <3>6, <3>7 DEF DeployTypes, RunRecord
    <3>9. run.clean => EarlySteps'
      BY <1>1, <2>1 DEF EarlySteps
    <3>12. ASSUME run.clean, run.step \in ChildSteps PROVE LateSteps'
      <4>0. PICK R : R = Ran(run.step, run.parts)
        OBVIOUS
      <4>1. /\ p = file["keypair"] /\ chain[p].done = R \ {part}
            /\ record.done = R \ {part} /\ run.step # "done"
            /\ run.step = Deploy!After(part) /\ part \in run.parts
        BY <1>1, <2>1, <2>2, <3>12, <4>0 DEF LateSteps
      <4>2. part \in R
        BY <1>1, <2>2, <2>3, <3>2, <4>0, <4>1, OneCanSend
      <4>3. chain'[p].done = R
        BY <3>5, <4>1, <4>2
      <4> QED
        BY <1>1, <2>1, <2>2, <3>4, <3>5, <3>12, <4>0, <4>1, <4>2, <4>3 DEF LateSteps
    <3>13. run.step \notin ChildSteps => LateSteps'
      BY <2>1 DEF LateSteps
    <3> QED
      BY <2>1, <3>8, <3>9, <3>12, <3>13 DEF DeployInv
  <2>4. CASE ~ Deploy!Accepts(p, part) /\ child' = Deploy!NoChild /\ chain' = chain
    <3>1. child' = [part |-> "none", step |-> "idle"]
      BY <2>4 DEF Deploy!NoChild
    <3>2. DeployTypes'
      BY <1>1, <2>1, <2>4, <3>1 DEF DeployTypes, RunRecord
    <3>3. ASSUME run.clean, run.step \in ChildSteps PROVE LateSteps'
      <4>0. PICK R : R = Ran(run.step, run.parts)
        OBVIOUS
      <4>1. /\ p # 0 /\ p = file["keypair"] /\ chain[p].state = "up"
            /\ chain[p].done = R \ {part} /\ record.done = R \ {part} /\ run.step # "done"
            /\ run.step = Deploy!After(part) /\ part \in run.parts
        BY <1>1, <2>1, <2>2, <3>3, <4>0 DEF LateSteps
      <4>2. part \notin R
        BY <1>1, <2>2, <2>4, <4>0, <4>1, OneCanSend
      <4>3. R \ {part} = R
        BY <4>2
      <4> QED
        BY <1>1, <2>1, <2>2, <2>4, <3>1, <3>3, <4>0, <4>1, <4>3 DEF LateSteps
    <3>4. run.clean => EarlySteps' /\ LateSteps'
      BY <1>1, <2>1, <3>3 DEF EarlySteps, LateSteps
    <3> QED
      BY <2>1, <3>2, <3>4 DEF DeployInv
  <2> QED
    BY <1>4, <2>2, <2>3, <2>4 DEF Deploy!Send
<1>5. CASE Deploy!RecordPart
  <2>1. /\ child.step = "record" /\ UNCHANGED <<ids, file, chain, run>>
        /\ record' = [record EXCEPT !.exists = TRUE, !.done = record.done \cup {child.part}]
        /\ child' = [part |-> "none", step |-> "idle"]
    BY <1>5 DEF Deploy!RecordPart, Deploy!NoChild
  <2>2. PICK part \in Parts : part = child.part
    BY <1>1, <2>1 DEF DeployTypes, RunRecord
  <2>3. /\ record' \in [exists : BOOLEAN, id : Nat, done : SUBSET Parts, tokens : SUBSET Token]
        /\ record'.id = record.id /\ record'.tokens = record.tokens
        /\ record'.done = record.done \cup {part}
    BY <1>1, <2>1, <2>2 DEF DeployTypes, RunRecord
  <2>4. DeployTypes'
    BY <1>1, <2>1, <2>3 DEF DeployTypes, RunRecord
  <2>5. run.clean => EarlySteps'
    BY <1>1, <2>1 DEF EarlySteps
  <2>62. child'.step = "idle"
    BY <2>1
  <2>7. ASSUME run.clean, run.step \in ChildSteps PROVE LateSteps'
    <3>0. PICK R : R = Ran(run.step, run.parts)
      OBVIOUS
    <3>1. /\ part \in R /\ run.step # "done" /\ record.done = R \ {part}
          /\ chain[file["keypair"]].done = R
      BY <1>1, <2>1, <2>2, <2>7, <3>0 DEF LateSteps
    <3>2. record'.done = R
      BY <2>3, <3>1
    <3> QED
      BY <1>1, <2>1, <2>3, <2>62, <2>7, <3>0, <3>1, <3>2 DEF LateSteps
  <2>8. run.step \notin ChildSteps => LateSteps'
    BY <2>1 DEF LateSteps
  <2> QED
    BY <2>1, <2>4, <2>5, <2>7, <2>8 DEF DeployInv
<1>6. CASE Deploy!ChildFails
  <2>1. /\ run' = [run EXCEPT !.clean = FALSE] /\ child' = [part |-> "none", step |-> "idle"]
        /\ UNCHANGED <<ids, file, chain, record>>
    BY <1>6 DEF Deploy!ChildFails, Deploy!NoChild
  <2>2. ~ run'.clean /\ run'.step = run.step
    BY <1>1, <2>1 DEF DeployTypes, RunRecord
  <2>3. DeployTypes'
    BY <1>1, <2>1, <2>2 DEF DeployTypes, RunRecord
  <2> QED
    BY <2>2, <2>3 DEF DeployInv
<1> QED
  BY <1>3, <1>4, <1>5, <1>6

LEMMA DeployStep == DeployInv /\ [Deploy!Next]_deploy => DeployInv'
<1> SUFFICES ASSUME DeployInv, [Deploy!Next]_deploy PROVE DeployInv'
  OBVIOUS
<1>1. CASE Deploy!Next
  BY <1>1, RunStepsKeep, RunsKeep, ByHandKeeps, ChildrenKeep DEF Deploy!Next
<1>2. CASE UNCHANGED deploy
  <2>1. UNCHANGED <<ids, file, chain, record, run, child>>
    BY <1>2 DEF deploy
  <2> QED
    BY <2>1 DEF DeployInv, DeployTypes, RunRecord, EarlySteps, LateSteps
<1> QED
  BY <1>1, <1>2

\* A run of deploy-full with a new keypair in which nothing fails leaves nothing
\* out of what it was asked for, whatever runs and scripts before it left half
\* done (deploy-full.ts:249-456): the program is up, initialised in those parts
\* that can be, recorded and named everywhere.
THEOREM FreshRunsComplete == Spec => []FreshRunIsComplete
<1>1. DeployInv => FreshRunIsComplete
  <2> SUFFICES ASSUME DeployInv, run.step = "done", run.clean
               PROVE  /\ chain[file["keypair"]].state = "up" /\ record.id = file["keypair"]
                      /\ chain[file["keypair"]].done = Deploy!Possible(run.parts)
                      /\ record.done = Deploy!Possible(run.parts) /\ record.tokens = {}
                      /\ file["env"] = file["keypair"] /\ file["lib"] = file["keypair"]
                      /\ file["idl"] = file["keypair"]
    BY DEF FreshRunIsComplete, Deploy!FreshRunIsComplete, Deploy!New
  <2>1. run.parts \in SUBSET Parts
    BY DEF DeployInv, DeployTypes, RunRecord
  <2>2. Ran("done", run.parts) = Deploy!Possible(run.parts)
    BY <2>1, PossibleIs DEF Ran, Begun
  <2> QED
    BY <2>2 DEF DeployInv, LateSteps, ChildSteps
<1> QED
  BY <1>1, DeployInit, DeploySteps, DeployStep, PTL DEF Spec

-----------------------------------------------------------------------------
(* AdminTransfer                                                            *)

\* What the two account fields say is pending stands: they never keep half of
\* an announcement that was replaced, withdrawn or used.
PendingStands ==
  pending_admin # NoKey => <<pending_admin, admin_transfer_timestamp>> \in standing

LEMMA TransferSteps == [Next]_vars => [Transfer!Next]_transfer
BY DEF Next, vars, transfer

LEMMA TransferVars == Transfer!vars = transfer
BY DEF Transfer!vars, transfer

\* No instruction of admin.rs breaks that.
LEMMA PendingStandsStep == PendingStands /\ [Transfer!Next]_transfer => PendingStands'
<1> SUFFICES ASSUME PendingStands, [Transfer!Next]_transfer PROVE PendingStands'
  OBVIOUS
<1>1. CASE Transfer!Tick
  BY <1>1 DEF Transfer!Tick, PendingStands
<1>2. ASSUME NEW k \in AdminKey, Transfer!InitiateAdminTransfer(k) PROVE PendingStands'
  BY <1>2 DEF Transfer!InitiateAdminTransfer, PendingStands
<1>3. ASSUME NEW k \in AdminKey, Transfer!AcceptAdminTransfer(k) PROVE PendingStands'
  BY <1>3 DEF Transfer!AcceptAdminTransfer, PendingStands
<1>4. CASE Transfer!CancelAdminTransfer
  BY <1>4 DEF Transfer!CancelAdminTransfer, PendingStands
<1>5. CASE UNCHANGED transfer
  BY <1>5 DEF transfer, PendingStands
<1> QED
  BY <1>1, <1>2, <1>3, <1>4, <1>5 DEF Transfer!Next

\* Whoever becomes the admin was announced for the whole delay (admin.rs:59-86).
THEOREM OnlyAnnouncedTakeOver == Spec => TakeoverWasAnnounced
<1> DEFINE Announced ==
      admin' # admin =>
        \E notice \in standing :
          notice[1] = admin' /\ now - notice[2] >= ADMIN_TRANSFER_DELAY
<1>1. Init => PendingStands
  BY DEF Init, Transfer!Init, PendingStands
<1>2. PendingStands /\ [Transfer!Next]_transfer => [Announced]_(Transfer!vars)
  <2> SUFFICES ASSUME PendingStands, Transfer!Next, admin' # admin
               PROVE  \E notice \in standing :
                        notice[1] = admin' /\ now - notice[2] >= ADMIN_TRANSFER_DELAY
    BY TransferVars DEF transfer
  <2>1. PICK k \in AdminKey : Transfer!AcceptAdminTransfer(k)
    BY DEF Transfer!Next, Transfer!Tick, Transfer!InitiateAdminTransfer, Transfer!CancelAdminTransfer
  <2>2. <<pending_admin, admin_transfer_timestamp>> \in standing
    BY <2>1 DEF Transfer!AcceptAdminTransfer, PendingStands
  <2> WITNESS <<pending_admin, admin_transfer_timestamp>> \in standing
  <2> QED
    BY <2>1 DEF Transfer!AcceptAdminTransfer
<1> QED
  BY <1>1, <1>2, TransferSteps, PendingStandsStep, PTL
     DEF Spec, TakeoverWasAnnounced, Transfer!TakeoverWasAnnounced
=============================================================================
