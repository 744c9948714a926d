------------------------------ MODULE LiveUpdates ------------------------------
(* The websocket server (apps/server/src/websocket/index.ts): connections, the  *)
(* registries it finds them by (per user, per IP address), subscriptions, and   *)
(* the limiter of messages per connection (middleware/wsRateLimit.ts).          *)
(*                                                                              *)
(* The server is one thread: a handler runs to its first await alone.  The only *)
(* awaits are of the security log, before a flood or a warning is answered, and *)
(* other handlers of the same socket run meanwhile.                             *)
(*                                                                              *)
(* The payloads of messages are left out; a topic stands for the loans of       *)
(* everybody, the prices of a token, or the prices of all.                      *)
EXTENDS Integers, FiniteSets

CONSTANTS Socket,         \* sockets, each used for one connection
          User,           \* wallets
          IP,             \* client addresses
          Topic,          \* subscription keys other than those of a user
          Nobody,         \* no userId
          Absent,         \* no entry of the limiter
          MaxPerIP,       \* MAX_CONNECTIONS_PER_IP
          MaxMessages,    \* messages a window takes (messagesPerMinute)
          MaxWarnings     \* WS_RATE_LIMIT.maxWarnings

VARIABLES state,      \* state[s]: "new", "flooding", "open", "terminating" (its last
                      \*   warning is being logged), "closing", "closed"
          userId,     \* connection.userId
          ip,         \* connection.ip
          subs,       \* connection.subscriptions
          byUser,     \* userConnections
          byIP,       \* connectionsByIp
          limiter     \* limiter[s]: the entry of rateLimits

registries == <<byUser, byIP>>
vars == <<state, userId, ip, subs, byUser, byIP, limiter>>

Key == Topic \cup User

Init ==
  /\ state = [s \in Socket |-> "new"]
  /\ userId = [s \in Socket |-> Nobody]
  /\ ip = [s \in Socket |-> Nobody]
  /\ subs = [s \in Socket |-> {}]
  /\ byUser = [u \in User |-> {}]
  /\ byIP = [a \in IP |-> {}]
  /\ limiter = [s \in Socket |-> Absent]

Connected == {s \in Socket : state[s] \in {"open", "terminating", "closing"}}

-------------------------------------------------------------------------------

(* A socket connects from address a, naming user u or nobody.  Beyond the limit *)
(* of the address it is logged and then closed, in no registry.                 *)
Connect(s, a, u) ==
  /\ state[s] = "new"
  /\ Cardinality(byIP[a]) < MaxPerIP
  /\ state' = [state EXCEPT ![s] = "open"]
  /\ ip' = [ip EXCEPT ![s] = a]
  /\ byIP' = [byIP EXCEPT ![a] = @ \cup {s}]
  /\ userId' = [userId EXCEPT ![s] = u]
  /\ byUser' = IF u = Nobody THEN byUser ELSE [byUser EXCEPT ![u] = @ \cup {s}]
  /\ UNCHANGED <<subs, limiter>>

ConnectFlooded(s, a) ==
  /\ state[s] = "new"
  /\ Cardinality(byIP[a]) >= MaxPerIP
  /\ state' = [state EXCEPT ![s] = "flooding"]
  /\ UNCHANGED <<userId, ip, subs, registries, limiter>>

FloodLogged(s) ==
  /\ state[s] = "flooding"
  /\ state' = [state EXCEPT ![s] = "closed"]
  /\ UNCHANGED <<userId, ip, subs, registries, limiter>>

(* The entry checkWsRateLimit finds or makes. *)
EntryOf(s) == IF limiter[s] = Absent THEN [messages |-> 0, warnings |-> 0] ELSE limiter[s]

(* checkWsRateLimit lets a message through. *)
Counted(s) ==
  /\ EntryOf(s).messages < MaxMessages
  /\ limiter' = [limiter EXCEPT ![s] = [EntryOf(s) EXCEPT !.messages = @ + 1]]

(* A message comes too early: it is dropped with a warning, and the warning at  *)
(* the limit terminates the connection once it is logged.  A socket being closed *)
(* still delivers the messages it had received.                                 *)
TooMany(s) ==
  /\ s \in Connected
  /\ EntryOf(s).messages >= MaxMessages
  /\ LET warned == EntryOf(s).warnings + 1
     IN /\ limiter' = [limiter EXCEPT ![s] = [EntryOf(s) EXCEPT !.warnings = IF warned > MaxWarnings THEN MaxWarnings ELSE warned]]
        /\ state' = [state EXCEPT ![s] = IF warned >= MaxWarnings /\ @ = "open" THEN "terminating" ELSE @]
  /\ UNCHANGED <<userId, ip, subs, registries>>

TerminationLogged(s) ==
  /\ state[s] = "terminating"
  /\ state' = [state EXCEPT ![s] = "closing"]
  /\ UNCHANGED <<userId, ip, subs, registries, limiter>>

(* SUBSCRIBE_LOANS or SUBSCRIBE_PRICES. *)
Subscribe(s, k) ==
  /\ s \in Connected /\ Counted(s)
  /\ subs' = [subs EXCEPT ![s] = @ \cup {k}]
  /\ UNCHANGED <<state, userId, ip, registries>>

(* Fault: an identified connection may subscribe to another user as well. *)
SubscribeAnyUser(s, u) ==
  /\ s \in Connected /\ Counted(s)
  /\ userId' = [userId EXCEPT ![s] = u]
  /\ subs' = [subs EXCEPT ![s] = @ \cup {u}]
  /\ byUser' = [byUser EXCEPT ![u] = @ \cup {s}]
  /\ UNCHANGED <<state, ip, byIP>>

(* SUBSCRIBE_USER: only for the user the connection already is, if it is any. *)
SubscribeUser(s, u) ==
  /\ s \in Connected /\ Counted(s)
  /\ userId[s] \in {Nobody, u}
  /\ userId' = [userId EXCEPT ![s] = u]
  /\ subs' = [subs EXCEPT ![s] = @ \cup {u}]
  /\ byUser' = [byUser EXCEPT ![u] = @ \cup {s}]
  /\ UNCHANGED <<state, ip, byIP>>

(* A message that is refused (malformed, unknown, of another user) changes      *)
(* nothing but the limiter.                                                     *)
Refused(s) ==
  /\ s \in Connected /\ Counted(s)
  /\ UNCHANGED <<state, userId, ip, subs, registries>>

(* UNSUBSCRIBE takes the key away; the connection stays with its user. *)
Unsubscribe(s, k) ==
  /\ s \in Connected /\ Counted(s)
  /\ subs' = [subs EXCEPT ![s] = @ \ {k}]
  /\ UNCHANGED <<state, userId, ip, registries>>

(* 'close' or 'error': the connection leaves the registries and the limiter. *)
Disconnect(s) ==
  /\ s \in Connected
  /\ byUser' = [u \in User |-> IF u = userId[s] THEN byUser[u] \ {s} ELSE byUser[u]]
  /\ byIP' = [byIP EXCEPT ![ip[s]] = @ \ {s}]
  /\ limiter' = [limiter EXCEPT ![s] = Absent]
  /\ state' = [state EXCEPT ![s] = "closed"]
  /\ subs' = [subs EXCEPT ![s] = {}]
  /\ UNCHANGED <<userId, ip>>

(* Messages turn a minute old.  The timer of the limiter drops entries without *)
(* newer ones, their warnings with them.                                        *)
WindowPasses(s) ==
  /\ limiter[s] # Absent
  /\ limiter' = [limiter EXCEPT ![s] = [@ EXCEPT !.messages = 0]]
  /\ UNCHANGED <<state, userId, ip, subs, registries>>

LimiterCleanup ==
  /\ limiter' = [s \in Socket |-> IF limiter[s] # Absent /\ limiter[s].messages = 0 THEN Absent ELSE limiter[s]]
  /\ UNCHANGED <<state, userId, ip, subs, registries>>

-------------------------------------------------------------------------------

(* Only a socket in the state OPEN is sent to. *)
Sendable(s) == state[s] \in {"open", "terminating"}

(* sendToUser: the sockets that get the private messages of user u. *)
PrivateAudience(u) == {s \in byUser[u] : Sendable(s)}

(* emit and isSubscribedToEvent: the sockets that hear of a loan of user u. *)
LoanAudience(u) ==
  {s \in Connected : Sendable(s) /\ ("loans" \in subs[s] \/ u \in subs[s] \/ userId[s] = u)}

-------------------------------------------------------------------------------

Next ==
  \/ \E s \in Socket, a \in IP, u \in User \cup {Nobody} : Connect(s, a, u)
  \/ \E s \in Socket, a \in IP : ConnectFlooded(s, a)
  \/ \E s \in Socket :
       FloodLogged(s) \/ TooMany(s) \/ TerminationLogged(s) \/ Refused(s) \/ Disconnect(s) \/ WindowPasses(s)
  \/ \E s \in Socket, k \in Topic : Subscribe(s, k)
  \/ \E s \in Socket, u \in User : SubscribeUser(s, u)
  \/ \E s \in Socket, k \in Key : Unsubscribe(s, k)
  \/ LimiterCleanup

Spec == Init /\ [][Next]_vars

-------------------------------------------------------------------------------

(* However connections, subscriptions, warnings and closings cross, the         *)
(* registries hold exactly the live connections: each user's set those who are  *)
(* that user, each address's set those from there and never more than the limit, *)
(* and the limiter no entry of a connection that is gone.  So a private message *)
(* reaches that user alone, and whoever gets it hears of the user's loans too.  *)
RegistriesAgree ==
  /\ \A u \in User : byUser[u] = {s \in Connected : userId[s] = u}
  /\ \A a \in IP : byIP[a] = {s \in Connected : ip[s] = a} /\ Cardinality(byIP[a]) <= MaxPerIP
  /\ \A s \in Socket : limiter[s] # Absent => s \in Connected
  /\ \A u \in User : PrivateAudience(u) \subseteq LoanAudience(u)
===============================================================================
