----------------------------- MODULE RateLimits -----------------------------
(***************************************************************************)
(* The limits every request passes (apps/server/src/services/              *)
(* enhanced-rate-limit.service.ts, middleware/globalRateLimit.ts and       *)
(* rateLimit.ts): one counter for the whole server, then, for each limiter *)
(* on the request's route, the bans of its IP or wallet and a counter per  *)
(* minute.  A request over a limit is a violation; from the third on they  *)
(* bring bans that grow longer.  All of it is in redis, every command is   *)
(* awaited, and an error lets the request through.                         *)
(***************************************************************************)
EXTENDS Integers, Sequences

CONSTANTS
  Ip, Wallet, Request,
  Route,                        \* the sequences of limiters ("ip", "wallet")
                                \* routes are behind: "ip" never asks for the
                                \* wallet, "wallet" does if there is one
  ipLimit, walletLimit, globalLimit,
  banThreshold,
  BAN_LEVELS,                   \* the number of BAN_DURATIONS
  MaxPerMinute, MaxFaults       \* bounds on requests in a minute, on errors

Id == Ip \cup Wallet
Anonymous == "anonymous"

VARIABLES
  total,        \* requests this minute
  count,        \* requests of each IP and wallet this minute
  violations,   \* violations:<id>
  ban,          \* the level of the ban on each id, 0 without one
  req,          \* what each request is waiting for; history: last, the last
                \* limiter of its route, and free, which of those that limiter
                \* answers for were unbanned at some time since it came there
  faults,
  passed        \* history: requests of this minute that a limiter let pass

redis == <<total, count, violations, ban>>
vars == <<redis, req, faults, passed>>

NoRequest ==
  [phase |-> "idle", ip |-> Anonymous, wallet |-> Anonymous, route |-> <<>>, last |-> "ip",
   ask |-> <<>>, level |-> 0, open |-> FALSE, free |-> {}]

LimitOf(id) == IF id \in Ip THEN ipLimit ELSE walletLimit
Lower(m, n) == IF m < n THEN m ELSE n
Mishap == faults < MaxFaults /\ faults' = faults + 1

\* useWalletIfAuthenticated
ByWallet(q) == Head(q.route) = "wallet" /\ q.wallet # Anonymous

\* Fault: a limiter by wallet does not ask about the IP.
AskedOfKey(q) == IF ByWallet(q) THEN <<q.wallet, q.wallet>> ELSE <<q.ip, q.ip>>

\* The middleware asks about the key and the service asks again, and about the
\* IP of a wallet.
Asked(q) == IF ByWallet(q) THEN <<q.wallet, q.wallet, q.ip>> ELSE <<q.ip, q.ip>>

Key(r) == IF ByWallet(req[r]) THEN req[r].wallet ELSE req[r].ip

Advance(r, phase) == req' = [req EXCEPT ![r].phase = phase]
Refuse(r) == req' = [req EXCEPT ![r] = NoRequest]

\* Whom the last limiter of a request answers for: its IP and, behind a limiter
\* by wallet, its wallet.  Routes limited by IP only (POST /:pubkey/repay,
\* /:pubkey/liquidate) serve a banned wallet.
Owners(q) == {q.ip} \cup (IF q.last = "wallet" THEN {q.wallet} \cap Wallet ELSE {})

AtLast(q) == Len(q.route) = 1

\* The next limiter of the route, or the handler.
Enter(q) ==
  IF q.route = <<>> THEN [q EXCEPT !.phase = "served"]
  ELSE [q EXCEPT !.phase = "asking", !.ask = Asked(q),
                 !.free = {i \in Owners(q) : AtLast(q) /\ ban[i] = 0}]

Pass(r, open) ==
  LET q == [req[r] EXCEPT !.route = Tail(@), !.open = @ \/ open, !.level = 0]
  IN req' = [req EXCEPT ![r] = Enter(q)]

\* After recordViolation a limiter by wallet notes the IP (wallet-ips:<wallet>).
Finish(r) == IF ByWallet(req[r]) THEN Advance(r, "noting") ELSE Refuse(r)

Init ==
  /\ total = 0 /\ count = [i \in Id |-> 0]
  /\ violations = [i \in Id |-> 0] /\ ban = [i \in Id |-> 0]
  /\ req = [r \in Request |-> NoRequest]
  /\ faults = 0 /\ passed = [i \in Id |-> 0]
-----------------------------------------------------------------------------
\* globalRateLimitMiddleware; a failing redis lets the request through, counted
\* if EXPIRE failed after INCR.
Arrive(r, ip, wallet, route) ==
  LET entered == req' = [req EXCEPT ![r] =
                   Enter([NoRequest EXCEPT !.ip = ip, !.wallet = wallet, !.route = route,
                                           !.last = route[Len(route)]])]
  IN
  /\ req[r].phase = "idle" /\ total < MaxPerMinute
  /\ \/ /\ total' = total + 1
        /\ IF total' > globalLimit THEN Refuse(r) ELSE entered
        /\ UNCHANGED faults
     \/ entered /\ Mishap /\ total' \in {total, total + 1}
  /\ UNCHANGED <<count, violations, ban, passed>>

\* checkBanStatus
CheckBanStatus(r) ==
  LET ask == req[r].ask
      Asking(open) == [req[r] EXCEPT !.ask = Tail(ask), !.open = @ \/ open,
                                     !.phase = IF Len(ask) = 1 THEN "counting" ELSE @]
      GoOn(open) == req' = [req EXCEPT ![r] = Asking(open)]
  IN
  /\ req[r].phase = "asking"
  /\ \/ /\ IF ban[Head(ask)] > 0 THEN Refuse(r) ELSE GoOn(FALSE)
        /\ UNCHANGED faults
     \/ ban[Head(ask)] > 0 /\ GoOn(TRUE) /\ Mishap
  /\ UNCHANGED <<redis, passed>>

\* checkIpRateLimit, checkWalletRateLimit: INCR on the key of this minute.  Two
\* wallets behind one IP have a counter each, and a request behind two limiters
\* by IP counts twice.
Increment(r) ==
  LET id == Key(r)
      counted == [count EXCEPT ![id] = @ + 1]
  IN
  /\ req[r].phase = "counting"
  /\ \/ /\ count' = counted
        /\ IF count'[id] > LimitOf(id)
             THEN Advance(r, "violating") /\ UNCHANGED passed
             ELSE Pass(r, FALSE) /\ passed' = [passed EXCEPT ![id] = @ + 1]
        /\ UNCHANGED faults
     \/ Pass(r, TRUE) /\ Mishap /\ count' \in {count, counted} /\ UNCHANGED passed
  /\ UNCHANGED <<total, violations, ban>>

\* recordViolation: what fails in it is only logged.
RecordViolation(r) ==
  LET id == Key(r)  n == violations[id] + 1
      recorded == [violations EXCEPT ![id] = n]
  IN
  /\ req[r].phase = "violating"
  /\ \/ /\ violations' = recorded
        /\ IF n < banThreshold THEN Finish(r)
           ELSE LET level == Lower(n - banThreshold, BAN_LEVELS - 1) + 1 IN
                req' = [req EXCEPT ![r] = [req[r] EXCEPT !.phase = "banning", !.level = level]]
        /\ UNCHANGED faults
     \/ Finish(r) /\ Mishap /\ violations' \in {violations, recorded}
  /\ UNCHANGED <<total, count, ban, passed>>

\* SETEX: whichever comes last holds, be it the shorter.
Ban(r) ==
  /\ req[r].phase = "banning"
  /\ \/ /\ ban' = [ban EXCEPT ![Key(r)] = req[r].level]
        /\ IF req[r].level = BAN_LEVELS THEN Advance(r, "forgetting") ELSE Finish(r)
        /\ UNCHANGED faults
     \/ Finish(r) /\ Mishap /\ UNCHANGED ban
  /\ UNCHANGED <<total, count, violations, passed>>

\* DEL, with the violations of others that came meanwhile.
Forget(r) ==
  /\ req[r].phase = "forgetting"
  /\ \/ violations' = [violations EXCEPT ![Key(r)] = 0] /\ UNCHANGED faults
     \/ Mishap /\ UNCHANGED violations
  /\ Finish(r)
  /\ UNCHANGED <<total, count, ban, passed>>

\* SADD, EXPIRE, SCARD, outside the try of recordViolation: where one of them
\* fails, the request over its limit is let through.
Note(r) ==
  /\ req[r].phase = "noting"
  /\ \/ Refuse(r) /\ UNCHANGED faults
     \/ Pass(r, TRUE) /\ Mishap
  /\ UNCHANGED <<redis, passed>>

Leave(r) ==
  /\ req[r].phase = "served"
  /\ Refuse(r)
  /\ UNCHANGED <<redis, faults, passed>>

\* Fault: a counter expires before its minute is over.
MinuteEndsEarly ==
  /\ total > 0
  /\ total' = 0 /\ count' = [i \in Id |-> 0]
  /\ UNCHANGED <<violations, ban, req, faults, passed>>

\* getMinuteBucket: the next minute has other keys.
MinuteEnds ==
  /\ total > 0
  /\ total' = 0 /\ count' = [i \in Id |-> 0] /\ passed' = [i \in Id |-> 0]
  /\ UNCHANGED <<violations, ban, req, faults>>

Lift(id) ==
  /\ ban' = [ban EXCEPT ![id] = 0]
  /\ req' = [r \in Request |->
       IF req[r].phase = "asking" /\ AtLast(req[r])
         THEN [req[r] EXCEPT !.free = @ \cup ({id} \cap Owners(req[r]))] ELSE req[r]]

BanExpires(id) ==
  /\ ban[id] > 0
  /\ Lift(id)
  /\ UNCHANGED <<total, count, violations, faults, passed>>

ViolationsExpire(id) ==
  /\ violations[id] > 0
  /\ violations' = [violations EXCEPT ![id] = 0]
  /\ UNCHANGED <<total, count, ban, req, faults, passed>>

\* clearRateLimitData, by an admin.
Clear(id) ==
  /\ violations[id] + ban[id] > 0
  /\ count' = [count EXCEPT ![id] = 0] /\ passed' = [passed EXCEPT ![id] = 0]
  /\ violations' = [violations EXCEPT ![id] = 0]
  /\ Lift(id)
  /\ UNCHANGED <<total, faults>>

RequestStep(r) ==
  \/ CheckBanStatus(r) \/ Increment(r)
  \/ RecordViolation(r) \/ Ban(r) \/ Forget(r) \/ Note(r) \/ Leave(r)

Next ==
  \/ \E r \in Request :
       \/ \E ip \in Ip, wallet \in Wallet \cup {Anonymous}, route \in Route :
            Arrive(r, ip, wallet, route)
       \/ RequestStep(r)
  \/ MinuteEnds
  \/ \E id \in Id : BanExpires(id) \/ ViolationsExpire(id) \/ Clear(id)

Spec == Init /\ [][Next]_vars
-----------------------------------------------------------------------------
(* Properties.                                                              *)

\* However many requests of an IP or a wallet overlap, a limiter lets no more
\* pass in a minute than its limit, those apart that redis failed on.
WithinLimit == \A id \in Id : passed[id] <= LimitOf(id)

\* A request that reached its handler belongs to nobody its last limiter answers
\* for who was banned all the time since it came there, be it by another request
\* meanwhile, unless redis failed (enhanced-rate-limit.service.ts:184-199).
ServedWereFree ==
  \A r \in Request : req[r].phase = "served" =>
    req[r].open \/ Owners(req[r]) \subseteq req[r].free
=============================================================================
