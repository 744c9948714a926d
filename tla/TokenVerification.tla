-------------------------- MODULE TokenVerification --------------------------
(***************************************************************************)
(* Whether a token may be collateral (apps/server/src/services/            *)
(* token-verification.service.ts): verifyToken asks its cache, the manual  *)
(* whitelist, the chain for the launchpad and DexScreener for the pools,   *)
(* and puts a token that passes on chain itself (autoWhitelistOnChain),    *)
(* one transaction per token at a time.                                    *)
(*                                                                         *)
(* A call awaits every answer; others for the same token, the admins and   *)
(* the market go on meanwhile.  Which errors let a token pass and which do *)
(* not differs from step to step.                                          *)
(***************************************************************************)
EXTENDS Integers, FiniteSets

CONSTANTS
  Token, Caller,
  PumpFun,                      \* the tokens with a bonding curve account
  AdminReady,                   \* an admin key and an IDL were found
  MaxFaults                     \* bound on failed calls

Nobody == "nobody"

VARIABLES
  dex,          \* where each token trades: curve, pumpswap or raydium
  sound,        \* the tokens with a pool of the liquidity, age and balance asked
  listed,       \* the tokens with an enabled manualWhitelist entry
  config,       \* the tokens with a token config on chain
  row,          \* the tokens with a row in the database
  cache,        \* each token's cached answer: none, manual, auto or rejected
  fresh,        \* the tokens whose cached answer is younger than 5 minutes
  lock,         \* whitelistingLocks: the caller whose transaction is awaited
  call,         \* what each call is waiting for, and what it answered last
  faults,
  unsynced      \* history: tokens whose row failed, whose transaction's answer
                \* was lost, or whose config came from outside

vars == <<dex, sound, listed, config, row, cache, fresh, lock, call, faults, unsynced>>
market == <<dex, sound>>
book == <<listed, config, row, unsynced>>
store == <<cache, fresh>>

Idle == [phase |-> "idle", token |-> Nobody, answer |-> "none"]
TokenOf(v) == call[v].token
Go(v, phase) == call' = [call EXCEPT ![v].phase = phase]
Replied(v, answer) == call' = [call EXCEPT ![v].phase = "idle", ![v].answer = answer]
Mishap == faults < MaxFaults /\ faults' = faults + 1

\* cacheResult, and the reply.
Conclude(v, answer) ==
  /\ cache' = [cache EXCEPT ![TokenOf(v)] = answer]
  /\ fresh' = fresh \cup {TokenOf(v)}
  /\ Replied(v, answer)

\* The catch of verifyToken: an expired answer would do too, but it was deleted
\* when the call began, so that only another call can have left one.
Fail(v) ==
  /\ Replied(v, IF cache[TokenOf(v)] = "none" THEN "rejected" ELSE cache[TokenOf(v)])
  /\ UNCHANGED store

Init ==
  /\ dex = [t \in Token |-> "curve"] /\ sound = {}
  /\ listed = {} /\ config = {} /\ row = {} /\ unsynced = {}
  /\ cache = [t \in Token |-> "none"] /\ fresh = {}
  /\ lock = [t \in Token |-> Nobody]
  /\ call = [v \in Caller |-> Idle]
  /\ faults = 0
-----------------------------------------------------------------------------
(* verifyToken                                                              *)

\* getCachedResult deletes an answer that is too old.
Ask(v, t) ==
  /\ call[v].phase = "idle"
  /\ IF t \in fresh
       THEN call' = [call EXCEPT ![v] = [Idle EXCEPT !.token = t, !.answer = cache[t]]] /\ UNCHANGED store
       ELSE /\ call' = [call EXCEPT ![v] = [phase |-> "entry", token |-> t, answer |-> "none"]]
            /\ cache' = [cache EXCEPT ![t] = "none"] /\ UNCHANGED fresh
  /\ UNCHANGED <<market, book, lock, faults>>

CheckEntry(v) ==
  /\ call[v].phase = "entry"
  /\ \/ /\ IF TokenOf(v) \in listed THEN Conclude(v, "manual") ELSE Go(v, "launchpad") /\ UNCHANGED store
        /\ UNCHANGED faults
     \/ Fail(v) /\ Mishap
  /\ UNCHANGED <<market, book, lock>>

\* An error counts as an unknown launchpad, and that answer is cached as well.
DetectLaunchpad(v) ==
  /\ call[v].phase = "launchpad"
  /\ \/ TokenOf(v) \in PumpFun /\ Go(v, "graduation") /\ UNCHANGED <<store, faults>>
     \/ TokenOf(v) \notin PumpFun /\ Conclude(v, "rejected") /\ UNCHANGED faults
     \/ TokenOf(v) \in PumpFun /\ Conclude(v, "rejected") /\ Mishap
  /\ UNCHANGED <<market, book, lock>>

\* checkPumpFunGraduation: an error counts as still on the curve.
CheckGraduation(v) ==
  /\ call[v].phase = "graduation"
  /\ \/ /\ IF dex[TokenOf(v)] = "curve" THEN Conclude(v, "rejected") ELSE Go(v, "pool") /\ UNCHANGED store
        /\ UNCHANGED faults
     \/ Conclude(v, "rejected") /\ Mishap
  /\ UNCHANGED <<market, book, lock>>

\* validatePoolBalance: fail open.
ValidatePool(v) ==
  /\ call[v].phase = "pool"
  /\ \/ /\ IF TokenOf(v) \in sound THEN Go(v, "chain") /\ UNCHANGED store ELSE Conclude(v, "rejected")
        /\ UNCHANGED faults
     \/ Go(v, "chain") /\ Mishap /\ UNCHANGED store
  /\ UNCHANGED <<market, book, lock>>

\* isTokenOnChain, an error counting as no.  A token on chain gets its row.
CheckOnChain(v) ==
  LET t == TokenOf(v) IN
  /\ call[v].phase = "chain"
  /\ \/ /\ AdminReady /\ t \in config
        /\ Go(v, "metadata")
        /\ \/ row' = row \cup {t} /\ UNCHANGED <<unsynced, faults>>
           \/ unsynced' = unsynced \cup {t} /\ Mishap /\ UNCHANGED row
     \/ /\ ~AdminReady \/ t \notin config
        /\ Go(v, IF AdminReady THEN "listing" ELSE "metadata")
        /\ UNCHANGED <<row, unsynced, faults>>
     \/ /\ AdminReady /\ t \in config
        /\ Go(v, "listing") /\ Mishap
        /\ UNCHANGED <<row, unsynced>>
  /\ UNCHANGED <<market, listed, config, store, lock>>

\* fetchTokenMetadata returns null when it fails.
Finish(v) ==
  /\ call[v].phase = "metadata"
  /\ Conclude(v, "auto")
  /\ UNCHANGED <<market, book, lock, faults>>
-----------------------------------------------------------------------------
(* autoWhitelistWithLock and autoWhitelistOnChain                           *)

\* Fault: who finds the lock taken does not wait for the transaction.
JoinWithoutWaiting(v) ==
  LET t == TokenOf(v) IN
  /\ call[v].phase = "listing"
  /\ IF lock[t] = Nobody
       THEN lock' = [lock EXCEPT ![t] = v] /\ Go(v, "sending")
       ELSE Go(v, "metadata") /\ UNCHANGED lock
  /\ UNCHANGED <<market, book, store, faults>>

Join(v) ==
  LET t == TokenOf(v) IN
  /\ call[v].phase = "listing"
  /\ IF lock[t] = Nobody
       THEN lock' = [lock EXCEPT ![t] = v] /\ Go(v, "sending")
       ELSE Go(v, "joined") /\ UNCHANGED lock
  /\ UNCHANGED <<market, book, store, faults>>

\* The promise settles for its owner and for all who joined it.
Settle(t, done) ==
  /\ lock' = [lock EXCEPT ![t] = Nobody]
  /\ call' = [u \in Caller |->
       IF u = lock[t] \/ (call[u].phase = "joined" /\ TokenOf(u) = t)
       THEN IF done THEN [call[u] EXCEPT !.phase = "metadata"]
                    ELSE [call[u] EXCEPT !.phase = "idle", !.answer = "rejected"]
       ELSE call[u]]

\* The transaction needs a PumpSwap pool.  A config that is there already counts
\* as success, without the row; a lost answer does not, though the config may be
\* there.
Send(v) ==
  LET t == TokenOf(v) IN
  /\ call[v].phase = "sending"
  /\ \/ /\ dex[t] = "pumpswap" /\ t \notin config
        /\ config' = config \cup {t}
        /\ \/ Go(v, "row") /\ UNCHANGED <<lock, unsynced, faults>>
           \/ Settle(t, FALSE) /\ Mishap /\ unsynced' = unsynced \cup {t}
     \/ /\ dex[t] = "pumpswap" /\ t \in config
        /\ Settle(t, TRUE)
        /\ UNCHANGED <<config, unsynced, faults>>
     \/ /\ Settle(t, FALSE)
        /\ \/ dex[t] # "pumpswap" /\ UNCHANGED faults
           \/ dex[t] = "pumpswap" /\ Mishap
        /\ UNCHANGED <<config, unsynced>>
  /\ UNCHANGED <<market, listed, row, store>>

\* "Insert into database so loan.service.ts can find it"
SyncRow(v) ==
  LET t == TokenOf(v) IN
  /\ call[v].phase = "row"
  /\ \/ row' = row \cup {t} /\ UNCHANGED <<unsynced, faults>>
     \/ unsynced' = unsynced \cup {t} /\ Mishap /\ UNCHANGED row
  /\ Settle(t, TRUE)
  /\ UNCHANGED <<market, listed, config, store>>
-----------------------------------------------------------------------------
(* The market, the admins, and time.                                        *)

Trade(t, d) ==
  /\ dex[t] # d
  /\ dex' = [dex EXCEPT ![t] = d]
  /\ UNCHANGED <<sound, book, store, lock, call, faults>>

PoolMoves(t) ==
  /\ sound' = IF t \in sound THEN sound \ {t} ELSE sound \cup {t}
  /\ UNCHANGED <<dex, book, store, lock, call, faults>>

AdminLists(t) ==
  /\ listed' = IF t \in listed THEN listed \ {t} ELSE listed \cup {t}
  /\ UNCHANGED <<market, config, row, unsynced, store, lock, call, faults>>

\* scripts/whitelist-token.ts, without a row.
ScriptLists(t) ==
  /\ dex[t] # "curve" /\ t \notin config
  /\ config' = config \cup {t} /\ unsynced' = unsynced \cup {t}
  /\ UNCHANGED <<market, listed, row, store, lock, call, faults>>

\* Fault: an answer once cached stays.
CacheStays(t) == FALSE

CacheAges(t) ==
  /\ t \in fresh
  /\ fresh' = fresh \ {t}
  /\ UNCHANGED <<market, book, cache, lock, call, faults>>

CallStep(v) ==
  \/ CheckEntry(v) \/ DetectLaunchpad(v) \/ CheckGraduation(v) \/ ValidatePool(v)
  \/ CheckOnChain(v) \/ Finish(v) \/ Join(v) \/ Send(v) \/ SyncRow(v)

Next ==
  \/ \E v \in Caller : (\E t \in Token : Ask(v, t)) \/ CallStep(v)
  \/ \E t \in Token :
       \/ \E d \in {"curve", "pumpswap", "raydium"} : Trade(t, d)
       \/ PoolMoves(t) \/ AdminLists(t) \/ ScriptLists(t) \/ CacheAges(t)

Spec == Init /\ [][Next]_vars
LiveSpec == Spec /\ \A t \in Token : WF_vars(CacheAges(t))
-----------------------------------------------------------------------------
(* Properties.                                                              *)

\* Where the server whitelists by itself, a token it calls valid on its own
\* account has its config on chain, for the calls as well that found another's
\* transaction under way and those whose answer comes from the cache or in place
\* of an error (token-verification.service.ts:555-568, :381-390); and its row,
\* without which loan.service.ts does not find it, though one call may find the
\* config and another have made it (:288-292), unless the row or the answer of
\* the transaction failed, or a script made the config.
ValidIsOnChain ==
  AdminReady => \A v \in Caller : call[v].answer = "auto" =>
    /\ TokenOf(v) \in config
    /\ TokenOf(v) \in row \/ TokenOf(v) \in unsynced

\* A token that the whitelist gained or lost for good is in the end not answered
\* from before: no cached rejection outlives the listing, no cached manual answer
\* the delisting, whatever calls began before it (nothing calls clearCache).
CacheFollowsWhitelist ==
  \A t \in Token :
    /\ (<>[](t \in listed)) => <>[](cache[t] # "rejected" \/ t \notin fresh)
    /\ (<>[](t \notin listed)) => <>[](cache[t] # "manual" \/ t \notin fresh)
=============================================================================
