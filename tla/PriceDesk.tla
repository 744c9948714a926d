-------------------------------- MODULE PriceDesk ------------------------------
(* The prices that pages, jobs and the SDK ask for: the price service of the     *)
(* server with its cache (services/price.service.ts), the routes and the job in  *)
(* front of it, and the SDK's price client with a cache of its own behind them   *)
(* (packages/sdk/src/price.ts).  Several requests are under way at once and share *)
(* the cache; each waits for its sources and, after every price it stores, for   *)
(* redis.  The price monitor of the liquidations is PriceFeed.                   *)
(*                                                                              *)
(* A price is abstracted to its age: the time since its source gave it.  Ages    *)
(* above Cap are taken for Cap.                                                 *)
EXTENDS Integers, FiniteSets

CONSTANTS Mint, Sol,        \* tokens; the wrapped SOL among them
          Request,          \* requests that can be under way in the server at once
          ServerTtl, SdkTtl,    \* CACHE_TTL of the service and of the SDK
          SdkTimeout,       \* how long the SDK waits for an answer
          RedisWait,        \* how long redis takes to store a price, at most
          Cap

NoPrice == -1
NoEntry == [age |-> NoPrice, since |-> 0]

VARIABLES cache,            \* per mint: age of the price, and time in the cache
          req,              \* the requests in the server that need a source
          sdkCache,
          sdk               \* the request of the SDK that is under way

vars == <<cache, req, sdkCache, sdk>>

Nothing == [m \in Mint |-> NoPrice]
Idle == [phase |-> "idle", left |-> {}, missing |-> {}, storing |-> {}, batch |-> 0, wait |-> 0]
(* The answer is kept only for the SDK, in got; what pages are told is not         *)
(* followed any further.                                                        *)
NoCall == [request |-> "none", asked |-> {}, got |-> Nothing, waited |-> 0]

Init ==
  /\ cache = [m \in Mint |-> NoEntry] /\ sdkCache = [m \in Mint |-> NoEntry]
  /\ req = [r \in Request |-> Idle]
  /\ sdk = NoCall

Kept(age) == [age |-> age, since |-> 0]
Usable(entries, m, ttl) == entries[m].age # NoPrice /\ entries[m].since < ttl
Found(entries, S, ttl) ==
  [m \in Mint |-> IF m \in S /\ Usable(entries, m, ttl) THEN entries[m].age ELSE NoPrice]
Priced(prices) == {m \in Mint : prices[m] # NoPrice}
--------------------------------------------------------------------------------
(* The price service.                                                           *)

(* getPrices, what the cache does not have. *)
Asked(S) == [Idle EXCEPT !.phase = "jupiter", !.left = S]

(* GET /api/prices and /api/prices/:mint, the job that broadcasts the prices and  *)
(* the services that want one; a request the cache can answer changes nothing.   *)
Ask(r, S) ==
  LET uncached == S \ Priced(Found(cache, S, ServerTtl)) IN
  /\ req[r] = Idle /\ uncached # {}
  /\ req' = [req EXCEPT ![r] = Asked(uncached)]
  /\ UNCHANGED <<cache, sdkCache, sdk>>

(* POST /api/price-status/refresh: clear, then ask. *)
Refresh(r, S) ==
  /\ req[r] = Idle
  /\ cache' = [m \in Mint |-> IF m \in S THEN NoEntry ELSE cache[m]]
  /\ req' = [req EXCEPT ![r] = Asked(S)]
  /\ UNCHANGED <<sdkCache, sdk>>

(* clearCache of one token or of all, by its route or the job. *)
ClearCache(S) ==
  /\ cache' = [m \in Mint |-> IF m \in S THEN NoEntry ELSE cache[m]]
  /\ UNCHANGED <<req, sdkCache, sdk>>

After(r, next) ==
  IF next.left # {} THEN next ELSE IF sdk.request = r THEN [Idle EXCEPT !.phase = "done"] ELSE Idle
Answer(r, m, age) == IF sdk.request = r THEN [sdk EXCEPT !.got[m] = age] ELSE sdk

(* fetchFromJupiter: the prices it has of the batch.  The first is stored at once, *)
(* every other one when redis has stored the one before.                        *)
JupiterAnswers(r, found) ==
  /\ req[r].phase = "jupiter" /\ found \subseteq req[r].left
  /\ req' = [req EXCEPT ![r] =
               IF found = {} THEN [@ EXCEPT !.phase = "dex"]
               ELSE [@ EXCEPT !.phase = "storing", !.storing = found, !.missing = req[r].left \ found,
                              !.batch = 0, !.wait = RedisWait]]
  /\ UNCHANGED <<cache, sdkCache, sdk>>

JupiterFails(r) ==
  /\ req[r].phase = "jupiter"
  /\ req' = [req EXCEPT ![r].phase = "dex"]
  /\ UNCHANGED <<cache, sdkCache, sdk>>

ToDex(S) == [Idle EXCEPT !.phase = "dex", !.left = S]

(* When redis fails, Jupiter counts as failed and DexScreener is asked for all. *)
Store(r, m) ==
  LET rest == req[r].storing \ {m} IN
  /\ req[r].phase = "storing" /\ m \in req[r].storing
  /\ cache' = [cache EXCEPT ![m] = Kept(req[r].batch)]
  /\ sdk' = Answer(r, m, req[r].batch)
  /\ \/ req' = [req EXCEPT ![r] = IF rest # {} THEN [@ EXCEPT !.storing = rest, !.wait = 0]
                                  ELSE After(r, ToDex(req[r].missing))]
     \/ req' = [req EXCEPT ![r] = ToDex(req[r].left)]
  /\ UNCHANGED sdkCache

(* fetchFromDexScreener, mint after mint: a price, or none. *)
DexAnswers(r, m) ==
  /\ req[r].phase = "dex" /\ m \in req[r].left
  /\ cache' = [cache EXCEPT ![m] = Kept(0)]
  /\ sdk' = Answer(r, m, 0)
  /\ req' = [req EXCEPT ![r] = After(r, ToDex(req[r].left \ {m}))]
  /\ UNCHANGED sdkCache

DexHasNone(r, m) ==
  /\ req[r].phase = "dex" /\ m \in req[r].left
  /\ req' = [req EXCEPT ![r] = After(r, ToDex(req[r].left \ {m}))]
  /\ UNCHANGED <<cache, sdkCache, sdk>>

(* getSolPrice asks Jupiter alone; without an answer it says 150 dollars, and does  *)
(* not store them.                                                              *)
SolPrice == /\ ~Usable(cache, Sol, ServerTtl)
            /\ cache' = [cache EXCEPT ![Sol] = Kept(0)]
            /\ UNCHANGED <<req, sdkCache, sdk>>
--------------------------------------------------------------------------------
(* The price client of the SDK, one call at a time. *)

(* getPrices and getSinglePrice look in the cache first, getAllTokenPrices does    *)
(* not.  What the SDK answers of its own is read when the call starts; a call it can  *)
(* answer wholly so changes nothing.                                            *)
SdkAsk(r, S, own) ==
  LET wanted == S \ Priced(own)
      served == Found(cache, wanted, ServerTtl)
      uncached == wanted \ Priced(served)
  IN
  /\ sdk = NoCall /\ wanted # {} /\ req[r] = Idle
  /\ req' = [req EXCEPT ![r] = IF uncached = {} THEN [Idle EXCEPT !.phase = "done"] ELSE Asked(uncached)]
  /\ sdk' = [request |-> r, asked |-> wanted, waited |-> 0,
             got |-> [m \in Mint |-> IF m \in wanted THEN served[m] ELSE own[m]]]
  /\ UNCHANGED <<cache, sdkCache>>

SdkPrices(r, S) == SdkAsk(r, S, Found(sdkCache, S, SdkTtl))
SdkAllPrices(r) == SdkAsk(r, Mint, Nothing)

(* What an answer puts into the cache of the SDK. *)
LearntAgain(got, asked) == Priced(got)  \* a fault: what was in the cache becomes new again
Learnt(got, asked) == Priced(got) \cap asked

SdkReceives ==
  /\ sdk # NoCall /\ req[sdk.request].phase = "done"
  /\ sdkCache' = [m \in Mint |-> IF m \in Learnt(sdk.got, sdk.asked) THEN Kept(sdk.got[m])
                                 ELSE sdkCache[m]]
  /\ req' = [req EXCEPT ![sdk.request] = Idle]
  /\ sdk' = NoCall
  /\ UNCHANGED cache

(* The server does not answer in time, or with an error: what the SDK had of its   *)
(* own is all there is.  The request goes on in the server.                     *)
SdkGivesUp ==
  /\ sdk # NoCall
  /\ req' = [req EXCEPT ![sdk.request] = IF @.phase = "done" THEN Idle ELSE @]
  /\ sdk' = NoCall
  /\ UNCHANGED <<cache, sdkCache>>
--------------------------------------------------------------------------------
Older(age) == IF age = NoPrice THEN NoPrice ELSE IF age < Cap THEN age + 1 ELSE Cap
(* An entry past its time is never read again. *)
OlderEntry(entry, ttl) == IF entry = NoEntry \/ entry.since + 1 >= ttl THEN NoEntry
                          ELSE [age |-> Older(entry.age), since |-> entry.since + 1]

Tick ==
  /\ \A r \in Request : req[r].phase = "storing" => req[r].wait < RedisWait
  /\ sdk # NoCall => sdk.waited < SdkTimeout
  /\ cache' = [m \in Mint |-> OlderEntry(cache[m], ServerTtl)]
  /\ sdkCache' = [m \in Mint |-> OlderEntry(sdkCache[m], SdkTtl)]
  /\ req' = [r \in Request |-> IF req[r].phase = "storing"
                               THEN [req[r] EXCEPT !.batch = @ + 1, !.wait = @ + 1] ELSE req[r]]
  /\ sdk' = IF sdk = NoCall THEN NoCall
            ELSE [sdk EXCEPT !.waited = @ + 1, !.got = [m \in Mint |-> Older(sdk.got[m])]]

Serve(r) ==
  \/ \E S \in SUBSET req[r].left : JupiterAnswers(r, S)
  \/ JupiterFails(r)
  \/ \E m \in Mint : Store(r, m) \/ DexAnswers(r, m) \/ DexHasNone(r, m)

Next ==
  \/ \E r \in Request, S \in SUBSET Mint \ {{}} : Ask(r, S) \/ Refresh(r, S) \/ SdkPrices(r, S)
  \/ \E r \in Request : SdkAllPrices(r) \/ Serve(r)
  \/ \E S \in SUBSET Mint \ {{}} : ClearCache(S)
  \/ SolPrice \/ SdkReceives \/ SdkGivesUp
  \/ Tick

Spec == Init /\ [][Next]_vars
--------------------------------------------------------------------------------
(* However requests overlap in the two caches and whatever fails, a price the SDK  *)
(* has for its caller is no older than the storing of its batch, the two caches    *)
(* and two waits for an answer allow: one wait before the SDK stored it, and one    *)
(* beside the prices it waits for now (price.service.ts:108-233, price.ts:45-147). *)
OldestStored == RedisWait * (Cardinality(Mint) - 1) + (ServerTtl - 1) + SdkTimeout
PricesAreRecent ==
  \A m \in Mint : /\ sdkCache[m].age <= OldestStored + SdkTtl - 1
                  /\ sdk.got[m] <= OldestStored + SdkTtl - 1 + SdkTimeout
================================================================================
