------------------------------- MODULE SdkCalls -------------------------------
(* Calls of the SDK (packages/sdk/src): client.ts and the builders, fetchers and *)
(* price readers behind it.  A call reads accounts one request at a time, while   *)
(* other calls land, the pool is traded on and time passes; then it answers, or   *)
(* sends a transaction made of what it read, which the program takes or refuses. *)
(*                                                                              *)
(* One loan, of a token in a PumpSwap pool.  What the program does with a         *)
(* transaction is in Lending; here it is what it checks of what a call read.     *)
EXTENDS Integers, Sequences

CONSTANTS Caller,
          Made,             \* the calls that are made, of those in Kind
          Wallet,           \* wallets the operations wallet is set to
          Constant,         \* product of the two balances of the pool at depth 1
          Base,             \* token balances the pool takes at depth 1
          Depth,            \* multiples of both balances; 0: emptied
          Scale,            \* PRICE_SCALE over DECIMAL_ADJUSTMENT
          LiquidationPrice, DueAt,
          MaxTime,          \* bound on the clock
          MaxCalls,         \* bound on calls
          MaxChanges        \* bound on changes of the pool

VARIABLES loan,             \* status of the loan
          paused, wallet,   \* of the protocol
          base, depth,      \* of the pool
          now,
          call,             \* per caller: the call and what it has read
          window,           \* history, per caller: what was so since it began
          calls, changes

chain == <<loan, paused, wallet>>
pool == <<base, depth>>
vars == <<chain, pool, now, call, window, calls, changes>>

(* The accounts the builders fetch, in order; the fetched wallet, pool and index  *)
(* are put into the transaction.                                                *)
PreparedReads == [createLoan |-> <<"protocol", "config">>,
                  repayLoan |-> <<"loan", "mint", "protocol">>]
SentReads == PreparedReads                 \* the same, sent at once
LiquidateReads == [liquidate |-> <<"loan", "config", "protocol", "mint">>,
                   liquidateWithPumpfun |-> <<"loan", "curve", "config", "protocol">>,
                   liquidateWithJupiter |-> <<"loan", "route", "config", "protocol">>]
AdminCalls == {"pauseProtocol", "resumeProtocol", "updateWallets", "updateTokenConfig"}
StakingCalls == {"stake", "unstake"}

(* isLoanLiquidatable reads the loan and the config before a price.               *)
Kind == DOMAIN SentReads \cup DOMAIN LiquidateReads \cup AdminCalls \cup StakingCalls
          \cup {"isLoanLiquidatable", "getPriceWithFallback"}

Reads(k) ==
  CASE k \in DOMAIN SentReads -> SentReads[k]
    [] k \in DOMAIN LiquidateReads -> LiquidateReads[k]
    [] k \in StakingCalls -> <<"stakingPool">>
    [] k = "isLoanLiquidatable" -> <<"loan", "config">>
    [] OTHER -> <<>>

(* The program takes four arguments of create_loan and update_token_config where *)
(* the builders pass two: Anchor's client throws.  A liquidation names a vault    *)
(* that is not the associated account the program asks for.                     *)
TooFewArguments == {"createLoan", "updateTokenConfig"}
NeverAccepted == DOMAIN LiquidateReads

(* The pool type of a config is one of packages/types, 'pumpswap'; that of        *)
(* getPriceFromPool one of pool-price.ts, 'PumpSwap'.                           *)
PoolTypeGiven(k) == IF k = "isLoanLiquidatable" THEN "pumpswap" ELSE "PumpSwap"
ReadsPool(k) == PoolTypeGiven(k) = "PumpSwap"

(* calculatePumpSwapPrice *)
PriceOf(b, q) == ((q * Scale) \div b)
QuoteIn(b, d) == d * (Constant \div b)
BaseIn(b, d) == d * b

Idle == [kind |-> "none", at |-> "idle", n |-> 0, wallet |-> "none", base |-> -1, quote |-> -1,
         failed |-> FALSE, answer |-> "none", price |-> -1, source |-> "none"]

Events == (IF paused THEN {"paused"} ELSE {}) \cup (IF loan # "active" THEN {"ended"} ELSE {})

Init ==
  /\ loan = "active" /\ paused = FALSE /\ wallet \in Wallet
  /\ base \in Base /\ depth = 1 /\ now = 0 /\ calls = 0 /\ changes = 0
  /\ call = [c \in Caller |-> Idle]
  /\ window = [c \in Caller |-> [low |-> 0, high |-> 0, events |-> {}]]
--------------------------------------------------------------------------------
InCall(c) == call[c].at \notin {"idle", "done"}

(* What a change is to the windows of the calls under way. *)
Note(events, b, d) ==
  window' = [c \in Caller |->
    IF ~InCall(c) THEN window[c]
    ELSE IF call[c].kind # "getPriceWithFallback" THEN [window[c] EXCEPT !.events = @ \cup events]
    ELSE LET p == IF d = 0 THEN window[c].low ELSE PriceOf(BaseIn(b, d), QuoteIn(b, d)) IN
         [low |-> IF p < window[c].low THEN p ELSE window[c].low,
          high |-> IF p > window[c].high THEN p ELSE window[c].high,
          events |-> window[c].events \cup events]]

(* After the last account: a price, or the transaction. *)
AtAfterReads(k) ==
  CASE k \in {"isLoanLiquidatable", "getPriceWithFallback"} ->
         IF ReadsPool(k) THEN "pool" ELSE "jupiter"
    [] k \in TooFewArguments -> "throws"
    [] OTHER -> "sent"

Started(k) == [Idle EXCEPT !.kind = k,
                           !.at = IF Reads(k) = <<>> THEN AtAfterReads(k) ELSE "reading"]

Begin(c, k) ==
  /\ ~InCall(c) /\ calls < MaxCalls /\ calls' = calls + 1
  /\ call' = [call EXCEPT ![c] = Started(k)]
  /\ window' = [window EXCEPT ![c] =
       LET p == IF k # "getPriceWithFallback" \/ depth = 0 THEN 0
                ELSE PriceOf(BaseIn(base, depth), QuoteIn(base, depth))
       IN
       [low |-> p, high |-> p, events |-> Events]]
  /\ UNCHANGED <<chain, pool, now, changes>>

Set(c, r) == call' = [call EXCEPT ![c] = r] /\ UNCHANGED <<chain, pool, now, window, calls, changes>>
Answer(c, a) == Set(c, [Idle EXCEPT !.kind = call[c].kind, !.at = "done", !.answer = a])

(* An account arrives. *)
Read(c) ==
  LET k == call[c].kind
      account == Reads(k)[call[c].n + 1]
      next == [call[c] EXCEPT
                 !.n = @ + 1,
                 !.wallet = IF account = "protocol" THEN wallet ELSE @,
                 !.at = IF call[c].n + 1 = Len(Reads(k)) THEN AtAfterReads(k) ELSE @]
  IN
  /\ call[c].at = "reading"
  /\ CASE k = "isLoanLiquidatable" /\ account = "loan" /\ loan # "active" -> Answer(c, "no")
       [] k = "isLoanLiquidatable" /\ account = "loan" /\ loan = "active" /\ now > DueAt ->
            Answer(c, "time")
       [] OTHER -> Set(c, next)

(* A request fails: the fetchers of isLoanLiquidatable answer null, for which it   *)
(* says no, or goes on without a pool; the rest throw.                          *)
ReadFails(c) ==
  LET k == call[c].kind IN
  /\ call[c].at = "reading"
  /\ CASE k = "isLoanLiquidatable" /\ call[c].n = 0 -> Answer(c, "no")
       [] k = "isLoanLiquidatable" /\ call[c].n = 1 ->
            Set(c, [call[c] EXCEPT !.at = "jupiter", !.failed = TRUE])
       [] OTHER -> Answer(c, "throws")

Throw(c) == call[c].at = "throws" /\ Answer(c, "throws")

(* getPriceFromPool: the pool, for the vaults; the two vaults in one go, each at a *)
(* time of its own; any failure, and an empty vault, leave it to Jupiter.        *)
ReadPool(c) == call[c].at = "pool" /\ Set(c, [call[c] EXCEPT !.at = "vaults"])
ReadBase(c) ==
  /\ call[c].at = "vaults" /\ call[c].base = -1
  /\ Set(c, [call[c] EXCEPT !.base = BaseIn(base, depth)])
ReadQuote(c) ==
  /\ call[c].at = "vaults" /\ call[c].quote = -1
  /\ Set(c, [call[c] EXCEPT !.quote = QuoteIn(base, depth)])
PoolFails(c) ==
  /\ call[c].at \in {"pool", "vaults"}
  /\ Set(c, [call[c] EXCEPT !.at = "jupiter", !.failed = TRUE])

(* isLiquidatableByPrice for isLoanLiquidatable; the price itself otherwise. *)
Priced(c, p, source) ==
  Set(c, [Idle EXCEPT
    !.kind = call[c].kind, !.at = "done", !.price = p, !.source = source,
    !.failed = call[c].failed,
    !.answer = IF call[c].kind = "getPriceWithFallback" THEN "price"
               ELSE IF p <= LiquidationPrice THEN "price" ELSE "no"])

PoolPriceInverted(c) ==       \* fault: the offsets of the vaults are confused
  /\ call[c].at = "vaults" /\ call[c].base > 0 /\ call[c].quote > 0
  /\ Priced(c, PriceOf(call[c].quote, call[c].base), "pool")

PoolPrice(c) ==
  /\ call[c].at = "vaults" /\ call[c].base # -1 /\ call[c].quote # -1
  /\ IF call[c].base = 0 \/ call[c].quote = 0
     THEN Set(c, [call[c] EXCEPT !.at = "jupiter", !.failed = TRUE])
     ELSE Priced(c, PriceOf(call[c].base, call[c].quote), "pool")

(* Jupiter has a price of its own, or none; isLoanLiquidatable then says no. *)
Jupiter(c) ==
  /\ call[c].at = "jupiter"
  /\ \/ \E p \in {LiquidationPrice, LiquidationPrice + 1} : Priced(c, p, "jupiter")
     \/ Answer(c, IF call[c].kind = "isLoanLiquidatable" THEN "no" ELSE "throws")
--------------------------------------------------------------------------------
(* The program. *)
Accepts(c) ==
  CASE call[c].kind \in NeverAccepted -> FALSE
    [] call[c].kind = "repayLoan" -> loan = "active" /\ ~paused /\ call[c].wallet = wallet
    [] OTHER -> TRUE

(* The transaction lands; the caller hears of it, or not in time. *)
Land(c) ==
  /\ call[c].at = "sent" /\ Accepts(c)
  /\ loan' = IF call[c].kind = "repayLoan" THEN "repaid" ELSE loan
  /\ paused' = CASE call[c].kind = "pauseProtocol" -> TRUE
                 [] call[c].kind = "resumeProtocol" -> FALSE
                 [] OTHER -> paused
  /\ IF call[c].kind = "updateWallets" THEN wallet' \in Wallet ELSE UNCHANGED wallet
  /\ \E a \in {"done", "throws"} :
       call' = [call EXCEPT ![c] = [Idle EXCEPT !.kind = call[c].kind, !.at = "done", !.answer = a]]
  /\ Note((IF paused' THEN {"paused"} ELSE {}) \cup (IF loan' # "active" THEN {"ended"} ELSE {})
            \cup (IF wallet' # wallet THEN {"wallet"} ELSE {}), base, depth)
  /\ UNCHANGED <<pool, now, calls, changes>>

Refuse(c) == call[c].at = "sent" /\ ~Accepts(c) /\ Answer(c, "refused")

(* It is lost, or its blockhash expires. *)
Lose(c) == call[c].at = "sent" /\ Answer(c, "throws")
--------------------------------------------------------------------------------
(* Others: trades along the curve, liquidity, the liquidator, time.  Of the pool,  *)
(* only what changes while a call reads its vaults can be told.                  *)
ReadingVaults == \E c \in Caller : call[c].at = "vaults"

Trade(b) ==
  /\ ReadingVaults /\ b # base /\ depth # 0 /\ base' = b
  /\ changes < MaxChanges /\ changes' = changes + 1
  /\ Note({}, b, depth)
  /\ UNCHANGED <<chain, depth, now, call, calls>>

Liquidity(d) ==
  /\ ReadingVaults /\ d # depth /\ depth' = d
  /\ changes < MaxChanges /\ changes' = changes + 1
  /\ Note({"liquidity"}, base, d)
  /\ UNCHANGED <<chain, base, now, call, calls>>

LoanEnds ==
  /\ loan = "active" /\ loan' = "liquidated"
  /\ Note({"ended"}, base, depth)
  /\ UNCHANGED <<paused, wallet, pool, now, call, calls, changes>>

Tick == now < MaxTime /\ now' = now + 1 /\ UNCHANGED <<chain, pool, call, window, calls, changes>>

Next ==
  \/ \E c \in Caller :
       \/ \E k \in Made \cap Kind : Begin(c, k)
       \/ Read(c) \/ ReadFails(c) \/ Throw(c)
       \/ ReadPool(c) \/ ReadBase(c) \/ ReadQuote(c) \/ PoolFails(c) \/ PoolPrice(c) \/ Jupiter(c)
       \/ Land(c) \/ Refuse(c) \/ Lose(c)
  \/ \E b \in Base : Trade(b)
  \/ \E d \in Depth : Liquidity(d)
  \/ LoanEnds \/ Tick

Spec == Init /\ [][Next]_vars
--------------------------------------------------------------------------------
(* A price taken from a pool, whose two balances are read at different times, is  *)
(* one the pool had or passed through meanwhile, if its liquidity stayed; and a    *)
(* repayment is refused only if since the call began the protocol was paused, the  *)
(* loan closed or the wallet replaced (pool-price.ts:171, instructions:320).      *)
AnswersFit ==
  \A c \in Caller :
    /\ call[c].source = "pool" /\ "liquidity" \notin window[c].events
         => window[c].low <= call[c].price /\ call[c].price <= window[c].high
    /\ call[c].kind = "repayLoan" /\ call[c].answer = "refused"
         => window[c].events \cap {"paused", "ended", "wallet"} # {}
    /\ call[c].answer = "time" => now > DueAt
===============================================================================
