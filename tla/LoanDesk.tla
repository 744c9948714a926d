------------------------------ MODULE LoanDesk ------------------------------
(***************************************************************************)
(* How a loan is asked for: POST /api/loan/prepare checks the circuit      *)
(* breaker and the wallet's hourly limit, fetches a price and co-signs a   *)
(* transaction for the next loan index (apps/server/src/services/          *)
(* loan-prepare, circuit-breaker, wallet-rate-limit and                    *)
(* jupiter-price.service.ts); the browser signs and sends it               *)
(* (apps/web/src/lib/loan-transactions.ts); the program accepts it while   *)
(* the price is fresh and the index is next; and trackCreatedLoan counts   *)
(* it against the wallet's limit.                                          *)
(*                                                                         *)
(* Nothing is reserved in between: every check is of a state that others   *)
(* change before the loan is made.                                         *)
(***************************************************************************)
EXTENDS Integers, Sequences, FiniteSets

CONSTANTS
  Wallet, Request, Tracker,
  Borrower,                     \* bound: the wallets that ask for loans
  MAX_LOANS_PER_HOUR,
  LIQUIDATION_COUNT_THRESHOLD_1H,
  MaxLoans,                     \* bound on the loans made
  MaxFaults                     \* bound on failures, restarts and wallets misnamed

VARIABLES
  loans,        \* the wallets the program made loans to, by index
  rows,         \* the indexes of the loans the database has of each wallet
  rate,         \* redis loan_rate of each wallet, 0 when there is no key
  expiring,     \* the wallets whose key has a time to live
  liquidations, \* rows of liquidationResult of the last hour
  tripped,      \* the circuit breaker, in the server's memory
  req,          \* what each request for a loan is doing
  trk,          \* what each call of trackCreatedLoan is doing
  faults,
  forgot,       \* history: loans tracked that the wallet's counter no longer,
                \* or never, has
  timeless      \* history: wallets whose key may have lost its time to live

chain == <<loans, liquidations>>
limits == <<rows, rate, expiring, trk, forgot, timeless>>
vars == <<chain, limits, tripped, req, faults>>

NoRequest == [phase |-> "idle", wallet |-> CHOOSE w \in Wallet : TRUE, index |-> 0, fresh |-> FALSE]
NoTrack == [phase |-> "idle", wallet |-> CHOOSE w \in Wallet : TRUE, index |-> 0]

Mishap == faults < MaxFaults /\ faults' = faults + 1
Advance(r, phase) == req' = [req EXCEPT ![r].phase = phase]
Refuse(r) == req' = [req EXCEPT ![r] = NoRequest]
Tracked == UNION {rows[w] : w \in Wallet}

Init ==
  /\ loans = <<>> /\ rows = [w \in Wallet |-> {}] /\ liquidations = 0 /\ tripped = FALSE
  /\ rate = [w \in Wallet |-> 0] /\ expiring = {}
  /\ req = [r \in Request |-> NoRequest] /\ trk = [t \in Tracker |-> NoTrack]
  /\ faults = 0 /\ forgot = [w \in Wallet |-> 0] /\ timeless = {}

-----------------------------------------------------------------------------
(* prepareLoanTransaction                                                   *)

\* assertCircuitBreakerOk, up to the query of the liquidations.
Ask(r, w) ==
  /\ req[r].phase = "idle" /\ ~tripped
  /\ req' = [req EXCEPT ![r] = [NoRequest EXCEPT !.phase = "metrics", !.wallet = w]]
  /\ UNCHANGED <<chain, limits, tripped, faults>>

\* Fault: what others made of the breaker during the query is not looked at.
MetricsUnread(r) ==
  /\ req[r].phase = "metrics"
  /\ IF liquidations >= LIQUIDATION_COUNT_THRESHOLD_1H
       THEN tripped' = TRUE /\ Refuse(r)
       ELSE Advance(r, "limit") /\ UNCHANGED tripped
  /\ UNCHANGED <<chain, limits, faults>>

\* A query that fails counts as no liquidation.  The losses that are summed are
\* always 0 (loan.service.ts:720), so the number alone can trip the breaker.
Metrics(r) ==
  /\ req[r].phase = "metrics"
  /\ \E seen \in {liquidations, 0} :
       /\ \/ seen = liquidations /\ UNCHANGED faults
          \/ seen # liquidations /\ Mishap
       /\ tripped' = (tripped \/ seen >= LIQUIDATION_COUNT_THRESHOLD_1H)
       /\ IF tripped' THEN Refuse(r) ELSE Advance(r, "limit")
  /\ UNCHANGED <<chain, limits>>

\* Fail open.  The limit on active loans asks for the status 'Active', which no
\* row has.
CheckWallet(r) ==
  /\ req[r].phase = "limit"
  /\ \/ /\ IF rate[req[r].wallet] >= MAX_LOANS_PER_HOUR THEN Refuse(r) ELSE Advance(r, "price")
        /\ UNCHANGED faults
     \/ /\ rate[req[r].wallet] >= MAX_LOANS_PER_HOUR
        /\ Advance(r, "price")
        /\ Mishap
  /\ UNCHANGED <<chain, limits, tripped>>

\* getJupiterPrice: the price carries the time it was fetched.
FetchPrice(r) ==
  /\ req[r].phase = "price"
  /\ \/ req' = [req EXCEPT ![r].phase = "index", ![r].fresh = TRUE] /\ UNCHANGED faults
     \/ Refuse(r) /\ Mishap
  /\ UNCHANGED <<chain, limits, tripped>>

\* totalLoansCreated is the index of the loan to be; the price authority signs.
CoSign(r) ==
  /\ req[r].phase = "index"
  /\ \/ req' = [req EXCEPT ![r].phase = "prepared", ![r].index = Len(loans)] /\ UNCHANGED faults
     \/ Refuse(r) /\ Mishap
  /\ UNCHANGED <<chain, limits, tripped>>

\* PRICE_VALIDITY_SECONDS pass.
PriceAges(r) ==
  /\ req[r].fresh
  /\ req' = [req EXCEPT ![r].fresh = FALSE]
  /\ UNCHANGED <<chain, limits, tripped, faults>>

\* The browser looks at the expiry before it asks the borrower to sign, who may
\* take any time over it, or refuse.
SignAndSend(r) ==
  /\ req[r].phase = "prepared"
  /\ \/ req[r].fresh /\ Advance(r, "sent")
     \/ Refuse(r)
  /\ UNCHANGED <<chain, limits, tripped, faults>>

\* The program: the price is at most 30 s old and the seeds of the loan are
\* those of the next index.  Otherwise, or if it expires on its way, it is lost.
Land(r) ==
  /\ req[r].phase = "sent"
  /\ IF req[r].fresh /\ req[r].index = Len(loans) /\ Len(loans) < MaxLoans
       THEN loans' = Append(loans, req[r].wallet) ELSE UNCHANGED loans
  /\ Refuse(r)
  /\ UNCHANGED <<liquidations, limits, tripped, faults>>

-----------------------------------------------------------------------------
(* trackCreatedLoan: createLoan calls it, borrow.tsx calls it once more, and *)
(* the loans page calls it for every loan it finds on chain.                *)

\* The row will be of the borrower the caller names: the loan's, or, when the
\* first call has failed and borrow.tsx calls once more, the wallet connected by
\* then.  Nobody compares the two.
BeginTrack(t, i, w) ==
  /\ trk[t].phase = "idle" /\ i \notin Tracked
  /\ \/ w = loans[i] /\ UNCHANGED faults
     \/ w # loans[i] /\ Mishap
  /\ trk' = [trk EXCEPT ![t] = [phase |-> "creating", wallet |-> w, index |-> i]]
  /\ UNCHANGED <<chain, rows, rate, expiring, forgot, timeless, tripped, req>>

\* Fault: a row that is there already is taken for success.
CreateOrFind(t) ==
  /\ trk[t].phase = "creating"
  /\ rows' = IF trk[t].index \in Tracked THEN rows
             ELSE [rows EXCEPT ![trk[t].wallet] = @ \cup {trk[t].index}]
  /\ trk' = [trk EXCEPT ![t].phase = "counting"]
  /\ UNCHANGED <<chain, rate, expiring, forgot, timeless, tripped, req, faults>>

\* The id is unique: of two calls the second throws.  An error between the row
\* and recordSuccessfulLoan loses the count.
Create(t) ==
  LET i == trk[t].index
      w == trk[t].wallet
  IN
  /\ trk[t].phase = "creating"
  /\ IF i \in Tracked
       THEN trk' = [trk EXCEPT ![t] = NoTrack] /\ UNCHANGED <<rows, forgot, faults>>
       ELSE /\ rows' = [rows EXCEPT ![w] = @ \cup {i}]
            /\ \/ trk' = [trk EXCEPT ![t].phase = "counting"] /\ UNCHANGED <<forgot, faults>>
               \/ /\ Mishap
                  /\ trk' = [trk EXCEPT ![t] = NoTrack]
                  /\ forgot' = [forgot EXCEPT ![w] = @ + 1]
  /\ UNCHANGED <<chain, rate, expiring, timeless, tripped, req>>

\* Fault: the limit is of the wallet the loan was made to, the row of another.
CountBorrower(t) ==
  LET w == loans[trk[t].index] IN
  /\ trk[t].phase = "counting"
  /\ rate' = [rate EXCEPT ![w] = @ + 1]
  /\ trk' = [trk EXCEPT ![t] = IF rate'[w] = 1 THEN [@ EXCEPT !.phase = "expiring"] ELSE NoTrack]
  /\ UNCHANGED <<chain, rows, expiring, forgot, timeless, tripped, req, faults>>

\* recordSuccessfulLoan: INCR.
Count(t) ==
  LET w == trk[t].wallet IN
  /\ trk[t].phase = "counting"
  /\ rate' = [rate EXCEPT ![w] = @ + 1]
  /\ trk' = [trk EXCEPT ![t] = IF rate'[w] = 1 THEN [@ EXCEPT !.phase = "expiring"] ELSE NoTrack]
  /\ UNCHANGED <<chain, rows, expiring, forgot, timeless, tripped, req, faults>>

\* Fault: whether it was the first is asked of the key, not of INCR's answer.
ExpireIfAlone(t) ==
  LET w == trk[t].wallet IN
  /\ trk[t].phase = "expiring"
  /\ expiring' = IF rate[w] = 1 THEN expiring \cup {w} ELSE expiring
  /\ trk' = [trk EXCEPT ![t] = NoTrack]
  /\ UNCHANGED <<chain, rows, rate, forgot, timeless, tripped, req, faults>>

\* Then EXPIRE, for the first of the hour; without a key it does nothing.
Expire(t) ==
  LET w == trk[t].wallet IN
  /\ trk[t].phase = "expiring"
  /\ \/ /\ expiring' = IF rate[w] > 0 THEN expiring \cup {w} ELSE expiring
        /\ UNCHANGED <<timeless, faults>>
     \/ Mishap /\ timeless' = timeless \cup {w} /\ UNCHANGED expiring
  /\ trk' = [trk EXCEPT ![t] = NoTrack]
  /\ UNCHANGED <<chain, rows, rate, forgot, tripped, req>>

DropKey(w) ==
  /\ rate' = [rate EXCEPT ![w] = 0]
  /\ expiring' = expiring \ {w} /\ timeless' = timeless \ {w}
  /\ forgot' = [forgot EXCEPT ![w] = @ + rate[w]]
  /\ UNCHANGED <<chain, rows, trk, tripped, req, faults>>

HourEnds(w) == w \in expiring /\ DropKey(w)

\* DELETE /api/admin/wallet-limit
ResetWallet(w) == rate[w] > 0 /\ DropKey(w)

-----------------------------------------------------------------------------
(* The breaker's inputs, the admin, and the process.                        *)

Liquidation ==
  /\ liquidations < LIQUIDATION_COUNT_THRESHOLD_1H
  /\ liquidations' = liquidations + 1
  /\ UNCHANGED <<loans, limits, tripped, req, faults>>

LiquidationAges ==
  /\ liquidations > 0
  /\ liquidations' = liquidations - 1
  /\ UNCHANGED <<loans, limits, tripped, req, faults>>

\* resetCircuitBreaker; the next request trips it again if nothing has aged.
ResetBreaker ==
  /\ tripped /\ tripped' = FALSE
  /\ UNCHANGED <<chain, limits, req, faults>>

\* The flag is forgotten, the server's handlers die; what the browser holds and
\* what redis and the database have is as it was.
Restart ==
  LET dying == {t \in Tracker : trk[t].phase # "idle"} IN
  /\ Mishap
  /\ tripped' = FALSE
  /\ req' = [r \in Request |-> IF req[r].phase \in {"prepared", "sent"} THEN req[r] ELSE NoRequest]
  /\ trk' = [t \in Tracker |-> NoTrack]
  /\ forgot' = [w \in Wallet |->
       forgot[w] + Cardinality({t \in dying : trk[t].phase = "counting" /\ trk[t].wallet = w})]
  /\ timeless' = timeless \cup {trk[t].wallet : t \in {u \in dying : trk[u].phase = "expiring"}}
  /\ UNCHANGED <<chain, rows, rate, expiring>>

RequestStep(r) ==
  Metrics(r) \/ CheckWallet(r) \/ FetchPrice(r) \/ CoSign(r) \/ SignAndSend(r) \/ Land(r)

Next ==
  \/ \E r \in Request : (\E w \in Borrower : Ask(r, w)) \/ RequestStep(r) \/ PriceAges(r)
  \/ \E t \in Tracker :
       (\E i \in DOMAIN loans, w \in Wallet : BeginTrack(t, i, w)) \/ Create(t) \/ Count(t) \/ Expire(t)
  \/ \E w \in Wallet : HourEnds(w) \/ ResetWallet(w)
  \/ Liquidation \/ LiquidationAges \/ ResetBreaker \/ Restart

Spec == Init /\ [][Next]_vars

\* A handler's calls are answered, and an hour ends; nobody has to ask, to sign,
\* to liquidate or to reset anything.
LiveSpec ==
  /\ Spec
  /\ \A t \in Tracker : WF_vars(Count(t) \/ Expire(t))
  /\ \A w \in Wallet : WF_vars(HourEnds(w))
-----------------------------------------------------------------------------
(* Properties.                                                              *)

\* Every row of a wallet is counted against it once, whoever tracks the loan and
\* however the calls overlap (loan.service.ts:799-963): a wallet's rows are as many
\* as counted, about to be counted, and forgotten by the end of an hour, a reset or
\* a failure, and no loan has two rows, of whatever wallets.  A wallet is never
\* refused for more loans than the database says it has.
CountsAddUp ==
  /\ \A w \in Wallet :
       Cardinality(rows[w]) =
         rate[w] + forgot[w] + Cardinality({t \in Tracker : trk[t].phase = "counting" /\ trk[t].wallet = w})
  /\ \A w, v \in Wallet : w # v => rows[w] \cap rows[v] = {}

\* A limited wallet can ask again after the hour, unless INCR was done and EXPIRE
\* was not (wallet-rate-limit.service.ts:155-157); then the key stays for good.
LimitIsLifted ==
  \A w \in Wallet : rate[w] >= MAX_LOANS_PER_HOUR ~> (rate[w] < MAX_LOANS_PER_HOUR \/ w \in timeless)

\* While the breaker is tripped no request gets past it, those included that
\* found it closed and were waiting for the query when another tripped it
\* (circuit-breaker.service.ts:194-200).
TrippedAdmitsNobody ==
  [][\A r \in Request : tripped' /\ req[r].phase = "metrics" => req'[r].phase # "limit"]_vars
=============================================================================
