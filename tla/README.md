# Memecoin lending: TLA+ models, checks and proofs

The system lends SOL from a treasury against memecoin collateral, on Solana. A
borrower locks tokens, gets lamports for 12 hours to 7 days, and repays with a
2% fee or is liquidated. A quarter of the fees goes to stakers of a governance
token, who are paid once per epoch. The on-chain program
(`src/programs/memecoin-lending`) keeps the money; a server
(`src/apps/server`) prices loans, keeps a database copy of the loan book, runs
liquidations, claims fees and pays stakers; a web application
(`src/apps/web`) builds the borrower's transactions; scripts (`src/scripts`)
deploy and operate it.

Paths below are relative to the repository; `P` is
`src/programs/memecoin-lending/src`, `S` is `src/apps/server/src`, `W` is
`src/apps/web/src`.

## 1. Inventory

| component | state it keeps | operations | what makes it correct |
|---|---|---|---|
| Lending program, `P/instructions/*.rs` | `ProtocolState` (pause flag, four counters), `TokenConfig` per mint, `Loan` and vault per loan, treasury PDA | whitelist, update, blacklist, create, repay, liquidate, fund, withdraw, pause, emergency drain | counters equal the loan book; collateral is where the loan's status says; no lamport lost; a solvent borrower can repay; a due loan is closed |
| Loan arithmetic, `P/utils.rs`, `src/packages/sdk/src/utils.ts` | none | LTV by duration, loan amount, liquidation price, fee splits | follows the documented formula; loans are overcollateralised; what the borrower is shown is what the program lends |
| Staking program, `P/instructions/staking/*.rs` | `StakingPool`, `UserStake` per staker, two vaults | stake, unstake, deposit, advance, distribute, and six of the authority's | eligible stake is exact; an epoch pays at most its rewards; a staker is paid once, for whole epochs |
| Admin key, `P/instructions/admin.rs` | pending admin, timestamp | initiate, accept, cancel | 48 hours of notice always pass |
| Distribution crank, `S/services/distribution-crank.service.ts` | the tick in progress, rate limits in memory | tick, advance, distribute in batches | every closed epoch is paid out |
| Loan service and database, `S/services/loan.service.ts`, `S/api/loans.ts` | a row per loan, a row per recorded liquidation | track, confirm, sync, repay, liquidate | the row of a closed loan says what happened on chain, or what was reported of it; a liquidation is recorded once |
| Liquidation, `S/jobs/liquidation.job.ts`, `S/utils/redlock.ts`, `S/services/fast-price-monitor.ts` | a lock per loan in redis, thresholds in memory | scan, lock, trigger, liquidate with retries | a due loan is closed; an active loan is watched, unless its tracking broke off |
| Loan desk, `S/services/loan-prepare`, `circuit-breaker`, `wallet-rate-limit`, `liquidation-tracker` | the breaker in memory, a counter per wallet in redis | prepare and co-sign, trip and reset, count | nobody passes a tripped breaker; a wallet is counted for the rows that name it, and refused for an hour |
| Price monitor, `S/services/fast-price-monitor.ts`, `jupiter-client.ts` | source in use, failure counts, rotation of keys | poll, fail over, rest a key, restart | prices keep coming while DexScreener has the token and no answer of Jupiter leaves it out |
| Fee claimer, `S/services/fee-claimer.service.ts` and two scripts | none but what is in the three accounts on the way | collect, transfer, distribute | no fee is stuck on its way while new ones come |
| Token verification, `S/services/token-verification.service.ts` | a cache, a lock per token | verify step by step, whitelist on chain | valid means whitelisted; a cached answer does not outlive its cause |
| Whitelist and reviews, `S/services/manual-whitelist`, `verification-request` | tickets and entries in the database, a limit in memory | ask, review, expire, list | an approval lists its token, or meets an entry that was disabled |
| HTTP rate limits, `S/services/enhanced-rate-limit.service.ts`, middleware | counters, violations, bans in redis | count, ban, lift | limits hold under overlap; whom a route's last limiter answers for is not served while banned |
| Websocket, `S/websocket/index.ts` | registries of connections, subscriptions | connect, subscribe, warn, close | registries hold exactly the live connections |
| Background jobs, `S/jobs` | repeatable jobs in redis queues | every process registers its own and works them off | a job that is registered keeps being run |
| Prices, `S/services/price.service.ts`, `src/packages/sdk/src/price.ts` | a cache in the server, one in each SDK client | ask, fall back, store | an answer is no older than the caches allow |
| Treasury monitor, `S/services/treasury-monitor`, `security-monitor` | last balances, recent withdrawals, event types alerted | check, compare, alert | an account that fell below its threshold is alerted |
| Liquidator health, `S/services/liquidator-metrics.service.ts` | a record per instance in redis | runs, heartbeat, health page | failures in a row reach the threshold however the record is rewritten; then the instance is shown unhealthy and was alerted about |
| SDK, `src/packages/sdk/src` | none | read accounts, send a transaction, answer | what a call answers was so while it ran |
| Error messages, `W/lib/error-parser.ts` | the page and its error | parse, tell | a failure is told as what it is |
| Staking page, `W/routes/staking.tsx`, `W/lib` | answers per wallet, the transactions under way | show, stake, unstake | a position told was the wallet's |
| Loan pages, `W/routes`, `W/hooks/useOnChainLoansSolid.ts` | lists per wallet, one synchronisation | borrow, see, sync, repay | a loan shown closed or repaid is; none of another wallet |
| Borrow page, `W/routes/borrow.tsx`, `W/hooks` | what is selected, four answers about it, the loan asked for | select, verify, look up, estimate, borrow, retry | a loan is asked for on a verified token only |
| Deployment scripts, `src/scripts` | the program id in five places, a record of what is initialised | deploy, initialise, fix, close | a run in which nothing fails does all it was asked for |
| Exposure, program and LP monitors, notifications, middleware, admin page, other scripts | | | see *Not modelled* |

How they interact. The program is the shared state: every other part submits
transactions to it and reads its accounts. A transaction is atomic, so inside
the program the hard part is not a race within an instruction but the order of
instructions from borrowers, the liquidator, the admin and whoever runs the
permissionless staking instructions. Lending and staking meet in one account,
the reward vault: `repay_loan` sends lamports to it. The server is one thread
per process: a handler runs alone up to its next `await`, and then every other
handler, job and timer may run. So its hard behaviours are what one handler
reads before an await and uses after it, an answer that is lost, a retry that
finds its work done, a lock that expires, and a process that ends in between.
The database and redis outlive the process; thresholds, the breaker, the
verification cache, registries and locks on whitelisting do not. The breaker
reads the liquidations that the loan service records; the price monitor
triggers the loan service, which changes the monitor's thresholds; the borrow
page reads what token verification answers. `PROJECT.json` lists each hazard at
its line with the properties about it.

## 2. Modules

| module | models | notes |
|---|---|---|
| `LoanMath` | `P/utils.rs`, the fee splits | operators only, truncating division |
| `LoanQuotes` | quotes compared with the documented formula and with the SDK's | one state per quote; a step asks for a longer loan |
| `Lending` | the lending instructions | one action per instruction |
| `LoanLifecycle` | nothing: the abstract specification | `Lending` implements it |
| `Staking` | the staking instructions | one action per instruction |
| `AdminTransfer` | the three instructions of the admin transfer | |
| `DistributionCrank` | a tick of the crank, composed with `Staking` (which it extends) | one action per call it awaits |
| `LoanKeeper` | rows of the loan book, the liquidation job with its lock, the price monitor's trigger, and what of the chain and the browser they meet | one action per call awaited; two servers |
| `LoanDesk` | a loan from the request to the count of its wallet | |
| `FeeClaimer` | creator fees from PumpFun's vault to the protocol | walks of the timer, the admin and two scripts overlap |
| `PriceFeed` | polls of the price monitor over the Jupiter client's keys | polls overlap |
| `TokenVerification` | `verifyToken` and automatic whitelisting | |
| `TokenReview` | verification requests, reviews, the manual whitelist | |
| `RateLimits` | the limits of HTTP requests | a failing redis lets requests through |
| `LiveUpdates` | the websocket server | |
| `TokenForm` | the borrow page and its lookups | |
| `Deployment` | `deploy-full.ts` and the scripts around it | may stop at every step |
| `JobQueues` | the set-up of the repeatable jobs and their workers | processes start, fail and end |
| `PriceDesk` | the price service behind its routes, the SDK's price client behind them | a price is its age |
| `TreasuryWatch` | checks of the treasury monitor, and what makes an event an alert | checks overlap |
| `LiquidatorHealth` | the record that runs and heartbeat rewrite | |
| `SdkCalls` | calls of the SDK client | between two reads chain and pool may change |
| `ErrorMessages` | `parseError` and the repay page before it | one state per failure and page |
| `StakingPage` | the staking page with its queries and transactions | |
| `LoanPages` | `borrow.tsx` after the signature, `loans.tsx`, `repay/[id].tsx`, the synchronisation | |
| `Services` | `RateLimits`, `LiveUpdates`, `TokenReview`, `Deployment`, `AdminTransfer` side by side | they share nothing; a behaviour is one of them |
| `Borrowing` | `TokenVerification`, `LoanDesk` side by side | as `Services` |
| `Background` | `FeeClaimer`, `JobQueues`, `PriceFeed` side by side | as `Services` |
| `Shown` | `PriceDesk`, `TreasuryWatch`, `LiquidatorHealth`, `ErrorMessages`, `SdkCalls`, `StakingPage`, `LoanPages` side by side | as `Services`; they share variables, named by number |
| `ArithmeticProofs`, `LoanQuotesProofs`, `LendingProofs`, `StakingProofs`, `ServicesProofs`, `BorrowingProofs`, `ShownProofs`, `LoanKeeperProofs` | | proofs |
| `MCLending`, `MCStaking`, `MCDistributionCrank`, `MCLoanKeeper`, `MCBorrowing`, `MCBackground`, `MCServices`, `MCShown` | | values of the constants, symmetry |

**Correspondence.** In the modules about the program a variable has the name of the
account field or the account it stands for; an action has the name of the
instruction. The conjuncts above the first primed variable are the
instruction's account constraints, `require!`s and checked subtractions; one
that fails aborts the transaction, which in the model is the action not being
enabled. An `audit` record is a history variable: it holds what the accounts
no longer say (what was drained, who has held stake since when), is only read
by properties, and guards nothing but the bounds.

In the modules about the server a handler is a record with a `phase`, what it
awaits; an action is what runs from one await to the next, with every write in
it. A failing call is an alternative of the same action that spends one of the
bounded mishaps (`Mishap`). Variables marked *history* name what the
code is known to lose (`excused`, `misled`, `unwatched`, `forgot`, `timeless`, `unsynced`,
`unlisted`, `withdrawn`, `cause`), so that a property can say that nothing else is lost.

**The crank.** `crank[c].phase` says what ticker `c` awaits: `advancing` the
answer to `advance_epoch`, `checking` its own limits on resuming, `reading` the
stakers, `paying` the simulation of a batch, `sending` its confirmation. Between two
phases anything else may happen: stakers, deposits, another caller's
`advance_epoch` or `distribute_rewards`, a second tick, a restart. A lost call either
did nothing or did its work without an answer. One that lands after it was
given up is another caller's. The history `cause` names the stakers the code
is known to leave unpaid for the epoch (given up, stopped by a limit,
answered without a payment). The clock of the server is the clock of the chain.

**The loan keeper.** The chain has the truth about a loan, `db` follows it. A
liquidation goes through `locking` (only in the job), `sending` (up to
`MAX_ATTEMPTS` times), `closing` (the row) and `cleaning` (the threshold and
the record of the liquidation). The job takes a lock first; the alert and the
request do not. A transaction whose answer is lost stays in `adrift` and may
still land. Who reports a repayment is believed: a row may say repaid of a loan
that is not (`misled`), and a loan whose tracking threw between the row and the
threshold goes without one until a monitor starts again (`unwatched`). `TokenForm`, `LoanDesk` and `LoanKeeper` each take the part of the
browser that they meet.

**What is shown.** `PriceDesk`, `SdkCalls`, `StakingPage` and `LoanPages` model who reads before what
changes: a request holds what it has read, everything else may happen before it answers, and a
history says what was so since it began (`window`, `fresh`), or which rows the code is known to
have misnamed (`excused`). `TreasuryWatch` keeps, beside the record, what was alerted (`told`), `LiquidatorHealth` the failed runs
in a row (`streak`), those that a heartbeat's older record took off or put back (`lost`, `revived`) and the
age of the last alert (`sent`), so that a property can relate what is shown to what happened. `ErrorMessages` takes every
failure that the program, Anchor, the wallet and the server can give, as the phrases `parseError`
looks for, and compares what is told with what failed.

**Abstractions.** A loan is its index (`total_loans_created` is in its PDA).
Prices are inputs from a small set, or are fresh or old; parsing pools and checking the
price authority's signature are left out. `pool_type` is Pumpfun, which may not be lent
against or liquidated, or any of the other three. `reentrancy_guard` is false
between transactions and is left out. A token account closed at
liquidation is a balance of zero. Times to live in redis are actions that may happen at any
time once the key is there; a minute or an hour that ends is an action.
Messages, logs, alerts and metrics are left out where nothing reads them.

**Where the model follows the runtime, not only the source.** `emergency_withdraw`
debits an account that the System program owns; Solana refuses that, so the
only successful call is the early return. An account may not be left between zero and
the rent-exempt minimum (`RentExempt`). `liquidate` asks for accounts that
`create_loan` did not make: the constant `VaultConstraintsHold` is FALSE for
the program as it is and TRUE to study the handler behind that check; every
run but `vault_mismatch` uses TRUE, and so does `LoanKeeper`, where a
liquidation that the program refuses for its accounts would leave nothing to race.
An `'error'` event without a listener ends a Node process: that is how ten
failed polls end the server, which PM2 starts again (`src/ecosystem.config.cjs`,
`autorestart`).

**Fault operators.** A definition whose comment says "Fault" is a plausible bug,
used by the mutants of `PROJECT.json` to show that each property can fail; no
action uses it.

## 3. Runs

| run | question | bounds | states |
|---|---|---|---|
| `lending` | the books, collateral and lamports | 2 borrowers, 2 tokens, 3 loans, 2 fundings, clock to 2 | 217,040 |
| `lending_config` | running loans against config changes; the life cycle; due loans close (fair) | 1 borrower, 1 token, 2 loans, both LTVs, both pool types, blacklisting | 26,162 |
| `quotes` | arithmetic, program against documentation and SDK | durations 10 to 170 hours in hours, 6 LTVs, 3 amounts, 3 prices | 8,694 |
| `staking` | stake and rewards | 2 stakers, 2 amounts, 4 epochs, batches of 2 | 1,229,520 |
| `crank` | who is left out, and whether the crank catches up (fair) | the job's ticks, 2 stakers, batches of 1, 2 attempts, 2 mishaps, 4 epochs | 325,044 |
| `loan_keeper` | what the database says of a loan; that a due loan is closed (fair) | 1 loan, 2 servers with a job each, an alert, a request, 2 attempts, 1 mishap | 534,408 |
| `borrowing` | `TokenVerification` and `LoanDesk` (fair) | 1 token, 2 calls, 1 failure; 2 wallets of which one asks for loans, 2 requests, 2 trackers, 2 loans, limit 2, threshold of one liquidation, 1 mishap (a wallet misnamed is one) | 545,616 |
| `background` | `FeeClaimer`, `JobQueues` and `PriceFeed` (fair) | 2 walks, 1 script, 2 units of fees and a claim at one, 2 attempts, 1 mishap; 2 processes, the last 2 queues, 1 fault; 2 polls, 2 keys, switch after 1 failure, stop after 2 | 503,969 |
| `services` | `RateLimits`, `LiveUpdates`, `TokenReview`, `Deployment`, `AdminTransfer` | 2 requests of 1 IP and 1 wallet, or without one, on a route by IP and one by both, a ban for the first violation, of 1 length; 2 sockets, 2 users, 2 addresses; 2 tickets, 2 askers, 2 reviewers, 1 admin; 2 programs, 3 sets of options, 1 mishap; 3 keys, delay 2 of 8 | 1,795,902 |
| `shown` | `PriceDesk`, `TreasuryWatch`, `LiquidatorHealth`, `ErrorMessages`, `SdkCalls`, `StakingPage`, `LoanPages` | 2 mints, 2 requests, lives of 1 and 2, ages to 5; 2 checks, 3 and 2 balances, 1 fault; threshold 2, 3 failures, limits of 1 and 2, 2 mishaps; 7 calls of the SDK, 2 at once, 2 changes of the pool; 2 wallets, 2 presses, 2 epochs, 1 fault; 1 loan, 2 wallets, 2 switches, 1 fault | 1,773,124 |

`borrowing`, `background`, `services` and `shown` check components that share no state: the variable
`which` says which of them a behaviour is about, and the others stand still, so
that checking them together is checking each alone. Each was also checked
alone, at these bounds.

Three loans are the fewest in which one token's counter can be wrong because of
two others; two tokens and two borrowers are the fewest for one to be credited
with the other's. Two fundings and a withdrawal let the treasury shrink and grow
around a loan. The clock needs only to pass the due date, and the pool price
only to be below or above the threshold. In staking, a position must be opened in
one epoch, eligible in the second and paid in the third; the fourth lets a
rollover be paid. Batches of two include the same staker twice. In `crank`, batches of
one make two stakers two batches; two mishaps are enough to use up the attempts at one
transaction, or to lose an answer and then restart; the limits are small enough to stop a
tick when epochs are behind. Numbers are chosen so that every division has a remainder.

Every race in the server is between handlers of one loan, token, wallet, ticket or
minute, so one of each is enough where the code keeps no sum over them; two
handlers of a kind are the fewest that overlap. `loan_keeper` has four activities
on one loan, of which two hold or lose its lock; one mishap (a lost answer, a
failing update, a restart of either server) may come at any step. In `services` two
websocket addresses with a limit of one and two users let a registry be wrong in favour of
another; in `shown` two checks, requests, calls or wallets are the fewest of which one acts on what it
read before the other; ages beyond the sum of the two caches' lives and the waits cannot matter;
two programs and a mishap let a deployment follow one that broke off, with other
options; three keys and a clock of four delays let one announcement replace,
and be withdrawn after, another.

`CHECK_DEADLOCK FALSE` is used where bounds (clock, epochs, deposits, mishaps, tickets) or
the last duration end a behaviour, or where there may be nothing left to do.
The system itself never stops.

**Fairness.** `Lending`: time passes, and for each loan the liquidator's
transaction is weakly fair. The server's job queue runs the liquidation job every
5 seconds (`S/jobs/index.ts:104`), so a liquidation that stays possible is
tried. Fairness is asked only of liquidations that do not depend on the price
(`LiquidateDue`), of nobody else, and not of `resume_protocol`: the property
excepts a paused protocol, a drain, and a token moved to Pumpfun, each of which
stops the instruction. `DistributionCrank`: time passes and each ticker takes its next
step (the queue runs the tick every 30 seconds, `S/jobs/index.ts:128`), and the
number of lost calls is bounded; nobody else is fair, and `CrankCatchesUp`
excepts a paused pool. `LoanKeeper`: each job's next step, and the expiry of
locks, which redis does by itself; alerts, requests, borrowers and restarts are
not fair. `LoanDesk`: the two redis calls that count a loan are answered, and hours
end. `FeeClaimer`: the timer fires and a walk takes its next step; that new fees
come again and again is a premise of `FeesArrive`, not fairness, and one that is met while
fees sit still, since neither trading nor the timer is bounded. `TokenVerification`: a cached answer grows
old. `PriceFeed`: a poll's requests end, the interval fires, and PM2 restarts the process; that
DexScreener has the token for good is a premise, and an answer of Jupiter without the token is the exception that
`PricesKeepComing` states. `JobQueues`: PM2 starts a process that ended, and it takes the next step of its set-up
and its next job, and a repeated job comes back when its interval ends or its worker is gone (BullMQ);
crashes and failed calls are not fair.

### Disagreements

Two runs end in a counterexample: what the code does differs from what a doc
or comment of the repository says. Each checks one property and a finding in
`PROJECT.json` quotes the line.

- `vault_mismatch`: `create_loan` and `liquidate` disagree on the vault's
  address, so no loan is ever liquidated.
- `unverified_borrow`: a verification answered after another token was selected is
  shown as that token's. The button also needs an estimate, which no unverified token has; Retry, in
  the message of the loan that failed before, does not, and asks for a loan on it.

The properties of the passing runs state the exceptions explicitly
(`SolventBorrowerCanRepay` until a drain, `RewardsAddUp` unless a
stake grew or an epoch was forced, `MissedOnlyWithCause` unless the epoch read was
stale, `LiquidationIsBooked` unless an answer was lost, `ClosedAsOnChain` unless a repayment was wrongly reported,
`MonitoredWhileActive` unless the tracking broke off, `LimitIsLifted` unless a key lost its expiry, `ApprovalsAreListed`
unless the entry was disabled), so that the rest of the
promise is checked.

### Observations

What the code was seen to do while it was modelled, by reading or by a counterexample
to a stronger property, and what no run reports.

- *Program.* An emergency drain zeroes `total_sol_borrowed` with loans still Active
  (`P/instructions/admin.rs:335`); after the protocol is resumed the subtraction at `repay_loan.rs:224`
  underflows and the collateral stays where it is. The drain is meant as a last resort
  (`src/project_context.md:47`), so `SolventBorrowerCanRepay` is stated until one. The liquidation price of a fresh loan is above its entry price (a factor
  of 1000 is missing, `P/utils.rs:235`); the price monitor skips such loans
  (`fast-price-monitor.ts:437-442`). The slippage floor is a thousandth of the
  value (`liquidate.rs:223-229`). Stake added after an epoch closed is paid too, so that it
  can pay more than its rewards (`distribute_rewards.rs:161`). The stakers' share of
  loan fees is in no epoch (`repay_loan.rs:177`).
- *Crank.* It lists the stakers of the epoch it read before it advanced
  (`distribution-crank.service.ts:206`), not always the epoch it closed.
- *Loan keeper.* The lock lives 15 seconds and a liquidation minutes.
  `loan-transactions.ts:127-129` says the loan is always tracked, "even on timeout",
  and tracks it only when no error was thrown. A row lost at tracking is made again by the sync
  of the loans page only while the loan is active. `retry-liquidation` is another scan.
  `confirmRepayment` (`loan.service.ts:480-511`) takes the caller's word, and `syncLoanStatusFromChain` a node's "no such account",
  for a repayment; no job looks at such a row again. What throws between row and threshold (`:827-905`) leaves
  the loan unwatched by that process, because the next call returns at the row (`:804-808`).
- *Loan desk.* `actualRecovery` is the expected one (`loan.service.ts:719-720`), so
  recorded losses are always 0. `MAX_ACTIVE_LOANS` counts rows with status `Active`, which
  are spelt `active`; the exposure monitor and the daily summary do the same. A breaker that an
  operator resets is tripped again by the next request while the liquidations are
  within the hour. The estimate in the answer of `prepare` lacks the program's factor of 1000.
  A loan is counted against the wallet its row names, which nobody compares with the loan's (`loan.service.ts:963`); a key whose EXPIRE
  failed limits its wallet for good.
- *Price monitor.* Polls that overlap share the rotation, so that one can give up while a
  healthy key was never its own ("Try up to all endpoints", `jupiter-client.ts:254`). A start during
  an outage of Jupiter has a SOL price of 0. The failure count of a source given
  up is not reset; an older poll can overwrite a newer price; an answer of Jupiter
  without the token counts as a success, so that DexScreener is not asked (`fast-price-monitor.ts:239-240`); `markSuccess` ends
  another request's cooldown.
- *Fee claimer.* A retry after collecting finds the vault empty and reports success
  with nothing distributed; without new fees the money stays where it is. It passes on
  all the admin's wallet holds above 0.01 SOL. `update_wallets` makes
  `distribute_creator_fees` fail for good. `confirmTransaction`'s `value.err` is not looked at (`fee-claimer.service.ts:207`, `:230`).
- *Token verification.* With automatic whitelisting off every token of the launchpad is
  answered as one of an unsupported DEX. An RPC error caches a rejection for five minutes. The
  row of a token without a symbol is never written, because its default
  reads an undeclared variable (`token-verification.service.ts:657-658`).
- *Reviews.* Requests that overlap make two pending tickets; a ticket can be reviewed twice;
  an unknown tier approves without listing, and so does a token whose entry is
  disabled, because only enabled entries stop a request and any entry stops a listing; the routes that enable, disable or remove an
  entry always fail (`whitelist.ts:244`).
- *Rate limits.* The option `requests` of a limiter is never used; a shorter ban that is written
  later replaces a longer one. A banned wallet is served on the routes limited by IP only.
- *Websocket.* `UNSUBSCRIBE` of a user does not stop that user's loan events.
- *Borrow page.* A wrong answer can stay for good; an eligibility that failed to load
  passes; Retry of a failed loan asks for none of the button's conditions; the estimate shown can be the previous token's (`borrow.tsx:96`).
- *Background jobs.* `cleanup-metrics` runs the liquidation job; `closeJobs` is never
  called; a set-up that fails in `initializeJobs` is only logged. `checkPriceAlerts`, `updateAllPrices` and
  `storePriceHistory` are called by nobody.
- *Prices.* `/prices/status` and `/prices/test` are shadowed by `/:mint`; the keys `price:` in redis are
  written and never read; `getSolPrice` answers 150 when every source fails.
- *Monitors.* The limit on alerts is per event type, not per severity: a job that fails with a MEDIUM event silences
  the crank's HIGH one for five minutes. An alert that Telegram refuses counts as sent.
  The heartbeat writes back a whole record it read before a run was counted. Records of earlier processes
  count as healthy for 90 s and as unhealthy for the rest of the hour, in a status that half of the records decide.
- *Error messages.* `error.rs` numbers its variants from 6000 and Anchor adds 6000, so the codes
  are 12000 and up (the page's own test is for `12008`, `repay/[id].tsx:83`), while `error-parser.ts:14-15`
  starts at 6000: no code is ever found. A failed simulation that quotes an unknown code without a log calls
  itself without end. "500" anywhere is told as a failing server. The timer that clears a hidden error clears
  one shown in between.
- *SDK.* A pool's type is spelt `pumpswap` and compared with `PumpSwap`, so that prices always come from Jupiter, though
  `client.ts:341` says the pool comes first. `createLoan` and `updateTokenConfig` pass two of four
  arguments; `close*` have no instruction; `liquidate*` name a vault the program refuses;
  `isLoanLiquidatable` answers an object, so that `if (!isLiquidatable)` never refuses.
- *Loan pages.* The repay page computes a fee of 1% (`repay/[id].tsx:145-147`) where the
  program takes 2%, as `scripts/repay-loan.ts` does. `trackCreatedLoan` records any loan as active without looking at its status.
  A loan whose first tracking failed is tracked with the wallet and token selected by then (`borrow.tsx:142-146`). A switch
  of accounts without a disconnect keeps `hasSynced` (`loans.tsx:59`), and a failed read of the chain counts as the one
  synchronisation. A repayment whose row another call had closed is shown as failed.
- *Staking page.* A failure to read a position is answered as no position, one of the statistics as
  zeros. `getPendingRewards` asks for `<=` where the program asks for `<`.
- *Admin page.* It counts loans with status `Active`, which are spelt `active`;
  `/protocol/status` answers "not paused" when the chain cannot be read.
- *Deployment.* "Closed program" is printed whatever happened. A run with the old keypair
  never records a part that landed unrecorded (`fix-deployment-config` does). The list
  of whitelisted tokens is replaced, not extended. `close-current-deployment` recovers no
  funds. `pause-protocol.ts:73-75` says that repayment and liquidation work while
  paused.

## 4. Proofs

TLAPS proves the theorems below for every value of the constants that satisfies the
modules' assumptions (durations in order; sets of naturals; `NoOne` is no
borrower; `BaseLtvs` are at most 90%, as `whitelist_token` and `update_token_config` see to; stakers are finitely many and
`MaxEpoch` is not zero; a route's limiters are by IP but for its last; every run of `deploy-full` starts the script of the fee receiver; who asks for loans is a wallet, and trackers are finitely many; handlers of one kind are not of another; an account's
thresholds are in order; "nobody" is no call; wrapped SOL is one of the mints, and both caches keep a price for a while;
amounts staked are positive; a pool's balances and prices are whole numbers, its token balance not zero before it is emptied).

**Sums.** Total principal, collateral by token and total stake are sums over a set that
changes. The prover has no induction over data, so `ArithmeticProofs` derives what is needed from the
definition of the fold: the set of counterexamples of a statement about finite sets has a member of least
cardinality (`LeastSubset`); take an element away from it. From `SumExists` and `SumUnique`
follow the lemmas that the other modules cite: adding or removing one element, changing one value, bounds, monotonicity.
`StakingProofs` does the same for the loop of `distribute_rewards`, a fold over
the accounts of a batch: no batch is a shortest one whose run does not keep the invariant.


- `TypeCorrect`, `VaultsCorrect`, `CountersCorrect` (`Spec => []TypeOK`, ...) of `Lending`:
  one inductive invariant, the conjunction of `TypeOK`, `Slots` (exactly the
  indices below `total_loans_created` are in use, with collateral and mint of
  their own), `VaultHoldsCollateral`, `CountersMatchBook` and `UnlistedIsEmpty` (a token
  that is not listed has no Active loan). None is inductive alone: the counters need
  the slots, so that a new loan was not Active before; whitelisting resets a
  token's counters, which is right only because an unlisted token has none; the
  vault is empty after a liquidation only if what it held was the collateral.
- `BookCorrect` and `BalanceCorrect` (`BookAccountsForAll`, `BalanceSheet`): the exposure, collateral
  and lamports of the program are those of its loan book, through every instruction, drains and blacklisting included. Each action
  changes one loan, so each sum by one term.
- `RepayAlwaysPossible` (`SolventBorrowerCanRepay`): until a drain, no subtraction of `repay_loan` can fail,
  because what it subtracts is one term of a sum it is subtracted from.
- `TermsFixed` and `Refinement`: action properties from the same invariant.
  `Refinement` maps each step to `Open`, `Redeem`, `Seize` or a stutter of `LoanLifecycle`.
- `Overcollateralised`, `LongerLendsNoMore` of `LoanQuotes`: from lemmas on truncating division in
  `ArithmeticProofs` (monotonicity, bounds of a quotient, of `DurationAdjustedLtv`, of `Clamp`).
- `FormulaFollowed` and `EstimateClose` (`LtvFollowsFormula`, `EstimateMatchesProgram`): the error of
  two truncating divisions, bounded for every quote. The proof refused the bound the runs had first: with other
  amounts than those checked, and TLC confirmed it, the two estimates differ by up to two basis points of the
  value, not one. The property now says so.
- `StakingTypes`, `StakeCorrect`, `RewardsCorrect`, `PaidCorrectly` of `Staking` (`TypeOK`,
  `StakeAddsUp`, `RewardsAddUp`, `PaidOnceForWholeEpoch`). That an epoch pays no more than its rewards needs the invariant
  `SharesLeft`: with E the eligible stake and R the rewards of the closed epoch, E times what is paid,
  plus R times the stake of those not yet paid, is at most R times E, unless someone added stake after the
  epoch closed or it was forced; each payment moves a staker from the second term to the first, and rounds
  down. `PaidOnceForWholeEpoch` needs `StartsInTime` and `HistoryKept`: a position's first
  epoch is never before the one its stake has stood through.
- `NobodyForgotten` (`MissedOnlyWithCause`) of `DistributionCrank`: the property is about one step; before every step whoever is owed is
  given up or pending (`Covered`). Between two epochs nobody comes to be owed (`StakesLater`: a position that starts is not); the list names every
  staker it should, the batches every member of the list (`EveryoneInABatch`), and a batch leaves a tick's work only
  when what it did not pay is recorded (`BatchBehind`).
- `OnlyAnnouncedTakeOver` (`TakeoverWasAnnounced`): whenever an admin is pending, the announcement of
  this very key, with the time that is in the account, still stands; `accept` can
  then only use an announcement that is old enough.
- `LimitsCorrect` (`LimitsHold`): the counter of a minute is at least what a limiter let pass. That
  nobody banned all along is served needs more (`FreeKnown`): a request knows of everybody who was free at any time since
  it came to its limiter, and at its last limiter each of those it answers for (the IP, and the wallet if the limiter is by wallet) is known as free or still on its list
  of questions.
- `RegistriesCorrect` (`RegistriesAgree`) and `ApprovalsCorrect` (`ApprovalsAreListed`): what each
  handler holds between two awaits is of a kind that its phase allows, so that a step
  of one leaves the others' part of the invariant alone.
- `FreshRunsComplete` (`FreshRunIsComplete`): step by step of a run in which nothing failed, a new id is in
  no record and unknown to the chain until its program is deployed (`EarlySteps`); from then on program and record
  have exactly the parts whose scripts were started and that the program accepts, but for what the running script has still to do
  (`LateSteps`).
- `CountsCorrect` (`CountsAddUp`): for each wallet the rows that name it are as many as its counter says, plus those forgotten, plus
  the calls between row and INCR; only the first of two calls for a loan gets past the row. `BreakerHolds`
  (`TrippedAdmitsNobody`) is an action property: whoever waited for the query looks at the flag again.
- `ValidCorrect` (`ValidIsOnChain`): a lock is held by the call whose transaction is under way, the row of a listed token follows its
  account, and a call's answer is about the token it asks for. The last was not so in the model as the runs had it: a call that began anew
  kept its last answer under the new token, which the runs, with one token, could not show. `Ask` now starts from an empty record.
- `PricesCorrect` (`PricesAreRecent`): a batch is no older than redis took for the prices of it that are stored (`InTime`), so that what
  is stored is no older than the whole batch takes; each cache adds the time in it, each call the time waited (`Fresh`, `GotFresh`).
- `WarningsCorrect` (`WarningsAreSent`): in `TreasuryWatch`, a check whose alert is under way has sent the one of the fall before it
  records it (`Fits`), and one that has none to send finds it excused; in `LiquidatorHealth`, the record counts the failed runs in a row, less those a
  heartbeat took off and plus those it put back (`RecordCounts`), and an alert asked for at a failure finds the last one no older than the two limits
  together (`LimitsHold`, `AlertHeard`).
- `TruthTold` (`TellsTheTruth`), of four components. `ErrorMessages`: only 6008 of the table is the loan already repaid. `SdkCalls`: while the
  liquidity stays, the window of a call spans the pool's price and those at which each vault was read (`PriceFits`), and
  a price made of two balances lies between the prices at the two (`BetweenPrices`: the quotient falls in its divisor and grows in
  its dividend); what would have a repayment refused is in its window (`RepayFits`). `StakingPage`: an
  answer is of a position that was (`Seen`), and what was asked for since a change was told of has the change
  (`Answers`). `LoanPages`: what a wallet's lists hold is its own (`HookGood`), and what a repayment has seen of the chain
  stays so (`Repays`).
- `DatabaseIsTruthful`, `LiquidationRecordedOnce`, `LiquidationsAreBooked` and
  `ActiveLoansAreWatched` of `LoanKeeper`: one inductive invariant. What makes the lock
  unnecessary for these is the chain: a closed loan stays as it is, so an activity that
  has seen it closed may write that whenever it gets to; and only one transaction can
  close a loan, so at most one activity, of all that overlap, goes on to record it
  (`OneSeizer`). A liquidation is covered by whoever is about to close the row, or by the history
  `excused`; a row that says repaid wrongly, and an activity about to write it, by `misled`. A monitor that restarts has loaded every row that is active,
  so that from then on none of them is `unwatched`.

Only model-checked, and why:

- liveness (`DueLoanCloses`, `CrankCatchesUp`, `DueLoanIsClosed`, `LimitIsLifted`, `FeesArrive`,
  `JobsKeepRunning`, `CacheFollowsWhitelist`, `PricesKeepComing`): fairness and ENABLED are beyond this prover.

Every other property of a passing run is stated by a theorem.

## 5. Not modelled

- *Pool readers and the Jupiter swap* (`P/utils.rs`, `P/swap`): the bytes of other programs' accounts
  and a call into another program. Their results are inputs of `Lending`.
- *Fee configuration* (`update_fees.rs`): fields that no instruction reads.
- *Building and decoding of transactions* (the rest of the SDK): formatting; a mistake in it
  shows as a refused transaction, which every model has.
- *Price history, conversions, pool discovery*: functions of one price or one request.
- *Monitors* (exposure, program, LP) and *notifications*, *summaries*, *users*: they
  read what others write and send messages; nothing reads what they remember.
  Overlapping checks send an alert twice or not at all, which no text promises otherwise.
- *Pending rewards and leaderboard of the staking API*: reads for display; the route that starts a tick is a second ticker of
  `DistributionCrank`.
- *Authentication, CSRF, sanitizing, the RPC proxy*: functions of one request.
- *The admin page and web components that only show*: rendering.
- *Operator scripts* (`mcl.ts`, `admin-cli.ts`, and one per instruction): each parses arguments and
  sends one transaction that `Lending` or `Staking` has. The test scripts are tests.
- *The old route that creates loans on the server* (`loan.service.ts:227-348`): it calls the SDK's
  builder with two of its four arguments and always fails. *Sync of all loans* writes nothing
  that `BeginTrack` and `BeginSync` do not.
- *Part of a modelled component*: `deploy-full.ts` step 13 (`update-protocol-fees`: fields no instruction reads); the health page's
  status over all records (the instance's own is modelled); in `RepaySucceeds` of `Lending` the runtime's rule on the rent of the
  reward vault, which may refuse a first small fee to an empty vault (`Staking` has it).
- *Infrastructure*: configuration and backups.

The map covers the code above, more than a quarter of the implementation. Most of the rest is
the list just given.
