------------------------------- MODULE Lending -------------------------------
(***************************************************************************)
(* The lending half of the on-chain program (programs/memecoin-lending):   *)
(* the protocol state, the token configurations, the loan accounts with    *)
(* their collateral vaults, and the lamports that move between treasury,   *)
(* borrowers and fee wallets.                                              *)
(*                                                                         *)
(* One action is one instruction.  A Solana transaction is atomic: an      *)
(* instruction that returns an error changes nothing, so every require!,   *)
(* account constraint and checked subtraction of a handler is a guard of   *)
(* its action.  Concurrency is the order in which transactions land.       *)
(* reentrancy_guard is false in every state between transactions (an       *)
(* aborted transaction restores it), so it is not a variable.              *)
(*                                                                         *)
(* A loan is named by its index: the loan PDA is derived from borrower,    *)
(* mint and total_loans_created, and the counter alone makes it unique.    *)
(***************************************************************************)
EXTENDS LoanMath, FiniteSets, FiniteSetsExt

CONSTANTS
  Token,                \* collateral mints
  Borrower,             \* wallets that borrow
  NoOne,                \* Pubkey::default() in an unused loan slot
  Terms,                \* what whitelist_token may be called with
  LtvChoices,           \* what update_token_config may set ltv_bps to
  BlacklistChoices,     \* BOOLEAN, or {FALSE} where blacklisting is not of interest
  CollateralAmounts,    \* collateral a borrower may offer
  Durations,            \* loan durations a borrower may ask for
  ApprovedPrices,       \* prices the price authority may co-sign
  PoolPrices,           \* prices the pool may show
  SwapProceeds,         \* lamports a Jupiter swap may return
  FundAmounts,          \* amounts fund_treasury may be called with
  WithdrawAmounts,      \* amounts withdraw_treasury may be called with
  InitialTokens,        \* balance of each mint in each borrower's wallet
  InitialSol,           \* lamports in each borrower's wallet
  MIN_COLLATERAL_VALUE_LAMPORTS,
  RENT_EXEMPT_MINIMUM,
  MAX_SINGLE_LOAN_BPS,
  MAX_TOKEN_EXPOSURE_BPS,
  VaultConstraintsHold, \* see Liquidate
  MaxLoans,             \* bound on total_loans_created
  MaxNow,               \* bound on the clock
  MaxFunded             \* bound on what fund_treasury may reach

PoolType == {"Raydium", "Pumpfun"}   \* "Raydium" stands for Orca and PumpSwap too
LoanStatus == {"None", "Active", "Repaid", "LiquidatedTime", "LiquidatedPrice"}
LoanId == 0 .. (MaxLoans - 1)

\* Bronze, Silver, and Gold or the protocol token (whitelist_token.rs:118-126).
TierLtv == {2500, 3500, 5000}

TermsRecord == [ltv_bps: TierLtv, pool_type: PoolType,
                min_loan_amount: Nat, max_loan_amount: Nat]

ASSUME LendingAssumption ==
  /\ MaxLoans \in Nat /\ MaxNow \in Nat /\ MaxFunded \in Nat
  /\ Terms \subseteq TermsRecord
  /\ LtvChoices \subseteq Nat /\ BlacklistChoices \subseteq BOOLEAN
  /\ CollateralAmounts \subseteq Nat /\ Durations \subseteq Nat
  /\ ApprovedPrices \subseteq Nat /\ PoolPrices \subseteq Nat
  /\ SwapProceeds \subseteq Nat
  /\ FundAmounts \subseteq Nat /\ WithdrawAmounts \subseteq Nat
  /\ InitialTokens \in Nat /\ InitialSol \in Nat
  /\ MIN_COLLATERAL_VALUE_LAMPORTS \in Nat /\ RENT_EXEMPT_MINIMUM \in Nat
  /\ MAX_SINGLE_LOAN_BPS \in Nat /\ MAX_TOKEN_EXPOSURE_BPS \in Nat
  /\ VaultConstraintsHold \in BOOLEAN
  /\ NoOne \notin Borrower

VARIABLES
  now,                  \* Clock::unix_timestamp
  paused,               \* ProtocolState.paused
  total_loans_created,
  total_sol_borrowed,
  total_fees_earned,
  active_loans_count,
  token_config,         \* TokenConfig PDAs
  loan,                 \* Loan PDAs
  vault,                \* collateral in the vault of each loan
  tokens,               \* borrowers' token accounts
  sol,                  \* borrowers' lamports
  treasury,             \* lamports of the treasury PDA
  reward_vault,         \* lamports of the staking reward vault PDA
  operations,           \* lamports of the operations wallet
  admin_sol,            \* lamports the admin has taken out
  audit                 \* history: what the counters no longer say

protocolVars == <<paused, total_loans_created, total_sol_borrowed,
                  total_fees_earned, active_loans_count>>
moneyVars == <<sol, treasury, reward_vault, operations, admin_sol>>
loanVars == <<loan, vault, tokens>>
vars == <<now, protocolVars, token_config, loanVars, moneyVars, audit>>

UnlistedToken ==
  [listed |-> FALSE, enabled |-> FALSE, blacklisted |-> FALSE,
   ltv_bps |-> 0, pool_type |-> "Raydium",
   min_loan_amount |-> 0, max_loan_amount |-> 0,
   active_loans_count |-> 0, total_volume |-> 0, total_active_borrowed |-> 0]

NoLoan ==
  [status |-> "None", borrower |-> NoOne, token_mint |-> NoOne,
   collateral_amount |-> 0, sol_borrowed |-> 0, entry_price |-> 0,
   liquidation_price |-> 0, due_at |-> 0]

-----------------------------------------------------------------------------
(* Views of the loan book that the invariants use.                          *)

LoansWith(status) == {l \in LoanId : loan[l].status = status}
ActiveLoans == LoansWith("Active")
LiquidatedLoans == LoansWith("LiquidatedTime") \cup LoansWith("LiquidatedPrice")
ActiveOn(t) == {l \in ActiveLoans : loan[l].token_mint = t}
Principal(S) == SumFunctionOnSet([l \in LoanId |-> loan[l].sol_borrowed], S)
Collateral(S) == SumFunctionOnSet([l \in LoanId |-> loan[l].collateral_amount], S)

-----------------------------------------------------------------------------
Init ==
  /\ now = 0
  /\ paused = FALSE
  /\ total_loans_created = 0
  /\ total_sol_borrowed = 0
  /\ total_fees_earned = 0
  /\ active_loans_count = 0
  /\ token_config = [t \in Token |-> UnlistedToken]
  /\ loan = [l \in LoanId |-> NoLoan]
  /\ vault = [l \in LoanId |-> 0]
  /\ tokens = [b \in Borrower |-> [t \in Token |-> InitialTokens]]
  /\ sol = [b \in Borrower |-> InitialSol]
  /\ treasury = 0
  /\ reward_vault = 0
  /\ operations = 0
  /\ admin_sol = 0
  /\ audit = [funded |-> 0, principal_erased |-> 0, fees_erased |-> 0,
              operations_proceeds |-> 0]

\* Time passes between transactions.
Tick ==
  /\ now < MaxNow
  /\ now' = now + 1
  /\ UNCHANGED <<protocolVars, token_config, loanVars, moneyVars, audit>>

-----------------------------------------------------------------------------
(* Administration of tokens.                                                *)

\* Fault: whitelisting with init_if_needed, over a configuration in use.
WhitelistableAgain(t) == ~paused

\* whitelist_token initialises the TokenConfig PDA, which fails when it exists.
Whitelistable(t) == ~paused /\ ~token_config[t].listed

WhitelistToken(t, terms) ==
  /\ Whitelistable(t)
  /\ terms.min_loan_amount > 0
  /\ terms.min_loan_amount < terms.max_loan_amount
  /\ token_config' = [token_config EXCEPT ![t] =
       [UnlistedToken EXCEPT
          !.listed = TRUE, !.enabled = TRUE,
          !.ltv_bps = terms.ltv_bps, !.pool_type = terms.pool_type,
          !.min_loan_amount = terms.min_loan_amount,
          !.max_loan_amount = terms.max_loan_amount]]
  /\ UNCHANGED <<now, protocolVars, loanVars, moneyVars, audit>>

\* update_token_config: an absent option is the current value chosen again.
Updated(config, enabled, ltv_bps, pool_type) ==
  [config EXCEPT !.enabled = enabled, !.ltv_bps = ltv_bps, !.pool_type = pool_type]

UpdateTokenConfig(t, enabled, ltv_bps, pool_type) ==
  /\ ~paused
  /\ token_config[t].listed
  /\ ltv_bps <= 9000
  /\ token_config' = [token_config EXCEPT ![t] = Updated(@, enabled, ltv_bps, pool_type)]
  /\ UNCHANGED <<now, protocolVars, loanVars, moneyVars, audit>>

\* blacklist_token and unblacklist_token, which a pause does not stop.
SetBlacklisted(t, blacklisted) ==
  /\ token_config[t].listed
  /\ token_config' = [token_config EXCEPT ![t].blacklisted = blacklisted]
  /\ UNCHANGED <<now, protocolVars, loanVars, moneyVars, audit>>

-----------------------------------------------------------------------------
(* Loans.                                                                   *)

\* The loan a borrower would get: amount and thresholds are functions of the
\* collateral, the co-signed price, the token's LTV and the duration.
QuotedLoan(b, t, collateral_amount, duration, price) ==
  LET ltv_bps == token_config[t].ltv_bps
      amount == LoanAmount(collateral_amount, price, DurationAdjustedLtv(ltv_bps, duration))
  IN  [status |-> "Active", borrower |-> b, token_mint |-> t,
       collateral_amount |-> collateral_amount,
       sol_borrowed |-> amount,
       entry_price |-> price,
       liquidation_price |-> LiquidationPrice(amount, collateral_amount, ltv_bps),
       due_at |-> now + duration]

\* Limits against the treasury balance before the loan (create_loan.rs:268-318).
WithinTreasuryLimits(t, amount) ==
  /\ amount <= treasury
  /\ amount <= MulDiv(treasury, MAX_SINGLE_LOAN_BPS, BPS_DIVISOR)
  /\ token_config[t].total_active_borrowed + amount
       <= MulDiv(treasury, MAX_TOKEN_EXPOSURE_BPS, BPS_DIVISOR)
  /\ amount >= MIN_COLLATERAL_VALUE_LAMPORTS

\* A token's counters when a loan is made against it, and when it is closed.
Lent(config, principal) ==
  [config EXCEPT !.active_loans_count = @ + 1,
                 !.total_volume = @ + principal,
                 !.total_active_borrowed = @ + principal]

\* Fault: closing a loan forgets the token's exposure.
SettledCountOnly(config, principal) ==
  [config EXCEPT !.active_loans_count = @ - 1]

Settled(config, principal) ==
  [config EXCEPT !.active_loans_count = @ - 1,
                 !.total_active_borrowed = @ - principal]

CreateLoan(b, t, collateral_amount, duration, approved_price, pool_price) ==
  LET l == total_loans_created
      new == QuotedLoan(b, t, collateral_amount, duration, approved_price)
  IN
  /\ ~paused
  /\ l < MaxLoans
  /\ token_config[t].listed /\ token_config[t].enabled
  /\ ~token_config[t].blacklisted
  /\ collateral_amount > 0
  /\ tokens[b][t] >= collateral_amount
  /\ MIN_LOAN_DURATION <= duration /\ duration <= MAX_LOAN_DURATION
  /\ token_config[t].pool_type # "Pumpfun"
  /\ approved_price > 0 /\ pool_price > 0
  /\ PriceDeviation(approved_price, pool_price) <= MAX_APPROVED_PRICE_DEVIATION_BPS
  /\ CollateralValue(collateral_amount, approved_price) >= MIN_COLLATERAL_VALUE_LAMPORTS
  /\ LiquidationDivisor(collateral_amount, token_config[t].ltv_bps) > 0
  /\ token_config[t].min_loan_amount <= new.sol_borrowed
  /\ new.sol_borrowed <= token_config[t].max_loan_amount
  /\ WithinTreasuryLimits(t, new.sol_borrowed)
  /\ loan' = [loan EXCEPT ![l] = new]
  /\ tokens' = [tokens EXCEPT ![b][t] = @ - collateral_amount]
  /\ vault' = [vault EXCEPT ![l] = collateral_amount]
  /\ treasury' = treasury - new.sol_borrowed
  /\ sol' = [sol EXCEPT ![b] = @ + new.sol_borrowed]
  /\ total_loans_created' = total_loans_created + 1
  /\ total_sol_borrowed' = total_sol_borrowed + new.sol_borrowed
  /\ active_loans_count' = active_loans_count + 1
  /\ token_config' = [token_config EXCEPT ![t] = Lent(@, new.sol_borrowed)]
  /\ UNCHANGED <<now, paused, total_fees_earned, reward_vault, operations,
                 admin_sol, audit>>

\* Faults: unchecked subtractions, and a check that is off by one.
LeavesUnchecked(l) == TRUE
LeavesAboveZero(l) == total_sol_borrowed > loan[l].sol_borrowed

\* The checked subtractions with which a loan leaves the books: each returns
\* MathUnderflow, and the transaction fails, when its counter is too small.
LeavesTheBooks(l) ==
  LET t == loan[l].token_mint
  IN  /\ total_sol_borrowed >= loan[l].sol_borrowed
      /\ active_loans_count >= 1
      /\ token_config[t].active_loans_count >= 1
      /\ token_config[t].total_active_borrowed >= loan[l].sol_borrowed

RemoveFromBooks(l) ==
  /\ LeavesTheBooks(l)
  /\ total_sol_borrowed' = total_sol_borrowed - loan[l].sol_borrowed
  /\ active_loans_count' = active_loans_count - 1
  /\ token_config' = [token_config EXCEPT
       ![loan[l].token_mint] = Settled(@, loan[l].sol_borrowed)]

\* Faults: the vault keeps what the borrower is given; the collateral goes back
\* less the loan fee.
CollateralLeftBehind(l) ==
  /\ vault' = vault
  /\ tokens' = [tokens EXCEPT
       ![loan[l].borrower][loan[l].token_mint] = @ + loan[l].collateral_amount]

CollateralLessFee(l) ==
  LET amount == loan[l].collateral_amount
  IN  /\ vault' = [vault EXCEPT ![l] = @ - amount]
      /\ tokens' = [tokens EXCEPT
           ![loan[l].borrower][loan[l].token_mint] = @ + amount - ProtocolFee(amount)]

\* transfer_checked of the whole collateral from the loan's vault.
ReturnCollateral(l) ==
  LET amount == loan[l].collateral_amount
  IN  /\ vault[l] >= amount
      /\ vault' = [vault EXCEPT ![l] = @ - amount]
      /\ tokens' = [tokens EXCEPT ![loan[l].borrower][loan[l].token_mint] = @ + amount]

\* The lamports that leave the borrower's wallet in repay_loan's four transfers.
Paid(principal) ==
  LET fee == ProtocolFee(principal)
  IN  principal + TreasuryFeeWithDust(fee) + StakingFee(fee) + OperationsFee(fee)

\* repay_loan, signed by the borrower; no check of due_at.
RepayLoan(l) ==
  LET b == loan[l].borrower
      principal == loan[l].sol_borrowed
      fee == ProtocolFee(principal)
  IN
  /\ ~paused
  /\ loan[l].status = "Active"
  /\ sol[b] >= TotalOwed(principal)
  /\ sol[b] >= Paid(principal)
  /\ loan' = [loan EXCEPT ![l].status = "Repaid"]
  /\ sol' = [sol EXCEPT ![b] = @ - Paid(principal)]
  /\ treasury' = treasury + principal + TreasuryFeeWithDust(fee)
  /\ reward_vault' = reward_vault + StakingFee(fee)
  /\ operations' = operations + OperationsFee(fee)
  /\ ReturnCollateral(l)
  /\ RemoveFromBooks(l)
  /\ total_fees_earned' = total_fees_earned + fee
  /\ UNCHANGED <<now, paused, total_loans_created, admin_sol, audit>>

\* Fault: a due date that never comes.
NeverDue(l) == FALSE

LiquidatableByTime(l) == now > loan[l].due_at
LiquidatableByPrice(l, current_price) == current_price <= loan[l].liquidation_price

\* Fault: a loan that is closed may be liquidated again.
LiquidationOfAny(l, current_price) ==
  /\ ~paused
  /\ loan[l].status # "None"
  /\ current_price > 0
  /\ LiquidatableByTime(l) \/ LiquidatableByPrice(l, current_price)
  /\ token_config[loan[l].token_mint].pool_type # "Pumpfun"

LiquidationAllowed(l, current_price) ==
  /\ ~paused
  /\ loan[l].status = "Active"
  /\ current_price > 0
  /\ LiquidatableByTime(l) \/ LiquidatableByPrice(l, current_price)
  /\ token_config[loan[l].token_mint].pool_type # "Pumpfun"

(***************************************************************************)
(* liquidate, signed by the authorized liquidator.  The swap sells the     *)
(* whole vault (the vault is closed afterwards, which needs it empty) and  *)
(* returns sol_proceeds >= min_sol_output >= the least acceptable output.  *)
(*                                                                         *)
(* The accounts the instruction asks for are not the ones create_loan      *)
(* makes: it wants a system account at the PDA ["vault", loan] and that    *)
(* account's associated token account (liquidate.rs:62-76), where          *)
(* create_loan has initialised a token account at the PDA itself           *)
(* (create_loan.rs:64-74).  VaultConstraintsHold = FALSE is the program as *)
(* it is: account validation rejects every loan (and the runtime would     *)
(* refuse the debit of liquidate.rs:320, from an account that the System   *)
(* program owns).  TRUE sets both aside to study the handler.              *)
(***************************************************************************)
Liquidate(l, current_price, sol_proceeds) ==
  LET reason == IF LiquidatableByPrice(l, current_price)
                THEN "LiquidatedPrice" ELSE "LiquidatedTime"
  IN
  /\ VaultConstraintsHold
  /\ LiquidationAllowed(l, current_price)
  /\ sol_proceeds >= MinAcceptableOutput(loan[l].collateral_amount, current_price)
  /\ loan' = [loan EXCEPT ![l].status = reason]
  /\ vault' = [vault EXCEPT ![l] = 0]
  /\ treasury' = treasury + TreasuryShare(sol_proceeds)
  /\ operations' = operations + OperationsShare(sol_proceeds)
  /\ RemoveFromBooks(l)
  /\ total_fees_earned' = total_fees_earned + TreasuryShare(sol_proceeds)
  /\ audit' = [audit EXCEPT !.operations_proceeds = @ + OperationsShare(sol_proceeds)]
  /\ UNCHANGED <<now, paused, total_loans_created, tokens, sol, reward_vault,
                 admin_sol>>

-----------------------------------------------------------------------------
(* Treasury and protocol administration.                                    *)

FundTreasury(amount) ==
  /\ amount > 0
  /\ audit.funded + amount <= MaxFunded
  /\ treasury' = treasury + amount
  /\ audit' = [audit EXCEPT !.funded = @ + amount]
  /\ UNCHANGED <<now, protocolVars, token_config, loanVars, sol, reward_vault,
                 operations, admin_sol>>

\* TreasuryUtils::get_available_balance
AvailableBalance == SaturatingSub(treasury, total_sol_borrowed + RENT_EXEMPT_MINIMUM)

WithdrawTreasury(amount) ==
  /\ amount <= treasury
  /\ amount <= AvailableBalance
  /\ treasury' = treasury - amount
  /\ admin_sol' = admin_sol + amount
  /\ UNCHANGED <<now, protocolVars, token_config, loanVars, sol, reward_vault,
                 operations, audit>>

SetPaused(value) ==
  /\ paused' = value
  /\ UNCHANGED <<now, total_loans_created, total_sol_borrowed, total_fees_earned,
                 active_loans_count, token_config, loanVars, moneyVars, audit>>

\* emergency_drain: takes the treasury and zeroes two counters; loans, vaults
\* and the per-token counters stay as they are.
EmergencyDrain ==
  /\ paused' = TRUE
  /\ admin_sol' = admin_sol + treasury
  /\ treasury' = 0
  /\ total_sol_borrowed' = 0
  /\ total_fees_earned' = 0
  /\ audit' = [audit EXCEPT !.principal_erased = @ + total_sol_borrowed,
                            !.fees_erased = @ + total_fees_earned]
  /\ UNCHANGED <<now, total_loans_created, active_loans_count, token_config,
                 loanVars, sol, reward_vault, operations>>

-----------------------------------------------------------------------------
TokenAdmin ==
  \E t \in Token :
    \/ \E terms \in Terms : WhitelistToken(t, terms)
    \/ \E enabled \in BOOLEAN, ltv_bps \in LtvChoices, pool_type \in PoolType :
         UpdateTokenConfig(t, enabled, ltv_bps, pool_type)
    \/ \E blacklisted \in BlacklistChoices : SetBlacklisted(t, blacklisted)

Borrow ==
  \E b \in Borrower, t \in Token, c \in CollateralAmounts, d \in Durations,
     p \in ApprovedPrices, q \in PoolPrices : CreateLoan(b, t, c, d, p, q)

Repay == \E l \in LoanId : RepayLoan(l)

LiquidateLoan(l) ==
  \E q \in PoolPrices, s \in SwapProceeds : Liquidate(l, q, s)

ProtocolAdmin ==
  \/ \E amount \in FundAmounts : FundTreasury(amount)
  \/ \E amount \in WithdrawAmounts : WithdrawTreasury(amount)
  \/ \E value \in BOOLEAN : SetPaused(value)
  \/ EmergencyDrain

Next ==
  \/ Tick
  \/ TokenAdmin
  \/ Borrow
  \/ Repay
  \/ \E l \in LoanId : LiquidateLoan(l)
  \/ ProtocolAdmin

Spec == Init /\ [][Next]_vars

\* A liquidation while the pool's price is above the loan's threshold.
LiquidateDue(l) ==
  \E q \in PoolPrices, s \in SwapProceeds :
    ~LiquidatableByPrice(l, q) /\ Liquidate(l, q, s)

\* Fairness of time and of the liquidator, which jobs/index.ts runs every 5 s:
\* it gets to a loan that stays due even if the price never falls.
LiveSpec ==
  /\ Spec
  /\ WF_vars(Tick)
  /\ \A l \in LoanId : WF_vars(LiquidateDue(l))

-----------------------------------------------------------------------------
(* Properties.                                                              *)

LoanRecord ==
  [status: LoanStatus, borrower: Borrower \cup {NoOne},
   token_mint: Token \cup {NoOne}, collateral_amount: Nat, sol_borrowed: Nat,
   entry_price: Nat, liquidation_price: Nat, due_at: Nat]

TokenConfigRecord ==
  [listed: BOOLEAN, enabled: BOOLEAN, blacklisted: BOOLEAN,
   ltv_bps: Nat, pool_type: PoolType,
   min_loan_amount: Nat, max_loan_amount: Nat,
   active_loans_count: Nat, total_volume: Nat, total_active_borrowed: Nat]

AuditRecord == [funded: Nat, principal_erased: Nat, fees_erased: Nat,
                operations_proceeds: Nat]

\* Every counter and balance is an unsigned integer: no handler takes more
\* from an account than it holds.
TypeOK ==
  /\ now \in Nat
  /\ paused \in BOOLEAN
  /\ total_loans_created \in Nat /\ total_loans_created <= MaxLoans
  /\ total_sol_borrowed \in Nat
  /\ total_fees_earned \in Nat
  /\ active_loans_count \in Nat
  /\ token_config \in [Token -> TokenConfigRecord]
  /\ loan \in [LoanId -> LoanRecord]
  /\ vault \in [LoanId -> Nat]
  /\ tokens \in [Borrower -> [Token -> Nat]]
  /\ sol \in [Borrower -> Nat]
  /\ treasury \in Nat
  /\ reward_vault \in Nat
  /\ operations \in Nat
  /\ admin_sol \in Nat
  /\ audit \in AuditRecord

\* The loan counters of the protocol and of each token count the Active
\* loans, across every order of creations, repayments, liquidations, config
\* updates and drains (active_loans_count in state.rs:83 and state.rs:161).
CountersMatchBook ==
  /\ active_loans_count = Cardinality(ActiveLoans)
  /\ \A t \in Token : token_config[t].active_loans_count = Cardinality(ActiveOn(t))

\* total_active_borrowed of a token is the principal of its Active loans, and
\* total_sol_borrowed is that of all Active loans less what emergency_drain
\* erased: exposure limits and the withdrawal reserve rest on these two.
PrincipalMatchesBook ==
  /\ total_sol_borrowed + audit.principal_erased = Principal(ActiveLoans)
  /\ \A t \in Token : token_config[t].total_active_borrowed = Principal(ActiveOn(t))

\* Collateral is in the loan's own vault exactly while the loan is Active:
\* create_loan, repay_loan and liquidate agree on where it is.
VaultHoldsCollateral ==
  \A l \in LoanId :
    vault[l] = IF loan[l].status = "Active" THEN loan[l].collateral_amount ELSE 0

\* A borrower is missing exactly the collateral of Active and liquidated loans:
\* nothing is returned twice, to the wrong wallet, or in the wrong mint.
CollateralAccounted ==
  \A b \in Borrower, t \in Token :
    tokens[b][t]
      + Collateral({l \in ActiveLoans \cup LiquidatedLoans :
                      loan[l].borrower = b /\ loan[l].token_mint = t})
      = InitialTokens

\* Both, of the same loans: the sums in the accounts, what the vaults hold and
\* what the borrowers miss stay together over all three instructions.
BookAccountsForAll == PrincipalMatchesBook /\ CollateralAccounted

\* The protocol's lamports, wherever they went, plus the principal still owed
\* are what was funded plus what was booked as earned, less the principal of
\* liquidated loans: the fee split of a repayment and the proceeds split of a
\* liquidation neither lose nor invent a lamport.
BalanceSheet ==
  treasury + reward_vault + operations + admin_sol + Principal(ActiveLoans)
    = audit.funded + total_fees_earned + audit.fees_erased
      + audit.operations_proceeds - Principal(LiquidatedLoans)

\* Whether the transaction "repay loan l" would succeed, as far as the books go: the
\* runtime refuses to leave an account with less than its rent, which a first small
\* fee could do to a reward vault with nothing else in it (RentExempt of Staking);
\* what else that vault holds is not known here.
RepaySucceeds(l) ==
  /\ ~paused
  /\ loan[l].status = "Active"
  /\ sol[loan[l].borrower] >= TotalOwed(loan[l].sol_borrowed)
  /\ vault[l] >= loan[l].collateral_amount
  /\ LeavesTheBooks(l)

\* Until an emergency drain erases principal, a borrower with the money can
\* always repay and get the collateral back while the protocol is not paused:
\* no order of other loans, closings or updates makes the bookkeeping underflow.
SolventBorrowerCanRepay ==
  \A l \in ActiveLoans :
    (~paused /\ sol[loan[l].borrower] >= TotalOwed(loan[l].sol_borrowed))
      => (audit.principal_erased > 0 \/ RepaySucceeds(l))

\* A closed loan stays closed with the record it closed with, and an Active
\* loan's terms never change: update_token_config, blacklisting and later loans
\* of the same borrower and mint leave running loans alone.
LoanTermsAreFixed ==
  [][\A l \in LoanId :
       loan[l].status # "None" =>
         /\ [loan'[l] EXCEPT !.status = loan[l].status] = loan[l]
         /\ loan[l].status # "Active" => loan'[l] = loan[l]]_vars

\* project_context.md:36, "Loans are liquidated if duration expires": a loan
\* past due is closed unless the admin pauses, drains or disables its pool.
DueLoanCloses ==
  \A l \in LoanId :
    (loan[l].status = "Active" /\ now > loan[l].due_at)
      ~> \/ loan[l].status # "Active"
         \/ paused
         \/ audit.principal_erased > 0
         \/ token_config[loan[l].token_mint].pool_type = "Pumpfun"

-----------------------------------------------------------------------------
(* The lending program implements the loan life cycle.                      *)

PhaseOf(status) ==
  CASE status = "None" -> "None"
    [] status = "Active" -> "Open"
    [] status = "Repaid" -> "Redeemed"
    [] OTHER -> "Seized"

CustodyOf(l) ==
  IF vault[l] > 0 THEN "vault"
  ELSE IF loan[l].status \in {"None", "Repaid"} THEN "borrower"
  ELSE "market"

Lifecycle == INSTANCE LoanLifecycle WITH
  phase <- [l \in LoanId |-> PhaseOf(loan[l].status)],
  custody <- [l \in LoanId |-> CustodyOf(l)]

\* Every step of the program is a step of the loan life cycle or leaves every
\* loan's phase and custody alone.
ImplementsLifecycle == Lifecycle!Spec
=============================================================================
