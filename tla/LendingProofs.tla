---------------------------- MODULE LendingProofs ----------------------------
(***************************************************************************)
(* Theorems about Lending for every set of tokens and borrowers, every      *)
(* bound and every choice of amounts.                                       *)
(*                                                                         *)
(* The inductive invariant is TypeOK together with Slots (which loan        *)
(* accounts exist), VaultHoldsCollateral, CountersMatchBook and             *)
(* UnlistedIsEmpty (a token without a configuration has no open loans).     *)
(***************************************************************************)
EXTENDS Lending, ArithmeticProofs

\* Loan accounts are made in the order of total_loans_created, and a loan that
\* exists has a borrower, a mint and some collateral.
Slots ==
  \A l \in LoanId :
    /\ loan[l].status = "None" <=> total_loans_created <= l
    /\ loan[l].status # "None" =>
         /\ loan[l].borrower \in Borrower
         /\ loan[l].token_mint \in Token
         /\ loan[l].collateral_amount > 0

-----------------------------------------------------------------------------
(* Type correctness.                                                        *)

\* In the initial state no loan account exists and every balance is unsigned.
LEMMA InitType == Init => TypeOK /\ Slots
<1> SUFFICES ASSUME Init PROVE TypeOK /\ Slots
  OBVIOUS
<1>b. MaxLoans \in Nat /\ InitialTokens \in Nat /\ InitialSol \in Nat
  BY LendingAssumption
<1>1. UnlistedToken \in TokenConfigRecord
  BY DEF UnlistedToken, TokenConfigRecord, PoolType
<1>2. NoLoan \in LoanRecord
  BY DEF NoLoan, LoanRecord, LoanStatus
<1>3. audit \in AuditRecord
  BY DEF Init, AuditRecord
<1>4. TypeOK
  <2>1. now \in Nat /\ total_loans_created \in Nat /\ total_loans_created <= MaxLoans
        /\ total_sol_borrowed \in Nat /\ total_fees_earned \in Nat
        /\ active_loans_count \in Nat
    BY <1>b DEF Init
  <2>5. paused \in BOOLEAN
    BY DEF Init
  <2>2. token_config \in [Token -> TokenConfigRecord] /\ loan \in [LoanId -> LoanRecord]
        /\ vault \in [LoanId -> Nat]
    BY <1>1, <1>2 DEF Init
  <2>3. tokens \in [Borrower -> [Token -> Nat]] /\ sol \in [Borrower -> Nat]
    BY <1>b DEF Init
  <2>4. treasury \in Nat /\ reward_vault \in Nat /\ operations \in Nat /\ admin_sol \in Nat
    BY DEF Init
  <2> QED
    BY <1>3, <2>1, <2>2, <2>3, <2>4, <2>5 DEF TypeOK
<1>5. Slots
  BY <1>b DEF Init, Slots, NoLoan, LoanId
<1> QED
  BY <1>4, <1>5

\* A new loan account has the type of one.
LEMMA QuoteIsLoan ==
  ASSUME TypeOK, NEW b \in Borrower, NEW t \in Token, NEW c \in Nat,
         NEW d \in Nat, NEW p \in Nat,
         LiquidationDivisor(c, token_config[t].ltv_bps) > 0
  PROVE  QuotedLoan(b, t, c, d, p) \in LoanRecord
<1> DEFINE ltv == token_config[t].ltv_bps
           amount == LoanAmount(c, p, DurationAdjustedLtv(ltv, d))
<1>1. ltv \in Nat
  <2>1. token_config[t] \in TokenConfigRecord
    BY DEF TypeOK
  <2> QED
    BY <2>1 DEF TokenConfigRecord
<1>2. LiquidationDivisor(c, ltv) > 0
  OBVIOUS
<1>3. QuotedLoan(b, t, c, d, p) =
        [status |-> "Active", borrower |-> b, token_mint |-> t,
         collateral_amount |-> c, sol_borrowed |-> amount, entry_price |-> p,
         liquidation_price |-> LiquidationPrice(amount, c, ltv), due_at |-> now + d]
  BY DEF QuotedLoan
<1> HIDE DEF ltv
<1>4. amount \in Nat /\ LiquidationPrice(amount, c, ltv) \in Nat
  BY <1>1, <1>2, QuoteAmounts
<1> HIDE DEF amount
<1>5. now + d \in Nat
  BY DEF TypeOK
<1> QED
  BY <1>3, <1>4, <1>5 DEF LoanRecord, LoanStatus

\* An update keeps a configuration's type, its listing and its counters.
LEMMA UpdatedFacts ==
  ASSUME NEW c \in TokenConfigRecord, NEW on \in BOOLEAN, NEW ltv \in Nat,
         NEW pool \in PoolType
  PROVE  /\ Updated(c, on, ltv, pool) \in TokenConfigRecord
         /\ Updated(c, on, ltv, pool).listed = c.listed
         /\ Updated(c, on, ltv, pool).active_loans_count = c.active_loans_count
  BY DEF Updated, TokenConfigRecord

\* The actions that touch neither a loan nor total_loans_created.
LEMMA TokenAdminType ==
  ASSUME TypeOK, Slots, TokenAdmin
  PROVE  TypeOK' /\ Slots'
<1> PICK t \in Token :
      \/ \E terms \in Terms : WhitelistToken(t, terms)
      \/ \E enabled \in BOOLEAN, ltv_bps \in LtvChoices, pool_type \in PoolType :
           UpdateTokenConfig(t, enabled, ltv_bps, pool_type)
      \/ \E blacklisted \in BlacklistChoices : SetBlacklisted(t, blacklisted)
  BY DEF TokenAdmin
<1>1. token_config \in [Token -> TokenConfigRecord] /\ token_config[t] \in TokenConfigRecord
  BY DEF TypeOK
<1>2. /\ token_config' \in [Token -> TokenConfigRecord]
      /\ UNCHANGED <<now, protocolVars, loanVars, moneyVars, audit>>
  <2>1. ASSUME NEW terms \in Terms, WhitelistToken(t, terms)
        PROVE  <1>2!:
    <3>1. terms \in TermsRecord
      BY LendingAssumption
    <3>2. /\ terms.ltv_bps \in Nat /\ terms.pool_type \in PoolType
          /\ terms.min_loan_amount \in Nat /\ terms.max_loan_amount \in Nat
      BY <3>1 DEF TermsRecord, TierLtv
    <3>3. [UnlistedToken EXCEPT
            !.listed = TRUE, !.enabled = TRUE,
            !.ltv_bps = terms.ltv_bps, !.pool_type = terms.pool_type,
            !.min_loan_amount = terms.min_loan_amount,
            !.max_loan_amount = terms.max_loan_amount] \in TokenConfigRecord
      BY <3>2 DEF UnlistedToken, TokenConfigRecord
    <3> QED
      BY <1>1, <2>1, <3>3 DEF WhitelistToken
  <2>2. ASSUME NEW on \in BOOLEAN, NEW ltv \in LtvChoices, NEW pool \in PoolType,
               UpdateTokenConfig(t, on, ltv, pool)
        PROVE  <1>2!:
    <3>1. ltv \in Nat
      BY LendingAssumption
    <3>2. Updated(token_config[t], on, ltv, pool) \in TokenConfigRecord
      BY <1>1, <3>1, UpdatedFacts
    <3> QED
      BY <1>1, <2>2, <3>2 DEF UpdateTokenConfig
  <2>3. ASSUME NEW blacklisted \in BlacklistChoices, SetBlacklisted(t, blacklisted)
        PROVE  <1>2!:
    <3>1. blacklisted \in BOOLEAN
      BY LendingAssumption
    <3>2. [token_config[t] EXCEPT !.blacklisted = blacklisted] \in TokenConfigRecord
      BY <1>1, <3>1 DEF TokenConfigRecord
    <3> QED
      BY <1>1, <2>3, <3>2 DEF SetBlacklisted
  <2> QED
    BY <2>1, <2>2, <2>3
<1> QED
  BY <1>2 DEF TypeOK, Slots, protocolVars, loanVars, moneyVars

\* The passage of time changes no account.
LEMMA TickType ==
  ASSUME TypeOK, Slots, Tick
  PROVE  TypeOK' /\ Slots'
<1>1. now' \in Nat
  BY DEF TypeOK, Tick
<1>2. UNCHANGED <<protocolVars, token_config, loanVars, moneyVars, audit>>
  BY DEF Tick
<1> QED
  BY <1>1, <1>2 DEF TypeOK, Slots, protocolVars, loanVars, moneyVars

\* A drain's entry in the history has the type of the history.
LEMMA AuditUpdate ==
  ASSUME NEW a \in AuditRecord, NEW x \in Nat, NEW y \in Nat
  PROVE  [a EXCEPT !.principal_erased = x, !.fees_erased = y] \in AuditRecord
  BY DEF AuditRecord

\* Funding, withdrawal, pausing and draining keep types and slots: a
\* withdrawal never takes more than the treasury holds.
LEMMA ProtocolAdminType ==
  ASSUME TypeOK, Slots, ProtocolAdmin
  PROVE  TypeOK' /\ Slots'
<1>1. /\ UNCHANGED <<now, total_loans_created, active_loans_count, token_config,
                     loanVars, sol, reward_vault, operations>>
      /\ paused' \in BOOLEAN
      /\ total_sol_borrowed' \in Nat /\ total_fees_earned' \in Nat
      /\ treasury' \in Nat /\ admin_sol' \in Nat
      /\ audit' \in AuditRecord
  <2>1. ASSUME NEW amount \in FundAmounts, FundTreasury(amount)
        PROVE  <1>1!:
    <3>1. amount \in Nat
      BY LendingAssumption
    <3>2. audit' \in AuditRecord
      BY <2>1, <3>1 DEF FundTreasury, TypeOK, AuditRecord
    <3>3. treasury' \in Nat
      BY <2>1, <3>1 DEF FundTreasury, TypeOK
    <3>4. UNCHANGED <<now, protocolVars, token_config, loanVars, sol, reward_vault,
                      operations, admin_sol>>
      BY <2>1 DEF FundTreasury
    <3> QED
      BY <3>2, <3>3, <3>4 DEF TypeOK, protocolVars
  <2>2. ASSUME NEW amount \in WithdrawAmounts, WithdrawTreasury(amount)
        PROVE  <1>1!:
    <3>1. amount \in Nat
      BY LendingAssumption
    <3>2. treasury' \in Nat /\ admin_sol' \in Nat
      BY <2>2, <3>1 DEF WithdrawTreasury, TypeOK
    <3>3. UNCHANGED <<now, protocolVars, token_config, loanVars, sol, reward_vault,
                      operations, audit>>
      BY <2>2 DEF WithdrawTreasury
    <3> QED
      BY <3>2, <3>3 DEF TypeOK, protocolVars
  <2>3. ASSUME NEW value \in BOOLEAN, SetPaused(value)
        PROVE  <1>1!:
    BY <2>3 DEF SetPaused, TypeOK, moneyVars
  <2>4. ASSUME EmergencyDrain
        PROVE  <1>1!:
    <3>1. /\ audit' = [audit EXCEPT !.principal_erased = @ + total_sol_borrowed,
                                   !.fees_erased = @ + total_fees_earned]
          /\ treasury' = 0 /\ total_sol_borrowed' = 0 /\ total_fees_earned' = 0
          /\ admin_sol' = admin_sol + treasury
      BY <2>4 DEF EmergencyDrain
    <3>2. /\ paused' = TRUE
          /\ UNCHANGED <<now, total_loans_created, active_loans_count, token_config,
                         loanVars, sol, reward_vault, operations>>
      BY <2>4 DEF EmergencyDrain
    <3>3. audit \in AuditRecord /\ total_sol_borrowed \in Nat /\ total_fees_earned \in Nat
          /\ admin_sol \in Nat /\ treasury \in Nat
      BY DEF TypeOK
    <3>4. audit' \in AuditRecord
      <4>1. /\ audit.principal_erased + total_sol_borrowed \in Nat
            /\ audit.fees_erased + total_fees_earned \in Nat
        BY ONLY <3>3 DEF AuditRecord
      <4> QED
        BY ONLY <3>1, <3>3, <4>1, AuditUpdate
    <3>5. treasury' \in Nat /\ total_sol_borrowed' \in Nat /\ total_fees_earned' \in Nat
          /\ admin_sol' \in Nat
      BY ONLY <3>1, <3>3
    <3> QED
      BY <3>2, <3>4, <3>5
  <2> QED
    BY <2>1, <2>2, <2>3, <2>4 DEF ProtocolAdmin
<1> QED
  BY <1>1 DEF TypeOK, Slots, loanVars

\* Closing a loan that its token's counters cover keeps them unsigned.
LEMMA SettledType ==
  ASSUME NEW c \in TokenConfigRecord, NEW s \in Nat,
         c.active_loans_count >= 1, c.total_active_borrowed >= s
  PROVE  Settled(c, s) \in TokenConfigRecord
<1>1. c.active_loans_count \in Nat /\ c.total_active_borrowed \in Nat
  BY DEF TokenConfigRecord
<1>2. c.active_loans_count - 1 \in Nat /\ c.total_active_borrowed - s \in Nat
  BY <1>1
<1> QED
  BY <1>2 DEF TokenConfigRecord, Settled

\* Making a loan keeps its token's counters unsigned.
LEMMA LentType ==
  ASSUME NEW c \in TokenConfigRecord, NEW s \in Nat
  PROVE  Lent(c, s) \in TokenConfigRecord
<1>1. c.active_loans_count \in Nat /\ c.total_active_borrowed \in Nat
      /\ c.total_volume \in Nat
  BY DEF TokenConfigRecord
<1>2. /\ c.active_loans_count + 1 \in Nat /\ c.total_active_borrowed + s \in Nat
      /\ c.total_volume + s \in Nat
  BY <1>1
<1> QED
  BY <1>2 DEF TokenConfigRecord, Lent

\* Lending and settling keep the listing and move the count by one.
LEMMA LentFacts ==
  ASSUME NEW c \in TokenConfigRecord, NEW s
  PROVE  /\ Lent(c, s).listed = c.listed
         /\ Lent(c, s).active_loans_count = c.active_loans_count + 1
  BY DEF Lent, TokenConfigRecord

\* The same for a loan that is closed.
LEMMA SettledFacts ==
  ASSUME NEW c \in TokenConfigRecord, NEW s
  PROVE  /\ Settled(c, s).listed = c.listed
         /\ Settled(c, s).active_loans_count = c.active_loans_count - 1
  BY DEF Settled, TokenConfigRecord

\* A loan that leaves the books leaves its counters unsigned.
LEMMA BooksType ==
  ASSUME TypeOK, NEW l \in LoanId, loan[l].token_mint \in Token, RemoveFromBooks(l)
  PROVE  /\ total_sol_borrowed' \in Nat
         /\ active_loans_count' \in Nat
         /\ token_config' \in [Token -> TokenConfigRecord]
<1> DEFINE t == loan[l].token_mint
           s == loan[l].sol_borrowed
<1>1. s \in Nat
  BY DEF TypeOK, LoanRecord
<1>2. total_sol_borrowed' \in Nat /\ active_loans_count' \in Nat
  BY <1>1 DEF RemoveFromBooks, LeavesTheBooks, TypeOK
<1>3. token_config[t] \in TokenConfigRecord
  BY DEF TypeOK
<1>4. token_config[t].active_loans_count >= 1 /\ token_config[t].total_active_borrowed >= s
  BY DEF RemoveFromBooks, LeavesTheBooks
<1>5. Settled(token_config[t], s) \in TokenConfigRecord
  BY <1>1, <1>3, <1>4, SettledType
<1>6. token_config' = [token_config EXCEPT ![t] = Settled(@, s)]
  BY DEF RemoveFromBooks
<1>7. token_config' \in [Token -> TokenConfigRecord]
  BY <1>5, <1>6 DEF TypeOK
<1> QED
  BY <1>2, <1>7

\* create_loan takes no more from treasury and wallet than they hold, and
\* fills the first unused slot.
LEMMA CreateLoanType ==
  ASSUME TypeOK, Slots, NEW b \in Borrower, NEW t \in Token,
         NEW c \in CollateralAmounts, NEW d \in Durations,
         NEW p \in ApprovedPrices, NEW q \in PoolPrices,
         CreateLoan(b, t, c, d, p, q)
  PROVE  TypeOK' /\ Slots'
<1> DEFINE l == total_loans_created
           new == QuotedLoan(b, t, c, d, p)
           s == new.sol_borrowed
<1>1. c \in Nat /\ d \in Nat /\ p \in Nat /\ MaxLoans \in Nat
  BY LendingAssumption
<1>2. /\ l < MaxLoans /\ c > 0 /\ tokens[b][t] >= c /\ s <= treasury
      /\ LiquidationDivisor(c, token_config[t].ltv_bps) > 0
  BY DEF CreateLoan, WithinTreasuryLimits
<1>3. /\ loan' = [loan EXCEPT ![l] = new]
      /\ tokens' = [tokens EXCEPT ![b][t] = @ - c]
      /\ vault' = [vault EXCEPT ![l] = c]
      /\ treasury' = treasury - s
      /\ sol' = [sol EXCEPT ![b] = @ + s]
      /\ total_loans_created' = l + 1
      /\ total_sol_borrowed' = total_sol_borrowed + s
      /\ active_loans_count' = active_loans_count + 1
      /\ token_config' = [token_config EXCEPT ![t] = Lent(@, s)]
      /\ UNCHANGED <<now, paused, total_fees_earned, reward_vault, operations,
                     admin_sol, audit>>
  BY DEF CreateLoan
<1>4. l \in Nat /\ l \in LoanId
  BY <1>1, <1>2 DEF TypeOK, LoanId
<1>5. /\ new \in LoanRecord
      /\ new.status = "Active" /\ new.borrower = b /\ new.token_mint = t
      /\ new.collateral_amount = c
  <2>1. new \in LoanRecord
    BY <1>1, <1>2, QuoteIsLoan
  <2> QED
    BY <2>1 DEF QuotedLoan
<1>6. s \in Nat
  BY <1>5 DEF LoanRecord
<1> HIDE DEF new, s, l
<1>7. total_loans_created' \in Nat /\ total_loans_created' <= MaxLoans
  BY <1>1, <1>2, <1>3, <1>4
<1>8. total_sol_borrowed' \in Nat /\ active_loans_count' \in Nat /\ treasury' \in Nat
  BY <1>2, <1>3, <1>6 DEF TypeOK
<1>9. token_config' \in [Token -> TokenConfigRecord]
  <2>1. Lent(token_config[t], s) \in TokenConfigRecord
    BY <1>6, LentType DEF TypeOK
  <2> QED
    BY <1>3, <2>1 DEF TypeOK
<1>10. loan' \in [LoanId -> LoanRecord] /\ vault' \in [LoanId -> Nat]
  BY <1>1, <1>3, <1>5 DEF TypeOK
<1>11. sol' \in [Borrower -> Nat] /\ tokens' \in [Borrower -> [Token -> Nat]]
  <2>1. sol[b] + s \in Nat /\ tokens[b][t] - c \in Nat
    BY <1>1, <1>2, <1>6 DEF TypeOK
  <2> QED
    BY <1>3, <2>1 DEF TypeOK
<1>12. TypeOK'
  BY <1>3, <1>7, <1>8, <1>9, <1>10, <1>11 DEF TypeOK
<1>13. Slots'
  <2> SUFFICES ASSUME NEW k \in LoanId
               PROVE  /\ loan'[k].status = "None" <=> total_loans_created' <= k
                      /\ loan'[k].status # "None" =>
                           /\ loan'[k].borrower \in Borrower
                           /\ loan'[k].token_mint \in Token
                           /\ loan'[k].collateral_amount > 0
    BY DEF Slots
  <2>0. k \in Int /\ loan \in [LoanId -> LoanRecord]
    BY DEF LoanId, TypeOK
  <2>1. CASE k = l
    <3>1. loan'[k] = new
      BY <1>3, <1>4, <2>0, <2>1
    <3> QED
      BY <1>2, <1>3, <1>4, <1>5, <2>1, <3>1
  <2>2. CASE k # l
    <3>1. loan'[k] = loan[k]
      BY <1>3, <2>0, <2>2
    <3>2. loan[k].status = "None" <=> l <= k
      BY DEF Slots, l
    <3>3. l <= k <=> l + 1 <= k
      BY <1>4, <2>0, <2>2
    <3> QED
      BY <1>3, <3>1, <3>2, <3>3 DEF Slots
  <2> QED
    BY <2>1, <2>2
<1> QED
  BY <1>12, <1>13

\* A loan account that only changes its status, away from "None", keeps its slot.
LEMMA CloseType ==
  ASSUME TypeOK, Slots, NEW l \in LoanId, loan[l].status = "Active",
         NEW closed \in LoanStatus, closed # "None",
         loan' = [loan EXCEPT ![l].status = closed],
         total_loans_created' = total_loans_created
  PROVE  loan' \in [LoanId -> LoanRecord] /\ Slots'
<1>1. loan' \in [LoanId -> LoanRecord]
  BY DEF TypeOK, LoanRecord
<1>2. ASSUME NEW k \in LoanId
      PROVE  /\ loan'[k].status = IF k = l THEN closed ELSE loan[k].status
             /\ loan'[k].borrower = loan[k].borrower
             /\ loan'[k].token_mint = loan[k].token_mint
             /\ loan'[k].collateral_amount = loan[k].collateral_amount
  BY DEF TypeOK, LoanRecord
<1> QED
  BY <1>1, <1>2 DEF Slots

\* repay_loan takes no more from wallet, vault and counters than they hold.
LEMMA RepayLoanType ==
  ASSUME TypeOK, Slots, NEW l \in LoanId, RepayLoan(l)
  PROVE  TypeOK' /\ Slots'
<1> DEFINE b == loan[l].borrower
           t == loan[l].token_mint
           c == loan[l].collateral_amount
           s == loan[l].sol_borrowed
           fee == ProtocolFee(s)
           paid == Paid(s)
<1>1. loan[l].status = "Active" /\ sol[b] >= paid /\ vault[l] >= c
  BY DEF RepayLoan, ReturnCollateral
<1>2. /\ loan' = [loan EXCEPT ![l].status = "Repaid"]
      /\ sol' = [sol EXCEPT ![b] = @ - paid]
      /\ treasury' = treasury + s + TreasuryFeeWithDust(fee)
      /\ reward_vault' = reward_vault + StakingFee(fee)
      /\ operations' = operations + OperationsFee(fee)
      /\ total_fees_earned' = total_fees_earned + fee
      /\ UNCHANGED <<now, paused, total_loans_created, admin_sol, audit>>
  BY DEF RepayLoan
<1>3. /\ vault' = [vault EXCEPT ![l] = @ - c]
      /\ tokens' = [tokens EXCEPT ![b][t] = @ + c]
  BY DEF RepayLoan, ReturnCollateral
<1>4. RemoveFromBooks(l)
  BY DEF RepayLoan
<1>5. loan[l] \in LoanRecord /\ b \in Borrower /\ t \in Token /\ c \in Nat /\ s \in Nat
  BY <1>1 DEF TypeOK, Slots, LoanRecord
<1>6. /\ fee \in Nat /\ StakingFee(fee) \in Nat /\ OperationsFee(fee) \in Nat
      /\ TreasuryFeeWithDust(fee) \in Nat /\ paid \in Nat
  BY <1>5, FeeSplit DEF Paid
<1>7. /\ total_sol_borrowed' \in Nat /\ active_loans_count' \in Nat
      /\ token_config' \in [Token -> TokenConfigRecord]
  BY <1>4, <1>5, BooksType
<1>8. loan' \in [LoanId -> LoanRecord] /\ Slots'
  BY <1>1, <1>2, CloseType DEF LoanStatus
<1> HIDE DEF b, t, c, s, fee, paid
<1>9. /\ treasury' \in Nat /\ reward_vault' \in Nat /\ operations' \in Nat
      /\ total_fees_earned' \in Nat
  BY <1>2, <1>5, <1>6 DEF TypeOK
<1>10. vault' \in [LoanId -> Nat] /\ sol' \in [Borrower -> Nat]
       /\ tokens' \in [Borrower -> [Token -> Nat]]
  <2>1. vault[l] - c \in Nat /\ sol[b] - paid \in Nat /\ tokens[b][t] + c \in Nat
    BY <1>1, <1>5, <1>6 DEF TypeOK
  <2> QED
    BY <1>2, <1>3, <2>1 DEF TypeOK
<1> QED
  BY <1>2, <1>7, <1>8, <1>9, <1>10 DEF TypeOK

\* liquidate takes no more from the counters than they hold.
LEMMA LiquidateType ==
  ASSUME TypeOK, Slots, NEW l \in LoanId, LiquidateLoan(l)
  PROVE  TypeOK' /\ Slots'
<1> PICK q \in PoolPrices, s \in SwapProceeds : Liquidate(l, q, s)
  BY DEF LiquidateLoan
<1>1. loan[l].status = "Active"
  BY DEF Liquidate, LiquidationAllowed
<1>2. PICK reason \in {"LiquidatedPrice", "LiquidatedTime"} :
        loan' = [loan EXCEPT ![l].status = reason]
  BY DEF Liquidate
<1>3. /\ vault' = [vault EXCEPT ![l] = 0]
      /\ treasury' = treasury + TreasuryShare(s)
      /\ operations' = operations + OperationsShare(s)
      /\ RemoveFromBooks(l)
      /\ total_fees_earned' = total_fees_earned + TreasuryShare(s)
      /\ audit' = [audit EXCEPT !.operations_proceeds = @ + OperationsShare(s)]
      /\ UNCHANGED <<now, paused, total_loans_created, tokens, sol, reward_vault,
                     admin_sol>>
  BY DEF Liquidate
<1>4. s \in Nat
  BY LendingAssumption
<1>5. TreasuryShare(s) \in Nat /\ OperationsShare(s) \in Nat
  BY <1>4, ProceedsSplit
<1>6. /\ total_sol_borrowed' \in Nat /\ active_loans_count' \in Nat
      /\ token_config' \in [Token -> TokenConfigRecord]
  <2>1. loan[l].token_mint \in Token
    BY <1>1 DEF Slots
  <2> QED
    BY <1>3, <2>1, BooksType
<1>7. loan' \in [LoanId -> LoanRecord] /\ Slots'
  BY <1>1, <1>2, <1>3, CloseType DEF LoanStatus
<1>8. treasury' \in Nat /\ operations' \in Nat /\ total_fees_earned' \in Nat
  BY <1>3, <1>5 DEF TypeOK
<1>9. vault' \in [LoanId -> Nat] /\ audit' \in AuditRecord
  BY <1>3, <1>5 DEF TypeOK, AuditRecord
<1> QED
  BY <1>3, <1>6, <1>7, <1>8, <1>9 DEF TypeOK

\* Every step keeps types and slots.
LEMMA TypeStep ==
  TypeOK /\ Slots /\ [Next]_vars => TypeOK' /\ Slots'
<1> SUFFICES ASSUME TypeOK, Slots, [Next]_vars
             PROVE  TypeOK' /\ Slots'
  OBVIOUS
<1>1. CASE Tick
  BY <1>1, TickType
<1>2. CASE TokenAdmin
  BY <1>2, TokenAdminType
<1>3. CASE Borrow
  BY <1>3, CreateLoanType DEF Borrow
<1>4. CASE Repay
  BY <1>4, RepayLoanType DEF Repay
<1>5. CASE \E l \in LoanId : LiquidateLoan(l)
  BY <1>5, LiquidateType
<1>6. CASE ProtocolAdmin
  BY <1>6, ProtocolAdminType
<1>7. CASE UNCHANGED vars
  BY <1>7 DEF TypeOK, Slots, vars, protocolVars, loanVars, moneyVars
<1> QED
  BY <1>1, <1>2, <1>3, <1>4, <1>5, <1>6, <1>7 DEF Next

\* Every reachable state has unsigned counters and balances: none of the
\* handlers' subtractions takes more than an account holds.
THEOREM TypeCorrect == Spec => [](TypeOK /\ Slots)
<1>1. Init => TypeOK /\ Slots
  BY InitType
<1>2. TypeOK /\ Slots /\ [Next]_vars => TypeOK' /\ Slots'
  BY TypeStep
<1> QED
  BY <1>1, <1>2, PTL DEF Spec

-----------------------------------------------------------------------------
(* What a step does to the loan accounts.                                   *)

\* Making a loan account, closing one, and leaving all of them alone.
OpensLoan(l, new) ==
  /\ l = total_loans_created
  /\ total_loans_created' = total_loans_created + 1
  /\ new.status = "Active" /\ new.token_mint \in Token /\ new.collateral_amount > 0
  /\ token_config[new.token_mint].listed
  /\ loan' = [loan EXCEPT ![l] = new]
  /\ vault' = [vault EXCEPT ![l] = new.collateral_amount]
  /\ active_loans_count' = active_loans_count + 1
  /\ token_config' = [token_config EXCEPT ![new.token_mint] = Lent(@, new.sol_borrowed)]

ClosedStatus == {"Repaid", "LiquidatedTime", "LiquidatedPrice"}

ClosesLoan(l, closed) ==
  /\ loan[l].status = "Active"
  /\ total_loans_created' = total_loans_created
  /\ loan' = [loan EXCEPT ![l].status = closed]
  /\ \/ vault' = [vault EXCEPT ![l] = 0]
     \/ vault' = [vault EXCEPT ![l] = @ - loan[l].collateral_amount]
  /\ active_loans_count' = active_loans_count - 1
  /\ token_config[loan[l].token_mint].active_loans_count >= 1
  /\ token_config' = [token_config EXCEPT
       ![loan[l].token_mint] = Settled(@, loan[l].sol_borrowed)]

KeepsCounter(t) ==
  \/ /\ token_config'[t].active_loans_count = token_config[t].active_loans_count
     /\ token_config'[t].listed = token_config[t].listed
  \/ /\ ~token_config[t].listed
     /\ token_config'[t].active_loans_count = 0

KeepsLoans ==
  /\ UNCHANGED <<total_loans_created, loan, vault, active_loans_count>>
  /\ \A t \in Token : KeepsCounter(t)

\* Token administration leaves loans and vaults alone and resets a counter
\* only where there was no configuration.
LEMMA TokenAdminKeepsLoans ==
  ASSUME TypeOK, TokenAdmin
  PROVE  KeepsLoans
<1> PICK t \in Token :
      \/ \E terms \in Terms : WhitelistToken(t, terms)
      \/ \E enabled \in BOOLEAN, ltv_bps \in LtvChoices, pool_type \in PoolType :
           UpdateTokenConfig(t, enabled, ltv_bps, pool_type)
      \/ \E blacklisted \in BlacklistChoices : SetBlacklisted(t, blacklisted)
  BY DEF TokenAdmin
<1>0. token_config \in [Token -> TokenConfigRecord] /\ token_config[t] \in TokenConfigRecord
  BY DEF TypeOK
<1>1. ASSUME NEW terms \in Terms, WhitelistToken(t, terms)
      PROVE  KeepsLoans
  <2>1. /\ UNCHANGED <<protocolVars, loanVars>>
        /\ ~token_config[t].listed
    BY <1>1 DEF WhitelistToken, Whitelistable
  <2>2. token_config'[t].active_loans_count = 0
    BY <1>0, <1>1 DEF WhitelistToken, UnlistedToken
  <2>3. \A u \in Token : u # t => token_config'[u] = token_config[u]
    BY <1>0, <1>1 DEF WhitelistToken
  <2> QED
    BY <2>1, <2>2, <2>3 DEF KeepsLoans, KeepsCounter, protocolVars, loanVars
<1>2. ASSUME NEW on \in BOOLEAN, NEW ltv \in LtvChoices, NEW pool \in PoolType,
             UpdateTokenConfig(t, on, ltv, pool)
      PROVE  KeepsLoans
  <2>1. UNCHANGED <<protocolVars, loanVars>>
    BY <1>2 DEF UpdateTokenConfig
  <2>2. ltv \in Nat
    BY LendingAssumption
  <2>3. token_config'[t] = Updated(token_config[t], on, ltv, pool)
    BY <1>0, <1>2 DEF UpdateTokenConfig
  <2>4. /\ token_config'[t].active_loans_count = token_config[t].active_loans_count
        /\ token_config'[t].listed = token_config[t].listed
    BY <1>0, <2>2, <2>3, UpdatedFacts
  <2>5. \A u \in Token : u # t => token_config'[u] = token_config[u]
    BY <1>0, <1>2 DEF UpdateTokenConfig
  <2> QED
    BY <2>1, <2>4, <2>5 DEF KeepsLoans, KeepsCounter, protocolVars, loanVars
<1>3. ASSUME NEW blacklisted \in BlacklistChoices, SetBlacklisted(t, blacklisted)
      PROVE  KeepsLoans
  <2>1. UNCHANGED <<protocolVars, loanVars>>
    BY <1>3 DEF SetBlacklisted
  <2>2. /\ token_config'[t].active_loans_count = token_config[t].active_loans_count
        /\ token_config'[t].listed = token_config[t].listed
    BY <1>0, <1>3 DEF SetBlacklisted, TokenConfigRecord
  <2>3. \A u \in Token : u # t => token_config'[u] = token_config[u]
    BY <1>0, <1>3 DEF SetBlacklisted
  <2> QED
    BY <2>1, <2>2, <2>3 DEF KeepsLoans, KeepsCounter, protocolVars, loanVars
<1> QED
  BY <1>1, <1>2, <1>3

\* Every step makes one loan account, closes one, or touches none.
LEMMA LoanStep ==
  ASSUME TypeOK, Slots, [Next]_vars
  PROVE  \/ \E l \in LoanId, new \in LoanRecord : OpensLoan(l, new)
         \/ \E l \in LoanId, closed \in ClosedStatus : ClosesLoan(l, closed)
         \/ KeepsLoans
<1>1. CASE Tick
  BY <1>1 DEF Tick, KeepsLoans, KeepsCounter, protocolVars, loanVars
<1>2. CASE TokenAdmin
  BY <1>2, TokenAdminKeepsLoans
<1>3. CASE Borrow
  <2>1. PICK b \in Borrower, t \in Token, c \in CollateralAmounts, d \in Durations,
             p \in ApprovedPrices, q \in PoolPrices : CreateLoan(b, t, c, d, p, q)
    BY <1>3 DEF Borrow
  <2> DEFINE new == QuotedLoan(b, t, c, d, p)
  <2>2. /\ total_loans_created < MaxLoans /\ c > 0
        /\ token_config[t].listed
        /\ LiquidationDivisor(c, token_config[t].ltv_bps) > 0
        /\ loan' = [loan EXCEPT ![total_loans_created] = new]
        /\ vault' = [vault EXCEPT ![total_loans_created] = c]
        /\ total_loans_created' = total_loans_created + 1
        /\ active_loans_count' = active_loans_count + 1
        /\ token_config' = [token_config EXCEPT ![t] = Lent(@, new.sol_borrowed)]
    BY <2>1 DEF CreateLoan
  <2>3. c \in Nat /\ d \in Nat /\ p \in Nat /\ MaxLoans \in Nat
    BY LendingAssumption
  <2>4. new \in LoanRecord
    BY <2>2, <2>3, QuoteIsLoan
  <2>5. new.status = "Active" /\ new.token_mint = t /\ new.collateral_amount = c
    BY DEF QuotedLoan
  <2>6. total_loans_created \in LoanId
    BY <2>2, <2>3 DEF TypeOK, LoanId
  <2> HIDE DEF new
  <2>7. OpensLoan(total_loans_created, new)
    BY <2>2, <2>5 DEF OpensLoan
  <2> QED
    BY <2>4, <2>6, <2>7
<1>4. CASE Repay
  <2>1. PICK l \in LoanId : RepayLoan(l)
    BY <1>4 DEF Repay
  <2>2. ClosesLoan(l, "Repaid")
    BY <2>1 DEF RepayLoan, ReturnCollateral, RemoveFromBooks, LeavesTheBooks, ClosesLoan
  <2> QED
    BY <2>2 DEF ClosedStatus
<1>5. CASE \E l \in LoanId : LiquidateLoan(l)
  <2>1. PICK l \in LoanId, q \in PoolPrices, s \in SwapProceeds : Liquidate(l, q, s)
    BY <1>5 DEF LiquidateLoan
  <2>2. PICK reason \in {"LiquidatedPrice", "LiquidatedTime"} :
          loan' = [loan EXCEPT ![l].status = reason]
    BY <2>1 DEF Liquidate
  <2>3. /\ loan[l].status = "Active"
        /\ vault' = [vault EXCEPT ![l] = 0]
        /\ total_loans_created' = total_loans_created
        /\ RemoveFromBooks(l)
    BY <2>1 DEF Liquidate, LiquidationAllowed
  <2>4. ClosesLoan(l, reason)
    BY <2>2, <2>3 DEF RemoveFromBooks, LeavesTheBooks, ClosesLoan
  <2> QED
    BY <2>4 DEF ClosedStatus
<1>6. CASE ProtocolAdmin
  BY <1>6 DEF ProtocolAdmin, FundTreasury, WithdrawTreasury, SetPaused, EmergencyDrain,
     KeepsLoans, KeepsCounter, protocolVars, loanVars
<1>7. CASE UNCHANGED vars
  BY <1>7 DEF KeepsLoans, KeepsCounter, vars, protocolVars, loanVars
<1> QED
  BY <1>1, <1>2, <1>3, <1>4, <1>5, <1>6, <1>7 DEF Next

-----------------------------------------------------------------------------
(* Custody and counters.                                                    *)

\* Every step moves collateral and status together.
LEMMA VaultStep ==
  ASSUME TypeOK, Slots, VaultHoldsCollateral, [Next]_vars
  PROVE  VaultHoldsCollateral'
<1>0. loan \in [LoanId -> LoanRecord] /\ vault \in [LoanId -> Nat]
  BY DEF TypeOK
<1>1. ASSUME NEW l \in LoanId, NEW new \in LoanRecord, OpensLoan(l, new)
      PROVE  VaultHoldsCollateral'
  BY <1>0, <1>1 DEF OpensLoan, VaultHoldsCollateral
<1>2. ASSUME NEW l \in LoanId, NEW closed \in ClosedStatus, ClosesLoan(l, closed)
      PROVE  VaultHoldsCollateral'
  <2>1. vault'[l] = 0
    <3>1. vault[l] = loan[l].collateral_amount /\ vault[l] \in Nat
      BY <1>0, <1>2 DEF ClosesLoan, VaultHoldsCollateral
    <3> QED
      BY <1>0, <1>2, <3>1 DEF ClosesLoan
  <2>2. loan'[l].status # "Active"
    BY <1>0, <1>2 DEF ClosesLoan, ClosedStatus, LoanRecord
  <2>3. \A k \in LoanId : k # l => loan'[k] = loan[k] /\ vault'[k] = vault[k]
    BY <1>0, <1>2 DEF ClosesLoan
  <2> QED
    BY <2>1, <2>2, <2>3 DEF VaultHoldsCollateral
<1>3. CASE KeepsLoans
  BY <1>3 DEF KeepsLoans, VaultHoldsCollateral
<1> QED
  BY <1>1, <1>2, <1>3, LoanStep

\* Collateral is in the loan's vault exactly while the loan is Active, in every
\* reachable state, for any tokens, borrowers, prices and amounts.
THEOREM VaultsCorrect == Spec => []VaultHoldsCollateral
<1>1. Init => VaultHoldsCollateral
  BY DEF Init, VaultHoldsCollateral, NoLoan
<1>2. TypeOK /\ Slots /\ VaultHoldsCollateral /\ [Next]_vars => VaultHoldsCollateral'
  BY VaultStep
<1> QED
  BY <1>1, <1>2, TypeCorrect, PTL DEF Spec

\* A token that is not listed has no loans, which is what lets whitelist_token
\* start its counters at zero.
UnlistedIsEmpty ==
  \A t \in Token : token_config[t].listed \/ token_config[t].active_loans_count = 0

CountersInvariant == CountersMatchBook /\ UnlistedIsEmpty

\* There are finitely many loans, so that they can be counted.
LEMMA BookIsFinite ==
  /\ IsFiniteSet(ActiveLoans)
  /\ \A t \in Token : IsFiniteSet(ActiveOn(t))
<1>1. IsFiniteSet(LoanId)
  BY LendingAssumption, FS_Interval DEF LoanId
<1>2. ActiveLoans \subseteq LoanId
  BY DEF ActiveLoans, LoansWith
<1>3. IsFiniteSet(ActiveLoans)
  BY <1>1, <1>2, FS_Subset
<1>4. \A t \in Token : ActiveOn(t) \subseteq ActiveLoans
  BY DEF ActiveOn
<1> QED
  BY <1>3, <1>4, FS_Subset

\* A loan that is made is counted once, for the protocol and for its token.
LEMMA OpenCounters ==
  ASSUME TypeOK, Slots, CountersInvariant,
         NEW l \in LoanId, NEW new \in LoanRecord, OpensLoan(l, new)
  PROVE  CountersInvariant'
<1> DEFINE t == new.token_mint
<1>0. /\ loan \in [LoanId -> LoanRecord]
      /\ token_config \in [Token -> TokenConfigRecord]
      /\ t \in Token
      /\ l \in Int
  BY DEF TypeOK, OpensLoan, LoanId
<1>1. /\ loan' = [loan EXCEPT ![l] = new]
      /\ new.status = "Active"
      /\ l = total_loans_created
      /\ active_loans_count' = active_loans_count + 1
      /\ token_config[t].listed
      /\ token_config' = [token_config EXCEPT ![t] = Lent(@, new.sol_borrowed)]
  BY DEF OpensLoan
<1>2. loan[l].status = "None"
  BY <1>0, <1>1 DEF Slots
<1>3. ActiveLoans' = ActiveLoans \cup {l} /\ l \notin ActiveLoans
  BY <1>0, <1>1, <1>2 DEF ActiveLoans, LoansWith
<1>4. ActiveOn(t)' = ActiveOn(t) \cup {l} /\ l \notin ActiveOn(t)
  BY <1>0, <1>1, <1>3 DEF ActiveOn
<1>5. \A u \in Token \ {t} : ActiveOn(u)' = ActiveOn(u)
  BY <1>0, <1>1, <1>3 DEF ActiveOn
<1>6. /\ Cardinality(ActiveLoans)' = Cardinality(ActiveLoans) + 1
      /\ Cardinality(ActiveOn(t))' = Cardinality(ActiveOn(t)) + 1
  BY <1>0, <1>3, <1>4, BookIsFinite, FS_AddElement
<1>7. /\ token_config'[t].active_loans_count = token_config[t].active_loans_count + 1
      /\ token_config'[t].listed = token_config[t].listed
  <2>1. token_config'[t] = Lent(token_config[t], new.sol_borrowed)
    BY <1>0, <1>1
  <2>2. token_config[t] \in TokenConfigRecord
    BY <1>0
  <2> QED
    BY <2>1, <2>2, LentFacts
<1>8. \A u \in Token \ {t} : token_config'[u] = token_config[u]
  BY <1>0, <1>1
<1> HIDE DEF t
<1>9. CountersMatchBook'
  BY <1>1, <1>5, <1>6, <1>7, <1>8 DEF CountersInvariant, CountersMatchBook
<1>10. UnlistedIsEmpty'
  BY <1>1, <1>7, <1>8 DEF CountersInvariant, UnlistedIsEmpty
<1> QED
  BY <1>9, <1>10 DEF CountersInvariant

\* A loan that is closed is uncounted once, for the protocol and for its token.
LEMMA CloseCounters ==
  ASSUME TypeOK, Slots, CountersInvariant,
         NEW l \in LoanId, NEW closed \in ClosedStatus, ClosesLoan(l, closed)
  PROVE  CountersInvariant'
<1>t. PICK t \in Token : t = loan[l].token_mint
  BY DEF ClosesLoan, Slots
<1>1. /\ loan' = [loan EXCEPT ![l].status = closed]
      /\ loan[l].status = "Active"
      /\ active_loans_count' = active_loans_count - 1
      /\ token_config[t].active_loans_count >= 1
      /\ token_config' = [token_config EXCEPT ![t] = Settled(@, loan[l].sol_borrowed)]
  BY <1>t DEF ClosesLoan
<1>0. /\ loan \in [LoanId -> LoanRecord]
      /\ token_config \in [Token -> TokenConfigRecord]
  BY DEF TypeOK
<1>2. \A k \in LoanId :
        /\ loan'[k].status = IF k = l THEN closed ELSE loan[k].status
        /\ loan'[k].token_mint = loan[k].token_mint
  BY <1>0, <1>1 DEF LoanRecord
<1>3. ActiveLoans' = ActiveLoans \ {l} /\ l \in ActiveLoans
  BY <1>1, <1>2 DEF ActiveLoans, LoansWith, ClosedStatus
<1>a. ActiveLoans \subseteq LoanId
  BY DEF ActiveLoans, LoansWith
<1>4. ActiveOn(t)' = ActiveOn(t) \ {l} /\ l \in ActiveOn(t)
  BY <1>t, <1>2, <1>3, <1>a DEF ActiveOn
<1>5. \A u \in Token \ {t} : ActiveOn(u)' = ActiveOn(u)
  BY <1>t, <1>2, <1>3, <1>a DEF ActiveOn
<1>6. /\ Cardinality(ActiveLoans)' = Cardinality(ActiveLoans) - 1
      /\ Cardinality(ActiveOn(t))' = Cardinality(ActiveOn(t)) - 1
  <2>1. Cardinality(ActiveLoans \ {l}) = Cardinality(ActiveLoans) - 1
    BY ONLY <1>3, BookIsFinite, FS_RemoveElement
  <2>2. IsFiniteSet(ActiveOn(t)) /\ l \in ActiveOn(t)
    BY <1>0, <1>4, BookIsFinite
  <2>3. Cardinality(ActiveOn(t) \ {l}) = Cardinality(ActiveOn(t)) - 1
    BY ONLY <2>2, FS_RemoveElement
  <2> QED
    BY ONLY <1>3, <1>4, <2>1, <2>3
<1>7. /\ token_config'[t].active_loans_count = token_config[t].active_loans_count - 1
      /\ token_config'[t].listed = token_config[t].listed
  <2>1. token_config'[t] = Settled(token_config[t], loan[l].sol_borrowed)
    BY <1>0, <1>1
  <2>2. token_config[t] \in TokenConfigRecord
    BY <1>0
  <2> QED
    BY <2>1, <2>2, SettledFacts
<1>8. \A u \in Token \ {t} : token_config'[u] = token_config[u]
  BY <1>0, <1>1
<1>9. token_config[t].listed
  <2>1. token_config[t].active_loans_count # 0
    BY <1>0, <1>1 DEF TokenConfigRecord
  <2> QED
    BY <1>0, <2>1 DEF CountersInvariant, UnlistedIsEmpty
<1>10. CountersMatchBook'
  <2>1. active_loans_count' = Cardinality(ActiveLoans)'
    BY <1>1, <1>6 DEF CountersInvariant, CountersMatchBook
  <2>2. token_config'[t].active_loans_count = Cardinality(ActiveOn(t))'
    BY <1>0, <1>6, <1>7 DEF CountersInvariant, CountersMatchBook
  <2>3. \A u \in Token \ {t} :
          token_config'[u].active_loans_count = Cardinality(ActiveOn(u))'
    BY <1>5, <1>8 DEF CountersInvariant, CountersMatchBook
  <2> QED
    BY <2>1, <2>2, <2>3 DEF CountersMatchBook
<1>11. UnlistedIsEmpty'
  BY <1>7, <1>8, <1>9 DEF CountersInvariant, UnlistedIsEmpty
<1> QED
  BY <1>10, <1>11 DEF CountersInvariant

\* Every step keeps the counters and the loan book in agreement.
LEMMA CountersStep ==
  ASSUME TypeOK, Slots, CountersInvariant, [Next]_vars
  PROVE  CountersInvariant'
<1>1. CASE KeepsLoans
  <2>1. UNCHANGED <<ActiveLoans, active_loans_count>>
    BY <1>1 DEF KeepsLoans, ActiveLoans, LoansWith
  <2>2. \A t \in Token : ActiveOn(t)' = ActiveOn(t)
    BY <1>1, <2>1 DEF KeepsLoans, ActiveOn
  <2>3. ASSUME NEW t \in Token
        PROVE  /\ token_config'[t].active_loans_count = token_config[t].active_loans_count
               /\ \/ token_config'[t].listed
                  \/ token_config'[t].active_loans_count = 0
    BY <1>1 DEF KeepsLoans, KeepsCounter, CountersInvariant, UnlistedIsEmpty
  <2> QED
    BY <2>1, <2>2, <2>3 DEF CountersInvariant, CountersMatchBook, UnlistedIsEmpty
<1> QED
  BY <1>1, LoanStep, OpenCounters, CloseCounters

\* In the initial state there is nothing to count.
LEMMA InitCounters ==
  Init => CountersInvariant
<1> SUFFICES ASSUME Init PROVE CountersInvariant
  OBVIOUS
<1>1. ActiveLoans = {} /\ \A t \in Token : ActiveOn(t) = {}
  BY DEF Init, ActiveLoans, ActiveOn, LoansWith, NoLoan
<1> QED
  BY <1>1, FS_EmptySet DEF Init, CountersInvariant, CountersMatchBook, UnlistedIsEmpty,
     UnlistedToken

\* The loan counters of the protocol and of every token count the Active loans
\* in every reachable state.
THEOREM CountersCorrect == Spec => []CountersMatchBook
<1>1. Init => CountersInvariant
  BY InitCounters
<1>2. TypeOK /\ Slots /\ CountersInvariant /\ [Next]_vars => CountersInvariant'
  BY CountersStep
<1>3. CountersInvariant => CountersMatchBook
  BY DEF CountersInvariant
<1> QED
  BY <1>1, <1>2, <1>3, TypeCorrect, PTL DEF Spec

-----------------------------------------------------------------------------
(* What a step may never do to a loan, and the abstract life cycle.         *)

\* In every behaviour a loan account that is made keeps its terms, and one
\* that is closed is never touched again.
THEOREM TermsFixed == Spec => LoanTermsAreFixed
<1> DEFINE Fixed ==
      \A l \in LoanId :
        loan[l].status # "None" =>
          /\ [loan'[l] EXCEPT !.status = loan[l].status] = loan[l]
          /\ loan[l].status # "Active" => loan'[l] = loan[l]
<1>1. TypeOK /\ Slots /\ [Next]_vars => Fixed
  <2> SUFFICES ASSUME TypeOK, Slots, [Next]_vars, NEW k \in LoanId,
                      loan[k].status # "None"
               PROVE  /\ [loan'[k] EXCEPT !.status = loan[k].status] = loan[k]
                      /\ loan[k].status # "Active" => loan'[k] = loan[k]
    OBVIOUS
  <2>0. loan \in [LoanId -> LoanRecord] /\ loan[k] \in LoanRecord
    BY DEF TypeOK
  <2>1. CASE loan'[k] = loan[k]
    BY <2>0, <2>1 DEF LoanRecord
  <2>2. ASSUME NEW l \in LoanId, NEW new \in LoanRecord, OpensLoan(l, new)
        PROVE  loan'[k] = loan[k]
    BY <2>0, <2>2 DEF OpensLoan, Slots, LoanId
  <2>3. ASSUME NEW l \in LoanId, NEW closed \in ClosedStatus, ClosesLoan(l, closed)
        PROVE  \/ loan'[k] = loan[k]
               \/ /\ loan[k].status = "Active"
                  /\ loan'[k] = [loan[k] EXCEPT !.status = closed]
    BY <2>0, <2>3 DEF ClosesLoan
  <2>4. ASSUME NEW closed, loan'[k] = [loan[k] EXCEPT !.status = closed]
        PROVE  [loan'[k] EXCEPT !.status = loan[k].status] = loan[k]
    BY <2>0, <2>4 DEF LoanRecord
  <2>5. KeepsLoans => loan'[k] = loan[k]
    BY DEF KeepsLoans
  <2> QED
    BY <2>1, <2>2, <2>3, <2>4, <2>5, LoanStep
<1>2. TypeOK /\ Slots /\ [Next]_vars => [Fixed]_vars
  BY <1>1
<1> QED
  BY <1>2, TypeCorrect, PTL DEF Spec, LoanTermsAreFixed

\* Where the refinement mapping puts an open loan and a closed one.
MapsTo(l) ==
  /\ loan[l].status = "None" =>
       PhaseOf(loan[l].status) = "None" /\ CustodyOf(l) = "borrower"
  /\ loan[l].status = "Active" =>
       PhaseOf(loan[l].status) = "Open" /\ CustodyOf(l) = "vault"
  /\ loan[l].status = "Repaid" =>
       PhaseOf(loan[l].status) = "Redeemed" /\ CustodyOf(l) = "borrower"
  /\ loan[l].status \in {"LiquidatedTime", "LiquidatedPrice"} =>
       PhaseOf(loan[l].status) = "Seized" /\ CustodyOf(l) = "market"

Mapped == \A l \in LoanId : MapsTo(l)

\* In a state that satisfies the invariants the refinement mapping puts each
\* status where it belongs.
LEMMA MappedLoan ==
  TypeOK /\ Slots /\ VaultHoldsCollateral => Mapped
<1> SUFFICES ASSUME TypeOK, Slots, VaultHoldsCollateral, NEW l \in LoanId
             PROVE  MapsTo(l)
  BY DEF Mapped
<1>1. loan[l].status = "Active" => loan[l].collateral_amount > 0
  BY DEF Slots
<1>2. vault[l] = IF loan[l].status = "Active" THEN loan[l].collateral_amount ELSE 0
  BY DEF VaultHoldsCollateral
<1>3. loan[l].collateral_amount \in Nat
  BY DEF TypeOK, LoanRecord
<1> QED
  BY <1>1, <1>2, <1>3 DEF MapsTo, PhaseOf, CustodyOf

\* The lending program implements the life cycle of a loan: from unused to open
\* in the order of creation, and from open to redeemed or seized once, with the
\* collateral in custody accordingly.
THEOREM Refinement == Spec => ImplementsLifecycle
<1> DEFINE Inv == TypeOK /\ Slots /\ VaultHoldsCollateral
<1>1. Init => Lifecycle!Init
  <2> SUFFICES ASSUME Init PROVE Lifecycle!Init
    OBVIOUS
  <2>1. \A l \in LoanId : loan[l].status = "None" /\ vault[l] = 0
    BY DEF Init, NoLoan
  <2> QED
    BY <2>1 DEF Lifecycle!Init, Lifecycle!LoanId, LoanId, PhaseOf, CustodyOf
<1>a. Inv => Mapped
  BY MappedLoan
<1>b. Inv' => Mapped'
  BY <1>a, PTL
<1>2. Inv /\ Inv' /\ [Next]_vars => [Lifecycle!Next]_(Lifecycle!vars)
  <2> SUFFICES ASSUME Inv, Inv', [Next]_vars
               PROVE  [Lifecycle!Next]_(Lifecycle!vars)
    OBVIOUS
  <2>0. loan \in [LoanId -> LoanRecord] /\ vault \in [LoanId -> Nat]
    BY DEF TypeOK
  <2>m. ASSUME NEW k \in LoanId
        PROVE  MapsTo(k) /\ MapsTo(k)'
    BY <1>a, <1>b DEF Mapped
  <2>1. ASSUME NEW l \in LoanId, NEW new \in LoanRecord, OpensLoan(l, new)
        PROVE  Lifecycle!Open(l)
    <3>1. loan[l].status = "None" /\ loan'[l].status = "Active"
      BY <2>0, <2>1 DEF OpensLoan, Slots, LoanId
    <3>2. \A k \in LoanId : k < l => loan[k].status # "None"
      BY <2>1 DEF OpensLoan, Slots, LoanId
    <3>3. \A k \in LoanId : k # l => loan'[k] = loan[k] /\ vault'[k] = vault[k]
      BY <2>0, <2>1 DEF OpensLoan
    <3>4. \A k \in LoanId :
            /\ PhaseOf(loan[k].status)' = IF k = l THEN "Open" ELSE PhaseOf(loan[k].status)
            /\ CustodyOf(k)' = IF k = l THEN "vault" ELSE CustodyOf(k)
      BY <3>1, <3>3, <2>m DEF MapsTo, CustodyOf
    <3>5. PhaseOf(loan[l].status) = "None"
          /\ \A k \in LoanId : k < l => PhaseOf(loan[k].status) # "None"
      BY <3>1, <3>2, <2>m DEF PhaseOf
    <3> QED
      BY <3>4, <3>5 DEF Lifecycle!Open, Lifecycle!LoanId, LoanId
  <2>2. ASSUME NEW l \in LoanId, NEW closed \in ClosedStatus, ClosesLoan(l, closed)
        PROVE  Lifecycle!Redeem(l) \/ Lifecycle!Seize(l)
    <3>1. loan[l].status = "Active" /\ loan'[l].status = closed
      BY <2>0, <2>2 DEF ClosesLoan, LoanRecord
    <3>2. \A k \in LoanId : k # l => loan'[k] = loan[k] /\ vault'[k] = vault[k]
      BY <2>0, <2>2 DEF ClosesLoan
    <3>3. PhaseOf(loan[l].status) = "Open"
      BY <3>1 DEF PhaseOf
    <3>4. CASE closed = "Repaid"
      <4>1. \A k \in LoanId :
              /\ PhaseOf(loan[k].status)' = IF k = l THEN "Redeemed" ELSE PhaseOf(loan[k].status)
              /\ CustodyOf(k)' = IF k = l THEN "borrower" ELSE CustodyOf(k)
        BY <3>1, <3>2, <3>4, <2>m DEF MapsTo, CustodyOf
      <4> QED
        BY <3>3, <4>1 DEF Lifecycle!Redeem, Lifecycle!LoanId, LoanId
    <3>5. CASE closed # "Repaid"
      <4>1. \A k \in LoanId :
              /\ PhaseOf(loan[k].status)' = IF k = l THEN "Seized" ELSE PhaseOf(loan[k].status)
              /\ CustodyOf(k)' = IF k = l THEN "market" ELSE CustodyOf(k)
        BY <3>1, <3>2, <3>5, <2>m DEF MapsTo, CustodyOf, ClosedStatus
      <4> QED
        BY <3>3, <4>1 DEF Lifecycle!Seize, Lifecycle!LoanId, LoanId
    <3> QED
      BY <3>4, <3>5
  <2>3. CASE KeepsLoans
    BY <2>3 DEF KeepsLoans, CustodyOf, Lifecycle!vars
  <2> QED
    BY <2>1, <2>2, <2>3, LoanStep DEF Lifecycle!Next, Lifecycle!LoanId, LoanId
<1> QED
  BY <1>1, <1>2, TypeCorrect, VaultsCorrect, PTL DEF Spec, ImplementsLifecycle, Lifecycle!Spec

-----------------------------------------------------------------------------
(* The books of the lending program balance: what its accounts say is lent,  *)
(* what borrowers miss and what the protocol's lamports add up to agree with *)
(* the loans, and nothing in the books keeps a borrower from repaying.  The  *)
(* inductive invariant is the one above with the three sums.                 *)

\* What the protocol has out: funded and booked as earned, and no longer there.
Owed ==
  audit.funded + total_fees_earned + audit.fees_erased + audit.operations_proceeds
    - (treasury + reward_vault + operations + admin_sol)

\* The loans for which borrower b misses collateral of mint t.
Held(b, t) ==
  {l \in ActiveLoans \cup LiquidatedLoans :
     loan[l].borrower = b /\ loan[l].token_mint = t}

PrincipalOf == [l \in LoanId |-> loan[l].sol_borrowed]
CollateralOf == [l \in LoanId |-> loan[l].collateral_amount]

-----------------------------------------------------------------------------
(* What a step does to the sums in the accounts.                            *)

BookOpens(l, new) ==
  /\ OpensLoan(l, new)
  /\ new.borrower \in Borrower
  /\ total_sol_borrowed' = total_sol_borrowed + new.sol_borrowed
  /\ tokens' = [tokens EXCEPT
       ![new.borrower][new.token_mint] = @ - new.collateral_amount]
  /\ Owed' = Owed + new.sol_borrowed
  /\ audit' = audit

BookRedeems(l) ==
  /\ ClosesLoan(l, "Repaid")
  /\ total_sol_borrowed' = total_sol_borrowed - loan[l].sol_borrowed
  /\ tokens' = [tokens EXCEPT
       ![loan[l].borrower][loan[l].token_mint] = @ + loan[l].collateral_amount]
  /\ Owed' = Owed - loan[l].sol_borrowed
  /\ audit' = audit

BookSeizes(l, closed) ==
  /\ closed \in {"LiquidatedTime", "LiquidatedPrice"}
  /\ ClosesLoan(l, closed)
  /\ total_sol_borrowed' = total_sol_borrowed - loan[l].sol_borrowed
  /\ tokens' = tokens
  /\ Owed' = Owed
  /\ audit'.principal_erased = audit.principal_erased

KeepsExposure(t) ==
  \/ token_config'[t].total_active_borrowed = token_config[t].total_active_borrowed
  \/ ~token_config[t].listed /\ token_config'[t].total_active_borrowed = 0

BookKeeps ==
  /\ loan' = loan
  /\ tokens' = tokens
  /\ total_sol_borrowed' + audit'.principal_erased
       = total_sol_borrowed + audit.principal_erased
  /\ Owed' = Owed
  /\ \A t \in Token : KeepsExposure(t)

\* The lamports and the entries of the books are integers.
LEMMA MoneyType ==
  ASSUME TypeOK
  PROVE  /\ audit.funded \in Nat /\ audit.fees_erased \in Nat
         /\ audit.operations_proceeds \in Nat /\ audit.principal_erased \in Nat
         /\ total_fees_earned \in Nat /\ total_sol_borrowed \in Nat
         /\ treasury \in Nat /\ reward_vault \in Nat /\ operations \in Nat
         /\ admin_sol \in Nat
         /\ Owed \in Int
<1>1. /\ audit.funded \in Nat /\ audit.fees_erased \in Nat
      /\ audit.operations_proceeds \in Nat /\ audit.principal_erased \in Nat
  BY DEF TypeOK, AuditRecord
<1>2. /\ total_fees_earned \in Nat /\ total_sol_borrowed \in Nat
      /\ treasury \in Nat /\ reward_vault \in Nat /\ operations \in Nat
      /\ admin_sol \in Nat
  BY DEF TypeOK
<1> QED
  BY <1>1, <1>2 DEF Owed

\* Token administration changes no exposure except to start it at zero.
LEMMA TokenAdminKeepsBook ==
  ASSUME TypeOK, TokenAdmin
  PROVE  BookKeeps
<1> PICK t \in Token :
      \/ \E terms \in Terms : WhitelistToken(t, terms)
      \/ \E enabled \in BOOLEAN, ltv_bps \in LtvChoices, pool_type \in PoolType :
           UpdateTokenConfig(t, enabled, ltv_bps, pool_type)
      \/ \E blacklisted \in BlacklistChoices : SetBlacklisted(t, blacklisted)
  BY DEF TokenAdmin
<1>0. token_config \in [Token -> TokenConfigRecord] /\ token_config[t] \in TokenConfigRecord
  BY DEF TypeOK
<1>1. /\ UNCHANGED <<protocolVars, loanVars, moneyVars, audit>>
      /\ KeepsExposure(t)
      /\ \A u \in Token : u # t => token_config'[u] = token_config[u]
  <2>1. ASSUME NEW terms \in Terms, WhitelistToken(t, terms)
        PROVE  <1>1!:
    <3>1. /\ UNCHANGED <<protocolVars, loanVars, moneyVars, audit>>
          /\ ~token_config[t].listed
      BY <2>1 DEF WhitelistToken, Whitelistable
    <3>2. token_config'[t].total_active_borrowed = 0
      BY <1>0, <2>1 DEF WhitelistToken, UnlistedToken
    <3>3. \A u \in Token : u # t => token_config'[u] = token_config[u]
      BY <1>0, <2>1 DEF WhitelistToken
    <3> QED
      BY <3>1, <3>2, <3>3 DEF KeepsExposure
  <2>2. ASSUME NEW on \in BOOLEAN, NEW ltv \in LtvChoices, NEW pool \in PoolType,
               UpdateTokenConfig(t, on, ltv, pool)
        PROVE  <1>1!:
    <3>1. UNCHANGED <<protocolVars, loanVars, moneyVars, audit>>
      BY <2>2 DEF UpdateTokenConfig
    <3>2. token_config'[t] = Updated(token_config[t], on, ltv, pool)
      BY <1>0, <2>2 DEF UpdateTokenConfig
    <3>3. token_config'[t].total_active_borrowed = token_config[t].total_active_borrowed
      BY <1>0, <3>2 DEF Updated, TokenConfigRecord
    <3>4. \A u \in Token : u # t => token_config'[u] = token_config[u]
      BY <1>0, <2>2 DEF UpdateTokenConfig
    <3> QED
      BY <3>1, <3>3, <3>4 DEF KeepsExposure
  <2>3. ASSUME NEW blacklisted \in BlacklistChoices, SetBlacklisted(t, blacklisted)
        PROVE  <1>1!:
    <3>1. UNCHANGED <<protocolVars, loanVars, moneyVars, audit>>
      BY <2>3 DEF SetBlacklisted
    <3>2. token_config'[t].total_active_borrowed = token_config[t].total_active_borrowed
      BY <1>0, <2>3 DEF SetBlacklisted, TokenConfigRecord
    <3>3. \A u \in Token : u # t => token_config'[u] = token_config[u]
      BY <1>0, <2>3 DEF SetBlacklisted
    <3> QED
      BY <3>1, <3>2, <3>3 DEF KeepsExposure
  <2> QED
    BY <2>1, <2>2, <2>3
<1>2. \A u \in Token : KeepsExposure(u)
  BY <1>1 DEF KeepsExposure
<1> QED
  BY <1>1, <1>2 DEF BookKeeps, Owed, protocolVars, loanVars, moneyVars

\* Funding, withdrawing, pausing and draining move lamports and entries alike.
LEMMA ProtocolAdminKeepsBook ==
  ASSUME TypeOK, ProtocolAdmin
  PROVE  BookKeeps
<1>1. UNCHANGED <<loanVars, token_config>>
  BY DEF ProtocolAdmin, FundTreasury, WithdrawTreasury, SetPaused, EmergencyDrain
<1>2. /\ total_sol_borrowed' + audit'.principal_erased
           = total_sol_borrowed + audit.principal_erased
      /\ Owed' = Owed
  <2>0. audit \in AuditRecord
    BY DEF TypeOK
  <2>1. ASSUME NEW amount \in FundAmounts, FundTreasury(amount)
        PROVE  <1>2!:
    <3>1. amount \in Nat
      BY LendingAssumption
    <3>2. /\ treasury' = treasury + amount
          /\ audit' = [audit EXCEPT !.funded = @ + amount]
          /\ UNCHANGED <<protocolVars, reward_vault, operations, admin_sol>>
      BY <2>1 DEF FundTreasury
    <3>3. /\ audit'.funded = audit.funded + amount
          /\ audit'.fees_erased = audit.fees_erased
          /\ audit'.operations_proceeds = audit.operations_proceeds
          /\ audit'.principal_erased = audit.principal_erased
      BY <2>0, <3>2 DEF AuditRecord
    <3> QED
      BY <3>1, <3>2, <3>3, MoneyType DEF Owed, protocolVars
  <2>2. ASSUME NEW amount \in WithdrawAmounts, WithdrawTreasury(amount)
        PROVE  <1>2!:
    <3>1. amount \in Nat
      BY LendingAssumption
    <3>2. /\ treasury' = treasury - amount
          /\ admin_sol' = admin_sol + amount
          /\ UNCHANGED <<protocolVars, reward_vault, operations, audit>>
      BY <2>2 DEF WithdrawTreasury
    <3> QED
      BY <3>1, <3>2, MoneyType DEF Owed, protocolVars
  <2>3. ASSUME NEW value \in BOOLEAN, SetPaused(value)
        PROVE  <1>2!:
    BY <2>3 DEF SetPaused, Owed, moneyVars
  <2>4. ASSUME EmergencyDrain
        PROVE  <1>2!:
    <3>2. /\ treasury' = 0 /\ total_sol_borrowed' = 0 /\ total_fees_earned' = 0
          /\ admin_sol' = admin_sol + treasury
          /\ UNCHANGED <<reward_vault, operations>>
      BY <2>4 DEF EmergencyDrain
    <3>3. /\ audit'.funded = audit.funded
          /\ audit'.fees_erased = audit.fees_erased + total_fees_earned
          /\ audit'.operations_proceeds = audit.operations_proceeds
          /\ audit'.principal_erased = audit.principal_erased + total_sol_borrowed
      BY <2>0, <2>4 DEF EmergencyDrain, AuditRecord
    <3> QED
      BY <3>2, <3>3, MoneyType DEF Owed
  <2> QED
    BY <2>1, <2>2, <2>3, <2>4 DEF ProtocolAdmin
<1> QED
  BY <1>1, <1>2 DEF BookKeeps, KeepsExposure, loanVars
\* Every step opens, redeems or seizes one loan, in the books as in the loan
\* accounts, or leaves the sums alone.
LEMMA BookStep ==
  ASSUME TypeOK, Slots, [Next]_vars
  PROVE  \/ \E l \in LoanId, new \in LoanRecord : BookOpens(l, new)
         \/ \E l \in LoanId : BookRedeems(l)
         \/ \E l \in LoanId, closed \in ClosedStatus : BookSeizes(l, closed)
         \/ BookKeeps
<1>1. CASE Tick
  BY <1>1 DEF Tick, BookKeeps, KeepsExposure, Owed, protocolVars, loanVars, moneyVars
<1>2. CASE TokenAdmin
  BY <1>2, TokenAdminKeepsBook
<1>3. CASE Borrow
  <2>1. PICK b \in Borrower, t \in Token, c \in CollateralAmounts, d \in Durations,
             p \in ApprovedPrices, q \in PoolPrices : CreateLoan(b, t, c, d, p, q)
    BY <1>3 DEF Borrow
  <2> DEFINE new == QuotedLoan(b, t, c, d, p)
  <2>2. /\ total_loans_created < MaxLoans /\ c > 0
        /\ token_config[t].listed
        /\ LiquidationDivisor(c, token_config[t].ltv_bps) > 0
        /\ loan' = [loan EXCEPT ![total_loans_created] = new]
        /\ vault' = [vault EXCEPT ![total_loans_created] = c]
        /\ total_loans_created' = total_loans_created + 1
        /\ active_loans_count' = active_loans_count + 1
        /\ token_config' = [token_config EXCEPT ![t] = Lent(@, new.sol_borrowed)]
    BY <2>1 DEF CreateLoan
  <2>3. /\ total_sol_borrowed' = total_sol_borrowed + new.sol_borrowed
        /\ tokens' = [tokens EXCEPT ![b][t] = @ - c]
        /\ treasury' = treasury - new.sol_borrowed
        /\ UNCHANGED <<total_fees_earned, reward_vault, operations, admin_sol, audit>>
    BY <2>1 DEF CreateLoan
  <2>4. c \in Nat /\ d \in Nat /\ p \in Nat /\ MaxLoans \in Nat
    BY LendingAssumption
  <2>5. new \in LoanRecord
    BY <2>2, <2>4, QuoteIsLoan
  <2>6. new.status = "Active" /\ new.token_mint = t /\ new.collateral_amount = c
        /\ new.borrower = b
    BY DEF QuotedLoan
  <2>7. total_loans_created \in LoanId
    BY <2>2, <2>4 DEF TypeOK, LoanId
  <2> HIDE DEF new
  <2>8. OpensLoan(total_loans_created, new)
    BY <2>2, <2>6 DEF OpensLoan
  <2>9. new.sol_borrowed \in Nat
    BY <2>5 DEF LoanRecord
  <2>10. Owed' = Owed + new.sol_borrowed
    BY <2>3, <2>9, MoneyType DEF Owed
  <2>11. BookOpens(total_loans_created, new)
    BY <2>3, <2>6, <2>8, <2>10 DEF BookOpens
  <2> QED
    BY <2>5, <2>7, <2>11
<1>4. CASE Repay
  <2>1. PICK l \in LoanId : RepayLoan(l)
    BY <1>4 DEF Repay
  <2>2. ClosesLoan(l, "Repaid")
    BY <2>1 DEF RepayLoan, ReturnCollateral, RemoveFromBooks, LeavesTheBooks, ClosesLoan
  <2>3. PICK s, fee : s = loan[l].sol_borrowed /\ fee = ProtocolFee(s)
    OBVIOUS
  <2>4. /\ total_sol_borrowed' = total_sol_borrowed - s
        /\ tokens' = [tokens EXCEPT
             ![loan[l].borrower][loan[l].token_mint] = @ + loan[l].collateral_amount]
        /\ treasury' = treasury + s + TreasuryFeeWithDust(fee)
        /\ reward_vault' = reward_vault + StakingFee(fee)
        /\ operations' = operations + OperationsFee(fee)
        /\ total_fees_earned' = total_fees_earned + fee
        /\ UNCHANGED <<admin_sol, audit>>
    BY <2>1, <2>3 DEF RepayLoan, ReturnCollateral, RemoveFromBooks
  <2>5. s \in Nat
    BY <2>3 DEF TypeOK, LoanRecord
  <2>6. /\ fee \in Nat /\ StakingFee(fee) \in Nat /\ OperationsFee(fee) \in Nat
        /\ TreasuryFeeWithDust(fee) \in Nat
        /\ TreasuryFeeWithDust(fee) + StakingFee(fee) + OperationsFee(fee) = fee
    BY <2>3, <2>5, FeeSplit
  <2>7. Owed' = Owed - s
    BY <2>4, <2>5, <2>6, MoneyType DEF Owed
  <2> QED
    BY <2>2, <2>3, <2>4, <2>7 DEF BookRedeems
<1>5. CASE \E l \in LoanId : LiquidateLoan(l)
  <2>1. PICK l \in LoanId, q \in PoolPrices, s \in SwapProceeds : Liquidate(l, q, s)
    BY <1>5 DEF LiquidateLoan
  <2>2. PICK reason \in {"LiquidatedPrice", "LiquidatedTime"} :
          loan' = [loan EXCEPT ![l].status = reason]
    BY <2>1 DEF Liquidate
  <2>3. /\ loan[l].status = "Active"
        /\ vault' = [vault EXCEPT ![l] = 0]
        /\ total_loans_created' = total_loans_created
        /\ RemoveFromBooks(l)
        /\ tokens' = tokens
    BY <2>1 DEF Liquidate, LiquidationAllowed
  <2>4. ClosesLoan(l, reason)
    BY <2>2, <2>3 DEF RemoveFromBooks, LeavesTheBooks, ClosesLoan
  <2>5. s \in Nat
    BY LendingAssumption
  <2>6. /\ TreasuryShare(s) \in Nat /\ OperationsShare(s) \in Nat
    BY <2>5, ProceedsSplit
  <2>7. /\ treasury' = treasury + TreasuryShare(s)
        /\ operations' = operations + OperationsShare(s)
        /\ total_fees_earned' = total_fees_earned + TreasuryShare(s)
        /\ audit' = [audit EXCEPT !.operations_proceeds = @ + OperationsShare(s)]
        /\ UNCHANGED <<reward_vault, admin_sol>>
    BY <2>1 DEF Liquidate
  <2>8. /\ audit'.funded = audit.funded
        /\ audit'.fees_erased = audit.fees_erased
        /\ audit'.operations_proceeds = audit.operations_proceeds + OperationsShare(s)
        /\ audit'.principal_erased = audit.principal_erased
    BY <2>7 DEF TypeOK, AuditRecord
  <2>9. Owed' = Owed
    BY <2>6, <2>7, <2>8, MoneyType DEF Owed
  <2>10. BookSeizes(l, reason)
    BY <2>3, <2>4, <2>8, <2>9 DEF BookSeizes, RemoveFromBooks
  <2> QED
    BY <2>10 DEF ClosedStatus
<1>6. CASE ProtocolAdmin
  BY <1>6, ProtocolAdminKeepsBook
<1>7. CASE UNCHANGED vars
  BY <1>7 DEF BookKeeps, KeepsExposure, Owed, vars, protocolVars, loanVars, moneyVars
<1> QED
  BY <1>1, <1>2, <1>3, <1>4, <1>5, <1>6, <1>7 DEF Next
-----------------------------------------------------------------------------
(* The sums over the loans.                                                 *)

\* The sets that are summed over are finite, and what is summed is unsigned.
LEMMA SumsAreFinite ==
  ASSUME TypeOK
  PROVE  /\ \A S \in SUBSET LoanId : IsFiniteSet(S)
         /\ ActiveLoans \in SUBSET LoanId /\ LiquidatedLoans \in SUBSET LoanId
         /\ \A t \in Token : ActiveOn(t) \in SUBSET LoanId
         /\ \A b \in Borrower, t \in Token : Held(b, t) \in SUBSET LoanId
         /\ \A l \in LoanId : PrincipalOf[l] \in Nat /\ CollateralOf[l] \in Nat
<1>1. \A S \in SUBSET LoanId : IsFiniteSet(S)
  <2>1. IsFiniteSet(LoanId)
    BY LendingAssumption, FS_Interval DEF LoanId
  <2> QED
    BY <2>1, FS_Subset
<1>2. ActiveLoans \in SUBSET LoanId /\ LiquidatedLoans \in SUBSET LoanId
  BY DEF ActiveLoans, LiquidatedLoans, LoansWith
<1>3. \A l \in LoanId : PrincipalOf[l] \in Nat /\ CollateralOf[l] \in Nat
  BY DEF PrincipalOf, CollateralOf, TypeOK, LoanRecord
<1> QED
  BY <1>1, <1>2, <1>3 DEF ActiveOn, Held

\* A new loan joins the Active loans, those of its mint and those held for its
\* borrower, and no other set.
LEMMA OpenSets ==
  ASSUME TypeOK, Slots, NEW l \in LoanId, NEW new \in LoanRecord, BookOpens(l, new)
  PROVE  /\ \A k \in LoanId : k # l => /\ PrincipalOf'[k] = PrincipalOf[k]
                                       /\ CollateralOf'[k] = CollateralOf[k]
         /\ PrincipalOf'[l] = new.sol_borrowed
         /\ CollateralOf'[l] = new.collateral_amount
         /\ l \notin ActiveLoans /\ l \notin LiquidatedLoans
         /\ ActiveLoans' = ActiveLoans \cup {l}
         /\ LiquidatedLoans' = LiquidatedLoans
         /\ \A t \in Token :
              ActiveOn(t)' = IF t = new.token_mint THEN ActiveOn(t) \cup {l} ELSE ActiveOn(t)
         /\ \A b \in Borrower, t \in Token :
              Held(b, t)' = IF b = new.borrower /\ t = new.token_mint
                            THEN Held(b, t) \cup {l} ELSE Held(b, t)
<1>1. /\ l = total_loans_created /\ new.status = "Active"
      /\ loan' = [loan EXCEPT ![l] = new] /\ loan \in [LoanId -> LoanRecord]
  BY DEF BookOpens, OpensLoan, TypeOK
<1>2. loan[l].status = "None"
  BY <1>1 DEF Slots, LoanId
<1>3. loan'[l] = new /\ \A k \in LoanId : k # l => loan'[k] = loan[k]
  BY <1>1
<1>4. /\ \A k \in LoanId : k # l => /\ PrincipalOf'[k] = PrincipalOf[k]
                                    /\ CollateralOf'[k] = CollateralOf[k]
      /\ PrincipalOf'[l] = new.sol_borrowed
      /\ CollateralOf'[l] = new.collateral_amount
  BY <1>3 DEF PrincipalOf, CollateralOf
<1>5. l \notin ActiveLoans /\ l \notin LiquidatedLoans
  BY <1>2 DEF ActiveLoans, LiquidatedLoans, LoansWith
<1>6. ActiveLoans' = ActiveLoans \cup {l}
  BY <1>1, <1>3, <1>5 DEF ActiveLoans, LoansWith
<1>7. LiquidatedLoans' = LiquidatedLoans
  BY <1>1, <1>3, <1>5 DEF LiquidatedLoans, LoansWith
<1>8. ActiveLoans \in SUBSET LoanId /\ LiquidatedLoans \in SUBSET LoanId
  BY SumsAreFinite
<1>9. ASSUME NEW t \in Token
      PROVE  ActiveOn(t)' = IF t = new.token_mint THEN ActiveOn(t) \cup {l} ELSE ActiveOn(t)
  BY <1>3, <1>5, <1>6, <1>8 DEF ActiveOn
<1>10. ASSUME NEW b \in Borrower, NEW t \in Token
       PROVE  Held(b, t)' = IF b = new.borrower /\ t = new.token_mint
                            THEN Held(b, t) \cup {l} ELSE Held(b, t)
  BY <1>3, <1>5, <1>6, <1>7, <1>8 DEF Held
<1> QED
  BY <1>4, <1>5, <1>6, <1>7, <1>9, <1>10

\* A loan that is closed leaves the Active loans; repaid, it is held no longer,
\* and liquidated it is held for good.
LEMMA CloseSets ==
  ASSUME TypeOK, Slots, NEW l \in LoanId, NEW closed \in ClosedStatus,
         ClosesLoan(l, closed)
  PROVE  /\ PrincipalOf' = PrincipalOf /\ CollateralOf' = CollateralOf
         /\ l \in ActiveLoans /\ l \notin LiquidatedLoans
         /\ ActiveLoans' = ActiveLoans \ {l}
         /\ LiquidatedLoans' = IF closed = "Repaid" THEN LiquidatedLoans
                               ELSE LiquidatedLoans \cup {l}
         /\ \A t \in Token :
              ActiveOn(t)' = IF t = loan[l].token_mint THEN ActiveOn(t) \ {l} ELSE ActiveOn(t)
         /\ \A b \in Borrower, t \in Token :
              Held(b, t)' = IF closed = "Repaid" THEN Held(b, t) \ {l} ELSE Held(b, t)
<1>1. /\ loan[l].status = "Active" /\ loan \in [LoanId -> LoanRecord]
      /\ loan' = [loan EXCEPT ![l].status = closed]
  BY DEF ClosesLoan, TypeOK
<1>2. \A k \in LoanId :
        /\ loan'[k].status = IF k = l THEN closed ELSE loan[k].status
        /\ loan'[k].borrower = loan[k].borrower
        /\ loan'[k].token_mint = loan[k].token_mint
        /\ loan'[k].sol_borrowed = loan[k].sol_borrowed
        /\ loan'[k].collateral_amount = loan[k].collateral_amount
  BY <1>1 DEF LoanRecord
<1>3. PrincipalOf' = PrincipalOf /\ CollateralOf' = CollateralOf
  BY <1>2 DEF PrincipalOf, CollateralOf
<1>4. l \in ActiveLoans /\ l \notin LiquidatedLoans
  BY <1>1 DEF ActiveLoans, LiquidatedLoans, LoansWith
<1>5. ActiveLoans' = ActiveLoans \ {l}
  BY <1>1, <1>2 DEF ActiveLoans, LoansWith, ClosedStatus
<1>6. LiquidatedLoans' = IF closed = "Repaid" THEN LiquidatedLoans
                         ELSE LiquidatedLoans \cup {l}
  BY <1>1, <1>2 DEF LiquidatedLoans, LoansWith, ClosedStatus
<1>7. ActiveLoans \in SUBSET LoanId /\ LiquidatedLoans \in SUBSET LoanId
  BY SumsAreFinite
<1>8. ASSUME NEW t \in Token
      PROVE  ActiveOn(t)' = IF t = loan[l].token_mint THEN ActiveOn(t) \ {l} ELSE ActiveOn(t)
  BY <1>2, <1>5, <1>7 DEF ActiveOn
<1>9. ASSUME NEW b \in Borrower, NEW t \in Token
      PROVE  Held(b, t)' = IF closed = "Repaid" THEN Held(b, t) \ {l} ELSE Held(b, t)
  BY <1>2, <1>4, <1>5, <1>6, <1>7 DEF Held
<1> QED
  BY <1>3, <1>4, <1>5, <1>6, <1>8, <1>9

\* Where the loans stay, so do the sets.
LEMMA KeptSets ==
  ASSUME BookKeeps
  PROVE  /\ PrincipalOf' = PrincipalOf /\ CollateralOf' = CollateralOf
         /\ ActiveLoans' = ActiveLoans /\ LiquidatedLoans' = LiquidatedLoans
         /\ \A t \in Token : ActiveOn(t)' = ActiveOn(t)
         /\ \A b \in Borrower, t \in Token : Held(b, t)' = Held(b, t)
  BY DEF BookKeeps, PrincipalOf, CollateralOf, ActiveLoans, LiquidatedLoans, LoansWith,
     ActiveOn, Held

\* A new loan adds its principal and its collateral where it belongs.
LEMMA OpenSums ==
  ASSUME TypeOK, Slots, NEW l \in LoanId, NEW new \in LoanRecord, BookOpens(l, new)
  PROVE  /\ Principal(ActiveLoans)' = Principal(ActiveLoans) + new.sol_borrowed
         /\ Principal(LiquidatedLoans)' = Principal(LiquidatedLoans)
         /\ \A t \in Token :
              Principal(ActiveOn(t))' =
                IF t = new.token_mint THEN Principal(ActiveOn(t)) + new.sol_borrowed
                ELSE Principal(ActiveOn(t))
         /\ \A b \in Borrower, t \in Token :
              Collateral(Held(b, t))' =
                IF b = new.borrower /\ t = new.token_mint
                THEN Collateral(Held(b, t)) + new.collateral_amount
                ELSE Collateral(Held(b, t))
<1>1. PICK f, g, u, v : /\ f = PrincipalOf /\ g = PrincipalOf'
                        /\ u = CollateralOf /\ v = CollateralOf'
  OBVIOUS
<1>2. /\ \A S : Principal(S) = SumFunctionOnSet(f, S) /\ Collateral(S) = SumFunctionOnSet(u, S)
      /\ Principal(ActiveLoans)' = SumFunctionOnSet(g, ActiveLoans')
      /\ Principal(LiquidatedLoans)' = SumFunctionOnSet(g, LiquidatedLoans')
      /\ \A t \in Token : Principal(ActiveOn(t))' = SumFunctionOnSet(g, ActiveOn(t)')
      /\ \A b \in Borrower, t \in Token :
           Collateral(Held(b, t))' = SumFunctionOnSet(v, Held(b, t)')
  BY <1>1 DEF Principal, Collateral, PrincipalOf, CollateralOf
<1>3. /\ \A k \in LoanId : k # l => g[k] = f[k] /\ v[k] = u[k]
      /\ \A k \in LoanId : f[k] \in Nat /\ u[k] \in Nat
      /\ g[l] = new.sol_borrowed /\ v[l] = new.collateral_amount
      /\ g[l] \in Nat /\ v[l] \in Nat
  BY <1>1, OpenSets, SumsAreFinite DEF LoanRecord
<1>4. ASSUME NEW S \in SUBSET LoanId, l \notin S
      PROVE  /\ SumFunctionOnSet(g, S \cup {l}) = SumFunctionOnSet(f, S) + new.sol_borrowed
             /\ SumFunctionOnSet(g, S) = SumFunctionOnSet(f, S)
             /\ SumFunctionOnSet(v, S \cup {l}) = SumFunctionOnSet(u, S) + new.collateral_amount
             /\ SumFunctionOnSet(v, S) = SumFunctionOnSet(u, S)
  <2>1. /\ IsFiniteSet(S)
        /\ \A k \in S : f[k] \in Nat /\ g[k] = f[k]
        /\ \A k \in S : u[k] \in Nat /\ v[k] = u[k]
        /\ l \notin S /\ g[l] \in Nat /\ v[l] \in Nat
    BY <1>3, <1>4, SumsAreFinite
  <2>2. SumFunctionOnSet(g, S \cup {l}) = SumFunctionOnSet(f, S) + g[l]
    BY ONLY <2>1, SumGrows
  <2>3. SumFunctionOnSet(v, S \cup {l}) = SumFunctionOnSet(u, S) + v[l]
    BY ONLY <2>1, SumGrows
  <2>4. SumFunctionOnSet(g, S) = SumFunctionOnSet(f, S)
    BY ONLY <2>1, SumFrame
  <2>5. SumFunctionOnSet(v, S) = SumFunctionOnSet(u, S)
    BY ONLY <2>1, SumFrame
  <2> QED
    BY <1>3, <2>2, <2>3, <2>4, <2>5
<1>5. /\ ActiveLoans \in SUBSET LoanId /\ l \notin ActiveLoans
      /\ LiquidatedLoans \in SUBSET LoanId /\ l \notin LiquidatedLoans
      /\ \A t \in Token : ActiveOn(t) \in SUBSET LoanId /\ l \notin ActiveOn(t)
      /\ \A b \in Borrower, t \in Token : Held(b, t) \in SUBSET LoanId /\ l \notin Held(b, t)
  BY OpenSets, SumsAreFinite DEF ActiveOn, Held
<1>6. Principal(ActiveLoans)' = Principal(ActiveLoans) + new.sol_borrowed
  BY <1>2, <1>4, <1>5, OpenSets
<1>7. Principal(LiquidatedLoans)' = Principal(LiquidatedLoans)
  BY <1>2, <1>4, <1>5, OpenSets
<1>8. ASSUME NEW t \in Token
      PROVE  Principal(ActiveOn(t))' =
               IF t = new.token_mint THEN Principal(ActiveOn(t)) + new.sol_borrowed
               ELSE Principal(ActiveOn(t))
  <2>1. ActiveOn(t)' = IF t = new.token_mint THEN ActiveOn(t) \cup {l} ELSE ActiveOn(t)
    BY OpenSets
  <2>2. PICK S \in SUBSET LoanId : S = ActiveOn(t) /\ l \notin S
    BY <1>5
  <2>3. Principal(ActiveOn(t))' = SumFunctionOnSet(g, ActiveOn(t)')
        /\ Principal(ActiveOn(t)) = SumFunctionOnSet(f, S)
    BY <1>2, <2>2
  <2> QED
    BY <1>4, <2>1, <2>2, <2>3
<1>9. ASSUME NEW b \in Borrower, NEW t \in Token
      PROVE  Collateral(Held(b, t))' =
               IF b = new.borrower /\ t = new.token_mint
               THEN Collateral(Held(b, t)) + new.collateral_amount
               ELSE Collateral(Held(b, t))
  <2>1. Held(b, t)' = IF b = new.borrower /\ t = new.token_mint
                      THEN Held(b, t) \cup {l} ELSE Held(b, t)
    BY OpenSets
  <2>2. PICK S \in SUBSET LoanId : S = Held(b, t) /\ l \notin S
    BY <1>5
  <2>3. Collateral(Held(b, t))' = SumFunctionOnSet(v, Held(b, t)')
        /\ Collateral(Held(b, t)) = SumFunctionOnSet(u, S)
    BY <1>2, <2>2
  <2> QED
    BY <1>4, <2>1, <2>2, <2>3
<1> QED
  BY <1>6, <1>7, <1>8, <1>9

\* A loan that is closed takes its principal along, and its collateral when it
\* is repaid; a liquidated loan's principal stays with the liquidated.
LEMMA CloseSums ==
  ASSUME TypeOK, Slots, NEW l \in LoanId, NEW closed \in ClosedStatus,
         ClosesLoan(l, closed)
  PROVE  /\ Principal(ActiveLoans)' = Principal(ActiveLoans) - loan[l].sol_borrowed
         /\ Principal(LiquidatedLoans)' =
              IF closed = "Repaid" THEN Principal(LiquidatedLoans)
              ELSE Principal(LiquidatedLoans) + loan[l].sol_borrowed
         /\ \A t \in Token :
              Principal(ActiveOn(t))' =
                IF t = loan[l].token_mint THEN Principal(ActiveOn(t)) - loan[l].sol_borrowed
                ELSE Principal(ActiveOn(t))
         /\ \A b \in Borrower, t \in Token :
              Collateral(Held(b, t))' =
                IF closed = "Repaid" /\ b = loan[l].borrower /\ t = loan[l].token_mint
                THEN Collateral(Held(b, t)) - loan[l].collateral_amount
                ELSE Collateral(Held(b, t))
<1>1. PICK f, u : f = PrincipalOf /\ u = CollateralOf
  OBVIOUS
<1>2. /\ \A S : Principal(S) = SumFunctionOnSet(f, S) /\ Collateral(S) = SumFunctionOnSet(u, S)
      /\ Principal(ActiveLoans)' = SumFunctionOnSet(f, ActiveLoans')
      /\ Principal(LiquidatedLoans)' = SumFunctionOnSet(f, LiquidatedLoans')
      /\ \A t \in Token : Principal(ActiveOn(t))' = SumFunctionOnSet(f, ActiveOn(t)')
      /\ \A b \in Borrower, t \in Token :
           Collateral(Held(b, t))' = SumFunctionOnSet(u, Held(b, t)')
  BY <1>1, CloseSets DEF Principal, Collateral, PrincipalOf, CollateralOf
<1>3. /\ \A k \in LoanId : f[k] \in Nat /\ u[k] \in Nat
      /\ f[l] = loan[l].sol_borrowed /\ u[l] = loan[l].collateral_amount
  BY <1>1, SumsAreFinite DEF PrincipalOf, CollateralOf
<1>4. ASSUME NEW S \in SUBSET LoanId
      PROVE  /\ l \in S =>
                  /\ SumFunctionOnSet(f, S \ {l}) = SumFunctionOnSet(f, S) - loan[l].sol_borrowed
                  /\ SumFunctionOnSet(u, S \ {l}) = SumFunctionOnSet(u, S) - loan[l].collateral_amount
             /\ l \notin S =>
                  SumFunctionOnSet(f, S \cup {l}) = SumFunctionOnSet(f, S) + loan[l].sol_borrowed
  <2>1. IsFiniteSet(S) /\ \A k \in S : f[k] \in Nat /\ u[k] \in Nat
    BY <1>3, SumsAreFinite
  <2>2. l \in S => SumFunctionOnSet(f, S \ {l}) = SumFunctionOnSet(f, S) - f[l]
    BY ONLY <2>1, SumShrinks
  <2>3. l \in S => SumFunctionOnSet(u, S \ {l}) = SumFunctionOnSet(u, S) - u[l]
    BY ONLY <2>1, SumShrinks
  <2>4. l \notin S => SumFunctionOnSet(f, S \cup {l}) = SumFunctionOnSet(f, S) + f[l]
    <3>1. f[l] \in Nat
      BY <1>3
    <3> QED
      BY ONLY <2>1, <3>1, SumAdd
  <2> QED
    BY <1>3, <2>2, <2>3, <2>4
<1>5. /\ ActiveLoans \in SUBSET LoanId /\ l \in ActiveLoans
      /\ LiquidatedLoans \in SUBSET LoanId /\ l \notin LiquidatedLoans
      /\ \A t \in Token : /\ ActiveOn(t) \in SUBSET LoanId
                          /\ l \in ActiveOn(t) <=> t = loan[l].token_mint
      /\ \A b \in Borrower, t \in Token :
           /\ Held(b, t) \in SUBSET LoanId
           /\ l \in Held(b, t) <=> b = loan[l].borrower /\ t = loan[l].token_mint
  BY CloseSets, SumsAreFinite DEF ActiveOn, Held
<1>6. Principal(ActiveLoans)' = Principal(ActiveLoans) - loan[l].sol_borrowed
  BY <1>2, <1>4, <1>5, CloseSets
<1>7. Principal(LiquidatedLoans)' =
        IF closed = "Repaid" THEN Principal(LiquidatedLoans)
        ELSE Principal(LiquidatedLoans) + loan[l].sol_borrowed
  BY <1>2, <1>4, <1>5, CloseSets
<1>8. ASSUME NEW t \in Token
      PROVE  Principal(ActiveOn(t))' =
               IF t = loan[l].token_mint THEN Principal(ActiveOn(t)) - loan[l].sol_borrowed
               ELSE Principal(ActiveOn(t))
  BY <1>2, <1>4, <1>5, CloseSets
<1>9. ASSUME NEW b \in Borrower, NEW t \in Token
      PROVE  Collateral(Held(b, t))' =
               IF closed = "Repaid" /\ b = loan[l].borrower /\ t = loan[l].token_mint
               THEN Collateral(Held(b, t)) - loan[l].collateral_amount
               ELSE Collateral(Held(b, t))
  <2>1. Held(b, t)' = IF closed = "Repaid" THEN Held(b, t) \ {l} ELSE Held(b, t)
    BY CloseSets
  <2>2. PICK S \in SUBSET LoanId :
          S = Held(b, t) /\ (l \in S <=> b = loan[l].borrower /\ t = loan[l].token_mint)
    BY <1>5
  <2>3. Collateral(Held(b, t))' = SumFunctionOnSet(u, Held(b, t)')
        /\ Collateral(Held(b, t)) = SumFunctionOnSet(u, S)
    BY <1>2, <2>2
  <2>4. S \ {l} = S \/ l \in S
    OBVIOUS
  <2> QED
    BY <1>4, <2>1, <2>2, <2>3, <2>4
<1> QED
  BY <1>6, <1>7, <1>8, <1>9

\* A step that keeps the loans keeps the sums.
LEMMA KeptSums ==
  ASSUME BookKeeps
  PROVE  /\ Principal(ActiveLoans)' = Principal(ActiveLoans)
         /\ Principal(LiquidatedLoans)' = Principal(LiquidatedLoans)
         /\ \A t \in Token : Principal(ActiveOn(t))' = Principal(ActiveOn(t))
         /\ \A b \in Borrower, t \in Token : Collateral(Held(b, t))' = Collateral(Held(b, t))
  BY KeptSets DEF Principal, Collateral, BookKeeps

\* The sums are unsigned.
LEMMA SumTypes ==
  ASSUME TypeOK
  PROVE  /\ Principal(ActiveLoans) \in Nat /\ Principal(LiquidatedLoans) \in Nat
         /\ \A t \in Token : Principal(ActiveOn(t)) \in Nat
         /\ \A b \in Borrower, t \in Token : Collateral(Held(b, t)) \in Nat
<1>1. ASSUME NEW S \in SUBSET LoanId
      PROVE  Principal(S) \in Nat /\ Collateral(S) \in Nat
  <2>1. /\ IsFiniteSet(S)
        /\ \A k \in S : PrincipalOf[k] \in Nat /\ CollateralOf[k] \in Nat
    BY SumsAreFinite
  <2>2. SumFunctionOnSet(PrincipalOf, S) \in Nat
    BY ONLY <2>1, SumType
  <2>3. SumFunctionOnSet(CollateralOf, S) \in Nat
    BY ONLY <2>1, SumType
  <2> QED
    BY <2>2, <2>3 DEF Principal, Collateral, PrincipalOf, CollateralOf
<1> QED
  BY <1>1, SumsAreFinite

-----------------------------------------------------------------------------
(* The invariants.                                                          *)

\* Making and closing a loan moves its mint's exposure by the principal.
LEMMA ExposureFacts ==
  ASSUME NEW c \in TokenConfigRecord, NEW s
  PROVE  /\ Lent(c, s).total_active_borrowed = c.total_active_borrowed + s
         /\ Settled(c, s).total_active_borrowed = c.total_active_borrowed - s
  BY DEF Lent, Settled, TokenConfigRecord

\* What is lent is recorded once in the protocol's sum and once in its mint's.
LEMMA PrincipalStep ==
  ASSUME TypeOK, Slots, CountersInvariant, PrincipalMatchesBook, [Next]_vars
  PROVE  PrincipalMatchesBook'
<1>0. /\ token_config \in [Token -> TokenConfigRecord]
      /\ total_sol_borrowed \in Nat /\ audit.principal_erased \in Nat
      /\ \A t \in Token : token_config[t].total_active_borrowed \in Nat
  BY MoneyType DEF TypeOK, TokenConfigRecord
<1>p. /\ total_sol_borrowed + audit.principal_erased = Principal(ActiveLoans)
      /\ \A t \in Token : token_config[t].total_active_borrowed = Principal(ActiveOn(t))
  BY DEF PrincipalMatchesBook
<1>1. ASSUME NEW l \in LoanId, NEW new \in LoanRecord, BookOpens(l, new)
      PROVE  PrincipalMatchesBook'
  <2>1. PICK s \in Nat, t \in Token : s = new.sol_borrowed /\ t = new.token_mint
    BY <1>1 DEF BookOpens, OpensLoan, LoanRecord
  <2>2. /\ total_sol_borrowed' = total_sol_borrowed + s
        /\ audit' = audit
        /\ token_config' = [token_config EXCEPT ![t] = Lent(@, s)]
    BY <1>1, <2>1 DEF BookOpens, OpensLoan
  <2>3. total_sol_borrowed' + audit'.principal_erased = Principal(ActiveLoans)'
    <3>1. Principal(ActiveLoans)' = Principal(ActiveLoans) + s
      BY <1>1, <2>1, OpenSums
    <3> QED
      BY <1>0, <1>p, <2>2, <3>1
  <2>4. ASSUME NEW u \in Token
        PROVE  token_config'[u].total_active_borrowed = Principal(ActiveOn(u))'
    <3>1. Principal(ActiveOn(u))' = IF u = t THEN Principal(ActiveOn(u)) + s
                                    ELSE Principal(ActiveOn(u))
      BY <1>1, <2>1, OpenSums
    <3>2. token_config'[u] = IF u = t THEN Lent(token_config[u], s) ELSE token_config[u]
      BY <1>0, <2>2
    <3>3. Lent(token_config[u], s).total_active_borrowed
            = token_config[u].total_active_borrowed + s
      BY <1>0, ExposureFacts
    <3> QED
      BY <1>p, <3>1, <3>2, <3>3
  <2> QED
    BY <2>3, <2>4 DEF PrincipalMatchesBook
<1>2. ASSUME NEW l \in LoanId, NEW closed \in ClosedStatus, ClosesLoan(l, closed),
             total_sol_borrowed' = total_sol_borrowed - loan[l].sol_borrowed,
             audit'.principal_erased = audit.principal_erased
      PROVE  PrincipalMatchesBook'
  <2>1. PICK s \in Nat, t \in Token : s = loan[l].sol_borrowed /\ t = loan[l].token_mint
    BY <1>2 DEF ClosesLoan, Slots, TypeOK, LoanRecord
  <2>2. token_config' = [token_config EXCEPT ![t] = Settled(@, s)]
    BY <1>2, <2>1 DEF ClosesLoan
  <2>3. total_sol_borrowed' + audit'.principal_erased = Principal(ActiveLoans)'
    <3>1. Principal(ActiveLoans)' = Principal(ActiveLoans) - s
      BY <1>2, <2>1, CloseSums
    <3> QED
      BY <1>0, <1>p, <1>2, <2>1, <3>1
  <2>4. ASSUME NEW u \in Token
        PROVE  token_config'[u].total_active_borrowed = Principal(ActiveOn(u))'
    <3>1. Principal(ActiveOn(u))' = IF u = t THEN Principal(ActiveOn(u)) - s
                                    ELSE Principal(ActiveOn(u))
      BY <1>2, <2>1, CloseSums
    <3>2. token_config'[u] = IF u = t THEN Settled(token_config[u], s) ELSE token_config[u]
      BY <1>0, <2>2
    <3>3. Settled(token_config[u], s).total_active_borrowed
            = token_config[u].total_active_borrowed - s
      BY <1>0, ExposureFacts
    <3> QED
      BY <1>p, <3>1, <3>2, <3>3
  <2> QED
    BY <2>3, <2>4 DEF PrincipalMatchesBook
<1>3. ASSUME BookKeeps
      PROVE  PrincipalMatchesBook'
  <2>1. total_sol_borrowed' + audit'.principal_erased = Principal(ActiveLoans)'
    BY <1>3, <1>p, KeptSums DEF BookKeeps
  <2>2. ASSUME NEW t \in Token
        PROVE  token_config'[t].total_active_borrowed = Principal(ActiveOn(t))'
    <3>1. Principal(ActiveOn(t))' = Principal(ActiveOn(t))
      BY <1>3, KeptSums
    <3>2. CASE ~token_config[t].listed /\ token_config'[t].total_active_borrowed = 0
      <4>1. Cardinality(ActiveOn(t)) = 0
        BY <3>2 DEF CountersInvariant, CountersMatchBook, UnlistedIsEmpty
      <4>2. ActiveOn(t) = {}
        BY <4>1, BookIsFinite, FS_EmptySet
      <4>3. Principal(ActiveOn(t)) = 0
        BY <4>2, SumEmpty DEF Principal
      <4> QED
        BY <3>1, <3>2, <4>3
    <3> QED
      BY <1>3, <1>p, <3>1, <3>2 DEF BookKeeps, KeepsExposure
  <2> QED
    BY <2>1, <2>2 DEF PrincipalMatchesBook
<1>4. ASSUME NEW l \in LoanId, BookRedeems(l)
      PROVE  PrincipalMatchesBook'
  BY <1>2, <1>4 DEF BookRedeems, ClosedStatus
<1>5. ASSUME NEW l \in LoanId, NEW closed \in ClosedStatus, BookSeizes(l, closed)
      PROVE  PrincipalMatchesBook'
  BY <1>2, <1>5 DEF BookSeizes
<1> QED
  BY <1>1, <1>3, <1>4, <1>5, BookStep

\* What leaves a borrower's wallet is held for that borrower, and comes back
\* once, when the loan is repaid.
LEMMA CollateralStep ==
  ASSUME TypeOK, Slots, CollateralAccounted, [Next]_vars
  PROVE  CollateralAccounted'
<1>0. /\ tokens \in [Borrower -> [Token -> Nat]]
      /\ \A b \in Borrower, t \in Token :
           Collateral(Held(b, t)) \in Nat /\ tokens[b][t] \in Nat
  BY SumTypes DEF TypeOK
<1>p. \A b \in Borrower, t \in Token : tokens[b][t] + Collateral(Held(b, t)) = InitialTokens
  BY DEF CollateralAccounted, Held
<1>g. SUFFICES ASSUME NEW b \in Borrower, NEW t \in Token
               PROVE  tokens'[b][t] + Collateral(Held(b, t))' = InitialTokens
  BY DEF CollateralAccounted, Held
<1>1. ASSUME NEW l \in LoanId, NEW new \in LoanRecord, BookOpens(l, new)
      PROVE  tokens'[b][t] + Collateral(Held(b, t))' = InitialTokens
  <2>1. PICK c \in Nat, u \in Borrower, m \in Token :
          c = new.collateral_amount /\ u = new.borrower /\ m = new.token_mint
    BY <1>1 DEF BookOpens, OpensLoan, LoanRecord
  <2>2. tokens' = [tokens EXCEPT ![u][m] = @ - c]
    BY <1>1, <2>1 DEF BookOpens
  <2>3. tokens'[b][t] = IF b = u /\ t = m THEN tokens[b][t] - c ELSE tokens[b][t]
    BY <1>0, <2>2
  <2>4. Collateral(Held(b, t))' = IF b = u /\ t = m THEN Collateral(Held(b, t)) + c
                                  ELSE Collateral(Held(b, t))
    BY <1>1, <2>1, OpenSums
  <2> QED
    BY <1>0, <1>p, <2>3, <2>4
<1>2. ASSUME NEW l \in LoanId, BookRedeems(l)
      PROVE  tokens'[b][t] + Collateral(Held(b, t))' = InitialTokens
  <2>1. PICK c \in Nat, u \in Borrower, m \in Token :
          c = loan[l].collateral_amount /\ u = loan[l].borrower /\ m = loan[l].token_mint
    BY <1>2 DEF BookRedeems, ClosesLoan, Slots, TypeOK, LoanRecord
  <2>2. tokens' = [tokens EXCEPT ![u][m] = @ + c]
    BY <1>2, <2>1 DEF BookRedeems
  <2>3. tokens'[b][t] = IF b = u /\ t = m THEN tokens[b][t] + c ELSE tokens[b][t]
    BY <1>0, <2>2
  <2>4. Collateral(Held(b, t))' = IF b = u /\ t = m THEN Collateral(Held(b, t)) - c
                                  ELSE Collateral(Held(b, t))
    BY <1>2, <2>1, CloseSums DEF BookRedeems, ClosedStatus
  <2> QED
    BY <1>0, <1>p, <2>3, <2>4
<1>3. ASSUME NEW l \in LoanId, NEW closed \in ClosedStatus, BookSeizes(l, closed)
      PROVE  tokens'[b][t] + Collateral(Held(b, t))' = InitialTokens
  <2>1. Collateral(Held(b, t))' = Collateral(Held(b, t)) /\ tokens' = tokens
    BY <1>3, CloseSums DEF BookSeizes
  <2> QED
    BY <1>p, <2>1
<1>4. ASSUME BookKeeps
      PROVE  tokens'[b][t] + Collateral(Held(b, t))' = InitialTokens
  BY <1>4, <1>p, KeptSums DEF BookKeeps
<1> QED
  BY <1>1, <1>2, <1>3, <1>4, BookStep

\* The balance sheet, with everything but the loans on one side.
OwedIsLent == Owed = Principal(ActiveLoans) + Principal(LiquidatedLoans)

\* The same statement twice.
LEMMA BalanceIsOwed ==
  TypeOK => (BalanceSheet <=> OwedIsLent)
<1> SUFFICES ASSUME TypeOK PROVE BalanceSheet <=> OwedIsLent
  OBVIOUS
<1>1. PICK active \in Nat, liquidated \in Nat :
        active = Principal(ActiveLoans) /\ liquidated = Principal(LiquidatedLoans)
  BY SumTypes
<1>2. /\ audit.funded \in Nat /\ audit.fees_erased \in Nat
      /\ audit.operations_proceeds \in Nat /\ total_fees_earned \in Nat
      /\ treasury \in Nat /\ reward_vault \in Nat /\ operations \in Nat
      /\ admin_sol \in Nat
  BY MoneyType
<1>3. BalanceSheet <=>
        treasury + reward_vault + operations + admin_sol + active
          = audit.funded + total_fees_earned + audit.fees_erased
            + audit.operations_proceeds - liquidated
  BY <1>1 DEF BalanceSheet
<1>4. OwedIsLent <=>
        audit.funded + total_fees_earned + audit.fees_erased + audit.operations_proceeds
          - (treasury + reward_vault + operations + admin_sol) = active + liquidated
  BY <1>1 DEF OwedIsLent, Owed
<1> QED
  BY <1>2, <1>3, <1>4

\* Lamports leave and come back with principal: a loan that is made owes it, one
\* that is repaid no longer does, and the loss on a liquidated one is on record.
LEMMA BalanceStep ==
  ASSUME TypeOK, Slots, TypeOK', BalanceSheet, [Next]_vars
  PROVE  BalanceSheet'
<1>0. Principal(ActiveLoans) \in Nat /\ Principal(LiquidatedLoans) \in Nat /\ Owed \in Int
      /\ \A l \in LoanId : loan[l].sol_borrowed \in Nat
  BY SumTypes, MoneyType DEF TypeOK, LoanRecord
<1>p. Owed = Principal(ActiveLoans) + Principal(LiquidatedLoans)
  BY BalanceIsOwed DEF OwedIsLent
<1>1. Owed' = Principal(ActiveLoans)' + Principal(LiquidatedLoans)'
  <2>1. ASSUME NEW l \in LoanId, NEW new \in LoanRecord, BookOpens(l, new)
        PROVE  <1>1!:
    <3>1. new.sol_borrowed \in Nat
      BY DEF LoanRecord
    <3>2. /\ Principal(ActiveLoans)' = Principal(ActiveLoans) + new.sol_borrowed
          /\ Principal(LiquidatedLoans)' = Principal(LiquidatedLoans)
      BY <2>1, OpenSums
    <3>3. Owed' = Owed + new.sol_borrowed
      BY <2>1 DEF BookOpens
    <3> QED
      BY <1>0, <1>p, <3>1, <3>2, <3>3
  <2>2. ASSUME NEW l \in LoanId, BookRedeems(l)
        PROVE  <1>1!:
    <3>1. /\ Principal(ActiveLoans)' = Principal(ActiveLoans) - loan[l].sol_borrowed
          /\ Principal(LiquidatedLoans)' = Principal(LiquidatedLoans)
      BY <2>2, CloseSums DEF BookRedeems, ClosedStatus
    <3> QED
      BY <1>0, <1>p, <2>2, <3>1 DEF BookRedeems
  <2>3. ASSUME NEW l \in LoanId, NEW closed \in ClosedStatus, BookSeizes(l, closed)
        PROVE  <1>1!:
    <3>1. /\ Principal(ActiveLoans)' = Principal(ActiveLoans) - loan[l].sol_borrowed
          /\ Principal(LiquidatedLoans)' = Principal(LiquidatedLoans) + loan[l].sol_borrowed
      BY <2>3, CloseSums DEF BookSeizes
    <3> QED
      BY <1>0, <1>p, <2>3, <3>1 DEF BookSeizes
  <2>4. ASSUME BookKeeps
        PROVE  <1>1!:
    BY <1>p, <2>4, KeptSums DEF BookKeeps
  <2> QED
    BY <2>1, <2>2, <2>3, <2>4, BookStep
<1>2. TypeOK' => (BalanceSheet' <=> OwedIsLent')
  BY BalanceIsOwed, PTL
<1> QED
  BY <1>1, <1>2 DEF OwedIsLent

\* In the initial state nothing is lent, missing or owed.
LEMMA InitBook ==
  Init => PrincipalMatchesBook /\ CollateralAccounted /\ BalanceSheet
<1> SUFFICES ASSUME Init PROVE PrincipalMatchesBook /\ CollateralAccounted /\ BalanceSheet
  OBVIOUS
<1>1. /\ ActiveLoans = {} /\ LiquidatedLoans = {}
      /\ \A t \in Token : ActiveOn(t) = {}
      /\ \A b \in Borrower, t \in Token : Held(b, t) = {}
  BY DEF Init, ActiveLoans, LiquidatedLoans, ActiveOn, Held, LoansWith, NoLoan
<1>2. Principal({}) = 0 /\ Collateral({}) = 0
  BY SumEmpty DEF Principal, Collateral
<1>3. PrincipalMatchesBook
  <2>1. Principal(ActiveLoans) = 0 /\ \A t \in Token : Principal(ActiveOn(t)) = 0
    BY <1>1, <1>2
  <2>2. /\ total_sol_borrowed = 0 /\ audit.principal_erased = 0
        /\ \A t \in Token : token_config[t].total_active_borrowed = 0
    BY DEF Init, UnlistedToken
  <2> QED
    BY <2>1, <2>2 DEF PrincipalMatchesBook
<1>4. CollateralAccounted
  <2>1. InitialTokens \in Nat
    BY LendingAssumption
  <2>2. ASSUME NEW b \in Borrower, NEW t \in Token
        PROVE  tokens[b][t] + Collateral(Held(b, t)) = InitialTokens
    <3>1. Held(b, t) = {}
      BY <1>1
    <3>2. Collateral(Held(b, t)) = 0
      BY <1>2, <3>1
    <3>3. tokens[b][t] = InitialTokens
      BY DEF Init
    <3> QED
      BY <2>1, <3>2, <3>3
  <2> QED
    BY <2>2 DEF CollateralAccounted, Held
<1>5. BalanceSheet
  BY <1>1, <1>2 DEF BalanceSheet, Init
<1> QED
  BY <1>3, <1>4, <1>5

\* In every reachable state the protocol's sum and each mint's sum of what is
\* lent are the principal of the Active loans, an erased part apart, and every
\* borrower misses exactly the collateral of loans that are Active or liquidated.
THEOREM BookCorrect == Spec => []BookAccountsForAll
<1>1. Init => PrincipalMatchesBook /\ CollateralAccounted /\ CountersInvariant
  BY InitBook, InitCounters
<1>2. TypeOK /\ Slots /\ CountersInvariant /\ PrincipalMatchesBook /\ [Next]_vars
        => PrincipalMatchesBook'
  BY PrincipalStep
<1>3. TypeOK /\ Slots /\ CountersInvariant /\ [Next]_vars => CountersInvariant'
  BY CountersStep
<1>4. TypeOK /\ Slots /\ CollateralAccounted /\ [Next]_vars => CollateralAccounted'
  BY CollateralStep
<1>5. PrincipalMatchesBook /\ CollateralAccounted => BookAccountsForAll
  BY DEF BookAccountsForAll
<1> QED
  BY <1>1, <1>2, <1>3, <1>4, <1>5, TypeCorrect, PTL DEF Spec

\* In every reachable state the protocol's lamports and the principal owed are
\* what was funded and earned, less the principal of liquidated loans: no step
\* loses or makes a lamport.
THEOREM BalanceCorrect == Spec => []BalanceSheet
<1>1. Init => BalanceSheet
  BY InitBook
<1>2. TypeOK /\ Slots /\ TypeOK' /\ BalanceSheet /\ [Next]_vars => BalanceSheet'
  BY BalanceStep
<1> QED
  BY <1>1, <1>2, TypeCorrect, PTL DEF Spec

\* With books that agree with the loans and nothing erased, every checked
\* subtraction of repay_loan succeeds.
LEMMA RepayIsCovered ==
  TypeOK /\ Slots /\ VaultHoldsCollateral /\ CountersMatchBook /\ PrincipalMatchesBook
    => SolventBorrowerCanRepay
<1> SUFFICES ASSUME TypeOK, Slots, VaultHoldsCollateral, CountersMatchBook,
                    PrincipalMatchesBook, NEW l \in ActiveLoans, ~paused,
                    sol[loan[l].borrower] >= TotalOwed(loan[l].sol_borrowed),
                    ~(audit.principal_erased > 0)
             PROVE  RepaySucceeds(l)
  BY DEF SolventBorrowerCanRepay
<1>1. l \in LoanId /\ loan[l].status = "Active"
  BY DEF ActiveLoans, LoansWith
<1>2. PICK t \in Token, s \in Nat : t = loan[l].token_mint /\ s = loan[l].sol_borrowed
  BY <1>1 DEF Slots, TypeOK, LoanRecord
<1>3. l \in ActiveOn(t)
  BY <1>2 DEF ActiveOn
<1>4. vault[l] >= loan[l].collateral_amount
  BY <1>1 DEF VaultHoldsCollateral, TypeOK, LoanRecord
<1>5. active_loans_count >= 1 /\ token_config[t].active_loans_count >= 1
  <2>1. \A S : (IsFiniteSet(S) /\ l \in S) => Cardinality(S) >= 1
    <3> SUFFICES ASSUME NEW S, IsFiniteSet(S), l \in S PROVE Cardinality(S) >= 1
      OBVIOUS
    <3>1. Cardinality(S) \in Nat /\ (Cardinality(S) = 0 <=> S = {})
      BY FS_CardinalityType, FS_EmptySet
    <3> QED
      BY <3>1
  <2>2. IsFiniteSet(ActiveLoans) /\ IsFiniteSet(ActiveOn(t))
    BY BookIsFinite
  <2> QED
    BY <1>3, <2>1, <2>2 DEF CountersMatchBook
<1>6. Principal(ActiveLoans) >= s /\ Principal(ActiveOn(t)) >= s
  <2>1. ASSUME NEW S \in SUBSET LoanId, l \in S
        PROVE  Principal(S) >= s
    <3>1. IsFiniteSet(S) /\ \A k \in S : PrincipalOf[k] \in Nat
      BY SumsAreFinite
    <3>2. PrincipalOf[l] <= SumFunctionOnSet(PrincipalOf, S)
      BY ONLY <2>1, <3>1, SumBounds
    <3>3. PrincipalOf[l] = s /\ Principal(S) = SumFunctionOnSet(PrincipalOf, S)
      BY <1>1, <1>2 DEF PrincipalOf, Principal
    <3>4. SumFunctionOnSet(PrincipalOf, S) \in Nat
      BY ONLY <3>1, SumType
    <3> QED
      BY <3>2, <3>3, <3>4
  <2> QED
    BY <1>3, <2>1, SumsAreFinite
<1>7. total_sol_borrowed >= s /\ token_config[t].total_active_borrowed >= s
  BY <1>6, MoneyType DEF PrincipalMatchesBook
<1> QED
  BY <1>1, <1>2, <1>4, <1>5, <1>7 DEF RepaySucceeds, LeavesTheBooks

\* In every reachable state of the unpaused program whose principal no drain has
\* erased, a borrower with the money can repay: whatever loans were made,
\* closed, blacklisted or updated before, no subtraction underflows.
THEOREM RepayAlwaysPossible == Spec => []SolventBorrowerCanRepay
<1>1. TypeOK /\ Slots /\ VaultHoldsCollateral /\ CountersMatchBook /\ BookAccountsForAll
        => SolventBorrowerCanRepay
  BY RepayIsCovered DEF BookAccountsForAll
<1> QED
  BY <1>1, TypeCorrect, VaultsCorrect, CountersCorrect, BookCorrect, PTL
=============================================================================
