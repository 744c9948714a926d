------------------------------ MODULE LoanMath ------------------------------
(***************************************************************************)
(* The integer arithmetic of the lending program: utils.rs (SafeMath,      *)
(* LoanCalculator) and the fee splits of repay_loan.rs and liquidate.rs.   *)
(* All divisions truncate, as u64 / u128 division does.  The code widens   *)
(* to u128 and fails the transaction on overflow, so a value here is the   *)
(* value of the call whenever the call succeeds.                           *)
(*                                                                         *)
(* Durations are counted in an arbitrary unit of time (the constants keep  *)
(* the code's proportions: 12 h, 48 h and 7 days).  The 1000 of            *)
(* create_loan.rs:236 and utils.rs:215 over PRICE_SCALE = 10^6 is the one  *)
(* constant PRICE_UNITS: a price of PRICE_UNITS is one lamport per raw     *)
(* token unit.                                                             *)
(***************************************************************************)
EXTENDS Integers

CONSTANTS
  MIN_LOAN_DURATION,      \* utils.rs:25, 12 hours
  BASE_DURATION,          \* utils.rs:45, 48 hours
  MAX_LOAN_DURATION       \* utils.rs:24, 7 days

ASSUME DurationAssumption ==
  /\ MIN_LOAN_DURATION \in Nat
  /\ BASE_DURATION \in Nat
  /\ MAX_LOAN_DURATION \in Nat
  /\ 0 < MIN_LOAN_DURATION
  /\ MIN_LOAN_DURATION < BASE_DURATION
  /\ BASE_DURATION < MAX_LOAN_DURATION

BPS_DIVISOR == 10000
PRICE_UNITS == 1000
MAX_LTV_BONUS_BPS == 2500
MAX_LTV_PENALTY_BPS == 2500
MAX_EFFECTIVE_LIQUIDATION_LTV_BPS == 9000
LIQUIDATION_BUFFER_BPS == 4000
MAX_LIQUIDATION_SLIPPAGE_BPS == 500
MAX_APPROVED_PRICE_DEVIATION_BPS == 2000
PROTOCOL_FEE_BPS == 200
LOAN_FEE_TREASURY_BPS == 5000
LOAN_FEE_STAKING_BPS == 2500
LOAN_FEE_OPERATIONS_BPS == 2500
OPERATIONS_SPLIT_BPS == 500

\* SafeMath::mul_div
MulDiv(a, b, c) == (a * b) \div c

\* The same quotient with the product split in two, which keeps TLC's 32-bit
\* integers in range where the code relies on u128.
MulDivWide(a, b, c) == (a \div c) * b + ((a % c) * b) \div c

\* saturating_sub on unsigned integers
SaturatingSub(a, b) == IF a >= b THEN a - b ELSE 0

Clamp(x, lo, hi) == IF x > hi THEN hi ELSE IF x < lo THEN lo ELSE x

(***************************************************************************)
(* LoanCalculator::calculate_duration_adjusted_ltv: up to a quarter more   *)
(* than the base LTV for the shortest loan, up to a quarter less for the   *)
(* longest, held between 10% and 90%.                                      *)
(***************************************************************************)
\* Faults: a bonus scaled by the longer half of the range, a penalty that
\* shrinks with the duration, a result that is not held below 90%.
DurationBonusOverLongHalf(base_ltv, duration) ==
  MulDiv(base_ltv,
         MulDiv(MAX_LTV_BONUS_BPS, BASE_DURATION - duration,
                MAX_LOAN_DURATION - BASE_DURATION),
         BPS_DIVISOR)

DurationPenaltyReversed(base_ltv, duration) ==
  MulDiv(base_ltv,
         MulDiv(MAX_LTV_PENALTY_BPS, MAX_LOAN_DURATION - duration,
                MAX_LOAN_DURATION - BASE_DURATION),
         BPS_DIVISOR)

DurationBonus(base_ltv, duration) ==
  MulDiv(base_ltv,
         MulDiv(MAX_LTV_BONUS_BPS, BASE_DURATION - duration,
                BASE_DURATION - MIN_LOAN_DURATION),
         BPS_DIVISOR)

DurationPenalty(base_ltv, duration) ==
  MulDiv(base_ltv,
         MulDiv(MAX_LTV_PENALTY_BPS, duration - BASE_DURATION,
                MAX_LOAN_DURATION - BASE_DURATION),
         BPS_DIVISOR)

DurationAdjustedLtvUncapped(base_ltv, duration_seconds) ==
  LET duration == Clamp(duration_seconds, MIN_LOAN_DURATION, MAX_LOAN_DURATION)
  IN  IF duration <= BASE_DURATION
      THEN base_ltv + DurationBonus(base_ltv, duration)
      ELSE base_ltv - DurationPenalty(base_ltv, duration)

DurationAdjustedLtv(base_ltv, duration_seconds) ==
  LET duration == Clamp(duration_seconds, MIN_LOAN_DURATION, MAX_LOAN_DURATION)
      effective_ltv == IF duration <= BASE_DURATION
                       THEN base_ltv + DurationBonus(base_ltv, duration)
                       ELSE base_ltv - DurationPenalty(base_ltv, duration)
  IN  Clamp(effective_ltv, 1000, 9000)

\* Value of the collateral in lamports at a price (create_loan.rs:235-239).
CollateralValue(collateral_amount, price) ==
  (collateral_amount * price) \div PRICE_UNITS

\* LoanCalculator::calculate_loan_amount, lamports lent.
LoanAmount(collateral_amount, price, ltv_bps) ==
  MulDivWide(collateral_amount * price, ltv_bps, PRICE_UNITS) \div BPS_DIVISOR

\* LoanCalculator::calculate_liquidation_price with the 40% buffer of
\* create_loan.rs:321-326; a zero divisor fails the transaction.  Note that
\* PRICE_UNITS does not appear.
LiquidationDivisor(collateral_amount, ltv_bps) ==
  LET raw_effective_ltv == ltv_bps + LIQUIDATION_BUFFER_BPS
      effective_ltv == IF raw_effective_ltv < MAX_EFFECTIVE_LIQUIDATION_LTV_BPS
                       THEN raw_effective_ltv
                       ELSE MAX_EFFECTIVE_LIQUIDATION_LTV_BPS
  IN  MulDiv(collateral_amount, effective_ltv, BPS_DIVISOR)

LiquidationPrice(sol_borrowed, collateral_amount, ltv_bps) ==
  MulDiv(sol_borrowed, BPS_DIVISOR, LiquidationDivisor(collateral_amount, ltv_bps))

\* Approved price against pool price, in basis points of the smaller one.
PriceDeviation(approved_price, pool_price) ==
  IF approved_price > pool_price
  THEN MulDiv(approved_price - pool_price, BPS_DIVISOR, pool_price)
  ELSE MulDiv(pool_price - approved_price, BPS_DIVISOR, approved_price)

\* Least swap output liquidate.rs accepts: its expected value divides by
\* PRICE_SCALE = 1000 * PRICE_UNITS and has no factor 1000.
MinAcceptableOutput(collateral_amount, price) ==
  MulDiv(MulDiv(collateral_amount, price, 1000 * PRICE_UNITS),
         BPS_DIVISOR - MAX_LIQUIDATION_SLIPPAGE_BPS, BPS_DIVISOR)

(***************************************************************************)
(* The 2% flat fee of a repayment and its three shares; what rounding      *)
(* leaves over goes to the treasury (repay_loan.rs:109-147).               *)
(***************************************************************************)
ProtocolFee(sol_borrowed) == MulDiv(sol_borrowed, PROTOCOL_FEE_BPS, BPS_DIVISOR)
TotalOwed(sol_borrowed) == sol_borrowed + ProtocolFee(sol_borrowed)
StakingFee(fee) == MulDiv(fee, LOAN_FEE_STAKING_BPS, BPS_DIVISOR)
OperationsFee(fee) == MulDiv(fee, LOAN_FEE_OPERATIONS_BPS, BPS_DIVISOR)
TreasuryFee(fee) == MulDiv(fee, LOAN_FEE_TREASURY_BPS, BPS_DIVISOR)
DustDropped(fee) == 0        \* fault: what rounding leaves over goes nowhere
Dust(fee) == SaturatingSub(fee, TreasuryFee(fee) + StakingFee(fee) + OperationsFee(fee))
TreasuryFeeWithDust(fee) == TreasuryFee(fee) + Dust(fee)

\* Operations' 5% of liquidation proceeds; the treasury gets the rest.
OperationsShare(sol_proceeds) == MulDiv(sol_proceeds, OPERATIONS_SPLIT_BPS, BPS_DIVISOR)
TreasuryShare(sol_proceeds) == sol_proceeds - OperationsShare(sol_proceeds)
=============================================================================
