----------------------------- MODULE LoanQuotes -----------------------------
(***************************************************************************)
(* The pure calculations of the lending program against independent         *)
(* statements of what they should compute.  A state is one quote: a base    *)
(* LTV, a duration, an amount of collateral and a price.  Next asks for a   *)
(* quote for a longer duration, so that action properties compare quotes.   *)
(***************************************************************************)
EXTENDS LoanMath

CONSTANTS
  BaseLtvs,             \* LTVs a token may be configured with (update_token_config.rs:41)
  Collaterals,
  Prices,
  FirstDuration,        \* quotes run from here ...
  LastDuration          \* ... to here

ASSUME QuotesAssumption ==
  /\ BaseLtvs \subseteq Nat /\ \A ltv \in BaseLtvs : ltv <= 9000
  /\ Collaterals \subseteq Nat /\ Prices \subseteq Nat
  /\ FirstDuration \in Nat /\ LastDuration \in Nat

VARIABLES base_ltv, duration, collateral, price

vars == <<base_ltv, duration, collateral, price>>

Init ==
  /\ base_ltv \in BaseLtvs
  /\ collateral \in Collaterals
  /\ price \in Prices
  /\ duration = FirstDuration

AskLonger ==
  /\ duration < LastDuration
  /\ duration' = duration + 1
  /\ UNCHANGED <<base_ltv, collateral, price>>

Spec == Init /\ [][AskLonger]_vars

Lent == LoanAmount(collateral, price, DurationAdjustedLtv(base_ltv, duration))

-----------------------------------------------------------------------------
(* What packages/sdk/src/utils.ts computes for the borrower before the loan  *)
(* is made, with one rounding where the program truncates twice, and the     *)
(* value of the collateral rounded before the LTV is applied.                *)

SdkRange(d) == IF d <= BASE_DURATION THEN BASE_DURATION - MIN_LOAN_DURATION
                                     ELSE MAX_LOAN_DURATION - BASE_DURATION

\* Math.round of a fraction, halves upwards.
Rounded(numerator, denominator) == (2 * numerator + denominator) \div (2 * denominator)

\* Fault: the bonus is counted from the shortest loan upwards.
SdkLtvReversed(base_ltv_bps, duration_seconds) ==
  LET d == Clamp(duration_seconds, MIN_LOAN_DURATION, MAX_LOAN_DURATION)
      from == IF d <= BASE_DURATION THEN MIN_LOAN_DURATION ELSE BASE_DURATION
  IN  Clamp(Rounded(base_ltv_bps * (4 * SdkRange(d) + d - from), 4 * SdkRange(d)), 1000, 9000)

\* calculateDurationAdjustedLtv
SdkLtv(base_ltv_bps, duration_seconds) ==
  LET d == Clamp(duration_seconds, MIN_LOAN_DURATION, MAX_LOAN_DURATION)
  IN  Clamp(Rounded(base_ltv_bps * (4 * SdkRange(d) + BASE_DURATION - d), 4 * SdkRange(d)),
            1000, 9000)

\* calculateLoanTerms: solAmount, from a price in lamports per whole token, which
\* is 1000 times the price the program has.
SdkSolAmount(collateralAmount, currentPrice, base_ltv_bps, duration_seconds) ==
  MulDivWide(CollateralValue(collateralAmount, currentPrice),
             SdkLtv(base_ltv_bps, duration_seconds), BPS_DIVISOR)
-----------------------------------------------------------------------------
\* The formula of programs/memecoin-lending/README.md:60-61 as one fraction
\* of 10000 * divisor, where the code truncates twice.
DocumentedLtv ==
  LET d == IF duration < MIN_LOAN_DURATION THEN MIN_LOAN_DURATION
           ELSE IF duration > MAX_LOAN_DURATION THEN MAX_LOAN_DURATION ELSE duration
  IN  IF d <= BASE_DURATION
      THEN base_ltv + (base_ltv * (BASE_DURATION - d))
                        \div (4 * (BASE_DURATION - MIN_LOAN_DURATION))
      ELSE base_ltv - (base_ltv * (d - BASE_DURATION))
                        \div (4 * (MAX_LOAN_DURATION - BASE_DURATION))

\* The effective LTV is within one basis point of the documented formula,
\* held between 10% and 90% (utils.rs:286-335).
LtvFollowsFormula ==
  LET ltv == DurationAdjustedLtv(base_ltv, duration)
  IN  \/ ltv - DocumentedLtv \in -1 .. 1
      \/ ltv = 9000 /\ DocumentedLtv > 9000
      \/ ltv = 1000 /\ DocumentedLtv < 1000

\* A longer loan of the same collateral never lends more: no rounding step or
\* change of branch at 48 hours makes the longer loan the better one.
LongerLoanLendsNoMore == [][Lent' <= Lent]_vars

\* A loan is at most 90% of what its collateral is worth, for every LTV,
\* duration bonus and rounding (create_loan.rs:234-260).
LoanIsOvercollateralised ==
  BPS_DIVISOR * Lent < 9000 * (CollateralValue(collateral, price) + 1)

\* The amount the borrower is shown and the amount the program lends at the same
\* price differ by less than 2 basis points of the collateral's value and two
\* lamports, though they are computed by two formulas in two languages
\* (utils.ts:160-191 and :14-70 against utils.rs:284-335 and :197-224).
EstimateMatchesProgram ==
  LET difference == SdkSolAmount(collateral, price, base_ltv, duration) - Lent
      value == CollateralValue(collateral, price)
  IN  BPS_DIVISOR * (IF difference < 0 THEN -difference ELSE difference)
        < 2 * (value + BPS_DIVISOR)
=============================================================================
