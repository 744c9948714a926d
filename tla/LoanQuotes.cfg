SPECIFICATION Spec
CONSTANTS
  MIN_LOAN_DURATION = 12
  BASE_DURATION = 48
  MAX_LOAN_DURATION = 168
  BaseLtvs = {500, 2500, 3500, 5000, 7777, 9000}
  Collaterals = {3, 997, 10007}
  Prices = {1, 56, 397}
  FirstDuration = 10
  LastDuration = 170
CHECK_DEADLOCK FALSE
INVARIANTS LtvFollowsFormula LoanIsOvercollateralised EstimateMatchesProgram
PROPERTIES LongerLoanLendsNoMore
