SPECIFICATION LiveSpec
CONSTANTS
  MIN_LOAN_DURATION = 1
  BASE_DURATION = 4
  MAX_LOAN_DURATION = 14
  Token = {t1}
  Borrower = {b1}
  NoOne = NoOne
  Terms <- MCTermsBoth
  LtvChoices = {5000, 2500}
  CollateralAmounts = {10000}
  Durations = {1}
  ApprovedPrices = {56}
  PoolPrices = {56, 400}
  SwapProceeds = {200}
  FundAmounts = {8000}
  WithdrawAmounts = {}
  InitialTokens = 20000
  InitialSol = 5
  MIN_COLLATERAL_VALUE_LAMPORTS = 10
  RENT_EXEMPT_MINIMUM = 1
  MAX_SINGLE_LOAN_BPS = 1000
  MAX_TOKEN_EXPOSURE_BPS = 1000
  VaultConstraintsHold = TRUE
  MaxLoans = 2
  MaxNow = 2
  MaxFunded = 8000
  BlacklistChoices = {TRUE, FALSE}
PROPERTIES LoanTermsAreFixed ImplementsLifecycle DueLoanCloses
