SPECIFICATION MCSpec
CONSTANTS
  Mint = {"sol", "m"}
  Sol = "sol"
  Request = {a1, a2}
  ServerTtl = 1
  SdkTtl = 2
  SdkTimeout = 1
  RedisWait = 1
  Cap = 5
  Check = {a1, a2}
  Balance <- MCBalance
  Critical <- MCCritical
  Low <- MCLow
  Large = 3
  Pattern = 2
  MaxFaults = 1
  Threshold = 2
  ALERT_COOLDOWN = 1
  RATE_LIMIT = 2
  MaxFailures = 3
  MaxMishaps = 2
  Caller = {a1, a2}
  Wallet = {"w1", "w2"}
  Made = {"repayLoan", "updateWallets", "pauseProtocol", "createLoan", "liquidate",
          "isLoanLiquidatable", "getPriceWithFallback"}
  Constant = 12
  Base = {3, 4}
  Depth = {0, 1}
  Scale = 12
  LiquidationPrice = 12
  DueAt = 0
  MaxTime = 1
  MaxCalls = 2
  MaxChanges = 2
  Nobody = "nobody"
  Amount = {1}
  MaxEpoch = 2
  MaxPresses = 2
  MaxElsewhere = 1
  Loan = {"l1"}
  Owner <- MCOwner
  MaxSwitches = 2
  MaxReads = 1
SYMMETRY Symmetry
INVARIANTS PricesAreRecent WarningsAreSent TellsTheTruth
CHECK_DEADLOCK FALSE
