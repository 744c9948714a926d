SPECIFICATION CrankLiveSpec
CONSTANTS
  Staker = {s1, s2}
  StakeAmounts = {1}
  UnstakeAmounts = {1}
  DepositAmounts = {5}
  FeeAmounts = {}
  EpochDurations = {1}
  MayForceAdvance = FALSE
  InitialTokens = 1
  MIN_STAKE_AMOUNT = 1
  MIN_DISTRIBUTION = 2
  RENT_EXEMPT_MINIMUM = 1
  MaxBatch = 1
  MaxNow = 3
  MaxEpoch = 4
  MaxReceived = 5
  Ticker = {job}
  BATCH_SIZE = 1
  MAX_RETRIES = 2
  MIN_INTERVAL_BETWEEN_DISTRIBUTIONS = 1
  MAX_DISTRIBUTIONS_PER_HOUR = 1
  HOUR = 2
  MaxFaults = 2
CHECK_DEADLOCK FALSE
PROPERTIES MissedOnlyWithCause CrankCatchesUp
