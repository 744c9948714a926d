SPECIFICATION Spec
CONSTANTS
  Staker = {s1, s2}
  StakeAmounts = {1}
  UnstakeAmounts = {1, 2}
  DepositAmounts = {5}
  FeeAmounts = {1}
  EpochDurations = {1, 2}
  MayForceAdvance = TRUE
  InitialTokens = 2
  MIN_STAKE_AMOUNT = 1
  MIN_DISTRIBUTION = 2
  RENT_EXEMPT_MINIMUM = 1
  MaxBatch = 2
  MaxNow = 2
  MaxEpoch = 4
  MaxReceived = 6
SYMMETRY Symmetry
INVARIANTS TypeOK StakeAddsUp RewardsAddUp
PROPERTIES PaidOnceForWholeEpoch
