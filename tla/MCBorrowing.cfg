SPECIFICATION LiveSpec
CONSTANTS
  Wallet = {"w1", "w2"}
  Borrower = {"w1"}
  Request = {"r1", "r2"}
  Tracker = {"t1", "t2"}
  MAX_LOANS_PER_HOUR = 2
  LIQUIDATION_COUNT_THRESHOLD_1H = 1
  MaxLoans = 2
  Token = {"t1"}
  Caller = {"v1", "v2"}
  PumpFun = {"t1"}
  AdminReady = TRUE
  MaxFaults = 1
INVARIANTS CountsAddUp ValidIsOnChain
PROPERTIES LimitIsLifted TrippedAdmitsNobody CacheFollowsWhitelist
CHECK_DEADLOCK FALSE
