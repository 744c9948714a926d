SPECIFICATION LiveSpec
CONSTANTS
  Timer = "c1"
  Extra = {"c2"}
  Script = {"s1"}
  Threshold = 1
  MaxRetries = 2
  MaxFees = 2
  MaxMishaps = 1
  MaxRuns = 2
  Server = {"j1", "j2"}
  Queue = {5, 6}
  MaxFaults = 1
  Poll = {"p1", "p2"}
  Keys = 2
  MaxKeyFailures = 1
  MaxSourceFailures = 1
  MaxErrors = 2
PROPERTIES FeesArrive JobsKeepRunning PricesKeepComing
CHECK_DEADLOCK FALSE
