SPECIFICATION LiveSpec
CONSTANTS
  a = a
  b = b
  jobA = jobA
  jobB = jobB
  alertA = alertA
  requestA = requestA
  Loan = {l1}
  Server = {a, b}
  Job = {jobA, jobB}
  Alert = {alertA}
  Request = {requestA}
  Home <- TwoServers
  MAX_ATTEMPTS = 2
  MaxFaults = 1
INVARIANTS ClosedAsOnChain RecordedOnce LiquidationIsBooked MonitoredWhileActive
PROPERTIES DueLoanIsClosed
