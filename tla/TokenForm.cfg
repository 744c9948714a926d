SPECIFICATION Spec
CONSTANTS
  Mint = {m1, m2, m3}
  Valid = {m1, m2}
  Allowed = {m1, m2}
  None = None
INVARIANTS VerifiedBeforeBorrowing
CHECK_DEADLOCK FALSE
