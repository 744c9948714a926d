SPECIFICATION Spec
SYMMETRY Symmetry
CONSTANTS
  Ip = {"i1"}
  Wallet = {"w1"}
  Request = {r1, r2}
  Route <- MCRoute
  ipLimit = 2
  walletLimit = 1
  globalLimit = 2
  banThreshold = 1
  BAN_LEVELS = 1
  MaxPerMinute = 3
  Socket = {r1, r2}
  User = {"u1", "u2"}
  IP = {"a1", "a2"}
  Topic = {"loans"}
  Nobody = "nobody"
  Absent = Absent
  MaxPerIP = 1
  MaxMessages = 2
  MaxWarnings = 2
  Token = {"t1"}
  Ticket = {"k1", "k2"}
  Asker = {"c1", "c2"}
  Reviewer = {r1, r2}
  Admin = {"d1"}
  MaxFaults = 1
  Options <- MCOptions
  MaxPrograms = 2
  MaxMishaps = 1
  AdminKey = {"k1", "k2", "k3"}
  NoKey = "nokey"
  ADMIN_TRANSFER_DELAY = 2
  MaxTime = 8
INVARIANTS LimitsHold RegistriesAgree ApprovalsAreListed FreshRunIsComplete
PROPERTIES TakeoverWasAnnounced
CHECK_DEADLOCK FALSE
