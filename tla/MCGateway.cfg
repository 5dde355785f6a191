SPECIFICATION Spec
CONSTANTS
  Gateways = {g1, g2}
  Requests = {r1, r2}
  None = None
  Faults = {"xadd", "brpop", "replay"}
  MaxCrashes = 1
  Workers = {w1}
  Keys = {k1}
  Paths = {"reset", "signin", "order"}
  Capacity <- SmallCapacity
  Unit <- MixedUnits
  Second = 3
  MaxTime = 7
  Absent = Absent
  Cores = {"alice", "bob", "x"}
  Wellformed = {"alice", "bob"}
  MaxId = 3
  MaxResets = 1
  MaxUsd = 2
  Users = {alice, bob}
  Markets = {"SOL_USD", "BTC_USD"}
  NoRow = NoRow
  Qty = 3
CHECK_DEADLOCK FALSE
INVARIANTS
  OwnAnswer
  NothingElseLeaks
  WorkerWithinLimit
  RetryAfterSuffices
  OrderSurvives
  TokenNamesOneUser
  HoldsWhatWasBrought
  FoundWhileOpen
  TradesCoverRow
PROPERTIES
  SentIsAnswered
