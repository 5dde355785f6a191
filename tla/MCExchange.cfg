SPECIFICATION ExchangeSpec
CONSTANTS
  u1 = u1
  u2 = u2
  Users = {u1, u2}
  Treasury = Treasury
  Clearing = Clearing
  NoUser = NoUser
  Symbols = {"sol"}
  Prices = {0, 1, 2}
  Quantities = {0, 1, 3}
  Slippages = {5}
  FeeSchedules <- BothFees
  OnrampAmounts = {10}
  DepositAmounts = {3}
  DepthLevels = 1
  WordSize = 1000000
  MaxOrderId = 3
  MaxUsd = 20
  MaxStock = 3
SYMMETRY UserSymmetry
INVARIANTS
  TypeOK
  LocksMatchOrders
  DepthPublished
  ZeroSum
  LedgerReconciles
  RowsTrackBooks
  AsksToldRight
