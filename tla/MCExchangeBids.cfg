SPECIFICATION ExchangeSpec
CONSTANTS
  u1 = u1
  u2 = u2
  Users = {u1, u2}
  Treasury = Treasury
  Clearing = Clearing
  NoUser = NoUser
  Symbols = {"sol"}
  Prices = {1}
  Quantities = {1, 2}
  Slippages = {5}
  FeeSchedules <- NoFees
  OnrampAmounts = {3}
  DepositAmounts = {2}
  DepthLevels = 1
  WordSize = 1000000
  MaxOrderId = 3
  MaxUsd = 3
  MaxStock = 2
INVARIANT BidsToldRight
