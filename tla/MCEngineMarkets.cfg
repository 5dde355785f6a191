SPECIFICATION FairSpec
CONSTANTS
  u1 = u1
  u2 = u2
  Users = {u1, u2}
  Treasury = Treasury
  NoUser = NoUser
  Symbols = {"sol", "btc", "doge"}
  Prices = {0, 2}
  Quantities = {1, 2}
  Slippages = {5}
  FeeSchedules <- TakerPaysMore
  OnrampAmounts = {6}
  DepositAmounts = {2}
  DepthLevels = 25
  WordSize = 1000000
  MaxOrderId = 3
  MaxUsd = 6
  MaxStock = 2
INVARIANTS
  IdsGloballyUnique
PROPERTIES
  BooksAreOrderbooks
  OrdersAnswered
