SPECIFICATION Spec
CONSTANTS
  u1 = u1
  u2 = u2
  NoUser = NoUser
  Users = {u1, u2}
  Prices = {0, 1, 2}
  Quantities = {0, 1, 3}
  MaxOrderId = 4
SYMMETRY UserSymmetry
INVARIANTS
  BookConsistent
  FokAllOrNothing
PROPERTIES
  ImplementsPriceTimePriority
  QuoteIsExact
