SPECIFICATION Spec
CONSTANTS
  c1 = c1
  c2 = c2
  u1 = u1
  u2 = u2
  t1 = t1
  NoUser = NoUser
  Clients = {c1, c2}
  Topics = {t1}
  Users = {u1, u2}
  MaxMessages = 2
  MaxBroadcasts = 2
SYMMETRY HubSymmetry
CHECK_DEADLOCK FALSE
INVARIANTS
  OnlyToOwners
  GoneIsClean
PROPERTIES
  AckedGetsAll
