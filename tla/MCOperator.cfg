SPECIFICATION OperatorSpec
CONSTANTS
  SnapshotInterval = 1
  KeptSnapshots = 1
  Faults <- AllFaults
  Isolation = "none"
  MaxEntries = 3
  MaxCrashes = 2
INVARIANTS
  AppliedInOrder
PROPERTIES
  SignalsEnd
  ErasedBehindReset
