SPECIFICATION Spec
CONSTANTS
  SnapshotInterval = 2
  KeptSnapshots = 1
  Faults <- NoFaults
  Isolation = "reply"
  MaxEntries = 3
  MaxCrashes = 0
INVARIANT NothingErasedUnread
