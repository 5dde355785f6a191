SPECIFICATION Spec
CONSTANTS
  SnapshotInterval = 2
  KeptSnapshots = 1
  Faults <- NoFaults
  Isolation = "delete"
  MaxEntries = 2
  MaxCrashes = 1
INVARIANT ReplaySuppressesDuplicatesOnly
