SPECIFICATION FairSpec
CONSTANTS
  SnapshotInterval = 2
  KeptSnapshots = 1
  Faults <- ToleratedFaults
  Isolation = "delete"
  MaxEntries = 4
  MaxCrashes = 2
INVARIANTS
  StateIsLog
  AckedSurvive
  PublishedOnce
PROPERTIES
  LoggedIsExecuted
