SPECIFICATION Spec
CONSTANTS
  Workers = {w1}
  BatchSize = 2
  Faults = {"connect", "checkpoint", "read", "begin", "statement", "commit",
            "acknowledgement", "delete", "update", "reset", "del", "listen"}
  XreadCount = 2
  MaxEvents = 3
  MaxResets = 1
  MaxCrashes = 1
  MaxFailures = 1
INVARIANTS
  CheckpointExact
  InOrderNoGaps
PROPERTIES
  ImplementsSink
  CatchesUp
  EventuallyForwarded
