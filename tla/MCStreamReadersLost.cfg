SPECIFICATION Spec
CONSTANTS
  Workers = {w1}
  BatchSize = 2
  Faults = {"statement"}
  XreadCount = 2
  MaxEvents = 2
  MaxResets = 0
  MaxCrashes = 1
  MaxFailures = 1
INVARIANT NothingSkipped
