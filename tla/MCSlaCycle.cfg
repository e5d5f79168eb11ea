CONSTANTS
  Request = {r1}
  Agent = {a1}
  Metric = {"resolution", "response"}
  Version = {"resolve", "respond"}
  None = None
  Status = {"open", "waiting", "done"}
  Done = "done"
  Goal <- MCGoal
  Catalog <- MCCatalog
  Working <- MCWorking
  Lag = 1
  BatchSize = 1
  MaxLate = 1
  MaxTime = 3
  MaxSignals = 3
SPECIFICATION Spec
INVARIANTS StopwatchExact NeverBehind DoneStopsTheClock
PROPERTIES FinishedIsHistory
CHECK_DEADLOCK FALSE
