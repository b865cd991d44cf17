\* One rule; two fires over a history of one row, four events over a batch of
\* one and a backlog of two.
SPECIFICATION LiveSpec
CONSTANTS
  Rules = {r1}
  None = None
  MaxRuns = 2
  MaxEvents = 4
  MaxHistory = 1
  MaxBatch = 1
  MaxQueued = 2
  Scenarios = {{"edit"}, {"kill"}, {"crash"}}
INVARIANTS
  TimerArmed
  WakesInOrder
  RunningMeansInFlight
PROPERTIES
  RunsClose
CHECK_DEADLOCK FALSE
