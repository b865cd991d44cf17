\* Two messages of either lane, for fonte or for nobody, under everything that
\* can disturb a run; and again with the gentler disturbances only.
SPECIFICATION Spec
CONSTANTS
  Msgs = {1, 2}
  Keys = {fonte, default}
  Agents = {fonte}
  None = None
  MaxRetries = 2
  MaxRecoveries = 2
  Scenarios = {{"cancel", "kill", "retry"},
               {"cancel", "kill", "crash"},
               {"cancel", "shutdown"},
               {"cancel", "retry", "watchdog"},
               {"cancel", "delete", "prune"}}
INVARIANTS
  InFlightOwned
  ChainHoldsRow
  PendingHasRetries
  CompletedAnswered
  AnsweredOnce
  SettledIsAnnounced
PROPERTIES
  CancelIsTerminal
  UserLaneFirst
  LifecycleSpec
CHECK_DEADLOCK FALSE
