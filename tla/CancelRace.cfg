\* A cancel that arrives while the answer is in the outgoing hooks.
SPECIFICATION Spec
CONSTANTS
  Msgs = {1}
  Keys = {fonte}
  Agents = {fonte}
  None = None
  MaxRetries = 2
  MaxRecoveries = 1
  Scenarios = {{"cancel"}}
PROPERTIES
  CancelledNeverAnswered
CHECK_DEADLOCK FALSE
