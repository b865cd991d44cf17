\* Every message settles, whatever happens on the way.
SPECIFICATION LiveSpec
CONSTANTS
  Msgs = {1, 2}
  Keys = {fonte}
  Agents = {fonte}
  None = None
  MaxRetries = 2
  MaxRecoveries = 2
  Scenarios = {{"cancel", "kill", "watchdog", "crash", "shutdown"}}
PROPERTIES
  EventuallySettled
CHECK_DEADLOCK FALSE
