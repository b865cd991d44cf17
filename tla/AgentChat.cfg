\* Two messages to two agents.
SPECIFICATION LiveSpec
CONSTANTS
  Agents = {fonte, scout}
  Msgs = {1, 2}
  None = 0
  Limit = 2
  MaxActs = 3
  MaxRows = 2
  Loads = {{"switch"}, {"rerun"}, {"cancel", "failures"}}
INVARIANTS NothingVanishes OwnTranscript
PROPERTY SendsSettle
CHECK_DEADLOCK FALSE
