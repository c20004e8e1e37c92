CONSTANTS
  Exec = {e1}
  Msg = {1, 2}
  MaxSteps = 2
  MaxCrashes = 0
  MaxCommands = 1
  NoExec = NoExec
  NoMsg = NoMsg
SPECIFICATION MCSafetySpec
PROPERTY KilledStaysStopped
CHECK_DEADLOCK FALSE
