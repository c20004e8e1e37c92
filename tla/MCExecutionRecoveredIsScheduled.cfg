CONSTANTS
  Exec = {e1}
  Msg = {1, 2}
  MaxSteps = 2
  MaxCrashes = 2
  MaxCommands = 0
  NoExec = NoExec
  NoMsg = NoMsg
SPECIFICATION MCSafetySpec
INVARIANT RecoveredIsScheduled
CHECK_DEADLOCK FALSE
