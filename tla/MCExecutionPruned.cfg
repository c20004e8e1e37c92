CONSTANTS
  Exec = {e1}
  Msg = {1}
  MaxSteps = 2
  MaxCrashes = 1
  MaxCommands = 1
  NoExec = NoExec
  NoMsg = NoMsg
SPECIFICATION MCPruningSpec
INVARIANT CrashForgetsNothing
CHECK_DEADLOCK FALSE
