CONSTANTS
  Exec = {e1}
  Msg = {1, 2}
  MaxSteps = 3
  MaxCrashes = 1
  MaxCommands = 1
  NoExec = NoExec
  NoMsg = NoMsg
SPECIFICATION MCSpec
INVARIANTS TypeOK GenerationMatches NoMessageLost CrashForgetsNothing EffectsAreLogged
PROPERTIES OrphansResolved ImplementsDurability
CHECK_DEADLOCK FALSE
