CONSTANTS
  ToolCapability = {memory_write}
  TextLine = {a}
  MaxLines = 1
SPECIFICATION MCSpec
INVARIANT DeniedIsBlocked
CHECK_DEADLOCK FALSE
