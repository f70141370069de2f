SPECIFICATION Spec
CONSTANTS
  MaxLines = 4
  MaxClears = 1
  MaxStarts = 1
INVARIANT OnlyNewEntries
CHECK_DEADLOCK FALSE
