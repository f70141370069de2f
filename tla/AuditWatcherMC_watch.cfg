SPECIFICATION FairSpec
CONSTANTS
  MaxLines = 5
  MaxClears = 2
  MaxStarts = 3
INVARIANTS NothingSkipped InOrderOnce
PROPERTIES RepeatsOnlyUnsaved EveryLineHandled
CHECK_DEADLOCK FALSE
