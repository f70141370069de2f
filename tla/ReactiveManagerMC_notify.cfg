SPECIFICATION Spec
CONSTANTS
  Rules <- NotifyRules
  EnvKinds = {"BLOCKED", "DANGEROUS"}
  Skew = 0
  BufferLen = 4
  MaxSpawns = 1
  Hour = 1
  Worker = {w1}
  MaxEntries = 5
  MaxTime = 5
INVARIANT NothingPending
PROPERTIES FreshMatches ThresholdSound
CHECK_DEADLOCK FALSE
