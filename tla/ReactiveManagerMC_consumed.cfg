SPECIFICATION Spec
CONSTANTS
  Rules <- NotifyRules
  EnvKinds = {"BLOCKED", "DANGEROUS"}
  Skew = 1
  BufferLen = 4
  MaxSpawns = 1
  Hour = 1
  Worker = {w1}
  MaxEntries = 4
  MaxTime = 4
PROPERTY FreshMatches
CHECK_DEADLOCK FALSE
