SPECIFICATION FairSpec
CONSTANTS
  Rules <- InvestigateRules
  EnvKinds = {"BLOCKED"}
  Skew = 1
  BufferLen = 1
  MaxSpawns = 2
  Hour = 2
  Worker = {w1, w2}
  MaxEntries = 1
  MaxTime = 3
INVARIANT SpawnLimit
PROPERTY Quiesces
CHECK_DEADLOCK FALSE
