SPECIFICATION FairSpec
CONSTANTS
  Session = {s1}
  Shell = {c1}
  Port = {1, 2}
  Attempts = 2
  Taking = {2}
  MaxProcs = 3
  MaxVault = 2
  MaxCommands = 2
  MaxEvents = 1
INVARIANTS SecretsOnDisk NoOrphan
PROPERTIES StopLeavesNone SessionServed
CHECK_DEADLOCK FALSE
