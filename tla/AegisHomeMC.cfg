SPECIFICATION Spec
CONSTANTS
  p1 = p1  p2 = p2
  Process = {p1, p2}
  Parts = {"vault", "credentials", "lists", "approvals", "rules", "patches", "call", "reports", "matcher"}
  SecretName = {"k1", "k2"}  MaxUses = 3  MaxKills = 1
  MaxShellCommands = 2  MaxOutside = 1
  Item = {"x", "y"}  Kinds = {"domains", "lan", "settings", "blocklist"}
  MaxListEdits = 2  MaxListClock = 2  MaxListKills = 1
  AskedCommand <- SomeCommands  Phrase <- SomePhrases
  TTL = {0, 1}  MaxAskTime = 3  MaxAsks = 3
  MaxRuleCommands = 3  MaxRuleEdits = 2
  PatchedFiles = {"docker.py", "main.py", "browser_tool.py", "local.py"}
  MaxLacking = 1  MaxPatchCommands = 2  MaxVersion = 2  MaxEdits = 1  MaxPatchCrashes = 1
  Length = 4  MarkLength = 2  Finders = 2  MaxSecrets = 2
  RuleName = {"r1"}  MaxJobs = 3  MaxEvents = 1
  EntryKinds = {"blocked", "dangerous"}
  MaxSteps = 3  MaxLength = 4  MaxTs = 3  Windows = {1}
SYMMETRY Symmetry
INVARIANTS
  TypeOK
  SecretsKept
  KeysKept
  EditsKept ProxyCurrent
  SwitchesHold
  SourceIntact
  BlockedNeverRuns RedactedExactly SecretsGone
  ActionsOnRecord EntriesDigested
  FindsEarliest
PROPERTIES
  DoctorHeals MergeRight
  CachedWithinGrant
  RulesSurvive
  AlonePassCompletes
CHECK_DEADLOCK FALSE
