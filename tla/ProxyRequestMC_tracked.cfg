SPECIFICATION Spec
CONSTANTS
  anthropic = anthropic  other = other  k1 = k1  k2 = k2
  Host = {anthropic, other}
  Anthropic = anthropic
  Limit = 2
  Window = 3
  Escalating = TRUE
  BlockAt = 2
  Decay = 1
  Key = {k1, k2}
  RefreshInterval = 2
  MaxTime = 5
  MaxRequests = 5
INVARIANTS RateWindow LevelIsOfRun
PROPERTIES AnomaliesReported KeyInTime
SYMMETRY KeySymmetry
CHECK_DEADLOCK FALSE
