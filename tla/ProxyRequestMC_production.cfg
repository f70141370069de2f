SPECIFICATION Spec
CONSTANTS
  anthropic = anthropic  other = other  k1 = k1  k2 = k2
  Host = {anthropic, other}
  Anthropic = anthropic
  Limit = 2
  Window = 1
  Escalating = FALSE
  BlockAt = 2
  Decay = 3
  Key = {k1, k2}
  RefreshInterval = 2
  MaxTime = 5
  MaxRequests = 5
PROPERTY BlockedUntilDecay
SYMMETRY KeySymmetry
CHECK_DEADLOCK FALSE
