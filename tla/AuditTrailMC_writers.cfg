SPECIFICATION Spec
CONSTANTS
  pool1 = pool1  pool2 = pool2  proxy = proxy  event = event
  reactiveTrail = reactiveTrail  proxyTrail = proxyTrail  eventTrail = eventTrail
  Home <- MCHome
  Thread = {pool1, pool2, proxy}
  Instance = {reactiveTrail, proxyTrail}
  MaxEntries = 3
  MaxClears = 1
SYMMETRY PoolSymmetry
INVARIANTS TypeOK BrokenOnlyByOverlap ForkBudget LinksPointUp
PROPERTY ChainUntilOverlap
