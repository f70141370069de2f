SPECIFICATION Spec
CONSTANTS
  pool1 = pool1  pool2 = pool2  proxy = proxy  event = event
  reactiveTrail = reactiveTrail  proxyTrail = proxyTrail  eventTrail = eventTrail
  Home <- MCHome
  Thread = {proxy, event}
  Instance = {proxyTrail, eventTrail}
  MaxEntries = 2
  MaxClears = 0
INVARIANT StayCorrect
