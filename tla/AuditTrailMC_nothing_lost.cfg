SPECIFICATION Spec
CONSTANTS
  pool1 = pool1  pool2 = pool2  proxy = proxy  event = event
  reactiveTrail = reactiveTrail  proxyTrail = proxyTrail  eventTrail = eventTrail
  Home <- MCHome
  Thread = {proxy}
  Instance = {proxyTrail}
  MaxEntries = 2
  MaxClears = 1
PROPERTY NothingLost
