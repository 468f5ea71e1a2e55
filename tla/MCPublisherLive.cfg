\* Two connections share the queue, and the broker comes back: handlers
\* return, discovery arrives.
SPECIFICATION FairSpec
CONSTANTS
  Conns = {c1, c2}
  PvCounts = {1}
  MaxPvCount = 1
  PvSlots = 4
  LoggerCounts = {1}
  StatusCounts = {}
  Capacity = 1
  Interval = 1
  Faults = {"lost", "dies", "restart"}
  MaxTime = 0
  MaxHandshakes = 1
  MaxFaults = 1
PROPERTIES
  HandlerReturns
  DiscoveryReachesBroker
