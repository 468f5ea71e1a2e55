\* One connection, more PV inputs than a payload has room for.
SPECIFICATION Spec
CONSTANTS
  Conns = {c1}
  PvCounts = {1, 2}
  MaxPvCount = 2
  PvSlots = 1
  LoggerCounts = {1}
  StatusCounts = {1}
  Capacity = 2
  Interval = 1
  Faults = {"lost", "dies"}
  MaxTime = 2
  MaxHandshakes = 2
  MaxFaults = 1
PROPERTY
  QuietBetweenDiscoveries
