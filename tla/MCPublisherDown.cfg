\* The broker may stay away.
SPECIFICATION TaskFairSpec
CONSTANTS
  Conns = {c1}
  PvCounts = {1}
  MaxPvCount = 1
  PvSlots = 4
  LoggerCounts = {1}
  StatusCounts = {1}
  Capacity = 3
  Interval = 1
  Faults = {"lost"}
  MaxTime = 1
  MaxHandshakes = 1
  MaxFaults = 1
PROPERTY
  HandlerReturns
