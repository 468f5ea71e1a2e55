\* Two connections race for discovery, with every fault.
SPECIFICATION Spec
CONSTANTS
  Conns = {c1, c2}
  PvCounts = {1, 2}
  MaxPvCount = 2
  PvSlots = 4
  LoggerCounts = {1}
  StatusCounts = {}
  Capacity = 1
  Interval = 0
  Faults = {"lost", "dies", "restart"}
  MaxTime = 1
  MaxHandshakes = 1
  MaxFaults = 1
INVARIANTS
  TypeOK
  StampMeansDiscovered
  DataAfterDiscovery
  AnnouncedBeforeData
SYMMETRY ConnSymmetry
