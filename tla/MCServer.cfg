\* Two connections of the logger, with every fault.
SPECIFICATION Spec
CONSTANTS
  home = home
  empty = empty
  None = None
  Blank = empty
  Texts <- MCTexts
  Trimmed <- MCTrimmed
  Conns = {c1, c2}
  Packets <- MCPackets
  MaxPackets = 2
  MaxOpens = 2
  PvCounts = {1}
  MaxPvCount = 1
  PvSlots = 4
  LoggerCounts = {1, 2}
  StatusCounts = {1, 2, 3}
  Capacity = 1
  Interval = 0
  Faults = {"lost", "dies", "restart"}
  MaxTime = 1
  MaxHandshakes = 1
  MaxFaults = 1
INVARIANTS
  TasksAgree
  NewestArrives
  BrokerShowsReports
  DiscoveryKnowsLogger
CONSTRAINT OneEvent
SYMMETRY ConnSymmetry
\* A logger may stop sending, and MaxOpens ends the model.
CHECK_DEADLOCK FALSE
