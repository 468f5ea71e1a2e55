\* Packets of the known format, of every length and with every header.
SPECIFICATION Spec
CONSTANTS
  Lengths <- MCLengths
  Fillers = {0, 85}
  Requests <- AllRequests
  Clocks <- MCClocks
INVARIANTS
  ReadsInside
  FieldsAsSent
  ResponseIsFrame
  DamageShows
\* A packet is parsed and answered.
CHECK_DEADLOCK FALSE
