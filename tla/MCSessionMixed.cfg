\* One connection at a time, packets of every kind.
SPECIFICATION Spec
CONSTANTS
  home = home
  homePadded = homePadded
  guest = guest
  empty = empty
  None = None
  Blank = empty
  Texts <- MCTexts
  Trimmed <- MCTrimmed
  Conns = {c1}
  Packets <- MixedPackets
  MaxPackets = 3
  MaxOpens = 2
INVARIANTS
  TypeOK
  AnswersInOrder
  LastReportShown
  SignalFromNewestRecord
PROPERTY
  SignalForwardInConnection
\* A logger may stop sending, and MaxOpens ends the model.
CHECK_DEADLOCK FALSE
