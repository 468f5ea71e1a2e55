\* DATA that does not parse.
SPECIFICATION Spec
CONSTANTS
  home = home
  homePadded = homePadded
  guest = guest
  empty = empty
  None = None
  Blank = empty
  Texts <- MCTexts
  Trimmed <- MCTrimmed
  Conns = {c1}
  Packets <- DataOnly
  MaxPackets = 2
  MaxOpens = 1
INVARIANT
  EveryPacketAnswered
\* A logger may stop sending, and MaxOpens ends the model.
CHECK_DEADLOCK FALSE
