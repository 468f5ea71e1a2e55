\* Records cached over a reboot have larger offsets.
SPECIFICATION Spec
CONSTANTS
  home = home
  homePadded = homePadded
  guest = guest
  empty = empty
  None = None
  Blank = empty
  Texts <- MCTexts
  Trimmed <- MCTrimmed
  Conns = {c1}
  Packets <- RebootPackets
  MaxPackets = 3
  MaxOpens = 1
PROPERTY
  SignalNeverOlder
\* A logger may stop sending, and MaxOpens ends the model.
CHECK_DEADLOCK FALSE
