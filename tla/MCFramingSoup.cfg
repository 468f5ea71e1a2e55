\* Every string of up to SoupLen bytes, cut by every segmentation.
SPECIFICATION Spec
CONSTANTS
  HEADER_LEN = 3
  FOOTER_LEN = 1
  MAX_PACKET_LEN = 5
  READ_BUF_LEN = 5
  SoupBytes = {0, 1, 21, 165}
  SoupLen = 8
  MaxPieces = 0
  Wires <- SoupWires
INVARIANTS
  TypeOK
  PendingIsWindow
  PendingBounded
  NothingWaiting
  OnlyFooterRejects
  CutRespected
  NothingLost
\* The task of a connection ends.
CHECK_DEADLOCK FALSE
