\* Whole packets and noise, dumped to files that fail: the connection is
\* Framing all the same, and implements PacketChannel.
SPECIFICATION FairDumpSpec
CONSTANTS
  HEADER_LEN = 4
  FOOTER_LEN = 2
  MAX_PACKET_LEN = 8
  READ_BUF_LEN = 7
  SoupBytes = {0}
  SoupLen = 0
  MaxPieces = 3
  MaxFailures = 1
  Wires <- PieceWires
INVARIANTS
  DumpTypeOK
  LogTellsPackets
  AnswersLogged
  LossBounded
PROPERTIES
  ImplementsConnection
  ImplementsChannel
\* The task of a connection ends.
CHECK_DEADLOCK FALSE
