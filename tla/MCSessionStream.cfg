SPECIFICATION StreamSpec
CONSTANTS
  SocketBufSize = 10240
  ServerPacket <- MCServerPacket
  MaxSends = 2
  ClientPacket <- MCClientPacket
  TerminalPacket <- MCTerminalPacket
  MaxReceived = 3
  PeerPacket <- MCPeerPacket
  MaxAnswers = 3
CHECK_DEADLOCK FALSE
INVARIANTS CutInOrder WholeSegmentsAreCut SendsAreWhole DecodesAsSent AnswersAreHanded
