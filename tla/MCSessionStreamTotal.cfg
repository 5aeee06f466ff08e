SPECIFICATION StreamSpec
CONSTANTS
  SocketBufSize = 10240
  ServerPacket <- MCServerPacket
  MaxSends = 1
  ClientPacket <- MCClientPacket
  TerminalPacket <- MCTerminalPacket
  MaxReceived = 2
  PeerPacket <- MCPeerPacket
  MaxAnswers = 1
CHECK_DEADLOCK FALSE
PROPERTY TotalIsSetOnce
