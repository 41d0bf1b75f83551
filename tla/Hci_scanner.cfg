SPECIFICATION FairSpec
CONSTANTS
  Silence = 3
  ReadTimeout = 1
  RestartDelay = 2
  SetupMax = 2
  HandlerMax = 5
  TokenMax = 1
  Packets <- MCPackets
  SocketMax = 2
  MaxSkips = 1
INVARIANTS
  TypeOK
  SilenceNoticed
  ShutdownBounded
PROPERTIES
  NoFalseAlarm
  Recovery
  StuckIsLeft
