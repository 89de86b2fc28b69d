SPECIFICATION Spec
CONSTANTS
  BUF = 2
  TextPeers = {p, q}
  NUL = NUL
  MaxText = 3
  UtilClients = {u, v}
  Commands <- MCCommands
  Spelling <- MCSpelling
  MaxCommands = 2
  SERIAL_BUF = 3
  CLIENT_BUF = 3
  HEAP = 3
  MaxTyped = 6
  WIDTH = 18
  HEIGHT = 92
  CHAR_WIDTH = 14
  CHAR_HEIGHT = 26
  MaxKeys = 4
  DomainX <- MCDomainX
  DomainY <- MCDomainY
  DomainWidth <- MCDomainWidth
  DomainHeight <- MCDomainHeight
  TERMINAL_WIDTH = 10
  TERMINAL_HEIGHT = 3
  MESSAGE <- MCMESSAGE
  VGA_WIDTH = 2
  VGA_HEIGHT = 2
  Welcome <- MCWelcome
  UartMessage <- MCUartMessage
  MaxCodes = 4
  TICKS = 2
  WAIT = 2
  IRQS_PER_SECOND = 2
  MAX_VALUE = 5
  RATE = 2
  MaxTime = 10
  Scenes = {"util"}
CHECK_DEADLOCK FALSE
INVARIANTS
  ProtocolFollowed
