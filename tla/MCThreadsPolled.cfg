SPECIFICATION Spec
CONSTANTS
  MAX_LEN = 3
  Zero = "Z"
  Percent = "%"
  Greeting <- MCGreeting
  NetTexts <- MCNetTexts
  Converted <- MCConverted
  MaxRounds = 3
  Message <- MCMessage
  TCOUNT = 3
  COUNT_LIMIT = 4
  MAX_COUNT = 4
  TO_ECHO = 42
  CLIENTS = 2
  TIPC_LIMIT = 9
  POOL = 3
  N = 5
  Limit = 20
  c1 = c1
  c2 = c2
  c3 = c3
  c4 = c4
  Free = Free
  DhcpClients <- FourClients
  OCTETS = 5
  my_ip = 2
  EchoConns = {11, 12}
  PeerConns = {21, 22}
  Traffic <- MCTraffic
  socket_in = 1
  utiliz_socket = 2
  udp_socket = 3
  TcpBufs = {1, 2}
  UdpBufs = {3}
  QUEUE_LEN = 4
  READ_SIZE = 1
  MaxChunks = 1
CHECK_DEADLOCK FALSE
INVARIANT
  PolledEventsHandled
