SPECIFICATION Spec
CONSTANTS
  Chars <- MCChars
  BufSize = 4
  MaxKeys = 6
  NumClients = 2
  CLIENT_RX_BUFS = 3
  FrameKinds <- MCFrameKinds
  Configs <- MCConfigs
  HwMac = "hw"
  TxLens <- MCTxLens
  MaxFrames = 3
  RX_BUFS = 3
  TX_BUFS = 2
  LoopScore = 2
  MaxReceived = 4
  MaxSends = 2
  p = p
  q = q
  NoConn = NoConn
  Conns <- MCConns
  EventSets <- MCEventSets
  MAX_TCP_CLIENTS = 1
  TCP_READ_SIZE = 2
  MaxBytes = 2
  MaxDatagrams = 3
  Paths = {"driver"}
CHECK_DEADLOCK FALSE
PROPERTY
  AllFramesRead
