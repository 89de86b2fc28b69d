SPECIFICATION Spec
CONSTANTS
  MaxKeys = 3
  Capacity = 1
  ETH_TX_BUF_LEN = 2
  MMC_TX_BUF_LEN = 2
  Peers <- MCPeers
  ListenFd = 1
CHECK_DEADLOCK FALSE
INVARIANTS
  LogFaithful
  SentInOrder
  NoLostSocketEvent
PROPERTIES
  EventuallyLogged
  EventuallyAccepted
