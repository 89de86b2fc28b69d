SPECIFICATION Spec
CONSTANTS
  MaxKeys = 1
  Capacity = 2
  ETH_TX_BUF_LEN = 2
  MMC_TX_BUF_LEN = 2
  Peers <- MCPeers
  ListenFd = 1
CHECK_DEADLOCK FALSE
INVARIANT MinusOneMeansUnconnected
