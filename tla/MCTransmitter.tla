--------------------------- MODULE MCTransmitter ---------------------------
EXTENDS Transmitter

\* Two connections, one after or beside the other.
MCPeers == {2, 3}
=============================================================================
