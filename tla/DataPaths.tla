----------------------------- MODULE DataPaths -----------------------------
(* The ways data take through the buffers between a device and the component *)
(* that wants them: the keys of the security demo from Crypto to the         *)
(* Transmitter, frames through the U-Boot ethernet driver and through the    *)
(* driver of picotcp_single_component, and the bytes and datagrams of that   *)
(* component's two echo servers.  Each is a system of its own (the servers   *)
(* run in one thread and share nothing but picotcp); path says which of them *)
(* has traffic, the others stay as they were started.                        *)
EXTENDS CryptoBuffer, EthDriverUboot, PicoEthBuffers, TcpEcho, UdpEcho

CONSTANT Paths        \* those that may have traffic

ASSUME PathsAssumption == Paths \subseteq {"crypto", "driver", "buffers", "tcp", "udp"}

VARIABLE path

notCrypto == <<path, driverVars, bufferVars, tcpVars, udpVars>>
notDriver == <<path, cryptoVars, bufferVars, tcpVars, udpVars>>
notBuffers == <<path, cryptoVars, driverVars, tcpVars, udpVars>>
notTcp == <<path, cryptoVars, driverVars, bufferVars, udpVars>>
notUdp == <<path, cryptoVars, driverVars, bufferVars, tcpVars>>
vars == <<path, cryptoVars, driverVars, bufferVars, tcpVars, udpVars>>

\* A driver without traffic is configured in one way only.
Init ==
  /\ path \in Paths
  /\ CryptoInit /\ DriverInit /\ BufferInit /\ TcpInit /\ UdpInit
  /\ path = "driver" \/ config = CHOOSE x \in Configs : TRUE

Next ==
  \/ path = "crypto" /\ CryptoNext /\ UNCHANGED notCrypto
  \/ path = "driver" /\ DriverNext /\ UNCHANGED notDriver
  \/ path = "buffers" /\ BufferNext /\ UNCHANGED notBuffers
  \/ path = "tcp" /\ TcpNext /\ UNCHANGED notTcp
  \/ path = "udp" /\ UdpNext /\ UNCHANGED notUdp

Spec == Init /\ [][Next]_vars
=============================================================================
