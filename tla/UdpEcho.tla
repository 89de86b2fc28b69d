------------------------------- MODULE UdpEcho -------------------------------
(* The UDP echo server of picotcp_single_component (udp_echo_socket.c).  It  *)
(* is a callback of picotcp, which runs in the same thread: a callback, from *)
(* its start until udpPc is "idle" again, is not interrupted, and datagrams  *)
(* arrive between callbacks.                                                 *)
(*                                                                           *)
(* A datagram is its serial number, which stands for its bytes, its origin   *)
(* and its length; pending_len is the number of the datagram whose length    *)
(* was stored, or NoLength for the code's -1.                                *)
EXTENDS Integers, Sequences

CONSTANT MaxDatagrams        \* bound: datagrams that arrive

VARIABLES
  udpPc,
  inbox,             \* datagrams queued in the socket
  arrived,           \* how many have arrived
  rx_queued,
  udp_data_packet,   \* the datagram in the buffer, with udp_orig and its port
  pending_len,
  echoed             \* history: <<datagram sent, datagram whose length it had>>

udpVars == <<udpPc, inbox, arrived, rx_queued, udp_data_packet, pending_len,
             echoed>>

NoLength == -1

UdpInit ==
  /\ udpPc = "idle" /\ inbox = <<>> /\ arrived = 0
  /\ rx_queued = 0 /\ udp_data_packet = 0 /\ pending_len = NoLength
  /\ echoed = <<>>

\* The second test of the callback: a WR event with a datagram pending.
AfterEvents(wr) == IF wr /\ pending_len # NoLength THEN "resend" ELSE "recv"

\* Mutant: read events are not counted while a datagram is pending.
Counted_unless_pending == IF pending_len = NoLength THEN rx_queued + 1 ELSE rx_queued
Counted == rx_queued + 1

\* A datagram arrives, and picotcp calls back with RD, and WR perhaps.
ReadEvent(wr) ==
  /\ udpPc = "idle"
  /\ arrived < MaxDatagrams
  /\ arrived' = arrived + 1
  /\ inbox' = Append(inbox, arrived + 1)
  /\ rx_queued' = Counted
  /\ udpPc' = AfterEvents(wr)
  /\ UNCHANGED <<udp_data_packet, pending_len, echoed>>

\* A callback without RD: WR, or ERR, which is only printed.
OtherEvent(wr) ==
  /\ udpPc = "idle"
  /\ udpPc' = AfterEvents(wr)
  /\ UNCHANGED <<inbox, arrived, rx_queued, udp_data_packet, pending_len, echoed>>

\* pico_socket_sendto takes the pending datagram ...
ResendDone ==
  /\ udpPc = "resend"
  /\ echoed' = Append(echoed, <<udp_data_packet, pending_len>>)
  /\ pending_len' = NoLength
  /\ udpPc' = "recv"
  /\ UNCHANGED <<inbox, arrived, rx_queued, udp_data_packet>>

\* ... or answers 0 or -1, and the callback returns.
ResendBlocked ==
  /\ udpPc = "resend"
  /\ udpPc' = "idle"
  /\ UNCHANGED <<inbox, arrived, rx_queued, udp_data_packet, pending_len, echoed>>

Queued == rx_queued > 0

RecvNothingQueued ==
  /\ udpPc = "recv" /\ ~Queued
  /\ udpPc' = "idle"
  /\ UNCHANGED <<inbox, arrived, rx_queued, udp_data_packet, pending_len, echoed>>

Recv ==
  /\ udpPc = "recv" /\ Queued /\ inbox # <<>>
  /\ udp_data_packet' = Head(inbox)
  /\ inbox' = Tail(inbox)
  /\ rx_queued' = rx_queued - 1
  /\ udpPc' = "send"
  /\ UNCHANGED <<arrived, pending_len, echoed>>

\* pico_socket_recvfrom answers 0, for an empty datagram or for none (or -1,
\* which picotcp has for sockets that are not bound): the loop is left with the
\* rest of the datagrams still counted.
RecvFails ==
  /\ udpPc = "recv" /\ Queued
  /\ inbox' = IF inbox = <<>> THEN inbox ELSE Tail(inbox)
  /\ rx_queued' = rx_queued - 1
  /\ udpPc' = "idle"
  /\ UNCHANGED <<arrived, udp_data_packet, pending_len, echoed>>

SendDone ==
  /\ udpPc = "send"
  /\ echoed' = Append(echoed, <<udp_data_packet, udp_data_packet>>)
  /\ udpPc' = "recv"
  /\ UNCHANGED <<inbox, arrived, rx_queued, udp_data_packet, pending_len>>

SendBlocked ==
  /\ udpPc = "send"
  /\ pending_len' = udp_data_packet
  /\ udpPc' = "idle"
  /\ UNCHANGED <<inbox, arrived, rx_queued, udp_data_packet, echoed>>

UdpCallback == \/ ResendDone \/ ResendBlocked \/ RecvNothingQueued \/ Recv
               \/ RecvFails \/ SendDone \/ SendBlocked

UdpNext == \/ \E wr \in BOOLEAN : ReadEvent(wr) \/ OtherEvent(wr)
           \/ UdpCallback
-----------------------------------------------------------------------------
\* Callbacks run to their end, picotcp calls back again and again when it can
\* send, and a send that is tried over and over succeeds.
UdpFairness == /\ WF_udpVars(UdpCallback) /\ WF_udpVars(OtherEvent(TRUE))
               /\ SF_udpVars(ResendDone)
-----------------------------------------------------------------------------
(* Properties                                                                *)

\* Datagrams do not stay in the socket for ever: each one's read event is
\* remembered in rx_queued over blocked sends and failed receives.
InboxDrains == UdpFairness => (inbox # <<>> ~> inbox = <<>>)

\* "responds to every UDP packet sent to it by replying with the same message
\* to the sender", and "If packets can't be sent then the server will stop
\* receiving packets until it is able to send" (udp_echo_socket.c:19-24):
\* every reply has the bytes and the length of one datagram.
ReplyIsSameMessage == \A i \in 1..Len(echoed) : echoed[i][1] = echoed[i][2]
=============================================================================
