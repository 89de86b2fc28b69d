------------------------------- MODULE TcpEcho -------------------------------
(* The TCP echo server of picotcp_single_component (tcp_echo_socket.c): one  *)
(* picotcp callback for the listening socket and for every connection.  Like *)
(* all of the component it runs in one thread; a callback, from its start    *)
(* until tcpPc is "idle" again, is not interrupted.                          *)
(*                                                                           *)
(* A byte is <<connection, serial number>>, so a byte that turns up in the   *)
(* wrong place shows.  A socket is the connection it belongs to.             *)
EXTENDS Integers, Sequences

CONSTANTS
  Conns,             \* connections made in the course of a behaviour
  NoConn,            \* the code's NULL in connected[]
  MAX_TCP_CLIENTS, TCP_READ_SIZE,
  EventSets,         \* sets of events picotcp reports together
  MaxBytes           \* bound: bytes a peer sends

ASSUME EchoAssumption ==
  /\ NoConn \notin Conns
  /\ MAX_TCP_CLIENTS \in Nat /\ TCP_READ_SIZE \in Nat /\ MaxBytes \in Nat

VARIABLES
  tcpPc, sock, events, chunk,   \* the callback: where, socket, events left, and
                                \* what the reading part has yet to send
  connected, data_packet, write_pending, remaining_payload, sent_payload,
  link,                         \* each connection, as picotcp has it
  recvQueue,                    \* received bytes the server has not read
  rdDue,                        \* picotcp has yet to report them
  peerSent, peerGot,            \* histories: how many bytes the peer sent, and
                                \* what it got back
  failed                        \* pico_socket_send answered -1 on a fresh chunk

slotVars == <<connected, data_packet, write_pending, remaining_payload,
              sent_payload>>
netVars == <<link, recvQueue, rdDue, peerSent, peerGot, failed>>
tcpVars == <<tcpPc, sock, events, chunk, slotVars, netVars>>

Slots == 1..MAX_TCP_CLIENTS

TcpInit ==
  /\ tcpPc = "idle" /\ sock = NoConn /\ events = {} /\ chunk = <<>>
  /\ connected = [i \in Slots |-> NoConn]
  /\ data_packet = [i \in Slots |-> <<>>]
  /\ write_pending = [i \in Slots |-> FALSE]
  /\ remaining_payload = [i \in Slots |-> 0]
  /\ sent_payload = [i \in Slots |-> 0]
  /\ link = [c \in Conns |-> "none"]
  /\ recvQueue = [c \in Conns |-> <<>>] /\ rdDue = [c \in Conns |-> FALSE]
  /\ peerSent = [c \in Conns |-> 0] /\ peerGot = [c \in Conns |-> <<>>]
  /\ failed = [c \in Conns |-> FALSE]

\* The first slot that holds a value.
SlotOf(c) == CHOOSE i \in Slots : connected[i] = c /\ \A j \in 1..(i - 1) : connected[j] # c
client_id == SlotOf(sock)
Free == \E i \in Slots : connected[i] = NoConn
-----------------------------------------------------------------------------
(* The peers and picotcp (external).                                         *)

Connect(c) ==
  /\ tcpPc = "idle" /\ link[c] = "none"
  /\ link' = [link EXCEPT ![c] = "backlog"]
  /\ UNCHANGED <<tcpPc, sock, events, chunk, slotVars, recvQueue, rdDue,
                 peerSent, peerGot, failed>>

PeerSends(c) ==
  /\ tcpPc = "idle"
  /\ link[c] = "open" /\ peerSent[c] < MaxBytes
  /\ peerSent' = [peerSent EXCEPT ![c] = @ + 1]
  /\ recvQueue' = [recvQueue EXCEPT ![c] = Append(@, <<c, peerSent[c] + 1>>)]
  /\ rdDue' = [rdDue EXCEPT ![c] = TRUE]
  /\ UNCHANGED <<tcpPc, sock, events, chunk, slotVars, link, peerGot, failed>>
-----------------------------------------------------------------------------
\* Mutant: the flag of the slot's previous client is kept.
Reset_not(i) == write_pending
Reset(i) == [write_pending EXCEPT ![i] = FALSE]

\* EV_CONN on the listening socket.  Without a free slot the callback only
\* prints; when pico_socket_accept fails the slot stays free.
Accept(c) ==
  /\ tcpPc = "idle" /\ link[c] = "backlog"
  /\ Free
  /\ LET i == SlotOf(NoConn)
     IN  /\ write_pending' = Reset(i)
         /\ \/ /\ connected' = [connected EXCEPT ![i] = c]
               /\ link' = [link EXCEPT ![c] = "open"]
            \/ UNCHANGED <<connected, link>>
  /\ UNCHANGED <<tcpPc, sock, events, chunk, data_packet, remaining_payload,
                 sent_payload, recvQueue, rdDue, peerSent, peerGot, failed>>

\* Any other callback, on a connected socket; RD is reported when bytes arrive.
Callback(c, ev) ==
  /\ tcpPc = "idle" /\ link[c] \in {"open", "closing"}
  /\ "RD" \in ev => rdDue[c]
  /\ tcpPc' = "wr" /\ sock' = c /\ events' = ev
  /\ rdDue' = [rdDue EXCEPT ![c] = @ /\ "RD" \notin ev]
  /\ UNCHANGED <<chunk, slotVars, link, recvQueue, peerSent, peerGot, failed>>

Local(label) == tcpPc' = label

\* EV_WR without a blocked write, or no EV_WR.
SkipWrite ==
  /\ tcpPc = "wr"
  /\ ~("WR" \in events /\ write_pending[client_id])
  /\ Local("rd")
  /\ UNCHANGED <<sock, events, chunk, slotVars, netVars>>

\* The bytes of a blocked write that are left.
Unsent(i) == SubSeq(data_packet[i], sent_payload[i] + 1,
                    sent_payload[i] + remaining_payload[i])

Advanced(n) == [sent_payload EXCEPT ![client_id] = @ + n]

\* A round of the write loop, pico_socket_send taking n of the bytes.
WriteMore(n) ==
  /\ tcpPc = "wr" /\ "WR" \in events /\ write_pending[client_id]
  /\ n \in 1..remaining_payload[client_id] /\ link[sock] = "open"
  /\ peerGot' = [peerGot EXCEPT ![sock] = @ \o SubSeq(Unsent(client_id), 1, n)]
  /\ remaining_payload' = [remaining_payload EXCEPT ![client_id] = @ - n]
  /\ sent_payload' = Advanced(n)
  /\ UNCHANGED <<tcpPc, sock, events, chunk, connected, data_packet,
                 write_pending, link, recvQueue, rdDue, peerSent, failed>>

\* 0 or -1: the write stays pending.
WriteBlocked ==
  /\ tcpPc = "wr" /\ "WR" \in events /\ write_pending[client_id]
  /\ remaining_payload[client_id] > 0
  /\ Local("rd")
  /\ UNCHANGED <<sock, events, chunk, slotVars, netVars>>

\* Mutant: reads skipped while the write was blocked are not made up for.
EventsAfterWrite_same == events
EventsAfterWrite == events \cup {"RD"}

WriteDone ==
  /\ tcpPc = "wr" /\ "WR" \in events /\ write_pending[client_id]
  /\ remaining_payload[client_id] = 0
  /\ write_pending' = [write_pending EXCEPT ![client_id] = FALSE]
  /\ events' = EventsAfterWrite
  /\ Local("rd")
  /\ UNCHANGED <<sock, chunk, connected, data_packet, remaining_payload,
                 sent_payload, netVars>>
-----------------------------------------------------------------------------
\* The read loop ends: no EV_RD, a blocked write, or nothing left to receive
\* (0, or -1 on a socket that has nothing to give any more).
ReadDone ==
  /\ tcpPc = "rd"
  /\ \/ "RD" \notin events \/ write_pending[client_id]
     \/ recvQueue[sock] = <<>>
  /\ Local("end")
  /\ UNCHANGED <<sock, events, chunk, slotVars, netVars>>

\* pico_socket_recv gives n bytes.
ReadChunk(n) ==
  /\ tcpPc = "rd" /\ "RD" \in events /\ ~write_pending[client_id]
  /\ n \in 1..Len(recvQueue[sock]) /\ n <= TCP_READ_SIZE
  /\ chunk' = SubSeq(recvQueue[sock], 1, n)
  /\ data_packet' = [data_packet EXCEPT ![client_id] = chunk']
  /\ recvQueue' = [recvQueue EXCEPT ![sock] = SubSeq(@, n + 1, Len(@))]
  /\ Local("send")
  /\ UNCHANGED <<sock, events, connected, write_pending, remaining_payload,
                 sent_payload, link, rdDue, peerSent, peerGot, failed>>

\* A round of the send loop: n bytes taken ...
SendMore(n) ==
  /\ tcpPc = "send" /\ n \in 1..Len(chunk) /\ link[sock] = "open"
  /\ peerGot' = [peerGot EXCEPT ![sock] = @ \o SubSeq(chunk, 1, n)]
  /\ chunk' = SubSeq(chunk, n + 1, Len(chunk))
  /\ Local(IF n = Len(chunk) THEN "rd" ELSE "send")
  /\ UNCHANGED <<sock, events, slotVars, link, recvQueue, rdDue, peerSent, failed>>

\* ... or none: the rest is saved for the next EV_WR.
SendBlocks ==
  /\ tcpPc = "send"
  /\ write_pending' = [write_pending EXCEPT ![client_id] = TRUE]
  /\ remaining_payload' = [remaining_payload EXCEPT ![client_id] = Len(chunk)]
  /\ sent_payload' = [sent_payload EXCEPT ![client_id] =
                        Len(data_packet[client_id]) - Len(chunk)]
  /\ chunk' = <<>>
  /\ Local("rd")
  /\ UNCHANGED <<sock, events, connected, data_packet, netVars>>

\* ... or -1: the rest of the chunk is given up and the next one is read.
SendFails ==
  /\ tcpPc = "send"
  /\ failed' = [failed EXCEPT ![sock] = TRUE]
  /\ chunk' = <<>>
  /\ Local("rd")
  /\ UNCHANGED <<sock, events, slotVars, link, recvQueue, rdDue,
                 peerSent, peerGot>>

\* The rest of the callback: EV_CLOSE shuts the socket down, EV_FIN frees the
\* slot, EV_ERR fails an assertion.
Finish ==
  /\ tcpPc = "end"
  /\ link' = [link EXCEPT ![sock] = IF "FIN" \in events THEN "finished"
                                  ELSE IF "CLOSE" \in events THEN "closing" ELSE @]
  /\ connected' = IF "FIN" \in events
                  THEN [connected EXCEPT ![client_id] = NoConn] ELSE connected
  /\ Local(IF "ERR" \in events THEN "dead" ELSE "idle")
  /\ sock' = NoConn /\ events' = {}
  /\ UNCHANGED <<chunk, data_packet, write_pending, remaining_payload,
                 sent_payload, recvQueue, rdDue, peerSent, peerGot, failed>>
-----------------------------------------------------------------------------
WriteProgress == WriteDone \/ \E n \in 1..TCP_READ_SIZE : WriteMore(n)
TcpCallback == \/ SkipWrite \/ WriteProgress \/ WriteBlocked
               \/ ReadDone \/ SendBlocks \/ SendFails \/ Finish
               \/ \E n \in 1..TCP_READ_SIZE : ReadChunk(n) \/ SendMore(n)

TcpNext == \/ \E c \in Conns : \/ Connect(c) \/ PeerSends(c) \/ Accept(c)
                               \/ \E ev \in EventSets : Callback(c, ev)
           \/ TcpCallback
-----------------------------------------------------------------------------
\* Callbacks run to their end; picotcp reports what arrives and, again and
\* again, that it can send; a send that is tried over and over gets on.
TcpFairness == /\ WF_tcpVars(TcpCallback) /\ SF_tcpVars(WriteProgress)
               /\ \A c \in Conns : /\ SF_tcpVars(Callback(c, {"RD"}))
                                   /\ SF_tcpVars(Callback(c, {"WR"}))
-----------------------------------------------------------------------------
(* Properties                                                                *)

\* What is between the server's read and its send of a connection's bytes.
InServer(c) ==
  IF \E i \in Slots : connected[i] = c /\ write_pending[i]
  THEN Unsent(SlotOf(c))
  ELSE IF sock = c THEN chunk ELSE <<>>

\* "returns every byte it receives in order" (tcp_echo_socket.c:21): whatever
\* the sends took at a time, what the peer got, what the server still has to
\* send and what it has not read yet are the bytes the peer sent, until a send
\* fails.  After that, and on a slot that was another client's before, the
\* peer still gets only bytes of its own, none twice, in order.
EchoFaithful ==
  \A c \in Conns :
    /\ \A i \in 1..Len(peerGot[c]) : peerGot[c][i][1] = c
    /\ \A i, j \in 1..Len(peerGot[c]) :
         i < j => peerGot[c][i][2] < peerGot[c][j][2]
    /\ link[c] = "open" /\ ~failed[c] =>
         peerGot[c] \o InServer(c) \o recvQueue[c]
           = [i \in 1..peerSent[c] |-> <<c, i>>]

\* The server reads on: bytes that arrived while a write was blocked, whose
\* read event was skipped, are read when the write gets through.
EventuallyRead ==
  TcpFairness => \A c \in Conns :
                   recvQueue[c] # <<>> /\ link[c] = "open"
                     ~> recvQueue[c] = <<>> \/ link[c] # "open" \/ tcpPc = "dead"
=============================================================================
