----------------------------- MODULE AsyncEcho -----------------------------
(* The Echo component of picotcp_tcp_echo (echo.c, tcp_echo_socket.c,        *)
(* udp_echo_socket.c, utilization_socket.c), a client of PicoServer.         *)
(* Buffers circulate: Echo makes them available in rx_virtqueue, PicoServer  *)
(* fills them, Echo passes them on in tx_virtqueue, PicoServer sends them and*)
(* gives them back.  With no TCP client a TCP buffer rests in rx_buf_pool.   *)
(* Echo has one control thread.  PicoServer (external) has a lower priority: *)
(* it runs while Echo waits for a notification or for the answer to a call.  *)
(*                                                                           *)
(* File descriptors are positive and not used twice.  A buffer's contents is *)
(* <<socket, serial number, length>> of the chunk last received into it.     *)
EXTENDS Integers, SequencesExt

CONSTANTS
  EchoConns, PeerConns,        \* connections to the echo and utilization ports
  socket_in, utiliz_socket, udp_socket,
  TcpBufs, UdpBufs,
  QUEUE_LEN,                   \* PICOTCP_SOCKET_ASYNC_QUEUE_LEN
  READ_SIZE,                   \* TCP_READ_SIZE and UDP_READ_SIZE
  MaxChunks,                   \* bound: chunks received on a socket
  Traffic                      \* bound: sets of sockets with traffic

ASSUME TuningAssumption ==     \* tuning_params.h:22
  /\ QUEUE_LEN \in Nat /\ QUEUE_LEN > Cardinality(TcpBufs) + Cardinality(UdpBufs)
  /\ READ_SIZE \in Nat
ASSUME BuffersAssumption ==
  IsFiniteSet(TcpBufs) /\ IsFiniteSet(UdpBufs) /\ TcpBufs \cap UdpBufs = {}

VARIABLES
  aPc,                         \* what Echo's thread is at
  server_event,                \* the event polled last
  tcp_echo_client, peer_socket,
  rx_buf_pool,                 \* its first num_rx_bufs elements
  msg,                         \* the header and contents of each buffer
  rxAvail, rxUsed, txAvail, txUsed,
  evs, control, async,         \* PicoServer: events not polled, notifications
  aLink,                       \* PicoServer: the connections
  aReceived, aEchoed,            \* histories: chunks received, and sent, by socket
  active                       \* the sockets that have traffic

queues == <<rxAvail, rxUsed, txAvail, txUsed>>
asyncVars == <<aPc, server_event, tcp_echo_client, peer_socket, rx_buf_pool, msg,
               queues, evs, control, async, aLink, aReceived, aEchoed, active>>

Bufs == TcpBufs \cup UdpBufs
AConns == EchoConns \cup PeerConns
DataSocks == EchoConns \cup {udp_socket}
Sockets == AConns \cup {socket_in, utiliz_socket}
NoEvent == [socket |-> 0, events |-> {}, left |-> 0]
Listening(c) == IF c \in EchoConns THEN socket_in ELSE utiliz_socket

\* The elements of a set, in an order that does not matter.
Listed(S) == CHOOSE s \in [1..Cardinality(S) -> S] :
               \A b \in S : \E i \in DOMAIN s : s[i] = b

\* setup_echo_server: both queues, and a handler for each notification.
EchoSetup ==
  /\ aPc = "idle" /\ server_event = NoEvent
  /\ rxUsed = <<>> /\ txAvail = <<>> /\ txUsed = <<>>

\* setup_tcp_echo_socket: TCP buffers are for no socket and rest in the pool.
TcpSetup == tcp_echo_client = 0 /\ rx_buf_pool = Listed(TcpBufs)
TcpBuffer == [socket_fd |-> -1, total_len |-> 0, done_len |-> 0, data |-> <<>>]

\* setup_udp_echo_socket: UDP buffers are made available.
UdpSetup == rxAvail = Listed(UdpBufs)
UdpBuffer == [socket_fd |-> udp_socket, total_len |-> READ_SIZE, done_len |-> 0,
              data |-> <<>>]

\* setup_utilization_socket
UtilizationSetup == peer_socket = -1

AsyncInit ==
  /\ EchoSetup /\ TcpSetup /\ UdpSetup /\ UtilizationSetup
  /\ msg = [b \in Bufs |-> IF b \in TcpBufs THEN TcpBuffer ELSE UdpBuffer]
  /\ evs = [s \in Sockets |-> {}] /\ control = FALSE /\ async = FALSE
  /\ aLink = [c \in AConns |-> "none"]
  /\ aReceived = [s \in AConns \cup {udp_socket} |-> <<>>]
  /\ aEchoed = [s \in DataSocks |-> <<>>]
  /\ active \in Traffic
-----------------------------------------------------------------------------
(* PicoServer (external)                                                     *)

Scheduled == aPc \in {"idle", "loop", "poll", "poll again"}

Raise(s, e) == evs' = [evs EXCEPT ![s] = @ \cup {e}] /\ control' = TRUE

\* A peer connects; the backlog holds one connection.
SConnect(c) ==
  /\ Scheduled /\ c \in active /\ aLink[c] = "none"
  /\ \A d \in AConns : Listening(d) = Listening(c) => aLink[d] # "backlog"
  /\ aLink' = [aLink EXCEPT ![c] = "backlog"] /\ Raise(Listening(c), "CONN")
  /\ UNCHANGED <<aPc, server_event, tcp_echo_client, peer_socket, rx_buf_pool,
                 msg, queues, async, aReceived, aEchoed, active>>

\* An open connection has something to say: a command on a utilization socket,
\* the peer's close, or its end.  (ERR is only printed and left out.)
SEvent(c, e) ==
  /\ Scheduled
  /\ \/ /\ aLink[c] = "open" /\ e = "READ"
        /\ c \in PeerConns /\ Len(aReceived[c]) < MaxChunks
     \/ aLink[c] = "open" /\ e = "CLOSE"
     \/ aLink[c] = "closing" /\ e = "FIN"
  /\ e \notin evs[c]
  /\ aLink' = [aLink EXCEPT ![c] = CASE e = "CLOSE" -> "closing"
                                     [] e = "FIN" -> "closed" [] OTHER -> @]
  /\ aReceived' = [aReceived EXCEPT ![c] = IF e = "READ" THEN Append(@, e) ELSE @]
  /\ Raise(c, e)
  /\ UNCHANGED <<aPc, server_event, tcp_echo_client, peer_socket, rx_buf_pool,
                 msg, queues, async, aEchoed, active>>

FirstFor(q, b) == \E i \in DOMAIN q :
  /\ q[i] = b
  /\ \A j \in 1..(i - 1) : msg[q[j]].socket_fd # msg[b].socket_fd
Alive(s) == s = udp_socket \/ (s \in AConns /\ aLink[s] = "open")

\* A chunk of n bytes arrives into the first buffer made available for a socket.
SReceive(b, n) ==
  LET s == msg[b].socket_fd
      chunk == <<s, Len(aReceived[s]) + 1, n>>
  IN  /\ Scheduled /\ FirstFor(rxAvail, b) /\ s \in active /\ Alive(s) /\ Len(aReceived[s]) < MaxChunks
      /\ msg' = [msg EXCEPT ![b].done_len = n, ![b].data = chunk]
      /\ aReceived' = [aReceived EXCEPT ![s] = Append(@, chunk)]
      /\ rxAvail' = RemoveFirst(rxAvail, b) /\ rxUsed' = Append(rxUsed, b)
      /\ async' = TRUE
      /\ UNCHANGED <<aPc, server_event, tcp_echo_client, peer_socket, rx_buf_pool,
                     txAvail, txUsed, evs, control, aLink, aEchoed, active>>

\* A buffer comes back empty: an empty datagram, or the socket is closed.
SReturn(b, n) ==
  /\ Scheduled /\ FirstFor(rxAvail, b)
  /\ \/ n = 0 /\ msg[b].socket_fd = udp_socket /\ udp_socket \in active
     \/ n = -1 /\ ~Alive(msg[b].socket_fd)
  /\ msg' = [msg EXCEPT ![b].done_len = n]
  /\ rxAvail' = RemoveFirst(rxAvail, b) /\ rxUsed' = Append(rxUsed, b)
  /\ async' = TRUE
  /\ UNCHANGED <<aPc, server_event, tcp_echo_client, peer_socket, rx_buf_pool,
                 txAvail, txUsed, evs, control, aLink, aReceived, aEchoed, active>>

\* The first total_len bytes of a buffer are sent, or the socket is closed.
SSend(b) ==
  LET s == msg[b].socket_fd
  IN  /\ Scheduled /\ FirstFor(txAvail, b)
      /\ IF Alive(s)
         THEN /\ aEchoed' = [aEchoed EXCEPT ![s] =
                   Append(@, <<msg[b].data[1], msg[b].data[2], msg[b].total_len>>)]
              /\ msg' = [msg EXCEPT ![b].done_len = msg[b].total_len]
         ELSE /\ msg' = [msg EXCEPT ![b].done_len = -1]
              /\ UNCHANGED aEchoed
      /\ txAvail' = RemoveFirst(txAvail, b) /\ txUsed' = Append(txUsed, b)
      /\ async' = TRUE
      /\ UNCHANGED <<aPc, server_event, tcp_echo_client, peer_socket, rx_buf_pool,
                     rxAvail, rxUsed, evs, control, aLink, aReceived, active>>
-----------------------------------------------------------------------------
(* handle_picoserver_notification                                            *)

\* echo_control_event_poll: the events of a socket that has any.
Poll ==
  LET Pending == {s \in Sockets : evs[s] # {}}
  IN  IF Pending = {} THEN server_event' = NoEvent /\ UNCHANGED evs
      ELSE \E s \in Pending :
             /\ server_event' = [socket |-> s, events |-> evs[s],
                                 left |-> Cardinality(Pending) - 1]
             /\ evs' = [evs EXCEPT ![s] = {}]

ControlNotified ==
  /\ aPc = "idle" /\ control
  /\ control' = FALSE /\ Poll /\ aPc' = "loop"
  /\ UNCHANGED <<tcp_echo_client, peer_socket, rx_buf_pool, msg, queues, async,
                 aLink, aReceived, aEchoed, active>>

LoopEnds ==
  /\ aPc = "loop" /\ server_event.left = 0 /\ server_event.events = {}
  /\ aPc' = "idle"
  /\ UNCHANGED <<server_event, tcp_echo_client, peer_socket, rx_buf_pool, msg,
                 queues, evs, control, async, aLink, aReceived, aEchoed, active>>

\* virtqueue_add_available_buf: an entry of the ring is taken until the buffer
\* is collected again; with none left the buffer is dropped and an error logged.
AddAvailable(avail, used, bs) ==
  IF Len(avail) + Len(used) + Len(bs) <= QUEUE_LEN THEN avail \o bs ELSE avail

Accepted(s, c) == Listening(c) = s /\ aLink[c] = "backlog"
Closed(link, c) == IF c \in AConns THEN [link EXCEPT ![c] = "closed"] ELSE link

\* handle_tcp_echo_notification with CONN: the client is the new connection,
\* also when there is one already, and all pooled buffers are made available.
TcpConn ==
  /\ aPc = "loop" /\ server_event.socket = socket_in
  /\ "CONN" \in server_event.events
  /\ \E c \in AConns :
       /\ Accepted(socket_in, c)
       /\ tcp_echo_client' = c /\ aLink' = [aLink EXCEPT ![c] = "open"]
       /\ msg' = [b \in Bufs |->
            IF b \in Range(rx_buf_pool)
            THEN [msg[b] EXCEPT !.total_len = READ_SIZE, !.done_len = 0, !.socket_fd = c]
            ELSE msg[b]]
  /\ rxAvail' = AddAvailable(rxAvail, rxUsed, Reverse(rx_buf_pool))
  /\ rx_buf_pool' = <<>>
  /\ server_event' = NoEvent /\ aPc' = "poll"
  /\ UNCHANGED <<peer_socket, rxUsed, txAvail, txUsed, evs, control, async,
                 aReceived, aEchoed, active>>

\* ... with CLOSE (shutdown) or FIN.
TcpEnd ==
  /\ aPc = "loop" /\ server_event.socket = tcp_echo_client
  /\ server_event.events # {}
  /\ aLink' = IF "FIN" \in server_event.events THEN Closed(aLink, tcp_echo_client)
              ELSE IF "CLOSE" \in server_event.events /\ aLink[tcp_echo_client] = "open"
              THEN [aLink EXCEPT ![tcp_echo_client] = "closing"] ELSE aLink
  /\ tcp_echo_client' = IF "FIN" \in server_event.events THEN -1 ELSE tcp_echo_client
  /\ server_event' = NoEvent /\ aPc' = "poll"
  /\ UNCHANGED <<peer_socket, rx_buf_pool, msg, queues, evs, control, async,
                 aReceived, aEchoed, active>>

\* handle_tcp_utiliz_notification; what is answered to a command is Answer of
\* module Utilization, and STOP also shuts the connection down.
PeerConn ==
  /\ aPc = "loop" /\ server_event.socket = utiliz_socket
  /\ "CONN" \in server_event.events
  /\ \E c \in AConns :
       /\ Accepted(utiliz_socket, c)
       /\ peer_socket' = c /\ aLink' = [aLink EXCEPT ![c] = "open"]
  /\ server_event' = NoEvent /\ aPc' = "poll"
  /\ UNCHANGED <<tcp_echo_client, rx_buf_pool, msg, queues, evs, control, async,
                 aReceived, aEchoed, active>>

PeerEvent(stop) ==
  LET ev == server_event.events
  IN  /\ aPc = "loop" /\ server_event.socket = peer_socket /\ ev # {}
      /\ aLink' = IF aLink[peer_socket] = "open"
                     /\ ("CLOSE" \in ev \/ ("READ" \in ev /\ stop))
                  THEN [aLink EXCEPT ![peer_socket] = "closing"] ELSE aLink
      /\ peer_socket' = IF "FIN" \in ev THEN -1 ELSE peer_socket
      /\ server_event' = NoEvent /\ aPc' = "poll"
      /\ UNCHANGED <<tcp_echo_client, rx_buf_pool, msg, queues, evs, control, async,
                     aReceived, aEchoed, active>>

\* "no registered handler": a connection that another one has replaced.
Unregistered ==
  /\ aPc = "loop" /\ server_event.events # {}
  /\ server_event.socket \notin {utiliz_socket, peer_socket, socket_in, tcp_echo_client}
  /\ server_event' = NoEvent /\ aPc' = "poll again"
  /\ UNCHANGED <<tcp_echo_client, peer_socket, rx_buf_pool, msg, queues, evs,
                 control, async, aLink, aReceived, aEchoed, active>>

\* echo.c:29 and 32, then 38, which overwrites what the first poll returned.
PollInBranch ==
  /\ aPc = "poll" /\ Poll /\ aPc' = "poll again"
  /\ UNCHANGED <<tcp_echo_client, peer_socket, rx_buf_pool, msg, queues, control,
                 async, aLink, aReceived, aEchoed, active>>

PollAgain ==
  /\ aPc = "poll again" /\ Poll /\ aPc' = "loop"
  /\ UNCHANGED <<tcp_echo_client, peer_socket, rx_buf_pool, msg, queues, control,
                 async, aLink, aReceived, aEchoed, active>>
-----------------------------------------------------------------------------
(* async_event: the buffers PicoServer has sent, then those it has filled    *)

AsyncNotified ==
  /\ aPc = "idle" /\ async
  /\ async' = FALSE /\ aPc' = "sent"
  /\ UNCHANGED <<server_event, tcp_echo_client, peer_socket, rx_buf_pool, msg,
                 queues, evs, control, aLink, aReceived, aEchoed, active>>

\* Mutant: the handler leaves filled buffers for the next notification.
NextQueue_early ==
  /\ \/ aPc = "sent" /\ txUsed = <<>> /\ aPc' = "received"
     \/ aPc = "received" /\ aPc' = "idle"
  /\ UNCHANGED <<server_event, tcp_echo_client, peer_socket, rx_buf_pool, msg,
                 queues, evs, control, async, aLink, aReceived, aEchoed, active>>
NextQueue ==
  /\ \/ aPc = "sent" /\ txUsed = <<>> /\ aPc' = "received"
     \/ aPc = "received" /\ rxUsed = <<>> /\ aPc' = "idle"
  /\ UNCHANGED <<server_event, tcp_echo_client, peer_socket, rx_buf_pool, msg,
                 queues, evs, control, async, aLink, aReceived, aEchoed, active>>

\* A TCP buffer of a connection that is not the client's any more.
Foreign(b) == b \in TcpBufs /\ msg[b].socket_fd # tcp_echo_client
Pooled(b) == Foreign(b) /\ tcp_echo_client = -1
ForClient(b) == [msg[b] EXCEPT
  !.total_len = READ_SIZE, !.done_len = 0,
  !.socket_fd = IF b \in TcpBufs THEN tcp_echo_client ELSE @]

\* Mutant: the buffer is pooled and made available as well.
SentTo_both(b) ==
  /\ rx_buf_pool' = IF Pooled(b) THEN Append(rx_buf_pool, b) ELSE rx_buf_pool
  /\ rxAvail' = AddAvailable(rxAvail, rxUsed, <<b>>)
SentTo(b) ==
  IF Pooled(b)
  THEN rx_buf_pool' = Append(rx_buf_pool, b) /\ UNCHANGED rxAvail
  ELSE rxAvail' = AddAvailable(rxAvail, rxUsed, <<b>>) /\ UNCHANGED rx_buf_pool

\* tcp_socket_handle_async_sent, udp_socket_handle_async_sent
Sent ==
  /\ aPc = "sent" /\ txUsed # <<>>
  /\ LET b == Head(txUsed)
     IN  /\ msg' = [msg EXCEPT ![b] =
              IF Pooled(b) THEN [@ EXCEPT !.total_len = READ_SIZE, !.done_len = 0]
              ELSE ForClient(b)]
         /\ SentTo(b)
  /\ txUsed' = Tail(txUsed)
  /\ UNCHANGED <<aPc, server_event, tcp_echo_client, peer_socket, rxUsed, txAvail,
                 evs, control, async, aLink, aReceived, aEchoed, active>>

\* The test that both received-handlers make.
NothingReceived(b) == msg[b].done_len \in {-1, 0}

\* Mutant: the test for a replaced connection is left out.
NothingToEcho_foreign(b) == NothingReceived(b)
NothingToEcho(b) == Foreign(b) \/ NothingReceived(b)

\* tcp_socket_handle_async_received, udp_socket_handle_async_received
Received ==
  /\ aPc = "received" /\ rxUsed # <<>>
  /\ LET b == Head(rxUsed)
         rest == Tail(rxUsed)
     IN  \/ /\ Pooled(b)
            /\ rx_buf_pool' = Append(rx_buf_pool, b)
            /\ UNCHANGED <<msg, rxAvail, txAvail>>
         \/ /\ ~Pooled(b) /\ NothingToEcho(b)
            /\ msg' = [msg EXCEPT ![b] = ForClient(b)]
            /\ rxAvail' = AddAvailable(rxAvail, rest, <<b>>)
            /\ UNCHANGED <<rx_buf_pool, txAvail>>
         \/ /\ ~Pooled(b) /\ ~NothingToEcho(b)
            /\ msg' = [msg EXCEPT ![b] =
                 [ForClient(b) EXCEPT !.total_len = msg[b].done_len]]
            /\ txAvail' = AddAvailable(txAvail, txUsed, <<b>>)
            /\ UNCHANGED <<rx_buf_pool, rxAvail>>
  /\ rxUsed' = Tail(rxUsed)
  /\ UNCHANGED <<aPc, server_event, tcp_echo_client, peer_socket, txUsed, evs,
                 control, async, aLink, aReceived, aEchoed, active>>
-----------------------------------------------------------------------------
EchoThread ==
  \/ ControlNotified \/ LoopEnds \/ TcpConn \/ TcpEnd \/ PeerConn
  \/ \E stop \in BOOLEAN : PeerEvent(stop)
  \/ Unregistered \/ PollInBranch \/ PollAgain
  \/ AsyncNotified \/ NextQueue \/ Sent \/ Received

Server ==
  \/ \E c \in AConns : SConnect(c) \/ \E e \in {"READ", "CLOSE", "FIN"} : SEvent(c, e)
  \/ \E b \in Bufs : \/ \E n \in 1..READ_SIZE : SReceive(b, n)
                     \/ \E n \in {-1, 0} : SReturn(b, n)
                     \/ SSend(b)

AsyncNext == EchoThread \/ Server
-----------------------------------------------------------------------------
(* Properties                                                                *)

Places == rx_buf_pool \o rxAvail \o rxUsed \o txAvail \o txUsed

\* Every buffer is in exactly one place whatever connections come and go (so
\* that neither the pool nor a queue overflows), UDP buffers never get into the
\* TCP pool, and with a client connected no TCP buffer lies idle there.
AsyncBuffersConserved ==
  /\ Len(Places) = Cardinality(Bufs) /\ Range(Places) = Bufs
  /\ Range(rx_buf_pool) \subseteq TcpBufs
  /\ tcp_echo_client > 0 => rx_buf_pool = <<>>

IsSubSequence(s, t) ==
  \E f \in [1..Len(s) -> 1..Len(t)] :
    /\ \A i, j \in 1..Len(s) : i < j => f[i] < f[j]
    /\ \A i \in 1..Len(s) : s[i] = t[f[i]]

\* A socket is sent only chunks it received, whole, once and in order; none that
\* was received on a connection before it.
EchoedToSender ==
  \A s \in DataSocks : IsSubSequence(aEchoed[s], aReceived[s])

\* Nothing gets stuck between the queues: whatever order notifications and
\* connections come in, in the end each chunk received was sent back, unless
\* its connection is closed or another client has been connected since
\* (tcp_echo_socket.c:24-112).
AllEchoed ==
  \A s \in DataSocks :
    \/ Len(aEchoed[s]) = Len(aReceived[s])
    \/ s # udp_socket /\ (aLink[s] # "open" \/ tcp_echo_client # s)
EventuallyEchoed == <>[]AllEchoed

\* "Now poll for events and handle them" (echo.c:116): an event that a poll
\* returned is handled, or reported as not registered, before the next poll.
PolledEventsHandled == aPc = "poll again" => server_event.events = {}
=============================================================================
