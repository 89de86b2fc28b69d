---------------------------- MODULE Transmitter ----------------------------
(* The Transmitter of the security demo: the polling loop that takes        *)
(* encrypted characters out of the dataport, sends them to the connected    *)
(* socket and logs them to the SD/MMC card, while PicoServer raises socket  *)
(* events.  The dataport is the bounded FIFO channel that CryptoBuffer      *)
(* implements; the Transmitter holds its lock in "receive".  A character is *)
(* the serial number of its keypress.                                       *)
EXTENDS Integers, Sequences

CONSTANTS
  MaxKeys,         \* bound: how many keys are pressed
  Capacity,        \* capacity of the dataport channel (255 in the code)
  ETH_TX_BUF_LEN, MMC_TX_BUF_LEN,
  Peers,           \* descriptors PicoServer gives to accepted connections
  ListenFd         \* the descriptor listen_for_socket() opened

ASSUME SizesAssumption ==
  /\ MaxKeys \in Nat /\ Capacity \in Nat \ {0}
  /\ ETH_TX_BUF_LEN \in Nat /\ MMC_TX_BUF_LEN \in Nat
ASSUME FdAssumption == Peers \subseteq Nat \ {0} /\ ListenFd \in Nat \ ({0} \cup Peers)

VARIABLES
  queue, discarded,     \* the dataport channel
  keys, emitting,       \* Crypto: keys handled; put done but not yet emitted
  notify,               \* pending bit of circular_buffer_notify
  pc,                   \* where run() is
  eth_pending, eth_socket,
  mmc_pending, total_bytes_written,
  elapsed,              \* LOG_FILE_WRITE_PERIOD_US since the last log write
  logFile,              \* content of LOG_FILENAME
  peer,                 \* PicoServer: state of each connection
  raised,               \* PicoServer: events raised on each socket
  signal,               \* pending bit of eth_control_notification()
  received, taken, sent \* histories: characters read from the dataport, put
                        \* into mmc_pending, accepted by PicoServer

cryptoVars == <<queue, discarded, keys, emitting>>
ethVars    == <<eth_pending, eth_socket, sent>>
mmcVars    == <<mmc_pending, total_bytes_written, elapsed, logFile, taken>>
picoVars   == <<peer, raised, signal>>
vars == <<cryptoVars, notify, pc, ethVars, mmcVars, picoVars, received>>

Channel == INSTANCE BoundedFifo WITH Items <- 1..MaxKeys, delivered <- received

Fds == Peers \cup {ListenFd}
Events == {"CONN", "CLOSE", "FIN", "ERR"}

\* The card may hold the log of an earlier boot (0 is no key of this one).
Init ==
  /\ Channel!FifoInit
  /\ keys = 0 /\ emitting = FALSE /\ notify = FALSE
  /\ pc = "start"
  /\ eth_pending = <<>> /\ eth_socket = -1
  /\ mmc_pending = <<>> /\ total_bytes_written = 0
  /\ elapsed = FALSE
  /\ logFile \in {<<>>, <<0, 0>>}
  /\ peer = [p \in Peers |-> "none"]
  /\ raised = [f \in Fds |-> {}]
  /\ signal = FALSE
  /\ taken = <<>> /\ sent = <<>>
-----------------------------------------------------------------------------
(* Crypto.  The dataport's lock keeps it out while the Transmitter drains;   *)
(* the notification follows the unlock.                                      *)
HandleCharacter ==
  /\ keys < MaxKeys /\ ~emitting
  /\ pc # "receive"
  /\ keys' = keys + 1
  /\ Channel!Put(keys + 1) \/ Channel!Discard
  /\ emitting' = TRUE
  /\ UNCHANGED <<notify, pc, ethVars, mmcVars, picoVars>>

Emit ==
  /\ emitting
  /\ emitting' = FALSE
  /\ notify' = TRUE
  /\ UNCHANGED <<queue, discarded, keys, pc, ethVars, mmcVars, picoVars, received>>
-----------------------------------------------------------------------------
(* PicoServer (external): clients come and go.  At most one connection waits *)
(* to be accepted, the backlog given to eth_control_listen.  Every event     *)
(* raised on a socket also signals the Transmitter.                          *)
Raise(fd, event) ==
  /\ raised' = [raised EXCEPT ![fd] = @ \cup {event}]
  /\ signal' = TRUE

PeerStep(p, from, to, fd, event) ==
  /\ pc # "start"
  /\ peer[p] = from
  /\ peer' = [peer EXCEPT ![p] = to]
  /\ Raise(fd, event)
  /\ UNCHANGED <<cryptoVars, notify, pc, ethVars, mmcVars, received>>

PeerConnects(p) ==
  /\ \A q \in Peers : peer[q] # "waiting"
  /\ PeerStep(p, "none", "waiting", ListenFd, "CONN")

PeerCloses(p) == PeerStep(p, "open", "closing", p, "CLOSE")
PeerFinishes(p) == PeerStep(p, "shutdown", "gone", p, "FIN")
PeerVanishes(p) == PeerStep(p, "open", "gone", p, "FIN")
PeerFails(p) == PeerStep(p, "open", "gone", p, "ERR")

\* The monotonic timer passes the end of the logging period.
PeriodElapses ==
  /\ ~elapsed
  /\ elapsed' = TRUE
  /\ UNCHANGED <<cryptoVars, notify, pc, ethVars, picoVars, mmc_pending,
                 total_bytes_written, logFile, taken, received>>
-----------------------------------------------------------------------------
(* run(): listen_for_socket() and the drivers' initialisation succeed or the *)
(* component stops on an assertion; then fatrm deletes the log, or fails and *)
(* leaves it: its result is not looked at.                                   *)
Start ==
  /\ pc = "start"
  /\ logFile' \in {<<>>, logFile}
  /\ pc' = "notify"
  /\ UNCHANGED <<cryptoVars, notify, ethVars, mmc_pending, total_bytes_written,
                 elapsed, taken, picoVars, received>>

PollNotify ==
  /\ pc = "notify"
  /\ pc' = IF notify THEN "receive" ELSE "eth"
  /\ notify' = FALSE
  /\ UNCHANGED <<cryptoVars, ethVars, mmcVars, picoVars, received>>

\* A full pending buffer drops the character.
AppendIfRoom(buffer, len, char) ==
  IF Len(buffer) < len THEN Append(buffer, char) ELSE buffer

\* receive_data_from_crypto_component: one turn of its while loop, then exit.
ReceiveChar ==
  /\ pc = "receive"
  /\ Channel!Get
  /\ eth_pending' = AppendIfRoom(eth_pending, ETH_TX_BUF_LEN, Head(queue))
  /\ mmc_pending' = AppendIfRoom(mmc_pending, MMC_TX_BUF_LEN, Head(queue))
  /\ taken' = IF Len(mmc_pending) < MMC_TX_BUF_LEN
              THEN Append(taken, Head(queue)) ELSE taken
  /\ UNCHANGED <<keys, emitting, notify, pc, eth_socket, sent, elapsed,
                 total_bytes_written, logFile, picoVars>>

ReceiveDone ==
  /\ pc = "receive"
  /\ queue = <<>>
  /\ pc' = "eth"
  /\ UNCHANGED <<cryptoVars, notify, ethVars, mmcVars, picoVars, received>>

\* What eth_send_send may take of a buffer: any part of it on an open
\* connection, nothing on any other (external).
SendResults(fd, buffer) ==
  IF peer[fd] = "open" THEN 0..Len(buffer) ELSE {0}

\* Mutant: the pending length is not reset after the send.
Cleared_kept(buffer) == buffer
Cleared(buffer) == <<>>

\* transmit_pending_eth_buffer: the result of the send is not looked at.
TransmitPending ==
  /\ pc = "eth"
  /\ eth_socket >= 0 /\ eth_pending # <<>>
  /\ \E n \in SendResults(eth_socket, eth_pending) :
       sent' = sent \o SubSeq(eth_pending, 1, n)
  /\ eth_pending' = Cleared(eth_pending)
  /\ pc' = "mmc"
  /\ UNCHANGED <<cryptoVars, notify, eth_socket, mmcVars, picoVars, received>>

TransmitNothing ==
  /\ pc = "eth"
  /\ ~(eth_socket >= 0 /\ eth_pending # <<>>)
  /\ pc' = "mmc"
  /\ UNCHANGED <<cryptoVars, notify, ethVars, mmcVars, picoVars, received>>

\* Mutant: only a full buffer is written.
WriteDue_full == Len(mmc_pending) = MMC_TX_BUF_LEN /\ elapsed
WriteDue == mmc_pending # <<>> /\ elapsed

\* fatwrite of a buffer at an offset (external).
Overwrite(file, offset, buffer) ==
  [i \in 1..(IF Len(file) > offset + Len(buffer)
             THEN Len(file) ELSE offset + Len(buffer)) |->
     IF i > offset /\ i <= offset + Len(buffer) THEN buffer[i - offset]
                                                ELSE file[i]]

\* Mutant: the offset in the file is not advanced.
Written_same_offset(n) == total_bytes_written
Written(n) == total_bytes_written + n

\* write_pending_mmc_log when fatwrite succeeds.
WriteLog ==
  /\ pc = "mmc" /\ WriteDue
  /\ logFile' = Overwrite(logFile, total_bytes_written, mmc_pending)
  /\ total_bytes_written' = Written(Len(mmc_pending))
  /\ mmc_pending' = <<>>
  /\ elapsed' = FALSE
  /\ pc' = "signal"
  /\ UNCHANGED <<cryptoVars, notify, ethVars, taken, picoVars, received>>

\* ... and when it fails, some of the buffer possibly on the card already: the
\* pending characters are kept and written again a period later.
WriteLogFails ==
  /\ pc = "mmc" /\ WriteDue
  /\ \E n \in 0..(Len(mmc_pending) - 1) :
       logFile' = Overwrite(logFile, total_bytes_written,
                            SubSeq(mmc_pending, 1, n))
  /\ elapsed' = FALSE
  /\ pc' = "signal"
  /\ UNCHANGED <<cryptoVars, notify, ethVars, mmc_pending, total_bytes_written,
                 taken, picoVars, received>>

WriteNothing ==
  /\ pc = "mmc" /\ ~WriteDue
  /\ pc' = "signal"
  /\ UNCHANGED <<cryptoVars, notify, ethVars, mmcVars, picoVars, received>>

PollSignal ==
  /\ pc = "signal"
  /\ pc' = IF signal THEN "events" ELSE "notify"
  /\ signal' = FALSE
  /\ UNCHANGED <<cryptoVars, notify, ethVars, mmcVars, peer, raised, received>>

\* eth_control_accept and eth_control_shutdown act on the connection.
AfterEvents(fd, events) ==
  [p \in Peers |->
     CASE fd = ListenFd /\ "CONN" \in events /\ peer[p] = "waiting" -> "open"
       [] p = fd /\ "CLOSE" \in events /\ peer[p] = "closing" -> "shutdown"
       [] OTHER -> peer[p]]

\* The stored descriptor after one event: CONN stores the accepted peer, then
\* CLOSE and FIN, tested after it, clear it.
SocketAfter(events) ==
  IF "CLOSE" \in events \/ "FIN" \in events THEN -1
  ELSE IF "CONN" \in events THEN CHOOSE p \in Peers : peer[p] = "waiting"
  ELSE eth_socket

\* handle_picoserver_notification: one turn of its while loop.  ERR stops the
\* component on an assertion.
HandleEvent(fd) ==
  /\ pc = "events"
  /\ raised[fd] # {}
  /\ eth_socket' = SocketAfter(raised[fd])
  /\ peer' = AfterEvents(fd, raised[fd])
  /\ raised' = [raised EXCEPT ![fd] = {}]
  /\ pc' = IF "ERR" \in raised[fd] THEN "dead" ELSE "events"
  /\ UNCHANGED <<cryptoVars, notify, eth_pending, sent, mmcVars, signal, received>>

\* Mutant: one event per notification.
EventsDone_early ==
  /\ pc = "events"
  /\ pc' = "notify"
  /\ UNCHANGED <<cryptoVars, notify, ethVars, mmcVars, picoVars, received>>

EventsDone ==
  /\ pc = "events"
  /\ \A fd \in Fds : raised[fd] = {}
  /\ pc' = "notify"
  /\ UNCHANGED <<cryptoVars, notify, ethVars, mmcVars, picoVars, received>>
-----------------------------------------------------------------------------
Run == \/ Start \/ PollNotify \/ ReceiveChar \/ ReceiveDone
       \/ TransmitPending \/ TransmitNothing
       \/ WriteLog \/ WriteLogFails \/ WriteNothing
       \/ PollSignal \/ (\E fd \in Fds : HandleEvent(fd)) \/ EventsDone

PicoServer == \E p \in Peers : \/ PeerConnects(p) \/ PeerCloses(p)
                               \/ PeerFinishes(p) \/ PeerVanishes(p)
                               \/ PeerFails(p)

Next == HandleCharacter \/ Emit \/ PicoServer \/ PeriodElapses \/ Run

Spec == Init /\ [][Next]_vars

(* The loop keeps running; for the log, the timer also keeps counting, and a  *)
(* write that is retried over and over eventually succeeds.  Nobody has to    *)
(* type, connect or close.                                                    *)
LoopFairness == WF_vars(Run)
LogFairness == LoopFairness /\ WF_vars(PeriodElapses) /\ SF_vars(WriteLog)
-----------------------------------------------------------------------------
(* Properties                                                                *)

Serials == 1..MaxKeys

TypeOK ==
  /\ queue \in Seq(Serials) /\ Len(queue) <= Capacity
  /\ keys \in 0..MaxKeys /\ discarded \in 0..MaxKeys
  /\ emitting \in BOOLEAN /\ notify \in BOOLEAN /\ signal \in BOOLEAN
  /\ elapsed \in BOOLEAN
  /\ pc \in {"start", "notify", "receive", "eth", "mmc", "signal", "events",
             "dead"}
  /\ eth_pending \in Seq(Serials) /\ Len(eth_pending) <= ETH_TX_BUF_LEN
  /\ mmc_pending \in Seq(Serials) /\ Len(mmc_pending) <= MMC_TX_BUF_LEN
  /\ eth_socket \in Peers \cup {-1}
  /\ total_bytes_written \in Nat
  /\ peer \in [Peers -> {"none", "waiting", "open", "closing", "shutdown", "gone"}]
  /\ raised \in [Fds -> SUBSET Events]

\* The log is complete and in order: the written part followed by the pending
\* buffer is every character that was ever put into that buffer, and whatever
\* failed writes left on the card beyond the written part agrees with it
\* (write_pending_mmc_log's offset and its retry after a failure).  The file need
\* not be empty at the start, as transmitter.c:223 means it to be: where this boot
\* has not written, it may still hold an earlier boot's log, the zeros.
LogFaithful ==
  pc # "start" =>
    /\ Len(logFile) >= total_bytes_written
    /\ SubSeq(logFile, 1, total_bytes_written) \o mmc_pending = taken
    /\ \A i \in 1..Len(logFile) :
         logFile[i] # 0 => i <= Len(taken) /\ logFile[i] = taken[i]

\* No character reaches the network twice or ahead of an earlier one, whatever
\* was dropped: what was sent followed by what is pending is increasing.
SentInOrder ==
  LET out == sent \o eth_pending
  IN  \A i, j \in 1..Len(out) : i < j => out[i] < out[j]

\* No socket event is forgotten: while one is raised, the signal is pending or
\* the handler is in its loop (seL4_Poll and handle_picoserver_notification).
NoLostSocketEvent ==
  pc # "dead" /\ (\E fd \in Fds : raised[fd] # {}) => signal \/ pc = "events"

\* Characters do not wait in the log buffer for ever: whatever is in it, it is
\* written out and emptied, unless a socket error stops the component.
EventuallyLogged ==
  LogFairness => (mmc_pending # <<>> ~> mmc_pending = <<>> \/ pc = "dead")

\* A waiting client is eventually accepted.
EventuallyAccepted ==
  LoopFairness =>
    \A p \in Peers : peer[p] = "waiting" ~> peer[p] # "waiting" \/ pc = "dead"

\* transmitter.c:156 says of the ethernet buffer, when it is cleared, "All
\* pending characters have now been sent".
AllPendingSent ==
  [][pc = "eth" /\ eth_pending' # eth_pending => sent' = sent \o eth_pending]_vars

\* transmitter.c:40 says of eth_socket that "A value of -1 indicates no socket
\* is connected": with no event left to handle, no accepted connection is open.
MinusOneMeansUnconnected ==
  (eth_socket = -1 /\ pc = "notify" /\ \A fd \in Fds : raised[fd] = {})
    => \A p \in Peers : peer[p] # "open"
=============================================================================
