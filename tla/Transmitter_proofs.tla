------------------------- MODULE Transmitter_proofs -------------------------
(* Proofs about the Transmitter of the security demo, for every number of    *)
(* keypresses, every size of the dataport and of the two pending buffers, and*)
(* any connections.                                                          *)
EXTENDS Transmitter, SequenceFacts

\* The expanded actions of the dataport channel.
USE DEF Channel!FifoInit, Channel!Put, Channel!Discard, Channel!Get

-----------------------------------------------------------------------------
(* Types.  An event raised for an accepted connection is one for which there *)
(* is a waiting client: eth_control_accept finds somebody to accept.         *)

\* Characters are numbered from 1; 0 stands for those of an earlier boot's log.
TypeInv ==
  /\ TypeOK
  /\ received \in Seq(Serials) /\ taken \in Seq(Serials) /\ sent \in Seq(Serials)
  /\ logFile \in Seq({0} \cup Serials)
  /\ Len(queue) <= keys /\ discarded <= keys
SomebodyWaits ==
  \A fd \in Fds : "CONN" \in raised[fd] => fd = ListenFd /\ \E p \in Peers : peer[p] = "waiting"

LEMMA AppendIfRoomFact ==
  ASSUME NEW S, NEW b \in Seq(S), NEW n \in Nat, Len(b) <= n, NEW c \in S
  PROVE  /\ AppendIfRoom(b, n, c) \in Seq(S) /\ Len(AppendIfRoom(b, n, c)) <= n
         /\ AppendIfRoom(b, n, c) \in {b, Append(b, c)}
BY AppendRange DEF AppendIfRoom

LEMMA OverwriteFact ==
  ASSUME NEW S, NEW f \in Seq(S), NEW n \in 0..Len(f), NEW b \in Seq(S)
  PROVE  /\ Overwrite(f, n, b) \in Seq(S)
         /\ Len(Overwrite(f, n, b)) >= n + Len(b)
         /\ Len(Overwrite(f, n, b)) \in {Len(f), n + Len(b)}
         /\ Len(Overwrite(f, n, b)) >= Len(f)
         /\ \A i \in 1..Len(Overwrite(f, n, b)) : Overwrite(f, n, b)[i] =
              IF i > n /\ i <= n + Len(b) THEN b[i - n] ELSE f[i]
<1> DEFINE m == IF Len(f) > n + Len(b) THEN Len(f) ELSE n + Len(b)
           g == [i \in 1..m |-> IF i > n /\ i <= n + Len(b) THEN b[i - n] ELSE f[i]]
<1>1. /\ n \in Nat /\ Len(f) \in Nat /\ Len(b) \in Nat /\ n <= Len(f)
      /\ m \in Nat /\ m >= n + Len(b) /\ m >= Len(f) /\ m \in {Len(f), n + Len(b)}
  OBVIOUS
<1> HIDE DEF m
<1>2. ASSUME NEW i \in 1..m
      PROVE  IF i > n /\ i <= n + Len(b) THEN b[i - n] \in S ELSE f[i] \in S
  <2>1. CASE i > n /\ i <= n + Len(b)
    <3>1. i - n \in 1..Len(b)
      BY <1>1, <2>1
    <3> QED BY <2>1, <3>1
  <2>2. CASE ~(i > n /\ i <= n + Len(b))
    <3>1. i \in 1..Len(f)
      BY <1>1, <2>2
    <3> QED BY <2>2, <3>1
  <2> QED BY <2>1, <2>2
<1>3. g \in Seq(S) /\ Len(g) = m
  BY <1>1, <1>2
<1>4. Overwrite(f, n, b) = g
  BY DEF Overwrite, m
<1> QED BY <1>1, <1>3, <1>4

\* The log, element by element: what was put into the pending buffer is what is
\* written followed by what is pending, and the card holds a beginning of it, then
\* what is left of an earlier boot's log.
InPlace(i) == logFile[i] # 0 => i <= Len(taken) /\ logFile[i] = taken[i]
LogInv ==
  /\ pc = "start" => /\ mmc_pending = <<>> /\ taken = <<>> /\ total_bytes_written = 0
                     /\ \A i \in 1..Len(logFile) : logFile[i] = 0
  /\ Len(taken) = total_bytes_written + Len(mmc_pending)
  /\ \A i \in 1..Len(mmc_pending) : taken[total_bytes_written + i] = mmc_pending[i]
  /\ Len(logFile) >= total_bytes_written
  /\ \A i \in 1..total_bytes_written : logFile[i] = taken[i]
  /\ \A i \in 1..Len(logFile) : InPlace(i)

LEMMA TypeInit == Init => TypeInv /\ SomebodyWaits /\ LogInv
<1> SUFFICES ASSUME Init PROVE TypeInv /\ SomebodyWaits /\ LogInv
  OBVIOUS
<1> USE SizesAssumption DEF Init
<1>1. TypeInv
  <2>1. TypeOK
    <3>1. /\ queue = <<>> /\ discarded = 0 /\ keys = 0 /\ eth_pending = <<>>
          /\ mmc_pending = <<>> /\ total_bytes_written = 0 /\ eth_socket = -1
      OBVIOUS
    <3>2. peer \in [Peers -> {"none", "waiting", "open", "closing", "shutdown", "gone"}]
      OBVIOUS
    <3>3. raised \in [Fds -> SUBSET Events]
      OBVIOUS
    <3>4. /\ pc = "start" /\ emitting \in BOOLEAN /\ notify \in BOOLEAN
          /\ signal \in BOOLEAN /\ elapsed \in BOOLEAN
      OBVIOUS
    <3>5. /\ queue \in Seq(Serials) /\ Len(queue) <= Capacity
          /\ eth_pending \in Seq(Serials) /\ Len(eth_pending) <= ETH_TX_BUF_LEN
          /\ mmc_pending \in Seq(Serials) /\ Len(mmc_pending) <= MMC_TX_BUF_LEN
          /\ keys \in 0..MaxKeys /\ discarded \in 0..MaxKeys /\ total_bytes_written \in Nat
      BY <3>1
    <3> HIDE DEF Init
    <3> QED BY <3>1, <3>2, <3>3, <3>4, <3>5 DEF TypeOK
  <2>2. logFile \in Seq({0} \cup Serials)
    <3>1. <<>> \in Seq({0} \cup Serials) /\ <<0, 0>> \in Seq({0} \cup Serials)
      OBVIOUS
    <3> QED BY <3>1
  <2>3. received = <<>> /\ taken = <<>> /\ sent = <<>> /\ queue = <<>> /\ discarded = 0 /\ keys = 0
    OBVIOUS
  <2> QED BY <2>1, <2>2, <2>3 DEF TypeInv
<1>2. SomebodyWaits
  BY DEF SomebodyWaits
<1>3. LogInv
  <2>1. /\ logFile \in {<<>>, <<0, 0>>} /\ mmc_pending = <<>> /\ taken = <<>>
        /\ total_bytes_written = 0
    OBVIOUS
  <2>2. Len(logFile) \in Nat /\ \A i \in 1..Len(logFile) : logFile[i] = 0
    BY <2>1
  <2> QED BY <2>1, <2>2 DEF LogInv, InPlace
<1> QED BY <1>1, <1>2, <1>3

\* Steps of the others: Crypto, PicoServer and the timer.
LEMMA TypeOthers ==
  ASSUME TypeInv, SomebodyWaits, HandleCharacter \/ Emit \/ PicoServer \/ PeriodElapses
  PROVE  TypeInv' /\ SomebodyWaits'
<1> USE SizesAssumption DEF TypeInv, TypeOK
<1>1. CASE HandleCharacter
  <2>1. keys + 1 \in Serials /\ keys' = keys + 1
    BY <1>1 DEF HandleCharacter, Serials
  <2>2. /\ \/ queue' = Append(queue, keys + 1) /\ Len(queue) < Capacity /\ UNCHANGED discarded
           \/ discarded' = discarded + 1 /\ UNCHANGED queue
        /\ UNCHANGED received
    BY <1>1 DEF HandleCharacter
  <2>3. queue' \in Seq(Serials) /\ Len(queue') <= Capacity /\ Len(queue') <= keys + 1
    <3>1. queue \in Seq(Serials) /\ keys + 1 \in Serials
      BY <2>1
    <3>2. /\ Append(queue, keys + 1) \in Seq(Serials)
          /\ Len(Append(queue, keys + 1)) = Len(queue) + 1
      BY <3>1, AppendRange
    <3>3. Len(queue) \in Nat /\ Len(queue) <= Capacity /\ Len(queue) <= keys
      BY <3>1
    <3>4. CASE queue' = queue
      BY <3>1, <3>3, <3>4
    <3>5. CASE queue' = Append(queue, keys + 1) /\ Len(queue) < Capacity
      <4>1. Len(queue') = Len(queue) + 1 /\ queue' \in Seq(Serials)
        BY <3>2, <3>5
      <4>2. Len(queue) + 1 <= Capacity /\ Len(queue) + 1 <= keys + 1
        BY <3>3, <3>5
      <4> QED BY <4>1, <4>2
    <3> QED BY <2>2, <3>4, <3>5
  <2>4. discarded' \in 0..MaxKeys /\ discarded' <= keys + 1
    <3>1. /\ keys \in Nat /\ keys + 1 <= MaxKeys /\ discarded \in Nat /\ discarded <= keys
          /\ MaxKeys \in Nat
      BY <2>1 DEF Serials
    <3>2. discarded' = discarded \/ discarded' = discarded + 1
      BY <2>2
    <3> QED BY <3>1, <3>2
  <2>5. keys' \in 0..MaxKeys
    BY <2>1 DEF Serials
  <2> QED BY <1>1, <2>1, <2>2, <2>3, <2>4, <2>5
          DEF HandleCharacter, SomebodyWaits, ethVars, mmcVars, picoVars
<1>2. CASE Emit
  BY <1>2 DEF Emit, SomebodyWaits, ethVars, mmcVars, picoVars
<1>3. CASE PeriodElapses
  BY <1>3 DEF PeriodElapses, SomebodyWaits, cryptoVars, ethVars, picoVars
<1>4. ASSUME NEW p \in Peers, NEW from, NEW to, NEW fd, NEW event,
             PeerStep(p, from, to, fd, event), fd \in Fds, event \in Events,
             to \in {"waiting", "open", "closing", "shutdown", "gone"},
             event = "CONN" => fd = ListenFd /\ to = "waiting", from # "waiting"
      PROVE  TypeInv' /\ SomebodyWaits'
  <2>1. /\ peer' = [peer EXCEPT ![p] = to]
        /\ raised' = [raised EXCEPT ![fd] = @ \cup {event}]
        /\ signal' = TRUE /\ peer[p] = from
        /\ UNCHANGED <<queue, discarded, keys, emitting, notify, pc, eth_pending,
                       eth_socket, sent, mmc_pending, total_bytes_written, elapsed,
                       logFile, taken, received>>
    BY <1>4 DEF PeerStep, Raise, cryptoVars, ethVars, mmcVars
  <2>2. raised' \in [Fds -> SUBSET Events]
    BY <1>4, <2>1
  <2>3. peer' \in [Peers -> {"none", "waiting", "open", "closing", "shutdown", "gone"}]
    BY <1>4, <2>1
  <2>4. ASSUME NEW f \in Fds, "CONN" \in raised'[f]
        PROVE  f = ListenFd /\ \E q \in Peers : peer'[q] = "waiting"
    <3>1. CASE "CONN" \in raised[f]
      <4>1. f = ListenFd /\ \E q \in Peers : peer[q] = "waiting"
        BY <3>1 DEF SomebodyWaits
      <4>2. PICK q \in Peers : peer[q] = "waiting"
        BY <4>1
      <4>3. q # p /\ peer'[q] = "waiting"
        BY <1>4, <2>1, <4>2
      <4> QED BY <4>1, <4>3
    <3>2. CASE "CONN" \notin raised[f]
      <4>1. f = fd /\ event = "CONN"
        BY <1>4, <2>1, <2>4, <3>2
      <4>2. peer'[p] = "waiting"
        BY <1>4, <2>1, <4>1
      <4> QED BY <1>4, <4>1, <4>2
    <3> QED BY <3>1, <3>2
  <2> QED BY <2>1, <2>2, <2>3, <2>4 DEF SomebodyWaits
<1>5. CASE PicoServer
  <2>1. PICK p \in Peers : \/ PeerConnects(p) \/ PeerCloses(p) \/ PeerFinishes(p)
                           \/ PeerVanishes(p) \/ PeerFails(p)
    BY <1>5 DEF PicoServer
  <2>2. p \in Fds /\ ListenFd \in Fds
    BY DEF Fds
  <2>3. \/ PeerStep(p, "none", "waiting", ListenFd, "CONN")
        \/ PeerStep(p, "open", "closing", p, "CLOSE")
        \/ PeerStep(p, "shutdown", "gone", p, "FIN")
        \/ PeerStep(p, "open", "gone", p, "FIN")
        \/ PeerStep(p, "open", "gone", p, "ERR")
    BY <2>1 DEF PeerConnects, PeerCloses, PeerFinishes, PeerVanishes, PeerFails
  <2> QED BY <1>4, <2>2, <2>3 DEF Events
<1> QED BY <1>1, <1>2, <1>3, <1>5

\* Steps of the polling loop but for the writing of the log.
LEMMA TypeRun ==
  ASSUME TypeInv, SomebodyWaits,
         \/ Start \/ PollNotify \/ ReceiveChar \/ ReceiveDone \/ TransmitPending
         \/ TransmitNothing \/ WriteNothing \/ PollSignal \/ EventsDone
         \/ \E fd \in Fds : HandleEvent(fd)
  PROVE  TypeInv' /\ SomebodyWaits'
<1> USE SizesAssumption DEF TypeInv, TypeOK
<1>1. CASE Start
  <2>1. <<>> \in Seq({0} \cup Serials)
    OBVIOUS
  <2>2. logFile' \in Seq({0} \cup Serials)
    BY <1>1, <2>1 DEF Start
  <2> QED BY <1>1, <2>2 DEF Start, SomebodyWaits, cryptoVars, ethVars, picoVars
<1>2. CASE PollNotify \/ ReceiveDone \/ TransmitNothing \/ WriteNothing \/ EventsDone
  <2>1. pc' \in {"receive", "eth", "mmc", "signal", "notify"}
    BY <1>2 DEF PollNotify, ReceiveDone, TransmitNothing, WriteNothing, EventsDone
  <2>2. notify' \in BOOLEAN
    BY <1>2 DEF PollNotify, ReceiveDone, TransmitNothing, WriteNothing, EventsDone
  <2>3. UNCHANGED <<cryptoVars, ethVars, mmcVars, picoVars, received>>
    BY <1>2 DEF PollNotify, ReceiveDone, TransmitNothing, WriteNothing, EventsDone
  <2> QED BY <2>1, <2>2, <2>3 DEF SomebodyWaits, cryptoVars, ethVars, mmcVars, picoVars
<1>3. CASE PollSignal
  <2>1. pc' \in {"events", "notify"} /\ signal' \in BOOLEAN
    BY <1>3 DEF PollSignal
  <2>2. UNCHANGED <<cryptoVars, notify, ethVars, mmcVars, peer, raised, received>>
    BY <1>3 DEF PollSignal
  <2> QED BY <2>1, <2>2 DEF SomebodyWaits, cryptoVars, ethVars, mmcVars
<1>4. CASE ReceiveChar
  <2> DEFINE c == Head(queue)
  <2>1. /\ queue # <<>> /\ received' = Append(received, c) /\ queue' = Tail(queue)
        /\ eth_pending' = AppendIfRoom(eth_pending, ETH_TX_BUF_LEN, c)
        /\ mmc_pending' = AppendIfRoom(mmc_pending, MMC_TX_BUF_LEN, c)
        /\ taken' \in {taken, Append(taken, c)}
        /\ UNCHANGED <<discarded, keys, emitting, notify, pc, eth_socket, sent, elapsed,
                       total_bytes_written, logFile, peer, raised, signal>>
    BY <1>4 DEF ReceiveChar, picoVars
  <2>2. c \in Serials /\ queue' \in Seq(Serials) /\ Len(queue') = Len(queue) - 1
    BY <2>1, TailRange
  <2> HIDE DEF c
  <2>3. received' \in Seq(Serials) /\ taken' \in Seq(Serials)
    <3>1. received \in Seq(Serials) /\ taken \in Seq(Serials) /\ c \in Serials
      BY <2>2
    <3>2. Append(received, c) \in Seq(Serials) /\ Append(taken, c) \in Seq(Serials)
      BY <3>1, AppendRange
    <3> QED BY <2>1, <3>1, <3>2
  <2>4. /\ eth_pending' \in Seq(Serials) /\ Len(eth_pending') <= ETH_TX_BUF_LEN
        /\ mmc_pending' \in Seq(Serials) /\ Len(mmc_pending') <= MMC_TX_BUF_LEN
    BY <2>1, <2>2, AppendIfRoomFact
  <2>5. Len(queue') <= Capacity /\ Len(queue') <= keys
    BY <2>2
  <2> QED BY <2>1, <2>2, <2>3, <2>4, <2>5 DEF SomebodyWaits
<1>5. CASE TransmitPending
  <2>1. PICK n \in SendResults(eth_socket, eth_pending) :
          sent' = sent \o SubSeq(eth_pending, 1, n)
    BY <1>5 DEF TransmitPending
  <2>2. n \in 0..Len(eth_pending)
    <3>1. Len(eth_pending) \in Nat
      OBVIOUS
    <3> QED BY <2>1, <3>1 DEF SendResults
  <2>3. sent' \in Seq(Serials)
    BY <2>1, <2>2, PrefixOrder, ConcatOrder
  <2>4. eth_pending' = <<>> /\ pc' = "mmc"
    BY <1>5 DEF TransmitPending, Cleared
  <2>5. UNCHANGED <<queue, discarded, keys, emitting, notify, eth_socket, mmcVars, picoVars, received>>
    BY <1>5 DEF TransmitPending, cryptoVars
  <2> QED BY <2>3, <2>4, <2>5 DEF SomebodyWaits, mmcVars, picoVars
<1>6. ASSUME NEW fd \in Fds, HandleEvent(fd) PROVE TypeInv' /\ SomebodyWaits'
  <2>1. /\ eth_socket' = SocketAfter(raised[fd])
        /\ peer' = AfterEvents(fd, raised[fd])
        /\ raised' = [raised EXCEPT ![fd] = {}]
        /\ pc' \in {"dead", "events"}
        /\ UNCHANGED <<queue, discarded, keys, emitting, notify, eth_pending, sent, mmcVars,
                       signal, received>>
    BY <1>6 DEF HandleEvent, cryptoVars
  <2>2. eth_socket' \in Peers \cup {-1}
    <3>1. "CONN" \in raised[fd] => (CHOOSE p \in Peers : peer[p] = "waiting") \in Peers
      BY DEF SomebodyWaits
    <3> QED BY <2>1, <3>1 DEF SocketAfter
  <2>3. peer' \in [Peers -> {"none", "waiting", "open", "closing", "shutdown", "gone"}]
    <3>2. \A p \in Peers : peer'[p] \in {"open", "shutdown", peer[p]}
      BY <2>1 DEF AfterEvents
    <3>1. peer' = [p \in Peers |-> peer'[p]]
      BY <2>1 DEF AfterEvents
    <3> QED BY <3>1, <3>2
  <2>4. raised' \in [Fds -> SUBSET Events]
    BY <2>1
  <2>5. ASSUME NEW f \in Fds, "CONN" \in raised'[f]
        PROVE  f = ListenFd /\ \E q \in Peers : peer'[q] = "waiting"
    <3>1. f # fd /\ "CONN" \in raised[f]
      BY <2>1, <2>5
    <3>2. PICK q \in Peers : f = ListenFd /\ peer[q] = "waiting"
      BY <3>1 DEF SomebodyWaits
    <3>3. peer'[q] = "waiting"
      BY <2>1, <3>1, <3>2 DEF AfterEvents
    <3> QED BY <3>2, <3>3
  <2>6. SomebodyWaits'
    BY <2>5 DEF SomebodyWaits
  <2> QED BY <2>1, <2>2, <2>3, <2>4, <2>6 DEF mmcVars
<1> QED BY <1>1, <1>2, <1>3, <1>4, <1>5, <1>6

\* The steps that write the log.  The written part is not touched, and what is
\* written is the next part of what was put into the pending buffer.
LEMMA LogWritten ==
  ASSUME TypeInv, LogInv, pc = "mmc", NEW n \in 0..Len(mmc_pending),
         logFile' = Overwrite(logFile, total_bytes_written, SubSeq(mmc_pending, 1, n))
  PROVE  /\ logFile' \in Seq({0} \cup Serials)
         /\ Len(logFile') >= total_bytes_written + n
         /\ \A i \in 1..(total_bytes_written + n) : logFile'[i] = taken[i]
         /\ \A i \in 1..Len(logFile') :
              logFile'[i] # 0 => i <= Len(taken) /\ logFile'[i] = taken[i]
<1> DEFINE t == total_bytes_written
           b == SubSeq(mmc_pending, 1, n)
<1>1. /\ t \in Nat /\ Len(logFile) \in Nat /\ t <= Len(logFile) /\ n \in Nat
      /\ Len(mmc_pending) \in Nat /\ n <= Len(mmc_pending) /\ Len(taken) = t + Len(mmc_pending)
      /\ logFile \in Seq({0} \cup Serials) /\ mmc_pending \in Seq(Serials)
      /\ \A i \in 1..t : logFile[i] = taken[i]
      /\ \A i \in 1..Len(logFile) : logFile[i] # 0 => i <= Len(taken) /\ logFile[i] = taken[i]
      /\ \A i \in 1..Len(mmc_pending) : taken[t + i] = mmc_pending[i]
  BY DEF TypeInv, TypeOK, LogInv, InPlace
<1>2. b \in Seq(Serials) /\ Len(b) = n /\ \A i \in 1..n : b[i] = mmc_pending[i]
  BY <1>1, PrefixOrder
<1>3. b \in Seq({0} \cup Serials)
  BY <1>2
<1> HIDE DEF b, t
<1>4. /\ logFile' \in Seq({0} \cup Serials)
      /\ Len(logFile') >= t + Len(b) /\ Len(logFile') \in {Len(logFile), t + Len(b)}
      /\ \A i \in 1..Len(logFile') : logFile'[i] =
           IF i > t /\ i <= t + Len(b) THEN b[i - t] ELSE logFile[i]
  <2>1. t \in 0..Len(logFile)
    BY <1>1
  <2>2. logFile' = Overwrite(logFile, t, b)
    BY DEF t, b
  <2> QED BY <1>1, <1>3, <2>1, <2>2, OverwriteFact
<1>5. Len(logFile') \in Nat /\ Len(logFile') >= t + n
  BY <1>1, <1>2, <1>4
<1>6. ASSUME NEW i \in 1..Len(logFile'), i > t /\ i <= t + n
      PROVE  i <= Len(taken) /\ logFile'[i] = taken[i]
  <2>1. i - t \in 1..n /\ i - t \in 1..Len(mmc_pending) /\ t + (i - t) = i
    BY <1>1, <1>5, <1>6
  <2>2. logFile'[i] = b[i - t]
    BY <1>2, <1>4, <1>6
  <2>3. i <= Len(taken)
    BY <1>1, <1>6
  <2> QED BY <1>1, <1>2, <2>1, <2>2, <2>3
<1>7. ASSUME NEW i \in 1..Len(logFile'), ~(i > t /\ i <= t + n)
      PROVE  i \in 1..Len(logFile) /\ logFile'[i] = logFile[i]
  BY <1>1, <1>2, <1>4, <1>5, <1>7
<1>8. ASSUME NEW i \in 1..(t + n) PROVE logFile'[i] = taken[i]
  <2>1. i \in 1..Len(logFile')
    BY <1>1, <1>5
  <2>2. CASE i > t
    BY <1>1, <1>6, <2>1, <2>2
  <2>3. CASE ~(i > t)
    <3>1. i \in 1..t
      BY <1>1, <2>3
    <3> QED BY <1>1, <1>7, <2>1, <2>3, <3>1
  <2> QED BY <2>2, <2>3
<1>9. ASSUME NEW i \in 1..Len(logFile'), logFile'[i] # 0
      PROVE  i <= Len(taken) /\ logFile'[i] = taken[i]
  <2>1. CASE i > t /\ i <= t + n
    BY <1>6, <2>1
  <2>2. CASE ~(i > t /\ i <= t + n)
    BY <1>1, <1>7, <1>9, <2>2
  <2> QED BY <2>1, <2>2
<1> QED BY <1>4, <1>5, <1>8, <1>9 DEF t

\* A character more, put into the pending buffer and thereby into taken.
LEMMA LogStep ==
  ASSUME TypeInv, LogInv, Next
  PROVE  LogInv' /\ logFile' \in Seq({0} \cup Serials)
<1> USE SizesAssumption
<1>0. /\ mmc_pending \in Seq(Serials) /\ taken \in Seq(Serials) /\ queue \in Seq(Serials)
      /\ logFile \in Seq({0} \cup Serials) /\ total_bytes_written \in Nat
      /\ Len(mmc_pending) \in Nat /\ Len(taken) \in Nat /\ Len(logFile) \in Nat
  BY DEF TypeInv, TypeOK
<1>1. ASSUME UNCHANGED <<mmc_pending, taken, total_bytes_written, logFile>>,
             pc = "start" <=> pc' = "start"
      PROVE  LogInv' /\ logFile' \in Seq({0} \cup Serials)
  BY <1>0, <1>1 DEF LogInv, InPlace
<1>2. CASE HandleCharacter \/ Emit
  BY <1>1, <1>2 DEF HandleCharacter, Emit, mmcVars
<1>3. CASE PicoServer
  BY <1>1, <1>3 DEF PicoServer, PeerConnects, PeerCloses, PeerFinishes, PeerVanishes,
                    PeerFails, PeerStep, mmcVars
<1>4. CASE PeriodElapses
  BY <1>1, <1>4 DEF PeriodElapses
<1>5. CASE Start
  <2>1. /\ logFile' \in {<<>>, logFile} /\ pc' = "notify" /\ pc = "start"
        /\ UNCHANGED <<mmc_pending, taken, total_bytes_written>>
    BY <1>5 DEF Start
  <2>2. /\ mmc_pending = <<>> /\ taken = <<>> /\ total_bytes_written = 0
        /\ \A i \in 1..Len(logFile) : logFile[i] = 0
    BY <2>1 DEF LogInv
  <2>3. /\ logFile' \in Seq({0} \cup Serials) /\ Len(logFile') \in Nat
        /\ \A i \in 1..Len(logFile') : logFile'[i] = 0
    <3>1. CASE logFile' = <<>>
      BY <3>1
    <3>2. CASE logFile' = logFile
      BY <1>0, <2>2, <3>2
    <3> QED BY <2>1, <3>1, <3>2
  <2>4. Len(taken) = 0 /\ Len(mmc_pending) = 0
    BY <2>2
  <2> QED BY <2>1, <2>2, <2>3, <2>4 DEF LogInv, InPlace
<1>6. CASE PollNotify \/ ReceiveDone \/ TransmitNothing \/ TransmitPending \/ WriteNothing
           \/ PollSignal \/ EventsDone \/ \E fd \in Fds : HandleEvent(fd)
  <2>1. UNCHANGED mmcVars
    BY <1>6 DEF PollNotify, ReceiveDone, TransmitNothing, TransmitPending, WriteNothing,
                PollSignal, EventsDone, HandleEvent
  <2>2. pc # "start" /\ pc' # "start"
    BY <1>6 DEF PollNotify, ReceiveDone, TransmitNothing, TransmitPending, WriteNothing,
                PollSignal, EventsDone, HandleEvent
  <2> QED BY <1>1, <2>1, <2>2 DEF mmcVars
<1>7. CASE ReceiveChar
  <2> DEFINE c == Head(queue)
             t == total_bytes_written
  <2>1. /\ queue # <<>> /\ mmc_pending' = AppendIfRoom(mmc_pending, MMC_TX_BUF_LEN, c)
        /\ taken' = IF Len(mmc_pending) < MMC_TX_BUF_LEN THEN Append(taken, c) ELSE taken
        /\ UNCHANGED <<total_bytes_written, logFile, pc>> /\ pc = "receive"
    BY <1>7 DEF ReceiveChar
  <2>2. CASE Len(mmc_pending) < MMC_TX_BUF_LEN
    <3>1. c \in Serials
      BY <1>0, <2>1, TailRange
    <3> HIDE DEF c
    <3>2. mmc_pending' = Append(mmc_pending, c) /\ taken' = Append(taken, c)
      BY <2>1, <2>2 DEF AppendIfRoom
    <3>3. /\ Len(mmc_pending') = Len(mmc_pending) + 1 /\ mmc_pending'[Len(mmc_pending) + 1] = c
          /\ \A i \in 1..Len(mmc_pending) : mmc_pending'[i] = mmc_pending[i]
      BY <1>0, <3>1, <3>2, AppendProperties
    <3>4. /\ Len(taken') = Len(taken) + 1 /\ taken'[Len(taken) + 1] = c
          /\ \A i \in 1..Len(taken) : taken'[i] = taken[i]
      BY <1>0, <3>1, <3>2, AppendProperties
    <3>5. /\ Len(taken) = t + Len(mmc_pending)
          /\ \A i \in 1..Len(mmc_pending) : taken[t + i] = mmc_pending[i]
          /\ Len(logFile) >= t /\ \A i \in 1..t : logFile[i] = taken[i]
          /\ \A i \in 1..Len(logFile) : logFile[i] # 0 => i <= Len(taken) /\ logFile[i] = taken[i]
      BY <2>1 DEF LogInv, InPlace
    <3>6. ASSUME NEW i \in 1..Len(mmc_pending') PROVE taken'[t + i] = mmc_pending'[i]
      <4>1. CASE i \in 1..Len(mmc_pending)
        <5>1. t + i \in 1..Len(taken)
          BY <1>0, <3>5, <4>1
        <5> QED BY <3>3, <3>4, <3>5, <4>1, <5>1
      <4>2. CASE i = Len(mmc_pending) + 1
        <5>1. t + i = Len(taken) + 1
          BY <1>0, <3>5, <4>2
        <5> QED BY <3>3, <3>4, <4>2, <5>1
      <4> QED BY <1>0, <3>3, <4>1, <4>2
    <3>7. Len(taken') = t + Len(mmc_pending')
      BY <1>0, <3>3, <3>4, <3>5
    <3>8. \A i \in 1..t : logFile[i] = taken'[i]
      <4>1. \A i \in 1..t : i \in 1..Len(taken)
        BY <1>0, <3>5
      <4> QED BY <3>4, <3>5, <4>1
    <3>10. ASSUME NEW i \in 1..Len(logFile), logFile[i] # 0
           PROVE  i <= Len(taken') /\ logFile[i] = taken'[i]
      <4>1. i \in 1..Len(taken) /\ logFile[i] = taken[i]
        BY <1>0, <3>5, <3>10
      <4> QED BY <1>0, <3>4, <4>1
    <3> HIDE DEF t
    <3>9. total_bytes_written' = t /\ total_bytes_written = t
      BY <2>1 DEF t
    <3> QED BY <1>0, <2>1, <3>5, <3>6, <3>7, <3>8, <3>9, <3>10 DEF LogInv, InPlace
  <2>3. CASE ~(Len(mmc_pending) < MMC_TX_BUF_LEN)
    BY <1>1, <2>1, <2>3 DEF AppendIfRoom
  <2> QED BY <2>2, <2>3
<1>8. CASE WriteLog
  <2> DEFINE m == Len(mmc_pending)
  <2>1. /\ pc = "mmc" /\ pc' = "signal"
        /\ logFile' = Overwrite(logFile, total_bytes_written, mmc_pending)
        /\ total_bytes_written' = total_bytes_written + m
        /\ mmc_pending' = <<>> /\ taken' = taken
    BY <1>8 DEF WriteLog, Written
  <2>2. SubSeq(mmc_pending, 1, m) = mmc_pending /\ m \in 0..Len(mmc_pending)
    <3>1. m \in 0..Len(mmc_pending) /\ m \in Nat
      BY <1>0
    <3>2. /\ SubSeq(mmc_pending, 1, m) \in Seq(Serials) /\ Len(SubSeq(mmc_pending, 1, m)) = m
          /\ \A i \in 1..m : SubSeq(mmc_pending, 1, m)[i] = mmc_pending[i]
      BY <1>0, <3>1, PrefixOrder
    <3> HIDE DEF m
    <3>3. Len(mmc_pending) = m
      BY DEF m
    <3> QED BY <1>0, <3>1, <3>2, <3>3, SeqEqual
  <2>3. /\ logFile' \in Seq({0} \cup Serials)
        /\ Len(logFile') >= total_bytes_written + m
        /\ \A i \in 1..(total_bytes_written + m) : logFile'[i] = taken[i]
        /\ \A i \in 1..Len(logFile') : logFile'[i] # 0 => i <= Len(taken) /\ logFile'[i] = taken[i]
    BY <2>1, <2>2, LogWritten
  <2>4. Len(taken) = total_bytes_written + m
    BY DEF LogInv
  <2>5. Len(mmc_pending') = 0 /\ total_bytes_written' + 0 = total_bytes_written'
    BY <1>0, <2>1
  <2> HIDE DEF m
  <2> QED BY <2>1, <2>3, <2>4, <2>5 DEF LogInv, InPlace
<1>9. CASE WriteLogFails
  <2>1. PICK n \in 0..(Len(mmc_pending) - 1) :
          logFile' = Overwrite(logFile, total_bytes_written, SubSeq(mmc_pending, 1, n))
    BY <1>9 DEF WriteLogFails
  <2>2. /\ pc = "mmc" /\ pc' = "signal"
        /\ UNCHANGED <<mmc_pending, total_bytes_written, taken>>
    BY <1>9 DEF WriteLogFails
  <2>3. n \in 0..Len(mmc_pending) /\ n \in Nat
    BY <1>0
  <2>4. /\ logFile' \in Seq({0} \cup Serials)
        /\ Len(logFile') >= total_bytes_written + n
        /\ \A i \in 1..(total_bytes_written + n) : logFile'[i] = taken[i]
        /\ \A i \in 1..Len(logFile') : logFile'[i] # 0 => i <= Len(taken) /\ logFile'[i] = taken[i]
    BY <2>1, <2>2, <2>3, LogWritten
  <2>5. Len(logFile') >= total_bytes_written
    BY <1>0, <2>3, <2>4
  <2>6. \A i \in 1..total_bytes_written : i \in 1..(total_bytes_written + n)
    BY <1>0, <2>3
  <2>7. \A i \in 1..total_bytes_written : logFile'[i] = taken[i]
    BY <2>4, <2>6
  <2> QED BY <2>2, <2>4, <2>5, <2>7 DEF LogInv, InPlace
<1> QED BY <1>2, <1>3, <1>4, <1>5, <1>6, <1>7, <1>8, <1>9 DEF Next, Run

\* Characters are numbered as they are pressed.  In each buffer an earlier one is
\* ahead, and all that was sent is before what is pending, which is before what
\* the dataport still holds.
OrderInv ==
  /\ \A a, b : Precedes(sent, a, b) => a < b
  /\ \A a, b : Precedes(eth_pending, a, b) => a < b
  /\ \A a, b : Precedes(queue, a, b) => a < b
  /\ \A a \in Range(sent), b \in Range(eth_pending) : a < b
  /\ \A a \in Range(sent), b \in Range(queue) : a < b
  /\ \A a \in Range(eth_pending), b \in Range(queue) : a < b
  /\ \A a \in Range(sent) \cup Range(eth_pending) \cup Range(queue) : a <= keys

LEMMA OrderInit == Init => OrderInv
BY EmptyFact DEF Init, OrderInv, Precedes

LEMMA OrderStep ==
  ASSUME TypeInv, OrderInv, Next
  PROVE  OrderInv'
<1> USE SizesAssumption
<1>0. /\ sent \in Seq(Serials) /\ eth_pending \in Seq(Serials) /\ queue \in Seq(Serials)
      /\ keys \in Nat /\ Range(sent) \subseteq Serials /\ Range(eth_pending) \subseteq Serials
      /\ Range(queue) \subseteq Serials /\ Serials \subseteq Nat
  <2>1. sent \in Seq(Serials) /\ eth_pending \in Seq(Serials) /\ queue \in Seq(Serials)
    BY DEF TypeInv, TypeOK
  <2>2. Range(sent) \subseteq Serials /\ Range(eth_pending) \subseteq Serials
        /\ Range(queue) \subseteq Serials
    BY <2>1, RangeSeq
  <2> QED BY <2>1, <2>2 DEF TypeInv, TypeOK, Serials
<1>1. ASSUME UNCHANGED <<sent, eth_pending, queue, keys>> PROVE OrderInv'
  BY <1>1 DEF OrderInv, Precedes
<1>2. CASE HandleCharacter
  <2>1. /\ keys' = keys + 1 /\ keys + 1 \in Serials /\ UNCHANGED <<sent, eth_pending>>
        /\ queue' = Append(queue, keys + 1) \/ queue' = queue
    BY <1>0, <1>2 DEF HandleCharacter, ethVars, Serials
  <2>5. ASSUME NEW a \in Range(sent) \cup Range(eth_pending) \cup Range(queue)
        PROVE  a < keys + 1 /\ a <= keys + 1
    <3>1. a \in Nat /\ a <= keys
      BY <1>0 DEF OrderInv
    <3> QED BY <1>0, <3>1
  <2>2. CASE queue' = queue
    <3>1. UNCHANGED <<sent, eth_pending, queue>> /\ keys' = keys + 1
      BY <2>1, <2>2
    <3>2. \A a \in Range(sent') \cup Range(eth_pending') \cup Range(queue') : a <= keys'
      BY <2>5, <3>1
    <3> QED BY <3>1, <3>2 DEF OrderInv
  <2>3. CASE queue' = Append(queue, keys + 1)
    <3>1. /\ Range(queue') = Range(queue) \cup {keys + 1}
          /\ \A a, b : Precedes(queue', a, b) =>
               Precedes(queue, a, b) \/ (b = keys + 1 /\ a \in Range(queue))
      <4> DEFINE k == keys + 1
      <4>1. k \in Serials /\ queue' = Append(queue, k)
        BY <2>1, <2>3
      <4> HIDE DEF k
      <4>2. /\ Range(queue') = Range(queue) \cup {k}
            /\ \A a, b : Precedes(queue', a, b) =>
                 Precedes(queue, a, b) \/ (b = k /\ a \in Range(queue))
        BY <1>0, <4>1, AppendRange, PrecedesAppend
      <4> QED BY <4>2 DEF k
    <3>2. \A a \in Range(sent) \cup Range(eth_pending) \cup Range(queue) : a < keys + 1
      BY <2>5
    <3>3. \A a, b : Precedes(queue', a, b) => a < b
      BY <3>1, <3>2 DEF OrderInv
    <3>4. /\ \A a, b : Precedes(sent', a, b) => a < b
          /\ \A a, b : Precedes(eth_pending', a, b) => a < b
      BY <2>1 DEF OrderInv
    <3>5. /\ \A a \in Range(sent), b \in Range(queue') : a < b
          /\ \A a \in Range(eth_pending), b \in Range(queue') : a < b
      BY <3>1, <3>2 DEF OrderInv
    <3>6. \A a \in Range(sent) \cup Range(eth_pending) \cup Range(queue') : a <= keys + 1
      <4> DEFINE k == keys + 1
      <4>1. Range(queue') = Range(queue) \cup {k} /\ k \in Nat /\ k <= k
        BY <1>0, <3>1
      <4>2. \A a \in Range(sent) \cup Range(eth_pending) \cup Range(queue) : a <= k
        BY <2>5
      <4> HIDE DEF k
      <4>3. \A a \in Range(sent) \cup Range(eth_pending) \cup Range(queue') : a <= k
        BY <4>1, <4>2
      <4> QED BY <4>3 DEF k
    <3> QED BY <2>1, <3>3, <3>4, <3>5, <3>6 DEF OrderInv
  <2> QED BY <2>1, <2>2, <2>3
<1>3. CASE Emit \/ PeriodElapses
  BY <1>1, <1>3 DEF Emit, PeriodElapses, ethVars, cryptoVars
<1>4. CASE PicoServer
  BY <1>1, <1>4 DEF PicoServer, PeerConnects, PeerCloses, PeerFinishes, PeerVanishes,
                    PeerFails, PeerStep, ethVars, cryptoVars
<1>5. CASE ReceiveChar
  <2> DEFINE c == Head(queue)
  <2>1. /\ queue # <<>> /\ queue' = Tail(queue) /\ UNCHANGED <<sent, keys>>
        /\ eth_pending' = AppendIfRoom(eth_pending, ETH_TX_BUF_LEN, c)
    BY <1>5 DEF ReceiveChar
  <2>2. /\ c \in Range(queue) /\ c \in Serials /\ Range(queue') \subseteq Range(queue)
        /\ \A a, b : Precedes(queue', a, b) => Precedes(queue, a, b)
        /\ \A b \in Range(queue') : Precedes(queue, c, b)
    BY <1>0, <2>1, TailRange, PrecedesTail
  <2> HIDE DEF c
  <2>3. /\ Range(eth_pending') \subseteq Range(eth_pending) \cup {c}
        /\ \A a, b : Precedes(eth_pending', a, b) =>
             Precedes(eth_pending, a, b) \/ (b = c /\ a \in Range(eth_pending))
    <3>1. CASE eth_pending' = eth_pending
      BY <3>1
    <3>2. CASE eth_pending' = Append(eth_pending, c)
      BY <1>0, <2>2, <3>2, AppendRange, PrecedesAppend
    <3> QED BY <2>1, <3>1, <3>2 DEF AppendIfRoom
  <2>4. /\ \A a, b : Precedes(sent', a, b) => a < b
        /\ \A a, b : Precedes(queue', a, b) => a < b
    BY <2>1, <2>2 DEF OrderInv
  <2>5. \A a, b : Precedes(eth_pending', a, b) => a < b
    BY <2>2, <2>3 DEF OrderInv
  <2>6. \A a \in Range(sent), b \in Range(eth_pending') : a < b
    BY <2>2, <2>3 DEF OrderInv
  <2>7. \A a \in Range(sent), b \in Range(queue') : a < b
    BY <2>2 DEF OrderInv
  <2>8. \A a \in Range(eth_pending'), b \in Range(queue') : a < b
    BY <2>2, <2>3 DEF OrderInv
  <2>9. \A a \in Range(sent) \cup Range(eth_pending') \cup Range(queue') : a <= keys
    BY <2>2, <2>3 DEF OrderInv
  <2> QED BY <2>1, <2>4, <2>5, <2>6, <2>7, <2>8, <2>9 DEF OrderInv
<1>6. CASE TransmitPending
  <2>1. PICK n \in SendResults(eth_socket, eth_pending) :
          sent' = sent \o SubSeq(eth_pending, 1, n)
    BY <1>6 DEF TransmitPending
  <2> DEFINE out == SubSeq(eth_pending, 1, n)
  <2>2. n \in 0..Len(eth_pending)
    <3>1. Len(eth_pending) \in Nat
      BY <1>0
    <3> QED BY <2>1, <3>1 DEF SendResults
  <2>3. /\ out \in Seq(Serials) /\ Range(out) \subseteq Range(eth_pending)
        /\ \A a, b : Precedes(out, a, b) => Precedes(eth_pending, a, b)
    BY <1>0, <2>2, PrefixOrder
  <2>4. sent' = sent \o out
    BY <2>1
  <2> HIDE DEF out
  <2>5. /\ Range(sent') = Range(sent) \cup Range(out)
        /\ \A a, b : Precedes(sent', a, b) =>
             \/ Precedes(sent, a, b) \/ Precedes(out, a, b)
             \/ a \in Range(sent) /\ b \in Range(out)
    BY <1>0, <2>3, <2>4, ConcatOrder
  <2>6. eth_pending' = <<>> /\ UNCHANGED <<queue, keys>>
    BY <1>6 DEF TransmitPending, Cleared, cryptoVars
  <2>7. Range(eth_pending') = {} /\ \A a, b : ~Precedes(eth_pending', a, b)
    BY <2>6, EmptyFact DEF Precedes
  <2>8. \A a, b : Precedes(sent', a, b) => a < b
    BY <2>3, <2>5 DEF OrderInv
  <2>9. \A a \in Range(sent'), b \in Range(queue) : a < b
    BY <2>3, <2>5 DEF OrderInv
  <2>10. \A a \in Range(sent') \cup Range(queue) : a <= keys
    BY <2>3, <2>5 DEF OrderInv
  <2>11. \A a, b : Precedes(queue, a, b) => a < b
    BY DEF OrderInv
  <2> QED BY <2>6, <2>7, <2>8, <2>9, <2>10, <2>11 DEF OrderInv
<1>7. CASE \/ Start \/ PollNotify \/ ReceiveDone \/ TransmitNothing \/ WriteLog
           \/ WriteLogFails \/ WriteNothing \/ PollSignal \/ EventsDone
           \/ \E fd \in Fds : HandleEvent(fd)
  BY <1>1, <1>7 DEF Start, PollNotify, ReceiveDone, TransmitNothing, WriteLog, WriteLogFails,
       WriteNothing, PollSignal, EventsDone, HandleEvent, ethVars, cryptoVars
<1> QED BY <1>2, <1>3, <1>4, <1>5, <1>6, <1>7 DEF Next, Run

\* One inductive invariant: the overwritten log needs its offset, and the socket
\* that events set needs the waiting client.
Inv == TypeInv /\ SomebodyWaits /\ LogInv /\ OrderInv /\ NoLostSocketEvent

LEMMA SignalStep == TypeInv /\ NoLostSocketEvent /\ Next => NoLostSocketEvent'
<1> SUFFICES ASSUME TypeInv, NoLostSocketEvent, Next PROVE NoLostSocketEvent'
  OBVIOUS
<1>1. CASE HandleCharacter \/ Emit \/ PeriodElapses
  BY <1>1 DEF HandleCharacter, Emit, PeriodElapses, picoVars, NoLostSocketEvent
<1>2. CASE PicoServer
  BY <1>2 DEF PicoServer, PeerConnects, PeerCloses, PeerFinishes, PeerVanishes,
              PeerFails, PeerStep, Raise, NoLostSocketEvent
<1>3. CASE \/ Start \/ PollNotify \/ ReceiveChar \/ ReceiveDone \/ TransmitPending
           \/ TransmitNothing \/ WriteLog \/ WriteLogFails \/ WriteNothing
  <2>1. UNCHANGED picoVars /\ pc # "events" /\ pc # "dead"
    BY <1>3 DEF Start, PollNotify, ReceiveChar, ReceiveDone, TransmitPending,
                TransmitNothing, WriteLog, WriteLogFails, WriteNothing
  <2> QED BY <2>1 DEF picoVars, NoLostSocketEvent
<1>4. CASE PollSignal
  BY <1>4 DEF PollSignal, NoLostSocketEvent
<1>5. CASE EventsDone
  BY <1>5 DEF EventsDone, picoVars, NoLostSocketEvent
<1>6. ASSUME NEW fd \in Fds, HandleEvent(fd) PROVE NoLostSocketEvent'
  BY <1>6 DEF HandleEvent, NoLostSocketEvent
<1> QED BY <1>1, <1>2, <1>3, <1>4, <1>5, <1>6 DEF Next, Run

LEMMA Invariance == Spec => []Inv
<1>1. Init => Inv
  <2>1. Init => NoLostSocketEvent
    BY DEF Init, NoLostSocketEvent
  <2> QED BY <2>1, TypeInit, OrderInit DEF Inv
<1>2. Inv /\ [Next]_vars => Inv'
  <2> SUFFICES ASSUME Inv, [Next]_vars PROVE Inv'
    OBVIOUS
  <2> USE DEF Inv
  <2>1. CASE Next
    <3>1. LogInv' /\ logFile' \in Seq({0} \cup Serials)
      BY <2>1, LogStep
    <3>2. CASE HandleCharacter \/ Emit \/ PicoServer \/ PeriodElapses
      BY <3>1, <3>2, TypeOthers, <2>1, OrderStep, SignalStep
    <3>3. CASE WriteLog \/ WriteLogFails
      <4>1. /\ mmc_pending' \in {mmc_pending, <<>>} /\ pc' = "signal" /\ elapsed' = FALSE
            /\ total_bytes_written' \in {total_bytes_written, total_bytes_written + Len(mmc_pending)}
            /\ UNCHANGED <<cryptoVars, notify, ethVars, taken, picoVars, received>>
        BY <3>3 DEF WriteLog, WriteLogFails, Written
      <4>2. TypeInv'
        <5>1. /\ mmc_pending' \in Seq(Serials) /\ Len(mmc_pending') <= MMC_TX_BUF_LEN
              /\ total_bytes_written' \in Nat
          <6>1. /\ mmc_pending \in Seq(Serials) /\ Len(mmc_pending) <= MMC_TX_BUF_LEN
                /\ total_bytes_written \in Nat /\ Len(mmc_pending) \in Nat
            BY DEF TypeInv, TypeOK
          <6>2. <<>> \in Seq(Serials) /\ Len(<<>>) = 0 /\ MMC_TX_BUF_LEN \in Nat
            BY SizesAssumption
          <6>3. CASE mmc_pending' = <<>>
            BY <4>1, <6>1, <6>2, <6>3
          <6>4. CASE mmc_pending' = mmc_pending
            BY <4>1, <6>1, <6>4
          <6> QED BY <4>1, <6>3, <6>4
        <5> QED BY <3>1, <4>1, <5>1 DEF TypeInv, TypeOK, cryptoVars, ethVars, picoVars
      <4>3. SomebodyWaits'
        BY <4>1 DEF SomebodyWaits, picoVars
      <4> QED BY <2>1, <3>1, <4>2, <4>3, OrderStep, SignalStep
    <3>4. CASE \/ Start \/ PollNotify \/ ReceiveChar \/ ReceiveDone \/ TransmitPending
               \/ TransmitNothing \/ WriteNothing \/ PollSignal \/ EventsDone
               \/ \E fd \in Fds : HandleEvent(fd)
      BY <2>1, <3>1, <3>4, TypeRun, OrderStep, SignalStep
    <3> QED BY <2>1, <3>2, <3>3, <3>4 DEF Next, Run
  <2>2. CASE UNCHANGED vars
    BY <2>2 DEF vars, cryptoVars, ethVars, mmcVars, picoVars, TypeInv, TypeOK, SomebodyWaits,
                LogInv, InPlace, OrderInv, Precedes, NoLostSocketEvent
  <2> QED BY <2>1, <2>2
<1> QED BY <1>1, <1>2, PTL DEF Spec

\* The Transmitter's state has its type; no pending buffer is ever overrun, nor
\* is an event's handler left without a client to accept.
THEOREM TransmitterTypeCorrect == Spec => []TypeOK
<1>1. Inv => TypeOK
  BY DEF Inv, TypeInv
<1> QED BY <1>1, Invariance, PTL

\* The log on the card is complete and in order, however often a write fails half
\* way (write_pending_mmc_log) and whether or not the earlier log could be deleted,
\* for every size of the buffers.
THEOREM LogIsFaithful == Spec => []LogFaithful
<1>1. Inv => LogFaithful
  <2> SUFFICES ASSUME Inv, pc # "start"
               PROVE  /\ Len(logFile) >= total_bytes_written
                      /\ SubSeq(logFile, 1, total_bytes_written) \o mmc_pending = taken
                      /\ \A i \in 1..Len(logFile) :
                           logFile[i] # 0 => i <= Len(taken) /\ logFile[i] = taken[i]
    BY DEF LogFaithful
  <2> DEFINE t == total_bytes_written
             w == SubSeq(logFile, 1, t)
             out == w \o mmc_pending
  <2>1. /\ t \in Nat /\ Len(logFile) >= t
        /\ Len(logFile) \in Nat /\ Len(taken) \in Nat /\ Len(mmc_pending) \in Nat
        /\ \A i \in 1..t : logFile[i] = taken[i]
        /\ \A i \in 1..Len(logFile) : logFile[i] # 0 => i <= Len(taken) /\ logFile[i] = taken[i]
        /\ Len(taken) = t + Len(mmc_pending)
        /\ \A i \in 1..Len(mmc_pending) : taken[t + i] = mmc_pending[i]
        /\ logFile \in Seq({0} \cup Serials) /\ taken \in Seq(Serials)
        /\ mmc_pending \in Seq(Serials) /\ mmc_pending \in Seq({0} \cup Serials)
        /\ taken \in Seq({0} \cup Serials)
    BY DEF Inv, TypeInv, TypeOK, LogInv, InPlace
  <2>2. w \in Seq({0} \cup Serials) /\ Len(w) = t /\ \A i \in 1..t : w[i] = logFile[i]
    <3>1. t \in 0..Len(logFile)
      BY <2>1
    <3> QED BY <2>1, <3>1, PrefixOrder
  <2> HIDE DEF w, t
  <2>3. /\ out \in Seq({0} \cup Serials) /\ Len(out) = t + Len(mmc_pending)
        /\ \A i \in 1..(t + Len(mmc_pending)) :
             out[i] = IF i <= t THEN w[i] ELSE mmc_pending[i - t]
    BY <2>1, <2>2, ConcatProperties
  <2> HIDE DEF out
  <2>4. ASSUME NEW i \in 1..Len(out) PROVE out[i] = taken[i]
    <3>1. CASE i <= t
      <4>1. i \in 1..t /\ i \in 1..Len(logFile) /\ i \in 1..(t + Len(mmc_pending))
        BY <2>1, <2>3, <3>1
      <4> QED BY <2>1, <2>2, <2>3, <3>1, <4>1
    <3>2. CASE ~(i <= t)
      <4>1. i - t \in 1..Len(mmc_pending) /\ t + (i - t) = i /\ i \in 1..(t + Len(mmc_pending))
        BY <2>1, <2>3, <3>2
      <4> QED BY <2>1, <2>3, <3>2, <4>1
    <3> QED BY <3>1, <3>2
  <2>5. out = taken
    BY <2>1, <2>3, <2>4, SeqEqual
  <2> QED BY <2>1, <2>5 DEF out, w, t
<1> QED BY <1>1, Invariance, PTL

\* Nothing is sent twice or ahead of an earlier character, whatever the sends
\* took and whatever was dropped.
THEOREM SentIsInOrder == Spec => []SentInOrder
<1>1. Inv => SentInOrder
  <2> SUFFICES ASSUME Inv PROVE SentInOrder
    OBVIOUS
  <2> DEFINE out == sent \o eth_pending
  <2>1. sent \in Seq(Serials) /\ eth_pending \in Seq(Serials)
    BY DEF Inv, TypeInv, TypeOK
  <2>2. \A a, b : Precedes(out, a, b) =>
          \/ Precedes(sent, a, b) \/ Precedes(eth_pending, a, b)
          \/ a \in Range(sent) /\ b \in Range(eth_pending)
    BY <2>1, ConcatOrder
  <2> HIDE DEF out
  <2>3. \A a, b : Precedes(out, a, b) => a < b
    BY <2>2 DEF Inv, OrderInv
  <2>4. \A i, j \in 1..Len(out) : i < j => out[i] < out[j]
    BY <2>3 DEF Precedes
  <2> QED BY <2>4 DEF SentInOrder, out
<1> QED BY <1>1, Invariance, PTL

\* No socket event is forgotten between seL4_Poll and the loop that handles them.
THEOREM NoEventLost == Spec => []NoLostSocketEvent
<1>1. Inv => NoLostSocketEvent
  BY DEF Inv
<1> QED BY <1>1, Invariance, PTL
=============================================================================
