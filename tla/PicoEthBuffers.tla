--------------------------- MODULE PicoEthBuffers ---------------------------
(* The DMA buffers between picotcp and the ethernet driver in                *)
(* picotcp_single_component (src/ethdriver.c).  A receive buffer is in the   *)
(* pool, with the driver, or pending for picotcp; a transmit buffer is in    *)
(* its pool or with the driver.  The component has a single thread: each     *)
(* callback of the driver and each call of picotcp is one step.              *)
(*                                                                           *)
(* The array-and-counter pools are stacks and the cyclic queue of pending    *)
(* buffers a sequence; an array index out of range is a length above the     *)
(* array's size.  Frames are serial numbers, so an overwritten frame shows.  *)
EXTENDS Naturals, Sequences, Functions

CONSTANTS RX_BUFS, TX_BUFS,
          LoopScore,     \* what picotcp lets one poll consume
          MaxReceived,   \* bound: frames received
          MaxSends       \* bound: frames sent

ASSUME BufferSizesAssumption ==
  /\ RX_BUFS \in Nat \ {0} /\ TX_BUFS \in Nat
  /\ LoopScore \in Nat /\ MaxReceived \in Nat /\ MaxSends \in Nat

VARIABLES
  up,                     \* setup_eth0 has succeeded
  rx_buf_pool,            \* free receive buffers, top of the stack last
  rx_pending,             \* pending_rx: received buffers, oldest first
  rxDriver,               \* receive buffers given to the driver
  tx_buf_pool,            \* free transmit buffers
  txDriver,               \* transmit buffers queued in the driver, in order
  rxData, txData,         \* the frame each buffer holds
  frames, sends,          \* how many frames were received and sent so far
  toStack, toWire         \* histories: frames as picotcp, as the wire saw them

rxVars == <<rx_buf_pool, rx_pending, rxDriver, rxData, frames, toStack>>
txVars == <<tx_buf_pool, txDriver, txData, sends, toWire>>
bufferVars == <<up, rxVars, txVars>>

RxBufs == 1..RX_BUFS
TxBufs == 1..TX_BUFS

BufferInit ==
  /\ up = FALSE
  /\ rx_buf_pool = <<>> /\ rx_pending = <<>> /\ rxDriver = {}
  /\ tx_buf_pool = <<>> /\ txDriver = <<>>
  /\ rxData = [b \in RxBufs |-> 0] /\ txData = [b \in TxBufs |-> 0]
  /\ frames = 0 /\ sends = 0
  /\ toStack = <<>> /\ toWire = <<>>
-----------------------------------------------------------------------------
Filled(n) == [i \in 1..n |-> i]

\* setup_eth0, every allocation succeeding (otherwise the device stays down).
setup_eth0 ==
  /\ ~up
  /\ up' = TRUE
  /\ rx_buf_pool' = Filled(RX_BUFS)
  /\ tx_buf_pool' = Filled(TX_BUFS)
  /\ UNCHANGED <<rx_pending, rxDriver, rxData, frames, toStack,
                 txDriver, txData, sends, toWire>>

Popped(pool) == SubSeq(pool, 1, Len(pool) - 1)
Top(pool) == pool[Len(pool)]

\* The driver refills its receive ring; with an empty pool it gets nothing.
eth_allocate_rx_buf ==
  /\ up
  /\ rx_buf_pool # <<>>
  /\ rxDriver' = rxDriver \cup {Top(rx_buf_pool)}
  /\ rx_buf_pool' = Popped(rx_buf_pool)
  /\ UNCHANGED <<up, rx_pending, rxData, frames, toStack, txVars>>

\* Orders in which the driver may hand in some of its buffers.
Cookies == UNION {{s \in [1..n -> rxDriver] : IsInjective(s)} : n \in {1, 2}}

\* Mutant: the cyclic queue is taken to be full one slot too late.
RingFull_never == FALSE
RingFull == Len(rx_pending) = RX_BUFS - 1

\* Mutant: the error path puts the first buffer back only.
Returned_first(cookies) == SubSeq(cookies, 1, 1)
Returned(cookies) == cookies

\* A frame has arrived in the given buffers, and so the driver lets go of them.
\* A frame over several buffers, or one that finds the queue full, is dropped
\* and its buffers go back to the pool.
eth_rx_complete(cookies) ==
  /\ frames < MaxReceived
  /\ frames' = frames + 1
  /\ rxDriver' = rxDriver \ Range(cookies)
  /\ rxData' = [b \in RxBufs |-> IF b \in Range(cookies) THEN frames + 1
                                                         ELSE rxData[b]]
  /\ IF Len(cookies) = 1 /\ ~RingFull
     THEN /\ rx_pending' = Append(rx_pending, cookies[1])
          /\ UNCHANGED rx_buf_pool
     ELSE /\ rx_buf_pool' = rx_buf_pool \o Returned(cookies)
          /\ UNCHANGED rx_pending
  /\ UNCHANGED <<up, toStack, txVars>>

\* How many frames a poll passes on: the queue's, at most LoopScore, or fewer
\* when pico_stack_recv refuses one; that one stays in the queue.
PollCounts == {n \in 0..LoopScore : n <= Len(rx_pending)}

\* Mutant: the buffer goes back to the pool without leaving the queue.
StillPending_all(n) == rx_pending
StillPending(n) == SubSeq(rx_pending, n + 1, Len(rx_pending))

\* The whole of pico_eth_poll when n frames are passed on.
pico_eth_poll(n) ==
  /\ up
  /\ toStack' = toStack \o [i \in 1..n |-> rxData[rx_pending[i]]]
  /\ rx_buf_pool' = rx_buf_pool \o SubSeq(rx_pending, 1, n)
  /\ rx_pending' = StillPending(n)
  /\ UNCHANGED <<up, rxDriver, rxData, frames, txVars>>
-----------------------------------------------------------------------------
\* pico_eth_send when the driver takes the frame.  The code treats
\* ETHIF_TX_COMPLETE as ETHIF_TX_ENQUEUED: it counts on eth_tx_complete to
\* bring the buffer back in both cases.  With an empty pool nothing happens.
pico_eth_send ==
  /\ up
  /\ sends < MaxSends
  /\ tx_buf_pool # <<>>
  /\ sends' = sends + 1
  /\ txData' = [txData EXCEPT ![Top(tx_buf_pool)] = sends + 1]
  /\ txDriver' = Append(txDriver, Top(tx_buf_pool))
  /\ tx_buf_pool' = Popped(tx_buf_pool)
  /\ UNCHANGED <<up, toWire, rxVars>>

PutBack(pool) == Append(Popped(pool), Top(pool))

\* pico_eth_send when the driver refuses it (ETHIF_TX_FAILED): the frame has
\* been copied, and the buffer goes back where it came from.
pico_eth_send_fails ==
  /\ up
  /\ sends < MaxSends
  /\ tx_buf_pool # <<>>
  /\ sends' = sends + 1
  /\ txData' = [txData EXCEPT ![Top(tx_buf_pool)] = sends + 1]
  /\ tx_buf_pool' = PutBack(tx_buf_pool)
  /\ UNCHANGED <<up, txDriver, toWire, rxVars>>

\* Mutant: the completed buffer is pushed below the counter.
Pushed_lost(pool, b) == pool
Pushed(pool, b) == Append(pool, b)

\* The driver has transmitted its oldest buffer and gives it back.
eth_tx_complete ==
  /\ txDriver # <<>>
  /\ toWire' = Append(toWire, txData[Head(txDriver)])
  /\ tx_buf_pool' = Pushed(tx_buf_pool, Head(txDriver))
  /\ txDriver' = Tail(txDriver)
  /\ UNCHANGED <<up, txData, sends, rxVars>>
-----------------------------------------------------------------------------
BufferNext ==
  \/ setup_eth0
  \/ eth_allocate_rx_buf
  \/ \E cookies \in Cookies : eth_rx_complete(cookies)
  \/ \E n \in PollCounts : pico_eth_poll(n)
  \/ pico_eth_send
  \/ pico_eth_send_fails
  \/ eth_tx_complete

BufferSpec == BufferInit /\ [][BufferNext]_bufferVars

\* The driver finishes what it queued.
BufferFairness == WF_bufferVars(eth_tx_complete)
-----------------------------------------------------------------------------
(* Properties                                                                *)

BufferTypeOK ==
  /\ up \in BOOLEAN
  /\ rx_buf_pool \in Seq(RxBufs) /\ rx_pending \in Seq(RxBufs)
  /\ rxDriver \subseteq RxBufs
  /\ tx_buf_pool \in Seq(TxBufs) /\ txDriver \in Seq(TxBufs)
  /\ rxData \in [RxBufs -> Nat] /\ txData \in [TxBufs -> Nat]
  /\ frames \in Nat /\ sends \in Nat

\* Every receive buffer is in exactly one place, once: in the pool, pending for
\* picotcp, or with the driver.  None leaks, none has two owners.
RxBuffersConserved ==
  up => /\ IsInjective(rx_buf_pool) /\ IsInjective(rx_pending)
        /\ Range(rx_buf_pool) \cap Range(rx_pending) = {}
        /\ Range(rx_buf_pool) \cap rxDriver = {}
        /\ Range(rx_pending) \cap rxDriver = {}
        /\ Range(rx_buf_pool) \cup Range(rx_pending) \cup rxDriver = RxBufs

\* The same of the transmit buffers.
TxBuffersConserved ==
  up => /\ IsInjective(tx_buf_pool) /\ IsInjective(txDriver)
        /\ Range(tx_buf_pool) \cap Range(txDriver) = {}
        /\ Range(tx_buf_pool) \cup Range(txDriver) = TxBufs

\* Every buffer of the driver has exactly one owner, on both paths.
BuffersConserved == RxBuffersConserved /\ TxBuffersConserved

\* No index runs past its array: the pools' counters and the cyclic queue,
\* which keeps one slot empty (ethdriver.c:82, 107, 118, 144, 179).
ArraysSuffice ==
  /\ Len(rx_buf_pool) <= RX_BUFS
  /\ Len(rx_pending) < RX_BUFS
  /\ Len(tx_buf_pool) <= TX_BUFS

\* The frames still pending, with those picotcp got, are in order of arrival
\* and unspoiled: no buffer is refilled before picotcp has read it.
StackSeesFramesInOrder ==
  LET seen == toStack \o [i \in 1..Len(rx_pending) |-> rxData[rx_pending[i]]]
  IN  \A i, j \in 1..Len(seen) : i < j => seen[i] < seen[j]

\* What is on the wire and what is queued for it is in the order picotcp sent
\* it, unspoiled: no buffer is reused while the driver still has to send it.
WireSeesFramesInOrder ==
  LET seen == toWire \o [i \in 1..Len(txDriver) |-> txData[txDriver[i]]]
  IN  \A i, j \in 1..Len(seen) : i < j => seen[i] < seen[j]

\* Frames keep their order and contents on their way through the driver's
\* buffers, in both directions.
FramesInOrder == StackSeesFramesInOrder /\ WireSeesFramesInOrder

\* A pool that has run dry is refilled: sending cannot be blocked for ever.
EventuallyCanSend ==
  BufferFairness => (up /\ tx_buf_pool = <<>> ~> tx_buf_pool # <<>>)
=============================================================================
