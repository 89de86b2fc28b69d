----------------------- MODULE PicoEthBuffers_proofs -----------------------
(* Ownership of the DMA buffers for every number of buffers: none leaks,     *)
(* none has two owners, and no array index runs past its array.              *)
EXTENDS PicoEthBuffers, SequenceFacts

USE BufferSizesAssumption
-----------------------------------------------------------------------------
\* Taking the top off a stack.
LEMMA PopDistinct ==
  ASSUME NEW S, NEW s \in Seq(S), IsInjective(s), s # <<>>
  PROVE  /\ Top(s) \in S
         /\ Popped(s) \in Seq(S)
         /\ IsInjective(Popped(s))
         /\ Top(s) \notin Range(Popped(s))
         /\ Range(s) = Range(Popped(s)) \cup {Top(s)}
         /\ Append(Popped(s), Top(s)) = s
<1>1. Len(s) \in Nat /\ Len(s) # 0 /\ Len(s) - 1 \in 0..Len(s)
  BY EmptySeq
<1>2. Top(s) \in S
  BY <1>1 DEF Top
<1> DEFINE n == Len(s) - 1
           back == SubSeq(s, n + 1, Len(s))
<1>0. n \in 0..Len(s) /\ n + 1 = Len(s) /\ Popped(s) = SubSeq(s, 1, n)
  BY <1>1 DEF Popped
<1>3. /\ Popped(s) \in Seq(S) /\ back \in Seq(S)
      /\ IsInjective(Popped(s))
      /\ Range(Popped(s)) \cap Range(back) = {}
      /\ Range(Popped(s)) \cup Range(back) = Range(s)
      /\ Len(Popped(s)) = n /\ Len(back) = Len(s) - n
  <2> HIDE DEF n
  <2> QED BY <1>0, SplitDistinct
<1>4. back[1] = Top(s) /\ Len(back) = 1
  BY <1>1, <1>3, SubSeqProperties DEF Top
<1>5. Range(back) = {Top(s)}
  <2> HIDE DEF back
  <2> QED BY <1>3, <1>4, SingletonRange
<1>6. Append(Popped(s), Top(s)) = s
  <2>1. \A i \in 1..n : Popped(s)[i] = s[i]
    BY <1>1, SubSeqProperties DEF Popped
  <2>2. /\ Append(Popped(s), Top(s)) \in Seq(S)
        /\ Len(Append(Popped(s), Top(s))) = n + 1
        /\ Append(Popped(s), Top(s))[n + 1] = Top(s)
        /\ \A i \in 1..n : Append(Popped(s), Top(s))[i] = Popped(s)[i]
    BY <1>2, <1>3, AppendProperties
  <2>3. \A i \in 1..Len(s) : Append(Popped(s), Top(s))[i] = s[i]
    <3> TAKE i \in 1..Len(s)
    <3>1. i \in 1..n \/ i = n + 1
      BY <1>1
    <3>2. s[n + 1] = Top(s)
      BY <1>1 DEF Top
    <3> QED BY <2>1, <2>2, <3>1, <3>2
  <2>4. Len(s) = n + 1
    BY <1>1
  <2> QED BY <2>2, <2>3, <2>4, SeqEqual
<1> QED BY <1>2, <1>3, <1>5, <1>6
-----------------------------------------------------------------------------
(* The inductive invariant: the two conservation laws, and nothing owned by  *)
(* anybody before setup_eth0.                                                *)

NothingBeforeSetup ==
  ~up => /\ rx_buf_pool = <<>> /\ rx_pending = <<>> /\ rxDriver = {}
         /\ tx_buf_pool = <<>> /\ txDriver = <<>>

Inv == /\ BufferTypeOK
       /\ NothingBeforeSetup
       /\ RxBuffersConserved
       /\ TxBuffersConserved
       /\ Len(rx_pending) < RX_BUFS

RxUnchanged == UNCHANGED <<up, rx_buf_pool, rx_pending, rxDriver>>
TxUnchanged == UNCHANGED <<up, tx_buf_pool, txDriver>>

\* The part of the invariant about receive buffers, and that about the others.
RxInv == /\ rx_buf_pool \in Seq(RxBufs) /\ rx_pending \in Seq(RxBufs)
         /\ rxDriver \subseteq RxBufs
         /\ ~up => rx_buf_pool = <<>> /\ rx_pending = <<>> /\ rxDriver = {}
         /\ RxBuffersConserved
         /\ Len(rx_pending) < RX_BUFS
TxInv == /\ tx_buf_pool \in Seq(TxBufs) /\ txDriver \in Seq(TxBufs)
         /\ ~up => tx_buf_pool = <<>> /\ txDriver = <<>>
         /\ TxBuffersConserved

LEMMA InvSplit == /\ Inv => RxInv /\ TxInv
                  /\ BufferTypeOK /\ RxInv /\ TxInv => Inv
BY DEF Inv, RxInv, TxInv, BufferTypeOK, NothingBeforeSetup

LEMMA RxStutter == RxInv /\ RxUnchanged => RxInv'
BY DEF RxInv, RxUnchanged, RxBuffersConserved

LEMMA TxStutter == TxInv /\ TxUnchanged => TxInv'
BY DEF TxInv, TxUnchanged, TxBuffersConserved

LEMMA InitInv == BufferInit => Inv
<1> SUFFICES ASSUME BufferInit PROVE Inv
  OBVIOUS
<1>1. <<>> \in Seq(RxBufs) /\ <<>> \in Seq(TxBufs) /\ Len(<<>>) = 0
  OBVIOUS
<1>2. BufferTypeOK
  BY <1>1 DEF BufferInit, BufferTypeOK
<1> QED BY <1>1, <1>2 DEF BufferInit, Inv, NothingBeforeSetup, RxBuffersConserved,
                          TxBuffersConserved

\* Every step keeps the receive buffers' part.
LEMMA RxStep ==
  ASSUME Inv, BufferNext
  PROVE  RxInv'
<1>0. RxInv
  BY InvSplit
<1>1. CASE setup_eth0
  <2>1. rx_buf_pool' \in Seq(RxBufs) /\ IsInjective(rx_buf_pool')
        /\ Range(rx_buf_pool') = RxBufs
    BY <1>1, FreshPool DEF setup_eth0, Filled, RxBufs
  <2> QED BY <1>0, <1>1, <2>1, EmptyFact DEF setup_eth0, RxInv, RxBuffersConserved
<1>2. CASE eth_allocate_rx_buf
  <2> DEFINE b == Top(rx_buf_pool)
  <2>1. /\ b \in RxBufs /\ Popped(rx_buf_pool) \in Seq(RxBufs)
        /\ IsInjective(Popped(rx_buf_pool))
        /\ b \notin Range(Popped(rx_buf_pool))
        /\ Range(rx_buf_pool) = Range(Popped(rx_buf_pool)) \cup {b}
    BY <1>0, <1>2, PopDistinct
       DEF eth_allocate_rx_buf, RxInv, RxBuffersConserved
  <2>2. /\ rx_buf_pool' = Popped(rx_buf_pool)
        /\ rxDriver' = rxDriver \cup {b}
        /\ up /\ up' /\ rx_pending' = rx_pending
    BY <1>2 DEF eth_allocate_rx_buf
  <2> HIDE DEF b
  <2> QED BY <1>0, <2>1, <2>2 DEF RxInv, RxBuffersConserved
<1>3. ASSUME NEW cookies \in Cookies, eth_rx_complete(cookies)
      PROVE  RxInv'
  <2>1. /\ cookies \in Seq(rxDriver) /\ IsInjective(cookies) /\ Len(cookies) \in Nat
        /\ Len(cookies) >= 1
    <3> PICK k \in {1, 2} : cookies \in [1..k -> rxDriver] /\ IsInjective(cookies)
      BY DEF Cookies
    <3> QED OBVIOUS
  <2>2. Range(cookies) \subseteq rxDriver /\ cookies[1] \in Range(cookies)
    BY <2>1, RangeSeq
  <2>3. up /\ up'
    BY <1>0, <1>3, <2>2 DEF RxInv, eth_rx_complete
  <2>4. rxDriver' = rxDriver \ Range(cookies)
    BY <1>3 DEF eth_rx_complete
  <2>5. cookies \in Seq(RxBufs)
    BY <1>0, <2>1, SeqMonotonic DEF RxInv
  <2>6. CASE Len(cookies) = 1 /\ ~RingFull
    <3> DEFINE b == cookies[1]
    <3>1. /\ rx_pending' = Append(rx_pending, b) /\ rx_buf_pool' = rx_buf_pool
      BY <1>3, <2>6 DEF eth_rx_complete
    <3>2. Range(cookies) = {b}
      BY <2>1, <2>6, SingletonRange
    <3>3. b \in RxBufs /\ b \in rxDriver /\ b \notin Range(rx_pending)
      BY <1>0, <2>2, <2>3 DEF RxInv, RxBuffersConserved
    <3> HIDE DEF b
    <3>4. /\ rx_pending' \in Seq(RxBufs) /\ IsInjective(rx_pending')
          /\ Range(rx_pending') = Range(rx_pending) \cup {b}
      BY <1>0, <2>3, <3>1, <3>3, AppendDistinct DEF RxInv, RxBuffersConserved
    <3>5. Len(rx_pending') < RX_BUFS
      <4>1. Len(rx_pending) < RX_BUFS /\ Len(rx_pending) # RX_BUFS - 1
            /\ Len(rx_pending) \in Nat
        BY <1>0, <2>6 DEF RxInv, RingFull
      <4>2. Len(rx_pending') = Len(rx_pending) + 1
        BY <1>0, <3>1, <3>3, AppendProperties DEF RxInv
      <4> QED BY <4>1, <4>2
    <3> QED BY <1>0, <2>3, <2>4, <3>1, <3>2, <3>3, <3>4, <3>5
            DEF RxInv, RxBuffersConserved
  <2>7. CASE ~(Len(cookies) = 1 /\ ~RingFull)
    <3>1. rx_buf_pool' = rx_buf_pool \o cookies /\ rx_pending' = rx_pending
      BY <1>3, <2>7 DEF eth_rx_complete, Returned
    <3>2. Range(rx_buf_pool) \cap Range(cookies) = {}
      BY <1>0, <2>2, <2>3 DEF RxInv, RxBuffersConserved
    <3>3. /\ rx_buf_pool' \in Seq(RxBufs) /\ IsInjective(rx_buf_pool')
          /\ Range(rx_buf_pool') = Range(rx_buf_pool) \cup Range(cookies)
      BY <1>0, <2>1, <2>3, <2>5, <3>1, <3>2, ConcatDistinct
         DEF RxInv, RxBuffersConserved
    <3> QED BY <1>0, <2>2, <2>3, <2>4, <3>1, <3>3 DEF RxInv, RxBuffersConserved
  <2> QED BY <2>6, <2>7
<1>4. ASSUME NEW n \in PollCounts, pico_eth_poll(n)
      PROVE  RxInv'
  <2> DEFINE front == SubSeq(rx_pending, 1, n)
             back  == SubSeq(rx_pending, n + 1, Len(rx_pending))
  <2>1. /\ up /\ up' /\ rxDriver' = rxDriver
        /\ rx_buf_pool' = rx_buf_pool \o front /\ rx_pending' = back
    BY <1>4 DEF pico_eth_poll, StillPending
  <2>2. n \in 0..Len(rx_pending) /\ Len(rx_pending) \in Nat
    BY <1>0 DEF PollCounts, RxInv
  <2>3. /\ front \in Seq(RxBufs) /\ back \in Seq(RxBufs)
        /\ IsInjective(front) /\ IsInjective(back)
        /\ Range(front) \cap Range(back) = {}
        /\ Range(front) \cup Range(back) = Range(rx_pending)
        /\ Len(back) = Len(rx_pending) - n
    BY <1>0, <2>1, <2>2, SplitDistinct DEF RxInv, RxBuffersConserved
  <2> HIDE DEF front, back
  <2>4. /\ rx_buf_pool' \in Seq(RxBufs) /\ IsInjective(rx_buf_pool')
        /\ Range(rx_buf_pool') = Range(rx_buf_pool) \cup Range(front)
    <3>1. Range(rx_buf_pool) \cap Range(front) = {}
      BY <1>0, <2>1, <2>3 DEF RxInv, RxBuffersConserved
    <3> QED BY <1>0, <2>1, <2>3, <3>1, ConcatDistinct DEF RxInv, RxBuffersConserved
  <2>5. Len(rx_pending') < RX_BUFS
    BY <1>0, <2>1, <2>2, <2>3 DEF RxInv
  <2> QED BY <1>0, <2>1, <2>3, <2>4, <2>5 DEF RxInv, RxBuffersConserved
<1>5. CASE pico_eth_send \/ pico_eth_send_fails \/ eth_tx_complete
  BY <1>0, <1>5, RxStutter
     DEF pico_eth_send, pico_eth_send_fails, eth_tx_complete, rxVars, RxUnchanged
<1> QED BY <1>1, <1>2, <1>3, <1>4, <1>5 DEF BufferNext

\* Every step keeps the transmit buffers' part.
LEMMA TxStep ==
  ASSUME Inv, BufferNext
  PROVE  TxInv'
<1>0. TxInv
  BY InvSplit
<1>1. CASE setup_eth0
  <2>1. tx_buf_pool' \in Seq(TxBufs) /\ IsInjective(tx_buf_pool')
        /\ Range(tx_buf_pool') = TxBufs
    BY <1>1, FreshPool DEF setup_eth0, Filled, TxBufs
  <2> QED BY <1>0, <1>1, <2>1, EmptyFact DEF setup_eth0, TxInv, TxBuffersConserved
<1>2. CASE pico_eth_send
  <2> DEFINE b == Top(tx_buf_pool)
  <2>1. /\ up /\ up' /\ tx_buf_pool # <<>>
        /\ tx_buf_pool' = Popped(tx_buf_pool) /\ txDriver' = Append(txDriver, b)
    BY <1>2 DEF pico_eth_send
  <2>2. /\ b \in TxBufs /\ Popped(tx_buf_pool) \in Seq(TxBufs)
        /\ IsInjective(Popped(tx_buf_pool))
        /\ b \notin Range(Popped(tx_buf_pool))
        /\ Range(tx_buf_pool) = Range(Popped(tx_buf_pool)) \cup {b}
    BY <1>0, <2>1, PopDistinct DEF TxInv, TxBuffersConserved
  <2> HIDE DEF b
  <2>3. /\ txDriver' \in Seq(TxBufs) /\ IsInjective(txDriver')
        /\ Range(txDriver') = Range(txDriver) \cup {b}
    <3>1. b \notin Range(txDriver)
      BY <1>0, <2>1, <2>2 DEF TxInv, TxBuffersConserved
    <3> QED BY <1>0, <2>1, <2>2, <3>1, AppendDistinct DEF TxInv, TxBuffersConserved
  <2> QED BY <1>0, <2>1, <2>2, <2>3 DEF TxInv, TxBuffersConserved
<1>3. CASE pico_eth_send_fails
  <2>1. tx_buf_pool' = tx_buf_pool
    BY <1>0, <1>3, PopDistinct
       DEF pico_eth_send_fails, PutBack, TxInv, TxBuffersConserved
  <2> QED BY <1>0, <1>3, <2>1, TxStutter DEF pico_eth_send_fails, TxUnchanged
<1>4. CASE eth_tx_complete
  <2> DEFINE b == Head(txDriver)
  <2>1. /\ txDriver # <<>> /\ up' = up
        /\ tx_buf_pool' = Append(tx_buf_pool, b) /\ txDriver' = Tail(txDriver)
    BY <1>4 DEF eth_tx_complete, Pushed
  <2>2. up /\ up'
    BY <1>0, <2>1 DEF TxInv
  <2>3. /\ 1 \in 0..Len(txDriver) /\ Len(txDriver) \in Nat
        /\ b = txDriver[1] /\ b \in TxBufs
        /\ Tail(txDriver) = SubSeq(txDriver, 1 + 1, Len(txDriver))
    BY <1>0, <2>1, TailIsSubSeq DEF TxInv
  <2>4. /\ Tail(txDriver) \in Seq(TxBufs) /\ IsInjective(Tail(txDriver))
        /\ Range(SubSeq(txDriver, 1, 1)) \cap Range(Tail(txDriver)) = {}
        /\ Range(SubSeq(txDriver, 1, 1)) \cup Range(Tail(txDriver)) = Range(txDriver)
        /\ SubSeq(txDriver, 1, 1) \in Seq(TxBufs) /\ Len(SubSeq(txDriver, 1, 1)) = 1
    <3> DEFINE one == 1
    <3>1. /\ one \in 0..Len(txDriver) /\ IsInjective(txDriver)
          /\ txDriver \in Seq(TxBufs)
          /\ Tail(txDriver) = SubSeq(txDriver, one + 1, Len(txDriver))
      BY <1>0, <2>2, <2>3 DEF TxInv, TxBuffersConserved
    <3>2. SubSeq(txDriver, 1, 1) = SubSeq(txDriver, 1, one) /\ one = 1
      OBVIOUS
    <3> HIDE DEF one
    <3>3. /\ SubSeq(txDriver, 1, one) \in Seq(TxBufs)
          /\ SubSeq(txDriver, one + 1, Len(txDriver)) \in Seq(TxBufs)
          /\ IsInjective(SubSeq(txDriver, one + 1, Len(txDriver)))
          /\ Range(SubSeq(txDriver, 1, one))
               \cap Range(SubSeq(txDriver, one + 1, Len(txDriver))) = {}
          /\ Range(SubSeq(txDriver, 1, one))
               \cup Range(SubSeq(txDriver, one + 1, Len(txDriver))) = Range(txDriver)
          /\ Len(SubSeq(txDriver, 1, one)) = one
      BY <3>1, SplitDistinct
    <3> QED BY <3>1, <3>2, <3>3
  <2>5. SubSeq(txDriver, 1, 1)[1] = b
    BY <1>0, <2>3 DEF TxInv
  <2>6. Range(SubSeq(txDriver, 1, 1)) = {b}
    BY <2>4, <2>5, SingletonRange
  <2> HIDE DEF b
  <2>7. /\ tx_buf_pool' \in Seq(TxBufs) /\ IsInjective(tx_buf_pool')
        /\ Range(tx_buf_pool') = Range(tx_buf_pool) \cup {b}
    <3>1. b \notin Range(tx_buf_pool)
      BY <1>0, <2>2, <2>4, <2>6 DEF TxInv, TxBuffersConserved
    <3> QED BY <1>0, <2>1, <2>2, <2>3, <3>1, AppendDistinct
            DEF TxInv, TxBuffersConserved
  <2> QED BY <1>0, <2>1, <2>2, <2>4, <2>6, <2>7 DEF TxInv, TxBuffersConserved
<1>5. CASE \/ eth_allocate_rx_buf
           \/ \E cookies \in Cookies : eth_rx_complete(cookies)
           \/ \E n \in PollCounts : pico_eth_poll(n)
  BY <1>0, <1>5, TxStutter
     DEF eth_allocate_rx_buf, eth_rx_complete, pico_eth_poll, txVars, TxUnchanged
<1> QED BY <1>1, <1>2, <1>3, <1>4, <1>5 DEF BufferNext

\* Every step keeps the types; the buffers' own are in the two lemmas above.
LEMMA TypeStep ==
  ASSUME Inv, BufferNext, RxInv', TxInv'
  PROVE  BufferTypeOK'
<1>1. /\ rxData \in [RxBufs -> Nat] /\ txData \in [TxBufs -> Nat]
      /\ frames \in Nat /\ sends \in Nat /\ up \in BOOLEAN
  BY DEF Inv, BufferTypeOK
<1>2. up' \in BOOLEAN
  BY <1>1 DEF BufferNext, setup_eth0, eth_allocate_rx_buf, eth_rx_complete,
              pico_eth_poll, pico_eth_send, pico_eth_send_fails, eth_tx_complete
<1>3. rxData' \in [RxBufs -> Nat] /\ frames' \in Nat
  <2>1. CASE setup_eth0 \/ eth_allocate_rx_buf
    BY <1>1, <2>1 DEF setup_eth0, eth_allocate_rx_buf
  <2>2. ASSUME NEW cookies \in Cookies, eth_rx_complete(cookies)
        PROVE  rxData' \in [RxBufs -> Nat] /\ frames' \in Nat
    BY <1>1, <2>2 DEF eth_rx_complete
  <2>3. ASSUME NEW n \in PollCounts, pico_eth_poll(n)
        PROVE  rxData' \in [RxBufs -> Nat] /\ frames' \in Nat
    BY <1>1, <2>3 DEF pico_eth_poll
  <2>4. CASE pico_eth_send \/ pico_eth_send_fails \/ eth_tx_complete
    BY <1>1, <2>4 DEF pico_eth_send, pico_eth_send_fails, eth_tx_complete, rxVars
  <2> QED BY <2>1, <2>2, <2>3, <2>4 DEF BufferNext
<1>4. txData' \in [TxBufs -> Nat] /\ sends' \in Nat
  <2>1. CASE setup_eth0 \/ eth_tx_complete
    BY <1>1, <2>1 DEF setup_eth0, eth_tx_complete
  <2>2. CASE pico_eth_send \/ pico_eth_send_fails
    BY <1>1, <2>2 DEF pico_eth_send, pico_eth_send_fails
  <2>3. CASE \/ eth_allocate_rx_buf
             \/ \E cookies \in Cookies : eth_rx_complete(cookies)
             \/ \E n \in PollCounts : pico_eth_poll(n)
    BY <1>1, <2>3 DEF eth_allocate_rx_buf, eth_rx_complete, pico_eth_poll, txVars
  <2> QED BY <2>1, <2>2, <2>3 DEF BufferNext
<1> QED BY <1>2, <1>3, <1>4 DEF BufferTypeOK, RxInv, TxInv

LEMMA InvStep == Inv /\ [BufferNext]_bufferVars => Inv'
<1> SUFFICES ASSUME Inv, [BufferNext]_bufferVars PROVE Inv'
  OBVIOUS
<1>1. CASE BufferNext
  BY <1>1, RxStep, TxStep, TypeStep, InvSplit, PTL
<1>2. CASE UNCHANGED bufferVars
  BY <1>2 DEF bufferVars, rxVars, txVars, Inv, BufferTypeOK, NothingBeforeSetup,
              RxBuffersConserved, TxBuffersConserved
<1> QED BY <1>1, <1>2

LEMMA Invariance == BufferSpec => []Inv
<1> QED BY InvStep, InitInv, PTL DEF BufferSpec
-----------------------------------------------------------------------------
\* Type correctness of the buffer bookkeeping in ethdriver.c.
THEOREM TypeCorrect == BufferSpec => []BufferTypeOK
<1>1. Inv => BufferTypeOK
  BY DEF Inv
<1> QED BY <1>1, Invariance, PTL

\* Whatever the driver and picotcp do, every receive buffer has one owner: the
\* error path of eth_rx_complete and pico_eth_poll give back what they took.
THEOREM RxConserved == BufferSpec => []RxBuffersConserved
<1>1. Inv => RxBuffersConserved
  BY DEF Inv
<1> QED BY <1>1, Invariance, PTL

\* Every transmit buffer has one owner: pico_eth_send's failure path and
\* eth_tx_complete give back what pico_eth_send took.
THEOREM TxConserved == BufferSpec => []TxBuffersConserved
<1>1. Inv => TxBuffersConserved
  BY DEF Inv
<1> QED BY <1>1, Invariance, PTL

\* Both together: no path through ethdriver.c leaks a buffer or gives it two
\* owners.
THEOREM BuffersAreConserved == BufferSpec => []BuffersConserved
<1>1. RxBuffersConserved /\ TxBuffersConserved => BuffersConserved
  BY DEF BuffersConserved
<1> QED BY <1>1, RxConserved, TxConserved, PTL

\* With the sizes the code declares, for any RX_BUFS and TX_BUFS, no push runs
\* past its array although no push tests the counter.
THEOREM ArraysNeverOverrun == BufferSpec => []ArraysSuffice
<1>1. Inv => ArraysSuffice
  <2> SUFFICES ASSUME Inv PROVE ArraysSuffice
    OBVIOUS
  <2>1. /\ rx_buf_pool \in Seq(1..RX_BUFS) /\ IsInjective(rx_buf_pool)
        /\ tx_buf_pool \in Seq(1..TX_BUFS) /\ IsInjective(tx_buf_pool)
        /\ Len(rx_pending) < RX_BUFS
    <3>1. CASE up
      BY <3>1 DEF Inv, BufferTypeOK, RxBufs, TxBufs, RxBuffersConserved, TxBuffersConserved
    <3>2. CASE ~up
      BY <3>2, EmptyFact DEF Inv, BufferTypeOK, RxBufs, TxBufs, NothingBeforeSetup
    <3> QED BY <3>1, <3>2
  <2>2. Len(rx_buf_pool) <= RX_BUFS
    BY <2>1, DistinctBounded
  <2>3. Len(tx_buf_pool) <= TX_BUFS
    BY <2>1, DistinctBounded
  <2> QED BY <2>1, <2>2, <2>3 DEF ArraysSuffice
<1> QED BY <1>1, Invariance, PTL
-----------------------------------------------------------------------------
(* Order of the frames.  On either path, what has left (h) and then what the *)
(* queued buffers hold (g) are rising serial numbers, none above the last    *)
(* one given (m).  A buffer that is written to is never one that is queued.  *)

Climbs(s) == \A a, b : Precedes(s, a, b) => a < b
Below(s, t) == \A a \in Range(s), b \in Range(t) : a < b

Ordered(h, g, m) ==
  /\ Climbs(h) /\ Climbs(g) /\ Below(h, g)
  /\ \A a \in Range(h) \cup Range(g) : a <= m

\* What the buffers of a queue hold.
Held(q, d) == [i \in 1..Len(q) |-> d[q[i]]]

LEMMA HeldType ==
  ASSUME NEW B, NEW q \in Seq(B), NEW d \in [B -> Nat]
  PROVE  /\ Held(q, d) \in Seq(Nat) /\ Len(Held(q, d)) = Len(q)
         /\ \A i \in 1..Len(q) : Held(q, d)[i] = d[q[i]]
<1>1. \A i \in 1..Len(q) : d[q[i]] \in Nat
  OBVIOUS
<1>2. Len(q) \in Nat
  OBVIOUS
<1>3. Held(q, d) \in [1..Len(q) -> Nat]
  BY <1>1 DEF Held
<1>4. \A i \in 1..Len(q) : Held(q, d)[i] = d[q[i]]
  BY DEF Held
<1> QED BY <1>2, <1>3, <1>4

\* The queued buffers hold the same.
Untouched(q, d, e) == \A i \in 1..Len(q) : e[q[i]] = d[q[i]]

\* One more buffer is queued.
OneMoreHeld(q, b, d, e) == Held(Append(q, b), e) = Append(Held(q, d), e[b])

\* A buffer joins the queue.
LEMMA HeldAppend ==
  ASSUME NEW B, NEW q \in Seq(B), NEW d \in [B -> Nat], NEW e \in [B -> Nat], NEW b \in B,
         Untouched(q, d, e)
  PROVE  OneMoreHeld(q, b, d, e)
<1> DEFINE r == Append(q, b)
           g == Held(q, d)
           n == Len(q)
<1>1. n \in Nat /\ r \in Seq(B) /\ Len(r) = n + 1 /\ r[n + 1] = b /\ \A i \in 1..n : r[i] = q[i]
  BY AppendProperties
<1>2. g \in Seq(Nat) /\ Len(g) = n /\ \A i \in 1..n : g[i] = d[q[i]]
  BY HeldType
<1>0. \A i \in 1..n : e[q[i]] = d[q[i]]
  BY DEF Untouched
<1> HIDE DEF r, g, n
<1>3. /\ Held(r, e) \in Seq(Nat) /\ Len(Held(r, e)) = n + 1
      /\ \A i \in 1..(n + 1) : Held(r, e)[i] = e[r[i]]
  <2>1. r \in Seq(B) /\ Len(r) = n + 1
    BY <1>1
  <2>2. /\ Held(r, e) \in Seq(Nat) /\ Len(Held(r, e)) = Len(r)
        /\ \A i \in 1..Len(r) : Held(r, e)[i] = e[r[i]]
    BY <2>1, HeldType
  <2> QED BY <2>1, <2>2
<1>4. e[b] \in Nat
  OBVIOUS
<1>5. /\ Append(g, e[b]) \in Seq(Nat) /\ Len(Append(g, e[b])) = n + 1
      /\ Append(g, e[b])[n + 1] = e[b] /\ \A i \in 1..n : Append(g, e[b])[i] = g[i]
  BY <1>2, <1>4, AppendProperties
<1>6. ASSUME NEW i \in 1..(n + 1) PROVE Held(r, e)[i] = Append(g, e[b])[i]
  <2>1. CASE i \in 1..n
    <3>1. i \in 1..(n + 1) /\ Held(r, e)[i] = e[r[i]]
      BY <1>3
    <3>2. r[i] = q[i] /\ e[q[i]] = d[q[i]]
      BY <1>1, <1>0, <2>1
    <3>3. Append(g, e[b])[i] = g[i] /\ g[i] = d[q[i]]
      BY <1>2, <1>5, <2>1
    <3> QED BY <3>1, <3>2, <3>3
  <2>2. CASE i = n + 1
    BY <1>1, <1>3, <1>5, <2>2
  <2>3. i \in 1..n \/ i = n + 1
    BY <1>1
  <2> QED BY <2>1, <2>2, <2>3
<1>7. Held(r, e) = Append(g, e[b])
  <2> DEFINE x == Held(r, e)
             y == Append(g, e[b])
  <2>1. x \in Seq(Nat) /\ y \in Seq(Nat) /\ Len(x) = Len(y) /\ \A i \in 1..Len(x) : x[i] = y[i]
    BY <1>3, <1>5, <1>6
  <2> HIDE DEF x, y
  <2>2. x = y
    BY <2>1, SeqEqual
  <2> QED BY <2>2 DEF x, y
<1> QED BY <1>7 DEF r, g, OneMoreHeld

\* The first buffers leave the queue.
LEMMA HeldSplit ==
  ASSUME NEW B, NEW q \in Seq(B), NEW d \in [B -> Nat], NEW n \in 0..Len(q)
  PROVE  /\ [i \in 1..n |-> d[q[i]]] = SubSeq(Held(q, d), 1, n)
         /\ Held(SubSeq(q, n + 1, Len(q)), d) = SubSeq(Held(q, d), n + 1, Len(q))
<1> DEFINE g == Held(q, d)
           k == Len(q)
           r == SubSeq(q, n + 1, k)
           f == [i \in 1..n |-> d[q[i]]]
<1>1. n \in Nat /\ k \in Nat /\ n <= k /\ k - n \in Nat
      /\ n + 1 \in 1..(k + 1) /\ k \in n..k
  OBVIOUS
<1>2. g \in Seq(Nat) /\ Len(g) = k /\ \A i \in 1..k : g[i] = d[q[i]]
  BY HeldType
<1>3. r \in Seq(B) /\ Len(r) = k - n /\ \A i \in 1..(k - n) : r[i] = q[i + n]
  BY <1>1, SubSeqProperties
<1>5. f \in Seq(Nat) /\ Len(f) = n /\ \A i \in 1..n : f[i] = g[i]
  <2>1. \A i \in 1..n : i \in 1..k
    BY <1>1
  <2>2. f \in [1..n -> Nat]
    BY <2>1
  <2> QED BY <1>1, <1>2, <2>1, <2>2
<1> HIDE DEF g, k, r, f
<1>4. /\ Held(r, d) \in Seq(Nat) /\ Len(Held(r, d)) = k - n
      /\ \A i \in 1..(k - n) : Held(r, d)[i] = d[r[i]]
  BY <1>3, HeldType
<1> DEFINE x == SubSeq(g, 1, n)
           y == SubSeq(g, n + 1, k)
           z == Held(r, d)
<1>6. x \in Seq(Nat) /\ Len(x) = n /\ \A i \in 1..n : x[i] = g[i]
  BY <1>1, <1>2, PrefixOrder
<1>7. y \in Seq(Nat) /\ Len(y) = k - n /\ \A i \in 1..(k - n) : y[i] = g[i + n]
  BY <1>1, <1>2, SubSeqProperties
<1>8. \A i \in 1..(k - n) : i + n \in 1..k
  BY <1>1
<1> HIDE DEF x, y, z
<1>9. \A i \in 1..Len(f) : f[i] = x[i]
  BY <1>5, <1>6
<1>10. f = x
  BY <1>5, <1>6, <1>9, SeqEqual
<1>11. z \in Seq(Nat) /\ Len(z) = Len(y) /\ \A i \in 1..Len(z) : z[i] = y[i]
  <2>1. \A i \in 1..(k - n) : z[i] = d[r[i]] /\ r[i] = q[i + n]
    BY <1>3, <1>4 DEF z
  <2>2. \A i \in 1..(k - n) : y[i] = d[q[i + n]]
    BY <1>2, <1>7, <1>8
  <2>3. /\ z \in Seq(Nat) /\ Len(z) = k - n
        /\ \A i \in 1..(k - n) : z[i] = d[r[i]]
    BY <1>4 DEF z
  <2>4. \A i \in 1..(k - n) : z[i] = y[i]
    BY <2>1, <2>2
  <2> QED BY <1>7, <2>3, <2>4
<1>12. z = y
  BY <1>7, <1>11, SeqEqual
<1> QED BY <1>10, <1>12 DEF f, g, k, r, x, y, z

\* A frame with the next serial number joins the queue.
LEMMA QueuedInOrder ==
  ASSUME NEW h \in Seq(Nat), NEW g \in Seq(Nat), NEW m \in Nat, Ordered(h, g, m)
  PROVE  Ordered(h, Append(g, m + 1), m + 1)
<1> DEFINE t == Append(g, m + 1)
<1>1. Range(t) = Range(g) \cup {m + 1}
  BY AppendRange
<1>2. \A a, b : Precedes(t, a, b) => Precedes(g, a, b) \/ (b = m + 1 /\ a \in Range(g))
  <2>1. m + 1 \in Nat
    OBVIOUS
  <2> QED BY <2>1, PrecedesAppend
<1> HIDE DEF t
<1>3. \A a \in Range(h) \cup Range(g) : a < m + 1 /\ a <= m + 1
  <2>1. Range(h) \cup Range(g) \subseteq Nat
    BY RangeSeq
  <2> QED BY <2>1 DEF Ordered
<1>4. Climbs(t)
  BY <1>2, <1>3 DEF Ordered, Climbs
<1>5. Below(h, t)
  BY <1>1, <1>3 DEF Ordered, Below
<1>6. \A a \in Range(h) \cup Range(t) : a <= m + 1
  BY <1>1, <1>3
<1> QED BY <1>4, <1>5, <1>6 DEF Ordered, t

\* Serial numbers are used up without a frame joining the queue.
LEMMA SkippedInOrder ==
  ASSUME NEW h \in Seq(Nat), NEW g \in Seq(Nat), NEW m \in Nat, Ordered(h, g, m)
  PROVE  Ordered(h, g, m + 1)
<1>1. Range(h) \cup Range(g) \subseteq Nat
  BY RangeSeq
<1>2. \A a \in Range(h) \cup Range(g) : a <= m + 1
  BY <1>1 DEF Ordered
<1> QED BY <1>2 DEF Ordered

\* The first frames of the queue are read.
LEMMA ReadInOrder ==
  ASSUME NEW h \in Seq(Nat), NEW g \in Seq(Nat), NEW m \in Nat, Ordered(h, g, m),
         NEW n \in 0..Len(g)
  PROVE  /\ h \o SubSeq(g, 1, n) \in Seq(Nat)
         /\ Ordered(h \o SubSeq(g, 1, n), SubSeq(g, n + 1, Len(g)), m)
<1> DEFINE f == SubSeq(g, 1, n)
           r == SubSeq(g, n + 1, Len(g))
           t == h \o f
<1>1. /\ f \in Seq(Nat) /\ Len(f) = n /\ Range(f) \subseteq Range(g)
      /\ \A i \in 1..n : f[i] = g[i]
      /\ \A a, b : Precedes(f, a, b) => Precedes(g, a, b)
  BY PrefixOrder
<1>2. /\ r \in Seq(Nat) /\ Range(r) \subseteq Range(g)
      /\ \A a, b : Precedes(r, a, b) => Precedes(g, a, b)
      /\ \A i \in 1..n, b \in Range(r) : Precedes(g, g[i], b)
  BY SuffixOrder
<1> HIDE DEF f, r
<1>3. /\ t \in Seq(Nat) /\ Range(t) = Range(h) \cup Range(f)
      /\ \A a, b : Precedes(t, a, b) => \/ Precedes(h, a, b) \/ Precedes(f, a, b)
                                        \/ a \in Range(h) /\ b \in Range(f)
  BY <1>1, ConcatOrder
<1> HIDE DEF t
<1>4. Climbs(t)
  BY <1>1, <1>3 DEF Ordered, Climbs, Below
<1>5. Climbs(r)
  BY <1>2 DEF Ordered, Climbs
<1>6. Below(t, r)
  <2>1. \A a \in Range(h), b \in Range(r) : a < b
    BY <1>2 DEF Ordered, Below
  <2>2. Range(f) = {f[i] : i \in 1..n}
    <3>1. Range(f) = {f[i] : i \in 1..Len(f)}
      <4>1. \A s \in Seq(Nat) : Range(s) = {s[i] : i \in 1..Len(s)}
        BY RangeSeq
      <4> QED BY <1>1, <4>1
    <3> QED BY <1>1, <3>1
  <2>3. \A a \in Range(f), b \in Range(r) : a < b
    BY <1>1, <1>2, <2>2 DEF Ordered, Climbs
  <2> QED BY <1>3, <2>1, <2>3 DEF Below
<1>7. \A a \in Range(t) \cup Range(r) : a <= m
  BY <1>1, <1>2, <1>3 DEF Ordered
<1> QED BY <1>3, <1>4, <1>5, <1>6, <1>7 DEF Ordered, t, f, r

\* In order, index by index.
LEMMA OrderedSeen ==
  ASSUME NEW h \in Seq(Nat), NEW g \in Seq(Nat), NEW m, Ordered(h, g, m)
  PROVE  \A i, j \in 1..Len(h \o g) : i < j => (h \o g)[i] < (h \o g)[j]
<1> SUFFICES ASSUME NEW i \in 1..Len(h \o g), NEW j \in 1..Len(h \o g), i < j
             PROVE  (h \o g)[i] < (h \o g)[j]
  OBVIOUS
<1> DEFINE a == (h \o g)[i]
           b == (h \o g)[j]
<1>1. Precedes(h \o g, a, b)
  BY DEF Precedes
<1> HIDE DEF a, b
<1>2. Precedes(h, a, b) \/ Precedes(g, a, b) \/ (a \in Range(h) /\ b \in Range(g))
  BY <1>1, ConcatOrder
<1>3. a < b
  BY <1>2 DEF Ordered, Climbs, Below
<1> QED BY <1>3 DEF a, b

RxOrder == toStack \in Seq(Nat) /\ Ordered(toStack, Held(rx_pending, rxData), frames)
TxOrder == toWire \in Seq(Nat) /\ Ordered(toWire, Held(txDriver, txData), sends)

LEMMA InitOrder == BufferInit => RxOrder /\ TxOrder
<1> SUFFICES ASSUME BufferInit PROVE RxOrder /\ TxOrder
  OBVIOUS
<1>1. \A d, m : Ordered(<<>>, Held(<<>>, d), m)
  <2> TAKE d, m
  <2>1. Held(<<>>, d) = <<>>
    BY DEF Held
  <2>2. Ordered(<<>>, <<>>, m)
    BY EmptyFact DEF Ordered, Climbs, Below, Precedes
  <2> QED BY <2>1, <2>2
<1> QED BY <1>1 DEF BufferInit, RxOrder, TxOrder

\* A frame that arrives is written to buffers the driver had: none is pending.
LEMMA RxOrderStep ==
  ASSUME Inv, RxOrder, [BufferNext]_bufferVars, RxInv'
  PROVE  RxOrder'
<1> DEFINE held == Held(rx_pending, rxData)
<1>1. /\ rx_pending \in Seq(RxBufs) /\ rxData \in [RxBufs -> Nat] /\ frames \in Nat
      /\ toStack \in Seq(Nat) /\ Ordered(toStack, held, frames)
      /\ held \in Seq(Nat) /\ Len(held) = Len(rx_pending)
  BY HeldType DEF Inv, BufferTypeOK, RxOrder
<1>2. ASSUME NEW cookies \in Cookies, eth_rx_complete(cookies)
      PROVE  RxOrder'
  <2>1. /\ cookies \in Seq(rxDriver) /\ Len(cookies) >= 1 /\ Len(cookies) \in Nat
    <3> PICK k \in {1, 2} : cookies \in [1..k -> rxDriver] /\ IsInjective(cookies)
      BY DEF Cookies
    <3> QED OBVIOUS
  <2>2. Range(cookies) \subseteq rxDriver /\ cookies[1] \in Range(cookies)
    BY <2>1, RangeSeq
  <2>3. up /\ cookies[1] \in RxBufs
    BY <2>2 DEF Inv, NothingBeforeSetup, BufferTypeOK
  <2>4. \A i \in 1..Len(rx_pending) : rx_pending[i] \in RxBufs /\ rx_pending[i] \notin Range(cookies)
    <3>1. \A i \in 1..Len(rx_pending) : rx_pending[i] \in Range(rx_pending)
      BY <1>1, RangeSeq
    <3>2. Range(rx_pending) \cap rxDriver = {}
      BY <2>3 DEF Inv, RxBuffersConserved
    <3> QED BY <1>1, <2>2, <3>1, <3>2
  <2>5. /\ frames' = frames + 1 /\ toStack' = toStack
        /\ rxData' = [b \in RxBufs |-> IF b \in Range(cookies) THEN frames + 1 ELSE rxData[b]]
    BY <1>2 DEF eth_rx_complete
  <2>6. /\ rxData' \in [RxBufs -> Nat]
        /\ rxData'[cookies[1]] = frames + 1
        /\ \A i \in 1..Len(rx_pending) : rxData'[rx_pending[i]] = rxData[rx_pending[i]]
    BY <1>1, <2>2, <2>3, <2>4, <2>5
  <2>7. CASE rx_pending' = Append(rx_pending, cookies[1])
    <3>1. Held(Append(rx_pending, cookies[1]), rxData') = Append(held, frames + 1)
      <4> DEFINE b == cookies[1]
                 d == rxData
                 e == rxData'
                 q == rx_pending
      <4>1. /\ q \in Seq(RxBufs) /\ d \in [RxBufs -> Nat] /\ e \in [RxBufs -> Nat] /\ b \in RxBufs
            /\ Untouched(q, d, e)
        BY <1>1, <2>3, <2>6 DEF Untouched
      <4> HIDE DEF b, d, e, q
      <4>2. OneMoreHeld(q, b, d, e)
        BY <4>1, HeldAppend
      <4> QED BY <2>6, <4>2 DEF b, d, e, q, OneMoreHeld
    <3>2. Ordered(toStack, Append(held, frames + 1), frames + 1)
      BY <1>1, QueuedInOrder
    <3> QED BY <1>1, <2>5, <2>7, <3>1, <3>2 DEF RxOrder
  <2>8. CASE rx_pending' = rx_pending
    <3>1. Held(rx_pending, rxData') = held
      BY <2>6 DEF Held
    <3>2. Ordered(toStack, held, frames + 1)
      BY <1>1, SkippedInOrder
    <3> QED BY <1>1, <2>5, <2>8, <3>1, <3>2 DEF RxOrder
  <2> QED BY <1>2, <2>7, <2>8 DEF eth_rx_complete
<1>3. ASSUME NEW n \in PollCounts, pico_eth_poll(n)
      PROVE  RxOrder'
  <2>1. n \in 0..Len(rx_pending) /\ n \in 0..Len(held)
    BY <1>1 DEF PollCounts
  <2>2. /\ [i \in 1..n |-> rxData[rx_pending[i]]] = SubSeq(held, 1, n)
        /\ Held(SubSeq(rx_pending, n + 1, Len(rx_pending)), rxData)
             = SubSeq(held, n + 1, Len(held))
    <3> DEFINE k == Len(rx_pending)
    <3>1. rx_pending \in Seq(RxBufs) /\ rxData \in [RxBufs -> Nat] /\ n \in 0..k
      BY <1>1, <2>1
    <3>2. /\ [i \in 1..n |-> rxData[rx_pending[i]]] = SubSeq(held, 1, n)
          /\ Held(SubSeq(rx_pending, n + 1, k), rxData) = SubSeq(held, n + 1, k)
      BY <3>1, HeldSplit, Zenon
    <3> QED BY <1>1, <3>2
  <2>3. /\ toStack \o SubSeq(held, 1, n) \in Seq(Nat)
        /\ Ordered(toStack \o SubSeq(held, 1, n), SubSeq(held, n + 1, Len(held)), frames)
    BY <1>1, <2>1, ReadInOrder
  <2> QED BY <1>3, <2>2, <2>3 DEF RxOrder, pico_eth_poll, StillPending
<1>4. CASE UNCHANGED <<rx_pending, rxData, frames, toStack>>
  BY <1>4 DEF RxOrder
<1>5. \/ UNCHANGED <<rx_pending, rxData, frames, toStack>>
      \/ \E cookies \in Cookies : eth_rx_complete(cookies)
      \/ \E n \in PollCounts : pico_eth_poll(n)
  BY DEF BufferNext, setup_eth0, eth_allocate_rx_buf, pico_eth_send, pico_eth_send_fails,
         eth_tx_complete, bufferVars, rxVars
<1> QED BY <1>2, <1>3, <1>4, <1>5

\* A frame to send is written to a buffer of the pool: none is with the driver.
LEMMA TxOrderStep ==
  ASSUME Inv, TxOrder, [BufferNext]_bufferVars
  PROVE  TxOrder'
<1> DEFINE held == Held(txDriver, txData)
           b == Top(tx_buf_pool)
           q == txDriver
<1>1. /\ q \in Seq(TxBufs) /\ txData \in [TxBufs -> Nat] /\ sends \in Nat
      /\ toWire \in Seq(Nat) /\ Ordered(toWire, held, sends)
      /\ held \in Seq(Nat) /\ Len(held) = Len(q)
  BY HeldType DEF Inv, BufferTypeOK, TxOrder
<1>2. ASSUME up, tx_buf_pool # <<>>, sends' = sends + 1,
             txData' = [txData EXCEPT ![b] = sends + 1]
      PROVE  /\ b \in TxBufs /\ txData' \in [TxBufs -> Nat] /\ txData'[b] = sends + 1
             /\ \A i \in 1..Len(q) : txData'[q[i]] = txData[q[i]]
  <2>1. b \in TxBufs /\ b \in Range(tx_buf_pool)
    BY <1>2, PopDistinct DEF Inv, BufferTypeOK, TxBuffersConserved
  <2>2. \A i \in 1..Len(q) : q[i] \in Range(q) /\ q[i] \in TxBufs
    BY <1>1, RangeSeq
  <2>3. b \notin Range(q)
    BY <1>2, <2>1 DEF Inv, TxBuffersConserved
  <2> HIDE DEF b, q
  <2> QED BY <1>1, <1>2, <2>1, <2>2, <2>3
<1>3. CASE pico_eth_send
  <2>1. /\ up /\ tx_buf_pool # <<>> /\ sends' = sends + 1 /\ toWire' = toWire
        /\ txData' = [txData EXCEPT ![b] = sends + 1] /\ txDriver' = Append(q, b)
    BY <1>3 DEF pico_eth_send
  <2>2. Held(Append(q, b), txData') = Append(held, sends + 1)
    <3> DEFINE d == txData
               e == txData'
    <3>1. /\ q \in Seq(TxBufs) /\ d \in [TxBufs -> Nat] /\ e \in [TxBufs -> Nat] /\ b \in TxBufs
          /\ Untouched(q, d, e)
      BY <1>1, <1>2, <2>1 DEF Untouched
    <3> HIDE DEF b, d, e, q
    <3>2. OneMoreHeld(q, b, d, e)
      BY <3>1, HeldAppend
    <3>3. e[b] = sends + 1
      BY <1>2, <2>1 DEF e
    <3> QED BY <3>2, <3>3 DEF d, e, q, OneMoreHeld
  <2>3. Ordered(toWire, Append(held, sends + 1), sends + 1)
    BY <1>1, QueuedInOrder
  <2> QED BY <1>1, <2>1, <2>2, <2>3 DEF TxOrder
<1>4. CASE pico_eth_send_fails
  <2>1. /\ up /\ tx_buf_pool # <<>> /\ sends' = sends + 1 /\ toWire' = toWire
        /\ txData' = [txData EXCEPT ![b] = sends + 1] /\ txDriver' = q
    BY <1>4 DEF pico_eth_send_fails
  <2>2. Held(q, txData') = held
    BY <1>2, <2>1 DEF Held
  <2>3. Ordered(toWire, held, sends + 1)
    BY <1>1, SkippedInOrder
  <2> QED BY <1>1, <2>1, <2>2, <2>3 DEF TxOrder
<1>5. CASE eth_tx_complete
  <2> DEFINE n == 1
  <2>1. /\ q # <<>> /\ toWire' = Append(toWire, txData[Head(q)]) /\ txDriver' = Tail(q)
        /\ sends' = sends /\ txData' = txData
    BY <1>5 DEF eth_tx_complete
  <2>2. /\ n \in 0..Len(q) /\ n \in 0..Len(held) /\ Head(q) = q[1]
        /\ Tail(q) = SubSeq(q, n + 1, Len(q)) /\ txData[q[1]] \in Nat
    <3>1. Len(q) \in Nat /\ Len(q) >= 1 /\ Head(q) = q[1] /\ q[1] \in TxBufs
      BY <1>1, <2>1, EmptySeq
    <3>2. Tail(q) = SubSeq(q, 1 + 1, Len(q))
      BY <1>1, <2>1, TailIsSubSeq
    <3> QED BY <1>1, <3>1, <3>2
  <2>3. Append(toWire, txData[Head(q)]) = toWire \o [i \in 1..n |-> txData[q[i]]]
    <3> DEFINE s == Append(toWire, txData[q[1]])
               g == [i \in 1..n |-> txData[q[i]]]
               t == toWire \o g
               k == Len(toWire)
    <3>1. g \in Seq(Nat) /\ Len(g) = 1 /\ g[1] = txData[q[1]]
      BY <2>2
    <3> HIDE DEF g
    <3>2. /\ s \in Seq(Nat) /\ Len(s) = k + 1 /\ k \in Nat
          /\ s[k + 1] = g[1] /\ \A i \in 1..k : s[i] = toWire[i]
      BY <1>1, <2>2, <3>1, AppendProperties
    <3>3. /\ t \in Seq(Nat) /\ Len(t) = k + 1
          /\ \A i \in 1..(k + 1) : t[i] = IF i <= k THEN toWire[i] ELSE g[i - k]
      <4>1. /\ t \in Seq(Nat) /\ Len(t) = k + Len(g)
            /\ \A i \in 1..(k + Len(g)) : t[i] = IF i <= k THEN toWire[i] ELSE g[i - k]
        BY <1>1, <3>1, ConcatProperties
      <4> QED BY <3>1, <4>1
    <3> HIDE DEF s, t, k
    <3>4. \A i \in 1..(k + 1) : i \in 1..k \/ (i = k + 1 /\ i - k = 1 /\ ~(i <= k))
      BY <3>2
    <3>5. \A i \in 1..k : i \in 1..(k + 1) /\ i <= k
      BY <3>2
    <3>6. \A i \in 1..Len(s) : s[i] = t[i]
      BY <3>2, <3>3, <3>4, <3>5
    <3>7. s = t
      BY <3>2, <3>3, <3>6, SeqEqual
    <3> QED BY <2>2, <3>7 DEF s, t, g
  <2> HIDE DEF n
  <2>4. /\ [i \in 1..n |-> txData[q[i]]] = SubSeq(held, 1, n)
        /\ Held(SubSeq(q, n + 1, Len(q)), txData) = SubSeq(held, n + 1, Len(held))
    <3> DEFINE k == Len(q)
    <3>1. q \in Seq(TxBufs) /\ txData \in [TxBufs -> Nat] /\ n \in 0..k
      BY <1>1, <2>2
    <3>2. /\ [i \in 1..n |-> txData[q[i]]] = SubSeq(held, 1, n)
          /\ Held(SubSeq(q, n + 1, k), txData) = SubSeq(held, n + 1, k)
      BY <3>1, HeldSplit, Zenon
    <3> QED BY <1>1, <3>2
  <2>5. /\ toWire \o SubSeq(held, 1, n) \in Seq(Nat)
        /\ Ordered(toWire \o SubSeq(held, 1, n), SubSeq(held, n + 1, Len(held)), sends)
    BY <1>1, <2>2, ReadInOrder
  <2> QED BY <2>1, <2>2, <2>3, <2>4, <2>5 DEF TxOrder
<1>6. CASE UNCHANGED <<txDriver, txData, sends, toWire>>
  BY <1>6 DEF TxOrder
<1>7. \/ UNCHANGED <<txDriver, txData, sends, toWire>>
      \/ pico_eth_send \/ pico_eth_send_fails \/ eth_tx_complete
  BY DEF BufferNext, setup_eth0, eth_allocate_rx_buf, eth_rx_complete, pico_eth_poll, bufferVars, txVars
<1> QED BY <1>3, <1>4, <1>5, <1>6, <1>7

\* Neither direction loses the order or spoils a frame: a buffer changes hands
\* in eth_rx_complete, pico_eth_poll, pico_eth_send and eth_tx_complete before
\* it can be written to again.
THEOREM FramesKeepOrder == BufferSpec => []FramesInOrder
<1> DEFINE OrderInv == Inv /\ RxOrder /\ TxOrder
<1>1. BufferInit => OrderInv
  BY InitInv, InitOrder
<1>2. OrderInv /\ [BufferNext]_bufferVars => OrderInv'
  <2> SUFFICES ASSUME OrderInv, [BufferNext]_bufferVars PROVE OrderInv'
    OBVIOUS
  <2>1. Inv'
    BY InvStep
  <2>2. RxInv'
    BY <2>1 DEF Inv, RxInv, BufferTypeOK, NothingBeforeSetup, RxBuffersConserved
  <2> QED BY <2>1, <2>2, RxOrderStep, TxOrderStep
<1>3. OrderInv => FramesInOrder
  <2> SUFFICES ASSUME OrderInv PROVE FramesInOrder
    OBVIOUS
  <2> DEFINE rx == Held(rx_pending, rxData)
             tx == Held(txDriver, txData)
  <2>1. /\ rx \in Seq(Nat) /\ toStack \in Seq(Nat) /\ Ordered(toStack, rx, frames)
        /\ tx \in Seq(Nat) /\ toWire \in Seq(Nat) /\ Ordered(toWire, tx, sends)
    BY HeldType DEF Inv, BufferTypeOK, RxOrder, TxOrder
  <2> HIDE DEF rx, tx
  <2>2. \A i, j \in 1..Len(toStack \o rx) : i < j => (toStack \o rx)[i] < (toStack \o rx)[j]
    BY <2>1, OrderedSeen
  <2>3. \A i, j \in 1..Len(toWire \o tx) : i < j => (toWire \o tx)[i] < (toWire \o tx)[j]
    BY <2>1, OrderedSeen
  <2> QED BY <2>2, <2>3 DEF FramesInOrder, StackSeesFramesInOrder, WireSeesFramesInOrder,
                            rx, tx, Held
<1> HIDE DEF OrderInv
<1> QED BY <1>1, <1>2, <1>3, PTL DEF BufferSpec
=============================================================================
