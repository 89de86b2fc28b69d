------------------------ MODULE EthDriverUboot_proofs ------------------------
(* Proofs about the U-Boot ethernet driver, for every number of clients, any *)
(* size of their rings, any configuration and any frames.                    *)
EXTENDS EthDriverUboot, SequenceFacts

\* The read loop takes a beginning of what the device holds.
LEMMA ReadCountFact ==
  ASSUME NEW S, device \in Seq(S)
  PROVE  ReadCount \in 0..Len(device)
<1>1. LongAt \subseteq 1..Len(device) /\ Len(device) \in Nat
  BY DEF LongAt
<1>2. CASE LongAt = {}
  BY <1>1, <1>2 DEF ReadCount
<1>3. CASE LongAt # {}
  <2>1. LongAt \subseteq Nat
    BY <1>1
  <2>2. \E m \in LongAt : \A k \in LongAt : m <= k
    BY <1>3, <2>1, LeastNat
  <2>3. ReadCount \in LongAt
    BY <1>3, <2>2 DEF ReadCount
  <2> QED BY <1>1, <2>3
<1> QED BY <1>2, <1>3

RingStates == [Clients -> Seq(Frames)]

LEMMA DispatchType ==
  ASSUME NEW r \in RingStates, NEW f \in Frames
  PROVE  /\ Dispatch(r, f) \in RingStates
         /\ \A c \in Clients : Dispatch(r, f)[c] = IF c \in Targets(f.kind) THEN Offer(r[c], f)
                                                                            ELSE r[c]
<1>1. ASSUME NEW c \in Clients PROVE r[c] \in Seq(Frames) /\ Offer(r[c], f) \in Seq(Frames)
  BY AppendRange DEF Offer, RingStates
<1> QED BY <1>1 DEF Dispatch, RingStates

\* The loop of client_rx, as a function of how many frames have been read.
ReadStep(rings, i) == IF TooLong(device[i]) THEN rings ELSE Dispatch(rings, device[i])

LEMMA ReadLoop ==
  ASSUME pending_rx \in RingStates, device \in Seq(Frames)
  PROVE  \E rings \in [0..ReadCount -> RingStates] :
           /\ rings[0] = pending_rx
           /\ \A i \in 1..ReadCount : rings[i] = ReadStep(rings[i - 1], i)
           /\ RingsAfterRead = rings[ReadCount]
<1> DEFINE n == ReadCount
           Start(g) == g[0] = pending_rx
           Steps(g, m) == \A i \in 1..m : g[i] = ReadStep(g[i - 1], i)
           T == {m \in Nat : m <= n => \E g \in [0..m -> RingStates] : Start(g) /\ Steps(g, m)}
<1>1. n \in 0..Len(device) /\ n \in Nat /\ Len(device) \in Nat
  BY ReadCountFact
<1> HIDE DEF n
<1>2. 0 \in T
  <2> DEFINE g == [i \in 0..0 |-> pending_rx]
  <2>1. g \in [0..0 -> RingStates] /\ Start(g) /\ Steps(g, 0)
    OBVIOUS
  <2> HIDE DEF g
  <2> QED BY <2>1
<1>3. ASSUME NEW m \in Nat, m \in T PROVE m + 1 \in T
  <2> SUFFICES ASSUME m + 1 <= n
               PROVE  \E g \in [0..(m + 1) -> RingStates] : Start(g) /\ Steps(g, m + 1)
    OBVIOUS
  <2>1. PICK g \in [0..m -> RingStates] : Start(g) /\ Steps(g, m)
    BY <1>1, <1>3
  <2> DEFINE h == [i \in 0..(m + 1) |-> IF i = m + 1 THEN ReadStep(g[m], m + 1) ELSE g[i]]
  <2>2. ReadStep(g[m], m + 1) \in RingStates
    <3>1. device[m + 1] \in Frames /\ g[m] \in RingStates
      BY <1>1
    <3> QED BY <3>1, DispatchType DEF ReadStep
  <2>3. h \in [0..(m + 1) -> RingStates]
    BY <2>2
  <2>4. h[0] = g[0] /\ h[m + 1] = ReadStep(g[m], m + 1) /\ \A i \in 0..m : h[i] = g[i]
    OBVIOUS
  <2> HIDE DEF h
  <2>5. Start(h)
    BY <2>1, <2>4
  <2>6. ASSUME NEW i \in 1..(m + 1) PROVE h[i] = ReadStep(h[i - 1], i)
    <3>1. i - 1 \in 0..m
      OBVIOUS
    <3>2. CASE i = m + 1
      BY <2>4, <3>1, <3>2
    <3>3. CASE i # m + 1
      <4>1. i \in 1..m /\ i \in 0..m
        BY <3>3
      <4> QED BY <2>1, <2>4, <3>1, <4>1
    <3> QED BY <3>2, <3>3
  <2> QED BY <2>3, <2>5, <2>6
<1>4. n \in T
  <2> HIDE DEF T
  <2> QED BY <1>1, <1>2, <1>3, SetInduction
<1>5. PICK g \in [0..n -> RingStates] : Start(g) /\ Steps(g, n)
  BY <1>1, <1>4
<1>6. g = [i \in 0..n |-> IF i = 0 THEN pending_rx
                          ELSE IF TooLong(device[i]) THEN g[i - 1]
                          ELSE Dispatch(g[i - 1], device[i])]
  BY <1>1, <1>5 DEF ReadStep
<1> DEFINE rings[i \in 0..n] == IF i = 0 THEN pending_rx
                                ELSE IF TooLong(device[i]) THEN rings[i - 1]
                                ELSE Dispatch(rings[i - 1], device[i])
<1>7. RingsAfterRead = rings[n]
  BY DEF RingsAfterRead, n
<1>8. rings = [i \in 0..n |-> IF i = 0 THEN pending_rx
                              ELSE IF TooLong(device[i]) THEN rings[i - 1]
                              ELSE Dispatch(rings[i - 1], device[i])]
  BY <1>6, Zenon
<1> HIDE DEF rings
<1>9. rings[0] = pending_rx /\ \A i \in 1..n : rings[i] = ReadStep(rings[i - 1], i)
  BY <1>1, <1>8 DEF ReadStep
<1>10. \A m \in Nat : m <= n => rings[m] \in RingStates
  <2> DEFINE U == {m \in Nat : m <= n => rings[m] \in RingStates}
  <2>1. 0 \in U
    BY <1>9
  <2>2. ASSUME NEW m \in Nat, m \in U PROVE m + 1 \in U
    <3> SUFFICES ASSUME m + 1 <= n PROVE rings[m + 1] \in RingStates
      OBVIOUS
    <3>1. rings[m] \in RingStates /\ device[m + 1] \in Frames /\ m + 1 \in 1..n /\ (m + 1) - 1 = m
      BY <1>1, <2>2
    <3>2. rings[m + 1] = ReadStep(rings[m], m + 1)
      BY <1>9, <3>1
    <3> QED BY <3>1, <3>2, DispatchType DEF ReadStep
  <2>3. Nat \subseteq U
    <3> HIDE DEF U
    <3> QED BY <2>1, <2>2, SetInduction
  <2> QED BY <2>3
<1>11. rings \in [0..n -> RingStates]
  BY <1>1, <1>8, <1>10
<1> QED BY <1>7, <1>9, <1>11 DEF n

\* Frames in the order the device received them.
Rising(s) == \A a, b : Precedes(s, a, b) => a.id < b.id
Before(s, t) == \A a \in Range(s), b \in Range(t) : a.id < b.id

\* What the loop does to one client's ring, for any number of frames read: it only
\* grows, by frames the device held, in their order, and never past its size; and
\* a frame that it had room for is in it.
RingAfter(c, r, i) ==
  /\ Len(r) < CLIENT_RX_BUFS /\ Len(r) <= Len(pending_rx[c]) + i
  /\ Rising(r)
  /\ \A a \in Range(r) : a \in Range(pending_rx[c]) \/ \E j \in 1..i : a = device[j]
  /\ \A j \in 1..i :
       /\ ~TooLong(device[j]) /\ c \in Targets(device[j].kind)
       /\ Len(pending_rx[c]) + j < CLIENT_RX_BUFS
       => device[j] \in Range(r)

LEMMA RoomLeft ==
  ASSUME NEW x \in Nat, NEW y \in Nat, NEW k \in Nat, NEW m \in Nat, x <= y + m
  PROVE  /\ x <= y + (m + 1) /\ x + 1 <= y + (m + 1)
         /\ x < k - 1 => x + 1 < k
         /\ y + (m + 1) < k => x < k - 1
OBVIOUS

LEMMA RingRead ==
  ASSUME pending_rx \in RingStates, device \in Seq(Frames), NEW c \in Clients,
         Len(pending_rx[c]) < CLIENT_RX_BUFS, Rising(pending_rx[c]), Rising(device),
         Before(pending_rx[c], device)
  PROVE  /\ RingsAfterRead \in RingStates
         /\ RingAfter(c, RingsAfterRead[c], ReadCount)
<1> DEFINE n == ReadCount
<1>1. n \in 0..Len(device) /\ n \in Nat /\ Len(device) \in Nat /\ n <= Len(device)
  BY ReadCountFact
<1> HIDE DEF n
<1>2. PICK rings \in [0..n -> RingStates] :
        /\ rings[0] = pending_rx
        /\ \A i \in 1..n : rings[i] = ReadStep(rings[i - 1], i)
        /\ RingsAfterRead = rings[n]
  BY ReadLoop DEF n
<1> DEFINE T == {m \in Nat : m <= n => RingAfter(c, rings[m][c], m)}
<1>3. 0 \in T
  <2>1. /\ rings[0][c] = pending_rx[c] /\ pending_rx[c] \in Seq(Frames)
        /\ Len(pending_rx[c]) \in Nat
    BY <1>2 DEF RingStates
  <2> QED BY <2>1 DEF RingAfter
<1>4. ASSUME NEW m \in Nat, m \in T PROVE m + 1 \in T
  <2> SUFFICES ASSUME m + 1 <= n PROVE RingAfter(c, rings[m + 1][c], m + 1)
    OBVIOUS
  <2> DEFINE f == device[m + 1]
             r == rings[m][c]
             q == rings[m + 1][c]
  <2>1. /\ m + 1 \in 1..n /\ (m + 1) - 1 = m /\ m \in 0..n /\ m + 1 \in 1..Len(device)
        /\ m <= n
    BY <1>1
  <2>2. f \in Frames /\ rings[m] \in RingStates /\ r \in Seq(Frames)
    BY <1>2, <2>1 DEF RingStates
  <2>3. RingAfter(c, r, m)
    BY <1>4, <2>1
  <2>4. rings[m + 1] = IF TooLong(f) THEN rings[m] ELSE Dispatch(rings[m], f)
    BY <1>2, <2>1 DEF ReadStep
  <2>5. q = IF ~TooLong(f) /\ c \in Targets(f.kind) THEN Offer(r, f) ELSE r
    <3>1. Dispatch(rings[m], f)[c] = IF c \in Targets(f.kind) THEN Offer(rings[m][c], f)
                                                               ELSE rings[m][c]
      BY <2>2, DispatchType
    <3> QED BY <2>4, <3>1
  <2>6. f = device[m + 1]
    OBVIOUS
  <2> HIDE DEF f, r, q
  <2>7. /\ Len(r) \in Nat /\ Len(pending_rx[c]) \in Nat /\ CLIENT_RX_BUFS \in Nat
        /\ CLIENT_RX_BUFS > 1 /\ m \in Nat
    BY <2>2, SizesAssumption DEF RingStates
  <2>8. \A a \in Range(r) : a.id < f.id
    <3> SUFFICES ASSUME NEW a \in Range(r) PROVE a.id < f.id
      OBVIOUS
    <3>1. CASE a \in Range(pending_rx[c])
      <4>1. f \in Range(device)
        BY <2>1, <2>6, RangeSeq
      <4> QED BY <3>1, <4>1 DEF Before
    <3>2. CASE \E j \in 1..m : a = device[j]
      <4>1. PICK j \in 1..m : a = device[j]
        BY <3>2
      <4>2. j \in 1..Len(device) /\ j < m + 1
        BY <1>1, <2>1
      <4>3. Precedes(device, a, f)
        BY <2>1, <2>6, <4>1, <4>2 DEF Precedes
      <4> QED BY <4>3 DEF Rising
    <3> QED BY <2>3, <3>1, <3>2 DEF RingAfter
  <2>9. \A j \in 1..(m + 1) : j \in 1..m \/ j = m + 1
    OBVIOUS
  <2>13. /\ Len(r) < CLIENT_RX_BUFS /\ Len(r) <= Len(pending_rx[c]) + m /\ Rising(r)
    BY <2>3 DEF RingAfter
  <2>10. ASSUME q = r PROVE RingAfter(c, q, m + 1)
    <3>1. Len(q) < CLIENT_RX_BUFS /\ Len(q) <= Len(pending_rx[c]) + (m + 1) /\ Rising(q)
      <4>1. Len(r) <= Len(pending_rx[c]) + (m + 1)
        BY <2>7, <2>13, RoomLeft
      <4> QED BY <2>13, <2>10, <4>1
    <3>2. \A a \in Range(q) : a \in Range(pending_rx[c]) \/ \E j \in 1..(m + 1) : a = device[j]
      BY <2>3, <2>10 DEF RingAfter
    <3>3. ASSUME ~TooLong(f), c \in Targets(f.kind), Len(pending_rx[c]) + (m + 1) < CLIENT_RX_BUFS
          PROVE  f \in Range(q)
      <4>1. Len(r) < CLIENT_RX_BUFS - 1
        BY <2>13, <2>7, <3>3, RoomLeft
      <4>2. q = Append(r, f)
        BY <2>5, <3>3, <4>1 DEF Offer
      <4> QED BY <2>2, <4>2, AppendRange
    <3>4. ASSUME NEW j \in 1..(m + 1), ~TooLong(device[j]), c \in Targets(device[j].kind),
                 Len(pending_rx[c]) + j < CLIENT_RX_BUFS
          PROVE  device[j] \in Range(q)
      <4>1. CASE j \in 1..m
        BY <2>3, <2>10, <3>4, <4>1 DEF RingAfter
      <4>2. CASE j = m + 1
        BY <2>6, <3>3, <3>4, <4>2
      <4> QED BY <2>9, <4>1, <4>2
    <3> QED BY <3>1, <3>2, <3>4 DEF RingAfter
  <2>11. ASSUME q = Append(r, f), Len(r) < CLIENT_RX_BUFS - 1 PROVE RingAfter(c, q, m + 1)
    <3>1. Len(q) = Len(r) + 1 /\ Range(q) = Range(r) \cup {f}
      BY <2>2, <2>11, AppendRange
    <3>2. Len(q) < CLIENT_RX_BUFS /\ Len(q) <= Len(pending_rx[c]) + (m + 1)
      <4>1. Len(r) + 1 <= Len(pending_rx[c]) + (m + 1) /\ Len(r) + 1 < CLIENT_RX_BUFS
        BY <2>7, <2>11, <2>13, RoomLeft
      <4> QED BY <3>1, <4>1
    <3>3. Rising(q)
      <4>1. \A a, b : Precedes(q, a, b) => Precedes(r, a, b) \/ (b = f /\ a \in Range(r))
        BY <2>2, <2>11, PrecedesAppend
      <4> QED BY <2>3, <2>8, <4>1 DEF RingAfter, Rising
    <3>4. \A a \in Range(q) : a \in Range(pending_rx[c]) \/ \E j \in 1..(m + 1) : a = device[j]
      <4>1. m + 1 \in 1..(m + 1) /\ \A j \in 1..m : j \in 1..(m + 1)
        OBVIOUS
      <4> QED BY <2>3, <2>6, <3>1, <4>1 DEF RingAfter
    <3>5. ASSUME NEW j \in 1..(m + 1), ~TooLong(device[j]), c \in Targets(device[j].kind),
                 Len(pending_rx[c]) + j < CLIENT_RX_BUFS
          PROVE  device[j] \in Range(q)
      BY <2>3, <2>6, <2>9, <3>1, <3>5 DEF RingAfter
    <3> QED BY <3>2, <3>3, <3>4, <3>5 DEF RingAfter
  <2>12. RingAfter(c, q, m + 1)
    BY <2>5, <2>10, <2>11 DEF Offer
  <2> QED BY <2>12 DEF q
<1>5. n \in T
  <2> HIDE DEF T
  <2> QED BY <1>1, <1>3, <1>4, SetInduction
<1>6. RingAfter(c, rings[n][c], n) /\ rings[n] \in RingStates
  BY <1>1, <1>2, <1>5
<1> QED BY <1>2, <1>6 DEF n
-----------------------------------------------------------------------------
\* What the properties rest on: serial numbers rise along the way of a frame,
\* from what a client was handed through its ring to what the device holds.
TypeInv ==
  /\ DriverTypeOK
  /\ pending_rx \in RingStates /\ delivered \in RingStates

OrderInv ==
  /\ Rising(device)
  /\ \A f \in Range(device) : f.id <= frameCount
  /\ \A c \in Clients :
       /\ Rising(pending_rx[c]) /\ Rising(delivered[c])
       /\ Before(delivered[c], pending_rx[c])
       /\ Before(delivered[c], device) /\ Before(pending_rx[c], device)
       /\ \A f \in Range(delivered[c]) \cup Range(pending_rx[c]) : f.id <= frameCount

Inv == TypeInv /\ OrderInv /\ PollingChainUnbroken

\* The frames behind the ones that were read.
LEMMA DeviceRest ==
  ASSUME device \in Seq(Frames), Rising(device)
  PROVE  /\ DeviceAfterRead \in Seq(Frames) /\ Rising(DeviceAfterRead)
         /\ Range(DeviceAfterRead) \subseteq Range(device)
         /\ \A j \in 1..ReadCount, b \in Range(DeviceAfterRead) : device[j].id < b.id
         /\ \A j \in 1..Len(device) : j > ReadCount => device[j] \in Range(DeviceAfterRead)
<1>1. ReadCount \in 0..Len(device)
  BY ReadCountFact
<1> QED BY <1>1, SuffixOrder DEF DeviceAfterRead, Rising

\* One client's ring after the loop, among the frames around it.
LEMMA RingBetween ==
  ASSUME Inv, NEW c \in Clients
  PROVE  LET q == RingsAfterRead[c]
         IN  /\ q \in Seq(Frames) /\ Len(q) < CLIENT_RX_BUFS /\ Rising(q)
             /\ Before(delivered[c], q) /\ Before(q, DeviceAfterRead)
             /\ Before(delivered[c], DeviceAfterRead)
             /\ \A f \in Range(q) : f.id <= frameCount
<1> DEFINE q == RingsAfterRead[c]
<1>1. /\ device \in Seq(Frames) /\ Rising(device) /\ pending_rx \in RingStates
      /\ \A f \in Range(device) : f.id <= frameCount
      /\ Before(pending_rx[c], device) /\ Before(delivered[c], device)
      /\ Before(delivered[c], pending_rx[c]) /\ Rising(pending_rx[c])
      /\ \A f \in Range(pending_rx[c]) : f.id <= frameCount
      /\ Len(pending_rx[c]) < CLIENT_RX_BUFS
  BY DEF Inv, TypeInv, DriverTypeOK, OrderInv
<1>2. RingsAfterRead \in RingStates /\ RingAfter(c, q, ReadCount)
  BY <1>1, RingRead
<1>3. q \in Seq(Frames)
  BY <1>2 DEF RingStates
<1>4. /\ Range(DeviceAfterRead) \subseteq Range(device)
      /\ \A j \in 1..ReadCount, b \in Range(DeviceAfterRead) : device[j].id < b.id
  BY <1>1, DeviceRest
<1> HIDE DEF q
<1>5. /\ Len(q) < CLIENT_RX_BUFS /\ Rising(q)
      /\ \A a \in Range(q) : a \in Range(pending_rx[c]) \/ \E j \in 1..ReadCount : a = device[j]
  BY <1>2 DEF RingAfter
<1>6. \A j \in 1..ReadCount : device[j] \in Range(device)
  <2>1. ReadCount \in 0..Len(device) /\ Len(device) \in Nat
    BY <1>1, ReadCountFact
  <2>2. \A j \in 1..ReadCount : j \in 1..Len(device)
    BY <2>1
  <2> QED BY <1>1, <2>2, RangeSeq
<1>7. \A a \in Range(q) : a \in Range(pending_rx[c]) \/ a \in Range(device)
  BY <1>5, <1>6
<1>8. Before(delivered[c], q)
  BY <1>1, <1>7 DEF Before
<1>9. Before(q, DeviceAfterRead)
  BY <1>1, <1>4, <1>5 DEF Before
<1>10. Before(delivered[c], DeviceAfterRead)
  BY <1>1, <1>4 DEF Before
<1>11. \A f \in Range(q) : f.id <= frameCount
  BY <1>1, <1>7
<1> QED BY <1>3, <1>5, <1>8, <1>9, <1>10, <1>11 DEF q

\* Handing the oldest frame of a ring over keeps every order.
LEMMA HandedOver ==
  ASSUME NEW s \in Seq(Frames), NEW q \in Seq(Frames), q # <<>>, Rising(s), Rising(q),
         Before(s, q)
  PROVE  /\ Append(s, Head(q)) \in Seq(Frames) /\ Tail(q) \in Seq(Frames)
         /\ Len(Tail(q)) < Len(q)
         /\ Rising(Append(s, Head(q))) /\ Rising(Tail(q))
         /\ Before(Append(s, Head(q)), Tail(q))
         /\ Range(Append(s, Head(q))) = Range(s) \cup {Head(q)}
         /\ Range(Tail(q)) \subseteq Range(q) /\ Head(q) \in Range(q)
<1> DEFINE h == Head(q)
           r == Tail(q)
           t == Append(s, h)
<1>1. /\ h \in Range(q) /\ h \in Frames /\ r \in Seq(Frames) /\ Len(r) = Len(q) - 1
      /\ Range(r) \subseteq Range(q)
  BY TailRange
<1>2. /\ \A a, b : Precedes(r, a, b) => Precedes(q, a, b)
      /\ \A b \in Range(r) : Precedes(q, h, b)
  BY PrecedesTail
<1> HIDE DEF h, r
<1>3. t \in Seq(Frames) /\ Range(t) = Range(s) \cup {h}
  BY <1>1, AppendRange
<1>4. \A a, b : Precedes(t, a, b) => Precedes(s, a, b) \/ (b = h /\ a \in Range(s))
  BY <1>1, PrecedesAppend
<1> HIDE DEF t
<1>5. Rising(r)
  BY <1>2 DEF Rising
<1>6. Rising(t)
  BY <1>1, <1>4 DEF Rising, Before
<1>7. Before(t, r)
  <2>1. \A a \in Range(s), b \in Range(r) : a.id < b.id
    BY <1>1 DEF Before
  <2>2. \A b \in Range(r) : h.id < b.id
    BY <1>2 DEF Rising
  <2> QED BY <1>3, <2>1, <2>2 DEF Before
<1>8. Len(r) < Len(q)
  <2>1. Len(q) \in Nat
    OBVIOUS
  <2> QED BY <1>1, <2>1
<1> QED BY <1>1, <1>3, <1>5, <1>6, <1>7, <1>8 DEF h, r, t

LEMMA InitInv == DriverInit => Inv
<1> SUFFICES ASSUME DriverInit PROVE Inv
  OBVIOUS
<1> USE DEF DriverInit
<1>1. TypeInv
  <2>1. <<>> \in Seq(Frames) /\ Len(<<>>) = 0
    OBVIOUS
  <2>2. 0 < CLIENT_RX_BUFS /\ 0 \in 0..MaxFrames
    BY SizesAssumption
  <2> QED BY <2>1, <2>2 DEF TypeInv, DriverTypeOK, RingStates
<1>2. OrderInv
  BY EmptyFact DEF OrderInv, Rising, Before, Precedes
<1>3. PollingChainUnbroken
  BY DEF PollingChainUnbroken
<1> QED BY <1>1, <1>2, <1>3 DEF Inv

\* A frame arrives with the highest serial number so far.
LEMMA ArrivesInv ==
  ASSUME Inv, NEW k \in FrameKinds, FrameArrives(k)
  PROVE  Inv'
<1> DEFINE f == [kind |-> k, id |-> frameCount + 1]
<1>1. /\ frameCount \in 0..MaxFrames /\ frameCount' = frameCount + 1 /\ frameCount < MaxFrames
      /\ device' = Append(device, f) /\ device \in Seq(Frames) /\ f.id = frameCount + 1
      /\ UNCHANGED <<initVars, ringVars, clientVars, wire>>
  BY DEF FrameArrives, Inv, TypeInv, DriverTypeOK
<1>2. f \in Frames
  BY <1>1, SizesAssumption DEF Frames
<1> HIDE DEF f
<1>3. device' \in Seq(Frames) /\ Range(device') = Range(device) \cup {f}
  BY <1>1, <1>2, AppendRange
<1>4. frameCount' \in 0..MaxFrames
  BY <1>1, SizesAssumption
<1>5. TypeInv'
  BY <1>1, <1>3, <1>4 DEF Inv, TypeInv, DriverTypeOK, initVars, ringVars, clientVars
<1>6. PollingChainUnbroken'
  BY <1>1 DEF Inv, PollingChainUnbroken, initVars, clientVars
<1>7. OrderInv'
  <2>1. \A a : a.id \in Int /\ a.id <= frameCount => a.id < f.id /\ a.id <= frameCount'
    BY <1>1
  <2>2. \A s \in Seq(Frames) : \A a \in Range(s) : a.id \in Int
    <3>1. \A a \in Frames : a.id \in Int
      BY SizesAssumption DEF Frames
    <3> QED BY <3>1, RangeSeq
  <2>3. f.id <= frameCount'
    BY <1>1
  <2>4. OrderInv
    BY DEF Inv
  <2>5. \A a \in Range(device) : a.id < f.id /\ a.id <= frameCount'
    BY <1>1, <2>1, <2>2, <2>4 DEF OrderInv
  <2>6. Rising(device')
    <3>1. \A a, b : Precedes(device', a, b) =>
                      Precedes(device, a, b) \/ (b = f /\ a \in Range(device))
      BY <1>1, <1>2, PrecedesAppend
    <3> QED BY <2>4, <2>5, <3>1 DEF OrderInv, Rising
  <2>7. \A g \in Range(device') : g.id <= frameCount'
    BY <1>3, <2>3, <2>5
  <2>8. ASSUME NEW c \in Clients
        PROVE  /\ Rising(pending_rx[c])' /\ Rising(delivered[c])'
               /\ Before(delivered[c], pending_rx[c])'
               /\ Before(delivered[c], device)' /\ Before(pending_rx[c], device)'
               /\ (\A g \in Range(delivered[c]) \cup Range(pending_rx[c]) : g.id <= frameCount)'
    <3>1. pending_rx' = pending_rx /\ delivered' = delivered
      BY <1>1 DEF ringVars
    <3>2. pending_rx[c] \in Seq(Frames) /\ delivered[c] \in Seq(Frames)
      BY DEF Inv, TypeInv, RingStates
    <3>3. \A g \in Range(delivered[c]) \cup Range(pending_rx[c]) :
            g.id < f.id /\ g.id <= frameCount'
      BY <2>1, <2>2, <2>4, <3>2 DEF OrderInv
    <3>4. Before(delivered[c], device)' /\ Before(pending_rx[c], device)'
      BY <1>3, <2>4, <3>1, <3>3 DEF OrderInv, Before
    <3>5. (\A g \in Range(delivered[c]) \cup Range(pending_rx[c]) : g.id <= frameCount)'
      BY <3>1, <3>3
    <3> QED BY <2>4, <3>1, <3>4, <3>5 DEF OrderInv, Rising, Before
  <2> QED BY <2>6, <2>7, <2>8 DEF OrderInv
<1> QED BY <1>5, <1>6, <1>7 DEF Inv

\* A whole client_rx: the loop, then the caller's oldest frame.
LEMMA ReadInv ==
  ASSUME Inv, NEW c \in Clients, client_rx(c)
  PROVE  Inv'
<1> DEFINE q(d) == RingsAfterRead[d]
           rest == DeviceAfterRead
<1>1. /\ device \in Seq(Frames) /\ Rising(device)
      /\ \A f \in Range(device) : f.id <= frameCount
      /\ pending_rx \in RingStates /\ delivered \in RingStates /\ c \in Clients
  BY DEF Inv, TypeInv, DriverTypeOK, OrderInv
<1>2. /\ device' = rest /\ frameCount' = frameCount /\ UNCHANGED <<initVars, wire>>
      /\ pending_rx' = [RingsAfterRead EXCEPT ![c] = Consume(q(c))]
      /\ delivered' = IF q(c) = <<>> THEN delivered
                      ELSE [delivered EXCEPT ![c] = Append(@, Head(q(c)))]
      /\ notified' = [notified EXCEPT ![c] = @ \/ Emits(Answer(q(c)))]
      /\ polling' = [polling EXCEPT ![c] = Answer(q(c)) = MoreFrames]
  BY DEF client_rx
<1>3. RingsAfterRead \in RingStates
  BY <1>1, RingRead DEF Inv, TypeInv, DriverTypeOK, OrderInv
<1>4. /\ rest \in Seq(Frames) /\ Rising(rest) /\ Range(rest) \subseteq Range(device)
  BY <1>1, DeviceRest
<1>5. \A d \in Clients :
        /\ q(d) \in Seq(Frames) /\ Len(q(d)) < CLIENT_RX_BUFS /\ Rising(q(d))
        /\ Before(delivered[d], q(d)) /\ Before(q(d), rest) /\ Before(delivered[d], rest)
        /\ \A f \in Range(q(d)) : f.id <= frameCount
  BY RingBetween
<1>6. \A d \in Clients :
        pending_rx'[d] = IF d = c THEN Consume(q(c)) ELSE q(d)
  BY <1>2, <1>3 DEF RingStates
<1>7. \A d \in Clients :
        delivered'[d] = IF d = c /\ q(c) # <<>> THEN Append(delivered[c], Head(q(c)))
                        ELSE delivered[d]
  BY <1>1, <1>2 DEF RingStates
<1>8. \A d \in Clients : /\ delivered[d] \in Seq(Frames) /\ Rising(delivered[d])
                         /\ \A f \in Range(delivered[d]) : f.id <= frameCount
  BY DEF Inv, TypeInv, OrderInv, RingStates
<1> HIDE DEF q, rest
<1>9. ASSUME NEW d \in Clients
      PROVE  /\ pending_rx'[d] \in Seq(Frames) /\ Len(pending_rx'[d]) < CLIENT_RX_BUFS
             /\ delivered'[d] \in Seq(Frames)
             /\ Rising(pending_rx'[d]) /\ Rising(delivered'[d])
             /\ Before(delivered'[d], pending_rx'[d])
             /\ Before(delivered'[d], rest) /\ Before(pending_rx'[d], rest)
             /\ \A f \in Range(delivered'[d]) \cup Range(pending_rx'[d]) : f.id <= frameCount
  <2> DEFINE s == delivered[d]
             r == q(d)
  <2>1. /\ s \in Seq(Frames) /\ Rising(s) /\ r \in Seq(Frames) /\ Rising(r)
        /\ Len(r) < CLIENT_RX_BUFS
        /\ Before(s, r) /\ Before(r, rest) /\ Before(s, rest)
        /\ \A f \in Range(s) \cup Range(r) : f.id <= frameCount
    BY <1>5, <1>8
  <2>2. CASE d = c /\ q(c) # <<>>
    <3> DEFINE t == Append(s, Head(r))
               u == Tail(r)
    <3>1. pending_rx'[d] = u /\ delivered'[d] = t /\ r # <<>>
      BY <1>6, <1>7, <2>2 DEF Consume
    <3> HIDE DEF s, r
    <3>2. /\ t \in Seq(Frames) /\ u \in Seq(Frames) /\ Len(u) < Len(r)
          /\ Rising(t) /\ Rising(u) /\ Before(t, u)
          /\ Range(t) = Range(s) \cup {Head(r)}
          /\ Range(u) \subseteq Range(r) /\ Head(r) \in Range(r)
      BY <2>1, <3>1, HandedOver
    <3> HIDE DEF t, u
    <3>3. Len(u) < CLIENT_RX_BUFS
      <4>1. Len(u) \in Nat /\ Len(r) \in Nat /\ CLIENT_RX_BUFS \in Nat
        BY <2>1, <3>2, SizesAssumption
      <4> QED BY <2>1, <3>2, <4>1
    <3>4. Before(t, rest) /\ Before(u, rest)
      BY <2>1, <3>2 DEF Before
    <3>5. \A f \in Range(t) \cup Range(u) : f.id <= frameCount
      BY <2>1, <3>2
    <3> QED BY <3>1, <3>2, <3>3, <3>4, <3>5
  <2>3. CASE ~(d = c /\ q(c) # <<>>)
    <3>1. pending_rx'[d] = r /\ delivered'[d] = s
      BY <1>6, <1>7, <2>3 DEF Consume
    <3> QED BY <2>1, <3>1
  <2> QED BY <2>2, <2>3
<1>10. TypeInv'
  <2>1. pending_rx' \in RingStates /\ delivered' \in RingStates
    <3>1. /\ pending_rx' = [d \in Clients |-> pending_rx'[d]]
          /\ delivered' = [d \in Clients |-> delivered'[d]]
      BY <1>1, <1>2, <1>3 DEF RingStates
    <3> QED BY <1>9, <3>1 DEF RingStates
  <2>2. notified' \in [Clients -> BOOLEAN] /\ polling' \in [Clients -> BOOLEAN]
    BY <1>2 DEF Inv, TypeInv, DriverTypeOK, Emits
  <2> QED BY <1>2, <1>4, <1>9, <2>1, <2>2 DEF TypeInv, DriverTypeOK, Inv, initVars
<1>11. OrderInv'
  <2>1. Rising(device') /\ \A f \in Range(device') : f.id <= frameCount'
    BY <1>1, <1>2, <1>4
  <2>2. ASSUME NEW d \in Clients
        PROVE  /\ Rising(pending_rx[d])' /\ Rising(delivered[d])'
               /\ Before(delivered[d], pending_rx[d])'
               /\ Before(delivered[d], device)' /\ Before(pending_rx[d], device)'
               /\ (\A f \in Range(delivered[d]) \cup Range(pending_rx[d]) : f.id <= frameCount)'
    BY <1>2, <1>9
  <2> QED BY <2>1, <2>2 DEF OrderInv
<1>12. PollingChainUnbroken'
  <2>1. Answer(q(c)) \in {Nothing, LastFrame, MoreFrames}
    BY DEF Answer
  <2>2. Answer(q(c)) = MoreFrames \/ Emits(Answer(q(c)))
    BY <2>1 DEF Emits
  <2>3. \A d \in Clients : d # c => notified'[d] = notified[d] /\ polling'[d] = polling[d]
    BY <1>2 DEF Inv, TypeInv, DriverTypeOK
  <2>4. /\ polling'[c] = (Answer(q(c)) = MoreFrames)
        /\ notified'[c] = (notified[c] \/ Emits(Answer(q(c))))
    BY <1>1, <1>2 DEF Inv, TypeInv, DriverTypeOK
  <2>5. notified'[c] \/ polling'[c]
    BY <2>2, <2>4
  <2> QED BY <1>2, <2>3, <2>5 DEF Inv, PollingChainUnbroken, initVars
<1> QED BY <1>10, <1>11, <1>12 DEF Inv

LEMMA StepInv == Inv /\ [DriverNext]_driverVars => Inv'
<1> SUFFICES ASSUME Inv, [DriverNext]_driverVars PROVE Inv'
  OBVIOUS
<1>1. ASSUME UNCHANGED <<config, device, frameCount, ringVars>>, (DriverTypeOK /\ PollingChainUnbroken)'
      PROVE  Inv'
  BY <1>1 DEF Inv, TypeInv, OrderInv, ringVars, Rising, Before
<1>2. CASE server_init
  <2>1. UNCHANGED <<config, device, frameCount, ringVars>> /\ UNCHANGED <<polling, wire>>
    BY <1>2 DEF server_init
  <2>2. DriverTypeOK' /\ PollingChainUnbroken'
    BY <1>2, <2>1 DEF server_init, Inv, TypeInv, DriverTypeOK, PollingChainUnbroken, ringVars
  <2> QED BY <1>1, <2>1, <2>2
<1>3. ASSUME NEW k \in FrameKinds, FrameArrives(k) PROVE Inv'
  BY <1>3, ArrivesInv
<1>4. ASSUME NEW c \in Clients, client_rx(c) PROVE Inv'
  BY <1>4, ReadInv
<1>5. ASSUME NEW c \in Clients,
             client_rx_uninitialised(c) \/ ClientWakes(c) \/ ClientStarts(c)
      PROVE  Inv'
  <2>1. UNCHANGED <<config, done_init, halted, device, frameCount, ringVars, wire>>
    BY <1>5 DEF client_rx_uninitialised, ClientWakes, ClientStarts, initVars
  <2>2. notified' \in [Clients -> BOOLEAN] /\ polling' \in [Clients -> BOOLEAN]
    BY <1>5 DEF client_rx_uninitialised, ClientWakes, ClientStarts, Inv, TypeInv, DriverTypeOK
  <2>3. done_init => \A d \in Clients : notified'[d] \/ polling'[d]
    <3>1. CASE ~done_init
      BY <3>1
    <3>2. CASE ClientWakes(c)
      <4>1. /\ \A d \in Clients : d # c => notified'[d] = notified[d] /\ polling'[d] = polling[d]
            /\ polling'[c] = TRUE
        BY <3>2 DEF ClientWakes, Inv, TypeInv, DriverTypeOK
      <4> QED BY <4>1 DEF Inv, PollingChainUnbroken
    <3> QED BY <1>5, <3>1, <3>2 DEF client_rx_uninitialised, ClientStarts
  <2>4. DriverTypeOK' /\ PollingChainUnbroken'
    BY <2>1, <2>2, <2>3 DEF Inv, TypeInv, DriverTypeOK, PollingChainUnbroken, ringVars
  <2> QED BY <1>1, <2>1, <2>4
<1>6. ASSUME NEW c \in Clients, NEW len \in TxLens, client_tx(c, len) PROVE Inv'
  <2>1. UNCHANGED <<config, done_init, halted, device, frameCount, ringVars, notified, polling>>
    BY <1>6 DEF client_tx, initVars, clientVars
  <2>2. wire' \in Clients \X (12..BUF_SIZE)
    BY <1>6, SizesAssumption DEF client_tx, TxLength, BUF_SIZE
  <2>3. DriverTypeOK' /\ PollingChainUnbroken'
    BY <2>1, <2>2 DEF Inv, TypeInv, DriverTypeOK, PollingChainUnbroken, ringVars
  <2> QED BY <1>1, <2>1, <2>3
<1>7. CASE UNCHANGED driverVars
  <2>1. DriverTypeOK' /\ PollingChainUnbroken'
    BY <1>7 DEF driverVars, initVars, ringVars, clientVars, Inv, TypeInv, DriverTypeOK, PollingChainUnbroken
  <2> QED BY <1>1, <1>7, <2>1 DEF driverVars, initVars
<1> QED BY <1>2, <1>3, <1>4, <1>5, <1>6, <1>7 DEF DriverNext, ClientStep

LEMMA Invariance == DriverSpec => []Inv
<1> QED BY InitInv, StepInv, PTL DEF DriverSpec

\* Every state is well typed, and no ring ever holds CLIENT_RX_BUFS frames: the
\* slot the head points to stays free (the full test of client_rx's loop).
THEOREM UbootTypeCorrect == DriverSpec => []DriverTypeOK
<1>1. Inv => DriverTypeOK
  BY DEF Inv, TypeInv
<1> QED BY Invariance, <1>1, PTL

\* The emits of server_init and client_rx leave no client neither notified nor polling.
THEOREM PollingNeverStops == DriverSpec => []PollingChainUnbroken
<1>1. Inv => PollingChainUnbroken
  BY DEF Inv
<1> QED BY Invariance, <1>1, PTL

\* Each client gets frames once and in the order the device received them,
\* whichever client's call of client_rx moved them into its ring.
THEOREM DeliveryInOrder == DriverSpec => []DeliveredInOrder
<1>1. ASSUME Inv PROVE DeliveredInOrder
  <2> SUFFICES ASSUME NEW c \in Clients,
                      NEW i \in 1..Len(delivered[c] \o pending_rx[c]),
                      NEW j \in 1..Len(delivered[c] \o pending_rx[c]), i < j
               PROVE  (delivered[c] \o pending_rx[c])[i].id < (delivered[c] \o pending_rx[c])[j].id
    BY DEF DeliveredInOrder
  <2> DEFINE s == delivered[c]
             t == pending_rx[c]
             a == (s \o t)[i]
             b == (s \o t)[j]
  <2>1. s \in Seq(Frames) /\ t \in Seq(Frames) /\ Rising(s) /\ Rising(t) /\ Before(s, t)
    BY <1>1 DEF Inv, TypeInv, RingStates, OrderInv
  <2>2. Precedes(s \o t, a, b)
    BY DEF Precedes
  <2> HIDE DEF s, t
  <2>3. Precedes(s, a, b) \/ Precedes(t, a, b) \/ (a \in Range(s) /\ b \in Range(t))
    BY <2>1, <2>2, ConcatOrder
  <2>4. a.id < b.id
    BY <2>1, <2>3 DEF Rising, Before
  <2> QED BY <2>4 DEF s, t
<1> QED BY Invariance, <1>1, PTL

\* A frame for one client alone that leaves the device without being too long
\* is in that client's ring, or just handed to it, unless the ring was full.
LEMMA ReadKeepsFrames ==
  ASSUME Inv, NEW c \in Clients, client_rx(c), NEW i \in 1..Len(device), NEW d \in Clients,
         ~(\E j \in 1..Len(device') : device'[j] = device[i]),
         Targets(device[i].kind) = {d}, ~TooLong(device[i]),
         Len(pending_rx[d]) + Len(device) < CLIENT_RX_BUFS
  PROVE  \E j \in 1..Len(delivered'[d] \o pending_rx'[d]) :
           (delivered'[d] \o pending_rx'[d])[j] = device[i]
<1> DEFINE f == device[i]
           q == RingsAfterRead[d]
<1>1. /\ device \in Seq(Frames) /\ Rising(device) /\ device' = DeviceAfterRead
      /\ pending_rx \in RingStates /\ delivered \in RingStates
      /\ pending_rx[d] \in Seq(Frames) /\ delivered[d] \in Seq(Frames)
      /\ Len(device) \in Nat /\ Len(pending_rx[d]) \in Nat /\ CLIENT_RX_BUFS \in Nat
  BY SizesAssumption DEF client_rx, Inv, TypeInv, DriverTypeOK, OrderInv, RingStates
<1>2. RingsAfterRead \in RingStates /\ q \in Seq(Frames) /\ RingAfter(d, q, ReadCount)
  BY <1>1, RingRead DEF Inv, TypeInv, DriverTypeOK, OrderInv, RingStates
<1>3. i \in 1..ReadCount
  <2>1. ReadCount \in 0..Len(device)
    BY <1>1, ReadCountFact
  <2>2. /\ DeviceAfterRead \in Seq(Frames)
        /\ \A j \in 1..Len(device) : j > ReadCount => device[j] \in Range(DeviceAfterRead)
    BY <1>1, DeviceRest
  <2>3. f \notin Range(DeviceAfterRead)
    <3>1. device' \in Seq(Frames) /\ Range(device') = {device'[j] : j \in 1..Len(device')}
      BY <1>1, <2>2, RangeSeq
    <3> QED BY <1>1, <3>1
  <2> QED BY <1>1, <2>1, <2>2, <2>3
<1>4. f \in Range(q)
  <2>1. Len(pending_rx[d]) + i < CLIENT_RX_BUFS
    BY <1>1
  <2> QED BY <1>2, <1>3, <2>1 DEF RingAfter
<1>5. /\ pending_rx'[d] = IF d = c THEN Consume(q) ELSE q
      /\ delivered'[d] = IF d = c /\ q # <<>> THEN Append(delivered[d], Head(q)) ELSE delivered[d]
  BY <1>1, <1>2 DEF client_rx, RingStates
<1> HIDE DEF q, f
<1>6. ASSUME NEW s \in Seq(Frames), NEW t \in Seq(Frames), f \in Range(s) \/ f \in Range(t)
      PROVE  \E j \in 1..Len(s \o t) : (s \o t)[j] = f
  <2> DEFINE u == s \o t
  <2>1. u \in Seq(Frames) /\ f \in Range(u)
    BY <1>6, ConcatOrder
  <2> HIDE DEF u
  <2>2. Range(u) = {u[j] : j \in 1..Len(u)}
    BY <2>1, RangeSeq
  <2>3. \E j \in 1..Len(u) : u[j] = f
    BY <2>1, <2>2
  <2> QED BY <2>3 DEF u
<1>7. /\ delivered'[d] \in Seq(Frames) /\ pending_rx'[d] \in Seq(Frames)
      /\ f \in Range(delivered'[d]) \/ f \in Range(pending_rx'[d])
  <2>1. CASE d = c /\ q # <<>>
    <3>1. /\ Head(q) \in Frames /\ Tail(q) \in Seq(Frames)
          /\ Range(q) = Range(Tail(q)) \cup {Head(q)}
      BY <1>2, <2>1, TailRange
    <3>2. /\ Append(delivered[d], Head(q)) \in Seq(Frames)
          /\ Head(q) \in Range(Append(delivered[d], Head(q)))
      BY <1>1, <3>1, AppendRange
    <3>3. pending_rx'[d] = Tail(q) /\ delivered'[d] = Append(delivered[d], Head(q))
      BY <1>5, <2>1 DEF Consume
    <3> QED BY <1>4, <3>1, <3>2, <3>3
  <2>2. CASE ~(d = c /\ q # <<>>)
    <3>1. pending_rx'[d] = q /\ delivered'[d] = delivered[d]
      BY <1>5, <2>2 DEF Consume
    <3> QED BY <1>1, <1>2, <1>4, <3>1
  <2> QED BY <2>1, <2>2
<1> QED BY <1>6, <1>7 DEF f

\* No other client's frames, and no over-long frame, can make a frame disappear
\* in client_rx's loop while its own client's ring has room.
THEOREM FramesAreKept == DriverSpec => DroppedOnlyWhenFull
<1> DEFINE Kept ==
      \A i \in 1..Len(device) : \A c \in Clients :
        (/\ ~(\E j \in 1..Len(device') : device'[j] = device[i])
         /\ Targets(device[i].kind) = {c} /\ ~TooLong(device[i])
         /\ Len(pending_rx[c]) + Len(device) < CLIENT_RX_BUFS)
        => \E j \in 1..Len(delivered'[c] \o pending_rx'[c]) :
             (delivered'[c] \o pending_rx'[c])[j] = device[i]
<1>1. ASSUME Inv, [DriverNext]_driverVars PROVE [Kept]_driverVars
  <2>1. ASSUME NEW c \in Clients, client_rx(c) PROVE Kept
    BY <1>1, <2>1, ReadKeepsFrames
  <2>2. ASSUME device' = device PROVE Kept
    BY <2>2
  <2>3. ASSUME NEW k \in FrameKinds, FrameArrives(k) PROVE Kept
    <3>1. PICK f : device' = Append(device, f) /\ device \in Seq(Frames)
      BY <1>1, <2>3 DEF FrameArrives, Inv, TypeInv, DriverTypeOK
    <3>2. \A i \in 1..Len(device) : i \in 1..Len(device') /\ device'[i] = device[i]
      BY <3>1
    <3> QED BY <3>2
  <2>4. \/ device' = device \/ (\E c \in Clients : client_rx(c))
        \/ \E k \in FrameKinds : FrameArrives(k)
    BY <1>1 DEF DriverNext, ClientStep, server_init, client_rx_uninitialised, ClientWakes,
                ClientStarts, client_tx, driverVars
  <2> HIDE DEF Kept
  <2> QED BY <2>1, <2>2, <2>3, <2>4
<1>2. DroppedOnlyWhenFull <=> [][Kept]_driverVars
  BY DEF DroppedOnlyWhenFull
<1> HIDE DEF Kept
<1> QED BY Invariance, <1>1, <1>2, PTL DEF DriverSpec
=============================================================================
