------------------------- MODULE DataPaths_proofs ---------------------------
(* That each path is the system its own module specifies, so that what is    *)
(* proved there holds here; and of the TCP echo server of                    *)
(* picotcp_single_component, for any number of slots, any number of          *)
(* connections made one after the other and any way in which picotcp cuts    *)
(* the stream up, that each peer gets its own bytes back, in order.          *)
EXTENDS DataPaths, SequenceFacts

USE EchoAssumption

Bytes == Conns \X Nat
-----------------------------------------------------------------------------
(* What becomes of one connection's bytes: g is what the peer got, s what    *)
(* the server holds, q what it has not read, and n how many the peer sent.   *)

\* Own bytes, each once and in order; after a failed send some are missing.
Climbing(s) == \A a, b : Precedes(s, a, b) => a[2] < b[2]
Behind(s, t) == \A a \in Range(s), b \in Range(t) : a[2] < b[2]

Kept(c, g, s, q, n) ==
  /\ \A a \in Range(g) \cup Range(s) \cup Range(q) : a[1] = c /\ a[2] <= n
  /\ Climbing(g) /\ Climbing(s) /\ Climbing(q)
  /\ Behind(g, s) /\ Behind(g, q) /\ Behind(s, q)

\* All of them: consecutive serial numbers.
RunFrom(s, c, k) == \A i \in 1..Len(s) : s[i] = <<c, k + i>>

Whole(c, g, s, q, n) ==
  /\ RunFrom(g, c, 0) /\ RunFrom(s, c, Len(g)) /\ RunFrom(q, c, Len(g) + Len(s))
  /\ n = Len(g) + Len(s) + Len(q)

LEMMA RunParts ==
  ASSUME NEW s \in Seq(Bytes), NEW c, NEW m \in Nat, RunFrom(s, c, m), NEW k \in 0..Len(s)
  PROVE  /\ SubSeq(s, 1, k) \in Seq(Bytes) /\ Len(SubSeq(s, 1, k)) = k
         /\ SubSeq(s, k + 1, Len(s)) \in Seq(Bytes)
         /\ Len(SubSeq(s, k + 1, Len(s))) = Len(s) - k
         /\ RunFrom(SubSeq(s, 1, k), c, m) /\ RunFrom(SubSeq(s, k + 1, Len(s)), c, m + k)
<1> DEFINE f == SubSeq(s, 1, k)
           r == SubSeq(s, k + 1, Len(s))
           l == Len(s)
<1>1. l \in Nat /\ k \in Nat /\ k <= l /\ \A i \in 1..l : s[i] = <<c, m + i>>
  BY DEF RunFrom
<1>2. f \in Seq(Bytes) /\ Len(f) = k /\ \A i \in 1..k : f[i] = s[i]
  BY PrefixOrder
<1>3. r \in Seq(Bytes) /\ Len(r) = l - k /\ \A i \in 1..(l - k) : r[i] = s[k + i]
  <2>1. k + 1 \in 1..(l + 1) /\ l \in ((k + 1) - 1)..l
    BY <1>1
  <2>2. /\ r \in Seq(Bytes) /\ Len(r) = l - (k + 1) + 1
        /\ \A i \in 1..(l - (k + 1) + 1) : r[i] = s[(k + 1) + i - 1]
    BY <2>1, SubSeqProperties
  <2> QED BY <1>1, <2>2
<1> HIDE DEF f, r, l
<1>4. RunFrom(f, c, m)
  <2>1. \A i \in 1..k : i \in 1..l
    BY <1>1
  <2> QED BY <1>1, <1>2, <2>1 DEF RunFrom
<1>5. RunFrom(r, c, m + k)
  <2>1. \A i \in 1..(l - k) : k + i \in 1..l /\ m + (k + i) = (m + k) + i
    BY <1>1
  <2>2. \A i \in 1..(l - k) : r[i] = <<c, (m + k) + i>>
    BY <1>1, <1>3, <2>1
  <2> QED BY <1>3, <2>2 DEF RunFrom
<1> QED BY <1>2, <1>3, <1>4, <1>5 DEF f, r, l

LEMMA RunJoined ==
  ASSUME NEW s \in Seq(Bytes), NEW t \in Seq(Bytes), NEW c, NEW m \in Nat,
         RunFrom(s, c, m), RunFrom(t, c, m + Len(s))
  PROVE  /\ s \o t \in Seq(Bytes) /\ Len(s \o t) = Len(s) + Len(t)
         /\ RunFrom(s \o t, c, m)
<1> DEFINE u == s \o t
           k == Len(s)
           l == Len(t)
<1>1. /\ u \in Seq(Bytes) /\ Len(u) = k + l /\ k \in Nat /\ l \in Nat
      /\ \A i \in 1..(k + l) : u[i] = IF i <= k THEN s[i] ELSE t[i - k]
  BY ConcatProperties
<1>2. /\ \A i \in 1..k : s[i] = <<c, m + i>>
      /\ \A i \in 1..l : t[i] = <<c, (m + k) + i>>
  BY DEF RunFrom
<1> HIDE DEF u, k, l
<1>3. ASSUME NEW i \in 1..(k + l) PROVE u[i] = <<c, m + i>>
  <2>1. CASE i <= k
    <3>1. i \in 1..k
      BY <1>1, <2>1
    <3> QED BY <1>1, <1>2, <2>1, <3>1
  <2>2. CASE ~(i <= k)
    <3>1. i - k \in 1..l /\ (m + k) + (i - k) = m + i
      BY <1>1, <2>2
    <3> QED BY <1>1, <1>2, <2>2, <3>1
  <2> QED BY <2>1, <2>2
<1>4. RunFrom(u, c, m)
  BY <1>1, <1>3 DEF RunFrom
<1> QED BY <1>1, <1>4 DEF u, k, l

\* The ways the bytes of a connection move.
Sent(c, g, s, q, n, h, t, r, m) ==
  h = g /\ t = s /\ r = Append(q, <<c, n + 1>>) /\ m = n + 1
Read(c, g, s, q, n, h, t, r, m) ==
  \E k \in 1..Len(q) : /\ s = <<>> /\ h = g /\ m = n
                       /\ t = SubSeq(q, 1, k) /\ r = SubSeq(q, k + 1, Len(q))
Echoed(c, g, s, q, n, h, t, r, m) ==
  \E k \in 1..Len(s) : /\ h = g \o SubSeq(s, 1, k) /\ t = SubSeq(s, k + 1, Len(s))
                       /\ r = q /\ m = n
Lost(c, g, s, q, n, h, t, r, m) == h = g /\ t = <<>> /\ r = q /\ m = n

LEMMA SentKeeps ==
  ASSUME NEW c \in Conns, NEW g \in Seq(Bytes), NEW s \in Seq(Bytes), NEW q \in Seq(Bytes),
         NEW n \in Nat, Kept(c, g, s, q, n)
  PROVE  /\ Append(q, <<c, n + 1>>) \in Seq(Bytes)
         /\ Kept(c, g, s, Append(q, <<c, n + 1>>), n + 1)
         /\ Whole(c, g, s, q, n) => Whole(c, g, s, Append(q, <<c, n + 1>>), n + 1)
<1> DEFINE e == <<c, n + 1>>
           r == Append(q, e)
<1>1. e \in Bytes /\ e[1] = c /\ e[2] = n + 1
  BY DEF Bytes
<1>2. /\ Range(g) \subseteq Bytes /\ Range(s) \subseteq Bytes /\ Range(q) \subseteq Bytes
      /\ \A a \in Bytes : a[2] \in Nat
  BY RangeSeq DEF Bytes
<1> HIDE DEF e
<1>3. r \in Seq(Bytes) /\ Range(r) = Range(q) \cup {e}
  BY <1>1, AppendRange
<1>4. \A a, b : Precedes(r, a, b) => Precedes(q, a, b) \/ (b = e /\ a \in Range(q))
  BY <1>1, PrecedesAppend
<1>5. Len(q) \in Nat /\ Len(r) = Len(q) + 1 /\ r[Len(q) + 1] = e /\ \A i \in 1..Len(q) : r[i] = q[i]
  BY <1>1, AppendProperties
<1> HIDE DEF r
<1>6. \A a \in Range(g) \cup Range(s) \cup Range(q) : a[1] = c /\ a[2] < n + 1 /\ a[2] <= n + 1
  BY <1>2 DEF Kept
<1>7. Kept(c, g, s, r, n + 1)
  <2>1. Climbing(r)
    BY <1>1, <1>4, <1>6 DEF Kept, Climbing
  <2>2. Behind(g, r) /\ Behind(s, r)
    BY <1>1, <1>3, <1>6 DEF Kept, Behind
  <2>3. \A a \in Range(g) \cup Range(s) \cup Range(r) : a[1] = c /\ a[2] <= n + 1
    BY <1>1, <1>3, <1>6
  <2> QED BY <2>1, <2>2, <2>3 DEF Kept
<1>8. ASSUME Whole(c, g, s, q, n) PROVE Whole(c, g, s, r, n + 1)
  <2> DEFINE k == Len(g) + Len(s)
             l == Len(q)
  <2>1. k \in Nat /\ l \in Nat /\ n = k + l
    BY <1>8 DEF Whole
  <2>2. \A i \in 1..l : q[i] = <<c, k + i>>
    BY <1>8 DEF Whole, RunFrom
  <2> HIDE DEF k, l
  <2>3. \A i \in 1..(l + 1) : r[i] = <<c, k + i>>
    <3>1. \A i \in 1..(l + 1) : i \in 1..l \/ i = l + 1
      BY <2>1
    <3>2. r[l + 1] = <<c, k + (l + 1)>>
      BY <1>5, <2>1 DEF e, l
    <3>3. \A i \in 1..l : r[i] = <<c, k + i>>
      BY <1>5, <2>2 DEF l
    <3> QED BY <3>1, <3>2, <3>3
  <2>4. RunFrom(r, c, k)
    BY <1>5, <2>3 DEF RunFrom, l
  <2>5. n + 1 = k + Len(r)
    BY <1>5, <2>1 DEF l
  <2> QED BY <1>8, <2>4, <2>5 DEF Whole, k
<1> QED BY <1>3, <1>7, <1>8 DEF r, e

LEMMA ReadKeeps ==
  ASSUME NEW c \in Conns, NEW g \in Seq(Bytes), NEW q \in Seq(Bytes), NEW n \in Nat,
         Kept(c, g, <<>>, q, n), NEW k \in 1..Len(q)
  PROVE  /\ SubSeq(q, 1, k) \in Seq(Bytes) /\ SubSeq(q, k + 1, Len(q)) \in Seq(Bytes)
         /\ Kept(c, g, SubSeq(q, 1, k), SubSeq(q, k + 1, Len(q)), n)
         /\ Whole(c, g, <<>>, q, n)
              => Whole(c, g, SubSeq(q, 1, k), SubSeq(q, k + 1, Len(q)), n)
<1> DEFINE t == SubSeq(q, 1, k)
           r == SubSeq(q, k + 1, Len(q))
<1>1. k \in 0..Len(q) /\ Len(q) \in Nat /\ k \in Nat
  OBVIOUS
<1>2. /\ t \in Seq(Bytes) /\ Len(t) = k /\ Range(t) \subseteq Range(q)
      /\ \A i \in 1..k : t[i] = q[i]
      /\ \A a, b : Precedes(t, a, b) => Precedes(q, a, b)
  BY <1>1, PrefixOrder
<1>3. /\ r \in Seq(Bytes) /\ Range(r) \subseteq Range(q)
      /\ \A a, b : Precedes(r, a, b) => Precedes(q, a, b)
      /\ \A i \in 1..k, b \in Range(r) : Precedes(q, q[i], b)
  BY <1>1, SuffixOrder
<1>4. ASSUME Whole(c, g, <<>>, q, n) PROVE Whole(c, g, t, r, n)
  <2> DEFINE m == Len(g) + Len(<<>>)
  <2>1. /\ RunFrom(g, c, 0) /\ RunFrom(q, c, m) /\ n = m + Len(q) /\ m = Len(g) /\ m \in Nat
    BY <1>4 DEF Whole
  <2> HIDE DEF m
  <2>2. RunFrom(t, c, m) /\ RunFrom(r, c, m + k) /\ Len(r) = Len(q) - k
    BY <1>1, <2>1, RunParts
  <2>3. n = m + k + (Len(q) - k)
    BY <1>1, <2>1
  <2> QED BY <1>2, <2>1, <2>2, <2>3 DEF Whole
<1> HIDE DEF t, r
<1>5. Kept(c, g, t, r, n)
  <2>1. Climbing(t) /\ Climbing(r)
    BY <1>2, <1>3 DEF Kept, Climbing
  <2>2. Behind(g, t) /\ Behind(g, r)
    BY <1>2, <1>3 DEF Kept, Behind
  <2>3. Behind(t, r)
    <3>1. Range(t) = {t[i] : i \in 1..Len(t)}
      BY <1>2, RangeSeq
    <3>2. \A a \in Range(t) : \E i \in 1..k : a = q[i]
      BY <1>2, <3>1
    <3> QED BY <1>3, <3>2 DEF Kept, Climbing, Behind
  <2>4. \A a \in Range(g) \cup Range(t) \cup Range(r) : a[1] = c /\ a[2] <= n
    BY <1>2, <1>3 DEF Kept
  <2> QED BY <2>1, <2>2, <2>3, <2>4 DEF Kept
<1> QED BY <1>2, <1>3, <1>4, <1>5 DEF t, r

LEMMA EchoedKeeps ==
  ASSUME NEW c \in Conns, NEW g \in Seq(Bytes), NEW s \in Seq(Bytes), NEW q \in Seq(Bytes),
         NEW n \in Nat, Kept(c, g, s, q, n), NEW k \in 1..Len(s)
  PROVE  /\ g \o SubSeq(s, 1, k) \in Seq(Bytes) /\ SubSeq(s, k + 1, Len(s)) \in Seq(Bytes)
         /\ Kept(c, g \o SubSeq(s, 1, k), SubSeq(s, k + 1, Len(s)), q, n)
         /\ Whole(c, g, s, q, n)
              => Whole(c, g \o SubSeq(s, 1, k), SubSeq(s, k + 1, Len(s)), q, n)
<1> DEFINE f == SubSeq(s, 1, k)
           t == SubSeq(s, k + 1, Len(s))
           h == g \o f
<1>1. k \in 0..Len(s) /\ Len(s) \in Nat /\ k \in Nat /\ Len(g) \in Nat /\ Len(q) \in Nat
  OBVIOUS
<1>2. /\ f \in Seq(Bytes) /\ Len(f) = k /\ Range(f) \subseteq Range(s)
      /\ \A i \in 1..k : f[i] = s[i]
      /\ \A a, b : Precedes(f, a, b) => Precedes(s, a, b)
  BY <1>1, PrefixOrder
<1>3. /\ t \in Seq(Bytes) /\ Range(t) \subseteq Range(s)
      /\ \A a, b : Precedes(t, a, b) => Precedes(s, a, b)
      /\ \A i \in 1..k, b \in Range(t) : Precedes(s, s[i], b)
  BY <1>1, SuffixOrder
<1>4. ASSUME Whole(c, g, s, q, n)
      PROVE  /\ RunFrom(f, c, Len(g)) /\ RunFrom(t, c, Len(g) + k) /\ Len(t) = Len(s) - k
             /\ RunFrom(g, c, 0) /\ RunFrom(q, c, Len(g) + Len(s))
             /\ n = Len(g) + Len(s) + Len(q)
  <2>1. RunFrom(s, c, Len(g))
    BY <1>4 DEF Whole
  <2>2. RunFrom(f, c, Len(g)) /\ RunFrom(t, c, Len(g) + k) /\ Len(t) = Len(s) - k
    BY <1>1, <2>1, RunParts
  <2> QED BY <1>4, <2>2 DEF Whole
<1> HIDE DEF f, t
<1>5. /\ h \in Seq(Bytes) /\ Len(h) = Len(g) + k /\ Range(h) = Range(g) \cup Range(f)
      /\ \A a, b : Precedes(h, a, b) => \/ Precedes(g, a, b) \/ Precedes(f, a, b)
                                        \/ a \in Range(g) /\ b \in Range(f)
  BY <1>2, ConcatOrder
<1>6. ASSUME Whole(c, g, s, q, n) PROVE Whole(c, h, t, q, n)
  <2>1. RunFrom(h, c, 0)
    <3>1. 0 \in Nat /\ 0 + Len(g) = Len(g)
      BY <1>1
    <3>2. RunFrom(g, c, 0) /\ RunFrom(f, c, 0 + Len(g))
      BY <1>4, <1>6, <3>1
    <3> QED BY <1>2, <3>1, <3>2, RunJoined
  <2>2. Len(h) + Len(t) = Len(g) + Len(s)
    <3>1. Len(h) = Len(g) + k /\ Len(t) = Len(s) - k
      BY <1>4, <1>5, <1>6
    <3> HIDE DEF h
    <3> QED BY <1>1, <3>1
  <2> HIDE DEF h
  <2>3. RunFrom(t, c, Len(h)) /\ RunFrom(q, c, Len(h) + Len(t)) /\ n = Len(h) + Len(t) + Len(q)
    BY <1>4, <1>5, <1>6, <2>2
  <2> QED BY <2>1, <2>3 DEF Whole
<1> HIDE DEF h
<1>7. Kept(c, h, t, q, n)
  <2>1. Climbing(h)
    BY <1>2, <1>5 DEF Kept, Climbing, Behind
  <2>2. Climbing(t)
    BY <1>3 DEF Kept, Climbing
  <2>3. Behind(h, t)
    <3> HIDE DEF h
    <3>1. Range(f) = {f[i] : i \in 1..Len(f)}
      <4>1. f \in Seq(Bytes)
        BY <1>2
      <4> QED BY <4>1, RangeSeq, Zenon
    <3>2. \A a \in Range(f) : \E i \in 1..k : a = s[i]
      BY <1>2, <3>1
    <3>3. \A a \in Range(f), b \in Range(t) : a[2] < b[2]
      BY <1>3, <3>2 DEF Kept, Climbing
    <3>4. \A a \in Range(g), b \in Range(t) : a[2] < b[2]
      BY <1>3 DEF Kept, Behind
    <3> QED BY <1>5, <3>3, <3>4 DEF Behind
  <2>4. Behind(h, q) /\ Behind(t, q)
    BY <1>2, <1>3, <1>5 DEF Kept, Behind
  <2>5. \A a \in Range(h) \cup Range(t) \cup Range(q) : a[1] = c /\ a[2] <= n
    BY <1>2, <1>3, <1>5 DEF Kept
  <2> QED BY <2>1, <2>2, <2>3, <2>4, <2>5 DEF Kept
<1> QED BY <1>3, <1>5, <1>6, <1>7 DEF f, t, h

LEMMA LostKeeps ==
  ASSUME NEW c, NEW g, NEW s, NEW q, NEW n, Kept(c, g, s, q, n)
  PROVE  Kept(c, g, <<>>, q, n)
BY EmptyFact DEF Kept, Climbing, Behind, Precedes

\* However they move, bytes keep their owner and their order; and unless some
\* are lost, none is missing.
LEMMA MoveKeeps ==
  ASSUME NEW c \in Conns, NEW g \in Seq(Bytes), NEW s \in Seq(Bytes), NEW q \in Seq(Bytes),
         NEW n \in Nat, NEW h, NEW t, NEW r, NEW m, Kept(c, g, s, q, n),
         \/ Sent(c, g, s, q, n, h, t, r, m) \/ Read(c, g, s, q, n, h, t, r, m)
         \/ Echoed(c, g, s, q, n, h, t, r, m)
  PROVE  Kept(c, h, t, r, m) /\ (Whole(c, g, s, q, n) => Whole(c, h, t, r, m))
<1>1. CASE Sent(c, g, s, q, n, h, t, r, m)
  BY <1>1, SentKeeps DEF Sent
<1>2. CASE Read(c, g, s, q, n, h, t, r, m)
  BY <1>2, ReadKeeps DEF Read
<1>3. CASE Echoed(c, g, s, q, n, h, t, r, m)
  BY <1>3, EchoedKeeps DEF Echoed
<1> QED BY <1>1, <1>2, <1>3
-----------------------------------------------------------------------------
(* The server's bookkeeping: a connection has one slot, a callback belongs   *)
(* to a connection that has one, and a blocked write remembers a part of the *)
(* slot's buffer.                                                            *)

Sockets == Conns \cup {NoConn}
Labels == {"idle", "wr", "rd", "send", "end", "dead"}

EchoTypeInv ==
  /\ tcpPc \in Labels /\ sock \in Sockets /\ chunk \in Seq(Bytes)
  /\ connected \in [Slots -> Sockets] /\ data_packet \in [Slots -> Seq(Bytes)]
  /\ write_pending \in [Slots -> BOOLEAN]
  /\ remaining_payload \in [Slots -> Nat] /\ sent_payload \in [Slots -> Nat]
  /\ link \in [Conns -> {"none", "backlog", "open", "closing", "finished"}]
  /\ recvQueue \in [Conns -> Seq(Bytes)] /\ rdDue \in [Conns -> BOOLEAN]
  /\ peerSent \in [Conns -> Nat] /\ peerGot \in [Conns -> Seq(Bytes)]
  /\ failed \in [Conns -> BOOLEAN]

Linked(c) == link[c] \in {"open", "closing"}

SlotInv ==
  /\ \A i \in Slots : connected[i] # NoConn => Linked(connected[i])
  /\ \A c \in Conns : Linked(c) => \E i \in Slots : connected[i] = c
  /\ \A i, j \in Slots : connected[i] = connected[j] /\ connected[i] # NoConn => i = j

CallbackInv ==
  /\ tcpPc \in {"idle", "dead"} <=> sock = NoConn
  /\ sock # NoConn => Linked(sock)
  /\ tcpPc # "send" => chunk = <<>>

\* What is left of a buffer that is being sent is its end.
RestOf(s, n) == SubSeq(s, Len(s) - n + 1, Len(s))
BufferInv ==
  \A i \in Slots : connected[i] # NoConn =>
    /\ write_pending[i] => sent_payload[i] + remaining_payload[i] = Len(data_packet[i])
    /\ tcpPc = "send" /\ connected[i] = sock =>
         /\ ~write_pending[i]
         /\ Len(chunk) <= Len(data_packet[i]) /\ chunk = RestOf(data_packet[i], Len(chunk))

FreshInv ==
  \A c \in Conns : link[c] \in {"none", "backlog"} =>
    peerSent[c] = 0 /\ peerGot[c] = <<>> /\ recvQueue[c] = <<>>

Books == EchoTypeInv /\ SlotInv /\ CallbackInv /\ BufferInv /\ FreshInv

\* The slot found for a value that one slot has.
LEMMA SlotIs ==
  ASSUME NEW slots, NEW c, NEW i \in Slots, slots[i] = c, \A j \in Slots : slots[j] = c => j = i
  PROVE  (CHOOSE k \in Slots : slots[k] = c /\ \A j \in 1..(k - 1) : slots[j] # c) = i
<1>1. ASSUME NEW j \in 1..(i - 1) PROVE slots[j] # c
  <2>1. j \in Slots /\ j # i
    BY DEF Slots
  <2> QED BY <2>1
<1> QED BY <1>1

\* What the server holds of each connection's bytes.
ServerFact ==
  \A c \in Conns :
    /\ \A i \in Slots : connected[i] = c =>
         /\ SlotOf(c) = i
         /\ InServer(c) = IF write_pending[i] THEN Unsent(i)
                          ELSE IF sock = c THEN chunk ELSE <<>>
    /\ ~Linked(c) => InServer(c) = <<>>

LEMMA ServerKnown == Books => ServerFact
<1> SUFFICES ASSUME Books, NEW c \in Conns
             PROVE  /\ \A i \in Slots : connected[i] = c =>
                         /\ SlotOf(c) = i
                         /\ InServer(c) = IF write_pending[i] THEN Unsent(i)
                                          ELSE IF sock = c THEN chunk ELSE <<>>
                    /\ ~Linked(c) => InServer(c) = <<>>
  BY DEF ServerFact
<1>1. c # NoConn
  OBVIOUS
<1>2. ASSUME NEW i \in Slots, connected[i] = c
      PROVE  /\ SlotOf(c) = i
             /\ InServer(c) = IF write_pending[i] THEN Unsent(i)
                              ELSE IF sock = c THEN chunk ELSE <<>>
  <2>1. \A j \in Slots : connected[j] = c => j = i
    BY <1>1, <1>2 DEF Books, SlotInv
  <2>2. SlotOf(c) = i
    BY <1>2, <2>1, SlotIs DEF SlotOf
  <2>3. (\E j \in Slots : connected[j] = c /\ write_pending[j]) <=> write_pending[i]
    BY <1>2, <2>1
  <2> QED BY <2>2, <2>3 DEF InServer
<1>3. ASSUME ~Linked(c) PROVE InServer(c) = <<>>
  <2>1. \A j \in Slots : connected[j] # c
    BY <1>1, <1>3 DEF Books, SlotInv
  <2>2. sock # c
    BY <1>1, <1>3 DEF Books, CallbackInv
  <2> QED BY <2>1, <2>2 DEF InServer
<1> QED BY <1>2, <1>3

\* During a callback: the slot of its socket.
LEMMA CallbackSlot ==
  ASSUME Books, tcpPc \in {"wr", "rd", "send", "end"}
  PROVE  /\ sock \in Conns /\ Linked(sock)
         /\ client_id \in Slots /\ connected[client_id] = sock
         /\ \A j \in Slots : connected[j] = sock => j = client_id
<1>1. sock # NoConn /\ sock \in Conns /\ Linked(sock)
  BY DEF Books, CallbackInv, EchoTypeInv, Sockets
<1>2. PICK i \in Slots : connected[i] = sock
  BY <1>1 DEF Books, SlotInv
<1>3. \A j \in Slots : connected[j] = sock => j = i
  BY <1>1, <1>2 DEF Books, SlotInv
<1>4. client_id = i
  BY <1>1, <1>2, ServerKnown DEF client_id, ServerFact
<1> QED BY <1>1, <1>2, <1>3, <1>4

\* A free slot is found for a new connection.
LEMMA FreeSlot ==
  ASSUME Free
  PROVE  SlotOf(NoConn) \in Slots /\ connected[SlotOf(NoConn)] = NoConn
<1> DEFINE F == {i \in Slots : connected[i] = NoConn}
<1>1. F # {} /\ F \subseteq Nat
  BY DEF Free, Slots
<1>2. PICK i \in F : \A k \in F : i <= k
  BY <1>1, LeastNat
<1>3. \A j \in 1..(i - 1) : connected[j] # NoConn
  <2> SUFFICES ASSUME NEW j \in 1..(i - 1), connected[j] = NoConn PROVE FALSE
    OBVIOUS
  <2>1. j \in Slots /\ j < i
    BY DEF Slots
  <2>2. j \in F
    BY <2>1
  <2>3. i <= j
    BY <1>2, <2>2
  <2> QED BY <1>1, <2>1, <2>3
<1> QED BY <1>2, <1>3 DEF SlotOf

\* The end of a buffer, part of it sent.
LEMMA RestParts ==
  ASSUME NEW d \in Seq(Bytes), NEW l \in 0..Len(d), NEW k \in 0..l
  PROVE  /\ RestOf(d, l) \in Seq(Bytes) /\ Len(RestOf(d, l)) = l
         /\ SubSeq(RestOf(d, l), k + 1, l) = RestOf(d, l - k)
<1> DEFINE a == Len(d) - l
<1>1. a \in Nat /\ l \in Nat /\ k \in Nat /\ a + l = Len(d) /\ Len(d) \in Nat
      /\ Len(d) - (l - k) + 1 = (a + k) + 1 /\ Len(d) - l + 1 = a + 1
  OBVIOUS
<1> HIDE DEF a
<1>2. /\ SubSeq(d, a + 1, a + l) \in Seq(Bytes) /\ Len(SubSeq(d, a + 1, a + l)) = l
      /\ SubSeq(SubSeq(d, a + 1, a + l), k + 1, l) = SubSeq(d, (a + k) + 1, a + l)
  BY <1>1, PartOfPart
<1>3. RestOf(d, l) = SubSeq(d, a + 1, a + l) /\ RestOf(d, l - k) = SubSeq(d, (a + k) + 1, a + l)
  BY <1>1 DEF RestOf
<1> QED BY <1>2, <1>3

\* The bytes of a blocked write, part of them sent.
LEMMA UnsentParts ==
  ASSUME NEW d \in Seq(Bytes), NEW a \in Nat, NEW l \in Nat, a + l = Len(d), NEW k \in 0..l
  PROVE  /\ SubSeq(d, a + 1, a + l) \in Seq(Bytes) /\ Len(SubSeq(d, a + 1, a + l)) = l
         /\ SubSeq(SubSeq(d, a + 1, a + l), k + 1, l) = SubSeq(d, (a + k) + 1, (a + k) + (l - k))
<1>1. a + l <= Len(d) /\ (a + k) + (l - k) = a + l /\ Len(d) \in Nat
  OBVIOUS
<1> QED BY <1>1, PartOfPart

LEMMA InitBooks == TcpInit => Books
<1> SUFFICES ASSUME TcpInit PROVE Books
  OBVIOUS
<1> USE DEF TcpInit
<1>1. EchoTypeInv
  BY DEF EchoTypeInv, Sockets, Labels
<1>2. SlotInv /\ CallbackInv /\ BufferInv /\ FreshInv
  BY DEF SlotInv, CallbackInv, BufferInv, FreshInv, Linked
<1> QED BY <1>1, <1>2 DEF Books

\* The peers, picotcp and the start of a callback.
LEMMA PeerBooks ==
  ASSUME Books, NEW c \in Conns, NEW ev, Connect(c) \/ PeerSends(c) \/ Callback(c, ev)
  PROVE  Books'
<1>1. CASE Connect(c)
  <2> USE <1>1 DEF Connect, slotVars, Books
  <2>1. EchoTypeInv'
    BY DEF EchoTypeInv
  <2>2. SlotInv'
    BY DEF SlotInv, Linked, EchoTypeInv
  <2>3. CallbackInv'
    BY DEF CallbackInv, Linked, EchoTypeInv
  <2>4. BufferInv'
    BY DEF BufferInv
  <2>5. FreshInv'
    BY DEF FreshInv, EchoTypeInv
  <2> QED BY <2>1, <2>2, <2>3, <2>4, <2>5
<1>2. CASE PeerSends(c)
  <2> USE <1>2 DEF PeerSends, slotVars, Books
  <2>1. EchoTypeInv'
    <3> DEFINE e == <<c, peerSent[c] + 1>>
    <3>1. e \in Bytes /\ recvQueue[c] \in Seq(Bytes) /\ peerSent[c] \in Nat
      BY DEF EchoTypeInv, Bytes
    <3> HIDE DEF e
    <3>2. Append(recvQueue[c], e) \in Seq(Bytes)
      BY <3>1
    <3>3. recvQueue' = [recvQueue EXCEPT ![c] = Append(recvQueue[c], e)]
      BY DEF e
    <3>4. recvQueue' \in [Conns -> Seq(Bytes)]
      BY <3>2, <3>3 DEF EchoTypeInv
    <3>5. peerSent' \in [Conns -> Nat] /\ rdDue' \in [Conns -> BOOLEAN]
      BY <3>1 DEF EchoTypeInv
    <3> QED BY <3>4, <3>5 DEF EchoTypeInv
  <2>2. SlotInv' /\ CallbackInv' /\ BufferInv'
    BY DEF SlotInv, CallbackInv, BufferInv, Linked
  <2>3. FreshInv'
    BY DEF FreshInv, EchoTypeInv
  <2> QED BY <2>1, <2>2, <2>3
<1>3. CASE Callback(c, ev)
  <2> USE <1>3 DEF Callback, slotVars, Books
  <2>1. EchoTypeInv'
    <3>1. rdDue' \in [Conns -> BOOLEAN]
      BY DEF EchoTypeInv
    <3> QED BY <3>1 DEF EchoTypeInv, Labels, Sockets
  <2>2. SlotInv' /\ CallbackInv' /\ BufferInv' /\ FreshInv'
    BY DEF SlotInv, CallbackInv, BufferInv, FreshInv, Linked
  <2> QED BY <2>1, <2>2
<1> QED BY <1>1, <1>2, <1>3

LEMMA AcceptBooks ==
  ASSUME Books, NEW c \in Conns, Accept(c)
  PROVE  Books'
<1> DEFINE i == SlotOf(NoConn)
<1>1. i \in Slots /\ connected[i] = NoConn
  BY FreeSlot DEF Accept
<1>2. /\ tcpPc = "idle" /\ link[c] = "backlog" /\ write_pending' = [write_pending EXCEPT ![i] = FALSE]
      /\ UNCHANGED <<tcpPc, sock, events, chunk, data_packet, remaining_payload,
                     sent_payload, recvQueue, rdDue, peerSent, peerGot, failed>>
      /\ \/ connected' = [connected EXCEPT ![i] = c] /\ link' = [link EXCEPT ![c] = "open"]
         \/ UNCHANGED <<connected, link>>
  BY DEF Accept, Reset
<1> HIDE DEF i
<1> USE DEF Books
<1>3. EchoTypeInv'
  <2>1. connected' \in [Slots -> Sockets]
    BY <1>1, <1>2 DEF EchoTypeInv, Sockets
  <2>2. link' \in [Conns -> {"none", "backlog", "open", "closing", "finished"}]
    BY <1>2 DEF EchoTypeInv
  <2>3. write_pending' \in [Slots -> BOOLEAN]
    BY <1>1, <1>2 DEF EchoTypeInv
  <2> QED BY <1>2, <2>1, <2>2, <2>3 DEF EchoTypeInv
<1>4. sock = NoConn
  BY <1>2 DEF CallbackInv
<1>5. CallbackInv'
  BY <1>2, <1>4 DEF CallbackInv
<1>6. \A d \in Conns : d = c => ~Linked(d)
  BY <1>2 DEF Linked
<1>7. CASE UNCHANGED <<connected, link>>
  <2>1. SlotInv' /\ FreshInv'
    BY <1>2, <1>7 DEF SlotInv, FreshInv, Linked
  <2>2. BufferInv'
    BY <1>1, <1>2, <1>4, <1>7 DEF BufferInv, EchoTypeInv
  <2> QED BY <1>3, <1>5, <2>1, <2>2
<1>8. CASE connected' = [connected EXCEPT ![i] = c] /\ link' = [link EXCEPT ![c] = "open"]
  <2>1. /\ \A j \in Slots : connected'[j] = IF j = i THEN c ELSE connected[j]
        /\ \A d \in Conns : link'[d] = IF d = c THEN "open" ELSE link[d]
        /\ \A j \in Slots : write_pending'[j] = IF j = i THEN FALSE ELSE write_pending[j]
    BY <1>1, <1>2, <1>8 DEF EchoTypeInv
  <2>2. \A j \in Slots : connected[j] # c
    BY <1>6 DEF SlotInv
  <2>3. SlotInv'
    <3>1. ASSUME NEW j \in Slots, connected'[j] # NoConn
          PROVE  link'[connected'[j]] \in {"open", "closing"}
      <4>1. CASE j = i
        BY <2>1, <4>1
      <4>2. CASE j # i
        <5>1. connected[j] \in Conns /\ connected[j] # c /\ Linked(connected[j])
          BY <2>1, <3>1, <2>2, <4>2 DEF SlotInv, EchoTypeInv, Sockets
        <5> QED BY <2>1, <4>2, <5>1 DEF Linked
      <4> QED BY <4>1, <4>2
    <3>2. ASSUME NEW d \in Conns, link'[d] \in {"open", "closing"}
          PROVE  \E j \in Slots : connected'[j] = d
      <4>1. CASE d = c
        BY <1>1, <2>1, <4>1
      <4>2. CASE d # c
        <5>1. PICK j \in Slots : connected[j] = d
          BY <2>1, <3>2, <4>2 DEF SlotInv, Linked
        <5>2. j # i
          BY <1>1, <5>1
        <5> QED BY <2>1, <5>1, <5>2
      <4> QED BY <4>1, <4>2
    <3>3. \A j, k \in Slots : connected'[j] = connected'[k] /\ connected'[j] # NoConn => j = k
      BY <2>1, <2>2 DEF SlotInv
    <3> QED BY <3>1, <3>2, <3>3 DEF SlotInv, Linked
  <2>4. BufferInv'
    BY <1>2, <2>1 DEF BufferInv
  <2>5. FreshInv'
    BY <1>2, <2>1 DEF FreshInv
  <2> QED BY <1>3, <1>5, <2>3, <2>4, <2>5
<1> QED BY <1>2, <1>7, <1>8

\* Steps of a callback that only move on.
LEMMA IdleBooks ==
  ASSUME Books, SkipWrite \/ WriteBlocked \/ ReadDone
  PROVE  Books'
<1>1. /\ tcpPc \in {"wr", "rd"} /\ tcpPc' \in {"rd", "end"}
      /\ UNCHANGED <<sock, events, chunk, slotVars, netVars>>
  BY DEF SkipWrite, WriteBlocked, ReadDone, Local
<1>2. EchoTypeInv'
  BY <1>1 DEF Books, EchoTypeInv, slotVars, netVars, Labels
<1>3. SlotInv' /\ FreshInv' /\ BufferInv'
  BY <1>1 DEF Books, SlotInv, FreshInv, BufferInv, Linked, slotVars, netVars
<1>4. CallbackInv'
  BY <1>1 DEF Books, CallbackInv, Linked, slotVars, netVars
<1> QED BY <1>2, <1>3, <1>4 DEF Books

\* A blocked write gets on.
LEMMA WriteMoreBooks ==
  ASSUME Books, NEW n, WriteMore(n)
  PROVE  /\ Books'
         /\ LET i == client_id
            IN  /\ Unsent(i) \in Seq(Bytes) /\ Len(Unsent(i)) = remaining_payload[i]
                /\ n \in 1..Len(Unsent(i))
                /\ Unsent(i)' = SubSeq(Unsent(i), n + 1, Len(Unsent(i)))
<1> DEFINE i == client_id
           d == data_packet[i]
           a == sent_payload[i]
           l == remaining_payload[i]
<1>1. /\ tcpPc = "wr" /\ write_pending[i] /\ n \in 1..l
      /\ peerGot' = [peerGot EXCEPT ![sock] = @ \o SubSeq(Unsent(i), 1, n)]
      /\ remaining_payload' = [remaining_payload EXCEPT ![i] = @ - n]
      /\ sent_payload' = [sent_payload EXCEPT ![i] = @ + n]
      /\ UNCHANGED <<tcpPc, sock, events, chunk, connected, data_packet,
                     write_pending, link, recvQueue, rdDue, peerSent, failed>>
  BY DEF WriteMore, Advanced
<1>2. /\ sock \in Conns /\ Linked(sock) /\ i \in Slots /\ connected[i] = sock
      /\ \A j \in Slots : connected[j] = sock => j = i
  BY <1>1, CallbackSlot
<1> HIDE DEF i
<1>3. d \in Seq(Bytes) /\ a \in Nat /\ l \in Nat /\ a + l = Len(d) /\ n \in 0..l
  BY <1>1, <1>2 DEF Books, EchoTypeInv, BufferInv
<1>4. /\ Unsent(i) \in Seq(Bytes) /\ Len(Unsent(i)) = l
      /\ SubSeq(Unsent(i), n + 1, l) = SubSeq(d, (a + n) + 1, (a + n) + (l - n))
  <2> HIDE DEF d, a, l
  <2>1. /\ SubSeq(d, a + 1, a + l) \in Seq(Bytes) /\ Len(SubSeq(d, a + 1, a + l)) = l
        /\ SubSeq(SubSeq(d, a + 1, a + l), n + 1, l) = SubSeq(d, (a + n) + 1, (a + n) + (l - n))
    BY <1>3, UnsentParts
  <2> QED BY <2>1 DEF Unsent, d, a, l
<1>5. /\ remaining_payload'[i] = l - n /\ sent_payload'[i] = a + n /\ data_packet'[i] = d
      /\ l - n \in Nat /\ a + n \in Nat
      /\ \A j \in Slots : j # i => remaining_payload'[j] = remaining_payload[j]
                                   /\ sent_payload'[j] = sent_payload[j]
  BY <1>1, <1>2, <1>3 DEF Books, EchoTypeInv
<1>6. Unsent(i)' = SubSeq(Unsent(i), n + 1, Len(Unsent(i)))
  <2>1. i' = i
    BY <1>1 DEF i, client_id, SlotOf
  <2> QED BY <1>4, <1>5, <2>1 DEF Unsent
<1>7. EchoTypeInv'
  <2>1. peerGot[sock] \o SubSeq(Unsent(i), 1, n) \in Seq(Bytes)
    <3>1. n \in 0..Len(Unsent(i)) /\ peerGot[sock] \in Seq(Bytes)
      BY <1>2, <1>3, <1>4 DEF Books, EchoTypeInv
    <3>2. SubSeq(Unsent(i), 1, n) \in Seq(Bytes)
      BY <1>4, <3>1, PrefixOrder
    <3> QED BY <3>1, <3>2, ConcatOrder
  <2>2. peerGot' \in [Conns -> Seq(Bytes)]
    BY <1>1, <2>1 DEF Books, EchoTypeInv
  <2>3. remaining_payload' \in [Slots -> Nat] /\ sent_payload' \in [Slots -> Nat]
    BY <1>1, <1>5 DEF Books, EchoTypeInv
  <2> QED BY <1>1, <2>2, <2>3 DEF Books, EchoTypeInv
<1>8. SlotInv' /\ CallbackInv'
  BY <1>1 DEF Books, SlotInv, CallbackInv, Linked
<1>9. BufferInv'
  <2>1. (l - n) + (a + n) = Len(d)
    BY <1>1, <1>3
  <2> QED BY <1>1, <1>3, <1>5, <2>1 DEF Books, BufferInv
<1>10. FreshInv'
  BY <1>1, <1>2 DEF Books, FreshInv, Linked, EchoTypeInv
<1> QED BY <1>1, <1>4, <1>6, <1>7, <1>8, <1>9, <1>10 DEF Books, i

\* A blocked write is done.
LEMMA WriteDoneBooks ==
  ASSUME Books, WriteDone
  PROVE  Books' /\ Unsent(client_id) = <<>>
<1> DEFINE i == client_id
<1>1. /\ tcpPc = "wr" /\ write_pending[i] /\ remaining_payload[i] = 0 /\ tcpPc' = "rd"
      /\ write_pending' = [write_pending EXCEPT ![i] = FALSE]
      /\ UNCHANGED <<sock, chunk, connected, data_packet, remaining_payload,
                     sent_payload, netVars>>
  BY DEF WriteDone, Local
<1>2. i \in Slots /\ connected[i] = sock
  BY <1>1, CallbackSlot
<1> HIDE DEF i
<1>3. EchoTypeInv' /\ SlotInv' /\ CallbackInv' /\ FreshInv'
  BY <1>1 DEF Books, EchoTypeInv, SlotInv, CallbackInv, FreshInv, Linked, netVars, Labels
<1>4. BufferInv'
  BY <1>1, <1>2 DEF Books, BufferInv, EchoTypeInv
<1>5. Unsent(i) = <<>>
  BY <1>1, <1>2 DEF Unsent, Books, EchoTypeInv
<1> QED BY <1>3, <1>4, <1>5 DEF Books, i

\* A chunk is read.
LEMMA ReadChunkBooks ==
  ASSUME Books, NEW n, ReadChunk(n)
  PROVE  Books'
<1> DEFINE i == client_id
           q == recvQueue[sock]
           f == SubSeq(q, 1, n)
           r == SubSeq(q, n + 1, Len(q))
<1>1. /\ tcpPc = "rd" /\ ~write_pending[i] /\ n \in 1..Len(q) /\ tcpPc' = "send"
      /\ chunk' = f /\ data_packet' = [data_packet EXCEPT ![i] = f]
      /\ recvQueue' = [recvQueue EXCEPT ![sock] = r]
      /\ UNCHANGED <<sock, events, connected, write_pending, remaining_payload,
                     sent_payload, link, rdDue, peerSent, peerGot, failed>>
  BY DEF ReadChunk, Local
<1>2. /\ sock \in Conns /\ Linked(sock) /\ i \in Slots /\ connected[i] = sock
      /\ \A j \in Slots : connected[j] = sock => j = i
  BY <1>1, CallbackSlot
<1>3. q \in Seq(Bytes) /\ n \in 0..Len(q)
  BY <1>1, <1>2 DEF Books, EchoTypeInv
<1> HIDE DEF i, q
<1>4. f \in Seq(Bytes) /\ r \in Seq(Bytes) /\ Len(f) \in Nat
  BY <1>3, PrefixOrder, SuffixOrder
<1>5. f = RestOf(f, Len(f))
  <2>1. Len(f) - Len(f) + 1 = 1
    BY <1>4
  <2> HIDE DEF f
  <2>2. SubSeq(f, 1, Len(f)) = f
    BY <1>4
  <2> QED BY <2>1, <2>2 DEF RestOf
<1> HIDE DEF f, r
<1>6. EchoTypeInv'
  BY <1>1, <1>2, <1>4 DEF Books, EchoTypeInv, Labels
<1>7. SlotInv' /\ CallbackInv'
  BY <1>1 DEF Books, SlotInv, CallbackInv, Linked
<1>8. BufferInv'
  <2>1. \A j \in Slots : data_packet'[j] = IF j = i THEN f ELSE data_packet[j]
    BY <1>1, <1>2 DEF Books, EchoTypeInv
  <2>2. Len(f) <= Len(f)
    BY <1>4
  <2> QED BY <1>1, <1>2, <1>5, <2>1, <2>2 DEF Books, BufferInv
<1>9. FreshInv'
  BY <1>1, <1>2 DEF Books, FreshInv, Linked, EchoTypeInv
<1> QED BY <1>6, <1>7, <1>8, <1>9 DEF Books

\* A round of the send loop.
LEMMA SendMoreBooks ==
  ASSUME Books, NEW n, SendMore(n)
  PROVE  Books'
<1> DEFINE i == client_id
           d == data_packet[i]
           l == Len(chunk)
           r == SubSeq(chunk, n + 1, l)
<1>1. /\ tcpPc = "send" /\ n \in 1..l /\ chunk' = r
      /\ tcpPc' = IF n = l THEN "rd" ELSE "send"
      /\ peerGot' = [peerGot EXCEPT ![sock] = @ \o SubSeq(chunk, 1, n)]
      /\ UNCHANGED <<sock, events, slotVars, link, recvQueue, rdDue, peerSent, failed>>
  BY DEF SendMore, Local
<1>2. /\ sock \in Conns /\ Linked(sock) /\ i \in Slots /\ connected[i] = sock
      /\ \A j \in Slots : connected[j] = sock => j = i
  BY <1>1, CallbackSlot
<1> HIDE DEF i
<1>3. /\ chunk \in Seq(Bytes) /\ d \in Seq(Bytes) /\ chunk = RestOf(d, l)
      /\ l \in 0..Len(d) /\ l \in Nat /\ n \in 0..l /\ peerGot[sock] \in Seq(Bytes)
      /\ ~write_pending[i]
  BY <1>1, <1>2 DEF Books, EchoTypeInv, BufferInv
<1>4. r \in Seq(Bytes) /\ Len(r) = l - n /\ r = RestOf(d, l - n) /\ l - n \in 0..Len(d)
  <2> HIDE DEF d, l
  <2>1. RestOf(d, l - n) \in Seq(Bytes) /\ Len(RestOf(d, l - n)) = l - n
    <3>1. l - n \in 0..Len(d) /\ 0 \in 0..(l - n)
      BY <1>3
    <3> QED BY <1>3, <3>1, RestParts
  <2>2. SubSeq(RestOf(d, l), n + 1, l) = RestOf(d, l - n)
    BY <1>3, RestParts
  <2>3. r = SubSeq(RestOf(d, l), n + 1, l)
    BY <1>3
  <2>4. l - n \in 0..Len(d)
    BY <1>3
  <2> QED BY <2>1, <2>2, <2>3, <2>4
<1>5. peerGot[sock] \o SubSeq(chunk, 1, n) \in Seq(Bytes)
  <2>1. SubSeq(chunk, 1, n) \in Seq(Bytes)
    BY <1>3, PrefixOrder
  <2> QED BY <1>3, <2>1, ConcatOrder
<1> HIDE DEF r
<1>6. EchoTypeInv'
  BY <1>1, <1>2, <1>4, <1>5 DEF Books, EchoTypeInv, Labels, slotVars
<1>7. SlotInv' /\ FreshInv'
  BY <1>1, <1>2 DEF Books, SlotInv, FreshInv, Linked, EchoTypeInv, slotVars
<1>8. CallbackInv'
  <2>1. n = l => r = <<>>
    BY <1>3, <1>4, EmptySeq
  <2> QED BY <1>1, <2>1 DEF Books, CallbackInv, Linked, slotVars
<1>9. BufferInv'
  <2>1. \A j \in Slots : connected[j] = sock => j = i
    BY <1>2
  <2>2. Len(r) <= Len(d) /\ r = RestOf(d, Len(r))
    BY <1>4
  <2> QED BY <1>1, <1>3, <2>1, <2>2 DEF Books, BufferInv, slotVars
<1> QED BY <1>6, <1>7, <1>8, <1>9 DEF Books

\* The rest of a chunk is saved: what is unsent is what was in the chunk.
LEMMA SendBlocksBooks ==
  ASSUME Books, SendBlocks
  PROVE  Books' /\ Unsent(client_id)' = chunk
<1> DEFINE i == client_id
           d == data_packet[i]
           l == Len(chunk)
<1>1. /\ tcpPc = "send" /\ tcpPc' = "rd" /\ chunk' = <<>>
      /\ write_pending' = [write_pending EXCEPT ![i] = TRUE]
      /\ remaining_payload' = [remaining_payload EXCEPT ![i] = l]
      /\ sent_payload' = [sent_payload EXCEPT ![i] = Len(d) - l]
      /\ UNCHANGED <<sock, events, connected, data_packet, netVars>>
  BY DEF SendBlocks, Local
<1>2. /\ sock \in Conns /\ Linked(sock) /\ i \in Slots /\ connected[i] = sock
      /\ \A j \in Slots : connected[j] = sock => j = i
  BY <1>1, CallbackSlot
<1>3. i' = i
  BY <1>1 DEF client_id, SlotOf
<1> HIDE DEF i
<1>4. /\ chunk \in Seq(Bytes) /\ d \in Seq(Bytes) /\ chunk = RestOf(d, l)
      /\ l \in Nat /\ Len(d) \in Nat /\ l <= Len(d)
  BY <1>1, <1>2 DEF Books, EchoTypeInv, BufferInv
<1>5. /\ \A j \in Slots :
           /\ write_pending'[j] = IF j = i THEN TRUE ELSE write_pending[j]
           /\ remaining_payload'[j] = IF j = i THEN l ELSE remaining_payload[j]
           /\ sent_payload'[j] = IF j = i THEN Len(d) - l ELSE sent_payload[j]
      /\ data_packet' = data_packet /\ connected' = connected /\ sock' = sock
  BY <1>1, <1>2 DEF Books, EchoTypeInv
<1>6. Unsent(i)' = chunk
  <2> HIDE DEF d, l
  <2>1. Unsent(i)' = SubSeq(d, (Len(d) - l) + 1, (Len(d) - l) + l)
    BY <1>2, <1>3, <1>5 DEF Unsent, d
  <2>2. (Len(d) - l) + l = Len(d)
    BY <1>4
  <2> QED BY <1>4, <2>1, <2>2 DEF RestOf
<1>7. EchoTypeInv'
  <2>1. Len(d) - l \in Nat
    BY <1>4
  <2>2. l \in Nat /\ <<>> \in Seq(Bytes)
    BY <1>4
  <2> HIDE DEF d, l
  <2>3. remaining_payload' \in [Slots -> Nat] /\ sent_payload' \in [Slots -> Nat]
    BY <1>1, <2>1, <2>2 DEF Books, EchoTypeInv
  <2>4. write_pending' \in [Slots -> BOOLEAN]
    BY <1>1 DEF Books, EchoTypeInv
  <2> QED BY <1>1, <2>2, <2>3, <2>4 DEF Books, EchoTypeInv, Labels, netVars
<1>8. SlotInv' /\ FreshInv' /\ CallbackInv'
  BY <1>1 DEF Books, SlotInv, FreshInv, CallbackInv, Linked, netVars
<1>9. BufferInv'
  <2>1. (Len(d) - l) + l = Len(d) /\ d = data_packet[i]
    BY <1>4
  <2>2. tcpPc' # "send"
    BY <1>1
  <2> HIDE DEF d, l
  <2>3. ASSUME NEW j \in Slots, connected'[j] # NoConn, write_pending'[j]
        PROVE  sent_payload'[j] + remaining_payload'[j] = Len(data_packet'[j])
    <3>1. CASE j = i
      BY <1>5, <2>1, <3>1
    <3>2. CASE j # i
      BY <1>5, <2>3, <3>2 DEF Books, BufferInv
    <3> QED BY <3>1, <3>2
  <2> QED BY <2>2, <2>3 DEF BufferInv
<1> QED BY <1>6, <1>7, <1>8, <1>9 DEF Books, i

\* A send fails.
LEMMA SendFailsBooks ==
  ASSUME Books, SendFails
  PROVE  Books'
<1>1. /\ tcpPc = "send" /\ tcpPc' = "rd" /\ chunk' = <<>>
      /\ failed' = [failed EXCEPT ![sock] = TRUE]
      /\ UNCHANGED <<sock, events, slotVars, link, recvQueue, rdDue, peerSent, peerGot>>
  BY DEF SendFails, Local
<1>2. EchoTypeInv'
  <2>1. failed' \in [Conns -> BOOLEAN]
    BY <1>1 DEF Books, EchoTypeInv
  <2>2. <<>> \in Seq(Bytes)
    OBVIOUS
  <2> QED BY <1>1, <2>1, <2>2 DEF Books, EchoTypeInv, Labels, slotVars
<1>3. SlotInv' /\ FreshInv' /\ CallbackInv' /\ BufferInv'
  BY <1>1 DEF Books, SlotInv, FreshInv, CallbackInv, BufferInv, Linked, slotVars
<1> QED BY <1>2, <1>3 DEF Books

\* The end of a callback.  Only the socket's own slot and link change.
LEMMA FinishBooks ==
  ASSUME Books, Finish
  PROVE  Books'
<1> DEFINE i == client_id
<1>1. /\ tcpPc = "end" /\ tcpPc' \in {"idle", "dead"} /\ sock' = NoConn
      /\ link' = [link EXCEPT ![sock] = IF "FIN" \in events THEN "finished"
                                     ELSE IF "CLOSE" \in events THEN "closing" ELSE @]
      /\ connected' = IF "FIN" \in events THEN [connected EXCEPT ![i] = NoConn] ELSE connected
      /\ UNCHANGED <<chunk, data_packet, write_pending, remaining_payload,
                     sent_payload, recvQueue, rdDue, peerSent, peerGot, failed>>
  BY DEF Finish, Local
<1>2. /\ sock \in Conns /\ Linked(sock) /\ i \in Slots /\ connected[i] = sock
      /\ \A j \in Slots : connected[j] = sock => j = i
  BY <1>1, CallbackSlot
<1> HIDE DEF i
<1>3. /\ \A c \in Conns : c # sock => link'[c] = link[c]
      /\ "FIN" \in events => link'[sock] = "finished"
      /\ "FIN" \notin events => link'[sock] \in {"open", "closing"}
      /\ link'[sock] \in {"open", "closing", "finished"}
      /\ \A j \in Slots : connected'[j] = IF j = i /\ "FIN" \in events THEN NoConn ELSE connected[j]
  <2> DEFINE end == IF "FIN" \in events THEN "finished"
                    ELSE IF "CLOSE" \in events THEN "closing" ELSE link[sock]
  <2>1. /\ "FIN" \in events => end = "finished"
        /\ "FIN" \notin events => end \in {"open", "closing"}
    BY <1>2 DEF Linked
  <2>2. link' = [link EXCEPT ![sock] = end]
    BY <1>1
  <2> HIDE DEF end
  <2>3. link'[sock] = end /\ \A c \in Conns : c # sock => link'[c] = link[c]
    BY <1>2, <2>2 DEF Books, EchoTypeInv
  <2>4. \A j \in Slots : connected'[j] = IF j = i /\ "FIN" \in events THEN NoConn ELSE connected[j]
    BY <1>1, <1>2 DEF Books, EchoTypeInv
  <2> QED BY <2>1, <2>3, <2>4
<1>4. EchoTypeInv'
  <2>1. link' \in [Conns -> {"none", "backlog", "open", "closing", "finished"}]
    BY <1>1, <1>2 DEF Books, EchoTypeInv
  <2>2. connected' \in [Slots -> Sockets]
    BY <1>1, <1>2 DEF Books, EchoTypeInv, Sockets
  <2> QED BY <1>1, <2>1, <2>2 DEF Books, EchoTypeInv, Labels, Sockets
<1>5. SlotInv'
  <2>1. ASSUME NEW j \in Slots, connected'[j] # NoConn
        PROVE  link'[connected'[j]] \in {"open", "closing"}
    <3>1. connected'[j] = connected[j] /\ connected[j] \in Conns /\ Linked(connected[j])
      BY <1>3, <2>1 DEF Books, SlotInv, EchoTypeInv, Sockets
    <3>2. CASE connected[j] # sock
      BY <1>3, <3>1, <3>2 DEF Linked
    <3>3. CASE connected[j] = sock
      <4>1. "FIN" \notin events
        BY <1>2, <1>3, <2>1, <3>3
      <4> QED BY <1>3, <3>1, <3>3, <4>1
    <3> QED BY <3>2, <3>3
  <2>2. ASSUME NEW d \in Conns, link'[d] \in {"open", "closing"}
        PROVE  \E j \in Slots : connected'[j] = d
    <3>1. CASE d = sock
      BY <1>2, <1>3, <2>2, <3>1
    <3>2. CASE d # sock
      <4>1. PICK j \in Slots : connected[j] = d
        BY <1>3, <2>2, <3>2 DEF Books, SlotInv, Linked
      <4> QED BY <1>2, <1>3, <3>2, <4>1
    <3> QED BY <3>1, <3>2
  <2>3. \A j, k \in Slots : connected'[j] = connected'[k] /\ connected'[j] # NoConn => j = k
    BY <1>3 DEF Books, SlotInv
  <2> QED BY <2>1, <2>2, <2>3 DEF SlotInv, Linked
<1>6. CallbackInv'
  <2>1. chunk = <<>>
    BY <1>1 DEF Books, CallbackInv
  <2> QED BY <1>1, <2>1 DEF CallbackInv
<1>7. BufferInv'
  BY <1>1, <1>3 DEF Books, BufferInv
<1>8. FreshInv'
  BY <1>1, <1>3 DEF Books, FreshInv
<1> QED BY <1>4, <1>5, <1>6, <1>7, <1>8 DEF Books

\* Every step.
LEMMA StepBooks == Books /\ [Next]_vars => Books'
<1> SUFFICES ASSUME Books, [Next]_vars PROVE Books'
  OBVIOUS
<1>1. CASE UNCHANGED tcpVars
  BY <1>1 DEF Books, EchoTypeInv, SlotInv, CallbackInv, BufferInv, FreshInv, Linked, Unsent,
              tcpVars, slotVars, netVars
<1>2. CASE TcpNext
  <2>1. CASE \E c \in Conns : Connect(c) \/ PeerSends(c) \/ \E ev \in EventSets : Callback(c, ev)
    BY <2>1, PeerBooks
  <2>2. CASE \E c \in Conns : Accept(c)
    BY <2>2, AcceptBooks
  <2>3. CASE SkipWrite \/ WriteBlocked \/ ReadDone
    BY <2>3, IdleBooks
  <2>4. CASE \E n \in 1..TCP_READ_SIZE : WriteMore(n)
    BY <2>4, WriteMoreBooks
  <2>5. CASE \E n \in 1..TCP_READ_SIZE : ReadChunk(n)
    BY <2>5, ReadChunkBooks
  <2>6. CASE \E n \in 1..TCP_READ_SIZE : SendMore(n)
    BY <2>6, SendMoreBooks
  <2>7. CASE WriteDone \/ SendBlocks \/ SendFails \/ Finish
    BY <2>7, WriteDoneBooks, SendBlocksBooks, SendFailsBooks, FinishBooks
  <2> QED BY <1>2, <2>1, <2>2, <2>3, <2>4, <2>5, <2>6, <2>7 DEF TcpNext, TcpCallback, WriteProgress
<1> QED BY <1>1, <1>2 DEF Next, vars, notCrypto, notDriver, notBuffers, notUdp
-----------------------------------------------------------------------------
(* The streams.  Every step leaves a connection's bytes where they are or    *)
(* moves them in one of the ways above.                                      *)

Intact(c) == Linked(c) /\ ~failed[c]

StreamInv ==
  \A c \in Conns :
    /\ Kept(c, peerGot[c], InServer(c), recvQueue[c], peerSent[c])
    /\ Intact(c) => Whole(c, peerGot[c], InServer(c), recvQueue[c], peerSent[c])

Moved(c) ==
  LET g == peerGot[c]
      s == InServer(c)
      q == recvQueue[c]
      n == peerSent[c]
      h == peerGot'[c]
      t == InServer(c)'
      r == recvQueue'[c]
      m == peerSent'[c]
  IN  \/ Sent(c, g, s, q, n, h, t, r, m) \/ Read(c, g, s, q, n, h, t, r, m)
      \/ Echoed(c, g, s, q, n, h, t, r, m)

Still(c) ==
  /\ peerGot'[c] = peerGot[c] /\ recvQueue'[c] = recvQueue[c] /\ peerSent'[c] = peerSent[c]
  /\ InServer(c)' = InServer(c)

StreamStep(c) ==
  \/ (Moved(c) \/ Still(c)) /\ (Intact(c)' => Intact(c))
  \/ Still(c) /\ link[c] \in {"none", "backlog"}
  \/ /\ Lost(c, peerGot[c], InServer(c), recvQueue[c], peerSent[c],
                peerGot'[c], InServer(c)', recvQueue'[c], peerSent'[c])
     /\ ~Intact(c)'

LEMMA InServerType ==
  ASSUME Books, NEW c \in Conns
  PROVE  InServer(c) \in Seq(Bytes)
<1>1. CASE ~Linked(c)
  <2>1. InServer(c) = <<>>
    BY <1>1, ServerKnown DEF ServerFact
  <2> QED BY <2>1
<1>2. CASE Linked(c)
  <2>1. PICK i \in Slots : connected[i] = c
    BY <1>2 DEF Books, SlotInv
  <2>2. InServer(c) = IF write_pending[i] THEN Unsent(i) ELSE IF sock = c THEN chunk ELSE <<>>
    BY <2>1, ServerKnown DEF ServerFact
  <2>3. write_pending[i] => Unsent(i) \in Seq(Bytes)
    <3> SUFFICES ASSUME write_pending[i] PROVE Unsent(i) \in Seq(Bytes)
      OBVIOUS
    <3> DEFINE d == data_packet[i]
               a == sent_payload[i]
               l == remaining_payload[i]
    <3>1. d \in Seq(Bytes) /\ a \in Nat /\ l \in Nat /\ a + l = Len(d)
      BY <2>1 DEF Books, EchoTypeInv, BufferInv
    <3> HIDE DEF d, a, l
    <3>2. 0 \in 0..l
      BY <3>1
    <3>3. SubSeq(d, a + 1, a + l) \in Seq(Bytes)
      BY <3>1, <3>2, UnsentParts
    <3> QED BY <3>3 DEF Unsent, d, a, l
  <2>4. chunk \in Seq(Bytes) /\ <<>> \in Seq(Bytes)
    BY DEF Books, EchoTypeInv
  <2> QED BY <2>2, <2>3, <2>4
<1> QED BY <1>1, <1>2

\* What every one of these steps does to a stream keeps it faithful.
LEMMA StreamKept ==
  ASSUME Books, StreamInv, \A c \in Conns : StreamStep(c)
  PROVE  StreamInv'
<1> SUFFICES ASSUME NEW c \in Conns
             PROVE  /\ Kept(c, peerGot[c], InServer(c), recvQueue[c], peerSent[c])'
                    /\ Intact(c)' => Whole(c, peerGot[c], InServer(c), recvQueue[c], peerSent[c])'
  BY DEF StreamInv
<1> DEFINE g == peerGot[c]
           s == InServer(c)
           q == recvQueue[c]
           n == peerSent[c]
           h == peerGot'[c]
           t == InServer(c)'
           r == recvQueue'[c]
           m == peerSent'[c]
<1>1. g \in Seq(Bytes) /\ s \in Seq(Bytes) /\ q \in Seq(Bytes) /\ n \in Nat
  BY InServerType DEF Books, EchoTypeInv
<1>2. Kept(c, g, s, q, n) /\ (Intact(c) => Whole(c, g, s, q, n))
  BY DEF StreamInv
<1>3. StreamStep(c)
  OBVIOUS
<1>4. link[c] \in {"none", "backlog"} => Whole(c, g, s, q, n)
  <2> SUFFICES ASSUME link[c] \in {"none", "backlog"} PROVE Whole(c, g, s, q, n)
    OBVIOUS
  <2>1. n = 0 /\ g = <<>> /\ q = <<>>
    BY DEF Books, FreshInv
  <2>2. s = <<>>
    BY ServerKnown DEF ServerFact, Linked
  <2> HIDE DEF g, s, q, n
  <2> QED BY <2>1, <2>2 DEF Whole, RunFrom
<1> SUFFICES Kept(c, h, t, r, m) /\ (Intact(c)' => Whole(c, h, t, r, m))
  OBVIOUS
<1>5. Moved(c) => \/ Sent(c, g, s, q, n, h, t, r, m) \/ Read(c, g, s, q, n, h, t, r, m)
                  \/ Echoed(c, g, s, q, n, h, t, r, m)
  BY DEF Moved
<1>6. Still(c) => h = g /\ t = s /\ r = q /\ m = n
  BY DEF Still
<1>7. \/ (Moved(c) \/ Still(c)) /\ (Intact(c)' => Intact(c))
      \/ Still(c) /\ link[c] \in {"none", "backlog"}
      \/ Lost(c, g, s, q, n, h, t, r, m) /\ ~Intact(c)'
  BY <1>3 DEF StreamStep
<1> HIDE DEF g, s, q, n, h, t, r, m
<1>8. CASE Moved(c) /\ (Intact(c)' => Intact(c))
  <2>1. Kept(c, h, t, r, m) /\ (Whole(c, g, s, q, n) => Whole(c, h, t, r, m))
    BY <1>1, <1>2, <1>5, <1>8, MoveKeeps
  <2> QED BY <1>2, <1>8, <2>1
<1>9. CASE Lost(c, g, s, q, n, h, t, r, m) /\ ~Intact(c)'
  BY <1>2, <1>9, LostKeeps DEF Lost
<1> QED BY <1>2, <1>4, <1>6, <1>7, <1>8, <1>9

\* Bytes in the server stay where they are when the connection's slot does.
LEMMA InServerStill ==
  ASSUME Books, Books', NEW c \in Conns,
         \A i \in Slots :
           /\ connected[i] = c <=> connected'[i] = c
           /\ connected[i] = c =>
                /\ write_pending'[i] = write_pending[i] /\ data_packet'[i] = data_packet[i]
                /\ remaining_payload'[i] = remaining_payload[i]
                /\ sent_payload'[i] = sent_payload[i],
         (IF sock' = c THEN chunk' ELSE <<>>) = IF sock = c THEN chunk ELSE <<>>
  PROVE  InServer(c)' = InServer(c)
<1>1. ServerFact /\ ServerFact'
  BY ServerKnown, PTL
<1>2. CASE \E i \in Slots : connected[i] = c
  <2>1. PICK i \in Slots : connected[i] = c
    BY <1>2
  <2>2. InServer(c) = IF write_pending[i] THEN Unsent(i) ELSE IF sock = c THEN chunk ELSE <<>>
    BY <1>1, <2>1 DEF ServerFact
  <2>3. InServer(c)' = IF write_pending'[i] THEN Unsent(i)' ELSE IF sock' = c THEN chunk' ELSE <<>>
    BY <1>1, <2>1 DEF ServerFact
  <2>4. Unsent(i)' = Unsent(i)
    BY <2>1 DEF Unsent
  <2> QED BY <2>1, <2>2, <2>3, <2>4
<1>3. CASE ~\E i \in Slots : connected[i] = c
  <2>1. ~Linked(c) /\ ~Linked(c)'
    BY <1>3 DEF Books, SlotInv
  <2> QED BY <1>1, <2>1 DEF ServerFact
<1> QED BY <1>2, <1>3

\* A peer, picotcp and the start of a callback.
LEMMA PeerStreams ==
  ASSUME Books, Books', NEW d \in Conns, NEW ev, Connect(d) \/ PeerSends(d) \/ Callback(d, ev),
         NEW c \in Conns
  PROVE  StreamStep(c)
<1>1. /\ UNCHANGED <<chunk, slotVars>> /\ (sock' = sock \/ chunk = <<>>)
      /\ UNCHANGED <<peerGot, failed>>
  BY DEF Connect, PeerSends, Callback, Books, CallbackInv
<1>2. InServer(c)' = InServer(c)
  BY <1>1, InServerStill DEF slotVars
<1>3. CASE Connect(d)
  BY <1>2, <1>3 DEF Connect, StreamStep, Still, Intact, Linked, Books, EchoTypeInv
<1>4. CASE PeerSends(d)
  <2>1. c = d => /\ recvQueue'[c] = Append(recvQueue[c], <<c, peerSent[c] + 1>>)
                 /\ peerSent'[c] = peerSent[c] + 1
    BY <1>4 DEF PeerSends, Books, EchoTypeInv
  <2>2. c # d => recvQueue'[c] = recvQueue[c] /\ peerSent'[c] = peerSent[c]
    BY <1>4 DEF PeerSends, Books, EchoTypeInv
  <2>3. Intact(c)' = Intact(c)
    BY <1>4 DEF PeerSends, Intact, Linked
  <2> QED BY <1>1, <1>2, <2>1, <2>2, <2>3 DEF StreamStep, Moved, Still, Sent
<1>5. CASE Callback(d, ev)
  BY <1>2, <1>5 DEF Callback, StreamStep, Still, Intact, Linked
<1> QED BY <1>3, <1>4, <1>5

\* A connection accepted has nothing in the server.
LEMMA AcceptStreams ==
  ASSUME Books, Books', NEW d \in Conns, Accept(d), NEW c \in Conns
  PROVE  StreamStep(c)
<1> DEFINE i == SlotOf(NoConn)
<1>1. i \in Slots /\ connected[i] = NoConn
  BY FreeSlot DEF Accept
<1>2. /\ tcpPc = "idle" /\ link[d] = "backlog" /\ write_pending' = [write_pending EXCEPT ![i] = FALSE]
      /\ UNCHANGED <<tcpPc, sock, events, chunk, data_packet, remaining_payload,
                     sent_payload, recvQueue, rdDue, peerSent, peerGot, failed>>
      /\ \/ connected' = [connected EXCEPT ![i] = d] /\ link' = [link EXCEPT ![d] = "open"]
         \/ UNCHANGED <<connected, link>>
  BY DEF Accept, Reset
<1> HIDE DEF i
<1>3. /\ \A j \in Slots : j # i => connected'[j] = connected[j] /\ write_pending'[j] = write_pending[j]
      /\ connected'[i] \in {NoConn, d} /\ write_pending'[i] = FALSE
      /\ c # d => link'[c] = link[c]
  BY <1>1, <1>2 DEF Books, EchoTypeInv
<1>4. sock = NoConn /\ sock' = NoConn
  BY <1>2 DEF Books, CallbackInv
<1>5. ServerFact /\ ServerFact'
  BY ServerKnown, PTL
<1>6. CASE c = d
  <2>1. InServer(c) = <<>>
    BY <1>2, <1>5, <1>6 DEF ServerFact, Linked
  <2>2. InServer(c)' = <<>>
    <3>1. CASE connected'[i] = d
      BY <1>1, <1>3, <1>4, <1>5, <1>6, <3>1 DEF ServerFact
    <3>2. CASE connected'[i] # d
      <4>1. UNCHANGED link
        BY <1>1, <1>2, <3>2 DEF Books, EchoTypeInv
      <4> QED BY <1>2, <1>5, <1>6, <4>1 DEF ServerFact, Linked
    <3> QED BY <3>1, <3>2
  <2> QED BY <1>2, <1>6, <2>1, <2>2 DEF StreamStep, Still
<1>7. CASE c # d
  <2>1. \A j \in Slots : (connected[j] = c <=> connected'[j] = c) /\ (connected[j] = c => j # i)
    BY <1>1, <1>3, <1>7
  <2>2. \A j \in Slots :
          /\ connected[j] = c <=> connected'[j] = c
          /\ connected[j] = c =>
               /\ write_pending'[j] = write_pending[j] /\ data_packet'[j] = data_packet[j]
               /\ remaining_payload'[j] = remaining_payload[j]
               /\ sent_payload'[j] = sent_payload[j]
    BY <1>2, <1>3, <2>1
  <2>3. InServer(c)' = InServer(c)
    BY <1>2, <2>2, InServerStill
  <2> QED BY <1>2, <1>3, <1>7, <2>3 DEF StreamStep, Still, Intact, Linked
<1> QED BY <1>6, <1>7

\* Steps of a callback that only move on.
LEMMA IdleStreams ==
  ASSUME Books, Books', SkipWrite \/ WriteBlocked \/ ReadDone \/ UNCHANGED tcpVars, NEW c \in Conns
  PROVE  StreamStep(c)
<1>1. UNCHANGED <<sock, chunk, slotVars, netVars>>
  BY DEF SkipWrite, WriteBlocked, ReadDone, tcpVars
<1>2. InServer(c)' = InServer(c)
  BY <1>1, InServerStill DEF slotVars
<1> QED BY <1>1, <1>2 DEF StreamStep, Still, Intact, Linked, netVars

\* A callback leaves the bytes of other connections alone.
LEMMA OtherStreams ==
  ASSUME Books, Books', NEW c \in Conns, c # sock, c # sock',
         \A i \in Slots : connected[i] # sock =>
           /\ connected'[i] = connected[i]
           /\ write_pending'[i] = write_pending[i] /\ data_packet'[i] = data_packet[i]
           /\ remaining_payload'[i] = remaining_payload[i]
           /\ sent_payload'[i] = sent_payload[i],
         \A i \in Slots : connected[i] = sock => connected'[i] # c,
         peerGot'[c] = peerGot[c], recvQueue'[c] = recvQueue[c], peerSent'[c] = peerSent[c],
         link'[c] = link[c], failed'[c] = failed[c]
  PROVE  StreamStep(c)
<1>1. \A i \in Slots :
           /\ connected[i] = c <=> connected'[i] = c
           /\ connected[i] = c =>
                /\ write_pending'[i] = write_pending[i] /\ data_packet'[i] = data_packet[i]
                /\ remaining_payload'[i] = remaining_payload[i]
                /\ sent_payload'[i] = sent_payload[i]
  OBVIOUS
<1>2. InServer(c)' = InServer(c)
  BY <1>1, InServerStill
<1> QED BY <1>2 DEF StreamStep, Still, Intact, Linked

\* During a callback: what the server holds of its connection's bytes.
LEMMA CallbackServer ==
  ASSUME Books, tcpPc \in {"wr", "rd", "send", "end"}
  PROVE  InServer(sock) = IF write_pending[client_id] THEN Unsent(client_id) ELSE chunk
BY CallbackSlot, ServerKnown DEF ServerFact

\* Two cases for a step of a callback: its own connection and any other one.
LEMMA WriteMoreStreams ==
  ASSUME Books, Books', NEW n, WriteMore(n), NEW c \in Conns
  PROVE  StreamStep(c)
<1> DEFINE i == client_id
<1>1. /\ tcpPc = "wr" /\ write_pending[i]
      /\ peerGot' = [peerGot EXCEPT ![sock] = @ \o SubSeq(Unsent(i), 1, n)]
      /\ remaining_payload' = [remaining_payload EXCEPT ![i] = @ - n]
      /\ sent_payload' = [sent_payload EXCEPT ![i] = @ + n]
      /\ UNCHANGED <<tcpPc, sock, events, chunk, connected, data_packet,
                     write_pending, link, recvQueue, rdDue, peerSent, failed>>
  BY DEF WriteMore, Advanced
<1>2. /\ sock \in Conns /\ i \in Slots /\ connected[i] = sock
      /\ \A j \in Slots : connected[j] = sock => j = i
  BY <1>1, CallbackSlot
<1>3. n \in 1..Len(Unsent(i)) /\ Unsent(i)' = SubSeq(Unsent(i), n + 1, Len(Unsent(i)))
  BY WriteMoreBooks
<1>4. InServer(sock) = Unsent(i)
  BY <1>1, CallbackServer
<1>5. InServer(sock)' = Unsent(i)'
  <2>1. ServerFact'
    BY ServerKnown, PTL
  <2>2. i' = i
    BY <1>1 DEF client_id, SlotOf
  <2> QED BY <1>1, <1>2, <2>1, <2>2 DEF ServerFact
<1> HIDE DEF i
<1>6. CASE c = sock
  <2>1. Echoed(c, peerGot[c], InServer(c), recvQueue[c], peerSent[c],
               peerGot'[c], InServer(c)', recvQueue'[c], peerSent'[c])
    <3>1. peerGot'[sock] = peerGot[sock] \o SubSeq(Unsent(i), 1, n)
      BY <1>1, <1>2 DEF Books, EchoTypeInv
    <3>2. sock' = sock /\ c' = c
      BY <1>1
    <3>3. InServer(c)' = SubSeq(Unsent(i), n + 1, Len(Unsent(i)))
      BY <1>3, <1>5, <1>6, <3>2
    <3> QED BY <1>1, <1>3, <1>4, <1>6, <3>1, <3>3 DEF Echoed
  <2> QED BY <1>1, <2>1 DEF StreamStep, Moved, Intact, Linked
<1>7. CASE c # sock
  <2>1. peerGot'[c] = peerGot[c]
    BY <1>1, <1>7 DEF Books, EchoTypeInv
  <2>2. \A j \in Slots : connected[j] # sock =>
          remaining_payload'[j] = remaining_payload[j] /\ sent_payload'[j] = sent_payload[j]
    BY <1>1, <1>2 DEF Books, EchoTypeInv
  <2> QED BY <1>1, <1>7, <2>1, <2>2, OtherStreams
<1> QED BY <1>6, <1>7

LEMMA WriteDoneStreams ==
  ASSUME Books, Books', WriteDone, NEW c \in Conns
  PROVE  StreamStep(c)
<1> DEFINE i == client_id
<1>1. /\ tcpPc = "wr" /\ write_pending[i] /\ tcpPc' = "rd"
      /\ write_pending' = [write_pending EXCEPT ![i] = FALSE]
      /\ UNCHANGED <<sock, chunk, connected, data_packet, remaining_payload,
                     sent_payload, netVars>>
  BY DEF WriteDone, Local
<1>2. /\ sock \in Conns /\ i \in Slots /\ connected[i] = sock
      /\ \A j \in Slots : connected[j] = sock => j = i
  BY <1>1, CallbackSlot
<1>3. InServer(sock) = <<>> /\ chunk = <<>>
  BY <1>1, CallbackServer, WriteDoneBooks DEF Books, CallbackInv
<1>4. InServer(sock)' = <<>>
  <2>1. ServerFact'
    BY ServerKnown, PTL
  <2>2. write_pending'[i] = FALSE
    BY <1>1, <1>2 DEF Books, EchoTypeInv
  <2> QED BY <1>1, <1>2, <1>3, <2>1, <2>2 DEF ServerFact
<1> HIDE DEF i
<1>5. CASE c = sock
  BY <1>1, <1>3, <1>4, <1>5 DEF StreamStep, Still, Intact, Linked, netVars
<1>6. CASE c # sock
  <2>1. \A j \in Slots : connected[j] # sock => write_pending'[j] = write_pending[j]
    BY <1>1, <1>2 DEF Books, EchoTypeInv
  <2> QED BY <1>1, <1>6, <2>1, OtherStreams DEF netVars
<1> QED BY <1>5, <1>6

LEMMA ReadChunkStreams ==
  ASSUME Books, Books', NEW n, ReadChunk(n), NEW c \in Conns
  PROVE  StreamStep(c)
<1> DEFINE i == client_id
           q == recvQueue[sock]
<1>1. /\ tcpPc = "rd" /\ ~write_pending[i] /\ n \in 1..Len(q)
      /\ chunk' = SubSeq(q, 1, n) /\ data_packet' = [data_packet EXCEPT ![i] = chunk']
      /\ recvQueue' = [recvQueue EXCEPT ![sock] = SubSeq(q, n + 1, Len(q))]
      /\ UNCHANGED <<sock, events, connected, write_pending, remaining_payload,
                     sent_payload, link, rdDue, peerSent, peerGot, failed>>
  BY DEF ReadChunk
<1>2. /\ sock \in Conns /\ i \in Slots /\ connected[i] = sock
      /\ \A j \in Slots : connected[j] = sock => j = i
  BY <1>1, CallbackSlot
<1>3. InServer(sock) = <<>>
  BY <1>1, CallbackServer DEF Books, CallbackInv
<1>4. InServer(sock)' = chunk'
  <2>1. ServerFact'
    BY ServerKnown, PTL
  <2> QED BY <1>1, <1>2, <2>1 DEF ServerFact
<1>5. /\ recvQueue'[sock] = SubSeq(q, n + 1, Len(q))
      /\ \A d \in Conns : d # sock => recvQueue'[d] = recvQueue[d]
  BY <1>1, <1>2 DEF Books, EchoTypeInv
<1> HIDE DEF i
<1>6. CASE c = sock
  <2>1. Read(c, peerGot[c], InServer(c), recvQueue[c], peerSent[c],
             peerGot'[c], InServer(c)', recvQueue'[c], peerSent'[c])
    BY <1>1, <1>3, <1>4, <1>5, <1>6 DEF Read
  <2> QED BY <1>1, <2>1 DEF StreamStep, Moved, Intact, Linked
<1>7. CASE c # sock
  <2>1. \A j \in Slots : connected[j] # sock => data_packet'[j] = data_packet[j]
    BY <1>1, <1>2 DEF Books, EchoTypeInv
  <2> QED BY <1>1, <1>5, <1>7, <2>1, OtherStreams
<1> QED BY <1>6, <1>7

LEMMA SendMoreStreams ==
  ASSUME Books, Books', NEW n, SendMore(n), NEW c \in Conns
  PROVE  StreamStep(c)
<1> DEFINE i == client_id
<1>1. /\ tcpPc = "send" /\ n \in 1..Len(chunk) /\ chunk' = SubSeq(chunk, n + 1, Len(chunk))
      /\ peerGot' = [peerGot EXCEPT ![sock] = @ \o SubSeq(chunk, 1, n)]
      /\ UNCHANGED <<sock, events, slotVars, link, recvQueue, rdDue, peerSent, failed>>
  BY DEF SendMore
<1>2. /\ sock \in Conns /\ i \in Slots /\ connected[i] = sock
      /\ \A j \in Slots : connected[j] = sock => j = i
  BY <1>1, CallbackSlot
<1>3. ~write_pending[i]
  BY <1>1, <1>2 DEF Books, BufferInv
<1>4. InServer(sock) = chunk
  BY <1>1, <1>3, CallbackServer
<1>5. InServer(sock)' = chunk'
  <2>1. ServerFact'
    BY ServerKnown, PTL
  <2> QED BY <1>1, <1>2, <1>3, <2>1 DEF ServerFact, slotVars
<1>6. /\ peerGot'[sock] = peerGot[sock] \o SubSeq(chunk, 1, n)
      /\ \A d \in Conns : d # sock => peerGot'[d] = peerGot[d]
  BY <1>1, <1>2 DEF Books, EchoTypeInv
<1> HIDE DEF i
<1>7. CASE c = sock
  <2>1. Echoed(c, peerGot[c], InServer(c), recvQueue[c], peerSent[c],
               peerGot'[c], InServer(c)', recvQueue'[c], peerSent'[c])
    BY <1>1, <1>4, <1>5, <1>6, <1>7 DEF Echoed
  <2> QED BY <1>1, <2>1 DEF StreamStep, Moved, Intact, Linked
<1>8. CASE c # sock
  BY <1>1, <1>6, <1>8, OtherStreams DEF slotVars
<1> QED BY <1>7, <1>8

LEMMA SendBlocksStreams ==
  ASSUME Books, Books', SendBlocks, NEW c \in Conns
  PROVE  StreamStep(c)
<1> DEFINE i == client_id
<1>1. /\ tcpPc = "send"
      /\ write_pending' = [write_pending EXCEPT ![i] = TRUE]
      /\ remaining_payload' = [remaining_payload EXCEPT ![i] = Len(chunk)]
      /\ sent_payload' = [sent_payload EXCEPT ![i] = Len(data_packet[i]) - Len(chunk)]
      /\ UNCHANGED <<sock, events, connected, data_packet, netVars>>
  BY DEF SendBlocks
<1>2. /\ sock \in Conns /\ i \in Slots /\ connected[i] = sock
      /\ \A j \in Slots : connected[j] = sock => j = i
  BY <1>1, CallbackSlot
<1>3. \A j \in Slots :
        /\ write_pending'[j] = IF j = i THEN TRUE ELSE write_pending[j]
        /\ j # i => /\ remaining_payload'[j] = remaining_payload[j]
                    /\ sent_payload'[j] = sent_payload[j]
  BY <1>1, <1>2 DEF Books, EchoTypeInv
<1>4. InServer(sock) = chunk
  <2>1. ~write_pending[i]
    BY <1>1, <1>2 DEF Books, BufferInv
  <2> QED BY <1>1, <2>1, CallbackServer
<1>5. InServer(sock)' = chunk
  <2>1. ServerFact'
    BY ServerKnown, PTL
  <2>2. i' = i
    BY <1>1 DEF client_id, SlotOf
  <2>3. InServer(sock)' = Unsent(i)'
    BY <1>1, <1>2, <1>3, <2>1, <2>2 DEF ServerFact
  <2> QED BY <2>3, SendBlocksBooks
<1> HIDE DEF i
<1>6. CASE c = sock
  BY <1>1, <1>4, <1>5, <1>6 DEF StreamStep, Still, Intact, Linked, netVars
<1>7. CASE c # sock
  BY <1>1, <1>2, <1>3, <1>7, OtherStreams DEF netVars
<1> QED BY <1>6, <1>7

LEMMA SendFailsStreams ==
  ASSUME Books, Books', SendFails, NEW c \in Conns
  PROVE  StreamStep(c)
<1> DEFINE i == client_id
<1>1. /\ tcpPc = "send" /\ chunk' = <<>> /\ failed' = [failed EXCEPT ![sock] = TRUE]
      /\ UNCHANGED <<sock, events, slotVars, link, recvQueue, rdDue, peerSent, peerGot>>
  BY DEF SendFails
<1>2. /\ sock \in Conns /\ i \in Slots /\ connected[i] = sock
      /\ \A j \in Slots : connected[j] = sock => j = i
  BY <1>1, CallbackSlot
<1>3. ~write_pending[i]
  BY <1>1, <1>2 DEF Books, BufferInv
<1>4. InServer(sock)' = <<>>
  <2>1. ServerFact'
    BY ServerKnown, PTL
  <2> QED BY <1>1, <1>2, <1>3, <2>1 DEF ServerFact, slotVars
<1>5. failed'[sock] = TRUE /\ \A d \in Conns : d # sock => failed'[d] = failed[d]
  BY <1>1, <1>2 DEF Books, EchoTypeInv
<1> HIDE DEF i
<1>6. CASE c = sock
  BY <1>1, <1>4, <1>5, <1>6 DEF StreamStep, Lost, Intact
<1>7. CASE c # sock
  BY <1>1, <1>5, <1>7, OtherStreams DEF slotVars
<1> QED BY <1>6, <1>7

LEMMA FinishStreams ==
  ASSUME Books, Books', Finish, NEW c \in Conns
  PROVE  StreamStep(c)
<1> DEFINE i == client_id
<1>1. /\ tcpPc = "end" /\ sock' = NoConn
      /\ link' = [link EXCEPT ![sock] = IF "FIN" \in events THEN "finished"
                                        ELSE IF "CLOSE" \in events THEN "closing" ELSE @]
      /\ connected' = IF "FIN" \in events THEN [connected EXCEPT ![i] = NoConn] ELSE connected
      /\ UNCHANGED <<chunk, data_packet, write_pending, remaining_payload,
                     sent_payload, recvQueue, rdDue, peerSent, peerGot, failed>>
  BY DEF Finish
<1>2. /\ sock \in Conns /\ Linked(sock) /\ i \in Slots /\ connected[i] = sock
      /\ \A j \in Slots : connected[j] = sock => j = i
  BY <1>1, CallbackSlot
<1>3. chunk = <<>>
  BY <1>1 DEF Books, CallbackInv
<1> HIDE DEF i
<1>4. CASE c = sock /\ "FIN" \in events
  <2>1. ~Linked(c)'
    BY <1>1, <1>2, <1>4 DEF Books, EchoTypeInv, Linked
  <2>2. InServer(c)' = <<>>
    <3>1. ServerFact'
      BY ServerKnown, PTL
    <3> QED BY <2>1, <3>1 DEF ServerFact
  <2> QED BY <1>1, <2>1, <2>2 DEF StreamStep, Lost, Intact
<1>5. CASE c = sock /\ "FIN" \notin events
  <2>1. InServer(c)' = InServer(c)
    BY <1>1, <1>3, <1>5, InServerStill
  <2>2. Linked(c)
    BY <1>2, <1>5
  <2> QED BY <1>1, <2>1, <2>2 DEF StreamStep, Still, Intact
<1>6. CASE c # sock
  <2>1. link'[c] = link[c]
    BY <1>1, <1>6 DEF Books, EchoTypeInv
  <2>2. \A j \in Slots : connected[j] # sock => connected'[j] = connected[j]
    BY <1>1, <1>2 DEF Books, EchoTypeInv
  <2>3. \A j \in Slots : connected[j] = sock => connected'[j] # c
    BY <1>1, <1>2, <1>6 DEF Books, EchoTypeInv
  <2>4. c # sock'
    BY <1>1
  <2> QED BY <1>1, <1>6, <2>1, <2>2, <2>3, <2>4, OtherStreams
<1> QED BY <1>4, <1>5, <1>6

LEMMA EveryStream ==
  ASSUME Books, Books', [Next]_vars, NEW c \in Conns
  PROVE  StreamStep(c)
<1>1. CASE UNCHANGED tcpVars
  BY <1>1, IdleStreams
<1>2. CASE TcpNext
  <2>1. CASE \E d \in Conns : Connect(d) \/ PeerSends(d) \/ \E ev \in EventSets : Callback(d, ev)
    BY <2>1, PeerStreams
  <2>2. CASE \E d \in Conns : Accept(d)
    BY <2>2, AcceptStreams
  <2>3. CASE SkipWrite \/ WriteBlocked \/ ReadDone
    BY <2>3, IdleStreams
  <2>4. CASE \E n \in 1..TCP_READ_SIZE : WriteMore(n)
    BY <2>4, WriteMoreStreams
  <2>5. CASE \E n \in 1..TCP_READ_SIZE : ReadChunk(n)
    BY <2>5, ReadChunkStreams
  <2>6. CASE \E n \in 1..TCP_READ_SIZE : SendMore(n)
    BY <2>6, SendMoreStreams
  <2>7. CASE WriteDone \/ SendBlocks \/ SendFails \/ Finish
    BY <2>7, WriteDoneStreams, SendBlocksStreams, SendFailsStreams, FinishStreams
  <2> QED BY <1>2, <2>1, <2>2, <2>3, <2>4, <2>5, <2>6, <2>7 DEF TcpNext, TcpCallback, WriteProgress
<1> QED BY <1>1, <1>2 DEF Next, vars, notCrypto, notDriver, notBuffers, notUdp

LEMMA InitStreams == TcpInit => StreamInv
<1> SUFFICES ASSUME TcpInit, NEW c \in Conns
             PROVE  /\ Kept(c, peerGot[c], InServer(c), recvQueue[c], peerSent[c])
                    /\ Whole(c, peerGot[c], InServer(c), recvQueue[c], peerSent[c])
  BY DEF StreamInv
<1>1. peerGot[c] = <<>> /\ recvQueue[c] = <<>> /\ peerSent[c] = 0
  BY DEF TcpInit
<1>2. InServer(c) = <<>>
  BY DEF TcpInit, InServer
<1> QED BY <1>1, <1>2, EmptyFact DEF Kept, Whole, RunFrom, Climbing, Behind, Precedes
-----------------------------------------------------------------------------
\* What the invariant says of a peer that is still being served, in one
\* sequence.
LEMMA WholeIsRun ==
  ASSUME NEW c \in Conns, NEW g \in Seq(Bytes), NEW s \in Seq(Bytes), NEW q \in Seq(Bytes),
         NEW n \in Nat, Whole(c, g, s, q, n)
  PROVE  g \o s \o q = [i \in 1..n |-> <<c, i>>]
<1> DEFINE u == g \o s
           v == u \o q
           w == [i \in 1..n |-> <<c, i>>]
<1>1. RunFrom(g, c, 0) /\ RunFrom(s, c, 0 + Len(g)) /\ RunFrom(q, c, 0 + (Len(g) + Len(s)))
      /\ n = Len(g) + Len(s) + Len(q) /\ 0 \in Nat
  <2>1. Len(g) \in Nat /\ Len(s) \in Nat
    OBVIOUS
  <2> QED BY <2>1 DEF Whole
<1>2. u \in Seq(Bytes) /\ Len(u) = Len(g) + Len(s) /\ RunFrom(u, c, 0)
  BY <1>1, RunJoined
<1> HIDE DEF u
<1>3. v \in Seq(Bytes) /\ Len(v) = Len(u) + Len(q) /\ RunFrom(v, c, 0)
  <2>1. RunFrom(q, c, 0 + Len(u))
    BY <1>1, <1>2
  <2> QED BY <1>1, <1>2, <2>1, RunJoined
<1>4. Len(v) = n /\ \A i \in 1..n : v[i] = <<c, i>>
  <2>1. Len(v) = n
    BY <1>1, <1>2, <1>3
  <2> HIDE DEF v
  <2>2. \A i \in 1..n : 0 + i = i
    OBVIOUS
  <2> QED BY <1>3, <2>1, <2>2 DEF RunFrom
<1>5. w \in Seq(Bytes) /\ Len(w) = n /\ \A i \in 1..n : w[i] = <<c, i>>
  BY DEF Bytes
<1> HIDE DEF v, w
<1>6. v = w
  BY <1>3, <1>4, <1>5, SeqEqual
<1> QED BY <1>6 DEF v, w, u

\* The TCP echo server returns each connection's bytes, and only these, each
\* once and in order; and as long as no send failed, all of them are accounted
\* for (handle_tcp_picoserver_notification, "returns every byte it receives in
\* order").  For any number of slots and connections, chunk size, and results
\* of the sends.
THEOREM EchoIsFaithful == Spec => []EchoFaithful
<1>1. Init => Books /\ StreamInv
  BY InitBooks, InitStreams DEF Init
<1>2. Books /\ StreamInv /\ [Next]_vars => Books' /\ StreamInv'
  BY StepBooks, EveryStream, StreamKept
<1>3. Books /\ StreamInv => EchoFaithful
  <2> SUFFICES ASSUME Books, StreamInv, NEW c \in Conns
               PROVE  /\ \A i \in 1..Len(peerGot[c]) : peerGot[c][i][1] = c
                      /\ \A i, j \in 1..Len(peerGot[c]) :
                           i < j => peerGot[c][i][2] < peerGot[c][j][2]
                      /\ link[c] = "open" /\ ~failed[c] =>
                           peerGot[c] \o InServer(c) \o recvQueue[c]
                             = [i \in 1..peerSent[c] |-> <<c, i>>]
    BY DEF EchoFaithful
  <2>1. Kept(c, peerGot[c], InServer(c), recvQueue[c], peerSent[c])
    BY DEF StreamInv
  <2>2. /\ peerGot[c] \in Seq(Bytes) /\ InServer(c) \in Seq(Bytes)
        /\ recvQueue[c] \in Seq(Bytes) /\ peerSent[c] \in Nat
    BY InServerType DEF Books, EchoTypeInv
  <2>3. \A i \in 1..Len(peerGot[c]) : peerGot[c][i] \in Range(peerGot[c])
    BY <2>2, RangeSeq
  <2>4. \A i, j \in 1..Len(peerGot[c]) : i < j => Precedes(peerGot[c], peerGot[c][i], peerGot[c][j])
    BY DEF Precedes
  <2>5. ASSUME link[c] = "open", ~failed[c]
        PROVE  peerGot[c] \o InServer(c) \o recvQueue[c] = [i \in 1..peerSent[c] |-> <<c, i>>]
    <3>1. Whole(c, peerGot[c], InServer(c), recvQueue[c], peerSent[c])
      BY <2>5 DEF StreamInv, Intact, Linked
    <3> QED BY <2>2, <3>1, WholeIsRun
  <2>6. \A i \in 1..Len(peerGot[c]) : peerGot[c][i][1] = c
    BY <2>1, <2>3 DEF Kept
  <2>7. \A i, j \in 1..Len(peerGot[c]) : i < j => peerGot[c][i][2] < peerGot[c][j][2]
    BY <2>1, <2>4 DEF Kept, Climbing
  <2> QED BY <2>5, <2>6, <2>7
<1> QED BY <1>1, <1>2, <1>3, PTL DEF Spec
-----------------------------------------------------------------------------
\* Crypto's ring, the U-Boot driver and the picotcp driver behave in DataPaths as
\* their modules specify, so that the theorems of CryptoBuffer_proofs,
\* EthDriverUboot_proofs and PicoEthBuffers_proofs hold of it.
THEOREM PathsImplementTheirModules == Spec => CryptoSpec /\ DriverSpec /\ BufferSpec
<1>1. Init => CryptoInit /\ DriverInit /\ BufferInit
  BY DEF Init
<1>2. [Next]_vars => [CryptoNext]_cryptoVars /\ [DriverNext]_driverVars /\ [BufferNext]_bufferVars
  BY DEF Next, vars, notCrypto, notDriver, notBuffers, notTcp, notUdp
<1> QED BY <1>1, <1>2, PTL DEF Spec, CryptoSpec, DriverSpec, BufferSpec
=============================================================================
