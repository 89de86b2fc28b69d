--------------------------- MODULE SequenceFacts ---------------------------
(* Facts about sequences and natural numbers that the proofs share.          *)
EXTENDS Integers, SequencesExt, SequenceTheorems,
        FiniteSetTheorems, WellFoundedInduction, TLAPS

\* A set of natural numbers that is not empty has a least element.
LEMMA LeastNat ==
  ASSUME NEW T, T \subseteq Nat, T # {}
  PROVE  \E m \in T : \A k \in T : m <= k
<1>1. PICK m \in T : \A k \in T : ~(<<k, m>> \in OpToRel(<, Nat))
  BY NatLessThanWellFounded, WFMin, Zenon
<1>2. ASSUME NEW k \in T PROVE m <= k
  <2>1. ~(<<k, m>> \in {ss \in Nat \X Nat : ss[1] < ss[2]})
    BY <1>1, Zenon DEF OpToRel
  <2> QED BY <2>1
<1> QED BY <1>2

\* Induction, over a set rather than a predicate.
LEMMA SetInduction ==
  ASSUME NEW T, 0 \in T, \A n \in Nat : n \in T => n + 1 \in T
  PROVE  Nat \subseteq T
<1> SUFFICES ASSUME Nat \ T # {} PROVE FALSE
  OBVIOUS
<1>1. PICK m \in Nat \ T : \A k \in Nat \ T : m <= k
  BY LeastNat
<1>2. m # 0 /\ m - 1 \in Nat /\ ~(m <= m - 1) /\ (m - 1) + 1 = m
  OBVIOUS
<1>3. m - 1 \in T
  BY <1>1, <1>2
<1> QED BY <1>1, <1>2, <1>3
-----------------------------------------------------------------------------
(* Sequences without repetition.                                             *)

\* The elements of a sequence by index.
LEMMA RangeSeq ==
  ASSUME NEW S, NEW s \in Seq(S)
  PROVE  /\ DOMAIN s = 1..Len(s)
         /\ Range(s) = {s[i] : i \in 1..Len(s)}
         /\ Range(s) \subseteq S
         /\ IsInjective(s) <=> \A i, j \in 1..Len(s) : s[i] = s[j] => i = j
BY DEF Range, IsInjective

\* The empty sequence has no elements.
LEMMA EmptyFact == Range(<<>>) = {} /\ IsInjective(<<>>)
BY DEF Range, IsInjective

\* Appending a new element.
LEMMA AppendDistinct ==
  ASSUME NEW S, NEW s \in Seq(S), NEW e \in S, IsInjective(s), e \notin Range(s)
  PROVE  /\ Append(s, e) \in Seq(S)
         /\ IsInjective(Append(s, e))
         /\ Range(Append(s, e)) = Range(s) \cup {e}
<1> DEFINE t == Append(s, e)
<1>1. /\ t \in Seq(S) /\ Len(t) = Len(s) + 1 /\ t[Len(s) + 1] = e
      /\ \A i \in 1..Len(s) : t[i] = s[i]
  BY AppendProperties
<1>2. Len(s) \in Nat
  OBVIOUS
<1> HIDE DEF t
<1>3. \A i \in 1..Len(s) : s[i] # e
  BY RangeSeq
<1>4. \A i \in 1..Len(t) : i \in 1..Len(s) \/ i = Len(s) + 1
  BY <1>1, <1>2
<1>5. ASSUME NEW i \in 1..Len(t), NEW j \in 1..Len(t), t[i] = t[j]
      PROVE  i = j
  BY <1>1, <1>3, <1>4, <1>5, RangeSeq
<1>6. Range(t) = Range(s) \cup {e}
  <2>1. Range(t) = {t[i] : i \in 1..Len(t)} /\ Range(s) = {s[i] : i \in 1..Len(s)}
    BY <1>1, RangeSeq
  <2>2. Len(s) + 1 \in 1..Len(t) /\ \A i \in 1..Len(s) : i \in 1..Len(t)
    BY <1>1, <1>2
  <2> QED BY <1>1, <1>4, <2>1, <2>2
<1>7. IsInjective(t)
  BY <1>1, <1>5, RangeSeq
<1> QED BY <1>1, <1>6, <1>7 DEF t

\* Concatenating sequences without a common element.
LEMMA ConcatDistinct ==
  ASSUME NEW S, NEW s \in Seq(S), NEW t \in Seq(S),
         IsInjective(s), IsInjective(t), Range(s) \cap Range(t) = {}
  PROVE  /\ s \o t \in Seq(S)
         /\ IsInjective(s \o t)
         /\ Range(s \o t) = Range(s) \cup Range(t)
<1> DEFINE u == s \o t
<1>1. /\ u \in Seq(S) /\ Len(u) = Len(s) + Len(t)
      /\ \A i \in 1..Len(s) + Len(t) :
            u[i] = IF i <= Len(s) THEN s[i] ELSE t[i - Len(s)]
  BY ConcatProperties
<1>2. Len(s) \in Nat /\ Len(t) \in Nat
  OBVIOUS
<1> HIDE DEF u
<1>3. /\ Range(u) = {u[i] : i \in 1..Len(u)}
      /\ Range(s) = {s[i] : i \in 1..Len(s)}
      /\ Range(t) = {t[i] : i \in 1..Len(t)}
      /\ \A i, j \in 1..Len(s) : s[i] = s[j] => i = j
      /\ \A i, j \in 1..Len(t) : t[i] = t[j] => i = j
  <2>1. Range(u) = {u[i] : i \in 1..Len(u)}
    BY <1>1, RangeSeq
  <2>2. /\ Range(s) = {s[i] : i \in 1..Len(s)}
        /\ \A i, j \in 1..Len(s) : s[i] = s[j] => i = j
    BY RangeSeq
  <2>3. /\ Range(t) = {t[i] : i \in 1..Len(t)}
        /\ \A i, j \in 1..Len(t) : t[i] = t[j] => i = j
    BY RangeSeq
  <2> QED BY <2>1, <2>2, <2>3
<1>4. \A i \in 1..Len(u) :
         \/ i \in 1..Len(s) /\ u[i] = s[i]
         \/ i - Len(s) \in 1..Len(t) /\ u[i] = t[i - Len(s)]
  BY <1>1, <1>2
<1>5. \A i \in 1..Len(s), j \in 1..Len(t) : s[i] # t[j]
  BY <1>3
<1>6. ASSUME NEW i \in 1..Len(u), NEW j \in 1..Len(u), u[i] = u[j]
      PROVE  i = j
  <2>1. CASE i \in 1..Len(s) /\ u[i] = s[i] /\ j \in 1..Len(s) /\ u[j] = s[j]
    BY <1>3, <1>6, <2>1
  <2>2. CASE /\ i - Len(s) \in 1..Len(t) /\ u[i] = t[i - Len(s)]
             /\ j - Len(s) \in 1..Len(t) /\ u[j] = t[j - Len(s)]
    <3>1. i - Len(s) = j - Len(s)
      BY <1>3, <1>6, <2>2
    <3> QED BY <1>1, <1>2, <3>1
  <2> QED BY <1>4, <1>5, <1>6, <2>1, <2>2
<1>7. Range(u) = Range(s) \cup Range(t)
  <2>1. ASSUME NEW i \in 1..Len(s) PROVE s[i] \in Range(u)
    BY <1>1, <1>2, <1>3
  <2>2. ASSUME NEW i \in 1..Len(t) PROVE t[i] \in Range(u)
    <3>1. /\ Len(s) + i \in 1..Len(u) /\ ~(Len(s) + i <= Len(s))
          /\ (Len(s) + i) - Len(s) = i
      BY <1>1, <1>2
    <3> QED BY <1>1, <1>3, <3>1
  <2>3. ASSUME NEW i \in 1..Len(u) PROVE u[i] \in Range(s) \cup Range(t)
    BY <1>3, <1>4
  <2>4. Range(u) \subseteq Range(s) \cup Range(t)
    BY <1>3, <2>3
  <2>5. Range(s) \subseteq Range(u)
    BY <1>3, <2>1
  <2>6. Range(t) \subseteq Range(u)
    BY <1>3, <2>2
  <2> QED BY <2>4, <2>5, <2>6
<1>8. IsInjective(u)
  BY <1>1, <1>6, RangeSeq
<1> QED BY <1>1, <1>7, <1>8 DEF u

\* Cutting a sequence in two.
LEMMA SplitDistinct ==
  ASSUME NEW S, NEW s \in Seq(S), IsInjective(s), NEW n \in 0..Len(s)
  PROVE  /\ SubSeq(s, 1, n) \in Seq(S) /\ SubSeq(s, n + 1, Len(s)) \in Seq(S)
         /\ IsInjective(SubSeq(s, 1, n))
         /\ IsInjective(SubSeq(s, n + 1, Len(s)))
         /\ Range(SubSeq(s, 1, n)) \cap Range(SubSeq(s, n + 1, Len(s))) = {}
         /\ Range(SubSeq(s, 1, n)) \cup Range(SubSeq(s, n + 1, Len(s))) = Range(s)
         /\ Len(SubSeq(s, 1, n)) = n
         /\ Len(SubSeq(s, n + 1, Len(s))) = Len(s) - n
<1> DEFINE front == SubSeq(s, 1, n)
           back  == SubSeq(s, n + 1, Len(s))
<1>1. Len(s) \in Nat /\ n \in Nat /\ n <= Len(s)
  OBVIOUS
<1>2. /\ front \in Seq(S) /\ Len(front) = n
      /\ \A i \in 1..n : front[i] = s[i]
  BY <1>1, SubSeqProperties
<1>3. /\ back \in Seq(S) /\ Len(back) = Len(s) - n
      /\ \A i \in 1..(Len(s) - n) : back[i] = s[n + i]
  BY <1>1, SubSeqProperties
<1> HIDE DEF front, back
<1>4. \A i, j \in 1..Len(s) : s[i] = s[j] => i = j
  BY RangeSeq
<1>5. IsInjective(front)
  BY <1>1, <1>2, <1>4, RangeSeq
<1>6. IsInjective(back)
  <2>1. ASSUME NEW i \in 1..Len(back), NEW j \in 1..Len(back), back[i] = back[j]
        PROVE  i = j
    <3>1. n + i \in 1..Len(s) /\ n + j \in 1..Len(s)
      BY <1>1, <1>3
    <3>2. n + i = n + j
      BY <1>3, <1>4, <2>1, <3>1
    <3> QED BY <1>1, <1>3, <3>2
  <2> QED BY <1>3, <2>1, RangeSeq
<1>7. /\ Range(front) = {front[i] : i \in 1..n}
      /\ Range(back) = {back[i] : i \in 1..(Len(s) - n)}
      /\ Range(s) = {s[i] : i \in 1..Len(s)}
  <2>1. Range(front) = {front[i] : i \in 1..n}
    BY <1>2, RangeSeq
  <2>2. Range(back) = {back[i] : i \in 1..(Len(s) - n)}
    BY <1>3, RangeSeq
  <2>3. Range(s) = {s[i] : i \in 1..Len(s)}
    BY RangeSeq
  <2> QED BY <2>1, <2>2, <2>3
<1>8. Range(front) \cap Range(back) = {}
  <2> SUFFICES ASSUME NEW i \in 1..n, NEW j \in 1..(Len(s) - n),
                      front[i] = back[j]
               PROVE  FALSE
    BY <1>7
  <2>1. i \in 1..Len(s) /\ n + j \in 1..Len(s) /\ i # n + j
    BY <1>1
  <2> QED BY <1>2, <1>3, <1>4, <2>1
<1>9. Range(front) \cup Range(back) = Range(s)
  <2>1. ASSUME NEW i \in 1..n PROVE front[i] \in Range(s)
    BY <1>1, <1>2, <1>7
  <2>2. ASSUME NEW i \in 1..(Len(s) - n) PROVE back[i] \in Range(s)
    <3>1. n + i \in 1..Len(s)
      BY <1>1
    <3> QED BY <1>3, <1>7, <3>1
  <2>3. ASSUME NEW i \in 1..Len(s) PROVE s[i] \in Range(front) \cup Range(back)
    <3>1. CASE i <= n
      BY <1>1, <1>2, <1>7, <3>1
    <3>2. CASE ~(i <= n)
      <4>1. i - n \in 1..(Len(s) - n) /\ n + (i - n) = i
        BY <1>1, <3>2
      <4> QED BY <1>3, <1>7, <4>1
    <3> QED BY <3>1, <3>2
  <2> QED BY <1>7, <2>1, <2>2, <2>3
<1> QED BY <1>2, <1>3, <1>5, <1>6, <1>8, <1>9 DEF front, back

\* A sequence of one element.
LEMMA SingletonRange ==
  ASSUME NEW S, NEW s \in Seq(S), Len(s) = 1
  PROVE  Range(s) = {s[1]}
<1>1. Range(s) = {s[i] : i \in 1..Len(s)}
  BY RangeSeq
<1>2. 1..Len(s) = {1}
  OBVIOUS
<1> QED BY <1>1, <1>2

\* The size of an interval from 1.
LEMMA IntervalSize ==
  ASSUME NEW k \in Nat
  PROVE  IsFiniteSet(1..k) /\ Cardinality(1..k) = k
BY FS_Interval

\* A sequence without repetition over n elements has at most n elements.
LEMMA DistinctBounded ==
  ASSUME NEW n \in Nat, NEW s \in Seq(1..n), IsInjective(s)
  PROVE  Len(s) <= n
<1>1. Len(s) \in Nat /\ s \in [1..Len(s) -> 1..n]
  OBVIOUS
<1>2. s \in Injection(1..Len(s), 1..n)
  BY <1>1 DEF Injection
<1>3. IsFiniteSet(1..n) /\ Cardinality(1..n) = n
  BY IntervalSize
<1>4. Cardinality(1..Len(s)) = Len(s)
  BY <1>1, IntervalSize
<1> QED BY <1>2, <1>3, <1>4, FS_Injection

\* A sequence without repetition over a finite set is no longer than the set,
\* and as long if it has all its elements.
LEMMA DistinctFinite ==
  ASSUME NEW S, IsFiniteSet(S), NEW s \in Seq(S), IsInjective(s)
  PROVE  /\ Len(s) <= Cardinality(S)
         /\ Range(s) = S => Len(s) = Cardinality(S)
<1>1. Len(s) \in Nat /\ s \in [1..Len(s) -> S]
  OBVIOUS
<1>2. s \in Injection(1..Len(s), S)
  BY <1>1 DEF Injection
<1>3. IsFiniteSet(1..Len(s)) /\ Cardinality(1..Len(s)) = Len(s)
  BY <1>1, IntervalSize
<1>4. Len(s) <= Cardinality(S)
  BY <1>2, <1>3, FS_Injection
<1>5. ASSUME Range(s) = S PROVE Len(s) = Cardinality(S)
  <2>1. s \in Surjection(1..Len(s), S)
    BY <1>1, <1>5 DEF Surjection, Range
  <2>2. Cardinality(S) <= Len(s)
    BY <1>3, <2>1, FS_Surjection
  <2>3. Cardinality(S) \in Nat
    BY FS_CardinalityType
  <2> QED BY <1>1, <1>4, <2>2, <2>3
<1> QED BY <1>4, <1>5

\* The tail of a sequence.
LEMMA TailDistinct ==
  ASSUME NEW S, NEW s \in Seq(S), s # <<>>, IsInjective(s)
  PROVE  /\ Head(s) \in S /\ Tail(s) \in Seq(S) /\ IsInjective(Tail(s))
         /\ Head(s) \in Range(s) /\ Range(Tail(s)) = Range(s) \ {Head(s)}
<1>1. /\ Len(s) \in Nat /\ Len(s) >= 1 /\ Head(s) = s[1] /\ Head(s) \in S
      /\ Tail(s) \in Seq(S) /\ Len(Tail(s)) = Len(s) - 1
      /\ \A i \in 1..Len(Tail(s)) : Tail(s)[i] = s[i + 1]
  BY HeadTailProperties, EmptySeq
<1> DEFINE t == Tail(s)
           h == Head(s)
<1>2. /\ Range(s) = {s[i] : i \in 1..Len(s)}
      /\ \A i, j \in 1..Len(s) : s[i] = s[j] => i = j
  BY RangeSeq
<1> HIDE DEF t, h
<1>3. /\ t \in Seq(S) /\ Len(t) = Len(s) - 1 /\ h = s[1]
      /\ \A i \in 1..Len(t) : t[i] = s[i + 1] /\ i + 1 \in 1..Len(s)
  BY <1>1 DEF t, h
<1>4. Range(t) = {t[i] : i \in 1..Len(t)}
  BY <1>3, RangeSeq
<1>5. \A i, j \in 1..Len(t) : t[i] = t[j] => i = j
  <2> SUFFICES ASSUME NEW i \in 1..Len(t), NEW j \in 1..Len(t), t[i] = t[j] PROVE i = j
    OBVIOUS
  <2>1. i + 1 = j + 1
    BY <1>2, <1>3
  <2> QED BY <2>1
<1>6. IsInjective(t)
  BY <1>3, <1>5, RangeSeq
<1>7. Range(t) = Range(s) \ {h}
  <2>1. ASSUME NEW i \in 1..Len(t) PROVE t[i] \in Range(s) /\ t[i] # h
    <3>1. i + 1 # 1 /\ i + 1 \in 1..Len(s) /\ 1 \in 1..Len(s)
      BY <1>1, <1>3
    <3> QED BY <1>2, <1>3, <3>1
  <2>2. ASSUME NEW i \in 1..Len(s), s[i] # h PROVE s[i] \in Range(t)
    <3>1. i - 1 \in 1..Len(t) /\ (i - 1) + 1 = i
      BY <1>1, <1>3, <2>2
    <3> QED BY <1>3, <1>4, <3>1
  <2> QED BY <1>2, <1>4, <2>1, <2>2
<1>8. h \in Range(s)
  BY <1>1, <1>2, <1>3
<1> QED BY <1>1, <1>6, <1>7, <1>8 DEF t, h

\* A sequence without its element at i.
LEMMA RemovedDistinct ==
  ASSUME NEW S, NEW s \in Seq(S), NEW i \in 1..Len(s), IsInjective(s)
  PROVE  /\ RemoveAt(s, i) \in Seq(S) /\ Len(RemoveAt(s, i)) = Len(s) - 1
         /\ \A j \in 1..(Len(s) - 1) :
              RemoveAt(s, i)[j] = IF j < i THEN s[j] ELSE s[j + 1]
         /\ IsInjective(RemoveAt(s, i)) /\ Range(RemoveAt(s, i)) = Range(s) \ {s[i]}
<1> DEFINE f == SubSeq(s, 1, i - 1)
           b == SubSeq(s, i + 1, Len(s))
           r == RemoveAt(s, i)
<1>0. Len(s) \in Nat /\ i \in Nat /\ 1 <= i /\ i <= Len(s)
  OBVIOUS
<1>1. f \in Seq(S) /\ Len(f) = i - 1 /\ \A j \in 1..(i - 1) : f[j] = s[j]
  BY <1>0, SubSeqProperties
<1>2. /\ b \in Seq(S) /\ Len(b) = Len(s) - i
      /\ \A j \in 1..(Len(s) - i) : b[j] = s[i + j]
  BY <1>0, SubSeqProperties
<1> HIDE DEF f, b
<1>3. /\ r \in Seq(S) /\ Len(r) = Len(s) - 1
      /\ \A j \in 1..Len(r) : r[j] = IF j <= Len(f) THEN f[j] ELSE b[j - Len(f)]
  <2>1. /\ f \o b \in Seq(S) /\ Len(f \o b) = Len(f) + Len(b)
        /\ \A j \in 1..(Len(f) + Len(b)) :
              (f \o b)[j] = IF j <= Len(f) THEN f[j] ELSE b[j - Len(f)]
    BY <1>1, <1>2, ConcatProperties
  <2>2. r = f \o b
    BY DEF f, b, RemoveAt
  <2>3. Len(f) + Len(b) = Len(s) - 1
    BY <1>0, <1>1, <1>2
  <2> HIDE DEF r
  <2> QED BY <2>1, <2>2, <2>3
<1> HIDE DEF r
<1>4. ASSUME NEW j \in 1..Len(r) PROVE r[j] = IF j < i THEN s[j] ELSE s[j + 1]
  <2>1. CASE j < i
    BY <1>0, <1>1, <1>3, <2>1
  <2>2. CASE ~(j < i)
    <3>1. ~(j <= Len(f)) /\ j - Len(f) \in 1..(Len(s) - i) /\ i + (j - Len(f)) = j + 1
      BY <1>0, <1>1, <1>3, <2>2
    <3>2. r[j] = b[j - Len(f)]
      BY <1>3, <3>1
    <3>3. b[j - Len(f)] = s[i + (j - Len(f))]
      BY <1>2, <3>1
    <3> QED BY <2>2, <3>1, <3>2, <3>3
  <2> QED BY <2>1, <2>2
<1>5. /\ Range(s) = {s[j] : j \in 1..Len(s)} /\ Range(r) = {r[j] : j \in 1..Len(r)}
      /\ \A j, k \in 1..Len(s) : s[j] = s[k] => j = k
  <2>1. Range(r) = {r[j] : j \in 1..Len(r)}
    BY <1>3, RangeSeq
  <2> QED BY <2>1, RangeSeq
<1> DEFINE at(j) == IF j < i THEN j ELSE j + 1
<1>6. \A j \in 1..Len(r) : at(j) \in 1..Len(s) /\ at(j) # i /\ r[j] = s[at(j)]
  BY <1>0, <1>3, <1>4
<1>7. \A j, k \in 1..Len(r) : at(j) = at(k) => j = k
  BY <1>0, <1>3
<1> HIDE DEF at
<1>8. \A j, k \in 1..Len(r) : r[j] = r[k] => j = k
  BY <1>5, <1>6, <1>7
<1>9. IsInjective(r)
  BY <1>3, <1>8, RangeSeq
<1>10. Range(r) = Range(s) \ {s[i]}
  <2>1. ASSUME NEW j \in 1..Len(r) PROVE r[j] \in Range(s) /\ r[j] # s[i]
    BY <1>5, <1>6
  <2>2. ASSUME NEW j \in 1..Len(s), s[j] # s[i] PROVE s[j] \in Range(r)
    <3>1. CASE j < i
      <4>1. j \in 1..Len(r) /\ at(j) = j
        BY <1>0, <1>3, <3>1 DEF at
      <4> QED BY <1>5, <1>6, <4>1
    <3>2. CASE j > i
      <4>1. j - 1 \in 1..Len(r) /\ at(j - 1) = j
        BY <1>0, <1>3, <3>2 DEF at
      <4> QED BY <1>5, <1>6, <4>1
    <3> QED BY <1>0, <2>2, <3>1, <3>2
  <2> QED BY <1>5, <2>1, <2>2
<1> QED BY <1>3, <1>4, <1>9, <1>10 DEF r

\* Removing an element leaves out one of its places.
LEMMA RemoveFirstAt ==
  ASSUME NEW S, NEW s \in Seq(S), NEW e \in Range(s)
  PROVE  \E i \in 1..Len(s) : s[i] = e /\ RemoveFirst(s, e) = RemoveAt(s, i)
<1> DEFINE I == {i \in 1..Len(s) : s[i] = e}
<1>1. I # {} /\ I \subseteq Nat
  BY RangeSeq
<1>2. \E m \in I : \A k \in I : m <= k
  BY <1>1, LeastNat
<1>3. Min(I) \in I
  <2> HIDE DEF I
  <2> QED BY <1>2 DEF Min
<1>4. RemoveFirst(s, e) = RemoveAt(s, Min(I))
  BY <1>1, Zenon DEF RemoveFirst, SelectInSeq
<1> HIDE DEF I
<1>5. Min(I) \in 1..Len(s) /\ s[Min(I)] = e
  BY <1>3 DEF I
<1> QED BY <1>4, <1>5

\* A sequence backwards.
LEMMA ReversedDistinct ==
  ASSUME NEW S, NEW s \in Seq(S), IsInjective(s)
  PROVE  /\ Reverse(s) \in Seq(S) /\ Len(Reverse(s)) = Len(s)
         /\ IsInjective(Reverse(s)) /\ Range(Reverse(s)) = Range(s)
<1> DEFINE n == Len(s)
           r == Reverse(s)
<1>0. n \in Nat
  OBVIOUS
<1>1. r \in Seq(S) /\ Len(r) = n /\ \A i \in 1..n : r[i] = s[n + 1 - i]
  <2>1. \A i \in 1..n : n + 1 - i \in 1..n /\ (n - i) + 1 = n + 1 - i
    BY <1>0
  <2>2. r = [i \in 1..n |-> s[n + 1 - i]]
    BY <2>1 DEF Reverse
  <2> HIDE DEF r
  <2> QED BY <1>0, <2>1, <2>2
<1> HIDE DEF r
<1>2. Range(r) = {r[i] : i \in 1..n}
  BY <1>1, RangeSeq
<1>3. /\ Range(s) = {s[i] : i \in 1..n}
      /\ \A i, j \in 1..n : s[i] = s[j] => i = j
  BY RangeSeq
<1> HIDE DEF n
<1>4. \A i, j \in 1..n : r[i] = r[j] => i = j
  <2> SUFFICES ASSUME NEW i \in 1..n, NEW j \in 1..n, r[i] = r[j] PROVE i = j
    OBVIOUS
  <2>1. n + 1 - i \in 1..n /\ n + 1 - j \in 1..n
    BY <1>0
  <2>2. n + 1 - i = n + 1 - j
    BY <1>1, <1>3, <2>1
  <2> QED BY <1>0, <2>2
<1>5. IsInjective(r)
  BY <1>1, <1>4, RangeSeq
<1>6. Range(r) = Range(s)
  <2>1. ASSUME NEW i \in 1..n PROVE r[i] \in Range(s)
    <3>1. n + 1 - i \in 1..n
      BY <1>0
    <3> QED BY <1>1, <1>3, <3>1
  <2>2. ASSUME NEW i \in 1..n PROVE s[i] \in Range(r)
    <3>1. n + 1 - i \in 1..n /\ n + 1 - (n + 1 - i) = i
      BY <1>0
    <3> QED BY <1>1, <1>2, <3>1
  <2> QED BY <1>2, <1>3, <2>1, <2>2
<1> QED BY <1>1, <1>5, <1>6 DEF n, r

\* A pool filled with the buffers in order.
LEMMA FreshPool ==
  ASSUME NEW n \in Nat
  PROVE  /\ [i \in 1..n |-> i] \in Seq(1..n)
         /\ IsInjective([i \in 1..n |-> i])
         /\ Range([i \in 1..n |-> i]) = 1..n
BY DEF IsInjective, Range
-----------------------------------------------------------------------------
(* Order *)

\* One element is before another in a sequence.
Precedes(s, a, b) == \E i, j \in 1..Len(s) : i < j /\ s[i] = a /\ s[j] = b

\* Both are elements of it.
LEMMA PrecedesIn ==
  ASSUME NEW S, NEW s \in Seq(S), NEW a, NEW b, Precedes(s, a, b)
  PROVE  a \in Range(s) /\ b \in Range(s)
BY RangeSeq DEF Precedes

\* An element appended is after all others.
LEMMA PrecedesAppend ==
  ASSUME NEW S, NEW s \in Seq(S), NEW e \in S, NEW a, NEW b, Precedes(Append(s, e), a, b)
  PROVE  Precedes(s, a, b) \/ (b = e /\ a \in Range(s))
<1> DEFINE t == Append(s, e)
<1>1. /\ Len(s) \in Nat /\ Len(t) = Len(s) + 1 /\ t[Len(s) + 1] = e
      /\ \A i \in 1..Len(s) : t[i] = s[i]
  BY AppendProperties
<1>2. PICK i, j \in 1..Len(t) : i < j /\ t[i] = a /\ t[j] = b
  BY DEF Precedes
<1> HIDE DEF t
<1>3. i \in 1..Len(s) /\ s[i] = a
  BY <1>1, <1>2
<1>4. CASE j \in 1..Len(s)
  BY <1>1, <1>2, <1>3, <1>4 DEF Precedes
<1>5. CASE j = Len(s) + 1
  BY <1>1, <1>2, <1>3, <1>5, RangeSeq
<1> QED BY <1>1, <1>2, <1>4, <1>5

\* The head is before all others, and what is left keeps its order.
LEMMA PrecedesTail ==
  ASSUME NEW S, NEW s \in Seq(S), s # <<>>
  PROVE  /\ \A a, b : Precedes(Tail(s), a, b) => Precedes(s, a, b)
         /\ \A b \in Range(Tail(s)) : Precedes(s, Head(s), b)
<1> DEFINE t == Tail(s)
<1>1. /\ Len(s) \in Nat /\ Len(s) >= 1 /\ Head(s) = s[1]
      /\ t \in Seq(S) /\ Len(t) = Len(s) - 1 /\ \A i \in 1..Len(t) : t[i] = s[i + 1]
  BY HeadTailProperties, EmptySeq
<1> HIDE DEF t
<1>2. ASSUME NEW a, NEW b, Precedes(t, a, b) PROVE Precedes(s, a, b)
  <2>1. PICK i, j \in 1..Len(t) : i < j /\ t[i] = a /\ t[j] = b
    BY <1>2 DEF Precedes
  <2>2. i + 1 \in 1..Len(s) /\ j + 1 \in 1..Len(s) /\ i + 1 < j + 1
    BY <1>1, <2>1
  <2> QED BY <1>1, <2>1, <2>2 DEF Precedes
<1>3. ASSUME NEW b \in Range(t) PROVE Precedes(s, Head(s), b)
  <2>1. PICK i \in 1..Len(t) : t[i] = b
    BY <1>1, RangeSeq
  <2>2. i + 1 \in 1..Len(s) /\ 1 \in 1..Len(s) /\ 1 < i + 1
    BY <1>1
  <2> QED BY <1>1, <2>1, <2>2 DEF Precedes
<1> QED BY <1>2, <1>3 DEF t

\* So does what is left when one element is taken out of the middle.
LEMMA PrecedesRemoved ==
  ASSUME NEW S, NEW s \in Seq(S), IsInjective(s), NEW e \in Range(s),
         NEW a, NEW b, Precedes(RemoveFirst(s, e), a, b)
  PROVE  Precedes(s, a, b)
<1> DEFINE r == RemoveFirst(s, e)
<1>1. PICK k \in 1..Len(s) : s[k] = e /\ r = RemoveAt(s, k)
  BY RemoveFirstAt
<1>2. /\ Len(r) = Len(s) - 1 /\ Len(s) \in Nat
      /\ \A j \in 1..(Len(s) - 1) : r[j] = IF j < k THEN s[j] ELSE s[j + 1]
  <2>1. /\ Len(RemoveAt(s, k)) = Len(s) - 1
        /\ \A j \in 1..(Len(s) - 1) :
             RemoveAt(s, k)[j] = IF j < k THEN s[j] ELSE s[j + 1]
    BY RemovedDistinct
  <2> QED BY <1>1, <2>1
<1>3. PICK i, j \in 1..Len(r) : i < j /\ r[i] = a /\ r[j] = b
  BY DEF Precedes
<1> HIDE DEF r
<1> DEFINE at(n) == IF n < k THEN n ELSE n + 1
<1>4. /\ at(i) \in 1..Len(s) /\ at(j) \in 1..Len(s) /\ at(i) < at(j)
      /\ s[at(i)] = a /\ s[at(j)] = b
  BY <1>2, <1>3
<1> QED BY <1>4 DEF Precedes

\* The first of some elements is before the other ones.
LEMMA PrecedesTotal ==
  ASSUME NEW S, NEW s \in Seq(S), NEW i \in 1..Len(s), NEW a \in Range(s),
         \A j \in 1..(i - 1) : s[j] # a
  PROVE  a = s[i] \/ Precedes(s, s[i], a)
<1>1. PICK k \in 1..Len(s) : s[k] = a
  BY RangeSeq
<1>2. Len(s) \in Nat /\ k \notin 1..(i - 1)
  BY <1>1
<1>3. k = i \/ i < k
  BY <1>2
<1> QED BY <1>1, <1>3 DEF Precedes

\* Appending, with or without repetition.
LEMMA AppendRange ==
  ASSUME NEW S, NEW s \in Seq(S), NEW e \in S
  PROVE  /\ Append(s, e) \in Seq(S) /\ Len(Append(s, e)) = Len(s) + 1
         /\ Range(Append(s, e)) = Range(s) \cup {e}
<1> DEFINE t == Append(s, e)
<1>1. /\ t \in Seq(S) /\ Len(t) = Len(s) + 1 /\ t[Len(s) + 1] = e /\ Len(s) \in Nat
      /\ \A i \in 1..Len(s) : t[i] = s[i]
  BY AppendProperties
<1> HIDE DEF t
<1>2. Range(t) = {t[i] : i \in 1..Len(t)} /\ Range(s) = {s[i] : i \in 1..Len(s)}
  BY <1>1, RangeSeq
<1>3. 1..Len(t) = (1..Len(s)) \cup {Len(s) + 1}
  BY <1>1
<1>4. Range(t) = Range(s) \cup {e}
  BY <1>1, <1>2, <1>3
<1> QED BY <1>1, <1>4 DEF t

\* Taking the head off.
LEMMA TailRange ==
  ASSUME NEW S, NEW s \in Seq(S), s # <<>>
  PROVE  /\ Head(s) \in Range(s) /\ Head(s) \in S
         /\ Tail(s) \in Seq(S) /\ Len(Tail(s)) = Len(s) - 1
         /\ Range(Tail(s)) \subseteq Range(s) /\ Range(s) = Range(Tail(s)) \cup {Head(s)}
<1> DEFINE t == Tail(s)
           h == Head(s)
<1>1. /\ Len(s) \in Nat /\ Len(s) >= 1 /\ h = s[1] /\ h \in S
      /\ t \in Seq(S) /\ Len(t) = Len(s) - 1 /\ \A i \in 1..Len(t) : t[i] = s[i + 1]
  BY HeadTailProperties, EmptySeq
<1> HIDE DEF t, h
<1>2. Range(t) = {t[i] : i \in 1..Len(t)} /\ Range(s) = {s[i] : i \in 1..Len(s)}
  BY <1>1, RangeSeq
<1>3. \A i \in 1..Len(s) : i = 1 \/ (i - 1 \in 1..Len(t) /\ t[i - 1] = s[i])
  BY <1>1
<1>4. \A i \in 1..Len(t) : i + 1 \in 1..Len(s)
  BY <1>1
<1>5. Range(t) \subseteq Range(s) /\ h \in Range(s)
  BY <1>1, <1>2, <1>4
<1>6. Range(s) \subseteq Range(t) \cup {h}
  BY <1>1, <1>2, <1>3
<1> QED BY <1>1, <1>5, <1>6 DEF t, h

\* Putting one sequence behind another.
LEMMA ConcatOrder ==
  ASSUME NEW S, NEW s \in Seq(S), NEW t \in Seq(S)
  PROVE  /\ s \o t \in Seq(S) /\ Len(s \o t) = Len(s) + Len(t)
         /\ Range(s \o t) = Range(s) \cup Range(t)
         /\ \A a, b : Precedes(s \o t, a, b) =>
              \/ Precedes(s, a, b) \/ Precedes(t, a, b)
              \/ a \in Range(s) /\ b \in Range(t)
<1> DEFINE u == s \o t
           m == Len(s)
           n == Len(t)
<1>1. /\ u \in Seq(S) /\ Len(u) = m + n /\ m \in Nat /\ n \in Nat
      /\ \A i \in 1..(m + n) : u[i] = IF i <= m THEN s[i] ELSE t[i - m]
  BY ConcatProperties
<1>2. Range(s) = {s[i] : i \in 1..m} /\ Range(t) = {t[i] : i \in 1..n}
  BY RangeSeq
<1> HIDE DEF u
<1>3. Range(u) = {u[i] : i \in 1..(m + n)}
  BY <1>1, RangeSeq
<1> HIDE DEF m, n
<1>4. \A i \in 1..(m + n) :
        \/ i \in 1..m /\ u[i] = s[i]
        \/ i - m \in 1..n /\ u[i] = t[i - m] /\ i > m
  BY <1>1
<1>5. Range(u) \subseteq Range(s) \cup Range(t)
  BY <1>2, <1>3, <1>4
<1>6. \A i \in 1..m : i \in 1..(m + n) /\ u[i] = s[i]
  BY <1>1
<1>7. \A i \in 1..n : i + m \in 1..(m + n) /\ u[i + m] = t[i]
  BY <1>1
<1>8. Range(s) \cup Range(t) \subseteq Range(u)
  BY <1>2, <1>3, <1>6, <1>7
<1>9. ASSUME NEW a, NEW b, Precedes(u, a, b)
      PROVE  \/ Precedes(s, a, b) \/ Precedes(t, a, b)
             \/ a \in Range(s) /\ b \in Range(t)
  <2>1. PICK i \in 1..(m + n), j \in 1..(m + n) : i < j /\ u[i] = a /\ u[j] = b
    BY <1>1, <1>9 DEF Precedes
  <2>2. CASE i \in 1..m /\ u[i] = s[i] /\ j \in 1..m /\ u[j] = s[j]
    BY <2>1, <2>2 DEF Precedes, m
  <2>3. CASE i \in 1..m /\ u[i] = s[i] /\ j - m \in 1..n /\ u[j] = t[j - m]
    BY <1>2, <2>1, <2>3
  <2>4. CASE i - m \in 1..n /\ u[i] = t[i - m] /\ j - m \in 1..n /\ u[j] = t[j - m]
    <3>1. i - m < j - m
      BY <1>1, <2>1
    <3> QED BY <2>1, <2>4, <3>1 DEF Precedes, n
  <2>5. CASE i > m /\ j \in 1..m
    BY <1>1, <2>1, <2>5
  <2> QED BY <1>4, <2>2, <2>3, <2>4, <2>5
<1> QED BY <1>1, <1>5, <1>8, <1>9 DEF u, m, n

\* The first elements of a sequence.
LEMMA PrefixOrder ==
  ASSUME NEW S, NEW s \in Seq(S), NEW n \in 0..Len(s)
  PROVE  /\ SubSeq(s, 1, n) \in Seq(S) /\ Len(SubSeq(s, 1, n)) = n
         /\ \A i \in 1..n : SubSeq(s, 1, n)[i] = s[i]
         /\ Range(SubSeq(s, 1, n)) \subseteq Range(s)
         /\ \A a, b : Precedes(SubSeq(s, 1, n), a, b) => Precedes(s, a, b)
<1> DEFINE t == SubSeq(s, 1, n)
<1>1. /\ t \in Seq(S) /\ Len(t) = n /\ Len(s) \in Nat /\ n \in Nat /\ n <= Len(s)
      /\ \A i \in 1..n : t[i] = s[i]
  BY SubSeqProperties
<1> HIDE DEF t
<1>2. \A i \in 1..n : i \in 1..Len(s)
  BY <1>1
<1>3. Range(t) \subseteq Range(s)
  BY <1>1, <1>2, RangeSeq
<1>4. \A a, b : Precedes(t, a, b) => Precedes(s, a, b)
  BY <1>1, <1>2 DEF Precedes
<1> QED BY <1>1, <1>3, <1>4 DEF t

\* The last elements of a sequence.
LEMMA SuffixOrder ==
  ASSUME NEW S, NEW s \in Seq(S), NEW n \in 0..Len(s)
  PROVE  /\ SubSeq(s, n + 1, Len(s)) \in Seq(S)
         /\ Range(SubSeq(s, n + 1, Len(s))) \subseteq Range(s)
         /\ \A i \in 1..Len(s) : i > n => s[i] \in Range(SubSeq(s, n + 1, Len(s)))
         /\ \A a, b : Precedes(SubSeq(s, n + 1, Len(s)), a, b) => Precedes(s, a, b)
         /\ \A i \in 1..n, b \in Range(SubSeq(s, n + 1, Len(s))) : Precedes(s, s[i], b)
<1> DEFINE t == SubSeq(s, n + 1, Len(s))
           k == Len(s) - n
<1>1. /\ Len(s) \in Nat /\ n \in Nat /\ n <= Len(s) /\ k \in Nat
      /\ t \in Seq(S) /\ Len(t) = k
      /\ \A i \in 1..k : t[i] = s[i + n]
  <2>1. Len(s) \in Nat /\ n \in Nat /\ n <= Len(s)
    OBVIOUS
  <2>2. n + 1 \in 1..(Len(s) + 1) /\ Len(s) \in n..Len(s)
    BY <2>1
  <2> QED BY <2>1, <2>2, SubSeqProperties
<1>2. k = Len(s) - n
  OBVIOUS
<1> HIDE DEF t, k
<1>3. \A i \in 1..k : i + n \in 1..Len(s) /\ i + n > n
  BY <1>1, <1>2
<1>4. Range(t) = {t[i] : i \in 1..k}
  BY <1>1, RangeSeq
<1>5. Range(t) \subseteq Range(s)
  BY <1>1, <1>3, <1>4, RangeSeq
<1>6. ASSUME NEW i \in 1..Len(s), i > n PROVE s[i] \in Range(t)
  <2>1. i - n \in 1..k /\ (i - n) + n = i
    BY <1>1, <1>2, <1>6
  <2> QED BY <1>1, <1>4, <2>1
<1>7. ASSUME NEW a, NEW b, Precedes(t, a, b) PROVE Precedes(s, a, b)
  <2>1. PICK i \in 1..k, j \in 1..k : i < j /\ t[i] = a /\ t[j] = b
    BY <1>1, <1>7 DEF Precedes
  <2>2. i + n < j + n /\ s[i + n] = a /\ s[j + n] = b
    BY <1>1, <2>1
  <2> QED BY <1>3, <2>2 DEF Precedes
<1>8. ASSUME NEW i \in 1..n, NEW b \in Range(t) PROVE Precedes(s, s[i], b)
  <2>1. PICK j \in 1..k : t[j] = b
    BY <1>4
  <2>2. i \in 1..Len(s) /\ i < j + n /\ s[j + n] = b
    BY <1>1, <2>1
  <2> QED BY <1>3, <2>2 DEF Precedes
<1> QED BY <1>1, <1>5, <1>6, <1>7, <1>8 DEF t

\* The last elements of a part of a sequence.
LEMMA PartOfPart ==
  ASSUME NEW S, NEW s \in Seq(S), NEW a \in Nat, NEW k \in Nat, NEW n \in 0..k,
         a + k <= Len(s)
  PROVE  /\ SubSeq(s, a + 1, a + k) \in Seq(S) /\ Len(SubSeq(s, a + 1, a + k)) = k
         /\ SubSeq(SubSeq(s, a + 1, a + k), n + 1, k) = SubSeq(s, (a + n) + 1, a + k)
<1> DEFINE t == SubSeq(s, a + 1, a + k)
           u == SubSeq(t, n + 1, k)
           v == SubSeq(s, (a + n) + 1, a + k)
<1>1. Len(s) \in Nat /\ n \in Nat /\ n <= k
  OBVIOUS
<1>2. t \in Seq(S) /\ Len(t) = k /\ \A i \in 1..k : t[i] = s[a + i]
  <2>1. a + 1 \in 1..(Len(s) + 1) /\ a + k \in ((a + 1) - 1)..Len(s)
    BY <1>1
  <2>2. /\ t \in Seq(S) /\ Len(t) = (a + k) - (a + 1) + 1
        /\ \A i \in 1..((a + k) - (a + 1) + 1) : t[i] = s[(a + 1) + i - 1]
    BY <2>1, SubSeqProperties
  <2> QED BY <1>1, <2>2
<1> HIDE DEF t
<1>3. u \in Seq(S) /\ Len(u) = k - n /\ \A i \in 1..(k - n) : u[i] = t[n + i]
  <2>1. n + 1 \in 1..(Len(t) + 1) /\ k \in ((n + 1) - 1)..Len(t)
    BY <1>1, <1>2
  <2>2. /\ u \in Seq(S) /\ Len(u) = k - (n + 1) + 1
        /\ \A i \in 1..(k - (n + 1) + 1) : u[i] = t[(n + 1) + i - 1]
    BY <1>2, <2>1, SubSeqProperties
  <2> QED BY <1>1, <2>2
<1>4. v \in Seq(S) /\ Len(v) = k - n /\ \A i \in 1..(k - n) : v[i] = s[(a + n) + i]
  <2> DEFINE m == (a + n) + 1
  <2>1. m \in 1..(Len(s) + 1) /\ a + k \in (m - 1)..Len(s)
    BY <1>1
  <2>2. /\ v \in Seq(S) /\ Len(v) = (a + k) - m + 1
        /\ \A i \in 1..((a + k) - m + 1) : v[i] = s[m + i - 1]
    BY <2>1, SubSeqProperties
  <2> QED BY <1>1, <2>2
<1> HIDE DEF u, v
<1>5. \A i \in 1..(k - n) : n + i \in 1..k /\ a + (n + i) = (a + n) + i
  BY <1>1
<1>6. ASSUME NEW i \in 1..Len(u) PROVE u[i] = v[i]
  <2>1. i \in 1..(k - n)
    BY <1>3
  <2>2. u[i] = t[n + i] /\ t[n + i] = s[a + (n + i)] /\ v[i] = s[(a + n) + i]
    BY <1>2, <1>3, <1>4, <1>5, <2>1
  <2> QED BY <1>5, <2>1, <2>2
<1>7. u = v
  BY <1>3, <1>4, <1>6, SeqEqual
<1> QED BY <1>2, <1>7 DEF t, u, v

\* Two sequences that begin in the same way.
LEMMA SamePrefix ==
  ASSUME NEW S, NEW s \in Seq(S), NEW t \in Seq(S), NEW n \in 0..Len(s), n \in 0..Len(t),
         \A i \in 1..n : s[i] = t[i]
  PROVE  SubSeq(s, 1, n) = SubSeq(t, 1, n)
<1> DEFINE f == SubSeq(s, 1, n)
           g == SubSeq(t, 1, n)
<1>1. f \in Seq(S) /\ Len(f) = n /\ \A i \in 1..n : f[i] = s[i]
  BY PrefixOrder
<1>2. g \in Seq(S) /\ Len(g) = n /\ \A i \in 1..n : g[i] = t[i]
  BY PrefixOrder
<1> HIDE DEF f, g
<1>3. \A i \in 1..Len(f) : f[i] = g[i]
  BY <1>1, <1>2
<1>4. f = g
  BY <1>1, <1>2, <1>3, SeqEqual
<1> QED BY <1>4 DEF f, g

\* Concatenation is associative.
LEMMA ConcatAssoc ==
  ASSUME NEW S, NEW s \in Seq(S), NEW t \in Seq(S), NEW u \in Seq(S)
  PROVE  (s \o t) \o u = s \o (t \o u)
<1> DEFINE a == s \o t
           b == t \o u
           f == a \o u
           g == s \o b
           k == Len(s)
           l == Len(t)
           m == Len(u)
<1>1. /\ a \in Seq(S) /\ Len(a) = k + l /\ k \in Nat /\ l \in Nat /\ m \in Nat
      /\ \A i \in 1..(k + l) : a[i] = IF i <= k THEN s[i] ELSE t[i - k]
  BY ConcatProperties
<1>2. /\ b \in Seq(S) /\ Len(b) = l + m
      /\ \A i \in 1..(l + m) : b[i] = IF i <= l THEN t[i] ELSE u[i - l]
  BY ConcatProperties
<1> HIDE DEF a, b, k, l
<1>3. /\ f \in Seq(S) /\ Len(f) = Len(a) + m
      /\ \A i \in 1..(Len(a) + m) : f[i] = IF i <= Len(a) THEN a[i] ELSE u[i - Len(a)]
  BY <1>1, ConcatProperties
<1>4. /\ g \in Seq(S) /\ Len(g) = k + Len(b)
      /\ \A i \in 1..(k + Len(b)) : g[i] = IF i <= k THEN s[i] ELSE b[i - k]
  BY <1>2, ConcatProperties DEF k
<1> HIDE DEF f, g, k, l, m
<1>5. Len(f) = Len(g) /\ Len(f) = k + l + m
  BY <1>1, <1>2, <1>3, <1>4
<1>6. ASSUME NEW i \in 1..(k + l + m) PROVE f[i] = g[i]
  <2>1. CASE i <= k
    <3>1. i \in 1..(k + l) /\ i <= k + l
      BY <1>1, <2>1
    <3>2. f[i] = s[i]
      BY <1>1, <1>3, <1>5, <2>1, <3>1
    <3>3. g[i] = s[i]
      BY <1>4, <1>5, <2>1
    <3> QED BY <3>2, <3>3
  <2>2. CASE ~(i <= k) /\ i <= k + l
    <3>1. i \in 1..(k + l) /\ i - k \in 1..(l + m) /\ i - k <= l
      BY <1>1, <2>2
    <3>2. f[i] = t[i - k]
      BY <1>1, <1>3, <1>5, <2>2, <3>1
    <3>3. g[i] = t[i - k]
      BY <1>2, <1>4, <1>5, <2>2, <3>1
    <3> QED BY <3>2, <3>3
  <2>3. CASE ~(i <= k + l)
    <3>1. i - k \in 1..(l + m) /\ ~(i - k <= l) /\ (i - k) - l = i - (k + l) /\ ~(i <= k)
      BY <1>1, <2>3
    <3>2. f[i] = u[i - (k + l)]
      BY <1>1, <1>3, <1>5, <2>3
    <3>3. g[i] = u[(i - k) - l]
      BY <1>2, <1>4, <1>5, <3>1
    <3> QED BY <3>1, <3>2, <3>3
  <2> QED BY <1>1, <2>1, <2>2, <2>3
<1>7. f = g
  BY <1>3, <1>4, <1>5, <1>6, SeqEqual
<1> QED BY <1>7 DEF f, g, a, b

\* A sequence is its first elements and the others.
LEMMA SplitSeq ==
  ASSUME NEW S, NEW s \in Seq(S), NEW n \in 0..Len(s)
  PROVE  SubSeq(s, 1, n) \o SubSeq(s, n + 1, Len(s)) = s
<1> DEFINE f == SubSeq(s, 1, n)
           r == SubSeq(s, n + 1, Len(s))
           g == f \o r
           k == Len(s)
<1>1. n \in Nat /\ k \in Nat /\ n <= k
  OBVIOUS
<1>2. f \in Seq(S) /\ Len(f) = n /\ \A i \in 1..n : f[i] = s[i]
  BY PrefixOrder
<1>3. r \in Seq(S) /\ Len(r) = k - n /\ \A i \in 1..(k - n) : r[i] = s[n + i]
  <2>1. n + 1 \in 1..(k + 1) /\ k \in ((n + 1) - 1)..k
    BY <1>1
  <2>2. /\ r \in Seq(S) /\ Len(r) = k - (n + 1) + 1
        /\ \A i \in 1..(k - (n + 1) + 1) : r[i] = s[(n + 1) + i - 1]
    BY <2>1, SubSeqProperties
  <2> QED BY <1>1, <2>2
<1> HIDE DEF f, r
<1>4. /\ g \in Seq(S) /\ Len(g) = Len(f) + Len(r)
      /\ \A i \in 1..(Len(f) + Len(r)) : g[i] = IF i <= Len(f) THEN f[i] ELSE r[i - Len(f)]
  BY <1>2, <1>3, ConcatProperties
<1> HIDE DEF g
<1>5. Len(g) = k
  BY <1>1, <1>2, <1>3, <1>4
<1> HIDE DEF k
<1>6. ASSUME NEW i \in 1..k PROVE g[i] = s[i]
  <2>1. CASE i <= n
    <3>1. i \in 1..n
      BY <1>1, <2>1
    <3> QED BY <1>2, <1>4, <1>5, <2>1, <3>1
  <2>2. CASE ~(i <= n)
    <3>1. i - n \in 1..(k - n) /\ n + (i - n) = i
      BY <1>1, <2>2
    <3> QED BY <1>2, <1>3, <1>4, <1>5, <2>2, <3>1
  <2> QED BY <2>1, <2>2
<1>7. g = s
  BY <1>4, <1>5, <1>6, SeqEqual DEF k
<1> QED BY <1>7 DEF f, r, g
=============================================================================
