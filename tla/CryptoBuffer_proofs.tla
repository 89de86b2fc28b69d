------------------------ MODULE CryptoBuffer_proofs ------------------------
(* The security demo's dataport, for every buffer size, alphabet and number *)
(* of keypresses: mutual exclusion, no lost notification, the accepted       *)
(* characters encrypted and in order, and the refinement of BoundedFifo.     *)
EXTENDS CryptoBuffer, SequenceTheorems, TLAPS

USE CharsAssumption, BufSizeAssumption, MaxKeysAssumption
-----------------------------------------------------------------------------
(* The encryption routine.                                                   *)

\* The case distinction of rot_13 computes the rotation by thirteen letters.
THEOREM RotationCorrect == \A ch \in Int : rot_13(ch) = Rotate13(ch)
BY DEF rot_13, Rotate13, IsLower, IsUpper, LC_a, LC_z, UC_A, UC_Z

\* Applying rot_13 twice gives the character back.
THEOREM RotationInvolution == \A ch \in CharCodes : rot_13(rot_13(ch)) = ch
BY DEF CharCodes, rot_13, IsLower, IsUpper, LC_a, LC_z, UC_A, UC_Z
-----------------------------------------------------------------------------
(* Arithmetic of the ring's indices.                                         *)

\* An index wraps from the last slot to slot 0.
LEMMA IncFact ==
  ASSUME NEW i \in BufSlots
  PROVE  Inc(i) = IF i + 1 = BufSize THEN 0 ELSE i + 1
BY DEF BufSlots, Inc

\* The number of characters in the ring, without the modulus.
LEMMA CountFact ==
  ASSUME head \in BufSlots, tail \in BufSlots
  PROVE  /\ Count = IF head >= tail THEN head - tail ELSE head - tail + BufSize
         /\ Count \in 0..(BufSize - 1)
         /\ IsEmpty <=> Count = 0
         /\ IsFull <=> Count = BufSize - 1
<1>1. /\ Count = IF head >= tail THEN head - tail ELSE head - tail + BufSize
      /\ Count \in 0..(BufSize - 1)
  BY DEF BufSlots, Count
<1>2. IsEmpty <=> Count = 0
  BY <1>1 DEF BufSlots, IsEmpty
<1>3. IsFull <=> Count = BufSize - 1
  BY <1>1, IncFact DEF BufSlots, IsFull
<1> QED BY <1>1, <1>2, <1>3

\* The slots from tail up to head, cyclically, are slots other than head.
LEMMA OccupiedFact ==
  ASSUME head \in BufSlots, tail \in BufSlots, NEW i \in 1..Count
  PROVE  /\ (tail + i - 1) % BufSize \in BufSlots
         /\ (tail + i - 1) % BufSize # head
         /\ (tail + i - 1) % BufSize =
              IF tail + i - 1 < BufSize THEN tail + i - 1
                                        ELSE tail + i - 1 - BufSize
<1>1. i \in Nat /\ i >= 1 /\ i <= Count
  BY CountFact
<1>2. tail + i - 1 < 2 * BufSize
  BY <1>1, CountFact DEF BufSlots
<1> QED BY <1>1, <1>2, CountFact DEF BufSlots

\* Appending keeps the elements of a sequence and adds one after them.
LEMMA AppendFact ==
  ASSUME NEW S, NEW s \in Seq(S), NEW e
  PROVE  /\ Len(Append(s, e)) = Len(s) + 1
         /\ Append(s, e)[Len(s) + 1] = e
         /\ \A i \in 1..Len(s) : Append(s, e)[i] = s[i]
OBVIOUS
-----------------------------------------------------------------------------
(* What the two steps that move an index do to the ring.                     *)

\* Publishing the slot at head adds one character at the end.
LEMMA BumpFact ==
  ASSUME head \in BufSlots, tail \in BufSlots, ~IsFull,
         head' = Inc(head), tail' = tail, data' = data
  PROVE  /\ head' \in BufSlots
         /\ Count' = Count + 1
         /\ (tail + (Count + 1) - 1) % BufSize = head
         /\ ~(IsEmpty')
<1>1. head' \in BufSlots
  BY IncFact DEF BufSlots
<1>2. Count' = (head' - tail') % BufSize
  BY DEF Count
<1>3. Count' = IF head' >= tail THEN head' - tail ELSE head' - tail + BufSize
  BY <1>1, <1>2 DEF BufSlots
<1>4. Count' = Count + 1
  BY <1>3, IncFact, CountFact DEF BufSlots
<1>5. (tail + (Count + 1) - 1) % BufSize = head
  <2>1. CASE head >= tail
    <3>1. tail + (Count + 1) - 1 = head
      BY <2>1, CountFact DEF BufSlots
    <3> QED BY <3>1 DEF BufSlots
  <2>2. CASE head < tail
    <3>1. tail + (Count + 1) - 1 = head + BufSize
      BY <2>2, CountFact DEF BufSlots
    <3>2. (head + BufSize) % BufSize = head
      BY DEF BufSlots
    <3> QED BY <3>1, <3>2
  <2> QED BY <2>1, <2>2 DEF BufSlots
<1>6. ~(IsEmpty')
  BY <1>1, IncFact, CountFact DEF BufSlots, IsEmpty, IsFull
<1> QED BY <1>1, <1>4, <1>5, <1>6

\* Advancing tail removes the oldest character and shifts the others.
LEMMA ReadFact ==
  ASSUME head \in BufSlots, tail \in BufSlots, ~IsEmpty,
         tail' = Inc(tail), head' = head, data' = data
  PROVE  /\ tail' \in BufSlots
         /\ Count > 0
         /\ Count' = Count - 1
         /\ tail % BufSize = tail
         /\ \A i \in 1..(Count - 1) :
               (tail' + i - 1) % BufSize = (tail + (i + 1) - 1) % BufSize
<1>1. tail' \in BufSlots
  BY IncFact DEF BufSlots
<1>2. Count' = (head' - tail') % BufSize
  BY DEF Count
<1>3. Count' = IF head >= tail' THEN head - tail' ELSE head - tail' + BufSize
  BY <1>1, <1>2 DEF BufSlots
<1>4. Count > 0 /\ Count' = Count - 1
  BY <1>3, IncFact, CountFact DEF BufSlots
<1>5. tail % BufSize = tail
  BY DEF BufSlots
<1>6. ASSUME NEW i \in 1..(Count - 1)
      PROVE  (tail' + i - 1) % BufSize = (tail + (i + 1) - 1) % BufSize
  <2>1. i \in Nat /\ i + 1 \in 1..Count /\ i <= BufSize - 1 /\ i >= 1
    BY CountFact
  <2>2. CASE tail + 1 < BufSize
    BY <2>1, <2>2, IncFact DEF BufSlots
  <2>3. CASE tail + 1 = BufSize
    <3>1. tail' = 0 /\ tail + (i + 1) - 1 = BufSize + (i - 1)
      BY <2>1, <2>3, IncFact DEF BufSlots
    <3>2. (BufSize + (i - 1)) % BufSize = i - 1
      BY <2>1
    <3>3. (0 + i - 1) % BufSize = i - 1
      BY <2>1
    <3> QED BY <3>1, <3>2, <3>3
  <2> QED BY <2>2, <2>3 DEF BufSlots
<1> QED BY <1>1, <1>4, <1>5, <1>6
-----------------------------------------------------------------------------
(* The inductive invariant.                                                  *)

Inv == CryptoTypeOK /\ IndInv

LEMMA InitInv == CryptoInit => Inv
<1> SUFFICES ASSUME CryptoInit PROVE Inv
  OBVIOUS
<1>1. CryptoTypeOK
  <2>1. data \in [BufSlots -> CipherChars \cup {0}]
    BY DEF CryptoInit
  <2>2. head \in BufSlots /\ tail \in BufSlots
    BY DEF CryptoInit, BufSlots
  <2>3. accepted \in Seq(Chars) /\ received \in Seq(CipherChars)
    BY DEF CryptoInit
  <2> QED BY <2>1, <2>2, <2>3 DEF CryptoInit, CryptoTypeOK, CryptoPcs, TransPcs
<1>2. Count = 0
  BY CountFact, <1>1 DEF CryptoInit, CryptoTypeOK
<1>3. IndInv
  BY <1>1, <1>2 DEF CryptoInit, IndInv, CryptoInCS, TransInCS, NoLostNotification,
                    IsEmpty
<1> QED BY <1>1, <1>3 DEF Inv

\* Every step keeps the types.
LEMMA NextTypeOK == Inv /\ [CryptoNext]_cryptoVars => CryptoTypeOK'
<1> SUFFICES ASSUME Inv, [CryptoNext]_cryptoVars PROVE CryptoTypeOK'
  OBVIOUS
<1> USE DEF Inv
<1>0. Inc(head) \in BufSlots /\ Inc(tail) \in BufSlots
  <2>1. head \in BufSlots /\ tail \in BufSlots
    BY DEF CryptoTypeOK
  <2> QED BY <2>1, IncFact DEF BufSlots
<1>1. CASE \E k \in Chars : KeyPress(k)
  BY <1>1 DEF KeyPress, CryptoTypeOK, CryptoPcs, dataport
<1>2. CASE CryptoLock \/ CryptoDiscard \/ CryptoCheck
  BY <1>2 DEF CryptoLock, CryptoDiscard, CryptoCheck, CryptoTypeOK, CryptoPcs, dataport
<1>3. CASE CryptoWrite
  <2>1. Stored \in CipherChars
    BY <1>3 DEF CryptoWrite, IndInv, CipherChars, Stored
  <2> QED BY <1>3, <2>1 DEF CryptoWrite, CryptoTypeOK, CryptoPcs
<1>4. CASE CryptoBump
  BY <1>0, <1>4 DEF CryptoBump, IndInv, CryptoTypeOK, CryptoPcs
<1>5. CASE CryptoUnlock \/ CryptoEmit
  BY <1>5 DEF CryptoUnlock, CryptoEmit, CryptoTypeOK, CryptoPcs, dataport
<1>6. CASE TransPoll \/ TransLock \/ TransUnlock \/ TransWork
  BY <1>6 DEF TransPoll, TransLock, TransUnlock, TransWork, CryptoTypeOK, TransPcs,
              dataport
<1>7. CASE TransTest
  BY <1>7 DEF TransTest, CryptoTypeOK, TransPcs, dataport
<1>8. CASE TransRead
  <2>1. 1 \in 1..Count /\ (tail + 1 - 1) % BufSize = tail
    <3>1. head \in BufSlots /\ tail \in BufSlots /\ ~IsEmpty
      BY <1>8 DEF TransRead, IndInv, CryptoTypeOK
    <3>2. Count \in Nat /\ Count # 0
      BY <3>1, CountFact
    <3>3. (tail + 1 - 1) % BufSize = tail
      BY <3>1 DEF BufSlots
    <3> QED BY <3>2, <3>3
  <2>2. data[tail] = rot_13(accepted[Len(received) + 1])
    BY <2>1 DEF IndInv
  <2>3. accepted[Len(received) + 1] \in Chars
    BY <2>1, CountFact DEF IndInv, CryptoTypeOK
  <2>4. encrypted_char \in CipherChars
    BY <1>8, <2>2, <2>3 DEF TransRead, IndInv, CipherChars
  <2> QED BY <1>0, <1>8, <2>4 DEF TransRead, CryptoTypeOK, TransPcs
<1>9. CASE UNCHANGED cryptoVars
  BY <1>9 DEF cryptoVars, dataport, CryptoTypeOK
<1> QED
  BY <1>1, <1>2, <1>3, <1>4, <1>5, <1>6, <1>7, <1>8, <1>9
  DEF CryptoNext, Crypto, Transmitter

\* The steps that leave the ring and its histories alone only move the mutex,
\* the notification and the program counters.
LEMMA RingUntouched ==
  ASSUME Inv, UNCHANGED <<dataport, accepted, received>>
  PROVE  /\ Count' = Count
         /\ IsEmpty' = IsEmpty
         /\ IsFull' = IsFull
         /\ (Len(accepted) = Len(received) + Count)'
         /\ (\A i \in 1..Len(received) : received[i] = rot_13(accepted[i]))'
         /\ (\A i \in 1..Count : data[(tail + i - 1) % BufSize]
                                  = rot_13(accepted[Len(received) + i]))'
BY DEF Inv, IndInv, dataport, Count, IsEmpty, IsFull

LEMMA NextIndInv == Inv /\ [CryptoNext]_cryptoVars => IndInv'
<1> SUFFICES ASSUME Inv, [CryptoNext]_cryptoVars PROVE IndInv'
  OBVIOUS
<1> USE DEF CryptoInCS, TransInCS
<1>0. CryptoTypeOK /\ IndInv
  BY DEF Inv
<1>1. CASE \E k \in Chars : KeyPress(k)
  <2>1. UNCHANGED <<dataport, accepted, received>>
    BY <1>1 DEF KeyPress
  <2> QED BY <1>0, <1>1, <2>1, RingUntouched
          DEF KeyPress, IndInv, NoLostNotification, dataport
<1>2. CASE CryptoLock \/ CryptoDiscard \/ CryptoCheck \/ CryptoUnlock \/ CryptoEmit
  <2>1. UNCHANGED <<dataport, accepted, received>>
    BY <1>2 DEF CryptoLock, CryptoDiscard, CryptoCheck, CryptoUnlock, CryptoEmit
  <2> QED BY <1>0, <1>2, <2>1, RingUntouched
          DEF CryptoLock, CryptoDiscard, CryptoCheck, CryptoUnlock, CryptoEmit,
              CanLock, IndInv, NoLostNotification, dataport
<1>3. CASE CryptoWrite
  <2>1. \A i \in 1..Count : data'[(tail + i - 1) % BufSize]
                              = data[(tail + i - 1) % BufSize]
    BY <1>0, <1>3, OccupiedFact DEF CryptoWrite, CryptoTypeOK
  <2>2. data'[head] = rot_13(char)
    BY <1>0, <1>3 DEF CryptoWrite, Stored, CryptoTypeOK
  <2>3. Count' = Count /\ IsEmpty' = IsEmpty /\ IsFull' = IsFull
    BY <1>3 DEF CryptoWrite, Count, IsEmpty, IsFull
  <2> QED BY <1>0, <1>3, <2>1, <2>2, <2>3
          DEF CryptoWrite, IndInv, NoLostNotification
<1>4. CASE CryptoBump
  <2>1. /\ Count' = Count + 1
        /\ (tail + (Count + 1) - 1) % BufSize = head
        /\ ~(IsEmpty')
    BY <1>0, <1>4, BumpFact DEF CryptoBump, CryptoTypeOK, IndInv
  <2>2. Count \in Nat
    BY <1>0, CountFact DEF CryptoTypeOK
  <2>3. /\ Len(accepted') = Len(accepted) + 1
        /\ accepted'[Len(accepted) + 1] = char
        /\ \A i \in 1..Len(accepted) : accepted'[i] = accepted[i]
    BY <1>0, <1>4 DEF CryptoBump, CryptoTypeOK
  <2>4. (Len(accepted) = Len(received) + Count)'
    BY <1>0, <1>4, <2>1, <2>2, <2>3 DEF CryptoBump, IndInv, CryptoTypeOK
  <2>5. (\A i \in 1..Len(received) : received[i] = rot_13(accepted[i]))'
    BY <1>0, <1>4, <2>2, <2>3 DEF CryptoBump, IndInv, CryptoTypeOK
  <2>6. (\A i \in 1..Count : data[(tail + i - 1) % BufSize]
                             = rot_13(accepted[Len(received) + i]))'
    <3> SUFFICES ASSUME NEW i \in 1..(Count + 1)
                 PROVE  data[(tail + i - 1) % BufSize]
                          = rot_13(accepted'[Len(received) + i])
      BY <1>4, <2>1 DEF CryptoBump
    <3>1. CASE i \in 1..Count
      <4>1. data[(tail + i - 1) % BufSize] = rot_13(accepted[Len(received) + i])
        BY <1>0, <3>1 DEF IndInv
      <4>2. Len(received) + i \in 1..Len(accepted)
        BY <1>0, <2>2, <3>1 DEF IndInv, CryptoTypeOK
      <4> QED BY <2>3, <4>1, <4>2
    <3>2. CASE i = Count + 1
      BY <1>0, <1>4, <2>1, <2>2, <2>3, <3>2 DEF CryptoBump, IndInv, CryptoTypeOK
    <3> QED BY <2>2, <3>1, <3>2
  <2> QED BY <1>0, <1>4, <2>1, <2>4, <2>5, <2>6
          DEF CryptoBump, IndInv, NoLostNotification
<1>5. CASE TransPoll \/ TransLock \/ TransTest \/ TransUnlock \/ TransWork
  <2>1. UNCHANGED <<dataport, accepted, received>>
    BY <1>5 DEF TransPoll, TransLock, TransTest, TransUnlock, TransWork
  <2> QED BY <1>0, <1>5, <2>1, RingUntouched
          DEF TransPoll, TransLock, TransTest, TransUnlock, TransWork,
              CanLock, IndInv, NoLostNotification, dataport
<1>6. CASE TransRead
  <2>1. /\ Count > 0
        /\ Count' = Count - 1
        /\ tail % BufSize = tail
        /\ \A i \in 1..(Count - 1) :
              (tail' + i - 1) % BufSize = (tail + (i + 1) - 1) % BufSize
    BY <1>0, <1>6, ReadFact DEF TransRead, CryptoTypeOK, IndInv
  <2>2. Count \in Nat /\ tail + 1 - 1 = tail
    BY <1>0, CountFact DEF CryptoTypeOK, BufSlots
  <2>3. encrypted_char = rot_13(accepted[Len(received) + 1])
    BY <1>0, <1>6, <2>1, <2>2 DEF TransRead, IndInv
  <2>4. /\ Len(received') = Len(received) + 1
        /\ received'[Len(received) + 1] = encrypted_char
        /\ \A i \in 1..Len(received) : received'[i] = received[i]
    <3>1. received' \in Seq(CipherChars)
      BY NextTypeOK DEF CryptoTypeOK
    <3> QED BY <1>0, <1>6, <3>1, AppendFact DEF TransRead, CryptoTypeOK
  <2>5. (Len(accepted) = Len(received) + Count)'
    <3>1. Len(received) \in Nat
      BY <1>0 DEF CryptoTypeOK
    <3> QED BY <1>0, <1>6, <2>1, <2>2, <2>4, <3>1 DEF TransRead, IndInv
  <2>6. (\A i \in 1..Len(received) : received[i] = rot_13(accepted[i]))'
    BY <1>0, <1>6, <2>3, <2>4 DEF TransRead, IndInv, CryptoTypeOK
  <2>7. (\A i \in 1..Count : data[(tail + i - 1) % BufSize]
                             = rot_13(accepted[Len(received) + i]))'
    <3> SUFFICES ASSUME NEW i \in 1..(Count - 1)
                 PROVE  data[(tail' + i - 1) % BufSize]
                          = rot_13(accepted[Len(received') + i])
      BY <1>6, <2>1 DEF TransRead
    <3>1. i + 1 \in 1..Count /\ Len(received') + i = Len(received) + (i + 1)
      BY <1>0, <2>2, <2>4 DEF CryptoTypeOK
    <3> QED BY <1>0, <2>1, <3>1 DEF IndInv
  <2> QED BY <1>0, <1>6, <2>5, <2>6, <2>7
          DEF TransRead, IndInv, NoLostNotification
<1>7. CASE UNCHANGED cryptoVars
  <2>1. UNCHANGED <<dataport, accepted, received>>
    BY <1>7 DEF cryptoVars
  <2> QED BY <1>0, <1>7, <2>1, RingUntouched
          DEF cryptoVars, IndInv, NoLostNotification, dataport
<1> QED
  BY <1>1, <1>2, <1>3, <1>4, <1>5, <1>6, <1>7 DEF CryptoNext, Crypto, Transmitter

LEMMA Invariance == CryptoSpec => []Inv
<1>1. Inv /\ [CryptoNext]_cryptoVars => Inv'
  BY NextTypeOK, NextIndInv DEF Inv
<1> QED BY InitInv, <1>1, PTL DEF CryptoSpec
-----------------------------------------------------------------------------
(* The theorems.                                                             *)

\* Types are respected in every reachable state; in particular both indices
\* stay inside the buffer, whatever its size.
THEOREM TypeCorrect == CryptoSpec => []CryptoTypeOK
BY Invariance, PTL DEF Inv

\* Crypto's handler and the Transmitter's receive loop are never in the
\* dataport together.
THEOREM MutualExclusionHolds == CryptoSpec => []MutualExclusion
<1>1. Inv => MutualExclusion
  BY DEF Inv, IndInv, MutualExclusion
<1> QED BY Invariance, <1>1, PTL

\* A character left in the ring is always going to be looked at.
THEOREM NotificationNeverLost == CryptoSpec => []NoLostNotification
<1>1. Inv => NoLostNotification
  BY DEF Inv, IndInv
<1> QED BY Invariance, <1>1, PTL

\* Contents is a sequence of Count characters.
LEMMA ContentsType ==
  Inv => /\ Contents \in Seq(CipherChars)
         /\ Len(Contents) = Count
         /\ \A i \in 1..Count :
              Contents[i] = rot_13(accepted[Len(received) + i])
<1> HAVE Inv
<1>1. Count \in Nat
  BY CountFact DEF Inv, CryptoTypeOK
<1>2. \A i \in 1..Count :
         data[(tail + i - 1) % BufSize] = rot_13(accepted[Len(received) + i])
  BY DEF Inv, IndInv
<1>3. \A i \in 1..Count : accepted[Len(received) + i] \in Chars
  BY <1>1 DEF Inv, IndInv, CryptoTypeOK
<1>4. \A i \in 1..Count : data[(tail + i - 1) % BufSize] \in CipherChars
  BY <1>2, <1>3 DEF CipherChars
<1> QED BY <1>1, <1>2, <1>4 DEF Contents

\* What was handed on and what is in the ring is the encryption of the
\* accepted characters, complete and in order.
THEOREM CipherInOrderHolds == CryptoSpec => []CipherInOrder
<1>1. ASSUME Inv PROVE CipherInOrder
  <2> DEFINE whole == received \o Contents
             enc   == [i \in 1..Len(accepted) |-> rot_13(accepted[i])]
  <2>1. received \in Seq(CipherChars) /\ Contents \in Seq(CipherChars)
    BY <1>1, ContentsType DEF Inv, CryptoTypeOK
  <2>2. Len(Contents) = Count /\ Count \in Nat /\ Len(received) \in Nat
    BY <1>1, <2>1, ContentsType
  <2>3. Len(accepted) = Len(received) + Count
    BY <1>1 DEF Inv, IndInv
  <2>4. /\ whole \in Seq(CipherChars)
        /\ Len(whole) = Len(received) + Len(Contents)
        /\ \A i \in 1..(Len(received) + Len(Contents)) :
              whole[i] = IF i <= Len(received) THEN received[i]
                                               ELSE Contents[i - Len(received)]
    BY <2>1, ConcatProperties
  <2>5. ASSUME NEW i \in 1..Len(accepted)
        PROVE  (IF i <= Len(received) THEN received[i]
                                      ELSE Contents[i - Len(received)])
                 = rot_13(accepted[i])
    <3>1. CASE i <= Len(received)
      <4>1. i \in 1..Len(received)
        BY <2>2, <2>3, <3>1
      <4> QED BY <1>1, <3>1, <4>1 DEF Inv, IndInv
    <3>2. CASE ~(i <= Len(received))
      <4>1. i - Len(received) \in 1..Count
        BY <2>2, <2>3, <3>2
      <4>2. Contents[i - Len(received)]
              = rot_13(accepted[Len(received) + (i - Len(received))])
        BY <1>1, <4>1, ContentsType
      <4>3. Len(received) + (i - Len(received)) = i
        BY <2>2, <2>3
      <4> QED BY <3>2, <4>2, <4>3
    <3> QED BY <3>1, <3>2
  <2>6. enc \in Seq(CipherChars) /\ Len(enc) = Len(accepted)
    BY <1>1 DEF Inv, CryptoTypeOK, CipherChars
  <2>7. \A i \in 1..Len(whole) : whole[i] = enc[i]
    BY <2>2, <2>3, <2>4, <2>5
  <2>8. whole = enc
    <3>1. Len(whole) = Len(enc)
      BY <2>2, <2>3, <2>4, <2>6
    <3> HIDE DEF whole, enc
    <3> QED BY <2>4, <2>6, <2>7, <3>1, SeqEqual
  <2>9. enc = [i \in 1..Len(accepted) |-> Rotate13(accepted[i])]
    <3>1. \A i \in 1..Len(accepted) : accepted[i] \in Int
      <4>1. accepted \in Seq(Chars)
        BY <1>1 DEF Inv, CryptoTypeOK
      <4>2. \A i \in 1..Len(accepted) : accepted[i] \in Chars
        BY <4>1
      <4> QED BY <4>2, CharsAssumption
    <3>2. \A i \in 1..Len(accepted) : rot_13(accepted[i]) = Rotate13(accepted[i])
      BY <3>1, RotationCorrect
    <3> QED BY <3>2
  <2> QED BY <2>8, <2>9 DEF CipherInOrder
<1> QED BY Invariance, <1>1, PTL
-----------------------------------------------------------------------------
(* Refinement of BoundedFifo: the critical sections are atomic channel      *)
(* operations, taken when the index moves.                                   *)

\* A step that leaves the ring alone leaves the channel alone.
LEMMA ContentsUnchanged ==
  ASSUME UNCHANGED dataport
  PROVE  Contents' = Contents
BY DEF dataport, Contents, Count

\* Preparing the slot at head is invisible in the channel.
LEMMA WriteInvisible ==
  ASSUME Inv, CryptoWrite
  PROVE  Contents' = Contents
<1>1. Count' = Count
  BY DEF CryptoWrite, Count
<1>2. \A i \in 1..Count : data'[(tail + i - 1) % BufSize]
                            = data[(tail + i - 1) % BufSize]
  BY OccupiedFact DEF CryptoWrite, Inv, CryptoTypeOK
<1> QED BY <1>1, <1>2 DEF CryptoWrite, Contents

\* Moving head puts the encrypted character into the channel.
LEMMA BumpIsPut ==
  ASSUME Inv, Inv', CryptoBump
  PROVE  Fifo!Put(rot_13(char)) /\ rot_13(char) \in CipherChars
<1>1. Count' = Count + 1 /\ (tail + (Count + 1) - 1) % BufSize = head
  BY BumpFact DEF CryptoBump, Inv, CryptoTypeOK, IndInv
<1>2. Count \in Nat /\ Count < BufSize - 1
  BY CountFact DEF CryptoBump, Inv, CryptoTypeOK, IndInv
<1>3. rot_13(char) \in CipherChars
  BY DEF CryptoBump, Inv, IndInv, CipherChars
<1>4. /\ Contents \in Seq(CipherChars) /\ Len(Contents) = Count
      /\ Contents' \in Seq(CipherChars) /\ Len(Contents') = Count + 1
  <2>1. (Contents \in Seq(CipherChars) /\ Len(Contents) = Count)'
    BY ContentsType, PTL
  <2> QED BY <1>1, <2>1, ContentsType
<1>5. /\ Append(Contents, rot_13(char)) \in Seq(CipherChars)
      /\ Len(Append(Contents, rot_13(char))) = Count + 1
      /\ Append(Contents, rot_13(char))[Count + 1] = rot_13(char)
      /\ \A i \in 1..Count : Append(Contents, rot_13(char))[i] = Contents[i]
  BY <1>3, <1>4, AppendFact
<1>6. \A i \in 1..(Count + 1) : Contents'[i] = Append(Contents, rot_13(char))[i]
  <2> TAKE i \in 1..(Count + 1)
  <2>1. Contents'[i] = data[(tail + i - 1) % BufSize]
    BY <1>1 DEF CryptoBump, Contents
  <2>2. CASE i \in 1..Count
    BY <1>5, <2>1, <2>2 DEF Contents
  <2>3. CASE i = Count + 1
    BY <1>1, <1>5, <2>1, <2>3 DEF CryptoBump, Inv, IndInv
  <2>4. i \in 1..Count \/ i = Count + 1
    BY <1>2
  <2> QED BY <2>2, <2>3, <2>4
<1>7. Contents' = Append(Contents, rot_13(char))
  BY <1>4, <1>5, <1>6, SeqEqual
<1> QED BY <1>2, <1>3, <1>4, <1>7 DEF CryptoBump, Fifo!Put

\* Moving tail takes the oldest character out of the channel.
LEMMA ReadIsGet ==
  ASSUME Inv, Inv', TransRead
  PROVE  Fifo!Get
<1>1. /\ Count > 0
      /\ Count' = Count - 1
      /\ tail % BufSize = tail
      /\ \A i \in 1..(Count - 1) :
            (tail' + i - 1) % BufSize = (tail + (i + 1) - 1) % BufSize
  BY ReadFact DEF TransRead, Inv, CryptoTypeOK, IndInv
<1>2. Count \in Nat /\ tail + 1 - 1 = tail
  BY CountFact DEF Inv, CryptoTypeOK, BufSlots
<1>3. /\ Contents \in Seq(CipherChars) /\ Len(Contents) = Count
      /\ Contents' \in Seq(CipherChars) /\ Len(Contents') = Count - 1
  <2>1. (Contents \in Seq(CipherChars) /\ Len(Contents) = Count)'
    BY ContentsType, PTL
  <2> QED BY <1>1, <2>1, ContentsType
<1>4. Contents # <<>> /\ Head(Contents) = Contents[1]
  BY <1>1, <1>2, <1>3
<1>5. Contents[1] = encrypted_char
  BY <1>1, <1>2 DEF Contents, TransRead, Inv, IndInv
<1>6. /\ Tail(Contents) \in Seq(CipherChars)
      /\ Len(Tail(Contents)) = Count - 1
      /\ \A i \in 1..(Count - 1) : Tail(Contents)[i] = Contents[i + 1]
  BY <1>2, <1>3, <1>4, HeadTailProperties
<1>7. \A i \in 1..(Count - 1) : Contents'[i] = Tail(Contents)[i]
  <2> TAKE i \in 1..(Count - 1)
  <2>1. Contents'[i] = data[(tail' + i - 1) % BufSize]
    BY <1>1 DEF TransRead, Contents
  <2>2. i + 1 \in 1..Count
    BY <1>2
  <2>3. Contents[i + 1] = data[(tail + (i + 1) - 1) % BufSize]
    BY <2>2 DEF Contents
  <2> QED BY <1>1, <1>6, <2>1, <2>3
<1>8. Contents' = Tail(Contents)
  BY <1>3, <1>6, <1>7, SeqEqual
<1> QED BY <1>4, <1>5, <1>8 DEF TransRead, Fifo!Get

\* A character is refused only when the channel is at its capacity.
LEMMA DiscardIsDiscard ==
  ASSUME Inv, CryptoDiscard
  PROVE  Fifo!Discard
<1>1. Len(Contents) = BufSize - 1
  BY ContentsType, CountFact DEF CryptoDiscard, Inv, CryptoTypeOK
<1>2. Contents' = Contents
  BY ContentsUnchanged DEF CryptoDiscard
<1> QED BY <1>1, <1>2 DEF CryptoDiscard, Fifo!Discard

\* The dataport protocol of Crypto and Transmitter implements a bounded
\* first-in first-out channel that loses a character only when it is full.
THEOREM ImplementsFifo == CryptoSpec => FifoRefinement
<1>1. CryptoInit => Fifo!FifoInit
  <2> SUFFICES ASSUME CryptoInit PROVE Fifo!FifoInit
    OBVIOUS
  <2>1. Inv
    BY InitInv
  <2>2. Len(Contents) = 0 /\ Contents \in Seq(CipherChars)
    BY <2>1, ContentsType, CountFact DEF Inv, CryptoTypeOK, CryptoInit, IsEmpty
  <2> QED BY <2>2 DEF CryptoInit, Fifo!FifoInit
<1>2. Inv /\ Inv' /\ [CryptoNext]_cryptoVars => [Fifo!FifoNext]_(Fifo!fifoVars)
  <2> SUFFICES ASSUME Inv, Inv', [CryptoNext]_cryptoVars
               PROVE  [Fifo!FifoNext]_(Fifo!fifoVars)
    OBVIOUS
  <2>1. CASE UNCHANGED <<dataport, discarded, received>>
    BY <2>1, ContentsUnchanged DEF Fifo!fifoVars
  <2>2. CASE CryptoWrite
    BY <2>2, WriteInvisible DEF CryptoWrite, Fifo!fifoVars
  <2>3. CASE CryptoBump
    BY <2>3, BumpIsPut DEF Fifo!FifoNext
  <2>4. CASE TransRead
    BY <2>4, ReadIsGet DEF Fifo!FifoNext
  <2>5. CASE CryptoDiscard
    BY <2>5, DiscardIsDiscard DEF Fifo!FifoNext
  <2>6. \/ UNCHANGED <<dataport, discarded, received>>
        \/ CryptoWrite \/ CryptoBump \/ TransRead \/ CryptoDiscard
    BY DEF CryptoNext, Crypto, Transmitter, cryptoVars, KeyPress, CryptoLock, CryptoCheck,
           CryptoUnlock, CryptoEmit, TransPoll, TransLock, TransTest,
           TransUnlock, TransWork
  <2> QED BY <2>1, <2>2, <2>3, <2>4, <2>5, <2>6
<1> QED BY <1>1, <1>2, Invariance, PTL DEF CryptoSpec, FifoRefinement, Fifo!FifoSpec
=============================================================================
