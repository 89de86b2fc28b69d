---------------------------- MODULE CryptoBuffer ----------------------------
(* The path of a keypress through the security demo: the KeyReader calls     *)
(* the Crypto component over RPC; Crypto encrypts the character and puts it  *)
(* into a circular buffer in a dataport it shares with the Transmitter; the  *)
(* Transmitter, woken by a notification, drains the buffer.  Both sides      *)
(* touch the dataport under Crypto's mutex, which the Transmitter takes      *)
(* through the circular_buffer_lock RPC.  The two threads interleave at      *)
(* every access to the dataport, the mutex and the notification.             *)
(*                                                                           *)
(* What the Transmitter then does with a character it has read (the two      *)
(* pending buffers) is in module Transmitter; here it joins `received`.      *)
EXTENDS Integers, Sequences, Rot13

CONSTANTS Chars,     \* the characters that may be typed
          BufSize,   \* slots of the circular buffer (256 in the code)
          MaxKeys    \* bound: how many keys are pressed

ASSUME CharsAssumption == Chars \subseteq Int
ASSUME BufSizeAssumption == BufSize \in Nat /\ BufSize >= 2
ASSUME MaxKeysAssumption == MaxKeys \in Nat

VARIABLES
  data, head, tail,   \* dataport_buffer_t
  mutex,              \* holder of circular_buffer_mutex, or "free"
  notify,             \* the pending bit of circular_buffer_notify
  cryptoPc,           \* where clear_text_handle_character is
  char,               \* its argument c
  transPc,            \* where the Transmitter's loop is
  encrypted_char,     \* the character receive_data_... has just read
  keys,               \* how many keys were pressed
  accepted,           \* history: clear text of the characters put in the buffer
  discarded,          \* history: number of characters found the buffer full
  received            \* history: characters handed on by the Transmitter

dataport == <<data, head, tail>>
cryptoVars == <<dataport, mutex, notify, cryptoPc, char, transPc, encrypted_char, keys,
          accepted, discarded, received>>

BufSlots == 0..(BufSize - 1)

CipherChars == {rot_13(k) : k \in Chars}

\* `head += 1` on a uint8_t index of a 256-slot buffer.
Inc(index) == (index + 1) % BufSize

\* Mutant: the test whether there is room is left out.
IsFull_never == FALSE
IsFull == Inc(head) = tail
IsEmpty == head = tail

\* Mutant: the lock calls fail (their result is only printed) or are left out.
CanLock_always == TRUE
CanLock == mutex = "free"

Stored == rot_13(char)
-----------------------------------------------------------------------------
CryptoPcs == {"idle", "lock", "check", "write", "bump", "unlock", "emit"}
TransPcs  == {"poll", "lock", "test", "read", "unlock", "work"}

\* Dataports are zeroed memory when the components start.
CryptoInit ==
  /\ data = [s \in BufSlots |-> 0]
  /\ head = 0
  /\ tail = 0
  /\ mutex = "free"
  /\ notify = FALSE
  /\ cryptoPc = "idle"
  /\ char = 0
  /\ transPc = "poll"
  /\ encrypted_char = 0
  /\ keys = 0
  /\ accepted = <<>>
  /\ discarded = 0
  /\ received = <<>>
-----------------------------------------------------------------------------
(* KeyReader: uboot_stdin_tstc() reports a key and the RPC is made.  The     *)
(* call blocks, so the next key waits until the handler has returned.        *)
KeyPress(k) ==
  /\ cryptoPc = "idle"
  /\ keys < MaxKeys
  /\ keys' = keys + 1
  /\ char' = k
  /\ cryptoPc' = "lock"
  /\ UNCHANGED <<dataport, mutex, notify, transPc, encrypted_char,
                 accepted, discarded, received>>

(* clear_text_handle_character, in Crypto's clear_text thread.               *)
CryptoLock ==
  /\ cryptoPc = "lock"
  /\ CanLock
  /\ mutex' = "crypto"
  /\ cryptoPc' = "check"
  /\ UNCHANGED <<dataport, notify, char, transPc, encrypted_char, keys,
                 accepted, discarded, received>>

CryptoDiscard ==
  /\ cryptoPc = "check"
  /\ IsFull
  /\ discarded' = discarded + 1
  /\ cryptoPc' = "unlock"
  /\ UNCHANGED <<dataport, mutex, notify, char, transPc, encrypted_char, keys,
                 accepted, received>>

CryptoCheck ==
  /\ cryptoPc = "check"
  /\ ~IsFull
  /\ cryptoPc' = "write"
  /\ UNCHANGED <<dataport, mutex, notify, char, transPc, encrypted_char, keys,
                 accepted, discarded, received>>

CryptoWrite ==
  /\ cryptoPc = "write"
  /\ data' = [data EXCEPT ![head] = Stored]
  /\ cryptoPc' = "bump"
  /\ UNCHANGED <<head, tail, mutex, notify, char, transPc, encrypted_char, keys,
                 accepted, discarded, received>>

CryptoBump ==
  /\ cryptoPc = "bump"
  /\ head' = Inc(head)
  /\ accepted' = Append(accepted, char)
  /\ cryptoPc' = "unlock"
  /\ UNCHANGED <<data, tail, mutex, notify, char, transPc, encrypted_char, keys,
                 discarded, received>>

\* Mutant: the handler returns without emitting.
CryptoUnlock_no_emit ==
  /\ cryptoPc = "unlock"
  /\ mutex' = "free"
  /\ cryptoPc' = "idle"
  /\ UNCHANGED <<dataport, notify, char, transPc, encrypted_char, keys,
                 accepted, discarded, received>>

CryptoUnlock ==
  /\ cryptoPc = "unlock"
  /\ mutex' = "free"
  /\ cryptoPc' = "emit"
  /\ UNCHANGED <<dataport, notify, char, transPc, encrypted_char, keys,
                 accepted, discarded, received>>

(* Emitted whether or not the character was discarded; then the RPC returns. *)
CryptoEmit ==
  /\ cryptoPc = "emit"
  /\ notify' = TRUE
  /\ cryptoPc' = "idle"
  /\ UNCHANGED <<dataport, mutex, char, transPc, encrypted_char, keys,
                 accepted, discarded, received>>
-----------------------------------------------------------------------------
(* The Transmitter's loop: circular_buffer_notify_poll() consumes the bit.   *)
TransPoll ==
  /\ transPc = "poll"
  /\ transPc' = IF notify THEN "lock" ELSE "work"
  /\ notify' = FALSE
  /\ UNCHANGED <<dataport, mutex, cryptoPc, char, encrypted_char, keys,
                 accepted, discarded, received>>

TransLock ==
  /\ transPc = "lock"
  /\ CanLock
  /\ mutex' = "transmitter"
  /\ transPc' = "test"
  /\ UNCHANGED <<dataport, notify, cryptoPc, char, encrypted_char, keys,
                 accepted, discarded, received>>

\* The while condition, and the read of data[tail] when it holds.
TransTest ==
  /\ transPc = "test"
  /\ IF IsEmpty
     THEN transPc' = "unlock" /\ UNCHANGED encrypted_char
     ELSE transPc' = "read" /\ encrypted_char' = data[tail]
  /\ UNCHANGED <<dataport, mutex, notify, cryptoPc, char, keys,
                 accepted, discarded, received>>

\* Mutant: one character per notification (`if` for `while`).
TransRead_once ==
  /\ transPc = "read"
  /\ tail' = Inc(tail)
  /\ received' = Append(received, encrypted_char)
  /\ transPc' = "unlock"
  /\ UNCHANGED <<data, head, mutex, notify, cryptoPc, char, encrypted_char, keys,
                 accepted, discarded>>

TransRead ==
  /\ transPc = "read"
  /\ tail' = Inc(tail)
  /\ received' = Append(received, encrypted_char)
  /\ transPc' = "test"
  /\ UNCHANGED <<data, head, mutex, notify, cryptoPc, char, encrypted_char, keys,
                 accepted, discarded>>

TransUnlock ==
  /\ transPc = "unlock"
  /\ mutex' = "free"
  /\ transPc' = "work"
  /\ UNCHANGED <<dataport, notify, cryptoPc, char, encrypted_char, keys,
                 accepted, discarded, received>>

\* The rest of the loop body, which touches nothing of this module's state.
TransWork ==
  /\ transPc = "work"
  /\ transPc' = "poll"
  /\ UNCHANGED <<dataport, mutex, notify, cryptoPc, char, encrypted_char, keys,
                 accepted, discarded, received>>
-----------------------------------------------------------------------------
Crypto == \/ CryptoLock \/ CryptoDiscard \/ CryptoCheck \/ CryptoWrite
          \/ CryptoBump \/ CryptoUnlock \/ CryptoEmit

Transmitter == \/ TransPoll \/ TransLock \/ TransTest \/ TransRead
               \/ TransUnlock \/ TransWork

CryptoNext == (\E k \in Chars : KeyPress(k)) \/ Crypto \/ Transmitter

CryptoSpec == CryptoInit /\ [][CryptoNext]_cryptoVars

(* Both components' threads keep running, and a thread queued on the mutex's *)
(* notification is eventually given it.  Nobody has to press a key.          *)
CryptoFairness == /\ WF_cryptoVars(Crypto) /\ SF_cryptoVars(CryptoLock)
                  /\ WF_cryptoVars(Transmitter) /\ SF_cryptoVars(TransLock)
-----------------------------------------------------------------------------
(* Properties                                                                *)

CryptoTypeOK ==
  /\ data \in [BufSlots -> CipherChars \cup {0}]
  /\ head \in BufSlots /\ tail \in BufSlots
  /\ mutex \in {"free", "crypto", "transmitter"}
  /\ notify \in BOOLEAN
  /\ cryptoPc \in CryptoPcs
  /\ char \in Chars \cup {0}
  /\ transPc \in TransPcs
  /\ encrypted_char \in CipherChars \cup {0}
  /\ keys \in 0..MaxKeys
  /\ accepted \in Seq(Chars)
  /\ discarded \in Nat
  /\ received \in Seq(CipherChars)

\* The steps taken with the mutex held.
CryptoInCS == cryptoPc \in {"check", "write", "bump", "unlock"}
TransInCS  == transPc \in {"test", "read", "unlock"}

\* "We ensure that only one component accesses [the dataport] at the time"
\* (crypto.c:70-72): Crypto's handler and the Transmitter's receive loop are
\* never both between their lock and unlock calls.
MutualExclusion == ~(CryptoInCS /\ TransInCS)

\* The characters in the dataport, oldest first, as a reader of the ring
\* finds them: from tail up to head, cyclically.
Count == (head - tail) % BufSize
Contents == [i \in 1..Count |-> data[(tail + i - 1) % BufSize]]

\* What the Transmitter has handed on followed by what is still in the ring is
\* the rotation by thirteen letters of exactly the characters Crypto accepted,
\* in the order they were typed: nothing overwritten, skipped, repeated, left
\* in clear or wrongly encrypted.
CipherInOrder ==
  received \o Contents = [i \in 1..Len(accepted) |-> Rotate13(accepted[i])]

\* A character in the ring is never forgotten: the notification is pending,
\* Crypto is still going to emit it, or the Transmitter is going to look at
\* the ring again before it polls (crypto.c:94, transmitter.c:237).
NoLostNotification ==
  ~IsEmpty => \/ notify
              \/ cryptoPc \in {"unlock", "emit"}
              \/ transPc \in {"lock", "test", "read"}

\* The strengthening of the above that every step preserves: who holds the
\* mutex is exactly who is in its critical section, a check made under the
\* mutex still holds when it is acted on, and slot by slot the ring holds the
\* accepted characters that were not received yet.
IndInv ==
  /\ mutex = "crypto" <=> CryptoInCS
  /\ mutex = "transmitter" <=> TransInCS
  /\ cryptoPc \in {"lock", "check", "write", "bump"} => char \in Chars
  /\ cryptoPc \in {"write", "bump"} => ~IsFull
  /\ cryptoPc = "bump" => data[head] = rot_13(char)
  /\ transPc = "read" => ~IsEmpty /\ encrypted_char = data[tail]
  /\ transPc = "unlock" => IsEmpty
  /\ Len(accepted) = Len(received) + Count
  /\ \A i \in 1..Len(received) : received[i] = rot_13(accepted[i])
  /\ \A i \in 1..Count :
       data[(tail + i - 1) % BufSize] = rot_13(accepted[Len(received) + i])
  /\ NoLostNotification

\* The ring behaves as a bounded FIFO channel of BufSize - 1 characters that
\* discards only when full, as dataport_buffer.h:12-22 says.
Fifo == INSTANCE BoundedFifo WITH
          Items <- CipherChars, Capacity <- BufSize - 1,
          queue <- Contents, delivered <- received, discarded <- discarded
FifoRefinement == Fifo!FifoSpec

\* Every accepted character eventually reaches the Transmitter.  (No more than
\* MaxKeys are typed, so that each has reached it when all have.)
EventuallyReceived ==
  CryptoFairness => (Len(received) < Len(accepted) ~> Len(received) = Len(accepted))
=============================================================================
