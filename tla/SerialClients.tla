--------------------------- MODULE SerialClients ---------------------------
(* Clients of SerialServer.                                                  *)
(* serialserver_interrupt and serialserver_polling read characters from a    *)
(* ring shared with the server, line by line; they wait (or poll) for a      *)
(* notification only when the ring is empty.                                 *)
(* serialserver_loopback asks for input through one virtqueue and writes     *)
(* what it gets to another, one request at a time.                           *)
EXTENDS Integers, Sequences

CONSTANTS
  SERIAL_BUF,         \* slots of the ring
  CLIENT_BUF,         \* the line buffer: 20
  HEAP,               \* buffers calloc can give before memory is used up
  MaxTyped            \* bound: characters typed, and characters read

ASSUME SerialAssumption ==
  SERIAL_BUF \in Nat \ {0, 1} /\ CLIENT_BUF \in Nat \ {0, 1} /\ HEAP \in Nat

VARIABLES
  sApp,               \* "ring" or "loopback"
  sTyped,             \* history: the characters SerialServer has taken
  head, tail, ring,   \* the shared memory
  sBell, sClient,     \* the notification; the client: "test", "wait", "read"
  line,               \* the first i characters of buf
  lines, taken,       \* histories: the lines put together, characters read
  ends,               \* history: how many had been read when each line ended
  overread,           \* history: a character was read from an empty ring
  readReq, writeReq,  \* the request in each virtqueue: its state and data
  leaked,             \* buffers never freed
  looped, garbled     \* histories: what was written, and which of it was
                      \* read from freed memory

ringVars == <<head, tail, ring, sBell, sClient, line, lines, taken, ends, overread>>
loopVars == <<readReq, writeReq, leaked, looped, garbled>>
serialVars == <<sApp, sTyped, ringVars, loopVars>>

CR == 0
Unset == -1           \* a slot never written, or memory that was freed
NoReq == [at |-> "none", data |-> <<>>]

\* run: the ring's clients start at once, loopback asks for input.
SerialInit ==
  /\ sApp \in {"ring", "loopback"} /\ sTyped = <<>>
  /\ head = 0 /\ tail = 0 /\ ring = [i \in 0..(SERIAL_BUF - 1) |-> Unset]
  /\ sBell = FALSE /\ sClient = "test" /\ line = <<>>
  /\ lines = <<>> /\ taken = <<>> /\ ends = <<>> /\ overread = FALSE
  /\ readReq = [at |-> "asked", data |-> <<>>] /\ writeReq = NoReq
  /\ leaked = 0 /\ looped = <<>> /\ garbled = {}

\* What is typed next: the end of a line, or a character not typed before.
Keys == {CR, Len(sTyped) + 1}
-----------------------------------------------------------------------------
(* The ring                                                                  *)

\* SerialServer (external) puts a character and notifies.
PutChar(c) ==
  /\ sApp = "ring" /\ Len(sTyped) < MaxTyped /\ (tail + 1) % SERIAL_BUF # head
  /\ ring' = [ring EXCEPT ![tail] = c]
  /\ tail' = (tail + 1) % SERIAL_BUF
  /\ sBell' = TRUE /\ sTyped' = Append(sTyped, c)
  /\ UNCHANGED <<sApp, head, sClient, line, lines, taken, ends, overread, loopVars>>

TestRing ==
  /\ sApp = "ring" /\ sClient = "test"
  /\ sClient' = IF head = tail THEN "wait" ELSE "read"
  /\ UNCHANGED <<sApp, sTyped, head, tail, ring, sBell, line, lines, taken, ends, overread,
                 loopVars>>

\* seL4_Wait, or seL4_Poll until there is a badge: a bit that is set already,
\* by a character that was read without waiting, ends it at once.
WaitRing ==
  /\ sApp = "ring" /\ sClient = "wait" /\ sBell
  /\ sBell' = FALSE /\ sClient' = "read"
  /\ UNCHANGED <<sApp, sTyped, head, tail, ring, line, lines, taken, ends, overread, loopVars>>

\* A line ends at CR, which is not part of it, and when buf is full.
\* Mutant: no room is left for the terminator.
LineFull_whole(n) == n = CLIENT_BUF
LineFull(n) == n = CLIENT_BUF - 1

ReadRing ==
  LET c == ring[head]
      l == IF c = CR THEN line ELSE Append(line, c)
  IN  /\ sApp = "ring" /\ sClient = "read" /\ Len(taken) < MaxTyped
      /\ overread' = (overread \/ head = tail)
      /\ taken' = Append(taken, c)
      /\ head' = (head + 1) % SERIAL_BUF
      /\ IF c = CR \/ LineFull(Len(l))
         THEN /\ lines' = Append(lines, l) /\ line' = <<>>
              /\ ends' = Append(ends, Len(taken'))
         ELSE line' = l /\ UNCHANGED <<lines, ends>>
      /\ sClient' = "test"
      /\ UNCHANGED <<sApp, sTyped, tail, ring, sBell, loopVars>>
-----------------------------------------------------------------------------
(* The loopback                                                              *)

\* SerialServer (external) fills the read request, and does the write request.
FillRead(c) ==
  /\ sApp = "loopback" /\ readReq.at = "asked" /\ Len(sTyped) < MaxTyped
  /\ sTyped' = Append(sTyped, c)
  /\ readReq' = [at |-> "done", data |-> <<c>>]
  /\ UNCHANGED <<sApp, ringVars, writeReq, leaked, looped, garbled>>

DoWrite ==
  /\ sApp = "loopback" /\ writeReq.at = "asked"
  /\ looped' = looped \o writeReq.data
  /\ writeReq' = [writeReq EXCEPT !.at = "done"]
  /\ UNCHANGED <<sApp, sTyped, ringVars, readReq, leaked, garbled>>

\* loopback_test: the request for input, unless it cannot be enqueued.
AskRead == readReq' \in {[at |-> "asked", data |-> <<>>], NoReq}

\* write_output: the request to write, unless it cannot be enqueued.
write_output(d) == writeReq' \in {[at |-> "asked", data |-> d], writeReq}

\* handle_read_callback: a buffer from the heap, which is not freed, then
\* write_output.  If the copy fails the buffer is freed and written all the
\* same: what it then holds is undefined.
ReadDone ==
  /\ sApp = "loopback" /\ readReq.at = "done"
  /\ readReq' = NoReq
  /\ IF leaked = HEAP THEN UNCHANGED <<writeReq, leaked, garbled>>
     ELSE \/ /\ leaked' = leaked + 1 /\ UNCHANGED garbled
             /\ write_output(readReq.data)
          \/ /\ garbled' = garbled \cup {Len(sTyped)} /\ UNCHANGED leaked
             /\ \E d \in {readReq.data, <<Unset>>} : write_output(d)
  /\ UNCHANGED <<sApp, sTyped, ringVars, looped>>

\* handle_write_callback: the request is freed, and the next input asked for.
WriteDone ==
  /\ sApp = "loopback" /\ writeReq.at = "done"
  /\ writeReq' = NoReq
  /\ AskRead
  /\ UNCHANGED <<sApp, sTyped, ringVars, leaked, looped, garbled>>
-----------------------------------------------------------------------------
SerialNext ==
  \/ \E c \in Keys : PutChar(c) \/ FillRead(c)
  \/ TestRing \/ WaitRing \/ ReadRing
  \/ DoWrite \/ ReadDone \/ WriteDone

InRing == (tail - head + SERIAL_BUF) % SERIAL_BUF

\* The characters of line n are those read from Began(n) on, and n = Len(lines) + 1
\* is the line that is not ended.
Began(n) == IF n = 1 THEN 0 ELSE ends[n - 1]

ReadFrom(l, b) == \A j \in 1..Len(l) : l[j] = taken[b + j] /\ l[j] # CR

LineEnds(n) ==
  \/ ends[n] = Began(n) + Len(lines[n]) + 1 /\ taken[ends[n]] = CR
  \/ ends[n] = Began(n) + Len(lines[n]) /\ Len(lines[n]) = CLIENT_BUF - 1

LinesAreRead ==
  /\ Len(ends) = Len(lines)
  /\ \A n \in 1..Len(lines) : ReadFrom(lines[n], Began(n)) /\ LineEnds(n)
  /\ ReadFrom(line, Began(Len(lines) + 1))
  /\ Len(taken) = Began(Len(lines) + 1) + Len(line)

\* The ring's reader cuts what it reads into lines that fit its buffer, in
\* order and without losing a character: a line ends at CR, which is not part of
\* it, or when the buffer is full (interrupt-client.c:33-41).  What it reads is
\* what was typed, each character once and in order, but only as long as no
\* stale notification has let it read an empty ring (line 35): after that it
\* does read characters again.
\* The loopback asks for input only when its last output is done ("forces
\* synchronicity", client.c:81), and writes each character typed in its place,
\* except in the place of one whose copy failed: the buffer is freed and written
\* all the same (client.c:59-62), so that anything may come out.  After a request that cannot be enqueued, or when the heap
\* is used up, it stops.
SerialFaithful ==
  /\ sApp = "ring" /\ ~overread =>
       /\ Len(sTyped) = Len(taken) + InRing
       /\ taken = SubSeq(sTyped, 1, Len(taken))
  /\ LinesAreRead
  /\ \A i \in 1..Len(lines) : Len(lines[i]) <= CLIENT_BUF - 1
  /\ Len(line) < CLIENT_BUF - 1
  /\ readReq.at = "none" \/ writeReq.at = "none"
  /\ Len(looped) <= Len(sTyped)
  /\ \A i \in 1..Len(looped) : looped[i] = sTyped[i] \/ i \in garbled

=============================================================================
