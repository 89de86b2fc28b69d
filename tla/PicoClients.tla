---------------------------- MODULE PicoClients ----------------------------
(* Clients of PicoServer that sit in a loop of events: Echo and Listener of  *)
(* the application picoserver (Echo forwards what it receives to Listener,   *)
(* which prints it) and Echo of picoserver_uboot (which prints it).  Each is *)
(* one thread; PicoServer (external) raises events beside them.              *)
(*                                                                           *)
(* Each client has its own dataports with PicoServer, of BUF bytes, used as  *)
(* C strings.  A byte that arrives is <<peer, serial number, kind>>, of kind  *)
(* "text" or "zero"; NUL is the zero a buffer is cleared with.  What is      *)
(* behind a zero in a message is not sent on nor printed.  A string that     *)
(* fills its buffer has no terminator; what printf and strlen find behind    *)
(* the buffer is undefined: they stop there or fault, and a length above the *)
(* buffer's makes the send fail.                                             *)
EXTENDS Integers, Sequences

CONSTANTS
  BUF,                 \* 4096
  TextPeers,           \* outside peers
  NUL,
  MaxText              \* bound: bytes the peers send

Kinds == {"text", "zero"}

ASSUME BufAssumption ==
  /\ BUF \in Nat \ {0} /\ MaxText \in Nat
  /\ NUL \notin TextPeers \X Nat \X Kinds
  /\ {"in", "pipe"} \cap TextPeers = {}

VARIABLES
  app,                 \* "picoserver" or "picoserver_uboot"
  loop,                \* each client: waiting, in its loop, or dead
  event,               \* each client: socket and events polled and not handled
  due,                 \* each client: events not polled, by socket
  note,                \* each client: its notification
  recv_buf, send_buf,  \* the dataports
  tLink,               \* connections, as PicoServer has them
  stream,              \* bytes that have arrived on a connection
  typed,               \* how many bytes the peers have sent
  got, printed,        \* histories: bytes Echo received, text printed
  heard,               \* history: the text of each message Echo received, which
                       \* ends at its first zero
  cut                  \* history: a send was refused or took only a part, or a
                       \* client faulted with a message it had received

clientVars == <<app, loop, event, due, note, recv_buf, send_buf, tLink, stream,
                typed, got, printed, heard, cut>>

Loops == {"echo", "listener"}
Pipe == "pipe"                             \* listener_socket at Echo's end

\* The socket run opens and listens on, and those accepted or connected.
TextSocks == TextPeers \cup {"in", Pipe}
Zeroes == [i \in 1..BUF |-> NUL]
NoText == [socket |-> "in", events |-> {}]

\* run(): sockets opened, bound and listened on; Echo's connection to Listener
\* under way.  In picoserver_uboot there is no Listener.
ClientsInit ==
  /\ app \in {"picoserver", "picoserver_uboot"}
  /\ loop = [k \in Loops |-> "wait"] /\ event = [k \in Loops |-> NoText]
  /\ due = [k \in Loops |-> [s \in TextSocks |-> {}]]
  /\ note = [k \in Loops |-> FALSE]
  /\ recv_buf = [k \in Loops |-> Zeroes] /\ send_buf = Zeroes
  /\ tLink = [s \in TextPeers \cup {Pipe} |-> "none"]
  /\ stream = [s \in TextPeers \cup {Pipe} |-> <<>>]
  /\ typed = 0
  /\ got = <<>> /\ printed = <<>> /\ heard = <<>> /\ cut = FALSE

\* The client whose run listens on the port that s connects to.
Owner(s) == IF s = Pipe THEN "listener" ELSE "echo"
-----------------------------------------------------------------------------
(* PicoServer (external)                                                     *)

Announce(k, s, e) ==
  /\ due' = [due EXCEPT ![k][s] = @ \cup {e}]
  /\ note' = [note EXCEPT ![k] = TRUE]

\* A peer, or Echo, connects: the other side's listening socket has CONN.
TConnect(s) ==
  /\ tLink[s] = "none" /\ (s = Pipe => app = "picoserver")
  /\ \A t \in DOMAIN tLink : Owner(t) = Owner(s) => tLink[t] # "backlog"
  /\ tLink' = [tLink EXCEPT ![s] = "backlog"]
  /\ Announce(Owner(s), "in", "CONN")
  /\ UNCHANGED <<app, loop, event, recv_buf, send_buf, stream, typed, got,
                 printed, heard, cut>>

\* A peer sends n bytes, each of them zero or not.
TArrive(p, n) ==
  /\ tLink[p] = "open" /\ typed + n <= MaxText
  /\ \E kinds \in [1..n -> Kinds] :
       stream' = [stream EXCEPT ![p] = @ \o [i \in 1..n |-> <<p, typed + i, kinds[i]>>]]
  /\ typed' = typed + n
  /\ Announce("echo", p, "READ")
  /\ UNCHANGED <<app, loop, event, recv_buf, send_buf, tLink, got, printed, heard,
                 cut>>

\* The peer closes, the connection ends, or fails.
TEnd(p, e) ==
  /\ \/ tLink[p] = "open" /\ e \in {"CLOSE", "ERR"}
     \/ tLink[p] = "closing" /\ e = "FIN"
  /\ tLink' = [tLink EXCEPT ![p] = IF e = "CLOSE" THEN "closing" ELSE "closed"]
  /\ Announce("echo", p, e)
  /\ UNCHANGED <<app, loop, event, recv_buf, send_buf, stream, typed, got,
                 printed, heard, cut>>
-----------------------------------------------------------------------------
(* run and handle_picoserver_notification of a client                        *)

\* *_control_event_poll
PollEvent(k) ==
  LET some == {s \in TextSocks : due[k][s] # {}}
  IN  IF some = {}
      THEN /\ loop' = [loop EXCEPT ![k] = "wait"]
           /\ event' = [event EXCEPT ![k] = NoText]
           /\ UNCHANGED due
      ELSE \E s \in some :
             /\ loop' = [loop EXCEPT ![k] = "loop"]
             /\ event' = [event EXCEPT ![k] = [socket |-> s, events |-> due[k][s]]]
             /\ due' = [due EXCEPT ![k][s] = {}]

Woken(k) ==
  /\ loop[k] = "wait" /\ note[k]
  /\ note' = [note EXCEPT ![k] = FALSE]
  /\ PollEvent(k)
  /\ UNCHANGED <<app, recv_buf, send_buf, tLink, stream, typed, got, printed, heard, cut>>

\* Mutant: the loop ends after one event.
PollNext_once(k) ==
  /\ loop[k] = "loop" /\ event[k].events = {}
  /\ loop' = [loop EXCEPT ![k] = "wait"]
  /\ UNCHANGED <<app, event, due, note, recv_buf, send_buf, tLink, stream, typed,
                 got, printed, heard, cut>>
PollNext(k) ==
  /\ loop[k] = "loop" /\ event[k].events = {}
  /\ PollEvent(k)
  /\ UNCHANGED <<app, note, recv_buf, send_buf, tLink, stream, typed, got,
                 printed, heard, cut>>

Handled(k, es) == event' = [event EXCEPT ![k].events = @ \ es]

\* CONN: accepted, or the assertion fails (the peer has gone).
HandleConn(k) ==
  /\ loop[k] = "loop" /\ "CONN" \in event[k].events
  /\ \/ \E s \in DOMAIN tLink :
          /\ Owner(s) = k /\ tLink[s] = "backlog"
          /\ tLink' = [tLink EXCEPT ![s] = "open"]
          /\ Handled(k, {"CONN"}) /\ UNCHANGED loop
     \/ loop' = [loop EXCEPT ![k] = "dead"] /\ UNCHANGED <<tLink, event>>
  /\ UNCHANGED <<app, due, note, recv_buf, send_buf, stream, typed, got, printed,
                 heard, cut>>

\* A receive of n bytes over what the buffer held.
Filled(buf, s, n) == [i \in 1..BUF |-> IF i <= n THEN stream[s][i] ELSE buf[i]]

\* The bytes of s before its first zero.
IsZero(b) == b = NUL \/ b[3] = "zero"
IsLength(s, n) == /\ \A i \in 1..n : ~IsZero(s[i])
                  /\ n < Len(s) => IsZero(s[n + 1])
strlen(s) == CHOOSE n \in 0..Len(s) : IsLength(s, n)
Text(s) == SubSeq(s, 1, strlen(s))
Terminated(buf) == strlen(buf) < BUF

MinNat(a, b) == IF a < b THEN a ELSE b
Readable(s) == MinNat(BUF, Len(stream[s]))
Received(s) == SubSeq(stream[s], 1, Readable(s))
Consumed(s) == SubSeq(stream[s], Readable(s) + 1, Len(stream[s]))

\* The histories of what Echo received.
Hear(k, s) == IF k = "echo" THEN /\ got' = got \o Received(s)
                                 /\ heard' = heard \o Text(Received(s))
              ELSE UNCHANGED <<got, heard>>

\* READ where the text is printed: Listener, and Echo of picoserver_uboot.
\* Mutant: the buffer is not cleared.
Cleared_not(buf) == buf
Cleared(buf) == Zeroes

HandleReadPrint(k) ==
  LET s == event[k].socket
      buf == Filled(recv_buf[k], s, Readable(s))
  IN  /\ loop[k] = "loop" /\ "CONN" \notin event[k].events
      /\ "READ" \in event[k].events
      /\ k = "listener" \/ app = "picoserver_uboot"
      /\ stream' = [stream EXCEPT ![s] = Consumed(s)]
      /\ printed' = printed \o Text(buf)
      /\ Hear(k, s)
      /\ recv_buf' = [recv_buf EXCEPT ![k] = Cleared(buf)]
      /\ Handled(k, {"READ"})
      /\ UNCHANGED <<app, loop, due, note, send_buf, tLink, typed, cut>>

\* strncpy(send, recv, n): text up to a NUL, and NULs from there.
Copied(dst, src, n) ==
  [i \in 1..BUF |-> IF i > n THEN dst[i]
                    ELSE IF i <= strlen(src) THEN src[i] ELSE NUL]

\* READ at picoserver's Echo, m bytes of the text being taken by the connection
\* to Listener.  Nothing is taken before it is open.
HandleReadForward(m) ==
  LET s == event["echo"].socket
      buf == Filled(recv_buf["echo"], s, Readable(s))
      out == Copied(send_buf, buf, Readable(s))
  IN  /\ app = "picoserver"
      /\ loop["echo"] = "loop" /\ "CONN" \notin event["echo"].events
      /\ "READ" \in event["echo"].events
      /\ m <= strlen(out) /\ (m > 0 => tLink[Pipe] = "open")
      /\ stream' = [stream EXCEPT ![s] = Consumed(s),
                                  ![Pipe] = @ \o SubSeq(out, 1, m)]
      /\ Hear("echo", s)
      /\ cut' = (cut \/ m < strlen(out))
      /\ IF m > 0 THEN Announce("listener", Pipe, "READ") ELSE UNCHANGED <<due, note>>
      /\ recv_buf' = [recv_buf EXCEPT !["echo"] = Cleared(buf)]
      /\ send_buf' = Cleared(out)
      /\ Handled("echo", {"READ"})
      /\ UNCHANGED <<app, loop, tLink, typed, printed>>

\* printf or strlen run off a full buffer: what was received is lost.
StringFaults(k) ==
  LET s == event[k].socket
  IN  /\ loop[k] = "loop" /\ "CONN" \notin event[k].events
      /\ "READ" \in event[k].events
      /\ ~Terminated(Filled(recv_buf[k], s, Readable(s)))
      /\ stream' = [stream EXCEPT ![s] = Consumed(s)]
      /\ Hear(k, s)
      /\ cut' = TRUE
      /\ loop' = [loop EXCEPT ![k] = "dead"]
      /\ UNCHANGED <<app, event, due, note, recv_buf, send_buf, tLink, typed, printed>>

\* A receive on a closed connection answers -1, which strncpy takes for a length.
CopyFaults ==
  /\ loop["echo"] = "loop" /\ "CONN" \notin event["echo"].events
  /\ "READ" \in event["echo"].events /\ app = "picoserver"
  /\ tLink[event["echo"].socket] = "closed"
  /\ loop' = [loop EXCEPT !["echo"] = "dead"]
  /\ UNCHANGED <<app, event, due, note, recv_buf, send_buf, tLink, stream, typed, got,
                 printed, heard, cut>>

\* CLOSE shuts down, FIN is printed, ERR fails an assertion.
HandleEnd(k) ==
  LET s == event[k].socket
  IN  /\ loop[k] = "loop"
      /\ event[k].events # {} /\ event[k].events \subseteq {"CLOSE", "FIN", "ERR"}
      /\ tLink' = IF "CLOSE" \in event[k].events /\ tLink[s] = "open"
                  THEN [tLink EXCEPT ![s] = "closing"] ELSE tLink
      /\ loop' = IF "ERR" \in event[k].events THEN [loop EXCEPT ![k] = "dead"] ELSE loop
      /\ Handled(k, {"CLOSE", "FIN", "ERR"})
      /\ UNCHANGED <<app, due, note, recv_buf, send_buf, stream, typed, got,
                     printed, heard, cut>>
-----------------------------------------------------------------------------
ClientStep(k) == \/ Woken(k) \/ PollNext(k) \/ HandleConn(k) \/ HandleReadPrint(k)
                 \/ HandleEnd(k) \/ StringFaults(k)
                 \/ /\ k = "echo"
                    /\ CopyFaults \/ \E m \in 0..BUF : HandleReadForward(m)

ClientsNext ==
  \/ \E s \in TextPeers \cup {Pipe} : TConnect(s)
  \/ \E p \in TextPeers : \/ \E n \in 1..BUF : TArrive(p, n)
                          \/ \E e \in {"CLOSE", "ERR", "FIN"} : TEnd(p, e)
  \/ \E k \in Loops : ClientStep(k)
-----------------------------------------------------------------------------
(* Properties                                                                *)

Inside(s, t) == \A i \in 1..Len(s) : \E j \in 1..Len(t) : s[i] = t[j]
NoRepeat(s) == \A i, j \in 1..Len(s) : s[i] = s[j] => i = j

\* What echo.c:45-49 and listener.c:41-43 do with messages: although both
\* dataports are used again for every message, what is printed is what Echo
\* received, each byte at most once and a peer's bytes in order; and it is the text
\* of every message as far as its first zero, but for what Listener has yet to
\* read, unless a send was refused or cut short or a client faulted over a message.
\* (So a message with a zero in it is not forwarded whole, as README.md:12 has it.)
PrintedFaithfully ==
  /\ Inside(printed, got) /\ NoRepeat(printed)
  /\ \A i, j \in 1..Len(printed) :
       i < j /\ printed[i][1] = printed[j][1] => printed[i][2] < printed[j][2]
  /\ ~cut => printed \o stream[Pipe] = heard

\* No event is left lying: a client that waits with an event not polled has been
\* notified, although it is notified once for any number of events, and of some
\* that it has already polled.
NoEventForgotten ==
  \A k \in Loops, s \in TextSocks :
    due[k][s] # {} /\ loop[k] = "wait" => note[k]
=============================================================================
