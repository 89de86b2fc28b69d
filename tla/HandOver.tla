------------------------------ MODULE HandOver ------------------------------
(* Three applications in which one component writes text into a dataport,    *)
(* tells the other, and waits until it has been told back:                   *)
(*   reversestring    the last byte of the dataport is the signal both ways; *)
(*                    the server reverses the text                           *)
(*   rumprun_ethernet a notification each way; first a greeting, then what   *)
(*                    arrives on a TCP connection, whose answer is sent back *)
(*   global_async     a notification each way; the client prints the text    *)
(* Bytes are written one at a time; acquire and release keep that order.     *)
(* rumprun_ethernet gives what arrives to snprintf as the format: from its    *)
(* first '%' on, anything may be written, or the program faults.             *)
EXTENDS Integers, Sequences

CONSTANTS
  MAX_LEN,          \* REVERSE_STRING_MAX_LEN
  Zero, Percent,    \* the bytes 0 and '%'
  Greeting,         \* "Hello, World!", and global_async's random text
  NetTexts,         \* what recv may give
  Converted,        \* what snprintf may make of a text from its '%' on
  MaxRounds         \* bound: texts handed over (10 in global_async)

BUFSIZE == MAX_LEN + 2
One == "one"

ASSUME HandOverAssumption ==
  /\ MAX_LEN \in Nat /\ Greeting \in Seq(STRING) /\ Len(Greeting) < MAX_LEN
  /\ NetTexts \subseteq Seq(STRING) /\ \A t \in NetTexts : Len(t) \in 1..BUFSIZE
  /\ Converted \subseteq Seq(STRING) /\ Zero # One

VARIABLES
  hApp,
  hbuf,             \* the dataport
  writer, server,   \* where the two are
  text, form,       \* what the writer is handing over, as received, and what
                    \* snprintf makes of it
  idx,              \* bytes written
  len, pair,        \* the server's len and i
  told, toldBack,   \* the notifications
  seen, back,       \* what was printed, and what came back
  round

handVars == <<hApp, hbuf, writer, server, text, form, idx, len, pair, told,
              toldBack, seen, back, round>>
serverLocals == <<len, pair>>

\* How many of the first n bytes of s come before the first byte b.
IsBefore(b, s, n, k) == /\ \A i \in 1..k : s[i] # b
                        /\ k < n => s[k + 1] = b
BytesBefore(b, s, n) == CHOOSE k \in 0..n : IsBefore(b, s, n, k)
strnlen(s, n) == BytesBefore(Zero, s, n)
CString(s) == SubSeq(s, 1, strnlen(s, Len(s)))

\* The length of a format up to its first conversion.
Literal(s) == BytesBefore(Percent, s, Len(s))
Truncated(s, n) == SubSeq(s, 1, IF Len(s) > n THEN n ELSE Len(s))

\* snprintf(buffer_str, read + 1, t): the text up to its first zero, and from a
\* conversion on whatever the arguments that were not given yield.
Formatted(t) ==
  LET s == CString(t)
  IN  IF Literal(s) = Len(s) THEN {s}
      ELSE {Truncated(SubSeq(s, 1, Literal(s)) \o out, Len(t)) : out \in Converted}

HandInit ==
  /\ hApp \in {"reversestring", "rumprun_ethernet", "global_async"}
  /\ hbuf = [i \in 1..BUFSIZE |-> Zero]
  /\ writer = "compose" /\ server = "wait"
  /\ text = <<>> /\ form = <<>> /\ idx = 0 /\ len = 0 /\ pair = 0
  /\ told = FALSE /\ toldBack = FALSE
  /\ seen = <<>> /\ back = <<>> /\ round = 0
-----------------------------------------------------------------------------
(* The writer                                                                *)

\* The next text.  In rumprun_ethernet a connection that sends nothing more is
\* followed by another one, and the zero after a text of BUFSIZE bytes is behind
\* the local buffer.
Compose(t) ==
  /\ writer = "compose"
  /\ IF hApp = "rumprun_ethernet" /\ round > 0 THEN t \in NetTexts ELSE t = Greeting
  /\ round < IF hApp = "reversestring" THEN 1 ELSE MaxRounds
  /\ text' = t /\ idx' = 0
  /\ form' \in IF hApp = "rumprun_ethernet" THEN Formatted(t) ELSE {CString(t)}
  /\ writer' = IF Len(t) = BUFSIZE THEN "overrun" ELSE "write"
  /\ UNCHANGED <<hApp, serverLocals, hbuf, server, told, toldBack, seen, back, round>>

\* recv, or another socket call, fails: the program exits.
NetFails ==
  /\ hApp = "rumprun_ethernet" /\ writer = "compose" /\ round > 0
  /\ writer' = "exited"
  /\ UNCHANGED <<hApp, serverLocals, hbuf, server, text, form, idx, told, toldBack, seen,
                 back, round>>

\* snprintf writes what it makes of the text, then a zero.  That of BUFSIZE bytes
\* ends behind the dataport.
WriteByte ==
  /\ writer = "write" /\ idx <= Len(form)
  /\ idx' = idx + 1
  /\ hbuf' = IF idx = BUFSIZE THEN hbuf
             ELSE [hbuf EXCEPT ![idx + 1] = IF idx = Len(form) THEN Zero ELSE form[idx + 1]]
  /\ writer' = IF idx = BUFSIZE THEN "overrun" ELSE "write"
  /\ UNCHANGED <<hApp, serverLocals, server, text, form, told, toldBack, seen, back, round>>

\* A write behind a buffer: the program faults or goes on.
Overrun ==
  /\ writer = "overrun"
  /\ writer' \in {"write", "faulted"}
  /\ UNCHANGED <<hApp, serverLocals, hbuf, server, text, form, idx, told, toldBack, seen,
                 back, round>>

\* snprintf reads an argument that was not given, and follows it.
ConversionFaults ==
  /\ hApp = "rumprun_ethernet" /\ writer = "write"
  /\ idx = Literal(CString(text)) /\ idx < Len(CString(text))
  /\ writer' = "faulted"
  /\ UNCHANGED <<hApp, serverLocals, hbuf, server, text, form, idx, told, toldBack, seen,
                 back, round>>

\* Telling the other side: the last byte is set, or the event emitted.
\* Mutant: without the release the signal may come before the text.
Written_anytime == TRUE
Written == idx = Len(form) + 1

Tell ==
  /\ writer = "write" /\ Written
  /\ IF hApp = "reversestring"
     THEN hbuf' = [hbuf EXCEPT ![BUFSIZE] = One] /\ UNCHANGED told
     ELSE told' = TRUE /\ UNCHANGED hbuf
  /\ writer' = "told"
  /\ UNCHANGED <<hApp, serverLocals, server, text, form, idx, toldBack, seen, back, round>>

\* The answer is printed as a string, sent (as many bytes as were received), or,
\* in global_async, not looked at.
TakeBack ==
  /\ writer = "told"
  /\ IF hApp = "reversestring" THEN hbuf[BUFSIZE] = Zero ELSE toldBack
  /\ toldBack' = FALSE
  /\ back' = SubSeq(hbuf, 1, Len(text))
  /\ writer' = "back"
  /\ UNCHANGED <<hApp, serverLocals, hbuf, server, text, form, idx, told, seen, round>>

Again ==
  /\ writer = "back"
  /\ round' = round + 1 /\ writer' = "compose"
  /\ UNCHANGED <<hApp, serverLocals, hbuf, server, text, form, idx, told, toldBack, seen, back>>
-----------------------------------------------------------------------------
(* The server, or global_async's client                                      *)

Called ==
  /\ server = "wait"
  /\ IF hApp = "reversestring" THEN hbuf[BUFSIZE] # Zero ELSE told
  /\ told' = FALSE
  /\ server' = "print"
  /\ UNCHANGED <<hApp, serverLocals, hbuf, writer, text, form, idx, toldBack, seen, back, round>>

PrintText ==
  /\ server = "print"
  /\ seen' = SubSeq(hbuf, 1, strnlen(hbuf, BUFSIZE))
  /\ server' = IF hApp = "global_async" THEN "answer" ELSE "swap"
  /\ len' = strnlen(hbuf, MAX_LEN) /\ pair' = 0
  /\ UNCHANGED <<hApp, hbuf, writer, text, form, idx, told, toldBack, back, round>>

\* One turn of the reversing loop: swap_idx is len - i - 1.
Swap ==
  /\ server = "swap"
  /\ IF pair < len \div 2
     THEN /\ hbuf' = [hbuf EXCEPT ![pair + 1] = hbuf[len - pair],
                                  ![len - pair] = hbuf[pair + 1]]
          /\ pair' = pair + 1 /\ UNCHANGED server
     ELSE server' = "answer" /\ UNCHANGED <<hbuf, pair>>
  /\ UNCHANGED <<hApp, writer, text, form, idx, len, told, toldBack, seen, back, round>>

\* global_async's client answers with its own notification.
event_handler_reply == toldBack' = TRUE

AnswerBack ==
  /\ server = "answer"
  /\ IF hApp = "reversestring"
     THEN hbuf' = [hbuf EXCEPT ![BUFSIZE] = Zero] /\ UNCHANGED toldBack
     ELSE event_handler_reply /\ UNCHANGED hbuf
  /\ server' = IF hApp = "reversestring" THEN "done" ELSE "wait"
  /\ UNCHANGED <<hApp, serverLocals, writer, text, form, idx, told, seen, back, round>>
-----------------------------------------------------------------------------
WriterStep == \/ \E t \in NetTexts \cup {Greeting} : Compose(t)
              \/ NetFails \/ WriteByte \/ ConversionFaults \/ Overrun \/ Tell \/ TakeBack \/ Again
ServerStep == Called \/ PrintText \/ Swap \/ AnswerBack

HandNext == WriterStep \/ ServerStep
-----------------------------------------------------------------------------
ReverseOf(s) == [i \in 1..Len(s) |-> s[Len(s) + 1 - i]]

\* Although both sides write one dataport, the server prints the whole text and
\* the writer gets exactly the reverse of it, for every text of at most MAX_LEN
\* bytes in which there is no zero and no '%'.  (A longer one is reversed but for
\* its end.  One with a '%' is snprintf's format, tcp_server.c:119: what is
\* reversed and sent back is what the conversion makes of it, or the server faults.)
HandOverFaithful ==
  LET plain == /\ Len(CString(text)) = Len(text) /\ Literal(text) = Len(text)
               /\ Len(text) <= MAX_LEN
  IN  /\ server \in {"swap", "answer"} /\ plain => seen = text
      /\ writer = "back" /\ plain =>
           back = IF hApp = "global_async" THEN text ELSE ReverseOf(text)

HandDone ==
  writer = "compose" /\ round = IF hApp = "reversestring" THEN 1 ELSE MaxRounds

\* The two ends of rumprun_ethernet that are none: a socket call failed and the
\* program exited, or the program faulted on a text with a '%' (an argument that
\* is not there), on one that fills its buffer (the zero after it), or on what a
\* conversion made of one.
HandStopped ==
  \/ writer = "exited"
  \/ writer = "faulted" /\ (Literal(CString(text)) < Len(CString(text)) \/ Len(text) >= BUFSIZE)
=============================================================================
