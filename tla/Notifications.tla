--------------------------- MODULE Notifications ---------------------------
(* Users of a CAmkES notification: event, event-driven, testsel4notification *)
(* and binary-semaphore.  Emitting sets a bit (external).  A thread of the   *)
(* consumer, the glue thread, takes it: it runs the callback if one is       *)
(* registered, which then is registered no more, and otherwise leaves a      *)
(* token for poll and wait.                                                  *)
EXTENDS Integers, Sequences

CONSTANTS
  MAX_COUNT,          \* of event-driven: 100
  TO_ECHO             \* of binary-semaphore: 42

ASSUME CountAssumption == MAX_COUNT \in Nat \ {0}

VARIABLES
  nApp,
  note, token,        \* the bit, and events handed to poll and wait
  callback,           \* is the callback registered?
  glue,               \* the glue thread
  main,               \* the consumer's other thread
  events,             \* count of event-driven; callbacks in event (0 or 1)
  global, ret,        \* of binary-semaphore's server
  binsem,
  result,             \* of the last poll, or of the echo
  step                \* testsel4notification's client: its next line

notifyVars == <<nApp, note, token, callback, glue, main, events, global, ret,
                binsem, result, step>>

Unset == -1

NotifyInit ==
  /\ nApp \in {"event", "event-driven", "testsel4notification", "binary-semaphore"}
  /\ note = FALSE /\ token = 0 /\ callback = FALSE
  /\ glue = "wait" /\ main = "start" /\ events = 0
  /\ global = 0 /\ ret = Unset /\ binsem = 0 /\ result = Unset /\ step = 1

\* reg_callback
Register == ~callback /\ callback' = TRUE

\* The emitters emit without end.
Emitting(a) ==
  /\ nApp = a /\ ~note
  /\ note' = TRUE
  /\ UNCHANGED <<nApp, token, callback, glue, main, events, global, ret, binsem,
                 result, step>>

EventEmitter == Emitting("event")
DrivenEmitter == Emitting("event-driven")
Periodic == Emitting("binary-semaphore")
Emit == EventEmitter \/ DrivenEmitter \/ Periodic

\* The glue thread takes an event.  Tokens nobody asks for are not counted.
Glue ==
  /\ glue = "wait" /\ note
  /\ note' = FALSE
  /\ IF callback THEN glue' = "callback" /\ callback' = FALSE /\ UNCHANGED token
     ELSE /\ token' = IF nApp = "testsel4notification" THEN token + 1 ELSE token
          /\ UNCHANGED <<glue, callback>>
  /\ UNCHANGED <<nApp, main, events, global, ret, binsem, result, step>>

\* event_callback of event: registers itself again.
EventCallback ==
  /\ nApp = "event" /\ glue = "callback"
  /\ Register /\ glue' = "wait" /\ events' = 1 - events
  /\ UNCHANGED <<nApp, note, token, main, global, ret, binsem, result, step>>

\* event_callback of event-driven: the same, MAX_COUNT times.
CountedCallback ==
  /\ nApp = "event-driven" /\ glue = "callback"
  /\ events' = events + 1
  /\ IF events' = MAX_COUNT THEN UNCHANGED callback ELSE Register
  /\ glue' = "wait"
  /\ UNCHANGED <<nApp, note, token, main, global, ret, binsem, result, step>>

\* run of the two collectors.
CollectorRun ==
  /\ nApp \in {"event", "event-driven"} /\ main = "start"
  /\ Register /\ main' = "done"
  /\ UNCHANGED <<nApp, note, token, glue, events, global, ret, binsem, result, step>>

\* callback of binary-semaphore: writes the frame of echo_echo, then posts.
EchoCallback ==
  /\ nApp = "binary-semaphore" /\ glue = "callback"
  /\ ret' = global /\ binsem' = 1 /\ glue' = "wait"
  /\ UNCHANGED <<nApp, note, token, callback, main, events, global, result, step>>

\* The client calls echo_echo.
EchoCall == main = "start" /\ global' = TO_ECHO /\ main' = "register"

\* echo_echo
\* Mutant: the callback is registered before global is set.
Echo_early ==
  /\ nApp = "binary-semaphore"
  /\ \/ /\ main = "start" /\ Register /\ main' = "register"
        /\ UNCHANGED <<global, binsem, result>>
     \/ /\ main = "register" /\ global' = TO_ECHO /\ main' = "wait"
        /\ UNCHANGED <<callback, binsem, result>>
     \/ /\ main = "wait" /\ binsem = 1 /\ binsem' = 0 /\ result' = ret
        /\ main' = "done" /\ UNCHANGED <<global, callback>>
  /\ UNCHANGED <<nApp, note, token, glue, events, ret, step>>
Echo ==
  /\ nApp = "binary-semaphore"
  /\ \/ EchoCall /\ UNCHANGED <<callback, binsem, result>>
     \/ /\ main = "register" /\ Register /\ main' = "wait"
        /\ UNCHANGED <<global, binsem, result>>
     \/ /\ main = "wait" /\ binsem = 1 /\ binsem' = 0 /\ result' = ret
        /\ main' = "done" /\ UNCHANGED <<global, callback>>
  /\ UNCHANGED <<nApp, note, token, glue, events, ret, step>>

\* The client of testsel4notification: lines of polls with the answers they are
\* asserted to have, of calls of notify_me, which emits, and of a wait.
ClientLines == <<
  <<"poll", 0>>, <<"poll", 0>>,                       \* 19, 28-31
  <<"notify">>, <<"poll", 1>>, <<"poll", 0>>,         \* 34-42
  <<"notify">>, <<"notify">>, <<"poll", 1>>,          \* 49-52
  <<"drain">>, <<"notify">>, <<"wait">>, <<"poll", 0>> >>

\* The server's n_notify_me.
notify_me == note' = TRUE

\* The glue thread has priority over the client (e_priority = 2): the client
\* goes on only when the event is handed over.
ClientLine ==
  /\ nApp = "testsel4notification" /\ step <= Len(ClientLines) /\ ~note
  /\ LET line == ClientLines[step][1]
         taken == IF token > 0 THEN token - 1 ELSE 0
     IN  \/ /\ line = "poll" /\ result' = (IF token > 0 THEN 1 ELSE 0)
            /\ token' = taken /\ step' = step + 1 /\ UNCHANGED note
         \/ /\ line = "notify" /\ notify_me /\ step' = step + 1
            /\ UNCHANGED <<token, result>>
         \/ /\ line = "drain" /\ step' = (IF token > 0 THEN step ELSE step + 1)
            /\ token' = taken /\ UNCHANGED <<note, result>>
         \/ /\ line = "wait" /\ token > 0 /\ token' = taken /\ step' = step + 1
            /\ UNCHANGED <<note, result>>
  /\ UNCHANGED <<nApp, callback, glue, main, events, global, ret, binsem>>
-----------------------------------------------------------------------------
GlueStep == Glue \/ EventCallback \/ CountedCallback \/ EchoCallback
MainStep == CollectorRun \/ Echo \/ ClientLine
NotifyNext == Emit \/ GlueStep \/ MainStep
-----------------------------------------------------------------------------
\* What the callers were promised although events come at any time, before the
\* callback is registered too, and the callback runs in another thread: the
\* polls answer as testsel4notification asserts, echo returns its argument, and
\* event-driven registers its callback for MAX_COUNT events and no more.
NotifyFaithful ==
  /\ nApp = "testsel4notification" /\ step > 1 =>
       LET line == ClientLines[step - 1] IN line[1] = "poll" => result = line[2]
  /\ nApp = "binary-semaphore" /\ main = "done" => result = TO_ECHO
  /\ nApp = "event-driven" => events <= MAX_COUNT /\ (events = MAX_COUNT => ~callback)

NotifyDone == CASE nApp = "event" -> events = 1
                [] nApp = "event-driven" -> events = MAX_COUNT
                [] nApp = "testsel4notification" -> step > Len(ClientLines)
                [] nApp = "binary-semaphore" -> main = "done"
=============================================================================
