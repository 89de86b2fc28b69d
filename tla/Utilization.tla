---------------------------- MODULE Utilization ----------------------------
(* The utilization server of picotcp_single_component (utilization_socket.c):*)
(* a picotcp callback that answers the commands of the ipbench protocol.     *)
(* Callbacks are not interrupted.  utilz_mesg is one buffer for all clients  *)
(* and is not cleared: a receive overwrites as many bytes as have arrived,   *)
(* perhaps none or a part of a command, and the callback acts on whatever    *)
(* the buffer then begins with.                                              *)
EXTENDS Integers, Sequences, FiniteSets

CONSTANTS
  UtilClients,
  Commands,            \* what a client sends: HELLO, LOAD, ..., or another text
  Spelling,            \* the bytes of each
  MaxCommands          \* bound: commands a client sends

\* What msg_match(s, t) tests: s begins with t.
Begins(s, t) == Len(t) <= Len(s) /\ \A i \in 1..Len(t) : s[i] = t[i]

\* Each text ends in a newline: none is the beginning of another.
ASSUME SpellingAssumption ==
  /\ Spelling \in [Commands -> Seq(STRING)]
  /\ \A cmd \in Commands : Spelling[cmd] # <<>>
  /\ \A cmd, other \in Commands : Begins(Spelling[cmd], Spelling[other]) => cmd = other

VARIABLES
  utilz_mesg,          \* the bytes in the buffer
  uLink,               \* each connection, as picotcp has it
  uInbox,              \* bytes sent and not received by the server
  uSent, uGot,         \* histories: commands sent, and answers received
  uStale               \* history: clients of which a receive did not take all that
                       \* they had sent, or took nothing

utilVars == <<utilz_mesg, uLink, uInbox, uSent, uGot, uStale>>

UtilInit ==
  /\ utilz_mesg = <<>> /\ uStale = {}
  /\ uLink = [c \in UtilClients |-> "none"]
  /\ uInbox = [c \in UtilClients |-> <<>>] /\ uSent = [c \in UtilClients |-> <<>>]
  /\ uGot = [c \in UtilClients |-> <<>>]

\* The messages the handlers of both utilization servers send.  START and QUIT
\* have no answer; START and STOP reach the idle thread (external).
Answer(cmd) ==
  CASE cmd = "HELLO"           -> <<"OK_READY">>
    [] cmd \in {"LOAD", "SETUP"} -> <<"OK">>
    [] cmd = "STOP"            -> <<"RESPONSE">>
    [] OTHER                   -> <<>>
-----------------------------------------------------------------------------
(* The clients and picotcp (external).                                       *)

UtilConnect(c) ==
  /\ uLink[c] = "none"
  /\ uLink' = [uLink EXCEPT ![c] = "backlog"]
  /\ UNCHANGED <<utilz_mesg, uInbox, uSent, uGot, uStale>>

UtilCommand(c, cmd) ==
  /\ uLink[c] = "open" /\ Len(uSent[c]) < MaxCommands
  /\ uInbox' = [uInbox EXCEPT ![c] = @ \o Spelling[cmd]]
  /\ uSent' = [uSent EXCEPT ![c] = Append(@, cmd)]
  /\ UNCHANGED <<utilz_mesg, uLink, uGot, uStale>>
-----------------------------------------------------------------------------
(* The callback                                                              *)

\* EV_CONN.  When pico_socket_accept fails the error is printed and the
\* greeting goes to no socket.
UtilConn(c) ==
  /\ uLink[c] = "backlog"
  /\ \/ /\ uLink' = [uLink EXCEPT ![c] = "open"]
        /\ uGot' = [uGot EXCEPT ![c] = Append(@, "WHOAMI")]
     \/ /\ uLink' = [uLink EXCEPT ![c] = "closed"]
        /\ UNCHANGED uGot
  /\ UNCHANGED <<utilz_mesg, uInbox, uSent, uStale>>

\* The part of EV_RD after the receive: answer the command the buffer begins with,
\* if any, and after STOP shut the connection down.
Matching(buf) == {cmd \in Commands : Begins(buf, Spelling[cmd])}

Act(c, buf) ==
  LET cmd == CHOOSE m \in Matching(buf) : TRUE
  IN  IF Matching(buf) = {} THEN UNCHANGED <<uGot, uLink>>
      ELSE /\ uGot' = [uGot EXCEPT ![c] = @ \o Answer(cmd)]
           /\ uLink' = [uLink EXCEPT ![c] = IF cmd = "STOP" THEN "shutdown" ELSE @]

\* The first n bytes that are to come, and the buffer with them in its place.
Bytes(c, n) == SubSeq(uInbox[c], 1, n)
Over(buf, bytes) == bytes \o SubSeq(buf, Len(bytes) + 1, Len(buf))

\* The receive takes the n bytes that have arrived; with n = 0 it answers 0 or -1,
\* which is printed (bound: n = 0 only for a client that is not in uStale yet).
\* Mutant: the match comes before the receive.
UtilRead_after(c, n) ==
  /\ uLink[c] = "open" /\ n <= Len(uInbox[c]) /\ (n = 0 => c \notin uStale)
  /\ Act(c, utilz_mesg)
  /\ utilz_mesg' = Over(utilz_mesg, Bytes(c, n))
  /\ uInbox' = [uInbox EXCEPT ![c] = SubSeq(@, n + 1, Len(@))]
  /\ uStale' = IF n = 0 \/ n < Len(uInbox[c]) THEN uStale \cup {c} ELSE uStale
  /\ UNCHANGED uSent
UtilRead(c, n) ==
  /\ uLink[c] = "open" /\ n <= Len(uInbox[c]) /\ (n = 0 => c \notin uStale)
  /\ utilz_mesg' = Over(utilz_mesg, Bytes(c, n))
  /\ Act(c, utilz_mesg')
  /\ uInbox' = [uInbox EXCEPT ![c] = SubSeq(@, n + 1, Len(@))]
  /\ uStale' = IF n = 0 \/ n < Len(uInbox[c]) THEN uStale \cup {c} ELSE uStale
  /\ UNCHANGED uSent

\* EV_CLOSE shuts the socket down; EV_FIN and EV_ERR are only printed.
UtilClose(c) ==
  /\ uLink[c] = "open"
  /\ uLink' = [uLink EXCEPT ![c] = "shutdown"]
  /\ UNCHANGED <<utilz_mesg, uInbox, uSent, uGot, uStale>>

UtilFin(c) ==
  /\ uLink[c] = "shutdown"
  /\ uLink' = [uLink EXCEPT ![c] = "closed"]
  /\ UNCHANGED <<utilz_mesg, uInbox, uSent, uGot, uStale>>

UtilNext ==
  \E c \in UtilClients :
    \/ UtilConnect(c) \/ \E cmd \in Commands : UtilCommand(c, cmd)
    \/ UtilConn(c) \/ \E n \in 0..Len(uInbox[c]) : UtilRead(c, n)
    \/ UtilClose(c) \/ UtilFin(c)
-----------------------------------------------------------------------------
\* How many of a sequence are in A, and the commands that a answers.
Times(s, A) == Cardinality({i \in 1..Len(s) : s[i] \in A})
AnsweredBy(a) == {cmd \in Commands : Answer(cmd) = <<a>>}

\* Each answer a client got is due to a command of its own.
AnswersOwed(c) ==
  \A a \in {"OK_READY", "OK", "RESPONSE"} :
    Times(uGot[c], {a}) <= Times(uSent[c], AnsweredBy(a))

\* What utilization_socket.c:82-118 keeps of the protocol: the clients' commands
\* meet in one buffer that is never cleared, and still a client gets no answer that
\* is not due to a command of its own, and none after that to STOP, as long as each
\* receive takes all that the client has sent.  It says nothing of a client whose
\* bytes arrive in pieces, whoever the rest of the buffer is from.
AnswersAreOwn ==
  \A c \in UtilClients :
    c \notin uStale =>
      /\ AnswersOwed(c)
      /\ Times(uGot[c], {"RESPONSE"}) > 0 =>
           uLink[c] # "open" /\ uGot[c][Len(uGot[c])] = "RESPONSE"

\* "The protocol used to communicate" (utilization_socket.c:22-36): the server sends
\* an answer after the client has sent the command, however its bytes arrive.
ProtocolFollowed == \A c \in UtilClients : AnswersOwed(c)
=============================================================================
