----------------------------- MODULE ReplyCaps -----------------------------
(* testreplycapprotection: the interface thread of Receiver's a holds the    *)
(* reply capability of its caller while it locks, waits, emits, and calls    *)
(* four more procedures; more callers of the same endpoint are let loose     *)
(* meanwhile.  The kernel keeps one reply capability for a thread (external):*)
(* receiving another call replaces one that has not been saved.              *)
EXTENDS Naturals, Sequences

Callers == {"g", "c1", "c2"}

VARIABLES
  caller,            \* where Generator and the two Callers are
  waiting,           \* callers queued at the endpoint of a
  reply,             \* whose reply capability thread a holds
  receiver,          \* the line of a_switch_to thread a is at
  ping,              \* p1 and p2
  mLocked, sCount,   \* Receiver's mutex and semaphore
  not_first

replyVars == <<caller, waiting, reply, receiver, ping, mLocked, sCount, not_first>>

\* a_switch_to, line by line; the calls of b1, c1, d1 and e go to procedures
\* that do nothing.
Lines == <<"m_lock", "s_wait", "p1_emit", "p2_emit", "b1", "c1", "d1", "e",
           "m_unlock", "s_post", "return">>

ReplyInit ==
  /\ caller = [c \in Callers |-> IF c = "g" THEN "call" ELSE "wait"]
  /\ waiting = <<>> /\ reply = "none" /\ receiver = 0
  /\ ping = [c \in Callers |-> FALSE]
  /\ mLocked = FALSE /\ sCount = 1 /\ not_first = FALSE

\* p_wait of a Caller.
CallerWakes(c) ==
  /\ caller[c] = "wait" /\ ping[c]
  /\ caller' = [caller EXCEPT ![c] = "call"]
  /\ ping' = [ping EXCEPT ![c] = FALSE]
  /\ UNCHANGED <<waiting, reply, receiver, mLocked, sCount, not_first>>

\* a_switch_to or t_switch_to: a call through the endpoint of a.
CallReceiver(c) ==
  /\ caller[c] = "call"
  /\ caller' = [caller EXCEPT ![c] = "called"]
  /\ waiting' = Append(waiting, c)
  /\ UNCHANGED <<reply, receiver, ping, mLocked, sCount, not_first>>

\* Thread a receives a call, and spins if it is not the first.
ReceiveCall ==
  /\ receiver = 0 /\ waiting # <<>>
  /\ reply' = Head(waiting) /\ waiting' = Tail(waiting) /\ receiver' = 1
  /\ UNCHANGED <<caller, ping, mLocked, sCount, not_first>>

\* One line.  A procedure call is a send and a receive of its answer on another
\* endpoint, which leaves the saved reply capability alone.
ReceiverLine ==
  LET line == Lines[receiver]
  IN  /\ receiver \in 1..Len(Lines) /\ ~(receiver = 1 /\ not_first)
      /\ line = "m_lock" => ~mLocked
      /\ line = "s_wait" => sCount > 0
      /\ receiver' = IF line = "return" THEN 0 ELSE receiver + 1
      /\ ping' = [c \in Callers |-> ping[c] \/ (line = "p1_emit" /\ c = "c1")
                                            \/ (line = "p2_emit" /\ c = "c2")]
      /\ mLocked' = (line = "m_lock" \/ (mLocked /\ line # "m_unlock"))
      /\ sCount' = CASE line = "s_wait" -> sCount - 1
                     [] line = "s_post" -> sCount + 1 [] OTHER -> sCount
      /\ reply' = IF line = "return" THEN "none" ELSE reply
      /\ caller' = IF line = "return" THEN [caller EXCEPT ![reply] = "returned"]
                   ELSE caller
      /\ not_first' = (not_first \/ line = "return")
      /\ UNCHANGED waiting

ReplyNext == \/ \E c \in Callers : CallerWakes(c) \/ CallReceiver(c)
             \/ ReceiveCall \/ ReceiverLine

\* "we should still eventually be able to return to the Generator"
\* (testreplycapprotection.camkes:23).
ReplyDone == caller["g"] = "returned"
=============================================================================
