----------------------------- MODULE SpinSocket -----------------------------
(* The application socket: Sender hands a text to Transport and Transport to *)
(* Receiver, each through a dataport with a spin lock, a flag full and data. *)
(* The lock is initialised by the side that writes; a notification tells the *)
(* reader.  strcpy takes several steps.                                      *)
EXTENDS Naturals, Sequences

CONSTANT Message        \* "hello world", as the pieces strcpy copies

ASSUME MessageAssumption == Message \in Seq(STRING)

Ports == {"incoming", "outgoing"}     \* of Transport
Stages == {"sender", "transport", "receiver"}

VARIABLES
  stage,                \* where each component is
  lock, full, data,     \* socket_t of each dataport
  setup,                \* the notifications
  shown                 \* what Receiver prints

spinVars == <<stage, lock, full, data, setup, shown>>

SpinInit ==
  /\ stage = [c \in Stages |-> IF c = "sender" THEN "init" ELSE "setup"]
  /\ lock = [p \in Ports |-> FALSE] /\ full = [p \in Ports |-> FALSE]
  /\ data = [p \in Ports |-> <<>>]
  /\ setup = [c \in Stages |-> FALSE]
  /\ shown = <<>>

At(c, s) == stage[c] = s
To(c, s) == stage' = [stage EXCEPT ![c] = s]

\* The port a component writes, and the one it reads.
Writes(c) == IF c = "sender" THEN "incoming" ELSE "outgoing"
Reads(c) == IF c = "transport" THEN "incoming" ELSE "outgoing"
NextStage(c) == IF c = "sender" THEN "transport" ELSE "receiver"

\* setup_wait
WaitSetup(c) ==
  /\ At(c, "setup") /\ setup[c]
  /\ setup' = [setup EXCEPT ![c] = FALSE]
  /\ To(c, IF c = "transport" THEN "init" ELSE "poll")
  /\ UNCHANGED <<lock, full, data, shown>>

\* sync_spinlock_init, then init_emit.
InitLock(c) ==
  \/ /\ At(c, "init")
     /\ lock' = [lock EXCEPT ![Writes(c)] = FALSE]
     /\ To(c, "emit") /\ UNCHANGED <<setup, full, data, shown>>
  \/ /\ At(c, "emit")
     /\ setup' = [setup EXCEPT ![NextStage(c)] = TRUE]
     /\ To(c, IF c = "sender" THEN "send" ELSE "poll")
     /\ UNCHANGED <<lock, full, data, shown>>

\* The reader takes the lock and looks at full; if it is not set it gives the
\* lock back and tries again.
TakePoll(c) ==
  /\ At(c, "poll") /\ ~lock[Reads(c)]
  /\ lock' = [lock EXCEPT ![Reads(c)] = TRUE]
  /\ To(c, "look")
  /\ UNCHANGED <<full, data, setup, shown>>

Look(c) ==
  /\ At(c, "look")
  /\ \/ /\ ~full[Reads(c)]
        /\ lock' = [lock EXCEPT ![Reads(c)] = FALSE]
        /\ To(c, "poll") /\ UNCHANGED <<full, data, setup, shown>>
     \/ /\ full[Reads(c)] /\ c = "receiver"
        /\ shown' = data[Reads(c)]
        /\ To(c, "leave") /\ UNCHANGED <<lock, full, data, setup>>
     \/ /\ full[Reads(c)] /\ c = "transport"
        /\ To(c, "send") /\ UNCHANGED <<lock, full, data, setup, shown>>

\* The writer takes its lock, copies, sets full, and gives the lock back.
TakeSend(c) ==
  /\ At(c, "send") /\ ~lock[Writes(c)]
  /\ lock' = [lock EXCEPT ![Writes(c)] = TRUE]
  /\ To(c, "copy")
  /\ UNCHANGED <<full, data, setup, shown>>

Source(c) == IF c = "sender" THEN Message ELSE data["incoming"]
CopyPiece(c) ==
  /\ At(c, "copy")
  /\ LET n == Len(data[Writes(c)])
     IN  IF n < Len(Source(c))
         THEN /\ data' = [data EXCEPT ![Writes(c)] = Append(@, Source(c)[n + 1])]
              /\ UNCHANGED <<full, stage>>
         ELSE /\ full' = [full EXCEPT ![Writes(c)] = TRUE]
              /\ To(c, "give") /\ UNCHANGED data
  /\ UNCHANGED <<lock, setup, shown>>

Give(c) ==
  /\ At(c, "give")
  /\ lock' = [lock EXCEPT ![Writes(c)] = FALSE]
  /\ To(c, IF c = "sender" THEN "done" ELSE "leave")
  /\ UNCHANGED <<full, data, setup, shown>>

Leave(c) ==
  /\ At(c, "leave")
  /\ lock' = [lock EXCEPT ![Reads(c)] = FALSE]
  /\ To(c, "done")
  /\ UNCHANGED <<full, data, setup, shown>>
-----------------------------------------------------------------------------
SpinStep(c) == \/ WaitSetup(c) \/ InitLock(c) \/ TakePoll(c) \/ Look(c)
               \/ TakeSend(c) \/ CopyPiece(c) \/ Give(c) \/ Leave(c)
SpinNext == \E c \in Stages : SpinStep(c)

\* A lock initialised once has one owner at a time, although one side
\* initialises it and the other may be quicker to take it: between TakePoll or
\* TakeSend and giving it back no other component has it, and what is seen with
\* full set is the whole text.
SpinExclusive ==
  /\ \A p \in Ports :
       LET In(c) == \/ Reads(c) = p /\ c # "sender" /\ stage[c] \in {"look", "leave"}
                    \/ Reads(c) = p /\ c = "transport" /\ stage[c] \in {"send", "copy", "give"}
                    \/ Writes(c) = p /\ c # "receiver" /\ stage[c] \in {"copy", "give"}
       IN  \A c, d \in Stages : In(c) /\ In(d) => c = d
  /\ \A p \in Ports : full[p] => data[p] = Message
  /\ At("receiver", "leave") => shown = Message

SpinDone == (\A c \in Stages : At(c, "done")) /\ shown = Message
=============================================================================
